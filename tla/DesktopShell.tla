---------------------------- MODULE DesktopShell ----------------------------
(***************************************************************************)
(* How the desktop shell (src-tauri/src/lib.rs) hands an avatar file to    *)
(* the viewer window: the studio's button picks it, the store keeps the    *)
(* newest selection under a revision, and the viewer learns of it by an    *)
(* event or by asking, whichever comes first, and reads it by revision     *)
(* (viewer/viewer.js).  Commands run on the shell's threads; a page is one *)
(* thread, and what is sent to it arrives in any order.                    *)
(***************************************************************************)
EXTENDS Naturals, Sequences

CONSTANTS
  MaxRevision,   \* bound: files picked
  MaxPages       \* bound: viewer pages loaded after the first

ASSUME ShellAssumption == MaxRevision \in Nat /\ MaxPages \in Nat

VARIABLES
  store,    \* NativeAvatarStore: the revision of the newest selection; 0: none
  picking,  \* pick_native_avatar: "idle", "stored", "building" or "opened"
  window,   \* the window labelled viewer exists
  viewer,   \* the page in it
  inbox,    \* on their way to it: events, answers to native_avatar_info
  reads,    \* its calls of read_native_avatar, by revision
  parsing,  \* revisions whose file it parses
  opens,    \* bound: pages loaded so far
  served    \* history: revisions whose file it has shown, and those that failed

shellVars == <<store, picking, window, viewer, inbox, reads, parsing, opens, served>>
viewerVars == <<viewer, inbox, reads, parsing, served>>

Revisions == 1 .. MaxRevision

\* The page before its script has run.
FreshPage ==
  /\ viewer' = [phase |-> "booting", requested |-> 0]
  /\ inbox' = {} /\ reads' = {} /\ parsing' = {} /\ served' = [shown |-> <<>>, failed |-> {}]

ShellInit ==
  /\ store = 0 /\ picking = "idle" /\ window = FALSE /\ opens = 0
  /\ viewer = [phase |-> "booting", requested |-> 0]
  /\ inbox = {} /\ reads = {} /\ parsing = {} /\ served = [shown |-> <<>>, failed |-> {}]
-----------------------------------------------------------------------------
\* The shell.

\* pick_native_avatar, up to open_viewer: a dialog that was cancelled and a file that
\* is none of ours leave no trace.  The button is disabled until it returns.
Pick ==
  /\ picking = "idle" /\ store < MaxRevision
  /\ store' = store + 1 /\ picking' = "stored"
  /\ UNCHANGED <<window, viewerVars, opens>>

\* open_app_window: a window that exists gets the focus.
OpenViewer ==
  /\ picking = "stored"
  /\ picking' = IF window THEN "opened" ELSE "building"
  /\ UNCHANGED <<store, window, viewerVars, opens>>

\* WebviewWindowBuilder.build fails if the label was taken meanwhile.
Build ==
  /\ picking = "building"
  /\ IF window THEN picking' = "idle" /\ UNCHANGED <<window, viewerVars, opens>>
     ELSE /\ opens < MaxPages
          /\ picking' = "opened" /\ window' = TRUE /\ opens' = opens + 1
          /\ FreshPage
  /\ UNCHANGED store

\* native-avatar-selected reaches pages that listen.
Emit ==
  /\ picking = "opened"
  /\ picking' = "idle"
  /\ inbox' = IF window /\ viewer.phase \in {"listening", "asked"}
              THEN inbox \cup {[kind |-> "event", rev |-> store]} ELSE inbox
  /\ UNCHANGED <<store, window, viewer, reads, parsing, opens, served>>

\* native_avatar_info: the selection as it is now; null when there is none.
NativeAvatarInfo ==
  /\ viewer.phase = "listening"
  /\ viewer' = [viewer EXCEPT !.phase = "asked"]
  /\ inbox' = IF store = 0 THEN inbox ELSE inbox \cup {[kind |-> "answer", rev |-> store]}
  /\ UNCHANGED <<store, picking, window, reads, parsing, opens, served>>

\* read_native_avatar: refused unless it is for the file selected now; the file
\* itself may be gone or unreadable.
ReadNativeAvatar(rev, readable) ==
  /\ [rev |-> rev, state |-> "asked"] \in reads
  /\ reads' = (reads \ {[rev |-> rev, state |-> "asked"]})
                \cup {[rev |-> rev, state |-> IF store = rev /\ readable THEN "bytes" ELSE "error"]}
  /\ UNCHANGED <<store, picking, window, viewer, inbox, parsing, opens, served>>
-----------------------------------------------------------------------------
\* The viewer.

\* The studio's button for the viewer: open_app_window without a file.
OpenedElsewhere ==
  /\ ~window /\ opens < MaxPages
  /\ window' = TRUE /\ opens' = opens + 1
  /\ FreshPage
  /\ UNCHANGED <<store, picking>>

Reload ==
  /\ window /\ opens < MaxPages
  /\ opens' = opens + 1
  /\ FreshPage
  /\ UNCHANGED <<store, picking, window>>

CloseWindow ==
  /\ window
  /\ window' = FALSE
  /\ FreshPage
  /\ UNCHANGED <<store, picking, opens>>

\* initializeNativeAvatarBridge: tauriListen is awaited before the shell is asked.
Listen ==
  /\ window /\ viewer.phase = "booting"
  /\ viewer' = [viewer EXCEPT !.phase = "listening"]
  /\ UNCHANGED <<store, picking, window, inbox, reads, parsing, opens, served>>

\* Mutant: the last announcement to arrive is the one to load.
IsNewsAnyway(rev) == rev # viewer.requested

\* The early return of loadNativeAvatar.
IsNews(rev) == rev > viewer.requested

\* loadNativeAvatar, up to its await.
LoadNativeAvatar(message) ==
  /\ inbox' = inbox \ {message}
  /\ IF IsNews(message.rev)
     THEN /\ viewer' = [viewer EXCEPT !.requested = message.rev]
          /\ reads' = reads \cup {[rev |-> message.rev, state |-> "asked"]}
     ELSE UNCHANGED <<viewer, reads>>
  /\ UNCHANGED <<store, picking, window, parsing, opens, served>>

\* loadNativeAvatar after its await: a file that was overtaken is dropped, its error too.
ReadArrives(read) ==
  /\ read.state # "asked"
  /\ reads' = reads \ {read}
  /\ parsing' = IF read.rev = viewer.requested /\ read.state = "bytes"
                THEN parsing \cup {read.rev} ELSE parsing
  /\ served' = IF read.rev = viewer.requested /\ read.state = "error"
               THEN [served EXCEPT !.failed = @ \cup {read.rev}] ELSE served
  /\ UNCHANGED <<store, picking, window, viewer, inbox, opens>>

\* loadInochi2DFile and loadVrmFile await the parser; the model is shown then.
Parsed(rev) ==
  /\ parsing' = parsing \ {rev}
  /\ served' = [served EXCEPT !.shown = Append(@, rev)]
  /\ UNCHANGED <<store, picking, window, viewer, inbox, reads, opens>>
-----------------------------------------------------------------------------
ShellNext ==
  \/ Pick \/ OpenViewer \/ Build \/ Emit \/ NativeAvatarInfo
  \/ \E rev \in Revisions, readable \in BOOLEAN : ReadNativeAvatar(rev, readable)
  \/ OpenedElsewhere \/ Reload \/ CloseWindow \/ Listen
  \/ \E message \in inbox : LoadNativeAvatar(message)
  \/ \E read \in reads : ReadArrives(read)
  \/ \E rev \in parsing : Parsed(rev)

ShellSpec == ShellInit /\ [][ShellNext]_shellVars

\* Nothing is on its way between the shell and a page that has started.
Settled ==
  /\ picking = "idle" /\ window /\ viewer.phase = "asked"
  /\ inbox = {} /\ reads = {} /\ parsing = {}

\* The file picked last reaches the viewer, whenever it was picked while the window
\* was opened, reloaded or still starting, and however events, answers and older
\* reads overtake each other: once things have settled the page has shown it, or it
\* could not be read.  No revision is loaded twice (pick_native_avatar,
\* initializeNativeAvatarBridge, loadNativeAvatar).
PickedFileArrives ==
  /\ Settled /\ store > 0 =>
       store \in served.failed \cup {served.shown[i] : i \in DOMAIN served.shown}
  /\ \A i, j \in DOMAIN served.shown : served.shown[i] = served.shown[j] => i = j
=============================================================================
