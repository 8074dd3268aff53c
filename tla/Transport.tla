----------------------------- MODULE Transport -----------------------------
(***************************************************************************)
(* MinamoTransport (shared/transport.js): the one connection of a tracker  *)
(* or viewer page, the calls of connectAuto that try the modes of their    *)
(* fallback plan one after the other, and the slot of the newest datagram. *)
(*                                                                         *)
(* One thread: what runs between two awaits of a connection, a timer or a  *)
(* write is a step; the hop of `await this.close()` is part of the step,   *)
(* since nothing but this chain of microtasks runs in between.  A call in  *)
(* progress is not cancelled by a later call or by close(): it learns only *)
(* that its connection failed.                                             *)
(***************************************************************************)
EXTENDS Integers, Sequences, FiniteSets

CONSTANTS
  Calls,       \* calls of connectAuto that may be in progress at once
  Conns,       \* WebSocket, WebTransport and BroadcastChannel objects
  None,        \* null
  Requests,    \* the modes the page may ask for
  MaxStale     \* bound: unsettled writes of closed connections that are followed

ASSUME TransportAssumption ==
  /\ None \notin Calls \cup Conns
  /\ Requests \subseteq {"wt", "ws", "local"}
  /\ MaxStale \in Nat

VARIABLES
  conn,      \* what each connection object is up to
  kind,      \* its mode
  cur,       \* this._ws, this._wt or this._bc: the one that is not null
  mode,      \* this.mode
  job,       \* per call: the modes left to try, and the connection it awaits
  latest,    \* history: the last call made, unless close() was asked for since
  slot,      \* _wtNewestDatagram: for which connection send() was given it
  inFlight,  \* _wtWriteInFlight
  live,      \* unsettled writes of the current connection
  stale,     \* unsettled writes of closed connections
  strayed    \* history: a datagram went to another connection than it was for

connVars  == <<conn, kind, cur, mode>>
writeVars == <<slot, inFlight, live, stale, strayed>>
vars == <<connVars, job, latest, writeVars>>

\* "aborted" and "closing": closed by the page while connecting or open, its
\* last callback still to come;  "dead": closed by the other side, but not yet
\* replaced.
ConnStates == {"unused", "connecting", "open", "aborted", "closing", "dead"}
Modes == {"wt", "ws", "local"}

\* transportFallbackPlan with the pages' options: local is no fallback of a
\* network mode.  (Without WebTransport, or a usable URL for it, a request for wt
\* has the plan of one for ws; with an empty plan the call throws at once.)
Plan(requested) == IF requested = "wt" THEN <<"wt", "ws">> ELSE <<requested>>

NoJob == [plan |-> <<>>, conn |-> None]
InProgress(k) == job[k] # NoJob

HasWriter == cur # None /\ kind[cur] = "wt" /\ conn[cur] \in {"open", "dead"}

\* Besides the types: this.mode is the installed connection's, and a call in
\* progress awaits a connection of the first mode it has left.
TypeOK ==
  /\ conn \in [Conns -> ConnStates] /\ kind \in [Conns -> Modes]
  /\ cur \in Conns \cup {None}
  /\ mode = IF cur = None THEN None ELSE kind[cur]
  /\ job \in [Calls -> [plan : Seq(Modes), conn : Conns \cup {None}]]
  /\ \A k \in Calls : InProgress(k) => job[k].conn # None /\ job[k].plan # <<>>
  /\ latest \in Calls \cup {None}
  /\ slot \in Conns \cup {None}
  /\ inFlight \in BOOLEAN /\ strayed \in BOOLEAN
  /\ live \in 0 .. 1 + MaxStale /\ stale \in 0 .. MaxStale

Init ==
  /\ conn = [c \in Conns |-> "unused"] /\ kind = [c \in Conns |-> "local"]
  /\ cur = None /\ mode = None
  /\ job = [k \in Calls |-> NoJob]
  /\ latest = None
  /\ slot = None /\ inFlight = FALSE /\ live = 0 /\ stale = 0 /\ strayed = FALSE

-----------------------------------------------------------------------------
(* close() and connect() *)

Shut(c) ==
  CASE conn[c] = "connecting" -> "aborted"
    [] conn[c] = "open" /\ kind[c] # "local" -> "closing"
    [] OTHER -> "unused"

\* Mutation of AfterClose: connect() does not begin with close().
AfterNoClose(ended) == [c \in Conns |-> IF c \in ended THEN "unused" ELSE conn[c]]

\* The installed connection is closed; `ended` have had their last callback.
AfterClose(ended) ==
  [c \in Conns |-> IF c \in ended THEN "unused" ELSE IF c = cur THEN Shut(c) ELSE conn[c]]

\* Writes of a closed connection may settle late, or never.
WritesGoStale ==
  /\ live' = 0
  /\ stale' \in stale .. (IF stale + live < MaxStale THEN stale + live ELSE MaxStale)

\* Mutation of ForgetWrites: the pending datagram stays in its slot.
ForgetFlightOnly == inFlight' = FALSE /\ WritesGoStale /\ UNCHANGED <<slot, strayed>>

\* Mutation of ForgetWrites: the write in flight is still waited for.
ForgetSlotOnly == slot' = None /\ WritesGoStale /\ UNCHANGED <<inFlight, strayed>>

\* close() forgets the datagram that waits and the write that runs.
ForgetWrites == slot' = None /\ inFlight' = FALSE /\ WritesGoStale /\ UNCHANGED strayed

\* Mutation of CloseCurrent: this.mode outlives its connection.
CloseKeepingMode(ended) ==
  /\ conn' = AfterClose(ended)
  /\ cur' = None
  /\ ForgetWrites
  /\ UNCHANGED <<kind, mode>>

CloseCurrent(ended) ==
  /\ conn' = AfterClose(ended)
  /\ cur' = None /\ mode' = None
  /\ ForgetWrites
  /\ UNCHANGED kind

Spare == {c \in Conns : conn[c] = "unused"}

\* connect() for the first mode of the plan, up to its await.  A channel is open
\* at once, and its call done.  (An endpoint that does not validate is an attempt
\* that fails next.)
Attempt(k, plan, ended) ==
  /\ Spare # {}
  /\ LET c == CHOOSE x \in Spare : TRUE
         m == Head(plan)
         done == m = "local"
     IN  /\ conn' = [AfterClose(ended) EXCEPT ![c] = IF done THEN "open" ELSE "connecting"]
         /\ kind' = [kind EXCEPT ![c] = m]
         /\ cur' = c /\ mode' = m
         /\ job' = [job EXCEPT ![k] = IF done THEN NoJob ELSE [plan |-> plan, conn |-> c]]
  /\ ForgetWrites

\* Disconnect is pressed, or a replay starts.
Close ==
  /\ cur # None
  /\ CloseCurrent({})
  /\ latest' = None
  /\ UNCHANGED job

-----------------------------------------------------------------------------
(* connectAuto *)

\* Connect is pressed, or the page was opened with a room.
ConnectAuto(k, requested) ==
  /\ ~InProgress(k)
  /\ Cardinality(Spare) > Cardinality(Calls)   \* bound: objects for every fallback
  /\ Attempt(k, Plan(requested), {})
  /\ latest' = k

\* Mutation of GiveUp: the plan is not advanced.
GiveUpRetrying(k, ended) == Attempt(k, job[k].plan, ended) /\ UNCHANGED latest

\* The catch of connectAuto's loop: whatever is installed by now is closed, and
\* the next mode is tried, or the call throws.
GiveUp(k, ended) ==
  /\ IF Len(job[k].plan) > 1
     THEN Attempt(k, Tail(job[k].plan), ended)
     ELSE CloseCurrent(ended) /\ job' = [job EXCEPT ![k] = NoJob]
  /\ UNCHANGED latest

\* The connection is established: onopen, or wt.ready.
Opened(k) ==
  /\ InProgress(k) /\ conn[job[k].conn] = "connecting"
  /\ conn' = [conn EXCEPT ![job[k].conn] = "open"]
  /\ job' = [job EXCEPT ![k] = NoJob]
  /\ UNCHANGED <<kind, cur, mode, latest, writeVars>>

\* The connection failed: it was refused, or the page itself has closed it.
Failed(k) ==
  /\ InProgress(k) /\ conn[job[k].conn] \in {"connecting", "aborted"}
  /\ GiveUp(k, {job[k].conn})

\* The time-out of promiseWithTimeout.
TimedOut(k) == InProgress(k) /\ GiveUp(k, {})

\* The other side closes the connection.
Dropped ==
  /\ cur # None /\ kind[cur] # "local" /\ conn[cur] = "open"
  /\ conn' = [conn EXCEPT ![cur] = "dead"]
  /\ UNCHANGED <<kind, cur, mode, job, latest, writeVars>>

\* The last callback of a connection that no call awaits.
Ended(c) ==
  /\ conn[c] \in {"aborted", "closing"}
  /\ \A k \in Calls : job[k].conn # c
  /\ conn' = [conn EXCEPT ![c] = "unused"]
  /\ UNCHANGED <<kind, cur, mode, job, latest, writeVars>>

-----------------------------------------------------------------------------
(* send() over WebTransport *)

\* _flushNewestDatagram, with the datagram for a connection in the slot.
Flush(waiting) ==
  IF waiting # None /\ HasWriter
  THEN /\ slot' = None /\ inFlight' = TRUE
       /\ live' = live + 1
       /\ strayed' = (strayed \/ waiting # cur)
  ELSE /\ slot' = waiting /\ inFlight' = FALSE
       /\ UNCHANGED <<live, strayed>>

\* A datagram takes the slot, over one that still waits there.
Send ==
  /\ HasWriter
  /\ IF inFlight THEN slot' = cur /\ UNCHANGED <<inFlight, live, strayed>> ELSE Flush(cur)
  /\ UNCHANGED <<connVars, job, latest, stale>>

\* A write on the current connection settles.
WriteSettled ==
  /\ live > 0
  /\ slot' = None
  /\ IF slot # None /\ HasWriter
     THEN inFlight' = TRUE /\ strayed' = (strayed \/ slot # cur) /\ UNCHANGED live
     ELSE inFlight' = FALSE /\ live' = live - 1 /\ UNCHANGED strayed
  /\ UNCHANGED <<connVars, job, latest, stale>>

\* A write on a closed connection settles: its `finally` cannot tell.
StaleWriteSettled ==
  /\ stale > 0
  /\ stale' = stale - 1
  /\ Flush(slot)
  /\ UNCHANGED <<connVars, job, latest>>

-----------------------------------------------------------------------------

Next ==
  \/ \E k \in Calls :
       \/ \E requested \in Requests : ConnectAuto(k, requested)
       \/ Opened(k) \/ Failed(k) \/ TimedOut(k)
  \/ Close \/ Dropped \/ \E c \in Conns : Ended(c)
  \/ Send \/ WriteSettled \/ StaleWriteSettled

\* Timers fire, the browser reports the end of a connection that was closed, and
\* writes on an open connection settle.  No relay need answer, and nobody need
\* press a button or send.
Fairness ==
  /\ \A k \in Calls : WF_vars(TimedOut(k))
  /\ \A c \in Conns : WF_vars(Ended(c))
  /\ WF_vars(cur # None /\ conn[cur] = "open" /\ WriteSettled)

Spec == Init /\ [][Next]_vars /\ Fairness

-----------------------------------------------------------------------------

\* However calls, time-outs, failures and close() overlap, every connection that
\* is open or connecting is the installed one: none is left behind for nobody to
\* close (connect, connectAuto's catch, close).
NoOrphans == \A c \in Conns : conn[c] \in {"connecting", "open"} => c = cur

\* A datagram given to send() is written to the connection of that moment or to
\* none: a reconnect in between does not carry it into another room.
DatagramsStay == ~strayed

\* The slot is emptied as long as the connection is open: no write of an earlier
\* connection, settled or not, keeps the flag set for ever.
SlotDrains ==
  slot # None ~> (slot = None \/ cur = None \/ (cur # None /\ conn[cur] # "open"))

\* Every call of connectAuto ends, with a connection or with an error.
CallsEnd == \A k \in Calls : InProgress(k) ~> ~InProgress(k)

\* The connection of the last call made is closed by nobody but the user: its
\* modes are given up when they are refused or time out
\* (docs/transport/webtransport-realtime.md 29, "If WebTransport is
\* unavailable"; transport.js 116, "unavailable ...; trying fallback").
LastCallUndisturbed ==
  latest # None /\ InProgress(latest) => conn[job[latest].conn] # "aborted"
=============================================================================
