---------------------------- MODULE TrackerProofs ----------------------------
(***************************************************************************)
(* Proofs about the capturing side: the tracker page's devices, the hand   *)
(* stabiliser, the OBS bridge, the delta codec and the percussion kits.    *)
(* Each section proves, for every value of its component's constants, what *)
(* tracker.cfg checks on small instances.                                  *)
(***************************************************************************)
EXTENDS TrackerMedia, HandZones, ObsBridge, Kgm2, DrumKit, FiniteSetTheorems, SequenceTheorems, TLAPS

-----------------------------------------------------------------------------
(***************************************************************************)
(* The tracker page's devices, for any number of handlers under way, camera *)
(* modes, situations and calibrations.                                     *)
(*                                                                         *)
(* DevicesFollowPage speaks of a page nobody works on.  DevicesInv says how far *)
(* each handler has come: what it still has to do is one of a few lists    *)
(* (Todos), whatever is live is held by the page, by a handler that was given *)
(* it, or belongs to one that has yet to ask (StreamsFit, NoStray), of two *)
(* handlers for one device the later wins (InOrder), and whether hands are *)
(* tracked is decided by the last who had the model (HandsFit).            *)
(***************************************************************************)

\* A set of naturals has a least member: no member of the set of intervals 0 .. n is minimal
\* otherwise.
LEMMA LeastNatural ==
  ASSUME NEW T \in SUBSET Nat, T # {}
  PROVE  \E n \in T : \A m \in T : n <= m
<1> DEFINE Below == {0 .. n : n \in T}
<1>1. Below \subseteq FiniteSubsetsOf(Nat) /\ Below # {}
  <2>1. ASSUME NEW n \in T PROVE 0 .. n \in FiniteSubsetsOf(Nat)
    <3>1. IsFiniteSet(0 .. n)
      BY FS_Interval
    <3> QED
      BY <3>1 DEF FiniteSubsetsOf
  <2> QED
    BY <2>1
<1>2. PICK X \in Below : \A Y \in Below : <<Y, X>> \notin StrictSubsetOrdering(Nat)
  <2> HIDE DEF Below
  <2> QED BY <1>1, FS_StrictSubsetOrderingWellFounded, WFMin
<1>3. PICK n \in T : X = 0 .. n
  OBVIOUS
<1>4. ASSUME NEW m \in T, m < n PROVE FALSE
  <2>1. 0 .. m \in Below /\ 0 .. m \subseteq X /\ n \in X /\ n \notin 0 .. m
    BY <1>3, <1>4
  <2> QED
    BY <1>1, <1>2, <2>1 DEF StrictSubsetOrdering, FiniteSubsetsOf
<1> QED
  BY <1>4

\* The least member of a set of naturals.
LEMMA LeastIsMin ==
  ASSUME NEW S \in SUBSET Nat, NEW n \in S, \A m \in S : n <= m
  PROVE  Min(S) = n
<1>1. Min(S) \in S /\ \A m \in S : Min(S) <= m
  BY DEF Min
<1>2. PICK k \in Nat : k = Min(S)
  BY <1>1
<1>3. k <= n /\ n <= k /\ n \in Nat
  BY <1>1, <1>2
<1> QED
  BY <1>2, <1>3

---------------------------------------------------------------------------
(* The devices of the tracker page.                                        *)

Steps == {"models", "firstHand", "camera", "metadata", "controls", "voice", "lipsync", "hands",
          "audio", "recamera"}

\* What comes after a step is the same in a list and in its tail.
LEMMA Shifted ==
  ASSUME NEW s \in Seq(Steps), NEW t \in Seq(Steps), NEW n \in Nat, Len(s) = n, Len(t) = n - 1,
         \A i \in 1 .. n - 1 : t[i] = s[i + 1], NEW m \in 1 .. n - 1
  PROVE  SubSeq(s, m + 1, n) = SubSeq(t, m, n - 1)
<1>1. PICK a : a = SubSeq(s, m + 1, n)
  OBVIOUS
<1>2. PICK b : b = SubSeq(t, m, n - 1)
  OBVIOUS
<1>3. /\ a \in Seq(Steps) /\ Len(a) = n - m
      /\ \A i \in 1 .. n - m : a[i] = s[m + i]
  <2>1. m + 1 \in Int /\ n \in Int /\ m + 1 <= n
    OBVIOUS
  <2>2. \A i \in m + 1 .. n : s[i] \in Steps
    OBVIOUS
  <2>3. /\ a \in Seq(Steps) /\ Len(a) = n - (m + 1) + 1
        /\ \A i \in 1 .. n - (m + 1) + 1 : a[i] = s[(m + 1) + i - 1]
    BY <1>1, <2>1, <2>2, SubSeqProperties
  <2>4. n - (m + 1) + 1 = n - m /\ \A i \in 1 .. n - m : (m + 1) + i - 1 = m + i
    OBVIOUS
  <2> QED
    BY <2>3, <2>4
<1>4. /\ b \in Seq(Steps) /\ Len(b) = n - m
      /\ \A i \in 1 .. n - m : b[i] = t[m + i - 1]
  <2>1. m \in Int /\ n - 1 \in Int /\ m <= n - 1
    OBVIOUS
  <2>2. \A i \in m .. n - 1 : t[i] \in Steps
    OBVIOUS
  <2>3. /\ b \in Seq(Steps) /\ Len(b) = (n - 1) - m + 1
        /\ \A i \in 1 .. (n - 1) - m + 1 : b[i] = t[m + i - 1]
    BY <1>2, <2>1, <2>2, SubSeqProperties
  <2>4. (n - 1) - m + 1 = n - m
    OBVIOUS
  <2> QED
    BY <2>3, <2>4
<1>5. ASSUME NEW i \in 1 .. n - m PROVE a[i] = b[i]
  <2>1. m + i - 1 \in 1 .. n - 1 /\ (m + i - 1) + 1 = m + i
    OBVIOUS
  <2> QED
    BY <1>3, <1>4, <2>1
<1> QED
  BY <1>1, <1>2, <1>3, <1>4, <1>5, SeqEqual

\* A handler passes over the steps that have nothing to wait for.
LEMMA RestOf ==
  ASSUME NEW pg, NEW todo \in Seq(Steps)
  PROVE  /\ todo = <<>> => Rest(pg, todo) = <<>>
         /\ todo # <<>> /\ Await(pg, Head(todo)) # "no" => Rest(pg, todo) = todo
         /\ todo # <<>> /\ Await(pg, Head(todo)) = "no" => Rest(pg, todo) = Rest(pg, Tail(todo))
<1> DEFINE waits(s) == {i \in DOMAIN s : Await(pg, s[i]) # "no"}
<1>0. ASSUME NEW s PROVE Rest(pg, s) = IF waits(s) = {} THEN <<>> ELSE SubSeq(s, Min(waits(s)), Len(s))
  BY DEF Rest
<1>1. CASE todo = <<>>
  <2>1. waits(todo) = {}
    BY <1>1
  <2>2. Rest(pg, todo) = <<>>
    <3> HIDE DEF waits
    <3> QED
      BY <1>0, <2>1
  <2> QED
    BY <1>1, <2>2
<1>2. CASE todo # <<>> /\ Await(pg, Head(todo)) # "no"
  <2>1. 1 \in waits(todo) /\ waits(todo) \in SUBSET Nat /\ \A m \in waits(todo) : 1 <= m
    BY <1>2
  <2>2. Min(waits(todo)) = 1
    BY <2>1, LeastIsMin
  <2> QED
    BY <1>0, <1>2, <2>1, <2>2, SubSeqFull
<1>3. CASE todo # <<>> /\ Await(pg, Head(todo)) = "no"
  <2> DEFINE tail == Tail(todo)
             n == Len(todo)
  <2>1. /\ tail \in Seq(Steps) /\ n \in Nat /\ n >= 1 /\ Len(tail) = n - 1
        /\ \A i \in 1 .. n - 1 : tail[i] = todo[i + 1]
        /\ todo[1] = Head(todo)
    BY <1>3, HeadTailProperties
  <2>2. ASSUME NEW i PROVE i \in waits(todo) <=> i \in Nat /\ i - 1 \in waits(tail)
    <3>1. CASE i \in 2 .. n
      BY <2>1, <3>1
    <3>2. CASE i = 1
      BY <1>3, <2>1, <3>2
    <3>3. CASE i \notin 1 .. n
      BY <2>1, <3>3
    <3> QED
      BY <2>1, <3>1, <3>2, <3>3
  <2>3. CASE waits(tail) = {}
    BY <1>0, <1>3, <2>2, <2>3
  <2>4. CASE waits(tail) # {}
    <3>1. waits(tail) \in SUBSET Nat /\ waits(todo) \in SUBSET Nat
      BY <2>1
    <3>2. PICK m \in waits(tail) : \A k \in waits(tail) : m <= k
      <4> HIDE DEF waits
      <4> QED
        BY <2>4, <3>1, LeastNatural
    <3>3. m \in 1 .. n - 1
      BY <2>1, <3>2
    <3>4. m + 1 \in waits(todo)
      BY <2>2, <3>1, <3>2
    <3>5. ASSUME NEW k \in waits(todo) PROVE m + 1 <= k
      <4>1. k - 1 \in waits(tail) /\ k \in Nat
        BY <2>2, <3>5
      <4>2. m <= k - 1
        <5> HIDE DEF waits
        <5> QED
          BY <3>2, <4>1
      <4> HIDE DEF waits, n
      <4> QED
        BY <2>1, <3>3, <4>1, <4>2
    <3>6. Min(waits(tail)) = m /\ Min(waits(todo)) = m + 1
      <4> HIDE DEF waits
      <4> QED
        BY <3>1, <3>2, <3>4, <3>5, LeastIsMin
    <3>7. Rest(pg, todo) = SubSeq(todo, m + 1, n) /\ Rest(pg, tail) = SubSeq(tail, m, n - 1)
      BY <1>0, <2>1, <2>4, <3>4, <3>6
    <3>8. tail = SubSeq(todo, 2, n)
      BY <1>3, TailIsSubSeq
    <3>9. SubSeq(todo, m + 1, n) = SubSeq(tail, m, n - 1)
      <4>1. todo \in Seq(Steps) /\ Len(todo) = n
        OBVIOUS
      <4> HIDE DEF waits, tail, n
      <4> QED
        BY <2>1, <3>3, <4>1, Shifted
    <3> QED
      BY <1>3, <3>7, <3>9
  <2> QED
    BY <2>3, <2>4
<1> QED
  BY <1>1, <1>2, <1>3

\* The lists of steps: a start or restart at one of its steps ...
AtVoice    == <<"voice", "lipsync">>
AtControls == <<"controls", "voice", "lipsync">>
AtMetadata == <<"metadata", "controls", "voice", "lipsync">>
AtHand     == <<"firstHand", "camera", "metadata", "controls", "voice", "lipsync">>
AtModels   == <<"models", "firstHand", "camera", "metadata", "controls", "voice", "lipsync">>
\* ... and a situation at one of its turns.
AtHands    == <<"hands", "audio", "recamera">>
AtAudio    == <<"audio", "recamera">>
AtMic      == <<"lipsync", "recamera">>

Starts(s, h, r) == s \in Seq(Steps) /\ s # <<>> /\ Head(s) = h /\ Tail(s) = r

\* A step put before a list is its head.
LEMMA PutFirst ==
  ASSUME NEW s \in Seq(Steps), NEW r \in Seq(Steps), Len(s) = Len(r) + 1,
         \A i \in 1 .. Len(r) : s[i + 1] = r[i]
  PROVE  Starts(s, s[1], r)
<1>1. s # <<>> /\ Len(s) \in Nat /\ Len(r) \in Nat
  OBVIOUS
<1>2. /\ Tail(s) \in Seq(Steps) /\ Len(Tail(s)) = Len(r)
      /\ \A i \in 1 .. Len(r) : Tail(s)[i] = s[i + 1]
      /\ Head(s) = s[1]
  BY <1>1, HeadTailProperties
<1>3. Tail(s) = r
  BY <1>2, SeqEqual
<1> QED
  BY <1>1, <1>2, <1>3 DEF Starts

\* Two lists of steps, one after the other.
LEMMA PutTogether ==
  ASSUME NEW a \in Seq(Steps), NEW b \in Seq(Steps), NEW c \in Seq(Steps), 
         Len(c) = Len(a) + Len(b),
         \A i \in 1 .. Len(c) : c[i] = IF i <= Len(a) THEN a[i] ELSE b[i - Len(a)]
  PROVE  a \o b = c
<1> DEFINE d == a \o b
<1>1. d \in Seq(Steps) /\ Len(d) = Len(c)
      /\ \A i \in 1 .. Len(c) : d[i] = IF i <= Len(a) THEN a[i] ELSE b[i - Len(a)]
  BY ConcatProperties
<1>2. \A i \in 1 .. Len(c) : d[i] = c[i]
  <2> HIDE DEF d
  <2> QED BY <1>1
<1>3. d = c
  <2> HIDE DEF d
  <2> QED BY <1>1, <1>2, SeqEqual
<1> QED
  BY <1>3

\* The lists of steps the handlers are made of, unfolded.
LEMMA StepLists ==
  /\ <<>> \in Seq(Steps)
  /\ Starts(<<"voice">>, "voice", <<>>)
  /\ Starts(<<"lipsync">>, "lipsync", <<>>)
  /\ Starts(<<"hands">>, "hands", <<>>)
  /\ Starts(<<"recamera">>, "recamera", <<>>)
  /\ Starts(AtVoice, "voice", <<"lipsync">>)
  /\ Starts(AtControls, "controls", AtVoice)
  /\ Starts(AtMetadata, "metadata", AtControls)
  /\ Starts(CameraSteps, "camera", AtMetadata)
  /\ Starts(AtHand, "firstHand", CameraSteps)
  /\ Starts(AtModels, "models", AtHand)
  /\ Starts(AtMic, "lipsync", <<"recamera">>)
  /\ Starts(AtAudio, "audio", <<"recamera">>)
  /\ Starts(AtHands, "hands", AtAudio)
<1>0. /\ <<>> \in Seq(Steps) /\ <<"voice">> \in Seq(Steps) /\ <<"lipsync">> \in Seq(Steps)
      /\ <<"hands">> \in Seq(Steps) /\ <<"recamera">> \in Seq(Steps)
      /\ AtVoice \in Seq(Steps) /\ AtControls \in Seq(Steps) /\ AtMetadata \in Seq(Steps)
      /\ CameraSteps \in Seq(Steps) /\ AtHand \in Seq(Steps) /\ AtModels \in Seq(Steps)
      /\ AtMic \in Seq(Steps) /\ AtAudio \in Seq(Steps) /\ AtHands \in Seq(Steps)
  BY DEF Steps, AtVoice, AtControls, AtMetadata, CameraSteps, AtHand, AtModels, AtMic, AtAudio, AtHands
<1>1. Starts(<<"voice">>, "voice", <<>>)
  <2>1. /\ Len(<<"voice">>) = Len(<<>>) + 1 /\ <<"voice">>[1] = "voice"
        /\ \A i \in 1 .. Len(<<>>) : <<"voice">>[i + 1] = <<>>[i]
    OBVIOUS
  <2> QED
    BY <1>0, <2>1, PutFirst
<1>2. Starts(<<"lipsync">>, "lipsync", <<>>)
  <2>1. /\ Len(<<"lipsync">>) = Len(<<>>) + 1 /\ <<"lipsync">>[1] = "lipsync"
        /\ \A i \in 1 .. Len(<<>>) : <<"lipsync">>[i + 1] = <<>>[i]
    OBVIOUS
  <2> QED
    BY <1>0, <2>1, PutFirst
<1>3. Starts(<<"hands">>, "hands", <<>>)
  <2>1. /\ Len(<<"hands">>) = Len(<<>>) + 1 /\ <<"hands">>[1] = "hands"
        /\ \A i \in 1 .. Len(<<>>) : <<"hands">>[i + 1] = <<>>[i]
    OBVIOUS
  <2> QED
    BY <1>0, <2>1, PutFirst
<1>4. Starts(<<"recamera">>, "recamera", <<>>)
  <2>1. /\ Len(<<"recamera">>) = Len(<<>>) + 1 /\ <<"recamera">>[1] = "recamera"
        /\ \A i \in 1 .. Len(<<>>) : <<"recamera">>[i + 1] = <<>>[i]
    OBVIOUS
  <2> QED
    BY <1>0, <2>1, PutFirst
<1>5. Starts(AtVoice, "voice", <<"lipsync">>)
  <2>1. /\ Len(AtVoice) = Len(<<"lipsync">>) + 1 /\ AtVoice[1] = "voice"
        /\ \A i \in 1 .. Len(<<"lipsync">>) : AtVoice[i + 1] = <<"lipsync">>[i]
    BY DEF AtVoice
  <2> QED
    BY <1>0, <2>1, PutFirst
<1>6. Starts(AtControls, "controls", AtVoice)
  <2>1. /\ Len(AtControls) = Len(AtVoice) + 1 /\ AtControls[1] = "controls"
        /\ \A i \in 1 .. Len(AtVoice) : AtControls[i + 1] = AtVoice[i]
    BY DEF AtControls, AtVoice
  <2> QED
    BY <1>0, <2>1, PutFirst
<1>7. Starts(AtMetadata, "metadata", AtControls)
  <2>1. /\ Len(AtMetadata) = Len(AtControls) + 1 /\ AtMetadata[1] = "metadata"
        /\ \A i \in 1 .. Len(AtControls) : AtMetadata[i + 1] = AtControls[i]
    BY DEF AtMetadata, AtControls
  <2> QED
    BY <1>0, <2>1, PutFirst
<1>8. Starts(CameraSteps, "camera", AtMetadata)
  <2>1. /\ Len(CameraSteps) = Len(AtMetadata) + 1 /\ CameraSteps[1] = "camera"
        /\ \A i \in 1 .. Len(AtMetadata) : CameraSteps[i + 1] = AtMetadata[i]
    BY DEF CameraSteps, AtMetadata
  <2> QED
    BY <1>0, <2>1, PutFirst
<1>9. Starts(AtHand, "firstHand", CameraSteps)
  <2>1. /\ Len(AtHand) = Len(CameraSteps) + 1 /\ AtHand[1] = "firstHand"
        /\ \A i \in 1 .. Len(CameraSteps) : AtHand[i + 1] = CameraSteps[i]
    BY DEF AtHand, CameraSteps
  <2> QED
    BY <1>0, <2>1, PutFirst
<1>10. Starts(AtModels, "models", AtHand)
  <2>1. /\ Len(AtModels) = Len(AtHand) + 1 /\ AtModels[1] = "models"
        /\ \A i \in 1 .. Len(AtHand) : AtModels[i + 1] = AtHand[i]
    BY DEF AtModels, AtHand
  <2> QED
    BY <1>0, <2>1, PutFirst
<1>11. Starts(AtMic, "lipsync", <<"recamera">>)
  <2>1. /\ Len(AtMic) = Len(<<"recamera">>) + 1 /\ AtMic[1] = "lipsync"
        /\ \A i \in 1 .. Len(<<"recamera">>) : AtMic[i + 1] = <<"recamera">>[i]
    BY DEF AtMic
  <2> QED
    BY <1>0, <2>1, PutFirst
<1>12. Starts(AtAudio, "audio", <<"recamera">>)
  <2>1. /\ Len(AtAudio) = Len(<<"recamera">>) + 1 /\ AtAudio[1] = "audio"
        /\ \A i \in 1 .. Len(<<"recamera">>) : AtAudio[i + 1] = <<"recamera">>[i]
    BY DEF AtAudio
  <2> QED
    BY <1>0, <2>1, PutFirst
<1>13. Starts(AtHands, "hands", AtAudio)
  <2>1. /\ Len(AtHands) = Len(AtAudio) + 1 /\ AtHands[1] = "hands"
        /\ \A i \in 1 .. Len(AtAudio) : AtHands[i + 1] = AtAudio[i]
    BY DEF AtHands, AtAudio
  <2> QED
    BY <1>0, <2>1, PutFirst
<1> QED
  BY <1>0, <1>1, <1>2, <1>3, <1>4, <1>5, <1>6, <1>7, <1>8, <1>9, <1>10, <1>11, <1>12, <1>13

\* What a handler may still have to do: the steps of its kind, or the last of them.
Late   == {<<>>, <<"lipsync">>, AtVoice}
Opened == Late \cup {AtControls, AtMetadata}
Turns  == {AtHands, AtAudio}

\* ... and when it touches no device.
NoDevice == {<<>>, <<"hands">>, <<"recamera">>} \cup Turns

Todos(kind) ==
  CASE kind = "start" -> Opened \cup {CameraSteps, AtHand, AtModels}
    [] kind = "restart" -> Opened \cup {CameraSteps}
    [] kind \in {"voice", "lipsync", "hands"} -> {<<>>, <<kind>>}
    [] kind = "situation" -> Opened \cup {CameraSteps, <<"recamera">>, AtMic} \cup Turns
    [] OTHER -> {}

Awaited(step) ==
  CASE step = "camera" -> {"stream"}
    [] step \in {"voice", "lipsync"} -> {"mic", "worklet"}
    [] step = "hands" -> {"hand"}
    [] step \in {"audio", "recamera"} -> {"turn"}
    [] OTHER -> {step}

CameraStreams == (1 .. MaxTasks) \X {"camera"}
MicStreams    == (1 .. MaxTasks) \X {"voice", "lipsync"}

Awaits == {"no", "turn", "models", "firstHand", "hand", "stream", "metadata", "controls", "mic",
           "worklet"}

PageType ==
  [running : BOOLEAN, startEnabled : BOOLEAN, stopEnabled : BOOLEAN, src : CameraStreams \cup {None},
   voice : MicStreams \cup {None}, worklet : BOOLEAN, accents : BOOLEAN, lipsync : BOOLEAN,
   hands : BOOLEAN, mode : CameraModes, face : BOOLEAN, handModel : BOOLEAN,
   fileset : BOOLEAN, sessions : SUBSET Calibrations]

TaskType ==
  [kind : {"start", "restart", "voice", "lipsync", "hands", "situation"}, todo : Seq(Steps), await : Awaits, lipsyncBefore : BOOLEAN, modeBefore : CameraModes,
   input : MicStreams \cup {None}, overlapped : BOOLEAN, failed : BOOLEAN]

TaskFits(e) ==
  /\ e \in TaskType /\ e.todo \in Todos(e.kind)
  /\ e.await = "no" <=> e.todo = <<>>
  /\ e.todo # <<>> => e.await \in Awaited(Head(e.todo))

Held(pg) == {pg.src, pg.voice} \ {None}
Going(e) == e.await # "no"

TasksFit(ts) ==
  /\ ts \in Seq(TaskType) /\ Len(ts) <= MaxTasks
  /\ \A t \in DOMAIN ts : TaskFits(ts[t])
  /\ \A t, u \in DOMAIN ts : t # u /\ Going(ts[t]) /\ Going(ts[u]) => ts[t].overlapped

\* Streams that are live were asked for by a task; what the page holds is live.
StreamsFit(pg, ts, lv) ==
  /\ pg \in PageType /\ lv \subseteq CameraStreams \cup MicStreams
  /\ \A s \in lv : s[1] \in DOMAIN ts
  /\ Held(pg) \subseteq lv

\* A stream of a task that nothing overlapped is held, and held while the page tracks
\* or starts to.
NoStray(pg, ts, lv) ==
  /\ \A s \in lv : ~ts[s[1]].overlapped => s \in Held(pg)
  /\ \A s \in Held(pg) : ~ts[s[1]].overlapped =>
       pg.running \/ (Going(ts[s[1]]) /\ ts[s[1]].kind = "start")

\* While a device is asked for the page holds none of its kind, or one of a task that
\* was overlapped.
OneAsked(pg, ts) ==
  \A t \in DOMAIN ts :
    /\ ts[t].await = "stream" => pg.src = None \/ ts[pg.src[1]].overlapped
    /\ ts[t].await = "mic" => pg.voice = None \/ ts[pg.voice[1]].overlapped

\* What a start has opened, and how far it is.
InOrder(ts, lv) ==
  \A s \in lv : ts[s[1]].kind = "start" =>
    ts[s[1]].todo \in IF s[2] = "camera" THEN Opened ELSE Late

\* Any other task that nothing overlapped works on devices only while the page tracks.
WhileTracking(pg, ts) ==
  \A t \in DOMAIN ts :
    ~ts[t].overlapped /\ ts[t].kind # "start" /\ ts[t].todo \notin NoDevice => pg.running

\* The microphone is there for a setting, or for a situation to switch off.
MicWanted(pg, ts) ==
  (/\ \A t \in DOMAIN ts : ~ts[t].overlapped
   /\ \A t \in DOMAIN ts : ~(ts[t].kind = "situation" /\ ts[t].failed))
  => /\ pg.voice # None =>
          \/ pg.accents \/ pg.lipsync
          \/ \E t \in DOMAIN ts :
               ts[t].kind = "situation" /\ ts[t].todo \in Turns /\ ts[t].lipsyncBefore
     /\ \A t \in DOMAIN ts : ts[t].await = "mic" => pg.accents \/ pg.lipsync

DevicesFit(pg, ts, lv) ==
  /\ StreamsFit(pg, ts, lv) /\ NoStray(pg, ts, lv) /\ OneAsked(pg, ts) /\ InOrder(ts, lv)
  /\ WhileTracking(pg, ts) /\ MicWanted(pg, ts)
  /\ pg.sessions # {} => pg.running

\* A hand model that is wanted is there, or on its way, or known to be missing.
HandsFit(pg, ts, ms) ==
  /\ ms \in BOOLEAN
  /\ pg.running => pg.face
  /\ \A t \in DOMAIN ts : ts[t].kind = "start" /\ ts[t].await \notin {"no", "models"} => pg.face
  /\ ~ms /\ pg.face /\ pg.hands /\ ~pg.handModel =>
       \E t \in DOMAIN ts : ts[t].await \in {"firstHand", "hand"}
  /\ ~ms /\ pg.face /\ ~pg.fileset =>
       pg.handModel \/ \E t \in DOMAIN ts : ts[t].await = "firstHand"

DevicesInv == TasksFit(tasks) /\ DevicesFit(media, tasks, live) /\ HandsFit(media, tasks, missed)

\* A step that is awaited is awaited in one of its ways; some steps always are.
LEMMA AwaitIs ==
  ASSUME NEW pg, NEW step \in Steps
  PROVE  /\ Await(pg, step) \in {"no"} \cup Awaited(step) /\ "no" \notin Awaited(step)
         /\ step \in {"recamera", "controls", "metadata", "camera", "models", "audio"} => Await(pg, step) # "no"
BY DEF Await, AwaitAudio, AwaitHand, Awaited, Steps

\* Where the handlers come to, from each of their steps.
LEMMA RestCases ==
  ASSUME NEW pg
  PROVE  /\ Rest(pg, <<>>) = <<>>
         /\ Rest(pg, <<"voice">>) = IF Await(pg, "voice") = "no" THEN Rest(pg, <<>>) ELSE <<"voice">>
         /\ Rest(pg, <<"lipsync">>) = IF Await(pg, "lipsync") = "no" THEN Rest(pg, <<>>) ELSE <<"lipsync">>
         /\ Rest(pg, <<"hands">>) = IF Await(pg, "hands") = "no" THEN Rest(pg, <<>>) ELSE <<"hands">>
         /\ Rest(pg, <<"recamera">>) = <<"recamera">> /\ Await(pg, "recamera") # "no"
         /\ Rest(pg, AtVoice) = IF Await(pg, "voice") = "no" THEN Rest(pg, <<"lipsync">>) ELSE AtVoice
         /\ Rest(pg, AtControls) = AtControls /\ Await(pg, "controls") # "no"
         /\ Rest(pg, AtMetadata) = AtMetadata /\ Await(pg, "metadata") # "no"
         /\ Rest(pg, CameraSteps) = CameraSteps /\ Await(pg, "camera") # "no"
         /\ Rest(pg, AtHand) = IF Await(pg, "firstHand") = "no" THEN Rest(pg, CameraSteps) ELSE AtHand
         /\ Rest(pg, AtModels) = AtModels /\ Await(pg, "models") # "no"
         /\ Rest(pg, AtMic) = IF Await(pg, "lipsync") = "no" THEN Rest(pg, <<"recamera">>) ELSE AtMic
         /\ Rest(pg, AtAudio) = AtAudio /\ Await(pg, "audio") # "no"
         /\ Rest(pg, AtHands) = IF Await(pg, "hands") = "no" THEN Rest(pg, AtAudio) ELSE AtHands
<1>0. Rest(pg, <<>>) = <<>>
  BY RestOf, StepLists
<1>1. \A s, h, r : Starts(s, h, r) => Rest(pg, s) = IF Await(pg, h) = "no" THEN Rest(pg, r) ELSE s
  BY RestOf DEF Starts
<1>2. \A h \in {"recamera", "controls", "metadata", "camera", "models", "audio"} : Await(pg, h) # "no"
  BY AwaitIs DEF Steps
<1> QED
  BY <1>0, <1>1, <1>2, StepLists

\* A handler stops at a step that has something to wait for, one of those it still had
\* to take.
Stopped(pg, r) == r = <<>> \/ Await(pg, Head(r)) # "no"

AllTodos == Opened \cup {CameraSteps, AtHand, AtModels, AtMic, <<"recamera">>, <<"voice">>,
                        <<"hands">>} \cup Turns

\* What a handler has still to do is one of a few lists ...
LEMMA TodosAre ==
  ASSUME NEW kind, NEW todo \in Todos(kind)
  PROVE  todo \in AllTodos
BY DEF Todos, AllTodos, Opened, Late, Turns

\* ... which Rest takes to another one, at whose first step the handler awaits something ...
LEMMA RestStops ==
  ASSUME NEW pg, NEW todo \in AllTodos
  PROVE  Stopped(pg, Rest(pg, todo)) /\ Rest(pg, todo) \in AllTodos
<1>1. \A s, h, r : Starts(s, h, r) /\ Await(pg, h) # "no" => Stopped(pg, s)
  BY DEF Starts, Stopped
<1>2. Stopped(pg, <<>>)
  BY DEF Stopped
<1>3. \A s \in {<<>>, <<"voice">>, <<"lipsync">>, <<"hands">>, <<"recamera">>, AtVoice, AtControls, AtMetadata,
                CameraSteps, AtMic, AtAudio} : Stopped(pg, Rest(pg, s)) /\ Rest(pg, s) \in AllTodos
  BY <1>1, <1>2, RestCases, StepLists DEF AllTodos, Opened, Late, Turns
<1>4. Stopped(pg, Rest(pg, AtHand)) /\ Rest(pg, AtHand) \in AllTodos
  BY <1>1, <1>2, <1>3, RestCases, StepLists DEF AllTodos, Opened, Late, Turns
<1> QED
  BY <1>1, <1>2, <1>3, <1>4, RestCases, StepLists DEF AllTodos, Opened, Late, Turns

\* ... and which is one of its kind of handler again.
LEMMA RestKeeps ==
  ASSUME NEW pg, NEW todo
  PROVE  /\ \A kind : todo \in Todos(kind) => Rest(pg, todo) \in Todos(kind)
         /\ todo \in Late => Rest(pg, todo) \in Late
         /\ todo \in Opened => Rest(pg, todo) \in Opened
         /\ todo \in Turns => Rest(pg, todo) \in Turns
         /\ todo \in NoDevice => Rest(pg, todo) \in NoDevice
<1>1. todo \in Late => Rest(pg, todo) \in Late
  BY RestCases DEF Late
<1>2. todo \in Opened => Rest(pg, todo) \in Opened
  BY <1>1, RestCases DEF Opened, Late
<1>3. todo \in Turns => Rest(pg, todo) \in Turns
  BY RestCases DEF Turns
<1>4. todo \in NoDevice => Rest(pg, todo) \in NoDevice
  BY RestCases, <1>3 DEF NoDevice, Turns
<1>5. ASSUME NEW kind, todo \in Todos(kind) PROVE Rest(pg, todo) \in Todos(kind)
  <2>1. CASE kind = "start"
    BY <1>2, <1>5, <2>1, RestCases DEF Todos
  <2>2. CASE kind = "restart"
    BY <1>2, <1>5, <2>2, RestCases DEF Todos
  <2>3. CASE kind \in {"voice", "lipsync", "hands"}
    BY <1>5, <2>3, RestCases DEF Todos
  <2>4. CASE kind = "situation"
    BY <1>2, <1>3, <1>5, <2>4, RestCases DEF Todos
  <2> QED
    BY <1>5, <2>1, <2>2, <2>3, <2>4 DEF Todos
<1> QED
  BY <1>1, <1>2, <1>3, <1>4, <1>5

\* The first step of a list tells the list apart.
LEMMA FirstStep ==
  ASSUME NEW todo \in AllTodos, todo # <<>>
  PROVE  /\ todo \in Seq(Steps) /\ Head(todo) \in Steps
         /\ Head(todo) = "camera" <=> todo = CameraSteps
         /\ Head(todo) = "metadata" <=> todo = AtMetadata
         /\ Head(todo) = "controls" <=> todo = AtControls
         /\ Head(todo) = "firstHand" <=> todo = AtHand
         /\ Head(todo) = "models" <=> todo = AtModels
         /\ Head(todo) = "recamera" <=> todo = <<"recamera">>
         /\ Head(todo) = "audio" <=> todo = AtAudio
         /\ Head(todo) = "hands" <=> todo \in {<<"hands">>, AtHands}
         /\ Head(todo) = "voice" <=> todo \in {<<"voice">>, AtVoice}
         /\ Head(todo) = "lipsync" <=> todo \in {<<"lipsync">>, AtMic}
<1>1. \A s, h, r : Starts(s, h, r) => s \in Seq(Steps) /\ Head(s) = h
  BY DEF Starts
<1>2. /\ Head(<<"voice">>) = "voice" /\ Head(<<"lipsync">>) = "lipsync"
      /\ Head(<<"hands">>) = "hands" /\ Head(<<"recamera">>) = "recamera"
      /\ Head(AtVoice) = "voice" /\ Head(AtControls) = "controls"
      /\ Head(AtMetadata) = "metadata" /\ Head(CameraSteps) = "camera"
      /\ Head(AtHand) = "firstHand" /\ Head(AtModels) = "models" /\ Head(AtMic) = "lipsync"
      /\ Head(AtAudio) = "audio" /\ Head(AtHands) = "hands"
  BY <1>1, StepLists
<1>3. todo \in Seq(Steps)
  BY <1>1, StepLists DEF AllTodos, Opened, Late, Turns
<1>4. todo \in {<<"voice">>, <<"lipsync">>, <<"hands">>, <<"recamera">>, AtVoice, AtControls, AtMetadata,
               CameraSteps, AtHand, AtModels, AtMic, AtAudio, AtHands}
  BY DEF AllTodos, Opened, Late, Turns
<1> DEFINE h == Head(todo)
<1>5. h \in Steps
  BY <1>2, <1>4 DEF Steps
<1>6. /\ h = "camera" <=> todo = CameraSteps
      /\ h = "metadata" <=> todo = AtMetadata
      /\ h = "controls" <=> todo = AtControls
  BY <1>2, <1>4
<1>7. /\ h = "firstHand" <=> todo = AtHand
      /\ h = "models" <=> todo = AtModels
      /\ h = "recamera" <=> todo = <<"recamera">>
  BY <1>2, <1>4
<1>8. /\ h = "audio" <=> todo = AtAudio
      /\ h = "hands" <=> todo \in {<<"hands">>, AtHands}
  BY <1>2, <1>4
<1>9. /\ h = "voice" <=> todo \in {<<"voice">>, AtVoice}
      /\ h = "lipsync" <=> todo \in {<<"lipsync">>, AtMic}
  BY <1>2, <1>4
<1> QED
  BY <1>3, <1>5, <1>6, <1>7, <1>8, <1>9

\* What a handler awaits where it stops.
At(pg, rest) == IF rest = <<>> THEN "no" ELSE Await(pg, Head(rest))

\* A handler is before the camera, at it, or past it, as its list says.
LEMMA WhereItStops ==
  ASSUME NEW pg, NEW todo \in AllTodos,
         NEW rest, rest = Rest(pg, todo), NEW at, at = At(pg, rest)
  PROVE  /\ rest \in AllTodos /\ rest \in Seq(Steps) /\ at \in Awaits
         /\ at = "no" <=> rest = <<>>
         /\ rest # <<>> => at \in Awaited(Head(rest))
         /\ at = "stream" <=> rest = CameraSteps
         /\ at = "firstHand" <=> rest = AtHand
         /\ at = "models" <=> rest = AtModels
         /\ at = "mic" => pg.voice = None /\ (pg.accents \/ pg.lipsync)
         /\ at = "mic" => rest \in {<<"voice">>, AtVoice, <<"lipsync">>, AtMic}
<1>1. Stopped(pg, rest) /\ rest \in AllTodos
  BY RestStops
<1>2. CASE rest = <<>>
  <2>1. rest \in Seq(Steps) /\ at = "no"
    BY <1>2, StepLists DEF At
  <2>2. CameraSteps # <<>> /\ AtHand # <<>> /\ AtModels # <<>>
    BY StepLists DEF Starts
  <2> QED
    BY <1>1, <1>2, <2>1, <2>2 DEF Awaits
<1>3. CASE rest # <<>>
  <2> DEFINE h == Head(rest)
  <2>1. at = Await(pg, h) /\ at # "no"
    BY <1>1, <1>3 DEF At, Stopped
  <2>2. rest \in Seq(Steps) /\ h \in Steps
    BY <1>1, <1>3, FirstStep
  <2>3. at \in Awaited(h)
    <3> HIDE DEF h
    <3> QED
      BY <2>1, <2>2, AwaitIs
  <2>4. /\ at \in Awaits
        /\ at = "stream" <=> h = "camera"
        /\ at = "firstHand" <=> h = "firstHand"
        /\ at = "models" <=> h = "models"
        /\ at = "mic" => h \in {"voice", "lipsync"}
    <3> HIDE DEF h
    <3> QED
      BY <2>2, <2>3 DEF Awaited, Awaits, Steps
  <2>5. at = "mic" => pg.voice = None /\ (pg.accents \/ pg.lipsync)
    <3> HIDE DEF h
    <3>1. at = "mic" => AwaitAudio(pg, h) = "mic"
      BY <2>1, <2>4 DEF Await
    <3> QED
      BY <3>1 DEF AwaitAudio, Wanted
  <2>6. /\ h = "camera" <=> rest = CameraSteps
        /\ h = "firstHand" <=> rest = AtHand
        /\ h = "models" <=> rest = AtModels
        /\ h = "voice" <=> rest \in {<<"voice">>, AtVoice}
        /\ h = "lipsync" <=> rest \in {<<"lipsync">>, AtMic}
    BY <1>1, <1>3, FirstStep
  <2> HIDE DEF h
  <2> QED
    BY <1>1, <1>3, <2>1, <2>2, <2>3, <2>4, <2>5, <2>6 DEF h
<1> QED
  BY <1>2, <1>3

\* The task's record when it goes on.
Onward(old, new, rest, at) ==
  /\ new \in TaskType /\ new.kind = old.kind /\ new.overlapped = old.overlapped
  /\ new.lipsyncBefore = old.lipsyncBefore /\ new.failed = old.failed
  /\ new.todo = rest /\ new.await = at

\* ... fits as before.
LEMMA OnwardFits ==
  ASSUME NEW ts, TasksFit(ts), NEW t \in DOMAIN ts, Going(ts[t]), NEW new, NEW us,
         us = [ts EXCEPT ![t] = new], TaskFits(new), new.overlapped = ts[t].overlapped
  PROVE  TasksFit(us) /\ DOMAIN us = DOMAIN ts /\ us[t] = new /\ \A u \in DOMAIN ts \ {t} : us[u] = ts[u]
<1>1. new \in TaskType /\ ts \in Seq(TaskType)
  BY DEF TaskFits, TasksFit
<1>2. us \in Seq(TaskType) /\ Len(us) = Len(ts) /\ DOMAIN us = DOMAIN ts
  BY <1>1
<1>3. us[t] = new /\ \A u \in DOMAIN ts \ {t} : us[u] = ts[u]
  BY <1>1
<1>4. \A u \in DOMAIN us : TaskFits(us[u])
  BY <1>2, <1>3 DEF TasksFit
<1>5. \A u \in DOMAIN us : (Going(us[u]) => Going(ts[u])) /\ us[u].overlapped = ts[u].overlapped
  BY <1>2, <1>3
<1>6. \A u, v \in DOMAIN us : u # v /\ Going(us[u]) /\ Going(us[v]) => us[u].overlapped
  BY <1>2, <1>5 DEF TasksFit
<1> QED
  BY <1>2, <1>3, <1>4, <1>6 DEF TasksFit

\* Proceed takes a handler to its next await, and starts or stops what lies between.
LEMMA ProceedDoes ==
  ASSUME TasksFit(tasks), NEW t \in TaskIds, Going(tasks[t]), NEW pg \in PageType,
         NEW todo \in Todos(tasks[t].kind), NEW streams, Proceed(t, pg, todo, streams)
  PROVE  LET rest == Rest(pg, todo)
             at   == At(pg, rest)
         IN  /\ TasksFit(tasks') /\ DOMAIN tasks' = DOMAIN tasks
             /\ \A u \in DOMAIN tasks \ {t} : tasks'[u] = tasks[u]
             /\ Onward(tasks[t], tasks'[t], rest, at)
             /\ media' = Reached(pg, tasks[t].kind, rest)
             /\ live' = IF at = "stream" THEN streams \ {pg.src} ELSE streams
<1> PICK rest : rest = Rest(pg, todo)
  OBVIOUS
<1> PICK at : at = At(pg, rest)
  OBVIOUS
<1> DEFINE old == tasks[t]
           inp == IF at = "worklet" THEN pg.voice ELSE None
           new == [old EXCEPT !.todo = rest, !.await = at, !.input = inp]
<1>1. /\ tasks' = [tasks EXCEPT ![t].todo = rest, ![t].await = at, ![t].input = inp]
      /\ media' = Reached(pg, old.kind, rest)
      /\ live' = IF at = "stream" THEN streams \ {pg.src} ELSE streams
  BY DEF Proceed, At
<1>2. old \in TaskType /\ tasks \in Seq(TaskType)
  BY DEF TasksFit, TaskFits, TaskIds
<1>3. tasks' = [tasks EXCEPT ![t] = new]
  BY <1>1, <1>2 DEF TaskType
<1>4. /\ rest \in Todos(old.kind) /\ rest \in Seq(Steps) /\ at \in Awaits
      /\ at = "no" <=> rest = <<>>
      /\ rest # <<>> => at \in Awaited(Head(rest))
  BY TodosAre, RestKeeps, WhereItStops
<1>5. inp \in MicStreams \cup {None}
  BY DEF PageType
<1>6. Onward(old, new, rest, at)
  <2> HIDE DEF inp, old
  <2> QED
    BY <1>2, <1>4, <1>5 DEF Onward, TaskType
<1>7. TaskFits(new) /\ new.overlapped = old.overlapped
  <2> HIDE DEF new, old
  <2> QED
    BY <1>4, <1>6 DEF Onward, TaskFits
<1> HIDE DEF new
<1>8. TasksFit(tasks') /\ DOMAIN tasks' = DOMAIN tasks /\ tasks'[t] = new
      /\ \A u \in DOMAIN tasks \ {t} : tasks'[u] = tasks[u]
  BY <1>3, <1>7, OnwardFits DEF TaskIds
<1> QED
  BY <1>1, <1>6, <1>8

\* Abort takes a handler out and stops the streams it was given.
LEMMA AbortDoes ==
  ASSUME TasksFit(tasks), NEW t \in TaskIds, Going(tasks[t]), NEW pg, NEW streams,
         Abort(t, pg, streams)
  PROVE  /\ TasksFit(tasks') /\ DOMAIN tasks' = DOMAIN tasks
         /\ \A u \in DOMAIN tasks \ {t} : tasks'[u] = tasks[u]
         /\ tasks'[t].kind = tasks[t].kind /\ tasks'[t].overlapped = tasks[t].overlapped
         /\ tasks'[t].todo = <<>> /\ tasks'[t].await = "no" /\ tasks'[t].failed = TRUE
         /\ media' = IF tasks[t].kind = "start" THEN [pg EXCEPT !.startEnabled = TRUE] ELSE pg
         /\ live' = streams
<1> DEFINE old == tasks[t]
           new == [old EXCEPT !.todo = <<>>, !.await = "no", !.failed = TRUE]
<1>1. /\ tasks' = [tasks EXCEPT ![t].todo = <<>>, ![t].await = "no", ![t].failed = TRUE]
      /\ media' = IF old.kind = "start" THEN [pg EXCEPT !.startEnabled = TRUE] ELSE pg
      /\ live' = streams
  BY DEF Abort
<1>2. old \in TaskType /\ tasks \in Seq(TaskType)
  BY DEF TasksFit, TaskFits, TaskIds
<1>3. tasks' = [tasks EXCEPT ![t] = new]
  BY <1>1, <1>2 DEF TaskType
<1>4. <<>> \in Todos(old.kind) /\ <<>> \in Seq(Steps) /\ "no" \in Awaits
  BY <1>2, StepLists DEF Todos, TaskType, Opened, Late, Awaits
<1>5. new \in TaskType /\ new.kind = old.kind /\ new.overlapped = old.overlapped
      /\ new.todo = <<>> /\ new.await = "no" /\ new.failed = TRUE
  <2> HIDE DEF old
  <2> QED
    BY <1>2, <1>4 DEF TaskType
<1>6. TaskFits(new)
  <2> HIDE DEF new, old
  <2> QED
    BY <1>4, <1>5 DEF TaskFits
<1> HIDE DEF new
<1>7. TasksFit(tasks') /\ DOMAIN tasks' = DOMAIN tasks /\ tasks'[t] = new
      /\ \A u \in DOMAIN tasks \ {t} : tasks'[u] = tasks[u]
  BY <1>3, <1>5, <1>6, OnwardFits DEF TaskIds
<1> QED
  BY <1>1, <1>5, <1>7

\* A click leaves the tasks as they are, overlapped if they go on.
Beside(old, new) ==
  /\ new \in TaskType /\ new.kind = old.kind /\ new.lipsyncBefore = old.lipsyncBefore
  /\ new.failed = old.failed /\ new.todo = old.todo /\ new.await = old.await
  /\ new.overlapped <=> old.overlapped \/ Going(old)

\* Handlers beside which another one begins stay as they are, but for being undisturbed.
LEMMA OverlapFits ==
  ASSUME NEW ts, TasksFit(ts)
  PROVE  LET us == Overlap(ts) IN
         /\ us \in Seq(TaskType) /\ Len(us) = Len(ts) /\ DOMAIN us = DOMAIN ts
         /\ \A u \in DOMAIN ts : Beside(ts[u], us[u]) /\ TaskFits(us[u])
         /\ TasksFit(us)
<1> PICK us : us = Overlap(ts)
  OBVIOUS
<1>1. us = [t \in DOMAIN ts |-> [ts[t] EXCEPT !.overlapped = @ \/ ts[t].await # "no"]]
  BY DEF Overlap
<1>2. ts \in Seq(TaskType) /\ Len(ts) <= MaxTasks
  BY DEF TasksFit
<1>3. ASSUME NEW u \in DOMAIN ts PROVE Beside(ts[u], us[u]) /\ TaskFits(us[u])
  <2> PICK old : old = ts[u]
    OBVIOUS
  <2> PICK new : new = us[u]
    OBVIOUS
  <2>1. new = [old EXCEPT !.overlapped = (old.overlapped \/ old.await # "no")]
    BY <1>1
  <2>2. old \in TaskType
    BY <1>2
  <2>3. (old.overlapped \/ old.await # "no") \in BOOLEAN
    OBVIOUS
  <2>4. /\ new \in TaskType /\ new.kind = old.kind /\ new.lipsyncBefore = old.lipsyncBefore
        /\ new.failed = old.failed /\ new.todo = old.todo /\ new.await = old.await
    BY <2>1, <2>2, <2>3 DEF TaskType
  <2>5. new.overlapped = (old.overlapped \/ old.await # "no")
    BY <2>1, <2>2 DEF TaskType
  <2>6. Beside(old, new)
    BY <2>4, <2>5 DEF Beside, Going
  <2>7. TaskFits(old)
    BY DEF TasksFit
  <2>8. TaskFits(new)
    BY <2>4, <2>7 DEF TaskFits
  <2> QED
    BY <2>6, <2>8
<1>4. Len(ts) \in Nat /\ DOMAIN ts = 1 .. Len(ts)
  BY <1>2
<1>5. DOMAIN us = 1 .. Len(ts) /\ \A u \in 1 .. Len(ts) : us[u] \in TaskType
  BY <1>1, <1>3, <1>4 DEF Beside
<1>6. us \in [1 .. Len(ts) -> TaskType]
  BY <1>1, <1>5
<1>7. us \in Seq(TaskType) /\ Len(us) = Len(ts)
  BY <1>4, <1>6
<1>8. \A t, u \in DOMAIN us : t # u /\ Going(us[t]) /\ Going(us[u]) => us[t].overlapped
  BY <1>3, <1>4, <1>5 DEF Beside, Going
<1>9. TasksFit(us)
  BY <1>2, <1>3, <1>4, <1>5, <1>7, <1>8 DEF TasksFit
<1> QED
  BY <1>3, <1>4, <1>5, <1>7, <1>9

\* Begin puts a handler beside those under way.
LEMMA BeginDoes ==
  ASSUME MediaAssumption, TasksFit(tasks), media \in PageType, NEW pg \in PageType,
         NEW kind \in {"start", "restart", "voice", "lipsync", "hands", "situation"},
         NEW todo \in Todos(kind), BeginTask(kind, pg, todo)
  PROVE  LET rest == Rest(pg, todo)
             at   == At(pg, rest)
             n    == Len(tasks) + 1
             new  == tasks'[n]
         IN  /\ NoTurn
             /\ TasksFit(tasks') /\ DOMAIN tasks' = DOMAIN tasks \cup {n} /\ n \notin DOMAIN tasks
             /\ \A u \in DOMAIN tasks : Beside(tasks[u], tasks'[u])
             /\ new.kind = kind /\ new.todo = rest /\ new.await = at /\ new.failed = FALSE
             /\ new.lipsyncBefore = (kind = "situation" /\ media.lipsync)
             /\ new.overlapped = (Unfinished # {})
             /\ media' = Reached(pg, kind, rest)
             /\ live' = Released(Reached(pg, kind, rest))
<1> PICK rest : rest = Rest(pg, todo)
  OBVIOUS
<1> PICK at : at = At(pg, rest)
  OBVIOUS
<1> PICK n : n = Len(tasks) + 1
  OBVIOUS
<1> PICK inp : inp = IF at = "worklet" THEN pg.voice ELSE None
  OBVIOUS
<1> PICK over : over = Overlap(tasks)
  OBVIOUS
<1> PICK busy : busy = (Unfinished # {})
  OBVIOUS
<1> PICK before : before = (kind = "situation" /\ media.lipsync)
  OBVIOUS
<1> PICK mode : mode = IF kind = "situation" THEN media.mode ELSE DefaultMode
  OBVIOUS
<1> PICK new : new = [kind |-> kind, todo |-> rest, await |-> at, lipsyncBefore |-> before,
                      modeBefore |-> mode, input |-> inp, overlapped |-> busy, failed |-> FALSE]
  OBVIOUS
<1>1. /\ NoTurn /\ Len(tasks) < MaxTasks /\ tasks' = Append(over, new)
      /\ media' = Reached(pg, kind, rest)
      /\ live' = Released(Reached(pg, kind, rest))
  BY DEF BeginTask, At
<1>2. /\ over \in Seq(TaskType) /\ Len(over) = Len(tasks) /\ DOMAIN over = DOMAIN tasks
      /\ \A u \in DOMAIN tasks : Beside(tasks[u], over[u]) /\ TaskFits(over[u])
  BY OverlapFits
<1>3. /\ rest \in Todos(kind) /\ rest \in Seq(Steps) /\ at \in Awaits
      /\ at = "no" <=> rest = <<>>
      /\ rest # <<>> => at \in Awaited(Head(rest))
  BY TodosAre, RestKeeps, WhereItStops
<1>4. inp \in MicStreams \cup {None} /\ mode \in CameraModes
  BY DEF PageType, MediaAssumption, DefaultMode
<1>5. busy \in BOOLEAN /\ before \in BOOLEAN
  OBVIOUS
<1>6. new \in TaskType
  BY <1>3, <1>4, <1>5 DEF TaskType
<1>7. TaskFits(new)
  BY <1>3, <1>6 DEF TaskFits
<1>8. Len(tasks) \in Nat /\ MaxTasks \in Nat /\ DOMAIN tasks = 1 .. Len(tasks)
  BY DEF TasksFit, MediaAssumption
<1>9. /\ tasks' \in Seq(TaskType) /\ Len(tasks') = n /\ DOMAIN tasks' = 1 .. n
      /\ tasks'[n] = new /\ \A u \in 1 .. Len(tasks) : tasks'[u] = over[u]
  BY <1>1, <1>2, <1>6, <1>8, AppendProperties
<1>10. DOMAIN tasks' = DOMAIN tasks \cup {n} /\ n \notin DOMAIN tasks
  BY <1>8, <1>9
<1>11. \A u \in DOMAIN tasks' : TaskFits(tasks'[u])
  BY <1>2, <1>7, <1>8, <1>9, <1>10
<1>12. ASSUME NEW t \in DOMAIN tasks', NEW u \in DOMAIN tasks', t # u, Going(tasks'[t]), Going(tasks'[u])
       PROVE  tasks'[t].overlapped
  <2>1. CASE t \in DOMAIN tasks
    <3>1. Beside(tasks[t], tasks'[t])
      BY <1>2, <1>8, <1>9, <2>1
    <3>2. Going(tasks[t])
      BY <1>12, <3>1 DEF Beside, Going
    <3> QED
      BY <3>1, <3>2, Zenon DEF Beside
  <2>2. CASE t = n
    <3>1. u \in DOMAIN tasks /\ Going(tasks[u])
      BY <1>2, <1>8, <1>9, <1>10, <1>12, <2>2 DEF Beside, Going
    <3>2. Unfinished # {}
      BY <3>1 DEF Unfinished, TaskIds, Going
    <3>3. busy
      BY <3>2, Zenon
    <3>4. new.overlapped = busy
      OBVIOUS
    <3>5. tasks'[t].overlapped = new.overlapped
      BY <1>9, <2>2
    <3> QED
      BY <3>3, <3>4, <3>5, Zenon
  <2> QED
    BY <1>10, <2>1, <2>2
<1>13. TasksFit(tasks')
  <2>1. \A t, u \in DOMAIN tasks' : t # u /\ Going(tasks'[t]) /\ Going(tasks'[u]) => tasks'[t].overlapped
    BY <1>12
  <2>2. tasks' \in Seq(TaskType) /\ Len(tasks') <= MaxTasks
    BY <1>1, <1>8, <1>9
  <2> QED
    BY <1>11, <2>1, <2>2 DEF TasksFit
<1> QED
  BY <1>1, <1>2, <1>8, <1>9, <1>10, <1>13

\* The page r is pg once a handler of this kind has come to `rest`.
ComesTo(pg, r, kind, rest) ==
  /\ r \in PageType
  /\ r.voice = pg.voice /\ r.accents = pg.accents /\ r.lipsync = pg.lipsync
  /\ r.hands = pg.hands /\ r.face = pg.face /\ r.handModel = pg.handModel
  /\ r.fileset = pg.fileset /\ r.sessions = pg.sessions
  /\ r.src = IF rest = CameraSteps THEN None ELSE pg.src
  /\ r.running = IF rest = <<>> /\ kind = "start" THEN TRUE ELSE pg.running

\* Where a handler is that comes to its next await.
LEMMA ReachedIs ==
  ASSUME NEW pg \in PageType, NEW kind, NEW rest \in AllTodos
  PROVE  ComesTo(pg, Reached(pg, kind, rest), kind, rest)
<1> PICK r : r = Reached(pg, kind, rest)
  OBVIOUS
<1> SUFFICES ComesTo(pg, r, kind, rest)
  OBVIOUS
<1> USE DEF ComesTo
<1>1. CASE rest = <<>>
  <2>1. r = IF kind = "start" THEN [pg EXCEPT !.running = TRUE, !.stopEnabled = TRUE] ELSE pg
    BY <1>1 DEF Reached
  <2>2. rest # CameraSteps
    BY <1>1, StepLists DEF Starts
  <2>3. CASE kind = "start"
    <3>1. r = [[pg EXCEPT !.running = TRUE] EXCEPT !.stopEnabled = TRUE]
      BY <2>1, <2>3
    <3>2. PICK q \in PageType : q = [pg EXCEPT !.running = TRUE]
      BY DEF PageType
    <3>3. /\ q.voice = pg.voice /\ q.accents = pg.accents /\ q.lipsync = pg.lipsync
          /\ q.hands = pg.hands /\ q.face = pg.face /\ q.handModel = pg.handModel
          /\ q.fileset = pg.fileset /\ q.sessions = pg.sessions
          /\ q.src = pg.src /\ q.running = TRUE
      BY <3>2 DEF PageType
    <3>4. r = [q EXCEPT !.stopEnabled = TRUE]
      BY <3>1, <3>2
    <3>5. r \in PageType
      BY <3>4 DEF PageType
    <3>6. /\ r.voice = q.voice /\ r.accents = q.accents /\ r.lipsync = q.lipsync
          /\ r.hands = q.hands /\ r.face = q.face /\ r.handModel = q.handModel
          /\ r.fileset = q.fileset /\ r.sessions = q.sessions
          /\ r.src = q.src /\ r.running = q.running
      BY <3>4 DEF PageType
    <3> QED
      BY <1>1, <2>2, <2>3, <3>3, <3>5, <3>6
  <2>4. CASE kind # "start"
    BY <1>1, <2>1, <2>2, <2>4
  <2> QED
    BY <2>3, <2>4
<1>2. CASE rest # <<>>
  <2>1. Head(rest) = "camera" <=> rest = CameraSteps
    BY <1>2, FirstStep
  <2>2. r = IF rest = CameraSteps THEN [pg EXCEPT !.src = None] ELSE pg
    BY <1>2, <2>1 DEF Reached, ReleaseCamera
  <2>3. CASE rest = CameraSteps
    BY <1>2, <2>2, <2>3 DEF PageType
  <2>4. CASE rest # CameraSteps
    BY <1>2, <2>2, <2>4
  <2> QED
    BY <2>3, <2>4
<1> QED
  BY <1>1, <1>2

Asks(pg, ts, u) ==
  /\ ts[u].await = "stream" => pg.src = None \/ ts[pg.src[1]].overlapped
  /\ ts[u].await = "mic" => pg.voice = None \/ ts[pg.voice[1]].overlapped

\* No task was overlapped, no situation failed half way.
Undisturbed(ts) ==
  /\ \A t \in DOMAIN ts : ~ts[t].overlapped
  /\ \A t \in DOMAIN ts : ~(ts[t].kind = "situation" /\ ts[t].failed)

\* The page, and the streams that are live, when task t is about to go on with `todo`.
DevicesMidway(t, pg, todo, streams) ==
  /\ StreamsFit(pg, tasks, streams) /\ NoStray(pg, tasks, streams)
  /\ pg.running = media.running /\ pg.sessions = media.sessions
  /\ \A u \in DOMAIN tasks \ {t} : Asks(pg, tasks, u)
  /\ \A s \in streams : tasks[s[1]].kind = "start" =>
       (IF s[1] = t THEN todo ELSE tasks[s[1]].todo)
         \in IF s[2] = "camera" THEN Opened ELSE Late
  /\ ~tasks[t].overlapped /\ tasks[t].kind # "start" /\ todo \notin NoDevice => pg.running
  /\ Undisturbed(tasks) /\ pg.voice # None =>
       \/ pg.accents \/ pg.lipsync
       \/ tasks[t].kind = "situation" /\ todo \in Turns /\ tasks[t].lipsyncBefore

HandsMidway(t, pg, todo, ms) ==
  /\ tasks[t].kind = "start" => pg.face
  /\ media.face => pg.face
  /\ ms \in BOOLEAN
  /\ ~ms /\ pg.face /\ pg.hands /\ ~pg.handModel =>
       \/ \E u \in DOMAIN tasks \ {t} : tasks[u].await \in {"firstHand", "hand"}
       \/ At(pg, Rest(pg, todo)) \in {"firstHand", "hand"}
  /\ ~ms /\ pg.face /\ ~pg.fileset =>
       \/ pg.handModel
       \/ \E u \in DOMAIN tasks \ {t} : tasks[u].await = "firstHand"
       \/ At(pg, Rest(pg, todo)) = "firstHand"

\* A handler that goes on keeps the invariant if it had come midway fitly.
LEMMA ProceedKeeps ==
  ASSUME MediaAssumption, DevicesInv, NEW t \in TaskIds, Going(tasks[t]), NEW pg,
         NEW todo \in Todos(tasks[t].kind), NEW streams, NEW ms,
         DevicesMidway(t, pg, todo, streams), HandsMidway(t, pg, todo, ms),
         Proceed(t, pg, todo, streams)
  PROVE  /\ TasksFit(tasks') /\ DevicesFit(media', tasks', live')
         /\ HandsFit(media', tasks', ms)
<1> PICK rest : rest = Rest(pg, todo)
  OBVIOUS
<1> PICK at : at = At(pg, rest)
  OBVIOUS
<1> PICK kind : kind = tasks[t].kind
  OBVIOUS
<1> PICK page : page = media'
  OBVIOUS
<1> PICK ts : ts = tasks'
  OBVIOUS
<1> PICK lv : lv = live'
  OBVIOUS
<1>0. pg \in PageType /\ TasksFit(tasks) /\ todo \in Todos(kind)
  BY DEF DevicesMidway, HandsMidway, StreamsFit, DevicesInv
<1>1. /\ TasksFit(ts) /\ DOMAIN ts = DOMAIN tasks
      /\ \A u \in DOMAIN tasks \ {t} : ts[u] = tasks[u]
      /\ Onward(tasks[t], ts[t], rest, at)
      /\ page = Reached(pg, kind, rest)
      /\ lv = IF at = "stream" THEN streams \ {pg.src} ELSE streams
  BY <1>0, ProceedDoes
<1>2. /\ rest \in AllTodos /\ at \in Awaits
      /\ at = "no" <=> rest = <<>>
      /\ at = "stream" <=> rest = CameraSteps
      /\ at = "mic" => pg.voice = None /\ (pg.accents \/ pg.lipsync)
      /\ at = "models" <=> rest = AtModels
  BY <1>0, TodosAre, WhereItStops
<1>3. ComesTo(pg, page, kind, rest)
  BY <1>0, <1>1, <1>2, ReachedIs
<1>4. /\ t \in DOMAIN tasks
      /\ \A u \in DOMAIN tasks : ts[u].kind = tasks[u].kind /\ ts[u].overlapped = tasks[u].overlapped
            /\ ts[u].failed = tasks[u].failed /\ ts[u].lipsyncBefore = tasks[u].lipsyncBefore
      /\ ts[t].todo = rest /\ ts[t].await = at
  BY <1>1 DEF Onward, TaskIds
<1>5. StreamsFit(page, ts, lv)
  <2>1. lv \subseteq streams
    BY <1>1
  <2>2. streams \subseteq CameraStreams \cup MicStreams /\ \A s \in streams : s[1] \in DOMAIN tasks
    BY DEF DevicesMidway, HandsMidway, StreamsFit
  <2>3. Held(pg) \subseteq streams
    BY DEF DevicesMidway, HandsMidway, StreamsFit
  <2>4. Held(page) \subseteq lv
    <3>1. CASE rest = CameraSteps
      <4>1. pg.voice # pg.src \/ pg.src = None
        BY <1>0 DEF PageType, CameraStreams, MicStreams
      <4> QED
        BY <1>1, <1>2, <1>3, <2>3, <3>1, <4>1 DEF Held, ComesTo
    <3>2. CASE rest # CameraSteps
      BY <1>1, <1>2, <1>3, <2>3, <3>2 DEF Held, ComesTo
    <3> QED
      BY <3>1, <3>2
  <2> QED
    BY <1>1, <1>3, <2>1, <2>2, <2>4 DEF StreamsFit, ComesTo
<1>6. NoStray(page, ts, lv)
  <2>1. lv \subseteq streams /\ \A s \in streams : s[1] \in DOMAIN tasks
    BY <1>1 DEF DevicesMidway, HandsMidway, StreamsFit
  <2>2. ASSUME NEW s \in lv, ~ts[s[1]].overlapped PROVE s \in Held(page)
    <3>1. s \in streams /\ ~tasks[s[1]].overlapped
      BY <1>4, <2>1, <2>2
    <3>2. s \in Held(pg)
      BY <3>1 DEF DevicesMidway, HandsMidway, NoStray
    <3> QED
      BY <1>1, <1>2, <1>3, <3>2 DEF Held, ComesTo
  <2>3. ASSUME NEW s \in Held(page), ~ts[s[1]].overlapped
        PROVE  page.running \/ (Going(ts[s[1]]) /\ ts[s[1]].kind = "start")
    <3>1. s \in Held(pg) /\ s \in streams
      BY <1>3, <2>3 DEF Held, ComesTo, DevicesMidway, StreamsFit
    <3>2. s[1] \in DOMAIN tasks /\ ~tasks[s[1]].overlapped
      BY <1>4, <2>1, <2>3, <3>1
    <3>3. pg.running \/ (Going(tasks[s[1]]) /\ tasks[s[1]].kind = "start")
      BY <3>1, <3>2 DEF DevicesMidway, HandsMidway, NoStray
    <3>4. CASE pg.running
      BY <1>3, <3>4 DEF ComesTo
    <3>5. CASE ~pg.running /\ s[1] # t
      BY <1>1, <1>4, <3>2, <3>3, <3>5
    <3>6. CASE ~pg.running /\ s[1] = t
      <4>1. kind = "start"
        BY <3>3, <3>6
      <4>2. CASE rest = <<>>
        BY <1>3, <4>1, <4>2 DEF ComesTo
      <4>3. CASE rest # <<>>
        BY <1>2, <1>4, <3>6, <4>1, <4>3 DEF Going
      <4> QED
        BY <4>2, <4>3
    <3> QED
      BY <3>4, <3>5, <3>6
  <2> QED
    BY <2>2, <2>3 DEF NoStray
<1>7. OneAsked(page, ts)
  <2>1. ASSUME NEW u \in DOMAIN ts PROVE Asks(page, ts, u)
    <3>1. CASE u = t
      BY <1>2, <1>3, <1>4, <3>1 DEF Asks, ComesTo
    <3>2. CASE u # t
      <4>1. ts[u] = tasks[u] /\ Asks(pg, tasks, u)
        BY <1>1, <3>2 DEF DevicesMidway, HandsMidway
      <4>2. (page.src = None \/ page.src = pg.src) /\ page.voice = pg.voice
        BY <1>3 DEF ComesTo
      <4>3. \A s \in Held(pg) : ts[s[1]].overlapped = tasks[s[1]].overlapped
        BY <1>4 DEF DevicesMidway, HandsMidway, StreamsFit
      <4>4. ASSUME NEW x, x = None \/ tasks[x[1]].overlapped, x = None \/ x \in Held(pg)
            PROVE  x = None \/ ts[x[1]].overlapped
        <5>1. CASE x \in Held(pg) /\ tasks[x[1]].overlapped
          BY <4>3, <5>1
        <5> QED
          BY <4>4, <5>1
      <4>5. pg.src = None \/ pg.src \in Held(pg)
        BY DEF Held
      <4>6. pg.voice = None \/ pg.voice \in Held(pg)
        BY DEF Held
      <4>7. ts[u].await = "stream" => page.src = None \/ ts[page.src[1]].overlapped
        BY <4>1, <4>2, <4>4, <4>5 DEF Asks
      <4>8. ts[u].await = "mic" => page.voice = None \/ ts[page.voice[1]].overlapped
        BY <4>1, <4>2, <4>4, <4>6 DEF Asks
      <4> QED
        BY <4>7, <4>8 DEF Asks
    <3> QED
      BY <3>1, <3>2
  <2> QED
    BY <2>1 DEF OneAsked, Asks
<1>8. InOrder(ts, lv)
  <2> SUFFICES ASSUME NEW s \in lv, ts[s[1]].kind = "start"
               PROVE  ts[s[1]].todo \in IF s[2] = "camera" THEN Opened ELSE Late
    BY DEF InOrder
  <2>1. s \in streams /\ s[1] \in DOMAIN tasks
    BY <1>1 DEF DevicesMidway, HandsMidway, StreamsFit
  <2>2. tasks[s[1]].kind = "start"
    BY <1>4, <2>1
  <2>3. (IF s[1] = t THEN todo ELSE tasks[s[1]].todo) \in IF s[2] = "camera" THEN Opened ELSE Late
    BY <2>1, <2>2 DEF DevicesMidway, HandsMidway
  <2>4. CASE s[1] = t
    <3>1. todo \in IF s[2] = "camera" THEN Opened ELSE Late
      BY <2>3, <2>4
    <3>2. rest \in IF s[2] = "camera" THEN Opened ELSE Late
      BY <3>1, RestKeeps
    <3> QED
      BY <1>4, <2>4, <3>2
  <2>5. CASE s[1] # t
    BY <1>1, <2>1, <2>3, <2>5
  <2> QED
    BY <2>4, <2>5
<1>9. WhileTracking(page, ts)
  <2> SUFFICES ASSUME NEW u \in DOMAIN ts, ~ts[u].overlapped, ts[u].kind # "start", ts[u].todo \notin NoDevice
               PROVE  page.running
    BY DEF WhileTracking
  <2>1. pg.running => page.running
    BY <1>3 DEF ComesTo
  <2>2. CASE u = t
    <3>1. todo \notin NoDevice
      BY <1>4, <2>2, RestKeeps
    <3> QED
      BY <1>1, <1>4, <2>1, <2>2, <3>1 DEF DevicesMidway, HandsMidway
  <2>3. CASE u # t
    <3>1. ts[u] = tasks[u] /\ u \in DOMAIN tasks
      BY <1>1, <2>3
    <3>2. media.running
      BY <3>1 DEF DevicesInv, DevicesFit, WhileTracking
    <3> QED
      BY <2>1, <3>2 DEF DevicesMidway, HandsMidway
  <2> QED
    BY <2>2, <2>3
<1>10. MicWanted(page, ts)
  <2> SUFFICES ASSUME Undisturbed(ts)
               PROVE  /\ page.voice # None =>
                           \/ page.accents \/ page.lipsync
                           \/ \E u \in DOMAIN ts :
                                ts[u].kind = "situation" /\ ts[u].todo \in Turns /\ ts[u].lipsyncBefore
                      /\ \A u \in DOMAIN ts : ts[u].await = "mic" => page.accents \/ page.lipsync
    BY DEF MicWanted, Undisturbed
  <2>1. Undisturbed(tasks)
    BY <1>1, <1>4 DEF Undisturbed
  <2>2. ASSUME NEW u \in DOMAIN ts, ts[u].await = "mic" PROVE page.accents \/ page.lipsync
    <3>1. CASE u = t
      BY <1>2, <1>3, <1>4, <2>2, <3>1 DEF ComesTo
    <3>2. CASE u # t
      <4>1. Going(tasks[u]) /\ u \in DOMAIN tasks
        BY <1>1, <2>2, <3>2 DEF Going
      <4>2. tasks[u].overlapped
        BY <1>0, <1>4, <3>2, <4>1 DEF TasksFit
      <4> QED
        BY <2>1, <4>1, <4>2 DEF Undisturbed
    <3> QED
      BY <3>1, <3>2
  <2>3. ASSUME page.voice # None
        PROVE  \/ page.accents \/ page.lipsync
               \/ \E u \in DOMAIN ts :
                    ts[u].kind = "situation" /\ ts[u].todo \in Turns /\ ts[u].lipsyncBefore
    <3>1. \/ pg.accents \/ pg.lipsync
          \/ tasks[t].kind = "situation" /\ todo \in Turns /\ tasks[t].lipsyncBefore
      BY <1>3, <2>1, <2>3 DEF DevicesMidway, HandsMidway, ComesTo
    <3>2. todo \in Turns => rest \in Turns
      BY RestKeeps
    <3>3. CASE pg.accents \/ pg.lipsync
      BY <1>3, <3>3 DEF ComesTo
    <3>4. CASE tasks[t].kind = "situation" /\ todo \in Turns /\ tasks[t].lipsyncBefore
      <4>1. ts[t].kind = "situation" /\ ts[t].todo \in Turns /\ ts[t].lipsyncBefore
        BY <1>4, <3>2, <3>4
      <4> QED
        BY <1>1, <1>4, <4>1
    <3> QED
      BY <3>1, <3>3, <3>4
  <2> QED
    BY <2>2, <2>3
<1>11. page.sessions # {} => page.running
  BY <1>3 DEF DevicesMidway, HandsMidway, ComesTo, DevicesInv, DevicesFit
<1>12. DevicesFit(page, ts, lv)
  BY <1>5, <1>6, <1>7, <1>8, <1>9, <1>10, <1>11 DEF DevicesFit
<1>13. HandsFit(page, ts, ms)
  <2>1. page.running => page.face
    <3>1. media.running => media.face
      BY DEF DevicesInv, HandsFit
    <3> QED
      BY <1>3, <3>1 DEF DevicesMidway, HandsMidway, ComesTo
  <2>2. ASSUME NEW u \in DOMAIN ts, ts[u].kind = "start", ts[u].await \notin {"no", "models"} PROVE page.face
    <3>1. CASE u = t
      BY <1>3, <1>4, <2>2, <3>1 DEF DevicesMidway, HandsMidway, ComesTo
    <3>2. CASE u # t
      <4>1. media.face
        BY <1>1, <2>2, <3>2 DEF DevicesInv, HandsFit
      <4> QED
        BY <1>3, <4>1 DEF DevicesMidway, HandsMidway, ComesTo
    <3> QED
      BY <3>1, <3>2
  <2>3. ASSUME ~ms, page.face, page.hands, ~page.handModel
        PROVE  \E u \in DOMAIN ts : ts[u].await \in {"firstHand", "hand"}
    <3>1. \/ \E u \in DOMAIN tasks \ {t} : tasks[u].await \in {"firstHand", "hand"}
          \/ at \in {"firstHand", "hand"}
      BY <1>3, <2>3 DEF DevicesMidway, HandsMidway, ComesTo
    <3> QED
      BY <1>1, <1>4, <3>1
  <2>4. ASSUME ~ms, page.face, ~page.fileset
        PROVE  page.handModel \/ \E u \in DOMAIN ts : ts[u].await = "firstHand"
    <3>1. \/ pg.handModel
          \/ \E u \in DOMAIN tasks \ {t} : tasks[u].await = "firstHand"
          \/ at = "firstHand"
      BY <1>3, <2>4 DEF DevicesMidway, HandsMidway, ComesTo
    <3> QED
      BY <1>1, <1>3, <1>4, <3>1 DEF ComesTo
  <2>5. ms \in BOOLEAN
    BY DEF DevicesMidway, HandsMidway
  <2> QED
    BY <2>1, <2>2, <2>3, <2>4, <2>5 DEF HandsFit
<1> QED
  BY <1>1, <1>12, <1>13

\* The page, and the streams that are live, when task t is about to throw.
Ending(t, pg, streams, ms) ==
  /\ StreamsFit(pg, tasks, streams)
  /\ \A s \in streams : ~tasks[s[1]].overlapped => s \in Held(pg)
  /\ \A s \in Held(pg) : ~tasks[s[1]].overlapped =>
       pg.running \/ (s[1] # t /\ Going(tasks[s[1]]) /\ tasks[s[1]].kind = "start")
  /\ streams \subseteq live
  /\ pg.src \in {None, media.src} /\ pg.voice = media.voice
  /\ pg.running = media.running /\ pg.sessions = media.sessions
  /\ pg.accents = media.accents /\ pg.lipsync = media.lipsync
  /\ pg.face = media.face /\ pg.hands = media.hands
  /\ pg.handModel = media.handModel /\ pg.fileset = media.fileset
  /\ ms \in BOOLEAN
  /\ ~ms => ~missed /\ tasks[t].await \notin {"firstHand", "hand"}

\* So does one that is aborted.
LEMMA AbortKeeps ==
  ASSUME DevicesInv, NEW t \in TaskIds, Going(tasks[t]), NEW pg, NEW streams, NEW ms,
         Ending(t, pg, streams, ms), Abort(t, pg, streams)
  PROVE  /\ TasksFit(tasks') /\ DevicesFit(media', tasks', live')
         /\ HandsFit(media', tasks', ms)
<1> PICK page : page = media'
  OBVIOUS
<1> PICK ts : ts = tasks'
  OBVIOUS
<1> PICK lv : lv = live'
  OBVIOUS
<1>0. pg \in PageType /\ TasksFit(tasks)
  BY DEF Ending, StreamsFit, DevicesInv
<1>1. /\ TasksFit(ts) /\ DOMAIN ts = DOMAIN tasks /\ t \in DOMAIN tasks
      /\ \A u \in DOMAIN tasks \ {t} : ts[u] = tasks[u]
      /\ ts[t].kind = tasks[t].kind /\ ts[t].overlapped = tasks[t].overlapped
      /\ ts[t].todo = <<>> /\ ts[t].await = "no" /\ ts[t].failed = TRUE
      /\ page = IF tasks[t].kind = "start" THEN [pg EXCEPT !.startEnabled = TRUE] ELSE pg
      /\ lv = streams
  BY <1>0, AbortDoes DEF TaskIds
<1>2. \A u \in DOMAIN tasks : ts[u].kind = tasks[u].kind /\ ts[u].overlapped = tasks[u].overlapped
  BY <1>1
<1>3. /\ page \in PageType
      /\ page.voice = pg.voice /\ page.accents = pg.accents /\ page.lipsync = pg.lipsync
      /\ page.hands = pg.hands /\ page.face = pg.face /\ page.handModel = pg.handModel
      /\ page.fileset = pg.fileset /\ page.sessions = pg.sessions
      /\ page.src = pg.src /\ page.running = pg.running
  <2>1. CASE tasks[t].kind = "start"
    <3>1. page = [pg EXCEPT !.startEnabled = TRUE]
      BY <1>1, <2>1
    <3>2. page \in PageType
      BY <1>0, <3>1 DEF PageType
    <3>3. /\ page.voice = pg.voice /\ page.accents = pg.accents /\ page.lipsync = pg.lipsync
          /\ page.hands = pg.hands /\ page.face = pg.face /\ page.handModel = pg.handModel
          /\ page.fileset = pg.fileset /\ page.sessions = pg.sessions
          /\ page.src = pg.src /\ page.running = pg.running
      BY <1>0, <3>1 DEF PageType
    <3> QED
      BY <3>2, <3>3
  <2>2. CASE tasks[t].kind # "start"
    BY <1>0, <1>1, <2>2
  <2> QED
    BY <2>1, <2>2
<1>4. Held(page) = Held(pg)
  BY <1>3 DEF Held
<1>5. StreamsFit(page, ts, lv)
  BY <1>1, <1>3, <1>4 DEF StreamsFit, Ending
<1>6. NoStray(page, ts, lv)
  <2>1. \A s \in lv : s[1] \in DOMAIN tasks
    BY <1>1 DEF Ending, StreamsFit
  <2>2. \A s \in lv : ~ts[s[1]].overlapped => s \in Held(page)
    BY <1>1, <1>2, <1>4, <2>1 DEF Ending
  <2>3. ASSUME NEW s \in Held(page), ~ts[s[1]].overlapped
        PROVE  page.running \/ (Going(ts[s[1]]) /\ ts[s[1]].kind = "start")
    <3>1. s \in Held(pg) /\ s[1] \in DOMAIN tasks
      BY <1>1, <1>4, <2>1, <2>3 DEF Ending, StreamsFit
    <3>2. pg.running \/ (s[1] # t /\ Going(tasks[s[1]]) /\ tasks[s[1]].kind = "start")
      BY <1>2, <2>3, <3>1 DEF Ending
    <3> QED
      BY <1>1, <1>3, <3>1, <3>2
  <2> QED
    BY <2>2, <2>3 DEF NoStray
<1>7. OneAsked(page, ts)
  <2>1. ASSUME NEW u \in DOMAIN ts PROVE Asks(page, ts, u)
    <3>1. CASE u = t
      BY <1>1, <3>1 DEF Asks
    <3>2. CASE u # t
      <4>1. ts[u] = tasks[u] /\ Asks(media, tasks, u)
        BY <1>1, <3>2 DEF DevicesInv, DevicesFit, OneAsked, Asks
      <4>2. (page.src = None \/ page.src = media.src) /\ page.voice = media.voice
        BY <1>3 DEF Ending
      <4>3. \A s \in Held(media) : ts[s[1]].overlapped = tasks[s[1]].overlapped
        BY <1>2 DEF DevicesInv, DevicesFit, StreamsFit
      <4>4. ASSUME NEW x, x = None \/ tasks[x[1]].overlapped, x = None \/ x \in Held(media)
            PROVE  x = None \/ ts[x[1]].overlapped
        <5>1. CASE x \in Held(media) /\ tasks[x[1]].overlapped
          BY <4>3, <5>1
        <5> QED
          BY <4>4, <5>1
      <4>5. media.src = None \/ media.src \in Held(media)
        BY DEF Held
      <4>6. media.voice = None \/ media.voice \in Held(media)
        BY DEF Held
      <4>7. ts[u].await = "stream" => page.src = None \/ ts[page.src[1]].overlapped
        BY <4>1, <4>2, <4>4, <4>5 DEF Asks
      <4>8. ts[u].await = "mic" => page.voice = None \/ ts[page.voice[1]].overlapped
        BY <4>1, <4>2, <4>4, <4>6 DEF Asks
      <4> QED
        BY <4>7, <4>8 DEF Asks
    <3> QED
      BY <3>1, <3>2
  <2> QED
    BY <2>1 DEF OneAsked, Asks
<1>8. InOrder(ts, lv)
  <2> SUFFICES ASSUME NEW s \in lv, ts[s[1]].kind = "start"
               PROVE  ts[s[1]].todo \in IF s[2] = "camera" THEN Opened ELSE Late
    BY DEF InOrder
  <2>1. s \in live /\ s[1] \in DOMAIN tasks
    BY <1>1 DEF Ending, StreamsFit
  <2>2. CASE s[1] = t
    BY <1>1, <2>2 DEF Opened, Late
  <2>3. CASE s[1] # t
    BY <1>1, <2>1, <2>3 DEF DevicesInv, DevicesFit, InOrder
  <2> QED
    BY <2>2, <2>3
<1>9. WhileTracking(page, ts)
  <2> SUFFICES ASSUME NEW u \in DOMAIN ts, ~ts[u].overlapped, ts[u].kind # "start", ts[u].todo \notin NoDevice
               PROVE  page.running
    BY DEF WhileTracking
  <2>1. CASE u = t
    BY <1>1, <2>1 DEF NoDevice
  <2>2. CASE u # t
    <3>1. media.running
      BY <1>1, <2>2 DEF DevicesInv, DevicesFit, WhileTracking
    <3> QED
      BY <1>3, <3>1 DEF Ending
  <2> QED
    BY <2>1, <2>2
<1>10. MicWanted(page, ts)
  <2> SUFFICES ASSUME Undisturbed(ts)
               PROVE  /\ page.voice # None =>
                           \/ page.accents \/ page.lipsync
                           \/ \E u \in DOMAIN ts :
                                ts[u].kind = "situation" /\ ts[u].todo \in Turns /\ ts[u].lipsyncBefore
                      /\ \A u \in DOMAIN ts : ts[u].await = "mic" => page.accents \/ page.lipsync
    BY DEF MicWanted, Undisturbed
  <2>1. Undisturbed(tasks) /\ tasks[t].kind # "situation"
    <3>1. tasks[t].kind # "situation"
      BY <1>1 DEF Undisturbed
    <3>2. \A u \in DOMAIN tasks : ~tasks[u].overlapped
      BY <1>1, <1>2 DEF Undisturbed
    <3>3. \A u \in DOMAIN tasks : ~(tasks[u].kind = "situation" /\ tasks[u].failed)
      <4> TAKE u \in DOMAIN tasks
      <4>1. CASE u = t
        BY <3>1, <4>1
      <4>2. CASE u # t
        BY <1>1, <4>2 DEF Undisturbed
      <4> QED
        BY <4>1, <4>2
    <3> QED
      BY <3>1, <3>2, <3>3 DEF Undisturbed
  <2>2. /\ media.voice # None =>
             \/ media.accents \/ media.lipsync
             \/ \E u \in DOMAIN tasks :
                  tasks[u].kind = "situation" /\ tasks[u].todo \in Turns /\ tasks[u].lipsyncBefore
        /\ \A u \in DOMAIN tasks : tasks[u].await = "mic" => media.accents \/ media.lipsync
    BY <2>1 DEF DevicesInv, DevicesFit, MicWanted, Undisturbed
  <2>3. page.voice = media.voice /\ page.accents = media.accents /\ page.lipsync = media.lipsync
    BY <1>3 DEF Ending
  <2>4. \A u \in DOMAIN ts : ts[u].await = "mic" => page.accents \/ page.lipsync
    <3> TAKE u \in DOMAIN ts
    <3>1. CASE u = t
      BY <1>1, <3>1
    <3>2. CASE u # t
      BY <1>1, <2>2, <2>3, <3>2
    <3> QED
      BY <3>1, <3>2
  <2>5. ASSUME NEW u \in DOMAIN tasks, tasks[u].kind = "situation", tasks[u].todo \in Turns, tasks[u].lipsyncBefore
        PROVE  \E v \in DOMAIN ts : ts[v].kind = "situation" /\ ts[v].todo \in Turns /\ ts[v].lipsyncBefore
    <3>1. u # t
      BY <2>1, <2>5
    <3>2. ts[u] = tasks[u] /\ u \in DOMAIN ts
      BY <1>1, <3>1
    <3> QED
      BY <2>5, <3>2
  <2> QED
    BY <2>2, <2>3, <2>4, <2>5
<1>11. page.sessions # {} => page.running
  BY <1>3 DEF Ending, DevicesInv, DevicesFit
<1>12. DevicesFit(page, ts, lv)
  BY <1>5, <1>6, <1>7, <1>8, <1>9, <1>10, <1>11 DEF DevicesFit
<1>13. HandsFit(page, ts, ms)
  <2>0. HandsFit(media, tasks, missed)
    BY DEF DevicesInv
  <2>1. /\ page.running = media.running /\ page.face = media.face /\ page.hands = media.hands
        /\ page.handModel = media.handModel /\ page.fileset = media.fileset
    BY <1>3 DEF Ending
  <2>2. page.running => page.face
    BY <2>0, <2>1 DEF HandsFit
  <2>3. \A u \in DOMAIN ts : ts[u].kind = "start" /\ ts[u].await \notin {"no", "models"} => page.face
    <3> TAKE u \in DOMAIN ts
    <3>1. CASE u = t
      BY <1>1, <3>1
    <3>2. CASE u # t
      BY <1>1, <2>0, <2>1, <3>2 DEF HandsFit
    <3> QED
      BY <3>1, <3>2
  <2>4. ms \in BOOLEAN /\ (~ms => ~missed /\ tasks[t].await \notin {"firstHand", "hand"})
    BY DEF Ending
  <2>5. \A u \in DOMAIN tasks : ~ms /\ tasks[u].await \in {"firstHand", "hand"} => ts[u] = tasks[u] /\ u \in DOMAIN ts
    BY <1>1, <2>4
  <2>6. ~ms /\ page.face /\ page.hands /\ ~page.handModel =>
          \E u \in DOMAIN ts : ts[u].await \in {"firstHand", "hand"}
    <3> SUFFICES ASSUME ~ms, page.face, page.hands, ~page.handModel
                 PROVE  \E u \in DOMAIN ts : ts[u].await \in {"firstHand", "hand"}
      OBVIOUS
    <3>1. PICK u \in DOMAIN tasks : tasks[u].await \in {"firstHand", "hand"}
      BY <2>0, <2>1, <2>4 DEF HandsFit
    <3> QED
      BY <2>5, <3>1
  <2>7. ~ms /\ page.face /\ ~page.fileset =>
          page.handModel \/ \E u \in DOMAIN ts : ts[u].await = "firstHand"
    <3> SUFFICES ASSUME ~ms, page.face, ~page.fileset, ~page.handModel
                 PROVE  \E u \in DOMAIN ts : ts[u].await = "firstHand"
      OBVIOUS
    <3>1. PICK u \in DOMAIN tasks : tasks[u].await = "firstHand"
      BY <2>0, <2>1, <2>4 DEF HandsFit
    <3> QED
      BY <2>5, <3>1
  <2> QED
    BY <2>2, <2>3, <2>4, <2>6, <2>7 DEF HandsFit
<1> QED
  BY <1>1, <1>12, <1>13

\* The page pg and the tasks ts after a click.
Clicked(pg, ts, ms) ==
  /\ pg \in PageType /\ TasksFit(ts) /\ DOMAIN tasks \subseteq DOMAIN ts
  /\ \A u \in DOMAIN tasks : Beside(tasks[u], ts[u])
  /\ pg.src \in {None, media.src} /\ pg.voice \in {None, media.voice}
  /\ pg.running = media.running \/ (pg.src = None /\ pg.voice = None /\ ~pg.running)
  /\ pg.sessions # {} => pg.running
  /\ pg.face = media.face /\ pg.handModel = media.handModel /\ pg.fileset = media.fileset
  /\ \A n \in DOMAIN ts \ DOMAIN tasks :
       /\ ts[n].await = "stream" => pg.src = None
       /\ ts[n].await = "mic" => pg.voice = None /\ (pg.accents \/ pg.lipsync)
       /\ ~ts[n].overlapped /\ ts[n].kind # "start" /\ ts[n].todo \notin NoDevice => pg.running
       /\ ts[n].kind = "start" /\ ts[n].await \notin {"no", "models"} => pg.face
  /\ Undisturbed(ts) /\ pg.voice # None /\ (media.accents \/ media.lipsync) =>
       \/ pg.accents \/ pg.lipsync
       \/ \E n \in DOMAIN ts :
            ts[n].kind = "situation" /\ ts[n].todo \in Turns /\ ts[n].lipsyncBefore
  /\ ms \in BOOLEAN /\ (~ms => ~missed)
  /\ ~ms /\ pg.face /\ pg.hands /\ ~pg.handModel =>
       media.hands \/ \E n \in DOMAIN ts : ts[n].await \in {"firstHand", "hand"}

\* So does a click that starts no handler or one that is at once at its first await ...
LEMMA ClickKeeps ==
  ASSUME DevicesInv, NEW pg, NEW ts, NEW ms, Clicked(pg, ts, ms), NEW lv, lv = Released(pg)
  PROVE  DevicesFit(pg, ts, lv) /\ HandsFit(pg, ts, ms)
<1>0. /\ pg \in PageType /\ TasksFit(ts) /\ DOMAIN tasks \subseteq DOMAIN ts
      /\ pg.src \in {None, media.src} /\ pg.voice \in {None, media.voice}
      /\ pg.running = media.running \/ (pg.src = None /\ pg.voice = None /\ ~pg.running)
      /\ StreamsFit(media, tasks, live)
  BY DEF Clicked, DevicesInv, DevicesFit
<1>1. ASSUME NEW u \in DOMAIN tasks
      PROVE  /\ ts[u].kind = tasks[u].kind /\ ts[u].lipsyncBefore = tasks[u].lipsyncBefore
             /\ ts[u].failed = tasks[u].failed /\ ts[u].todo = tasks[u].todo
             /\ ts[u].await = tasks[u].await
             /\ tasks[u].overlapped => ts[u].overlapped
             /\ ~ts[u].overlapped => ~tasks[u].overlapped /\ tasks[u].await = "no" /\ tasks[u].todo = <<>>
  <2>1. Beside(tasks[u], ts[u])
    BY DEF Clicked
  <2>2. ~ts[u].overlapped => ~tasks[u].overlapped /\ ~Going(tasks[u])
    BY <2>1, Zenon DEF Beside
  <2>3. tasks[u].overlapped => ts[u].overlapped
    BY <2>1, Zenon DEF Beside
  <2>4. TaskFits(tasks[u])
    BY DEF DevicesInv, TasksFit
  <2> QED
    BY <2>1, <2>2, <2>3, <2>4 DEF Beside, TaskFits, Going
<1>2. /\ lv \subseteq live /\ \A s \in live : s \notin lv <=> s \in {media.src, media.voice} /\ s \notin {pg.src, pg.voice}
      /\ Held(media) \subseteq live /\ \A s \in live : s[1] \in DOMAIN tasks
  BY <1>0 DEF Released, StreamsFit
<1>3. Held(pg) \subseteq Held(media) /\ Held(pg) \subseteq lv
  BY <1>0, <1>2 DEF Held
<1>4. StreamsFit(pg, ts, lv)
  BY <1>0, <1>2, <1>3 DEF StreamsFit
<1>5. NoStray(pg, ts, lv)
  <2>1. ASSUME NEW s \in lv, ~ts[s[1]].overlapped PROVE s \in Held(pg)
    <3>1. s \in live /\ s[1] \in DOMAIN tasks /\ ~tasks[s[1]].overlapped
      BY <1>1, <1>2, <2>1
    <3>2. s \in Held(media)
      BY <3>1 DEF DevicesInv, DevicesFit, NoStray
    <3> QED
      BY <1>2, <2>1, <3>1, <3>2 DEF Held
  <2>2. ASSUME NEW s \in Held(pg), ~ts[s[1]].overlapped
        PROVE  pg.running \/ (Going(ts[s[1]]) /\ ts[s[1]].kind = "start")
    <3>1. s \in Held(media) /\ s[1] \in DOMAIN tasks
      BY <1>2, <1>3
    <3>2. ~tasks[s[1]].overlapped /\ ~Going(tasks[s[1]])
      BY <1>1, <2>2, <3>1 DEF Going
    <3>3. media.running
      BY <3>1, <3>2 DEF DevicesInv, DevicesFit, NoStray
    <3> QED
      BY <1>0, <2>2, <3>3 DEF Held
  <2> QED
    BY <2>1, <2>2 DEF NoStray
<1>6. OneAsked(pg, ts)
  <2>1. ASSUME NEW u \in DOMAIN ts PROVE Asks(pg, ts, u)
    <3>1. CASE u \notin DOMAIN tasks
      BY <2>1, <3>1 DEF Clicked, Asks
    <3>2. CASE u \in DOMAIN tasks
      <4>1. ts[u].await = tasks[u].await /\ Asks(media, tasks, u)
        BY <1>1, <3>2 DEF DevicesInv, DevicesFit, OneAsked, Asks
      <4>2. \A s \in Held(media) : tasks[s[1]].overlapped => ts[s[1]].overlapped
        BY <1>1, <1>2
      <4>3. ASSUME NEW x, x = None \/ tasks[x[1]].overlapped, x = None \/ x \in Held(media)
            PROVE  x = None \/ ts[x[1]].overlapped
        <5>1. CASE x \in Held(media) /\ tasks[x[1]].overlapped
          BY <4>2, <5>1
        <5> QED
          BY <4>3, <5>1
      <4>4. media.src = None \/ media.src \in Held(media)
        BY DEF Held
      <4>5. media.voice = None \/ media.voice \in Held(media)
        BY DEF Held
      <4>6. ts[u].await = "stream" => pg.src = None \/ ts[pg.src[1]].overlapped
        BY <1>0, <4>1, <4>3, <4>4 DEF Asks
      <4>7. ts[u].await = "mic" => pg.voice = None \/ ts[pg.voice[1]].overlapped
        BY <1>0, <4>1, <4>3, <4>5 DEF Asks
      <4> QED
        BY <4>6, <4>7 DEF Asks
    <3> QED
      BY <3>1, <3>2
  <2> QED
    BY <2>1 DEF OneAsked, Asks
<1>7. InOrder(ts, lv)
  <2> SUFFICES ASSUME NEW s \in lv, ts[s[1]].kind = "start"
               PROVE  ts[s[1]].todo \in IF s[2] = "camera" THEN Opened ELSE Late
    BY DEF InOrder
  <2>1. s \in live /\ s[1] \in DOMAIN tasks
    BY <1>2
  <2>2. tasks[s[1]].kind = "start" /\ ts[s[1]].todo = tasks[s[1]].todo
    BY <1>1, <2>1
  <2> QED
    BY <2>1, <2>2 DEF DevicesInv, DevicesFit, InOrder
<1>8. WhileTracking(pg, ts)
  <2> SUFFICES ASSUME NEW u \in DOMAIN ts, ~ts[u].overlapped, ts[u].kind # "start", ts[u].todo \notin NoDevice
               PROVE  pg.running
    BY DEF WhileTracking
  <2>1. u \notin DOMAIN tasks
    BY <1>1 DEF NoDevice
  <2> QED
    BY <2>1 DEF Clicked
<1>9. MicWanted(pg, ts)
  <2> SUFFICES ASSUME Undisturbed(ts)
               PROVE  /\ pg.voice # None =>
                           \/ pg.accents \/ pg.lipsync
                           \/ \E u \in DOMAIN ts :
                                ts[u].kind = "situation" /\ ts[u].todo \in Turns /\ ts[u].lipsyncBefore
                      /\ \A u \in DOMAIN ts : ts[u].await = "mic" => pg.accents \/ pg.lipsync
    BY DEF MicWanted, Undisturbed
  <2>1. \A u \in DOMAIN tasks : u \in DOMAIN ts /\ ~ts[u].overlapped
    BY <1>0 DEF Undisturbed
  <2>2. \A u \in DOMAIN tasks : ~tasks[u].overlapped /\ tasks[u].await = "no" /\ tasks[u].todo = <<>>
    BY <1>1, <2>1
  <2>3. \A u \in DOMAIN tasks : ~(tasks[u].kind = "situation" /\ tasks[u].failed)
    BY <1>1, <2>1 DEF Undisturbed
  <2>4. Undisturbed(tasks)
    BY <2>2, <2>3 DEF Undisturbed
  <2>5. /\ media.voice # None =>
             \/ media.accents \/ media.lipsync
             \/ \E u \in DOMAIN tasks :
                  tasks[u].kind = "situation" /\ tasks[u].todo \in Turns /\ tasks[u].lipsyncBefore
    BY <2>4 DEF DevicesInv, DevicesFit, MicWanted, Undisturbed
  <2>6. <<>> \notin Turns
    BY StepLists DEF Turns, Starts
  <2>7. pg.voice # None => media.accents \/ media.lipsync
    BY <1>0, <2>2, <2>5, <2>6
  <2>8. ASSUME NEW u \in DOMAIN ts, ts[u].await = "mic" PROVE pg.accents \/ pg.lipsync
    <3>1. u \notin DOMAIN tasks
      BY <1>1, <2>2, <2>8
    <3> QED
      BY <2>8, <3>1 DEF Clicked
  <2>9. pg.voice # None =>
          \/ pg.accents \/ pg.lipsync
          \/ \E u \in DOMAIN ts :
               ts[u].kind = "situation" /\ ts[u].todo \in Turns /\ ts[u].lipsyncBefore
    BY <2>7 DEF Clicked
  <2> QED
    BY <2>8, <2>9
<1>10. DevicesFit(pg, ts, lv)
  BY <1>4, <1>5, <1>6, <1>7, <1>8, <1>9 DEF DevicesFit, Clicked
<1>11. HandsFit(pg, ts, ms)
  <2>0. HandsFit(media, tasks, missed)
    BY DEF DevicesInv
  <2>1. /\ pg.face = media.face /\ pg.handModel = media.handModel /\ pg.fileset = media.fileset
        /\ ms \in BOOLEAN /\ (~ms => ~missed)
    BY DEF Clicked
  <2>2. pg.running => pg.face
    BY <1>0, <2>0, <2>1 DEF HandsFit
  <2>3. \A u \in DOMAIN ts : ts[u].kind = "start" /\ ts[u].await \notin {"no", "models"} => pg.face
    <3> TAKE u \in DOMAIN ts
    <3>1. CASE u \in DOMAIN tasks
      BY <1>1, <2>0, <2>1, <3>1 DEF HandsFit
    <3>2. CASE u \notin DOMAIN tasks
      BY <3>2 DEF Clicked
    <3> QED
      BY <3>1, <3>2
  <2>4. ASSUME ~ms, pg.face, pg.hands, ~pg.handModel
        PROVE  \E u \in DOMAIN ts : ts[u].await \in {"firstHand", "hand"}
    <3>1. CASE media.hands
      <4>1. PICK u \in DOMAIN tasks : tasks[u].await \in {"firstHand", "hand"}
        BY <2>0, <2>1, <2>4, <3>1 DEF HandsFit
      <4> QED
        BY <1>0, <1>1, <4>1
    <3>2. CASE ~media.hands
      BY <2>4, <3>2 DEF Clicked
    <3> QED
      BY <3>1, <3>2
  <2>5. ASSUME ~ms, pg.face, ~pg.fileset, ~pg.handModel
        PROVE  \E u \in DOMAIN ts : ts[u].await = "firstHand"
    <3>1. PICK u \in DOMAIN tasks : tasks[u].await = "firstHand"
      BY <2>0, <2>1, <2>5 DEF HandsFit
    <3> QED
      BY <1>0, <1>1, <3>1
  <2> QED
    BY <2>1, <2>2, <2>3, <2>4, <2>5 DEF HandsFit
<1> QED
  BY <1>10, <1>11

\* ... and a click that only changes the page.
LEMMA ClickOnlyKeeps ==
  ASSUME DevicesInv, NEW pg \in PageType, ClickOnly(pg),
         pg.src \in {None, media.src}, pg.voice \in {None, media.voice},
         pg.running = media.running \/ (pg.src = None /\ pg.voice = None /\ ~pg.running),
         pg.sessions # {} => pg.running,
         pg.face = media.face, pg.handModel = media.handModel, pg.fileset = media.fileset,
         pg.voice # None /\ (media.accents \/ media.lipsync) => pg.accents \/ pg.lipsync,
         pg.hands => media.hands
  PROVE  /\ TasksFit(tasks') /\ DevicesFit(media', tasks', live')
         /\ HandsFit(media', tasks', missed)
<1> PICK ts : ts = tasks'
  OBVIOUS
<1>1. ts = Overlap(tasks) /\ media' = pg /\ live' = Released(pg)
  BY DEF ClickOnly
<1>2. TasksFit(ts) /\ DOMAIN ts = DOMAIN tasks /\ \A u \in DOMAIN tasks : Beside(tasks[u], ts[u])
  BY <1>1, OverlapFits DEF DevicesInv
<1>3. missed \in BOOLEAN
  BY DEF DevicesInv, HandsFit
<1>4. Clicked(pg, ts, missed)
  BY <1>2, <1>3 DEF Clicked
<1> QED
  BY <1>1, <1>2, <1>4, ClickKeeps

\* The page pg on which a click starts a task of this kind.
Begins(kind, pg, todo, ms) ==
  /\ pg \in PageType /\ todo \in Todos(kind)
  /\ kind \in {"start", "restart", "voice", "lipsync", "hands", "situation"}
  /\ pg.src = media.src /\ pg.voice = media.voice /\ pg.running = media.running
  /\ pg.sessions = media.sessions
  /\ pg.face = media.face /\ pg.handModel = media.handModel /\ pg.fileset = media.fileset
  /\ kind # "start" /\ todo \notin NoDevice => pg.running
  /\ kind = "start" => todo = AtModels \/ (todo = CameraSteps /\ pg.face)
  /\ pg.voice # None /\ (media.accents \/ media.lipsync) =>
       pg.accents \/ pg.lipsync \/ (kind = "situation" /\ todo \in Turns /\ media.lipsync)
  /\ ms \in BOOLEAN /\ (~ms => ~missed)
  /\ ~ms /\ pg.face /\ pg.hands /\ ~pg.handModel =>
       \/ media.hands \/ At(pg, Rest(pg, todo)) \in {"firstHand", "hand"}
       \/ \E u \in DOMAIN tasks : tasks[u].await \in {"firstHand", "hand"}

\* A handler that begins keeps the invariant.
LEMMA BeginKeeps ==
  ASSUME MediaAssumption, DevicesInv, NEW kind, NEW pg, NEW todo, NEW ms,
         Begins(kind, pg, todo, ms), BeginTask(kind, pg, todo)
  PROVE  /\ TasksFit(tasks') /\ DevicesFit(media', tasks', live')
         /\ HandsFit(media', tasks', ms)
<1> PICK rest : rest = Rest(pg, todo)
  OBVIOUS
<1> PICK at : at = At(pg, rest)
  OBVIOUS
<1> PICK page : page = media'
  OBVIOUS
<1> PICK ts : ts = tasks'
  OBVIOUS
<1> PICK n : n = Len(tasks) + 1
  OBVIOUS
<1>0. /\ pg \in PageType /\ todo \in Todos(kind) /\ media \in PageType /\ TasksFit(tasks)
      /\ kind \in {"start", "restart", "voice", "lipsync", "hands", "situation"}
  BY DEF Begins, DevicesInv, DevicesFit, StreamsFit
<1>1. /\ TasksFit(ts) /\ DOMAIN ts = DOMAIN tasks \cup {n} /\ n \notin DOMAIN tasks
      /\ \A u \in DOMAIN tasks : Beside(tasks[u], ts[u])
      /\ ts[n].kind = kind /\ ts[n].todo = rest /\ ts[n].await = at /\ ts[n].failed = FALSE
      /\ ts[n].lipsyncBefore = (kind = "situation" /\ media.lipsync)
      /\ page = Reached(pg, kind, rest)
      /\ live' = Released(page)
  BY <1>0, BeginDoes, ZenonT(40)
<1>2. /\ rest \in AllTodos
      /\ at = "no" <=> rest = <<>>
      /\ at = "stream" <=> rest = CameraSteps
      /\ at = "mic" => pg.voice = None /\ (pg.accents \/ pg.lipsync)
      /\ at = "models" <=> rest = AtModels
  BY <1>0, TodosAre, WhereItStops
<1>3. ComesTo(pg, page, kind, rest)
  BY <1>0, <1>1, <1>2, ReachedIs
<1>4. kind = "start" => rest # <<>> /\ (at = "models" \/ pg.face)
  <2>1. CASE todo = AtModels
    BY <1>2, <2>1, RestCases, StepLists DEF Starts
  <2>2. CASE todo = CameraSteps /\ pg.face
    BY <1>2, <2>2, RestCases, StepLists DEF Starts
  <2> QED
    BY <2>1, <2>2 DEF Begins
<1>5. page.running = pg.running
  BY <1>3, <1>4 DEF ComesTo
<1>6. todo \in NoDevice => rest \in NoDevice
  BY RestKeeps
<1>7. todo \in Turns => rest \in Turns
  BY RestKeeps
<1>8. Clicked(page, ts, ms)
  <2>1. /\ page \in PageType /\ page.src \in {None, media.src} /\ page.voice \in {None, media.voice}
        /\ page.running = media.running
        /\ page.face = media.face /\ page.handModel = media.handModel /\ page.fileset = media.fileset
    BY <1>3, <1>5 DEF ComesTo, Begins
  <2>2. page.sessions # {} => page.running
    BY <1>3, <1>5 DEF ComesTo, Begins, DevicesInv, DevicesFit
  <2>3. /\ ts[n].await = "stream" => page.src = None
        /\ ts[n].await = "mic" => page.voice = None /\ (page.accents \/ page.lipsync)
        /\ ~ts[n].overlapped /\ ts[n].kind # "start" /\ ts[n].todo \notin NoDevice => page.running
        /\ ts[n].kind = "start" /\ ts[n].await \notin {"no", "models"} => page.face
    <3>1. ts[n].await = "stream" => page.src = None
      BY <1>1, <1>2, <1>3 DEF ComesTo
    <3>2. ts[n].await = "mic" => page.voice = None /\ (page.accents \/ page.lipsync)
      BY <1>1, <1>2, <1>3 DEF ComesTo
    <3>3. ts[n].kind # "start" /\ ts[n].todo \notin NoDevice => page.running
      BY <1>1, <1>5, <1>6 DEF Begins
    <3>4. ts[n].kind = "start" /\ ts[n].await \notin {"no", "models"} => page.face
      BY <1>1, <1>3, <1>4 DEF ComesTo
    <3> QED
      BY <3>1, <3>2, <3>3, <3>4
  <2>4. page.voice # None /\ (media.accents \/ media.lipsync) =>
          \/ page.accents \/ page.lipsync
          \/ \E u \in DOMAIN ts :
               ts[u].kind = "situation" /\ ts[u].todo \in Turns /\ ts[u].lipsyncBefore
    <3> SUFFICES ASSUME page.voice # None, media.accents \/ media.lipsync, ~page.accents, ~page.lipsync
                 PROVE  \E u \in DOMAIN ts :
                          ts[u].kind = "situation" /\ ts[u].todo \in Turns /\ ts[u].lipsyncBefore
      OBVIOUS
    <3>1. kind = "situation" /\ todo \in Turns /\ media.lipsync
      BY <1>3 DEF ComesTo, Begins
    <3>2. (kind = "situation" /\ media.lipsync) = TRUE
      BY <3>1, Zenon
    <3>3. ts[n].lipsyncBefore = TRUE
      BY <1>1, <3>2
    <3> QED
      BY <1>1, <1>7, <3>1, <3>3
  <2>5. ~ms /\ page.face /\ page.hands /\ ~page.handModel =>
          media.hands \/ \E u \in DOMAIN ts : ts[u].await \in {"firstHand", "hand"}
    <3>1. ~ms /\ page.face /\ page.hands /\ ~page.handModel =>
            \/ media.hands \/ at \in {"firstHand", "hand"}
            \/ \E u \in DOMAIN tasks : tasks[u].await \in {"firstHand", "hand"}
      BY <1>3 DEF ComesTo, Begins
    <3>2. \A u \in DOMAIN tasks : u \in DOMAIN ts /\ ts[u].await = tasks[u].await
      BY <1>1 DEF Beside
    <3> QED
      BY <1>1, <3>1, <3>2
  <2>6. ms \in BOOLEAN /\ (~ms => ~missed)
    BY DEF Begins
  <2>7. \A u \in DOMAIN ts \ DOMAIN tasks : u = n
    BY <1>1
  <2> QED
    BY <1>1, <2>1, <2>2, <2>3, <2>4, <2>5, <2>6, <2>7 DEF Clicked
<1> QED
  BY <1>1, <1>8, ClickKeeps

\* What holds of a task that is under way.
LEMMA UnderWay ==
  ASSUME MediaAssumption, DevicesInv, NEW t \in TaskIds, Going(tasks[t])
  PROVE  /\ t \in DOMAIN tasks /\ t \in 1 .. MaxTasks
         /\ media \in PageType /\ missed \in BOOLEAN
         /\ tasks[t] \in TaskType /\ tasks[t].todo # <<>>
         /\ tasks[t].todo \in Todos(tasks[t].kind) /\ tasks[t].todo \in AllTodos
         /\ tasks[t].await \in Awaited(Head(tasks[t].todo)) /\ Head(tasks[t].todo) \in Steps
         /\ \A u \in DOMAIN tasks \ {t} : Going(tasks[u]) => tasks[t].overlapped /\ tasks[u].overlapped
<1>1. TasksFit(tasks) /\ TaskFits(tasks[t]) /\ t \in DOMAIN tasks
  BY DEF DevicesInv, TasksFit, TaskIds
<1>2. t \in 1 .. MaxTasks
  <2>1. tasks \in Seq(TaskType) /\ Len(tasks) <= MaxTasks /\ MaxTasks \in Nat
    BY <1>1 DEF TasksFit, MediaAssumption
  <2>2. DOMAIN tasks = 1 .. Len(tasks) /\ Len(tasks) \in Nat
    BY <2>1
  <2> QED
    BY <1>1, <2>1, <2>2
<1>3. /\ tasks[t] \in TaskType /\ tasks[t].todo # <<>>
      /\ tasks[t].todo \in Todos(tasks[t].kind)
      /\ tasks[t].await \in Awaited(Head(tasks[t].todo))
  BY <1>1 DEF TaskFits, Going
<1>4. tasks[t].todo \in AllTodos
  BY <1>3, TodosAre
<1>5. Head(tasks[t].todo) \in Steps
  BY <1>3, <1>4, FirstStep
<1>6. media \in PageType /\ missed \in BOOLEAN
  BY DEF DevicesInv, DevicesFit, StreamsFit, HandsFit
<1>7. \A u \in DOMAIN tasks \ {t} : Going(tasks[u]) => tasks[t].overlapped /\ tasks[u].overlapped
  BY <1>1 DEF TasksFit
<1> QED
  BY <1>1, <1>2, <1>3, <1>4, <1>5, <1>6, <1>7

\* A microphone that is held without disturbance is wanted, or task t is to switch it off.
LEMMA MicAlone ==
  ASSUME MediaAssumption, DevicesInv, NEW t \in TaskIds, Going(tasks[t]), Undisturbed(tasks),
         media.voice # None
  PROVE  \/ media.accents \/ media.lipsync
         \/ tasks[t].kind = "situation" /\ tasks[t].todo \in Turns /\ tasks[t].lipsyncBefore
<1>1. \/ media.accents \/ media.lipsync
      \/ \E u \in DOMAIN tasks :
           tasks[u].kind = "situation" /\ tasks[u].todo \in Turns /\ tasks[u].lipsyncBefore
  BY DEF DevicesInv, DevicesFit, MicWanted, Undisturbed
<1>2. ASSUME NEW u \in DOMAIN tasks, u # t PROVE tasks[u].todo \notin Turns
  <2>1. ~Going(tasks[u])
    BY <1>2, UnderWay DEF Undisturbed
  <2>2. tasks[u].todo = <<>>
    BY <2>1 DEF DevicesInv, TasksFit, TaskFits, Going
  <2> QED
    BY <2>2, StepLists DEF Turns, Starts
<1> QED
  BY <1>1, <1>2

\* Going on with the devices as they are.
LEMMA SameDevices ==
  ASSUME MediaAssumption, DevicesInv, NEW t \in TaskIds, Going(tasks[t]), NEW pg \in PageType, NEW todo,
         pg.src = media.src, pg.voice = media.voice, pg.running = media.running,
         pg.sessions = media.sessions, pg.accents = media.accents, pg.lipsync = media.lipsync,
         \A s \in live : s[1] = t /\ tasks[t].kind = "start" =>
           todo \in IF s[2] = "camera" THEN Opened ELSE Late,
         ~tasks[t].overlapped /\ tasks[t].kind # "start" /\ todo \notin NoDevice => media.running,
         Undisturbed(tasks) /\ media.voice # None =>
           \/ media.accents \/ media.lipsync
           \/ tasks[t].kind = "situation" /\ todo \in Turns /\ tasks[t].lipsyncBefore
  PROVE  DevicesMidway(t, pg, todo, live)
<1>1. DevicesFit(media, tasks, live) /\ Held(pg) = Held(media)
  BY DEF DevicesInv, Held
<1>2. StreamsFit(pg, tasks, live)
  BY <1>1 DEF DevicesFit, StreamsFit
<1>3. NoStray(pg, tasks, live)
  BY <1>1 DEF DevicesFit, NoStray
<1>4. \A u \in DOMAIN tasks \ {t} : Asks(pg, tasks, u)
  BY <1>1 DEF DevicesFit, OneAsked, Asks
<1>5. ASSUME NEW s \in live, tasks[s[1]].kind = "start"
      PROVE  (IF s[1] = t THEN todo ELSE tasks[s[1]].todo) \in IF s[2] = "camera" THEN Opened ELSE Late
  <2>1. CASE s[1] = t
    <3>1. todo \in IF s[2] = "camera" THEN Opened ELSE Late
      BY <1>5, <2>1
    <3> QED
      BY <2>1, <3>1
  <2>2. CASE s[1] # t
    <3>1. tasks[s[1]].todo \in IF s[2] = "camera" THEN Opened ELSE Late
      BY <1>1, <1>5 DEF DevicesFit, InOrder
    <3> QED
      BY <2>2, <3>1
  <2> QED
    BY <2>1, <2>2
<1> QED
  BY <1>2, <1>3, <1>4, <1>5 DEF DevicesMidway

\* Going on with the hands as they are.
LEMMA SameHands ==
  ASSUME MediaAssumption, DevicesInv, NEW t \in TaskIds, Going(tasks[t]), NEW pg, NEW todo,
         tasks[t].await \notin {"models", "firstHand", "hand"},
         pg.face = media.face, pg.hands = media.hands, pg.handModel = media.handModel,
         pg.fileset = media.fileset
  PROVE  HandsMidway(t, pg, todo, missed)
<1>1. HandsFit(media, tasks, missed) /\ t \in DOMAIN tasks
  BY UnderWay DEF DevicesInv
<1>2. tasks[t].kind = "start" => pg.face
  BY <1>1 DEF HandsFit, Going
<1>3. ~missed /\ pg.face /\ pg.hands /\ ~pg.handModel =>
        \E u \in DOMAIN tasks \ {t} : tasks[u].await \in {"firstHand", "hand"}
  BY <1>1 DEF HandsFit
<1>4. ~missed /\ pg.face /\ ~pg.fileset =>
        pg.handModel \/ \E u \in DOMAIN tasks \ {t} : tasks[u].await = "firstHand"
  BY <1>1 DEF HandsFit
<1> QED
  BY <1>1, <1>2, <1>3, <1>4 DEF HandsMidway, HandsFit

\* The steps after the first one.
LEMMA TailOf ==
  ASSUME NEW kind, NEW todo \in Todos(kind), todo # <<>>
  PROVE  /\ Tail(todo) \in Todos(kind)
         /\ todo \in Late => Tail(todo) \in Late
         /\ todo \in Opened => Tail(todo) \in Opened
         /\ todo \in NoDevice => Tail(todo) \in NoDevice
         /\ todo \in Turns /\ Head(todo) # "audio" => Tail(todo) \in Turns
<1>1. /\ Tail(<<"voice">>) = <<>> /\ Tail(<<"lipsync">>) = <<>> /\ Tail(<<"hands">>) = <<>>
      /\ Tail(<<"recamera">>) = <<>> /\ Tail(AtVoice) = <<"lipsync">> /\ Tail(AtControls) = AtVoice
      /\ Tail(AtMetadata) = AtControls /\ Tail(CameraSteps) = AtMetadata /\ Tail(AtHand) = CameraSteps
      /\ Tail(AtModels) = AtHand /\ Tail(AtMic) = <<"recamera">> /\ Tail(AtAudio) = <<"recamera">>
      /\ Tail(AtHands) = AtAudio /\ Head(AtAudio) = "audio"
  BY StepLists DEF Starts
<1>2. todo \in Late => Tail(todo) \in Late
  BY <1>1 DEF Late
<1>3. todo \in Opened => Tail(todo) \in Opened
  BY <1>1 DEF Opened, Late
<1>4. todo \in NoDevice => Tail(todo) \in NoDevice
  BY <1>1 DEF NoDevice, Turns
<1>5. todo \in Turns /\ Head(todo) # "audio" => Tail(todo) \in Turns
  BY <1>1 DEF Turns
<1>6. Tail(todo) \in Todos(kind)
  <2>1. CASE kind = "start"
    BY <1>1, <1>3, <2>1 DEF Todos, Opened, Late
  <2>2. CASE kind = "restart"
    BY <1>1, <1>3, <2>2 DEF Todos, Opened, Late
  <2>3. CASE kind \in {"voice", "lipsync", "hands"}
    BY <1>1, <2>3 DEF Todos
  <2>4. CASE kind = "situation"
    BY <1>1, <1>3, <2>4 DEF Todos, Opened, Late, Turns
  <2> QED
    BY <2>1, <2>2, <2>3, <2>4 DEF Todos
<1> QED
  BY <1>2, <1>3, <1>4, <1>5, <1>6

\* Going on to the next step with the devices as they are.
LEMMA NextStep ==
  ASSUME MediaAssumption, DevicesInv, NEW t \in TaskIds, Going(tasks[t]), NEW pg \in PageType,
         Head(tasks[t].todo) # "audio",
         pg.src = media.src, pg.voice = media.voice, pg.running = media.running,
         pg.sessions = media.sessions, pg.accents = media.accents, pg.lipsync = media.lipsync
  PROVE  DevicesMidway(t, pg, Tail(tasks[t].todo), live)
<1> PICK todo : todo = tasks[t].todo
  OBVIOUS
<1>1. /\ t \in DOMAIN tasks /\ todo # <<>> /\ todo \in Todos(tasks[t].kind)
  BY UnderWay
<1>2. /\ todo \in Late => Tail(todo) \in Late
      /\ todo \in Opened => Tail(todo) \in Opened
      /\ todo \in NoDevice => Tail(todo) \in NoDevice
      /\ todo \in Turns /\ Head(todo) # "audio" => Tail(todo) \in Turns
  BY <1>1, TailOf
<1>3. ASSUME NEW s \in live, s[1] = t, tasks[t].kind = "start"
      PROVE  Tail(todo) \in IF s[2] = "camera" THEN Opened ELSE Late
  <2>1. todo \in IF s[2] = "camera" THEN Opened ELSE Late
    BY <1>3 DEF DevicesInv, DevicesFit, InOrder
  <2> QED
    BY <1>2, <2>1
<1>4. ~tasks[t].overlapped /\ tasks[t].kind # "start" /\ Tail(todo) \notin NoDevice => media.running
  BY <1>1, <1>2 DEF DevicesInv, DevicesFit, WhileTracking
<1>5. Undisturbed(tasks) /\ media.voice # None =>
        \/ media.accents \/ media.lipsync
        \/ tasks[t].kind = "situation" /\ Tail(todo) \in Turns /\ tasks[t].lipsyncBefore
  BY <1>2, MicAlone
<1> QED
  BY <1>3, <1>4, <1>5, SameDevices

DevicesKept ==
  TasksFit(tasks') /\ DevicesFit(media', tasks', live') /\ HandsFit(media', tasks', missed')

\* A step that leaves devices and hands as they are.
LEMMA PlainStep ==
  ASSUME MediaAssumption, DevicesInv, NEW t \in TaskIds, NEW pg \in PageType,
         tasks[t].await \in {"metadata", "controls", "worklet"},
         pg.src = media.src, pg.voice = media.voice, pg.running = media.running,
         pg.sessions = media.sessions, pg.accents = media.accents, pg.lipsync = media.lipsync,
         pg.face = media.face, pg.hands = media.hands, pg.handModel = media.handModel,
         pg.fileset = media.fileset,
         Proceed(t, pg, Tail(tasks[t].todo), live), missed' = missed
  PROVE  DevicesKept
<1>0. Going(tasks[t])
  BY DEF Going
<1>1. /\ tasks[t].todo # <<>> /\ tasks[t].todo \in Todos(tasks[t].kind)
      /\ tasks[t].await \in Awaited(Head(tasks[t].todo)) /\ Head(tasks[t].todo) \in Steps
  BY <1>0, UnderWay
<1>2. Head(tasks[t].todo) # "audio"
  BY <1>1 DEF Awaited
<1>3. Tail(tasks[t].todo) \in Todos(tasks[t].kind)
  BY <1>1, TailOf
<1>4. DevicesMidway(t, pg, Tail(tasks[t].todo), live)
  BY <1>0, <1>2, NextStep
<1>5. HandsMidway(t, pg, Tail(tasks[t].todo), missed)
  BY <1>0, SameHands
<1> QED
  BY <1>0, <1>3, <1>4, <1>5, ProceedKeeps DEF DevicesKept

\* 'loadedmetadata' of the video.
LEMMA MetadataKeeps ==
  ASSUME MediaAssumption, DevicesInv, NEW t \in TaskIds, MetadataArrives(t) \/ ControlsSet(t)
  PROVE  DevicesKept
<1>1. /\ tasks[t].await \in {"metadata", "controls"}
      /\ Proceed(t, media, Tail(tasks[t].todo), live) /\ missed' = missed
  BY DEF MetadataArrives, ControlsSet
<1>2. media \in PageType
  BY DEF DevicesInv, DevicesFit, StreamsFit
<1> QED
  BY <1>1, <1>2, PlainStep

\* The face and pose models are there.
LEMMA ModelsKeep ==
  ASSUME MediaAssumption, DevicesInv, NEW t \in TaskIds, ModelsLoaded(t)
  PROVE  DevicesKept
<1> DEFINE bad == media.hands /\ ~media.handModel
<1> PICK kept \in BOOLEAN : kept = ~bad
  OBVIOUS
<1> PICK pg : pg = [media EXCEPT !.face = TRUE, !.fileset = kept]
  OBVIOUS
<1>1. /\ tasks[t].await = "models" /\ missed' = missed
      /\ Proceed(t, pg, Tail(tasks[t].todo), live)
  BY DEF ModelsLoaded
<1>2. Going(tasks[t]) /\ media \in PageType
  BY <1>1, UnderWay DEF Going
<1>3. /\ tasks[t].todo # <<>> /\ tasks[t].todo \in Todos(tasks[t].kind) /\ tasks[t].todo \in AllTodos
      /\ tasks[t].await \in Awaited(Head(tasks[t].todo)) /\ Head(tasks[t].todo) \in Steps
      /\ missed \in BOOLEAN
  BY <1>2, UnderWay
<1>4. Head(tasks[t].todo) = "models"
  BY <1>1, <1>3 DEF Awaited
<1>5. tasks[t].todo = AtModels /\ Tail(tasks[t].todo) = AtHand
  BY <1>3, <1>4, FirstStep, StepLists DEF Starts
<1>6. pg \in PageType
  <2>1. PICK q \in PageType : q = [media EXCEPT !.face = TRUE]
    BY <1>2 DEF PageType
  <2>2. pg = [[media EXCEPT !.face = TRUE] EXCEPT !.fileset = kept]
    OBVIOUS
  <2>3. pg = [q EXCEPT !.fileset = kept]
    BY <2>1, <2>2
  <2> QED
    BY <2>3 DEF PageType
<1>7. /\ pg.src = media.src /\ pg.voice = media.voice /\ pg.running = media.running
      /\ pg.sessions = media.sessions /\ pg.accents = media.accents /\ pg.lipsync = media.lipsync
      /\ pg.face = TRUE /\ pg.hands = media.hands /\ pg.handModel = media.handModel
      /\ pg.fileset = kept
  BY <1>2 DEF PageType
<1>8. Tail(tasks[t].todo) \in Todos(tasks[t].kind)
  BY <1>3, TailOf
<1>9. DevicesMidway(t, pg, Tail(tasks[t].todo), live)
  BY <1>2, <1>4, <1>6, <1>7, NextStep
<1>10. bad => At(pg, Rest(pg, AtHand)) = "firstHand"
  <2> SUFFICES ASSUME bad PROVE At(pg, Rest(pg, AtHand)) = "firstHand"
    OBVIOUS
  <2>1. Await(pg, "firstHand") = "firstHand"
    BY <1>7 DEF Await
  <2>2. Rest(pg, AtHand) = AtHand /\ Head(AtHand) = "firstHand" /\ AtHand # <<>>
    BY <2>1, RestCases, StepLists DEF Starts
  <2> QED
    BY <2>1, <2>2 DEF At
<1>11. HandsMidway(t, pg, Tail(tasks[t].todo), missed)
  <2>1. pg.hands /\ ~pg.handModel => bad
    BY <1>7
  <2>2. ~pg.fileset => bad
    BY <1>7
  <2> HIDE DEF bad
  <2> QED
    BY <1>3, <1>5, <1>7, <1>10, <2>1, <2>2 DEF HandsMidway
<1> QED
  BY <1>1, <1>2, <1>8, <1>9, <1>11, ProceedKeeps DEF DevicesKept

\* The hand model is there, or cannot be had.
LEMMA HandKeeps ==
  ASSUME MediaAssumption, DevicesInv, NEW t \in TaskIds, FirstHandLoaded(t) \/ HandLoaded(t)
  PROVE  DevicesKept
<1>1. PICK pg \in PageType :
        /\ tasks[t].await \in {"firstHand", "hand"} /\ missed' = missed
        /\ Proceed(t, pg, Tail(tasks[t].todo), live)
        /\ pg.src = media.src /\ pg.voice = media.voice /\ pg.running = media.running
        /\ pg.sessions = media.sessions /\ pg.accents = media.accents /\ pg.lipsync = media.lipsync
        /\ pg.face = media.face /\ pg.hands = media.hands /\ pg.handModel = TRUE
  <2>0. media \in PageType
    BY DEF DevicesInv, DevicesFit, StreamsFit
  <2>1. PICK q \in PageType : q = [media EXCEPT !.handModel = TRUE]
    BY <2>0 DEF PageType
  <2>2. PICK p \in PageType : p = [q EXCEPT !.fileset = TRUE]
    BY DEF PageType
  <2>3. p = [media EXCEPT !.handModel = TRUE, !.fileset = TRUE]
    <3>1. p = [[media EXCEPT !.handModel = TRUE] EXCEPT !.fileset = TRUE]
      BY <2>1, <2>2
    <3> QED
      BY <3>1
  <2>4. /\ q.src = media.src /\ q.voice = media.voice /\ q.running = media.running
        /\ q.sessions = media.sessions /\ q.accents = media.accents /\ q.lipsync = media.lipsync
        /\ q.face = media.face /\ q.hands = media.hands /\ q.handModel = TRUE
    BY <2>0, <2>1 DEF PageType
  <2>5. /\ p.src = q.src /\ p.voice = q.voice /\ p.running = q.running
        /\ p.sessions = q.sessions /\ p.accents = q.accents /\ p.lipsync = q.lipsync
        /\ p.face = q.face /\ p.hands = q.hands /\ p.handModel = q.handModel
    BY <2>2 DEF PageType
  <2>6. CASE FirstHandLoaded(t)
    <3>1. tasks[t].await = "firstHand" /\ missed' = missed /\ Proceed(t, p, Tail(tasks[t].todo), live)
      BY <2>3, <2>6 DEF FirstHandLoaded
    <3> QED
      BY <2>4, <2>5, <3>1
  <2>7. CASE HandLoaded(t)
    <3>1. tasks[t].await = "hand" /\ missed' = missed /\ Proceed(t, q, Tail(tasks[t].todo), live)
      BY <2>1, <2>7 DEF HandLoaded
    <3> QED
      BY <2>4, <3>1
  <2> QED
    BY <2>6, <2>7
<1>2. Going(tasks[t])
  BY <1>1 DEF Going
<1>3. /\ tasks[t].todo # <<>> /\ tasks[t].todo \in Todos(tasks[t].kind) /\ t \in DOMAIN tasks
      /\ tasks[t].await \in Awaited(Head(tasks[t].todo)) /\ Head(tasks[t].todo) \in Steps
      /\ missed \in BOOLEAN
  BY <1>2, UnderWay
<1>4. Head(tasks[t].todo) # "audio" /\ Tail(tasks[t].todo) \in Todos(tasks[t].kind)
  BY <1>1, <1>3, TailOf DEF Awaited
<1>5. DevicesMidway(t, pg, Tail(tasks[t].todo), live)
  BY <1>1, <1>2, <1>4, NextStep
<1>6. tasks[t].kind = "start" => pg.face
  BY <1>1, <1>3 DEF DevicesInv, HandsFit
<1>7. HandsMidway(t, pg, Tail(tasks[t].todo), missed)
  BY <1>1, <1>3, <1>6 DEF HandsMidway
<1> QED
  BY <1>1, <1>2, <1>4, <1>5, <1>7, ProceedKeeps DEF DevicesKept

\* startAudio fails and is reported.
LEMMA AudioFailsKeeps ==
  ASSUME MediaAssumption, DevicesInv, NEW t \in TaskIds, tasks[t].await \in {"mic", "worklet"},
         AudioFails(t), missed' = missed
  PROVE  DevicesKept
<1> PICK own : own = <<t, Head(tasks[t].todo)>>
  OBVIOUS
<1> PICK pg : pg = HandleAudioInputError(media)
  OBVIOUS
<1> PICK todo : todo = Tail(tasks[t].todo)
  OBVIOUS
<1> PICK streams : streams = Released(pg) \ {own}
  OBVIOUS
<1>1. Proceed(t, pg, todo, streams)
  BY DEF AudioFails
<1>2. Going(tasks[t]) /\ media \in PageType
  BY UnderWay DEF Going
<1>3. /\ tasks[t].todo # <<>> /\ tasks[t].todo \in Todos(tasks[t].kind) /\ t \in DOMAIN tasks
      /\ tasks[t].await \in Awaited(Head(tasks[t].todo)) /\ Head(tasks[t].todo) \in Steps
  BY <1>2, UnderWay
<1>4. Head(tasks[t].todo) \in {"voice", "lipsync"}
  BY <1>3 DEF Awaited, Steps
<1>5. /\ pg \in PageType /\ pg.src = media.src /\ pg.voice = None /\ pg.running = media.running
      /\ pg.sessions = media.sessions /\ pg.face = media.face /\ pg.hands = media.hands
      /\ pg.handModel = media.handModel /\ pg.fileset = media.fileset
  <2>1. PICK q : q = StopAudioInput(media)
    OBVIOUS
  <2>2. /\ q \in PageType /\ q.src = media.src /\ q.voice = None /\ q.running = media.running
        /\ q.sessions = media.sessions /\ q.face = media.face /\ q.hands = media.hands
        /\ q.handModel = media.handModel /\ q.fileset = media.fileset
    <3>1. q = [[media EXCEPT !.voice = None] EXCEPT !.worklet = FALSE]
      BY <2>1 DEF StopAudioInput
    <3>2. PICK p \in PageType : p = [media EXCEPT !.voice = None]
      BY <1>2 DEF PageType
    <3>3. q = [p EXCEPT !.worklet = FALSE]
      BY <3>1, <3>2
    <3>4. /\ p.src = media.src /\ p.voice = None /\ p.running = media.running
          /\ p.sessions = media.sessions /\ p.face = media.face /\ p.hands = media.hands
          /\ p.handModel = media.handModel /\ p.fileset = media.fileset
      BY <1>2, <3>2 DEF PageType
    <3>5. q \in PageType
      BY <3>2, <3>3, ZenonT(40) DEF PageType
    <3>6. /\ q.src = p.src /\ q.voice = p.voice /\ q.running = p.running
          /\ q.sessions = p.sessions /\ q.face = p.face /\ q.hands = p.hands
          /\ q.handModel = p.handModel /\ q.fileset = p.fileset
      BY <3>2, <3>3 DEF PageType
    <3> QED
      BY <3>4, <3>5, <3>6
  <2>3. pg = [[q EXCEPT !.accents = FALSE] EXCEPT !.lipsync = FALSE]
    BY <2>1 DEF HandleAudioInputError
  <2>4. PICK p \in PageType : p = [q EXCEPT !.accents = FALSE]
    BY <2>2 DEF PageType
  <2>5. pg = [p EXCEPT !.lipsync = FALSE]
    BY <2>3, <2>4
  <2> QED
    BY <2>2, <2>4, <2>5, ZenonT(40) DEF PageType
<1>6. todo \in Todos(tasks[t].kind)
  BY <1>3, TailOf
<1>7. DevicesMidway(t, pg, todo, streams)
  <2>1. /\ DevicesFit(media, tasks, live) /\ Held(media) \subseteq live
        /\ live \subseteq CameraStreams \cup MicStreams /\ \A s \in live : s[1] \in DOMAIN tasks
    BY DEF DevicesInv, DevicesFit, StreamsFit
  <2>2. media.src # None => media.src \in CameraStreams /\ media.src # own /\ media.src \in live
    BY <1>2, <1>4, <2>1 DEF PageType, CameraStreams, Held
  <2>3. /\ streams \subseteq live
        /\ \A s \in live : s \notin streams => s = own \/ (s \in {media.src, media.voice} /\ s # media.src)
        /\ \A s \in streams : s # media.voice \/ s \in {pg.src, pg.voice}
    BY <1>5 DEF Released
  <2>4. Held(pg) = {media.src} \ {None}
    BY <1>5 DEF Held
  <2>5. Held(pg) \subseteq streams
    BY <2>2, <2>3, <2>4
  <2>6. StreamsFit(pg, tasks, streams)
    BY <1>5, <2>1, <2>3, <2>5 DEF StreamsFit
  <2>7. NoStray(pg, tasks, streams)
    <3>1. ASSUME NEW s \in streams, ~tasks[s[1]].overlapped PROVE s \in Held(pg)
      <4>1. s \in Held(media)
        BY <2>1, <2>3, <3>1 DEF DevicesFit, NoStray
      <4> QED
        BY <1>5, <2>3, <3>1, <4>1 DEF Held
    <3>2. ASSUME NEW s \in Held(pg), ~tasks[s[1]].overlapped
          PROVE  pg.running \/ (Going(tasks[s[1]]) /\ tasks[s[1]].kind = "start")
      <4>1. s \in Held(media)
        BY <2>4 DEF Held
      <4> QED
        BY <1>5, <2>1, <3>2, <4>1 DEF DevicesFit, NoStray
    <3> QED
      BY <3>1, <3>2 DEF NoStray
  <2>8. \A u \in DOMAIN tasks \ {t} : Asks(pg, tasks, u)
    BY <1>5, <2>1 DEF DevicesFit, OneAsked, Asks
  <2>9. /\ tasks[t].todo \in Late => todo \in Late
        /\ tasks[t].todo \in Opened => todo \in Opened
        /\ tasks[t].todo \in NoDevice => todo \in NoDevice
    BY <1>3, TailOf
  <2>10. ASSUME NEW s \in streams, tasks[s[1]].kind = "start"
         PROVE  (IF s[1] = t THEN todo ELSE tasks[s[1]].todo) \in IF s[2] = "camera" THEN Opened ELSE Late
    <3>1. tasks[s[1]].todo \in IF s[2] = "camera" THEN Opened ELSE Late
      BY <2>1, <2>3, <2>10 DEF DevicesFit, InOrder
    <3> QED
      BY <2>9, <3>1
  <2>11. ~tasks[t].overlapped /\ tasks[t].kind # "start" /\ todo \notin NoDevice => pg.running
    BY <1>3, <1>5, <2>1, <2>9 DEF DevicesFit, WhileTracking
  <2> QED
    BY <1>5, <2>6, <2>7, <2>8, <2>10, <2>11 DEF DevicesMidway
<1>8. HandsMidway(t, pg, todo, missed)
  BY <1>2, <1>5, SameHands
<1> QED
  BY <1>1, <1>2, <1>6, <1>7, <1>8, ProceedKeeps DEF DevicesKept

\* The audio worklet is there.
LEMMA WorkletKeeps ==
  ASSUME MediaAssumption, DevicesInv, NEW t \in TaskIds, WorkletLoaded(t)
  PROVE  DevicesKept
<1>1. tasks[t].await = "worklet" /\ missed' = missed
  BY DEF WorkletLoaded
<1>2. CASE media.voice # None /\ media.voice = tasks[t].input
  <2>1. PICK pg : pg = [media EXCEPT !.worklet = TRUE]
    OBVIOUS
  <2>2. Proceed(t, pg, Tail(tasks[t].todo), live)
    BY <1>2, <2>1 DEF WorkletLoaded
  <2>3. media \in PageType
    BY DEF DevicesInv, DevicesFit, StreamsFit
  <2>4. /\ pg \in PageType
        /\ pg.src = media.src /\ pg.voice = media.voice /\ pg.running = media.running
        /\ pg.sessions = media.sessions /\ pg.accents = media.accents /\ pg.lipsync = media.lipsync
        /\ pg.face = media.face /\ pg.hands = media.hands /\ pg.handModel = media.handModel
        /\ pg.fileset = media.fileset
    BY <2>1, <2>3 DEF PageType
  <2> QED
    BY <1>1, <2>2, <2>4, PlainStep
<1>3. CASE ~(media.voice # None /\ media.voice = tasks[t].input)
  <2>1. AudioFails(t)
    BY <1>3 DEF WorkletLoaded
  <2> QED
    BY <1>1, <2>1, AudioFailsKeeps
<1> QED
  BY <1>2, <1>3

\* A stream that is granted: the page drops what it held of that kind and holds it.
LEMMA GrantKeeps ==
  ASSUME MediaAssumption, DevicesInv, NEW t \in TaskIds, Going(tasks[t]), NEW own, NEW pg \in PageType,
         NEW todo, own[1] = t,
         \/ /\ own \in CameraStreams /\ own[2] = "camera" /\ pg.src = own /\ pg.voice = media.voice
            /\ tasks[t].await = "stream"
         \/ /\ own \in MicStreams /\ own[2] # "camera" /\ pg.voice = own /\ pg.src = media.src
            /\ tasks[t].await = "mic",
         pg.running = media.running, pg.sessions = media.sessions,
         pg.accents = media.accents, pg.lipsync = media.lipsync,
         tasks[t].todo \notin NoDevice,
         tasks[t].kind = "start" => todo \in IF own[2] = "camera" THEN Opened ELSE Late,
         \A s \in live : s[1] = t /\ tasks[t].kind = "start" =>
           todo \in IF s[2] = "camera" THEN Opened ELSE Late,
         Undisturbed(tasks) /\ pg.voice # None => pg.accents \/ pg.lipsync
  PROVE  DevicesMidway(t, pg, todo, live \cup {own})
<1> PICK streams : streams = live \cup {own}
  OBVIOUS
<1>1. /\ DevicesFit(media, tasks, live) /\ Held(media) \subseteq live
      /\ live \subseteq CameraStreams \cup MicStreams /\ \A s \in live : s[1] \in DOMAIN tasks
  BY DEF DevicesInv, DevicesFit, StreamsFit
<1>2. t \in DOMAIN tasks /\ \A u \in DOMAIN tasks \ {t} : Going(tasks[u]) => tasks[t].overlapped
  BY UnderWay
<1>3. own # None
  BY DEF MediaAssumption, CameraStreams, MicStreams
<1>4. own \in Held(pg) /\ Held(pg) \subseteq Held(media) \cup {own}
  BY <1>3 DEF Held
<1>5. StreamsFit(pg, tasks, streams)
  BY <1>1, <1>2, <1>4 DEF StreamsFit
<1>6. \/ own[2] = "camera" /\ (media.src = None \/ tasks[media.src[1]].overlapped)
      \/ own[2] # "camera" /\ (media.voice = None \/ tasks[media.voice[1]].overlapped)
  BY <1>1, <1>2 DEF DevicesFit, OneAsked
<1>7. ASSUME NEW s \in Held(media), s \notin Held(pg) PROVE tasks[s[1]].overlapped
  BY <1>3, <1>6, <1>7 DEF Held
<1>8. NoStray(pg, tasks, streams)
  <2>1. ASSUME NEW s \in streams, ~tasks[s[1]].overlapped PROVE s \in Held(pg)
    <3>1. CASE s = own
      BY <1>4, <3>1
    <3>2. CASE s \in live
      <4>1. s \in Held(media)
        BY <1>1, <2>1, <3>2 DEF DevicesFit, NoStray
      <4> QED
        BY <1>7, <2>1, <4>1
    <3> QED
      BY <3>1, <3>2
  <2>2. ASSUME NEW s \in Held(pg), ~tasks[s[1]].overlapped
        PROVE  pg.running \/ (Going(tasks[s[1]]) /\ tasks[s[1]].kind = "start")
    <3>1. CASE s = own
      <4>1. CASE tasks[t].kind = "start"
        BY <3>1, <4>1
      <4>2. CASE tasks[t].kind # "start"
        <5>1. ~tasks[t].overlapped
          BY <2>2, <3>1
        <5> QED
          BY <1>1, <1>2, <4>2, <5>1 DEF DevicesFit, WhileTracking
      <4> QED
        BY <4>1, <4>2
    <3>2. CASE s \in Held(media)
      BY <1>1, <2>2, <3>2 DEF DevicesFit, NoStray
    <3> QED
      BY <1>4, <3>1, <3>2
  <2> QED
    BY <2>1, <2>2 DEF NoStray
<1>9. ASSUME NEW u \in DOMAIN tasks \ {t} PROVE Asks(pg, tasks, u)
  <2>1. Asks(media, tasks, u)
    BY <1>1 DEF DevicesFit, OneAsked, Asks
  <2>2. CASE Going(tasks[u])
    <3>1. tasks[own[1]].overlapped
      BY <1>2, <2>2
    <3> QED
      BY <2>1, <3>1 DEF Asks
  <2>3. CASE ~Going(tasks[u])
    BY <2>3 DEF Asks, Going
  <2> QED
    BY <2>2, <2>3
<1>10. ASSUME NEW s \in streams, tasks[s[1]].kind = "start"
       PROVE  (IF s[1] = t THEN todo ELSE tasks[s[1]].todo) \in IF s[2] = "camera" THEN Opened ELSE Late
  <2>1. CASE s[1] = t
    <3>1. todo \in IF s[2] = "camera" THEN Opened ELSE Late
      BY <1>10, <2>1
    <3> QED
      BY <2>1, <3>1
  <2>2. CASE s[1] # t
    <3>1. s \in live
      BY <2>2
    <3>2. tasks[s[1]].todo \in IF s[2] = "camera" THEN Opened ELSE Late
      BY <1>1, <1>10, <3>1 DEF DevicesFit, InOrder
    <3> QED
      BY <2>2, <3>2
  <2> QED
    BY <2>1, <2>2
<1>11. ~tasks[t].overlapped /\ tasks[t].kind # "start" => pg.running
  BY <1>1, <1>2 DEF DevicesFit, WhileTracking
<1> QED
  BY <1>5, <1>8, <1>9, <1>10, <1>11 DEF DevicesMidway

\* getUserMedia grants the camera.
LEMMA CameraGrantedKeeps ==
  ASSUME MediaAssumption, DevicesInv, NEW t \in TaskIds, CameraGranted(t)
  PROVE  DevicesKept
<1> PICK own : own = <<t, "camera">>
  OBVIOUS
<1> PICK pg : pg = [media EXCEPT !.src = own]
  OBVIOUS
<1> PICK todo : todo = Tail(tasks[t].todo)
  OBVIOUS
<1>1. /\ tasks[t].await = "stream" /\ missed' = missed
      /\ Proceed(t, pg, todo, live \cup {own})
  BY DEF CameraGranted
<1>2. Going(tasks[t])
  BY <1>1 DEF Going
<1>3. /\ t \in DOMAIN tasks /\ t \in 1 .. MaxTasks /\ media \in PageType
      /\ tasks[t].todo # <<>> /\ tasks[t].todo \in Todos(tasks[t].kind) /\ tasks[t].todo \in AllTodos
      /\ tasks[t].await \in Awaited(Head(tasks[t].todo)) /\ Head(tasks[t].todo) \in Steps
  BY <1>2, UnderWay
<1>4. Head(tasks[t].todo) = "camera"
  BY <1>1, <1>3 DEF Awaited, Steps
<1>5. tasks[t].todo = CameraSteps /\ todo = AtMetadata
  BY <1>3, <1>4, FirstStep, StepLists DEF Starts
<1>6. todo \in Todos(tasks[t].kind)
  BY <1>3, TailOf
<1>7. own \in CameraStreams /\ own[1] = t /\ own[2] = "camera"
  BY <1>3 DEF CameraStreams
<1>8. /\ pg \in PageType
      /\ pg.src = own /\ pg.voice = media.voice /\ pg.running = media.running
      /\ pg.sessions = media.sessions /\ pg.accents = media.accents /\ pg.lipsync = media.lipsync
      /\ pg.face = media.face /\ pg.hands = media.hands /\ pg.handModel = media.handModel
      /\ pg.fileset = media.fileset
  BY <1>3, <1>7 DEF PageType
<1>9. CameraSteps \notin NoDevice /\ CameraSteps \notin Opened /\ CameraSteps \notin Late /\ AtMetadata \in Opened
      /\ CameraSteps \notin Turns
  BY StepLists DEF NoDevice, Opened, Late, Turns, Starts
<1>10. \A s \in live : ~(s[1] = t /\ tasks[t].kind = "start")
  BY <1>5, <1>9 DEF DevicesInv, DevicesFit, InOrder
<1>11. Undisturbed(tasks) /\ media.voice # None => media.accents \/ media.lipsync
  BY <1>2, <1>5, <1>9, MicAlone
<1>12. DevicesMidway(t, pg, todo, live \cup {own})
  BY <1>1, <1>2, <1>5, <1>7, <1>8, <1>9, <1>10, <1>11, GrantKeeps
<1>13. HandsMidway(t, pg, todo, missed)
  BY <1>1, <1>2, <1>8, SameHands
<1> QED
  BY <1>1, <1>2, <1>6, <1>12, <1>13, ProceedKeeps DEF DevicesKept

\* getUserMedia grants the microphone.
LEMMA MicGrantedKeeps ==
  ASSUME MediaAssumption, DevicesInv, NEW t \in TaskIds, MicGranted(t)
  PROVE  DevicesKept
<1> PICK todo : todo = tasks[t].todo
  OBVIOUS
<1> PICK own : own = <<t, Head(todo)>>
  OBVIOUS
<1> PICK pg : pg = [media EXCEPT !.voice = own, !.worklet = FALSE]
  OBVIOUS
<1>1. /\ tasks[t].await = "mic" /\ missed' = missed
      /\ Proceed(t, pg, todo, live \cup {own})
  BY DEF MicGranted
<1>2. Going(tasks[t])
  BY <1>1 DEF Going
<1>3. /\ t \in DOMAIN tasks /\ t \in 1 .. MaxTasks /\ media \in PageType
      /\ todo # <<>> /\ todo \in Todos(tasks[t].kind) /\ todo \in AllTodos
      /\ tasks[t].await \in Awaited(Head(todo)) /\ Head(todo) \in Steps
  BY <1>2, UnderWay
<1>4. Head(todo) \in {"voice", "lipsync"}
  BY <1>1, <1>3 DEF Awaited, Steps
<1>5. todo \in {<<"voice">>, AtVoice, <<"lipsync">>, AtMic}
  BY <1>3, <1>4, FirstStep
<1>6. own \in MicStreams /\ own[1] = t /\ own[2] # "camera"
  BY <1>3, <1>4 DEF MicStreams
<1>7. /\ pg \in PageType
      /\ pg.src = media.src /\ pg.voice = own /\ pg.running = media.running
      /\ pg.sessions = media.sessions /\ pg.accents = media.accents /\ pg.lipsync = media.lipsync
      /\ pg.face = media.face /\ pg.hands = media.hands /\ pg.handModel = media.handModel
      /\ pg.fileset = media.fileset
  <2>1. pg = [[media EXCEPT !.voice = own] EXCEPT !.worklet = FALSE]
    OBVIOUS
  <2>2. PICK p \in PageType : p = [media EXCEPT !.voice = own]
    BY <1>3, <1>6 DEF PageType
  <2>3. pg = [p EXCEPT !.worklet = FALSE]
    BY <2>1, <2>2
  <2>4. /\ p.src = media.src /\ p.voice = own /\ p.running = media.running
        /\ p.sessions = media.sessions /\ p.accents = media.accents /\ p.lipsync = media.lipsync
        /\ p.face = media.face /\ p.hands = media.hands /\ p.handModel = media.handModel
        /\ p.fileset = media.fileset
    BY <1>3, <2>2 DEF PageType
  <2>5. pg \in PageType
    BY <2>2, <2>3, ZenonT(40) DEF PageType
  <2>6. /\ pg.src = p.src /\ pg.voice = p.voice /\ pg.running = p.running
        /\ pg.sessions = p.sessions /\ pg.accents = p.accents /\ pg.lipsync = p.lipsync
        /\ pg.face = p.face /\ pg.hands = p.hands /\ pg.handModel = p.handModel
        /\ pg.fileset = p.fileset
    BY <2>2, <2>3 DEF PageType
  <2> QED
    BY <2>4, <2>5, <2>6
<1>8. todo \notin NoDevice
  <2>1. Head(<<"hands">>) = "hands" /\ Head(<<"recamera">>) = "recamera" /\ Head(AtHands) = "hands"
        /\ Head(AtAudio) = "audio"
    BY StepLists DEF Starts
  <2> QED
    BY <1>3, <1>4, <2>1 DEF NoDevice, Turns
<1>9. tasks[t].kind = "start" => todo \in Late
  <2>1. Head(CameraSteps) = "camera" /\ Head(AtHand) = "firstHand" /\ Head(AtModels) = "models"
        /\ Head(AtControls) = "controls" /\ Head(AtMetadata) = "metadata"
    BY StepLists DEF Starts
  <2> QED
    BY <1>3, <1>4, <2>1 DEF Todos, Opened
<1>10. \A s \in live : s[1] = t /\ tasks[t].kind = "start" =>
         todo \in IF s[2] = "camera" THEN Opened ELSE Late
  BY <1>9 DEF Opened
<1>11. Undisturbed(tasks) => media.accents \/ media.lipsync
  BY <1>1, <1>3 DEF DevicesInv, DevicesFit, MicWanted, Undisturbed
<1>12. DevicesMidway(t, pg, todo, live \cup {own})
  BY <1>1, <1>2, <1>6, <1>7, <1>8, <1>9, <1>10, <1>11, GrantKeeps, ZenonT(40)
<1>13. HandsMidway(t, pg, todo, missed)
  BY <1>1, <1>2, <1>7, SameHands
<1> QED
  BY <1>1, <1>2, <1>3, <1>12, <1>13, ProceedKeeps DEF DevicesKept

\* applySituation comes to the microphone.
LEMMA SituationAudioKeeps ==
  ASSUME MediaAssumption, DevicesInv, NEW t \in TaskIds, SituationAudio(t)
  PROVE  DevicesKept
<1> PICK todo : todo = tasks[t].todo
  OBVIOUS
<1>1. tasks[t].await = "turn" /\ missed' = missed /\ Head(todo) = "audio"
  BY DEF SituationAudio
<1>2. Going(tasks[t])
  BY <1>1 DEF Going
<1>3. /\ t \in DOMAIN tasks /\ media \in PageType /\ tasks[t] \in TaskType
      /\ todo # <<>> /\ todo \in Todos(tasks[t].kind) /\ todo \in AllTodos
  BY <1>2, UnderWay
<1>4. todo = AtAudio /\ Tail(todo) = <<"recamera">>
  BY <1>1, <1>3, FirstStep, StepLists, SMTT(30) DEF Starts
<1>5. tasks[t].kind = "situation"
  <2>1. /\ Head(CameraSteps) = "camera" /\ Head(AtHand) = "firstHand" /\ Head(AtModels) = "models"
        /\ Head(AtControls) = "controls" /\ Head(AtMetadata) = "metadata" /\ Head(<<"voice">>) = "voice"
        /\ Head(<<"lipsync">>) = "lipsync" /\ Head(<<"hands">>) = "hands" /\ Head(AtVoice) = "voice"
    BY StepLists DEF Starts
  <2>2. todo \notin Opened \cup {CameraSteps, AtHand, AtModels, <<"voice">>, <<"hands">>, <<"lipsync">>}
    BY <1>1, <1>3, <2>1 DEF Opened, Late
  <2> QED
    BY <1>3, <2>2 DEF Todos
<1>6. <<"recamera">> \in NoDevice /\ <<"recamera">> \in Todos("situation") /\ AtMic \in Todos("situation")
  BY DEF NoDevice, Todos
<1>7. HandsMidway(t, media, <<"recamera">>, missed) /\ HandsMidway(t, media, AtMic, missed)
  BY <1>1, <1>2, SameHands
<1>8. CASE media.lipsync = tasks[t].lipsyncBefore
  <2>1. Proceed(t, media, <<"recamera">>, live)
    BY <1>4, <1>8 DEF SituationAudio
  <2>2. Undisturbed(tasks) /\ media.voice # None => media.accents \/ media.lipsync
    BY <1>2, <1>8, MicAlone
  <2>3. DevicesMidway(t, media, <<"recamera">>, live)
    BY <1>2, <1>3, <1>5, <1>6, <2>2, SameDevices
  <2> QED
    BY <1>1, <1>2, <1>5, <1>6, <1>7, <2>1, <2>3, ProceedKeeps DEF DevicesKept
<1>9. CASE media.lipsync # tasks[t].lipsyncBefore /\ media.lipsync /\ media.running
  <2>1. Proceed(t, media, <<"lipsync">> \o <<"recamera">>, live)
    BY <1>4, <1>9 DEF SituationAudio
  <2>2. <<"lipsync">> \o <<"recamera">> = AtMic
    <3> DEFINE a == <<"lipsync">>
               b == <<"recamera">>
    <3>1. a \in Seq(Steps) /\ b \in Seq(Steps) /\ AtMic \in Seq(Steps)
          /\ Len(AtMic) = Len(a) + Len(b)
      BY DEF AtMic, Steps
    <3>2. \A i \in 1 .. Len(AtMic) : AtMic[i] = IF i <= Len(a) THEN a[i] ELSE b[i - Len(a)]
      BY DEF AtMic
    <3> HIDE DEF a, b
    <3>3. a \o b = AtMic
      BY <3>1, <3>2, PutTogether
    <3> QED
      BY <3>3 DEF a, b
  <2>3. DevicesMidway(t, media, AtMic, live)
    BY <1>2, <1>3, <1>5, <1>9, SameDevices
  <2>4. Proceed(t, media, AtMic, live)
    BY <2>1, <2>2
  <2> QED
    BY <1>1, <1>2, <1>5, <1>6, <1>7, <2>3, <2>4, ProceedKeeps DEF DevicesKept
<1>10. CASE media.lipsync # tasks[t].lipsyncBefore /\ ~(media.lipsync /\ media.running)
  <2> PICK pg : pg = StopAudioLipsync(media)
    OBVIOUS
  <2> PICK streams : streams = Released(pg)
    OBVIOUS
  <2>1. Proceed(t, pg, <<"recamera">>, streams)
    BY <1>4, <1>10 DEF SituationAudio
  <2>2. /\ pg \in PageType /\ pg.src = media.src /\ pg.running = media.running
        /\ pg.sessions = media.sessions /\ pg.accents = media.accents /\ pg.lipsync = media.lipsync
        /\ pg.face = media.face /\ pg.hands = media.hands /\ pg.handModel = media.handModel
        /\ pg.fileset = media.fileset
        /\ pg.voice = IF media.accents THEN media.voice ELSE None
    <3>1. CASE media.accents
      <4>1. pg = [media EXCEPT !.worklet = FALSE]
        BY <3>1 DEF StopAudioLipsync
      <4> QED
        BY <1>3, <3>1, <4>1 DEF PageType
    <3>2. CASE ~media.accents
      <4>1. pg = [[media EXCEPT !.voice = None] EXCEPT !.worklet = FALSE]
        BY <3>2 DEF StopAudioLipsync, StopAudioInput
      <4>2. PICK p \in PageType : p = [media EXCEPT !.voice = None]
        BY <1>3 DEF PageType
      <4>3. pg = [p EXCEPT !.worklet = FALSE]
        BY <4>1, <4>2
      <4> QED
        BY <1>3, <3>2, <4>2, <4>3 DEF PageType
    <3> QED
      BY <3>1, <3>2
  <2>3. HandsMidway(t, pg, <<"recamera">>, missed)
    BY <1>1, <1>2, <2>2, SameHands
  <2>4. /\ DevicesFit(media, tasks, live) /\ Held(media) \subseteq live
        /\ live \subseteq CameraStreams \cup MicStreams /\ \A s \in live : s[1] \in DOMAIN tasks
    BY DEF DevicesInv, DevicesFit, StreamsFit
  <2>5. /\ streams \subseteq live
        /\ \A s \in live : s \notin streams <=> s \in {media.src, media.voice} /\ s \notin {pg.src, pg.voice}
    BY DEF Released
  <2>6. Held(pg) \subseteq Held(media) /\ Held(pg) \subseteq streams
    BY <2>2, <2>4, <2>5 DEF Held
  <2>7. StreamsFit(pg, tasks, streams)
    BY <2>2, <2>4, <2>5, <2>6 DEF StreamsFit
  <2>8. NoStray(pg, tasks, streams)
    <3>1. ASSUME NEW s \in streams, ~tasks[s[1]].overlapped PROVE s \in Held(pg)
      <4>1. s \in live /\ s \in Held(media)
        BY <2>4, <2>5, <3>1 DEF DevicesFit, NoStray
      <4> QED
        BY <2>5, <3>1, <4>1 DEF Held
    <3>2. ASSUME NEW s \in Held(pg), ~tasks[s[1]].overlapped
          PROVE  pg.running \/ (Going(tasks[s[1]]) /\ tasks[s[1]].kind = "start")
      BY <2>2, <2>4, <2>6, <3>2 DEF DevicesFit, NoStray
    <3> QED
      BY <3>1, <3>2 DEF NoStray
  <2>9. \A u \in DOMAIN tasks \ {t} : Asks(pg, tasks, u)
    BY <2>2, <2>4 DEF DevicesFit, OneAsked, Asks
  <2>10. ASSUME NEW s \in streams, tasks[s[1]].kind = "start"
         PROVE  (IF s[1] = t THEN <<"recamera">> ELSE tasks[s[1]].todo)
                  \in IF s[2] = "camera" THEN Opened ELSE Late
    <3>1. s[1] # t
      BY <1>5, <2>10
    <3>2. tasks[s[1]].todo \in IF s[2] = "camera" THEN Opened ELSE Late
      BY <2>4, <2>5, <2>10 DEF DevicesFit, InOrder
    <3> QED
      BY <3>1, <3>2
  <2>11. DevicesMidway(t, pg, <<"recamera">>, streams)
    BY <1>6, <2>2, <2>7, <2>8, <2>9, <2>10 DEF DevicesMidway
  <2> QED
    BY <1>1, <1>2, <1>5, <1>6, <2>1, <2>3, <2>11, ProceedKeeps DEF DevicesKept
<1> QED
  BY <1>8, <1>9, <1>10

\* applySituation comes to the camera.
LEMMA SituationCameraKeeps ==
  ASSUME MediaAssumption, DevicesInv, NEW t \in TaskIds, SituationCamera(t)
  PROVE  DevicesKept
<1> PICK todo : todo = tasks[t].todo
  OBVIOUS
<1>1. tasks[t].await = "turn" /\ missed' = missed /\ Head(todo) = "recamera"
  BY DEF SituationCamera
<1>2. Going(tasks[t])
  BY <1>1 DEF Going
<1>3. /\ t \in DOMAIN tasks /\ media \in PageType /\ tasks[t] \in TaskType
      /\ todo # <<>> /\ todo \in Todos(tasks[t].kind) /\ todo \in AllTodos
  BY <1>2, UnderWay
<1>4. todo = <<"recamera">>
  BY <1>1, <1>3, FirstStep
<1>5. tasks[t].kind = "situation"
  <2>1. /\ Head(CameraSteps) = "camera" /\ Head(AtHand) = "firstHand" /\ Head(AtModels) = "models"
        /\ Head(AtControls) = "controls" /\ Head(AtMetadata) = "metadata" /\ Head(<<"voice">>) = "voice"
        /\ Head(<<"lipsync">>) = "lipsync" /\ Head(<<"hands">>) = "hands" /\ Head(AtVoice) = "voice"
    BY StepLists DEF Starts
  <2>2. todo \notin Opened \cup {CameraSteps, AtHand, AtModels, <<"voice">>, <<"hands">>, <<"lipsync">>}
    BY <1>1, <1>3, <2>1 DEF Opened, Late
  <2> QED
    BY <1>3, <2>2 DEF Todos
<1>6. <<>> \in NoDevice /\ <<>> \in Todos("situation") /\ CameraSteps \in Todos("situation")
  BY DEF NoDevice, Todos, Opened, Late
<1>7. HandsMidway(t, media, <<>>, missed) /\ HandsMidway(t, media, CameraSteps, missed)
  BY <1>1, <1>2, SameHands
<1>8. Undisturbed(tasks) /\ media.voice # None => media.accents \/ media.lipsync
  <2>1. <<"recamera">> \notin Turns
    BY StepLists DEF Turns, Starts
  <2> QED
    BY <1>2, <1>4, <2>1, MicAlone
<1>9. CASE media.mode # tasks[t].modeBefore /\ media.running
  <2>1. Proceed(t, media, CameraSteps, live)
    BY <1>9 DEF SituationCamera
  <2>2. DevicesMidway(t, media, CameraSteps, live)
    BY <1>2, <1>3, <1>5, <1>8, <1>9, SameDevices
  <2> QED
    BY <1>1, <1>2, <1>5, <1>6, <1>7, <2>1, <2>2, ProceedKeeps DEF DevicesKept
<1>10. CASE ~(media.mode # tasks[t].modeBefore /\ media.running)
  <2>1. Proceed(t, media, <<>>, live)
    BY <1>10 DEF SituationCamera
  <2>2. DevicesMidway(t, media, <<>>, live)
    BY <1>2, <1>3, <1>5, <1>6, <1>8, SameDevices
  <2> QED
    BY <1>1, <1>2, <1>5, <1>6, <1>7, <2>1, <2>2, ProceedKeeps DEF DevicesKept
<1> QED
  BY <1>9, <1>10

\* A handler that throws before it has a device leaves the devices as they are.
LEMMA ThrowKeeps ==
  ASSUME MediaAssumption, DevicesInv, NEW t \in TaskIds,
         ModelsFail(t) \/ CameraRefused(t) \/ HandFails(t)
  PROVE  DevicesKept
<1>1. /\ tasks[t].await \in {"models", "firstHand", "stream", "hand"} /\ Abort(t, media, live)
      /\ tasks[t].await \in {"firstHand", "hand"} => missed' = TRUE
      /\ missed' = missed \/ missed' = TRUE
  <2>1. CASE ModelsFail(t)
    <3>1. missed' = (missed \/ tasks[t].await = "firstHand") /\ missed \in BOOLEAN
      BY <2>1 DEF ModelsFail, DevicesInv, HandsFit
    <3> QED
      BY <2>1, <3>1 DEF ModelsFail
  <2>2. CASE CameraRefused(t)
    BY <2>2 DEF CameraRefused
  <2>3. CASE HandFails(t)
    BY <2>3 DEF HandFails
  <2> QED
    BY <2>1, <2>2, <2>3
<1> PICK ms : ms = missed'
  OBVIOUS
<1>2. Going(tasks[t])
  BY <1>1 DEF Going
<1>3. /\ t \in DOMAIN tasks /\ media \in PageType /\ missed \in BOOLEAN
      /\ tasks[t].todo # <<>> /\ tasks[t].todo \in AllTodos
      /\ tasks[t].await \in Awaited(Head(tasks[t].todo)) /\ Head(tasks[t].todo) \in Steps
  BY <1>2, UnderWay
<1>4. Head(tasks[t].todo) \in {"models", "firstHand", "camera", "hands"}
  BY <1>1, <1>3 DEF Awaited, Steps
<1>5. tasks[t].todo \notin Opened
  <2>1. /\ Head(AtControls) = "controls" /\ Head(AtMetadata) = "metadata"
        /\ Head(<<"lipsync">>) = "lipsync" /\ Head(AtVoice) = "voice"
    BY StepLists DEF Starts
  <2> QED
    BY <1>3, <1>4, <2>1 DEF Opened, Late
<1>6. DevicesFit(media, tasks, live)
  BY DEF DevicesInv
<1>7. ASSUME NEW s \in Held(media), ~tasks[s[1]].overlapped
      PROVE  media.running \/ (s[1] # t /\ Going(tasks[s[1]]) /\ tasks[s[1]].kind = "start")
  <2>1. media.running \/ (Going(tasks[s[1]]) /\ tasks[s[1]].kind = "start")
    BY <1>6, <1>7 DEF DevicesFit, NoStray
  <2>2. s \in live
    BY <1>6 DEF DevicesFit, StreamsFit
  <2>3. tasks[s[1]].kind = "start" => s[1] # t
    BY <1>5, <1>6, <2>2 DEF DevicesFit, InOrder, Opened
  <2> QED
    BY <2>1, <2>3
<1>8. ms \in BOOLEAN /\ (~ms => ~missed /\ tasks[t].await \notin {"firstHand", "hand"})
  BY <1>1, <1>3
<1>9. Ending(t, media, live, ms)
  BY <1>6, <1>7, <1>8 DEF Ending, DevicesFit, NoStray
<1> QED
  BY <1>1, <1>2, <1>9, AbortKeeps DEF DevicesKept

\* A start whose camera shows nothing gives its stream back.
LEMMA TimesOutKeeps ==
  ASSUME MediaAssumption, DevicesInv, NEW t \in TaskIds, MetadataTimesOut(t)
  PROVE  DevicesKept
<1> PICK own : own = <<t, "camera">>
  OBVIOUS
<1> PICK pg : pg = [media EXCEPT !.src = IF @ = own THEN None ELSE @]
  OBVIOUS
<1> PICK streams : streams = live \ {own}
  OBVIOUS
<1>1. tasks[t].await = "metadata" /\ Abort(t, pg, streams) /\ missed' = missed
  BY DEF MetadataTimesOut
<1>2. Going(tasks[t])
  BY <1>1 DEF Going
<1>3. /\ t \in DOMAIN tasks /\ media \in PageType /\ missed \in BOOLEAN
      /\ tasks[t].todo # <<>> /\ tasks[t].todo \in AllTodos
      /\ tasks[t].await \in Awaited(Head(tasks[t].todo)) /\ Head(tasks[t].todo) \in Steps
  BY <1>2, UnderWay
<1>4. tasks[t].todo = AtMetadata
  <2>1. Head(tasks[t].todo) = "metadata"
    BY <1>1, <1>3 DEF Awaited, Steps
  <2> QED
    BY <1>3, <2>1, FirstStep
<1>5. AtMetadata \notin Late
  BY StepLists DEF Late, Starts
<1>6. /\ DevicesFit(media, tasks, live) /\ Held(media) \subseteq live
      /\ live \subseteq CameraStreams \cup MicStreams /\ \A s \in live : s[1] \in DOMAIN tasks
  BY DEF DevicesInv, DevicesFit, StreamsFit
<1>7. /\ pg \in PageType /\ pg.src = (IF media.src = own THEN None ELSE media.src)
      /\ pg.voice = media.voice /\ pg.running = media.running
      /\ pg.sessions = media.sessions /\ pg.accents = media.accents /\ pg.lipsync = media.lipsync
      /\ pg.face = media.face /\ pg.hands = media.hands /\ pg.handModel = media.handModel
      /\ pg.fileset = media.fileset
  BY <1>3 DEF PageType
<1>8. own \notin MicStreams
  BY DEF MicStreams
<1>9. Held(pg) = Held(media) \ {own}
  BY <1>3, <1>7, <1>8 DEF Held, PageType
<1>10. StreamsFit(pg, tasks, streams)
  BY <1>6, <1>7, <1>9 DEF StreamsFit
<1>11. \A s \in streams : ~tasks[s[1]].overlapped => s \in Held(pg)
  BY <1>6, <1>9 DEF DevicesFit, NoStray
<1>12. ASSUME NEW s \in Held(pg), ~tasks[s[1]].overlapped
       PROVE  pg.running \/ (s[1] # t /\ Going(tasks[s[1]]) /\ tasks[s[1]].kind = "start")
  <2>1. s \in Held(media) /\ s \in live /\ s # own
    BY <1>6, <1>9
  <2>2. media.running \/ (Going(tasks[s[1]]) /\ tasks[s[1]].kind = "start")
    BY <1>6, <1>12, <2>1 DEF DevicesFit, NoStray
  <2>3. s[1] = t /\ tasks[t].kind = "start" => s[2] = "camera"
    BY <1>4, <1>5, <1>6, <2>1 DEF DevicesFit, InOrder
  <2>4. s[1] = t /\ s[2] = "camera" => s = own
    BY <1>6, <2>1 DEF CameraStreams, MicStreams
  <2> QED
    BY <1>7, <2>1, <2>2, <2>3, <2>4
<1>13. Ending(t, pg, streams, missed)
  BY <1>1, <1>3, <1>7, <1>10, <1>11, <1>12 DEF Ending
<1> QED
  BY <1>1, <1>2, <1>13, AbortKeeps DEF DevicesKept

\* Whatever a handler awaited, the answer keeps the invariant.
LEMMA SettlesKeeps ==
  ASSUME MediaAssumption, DevicesInv, NEW t \in TaskIds, Settles(t) \/ MetadataArrives(t)
  PROVE  DevicesKept
<1>1. CASE ModelsLoaded(t)
  BY <1>1, ModelsKeep
<1>2. CASE ModelsFail(t) \/ CameraRefused(t) \/ HandFails(t)
  BY <1>2, ThrowKeeps
<1>3. CASE FirstHandLoaded(t) \/ HandLoaded(t)
  BY <1>3, HandKeeps
<1>4. CASE CameraGranted(t)
  BY <1>4, CameraGrantedKeeps
<1>5. CASE MetadataTimesOut(t)
  BY <1>5, TimesOutKeeps
<1>6. CASE ControlsSet(t) \/ MetadataArrives(t)
  BY <1>6, MetadataKeeps
<1>7. CASE MicGranted(t)
  BY <1>7, MicGrantedKeeps
<1>8. CASE MicRefused(t) \/ WorkletFails(t)
  BY <1>8, AudioFailsKeeps DEF MicRefused, WorkletFails
<1>9. CASE WorkletLoaded(t)
  BY <1>9, WorkletKeeps
<1>10. CASE SituationAudio(t)
  BY <1>10, SituationAudioKeeps
<1>11. CASE SituationCamera(t)
  BY <1>11, SituationCameraKeeps
<1> QED
  BY <1>1, <1>2, <1>3, <1>4, <1>5, <1>6, <1>7, <1>8, <1>9, <1>10, <1>11 DEF Settles

\* btnStart.
LEMMA ClickStartKeeps ==
  ASSUME MediaAssumption, DevicesInv, ClickStart
  PROVE  DevicesKept
<1> PICK pg : pg = [media EXCEPT !.startEnabled = FALSE]
  OBVIOUS
<1> PICK todo : todo = (IF media.face THEN <<>> ELSE <<"models", "firstHand">>) \o CameraSteps
  OBVIOUS
<1>1. BeginTask("start", pg, todo) /\ missed' = missed
  BY DEF ClickStart
<1>2. /\ pg \in PageType /\ pg.src = media.src /\ pg.voice = media.voice /\ pg.running = media.running
      /\ pg.sessions = media.sessions /\ pg.accents = media.accents /\ pg.lipsync = media.lipsync
      /\ pg.face = media.face /\ pg.hands = media.hands /\ pg.handModel = media.handModel
      /\ pg.fileset = media.fileset
  <2>1. media \in PageType
    BY DEF DevicesInv, DevicesFit, StreamsFit
  <2> QED
    BY <2>1 DEF PageType
<1>3. todo = IF media.face THEN CameraSteps ELSE AtModels
  <2>1. <<>> \o CameraSteps = CameraSteps
    BY EmptySeq, ConcatEmptySeq, StepLists DEF Starts
  <2>2. <<"models", "firstHand">> \o CameraSteps = AtModels
    <3> DEFINE a == <<"models", "firstHand">>
    <3>1. a \in Seq(Steps) /\ CameraSteps \in Seq(Steps) /\ AtModels \in Seq(Steps)
      BY StepLists DEF Starts, Steps
    <3>2. Len(AtModels) = Len(a) + Len(CameraSteps)
      BY DEF AtModels, CameraSteps
    <3>3. \A i \in 1 .. Len(AtModels) : AtModels[i] = IF i <= Len(a) THEN a[i] ELSE CameraSteps[i - Len(a)]
      BY DEF AtModels, CameraSteps
    <3> HIDE DEF a
    <3>4. a \o CameraSteps = AtModels
      BY <3>1, <3>2, <3>3, PutTogether
    <3> QED
      BY <3>4 DEF a
  <2> QED
    BY <2>1, <2>2
<1>4. todo \in Todos("start") /\ (todo = AtModels \/ (todo = CameraSteps /\ pg.face))
  BY <1>2, <1>3 DEF Todos
<1>5. missed \in BOOLEAN
  BY DEF DevicesInv, HandsFit
<1>6. Begins("start", pg, todo, missed)
  BY <1>2, <1>4, <1>5 DEF Begins
<1> QED
  BY <1>1, <1>6, BeginKeeps DEF DevicesKept

\* stopAudioInput on any page.
LEMMA StopAudioDoes ==
  ASSUME NEW pg \in PageType
  PROVE  LET q == StopAudioInput(pg) IN
         /\ q \in PageType /\ q.src = pg.src /\ q.voice = None /\ q.running = pg.running
         /\ q.sessions = pg.sessions /\ q.accents = pg.accents /\ q.lipsync = pg.lipsync
         /\ q.face = pg.face /\ q.hands = pg.hands /\ q.handModel = pg.handModel
         /\ q.fileset = pg.fileset
<1> PICK q : q = StopAudioInput(pg)
  OBVIOUS
<1>1. q = [[pg EXCEPT !.voice = None] EXCEPT !.worklet = FALSE]
  BY DEF StopAudioInput
<1>2. PICK p \in PageType : p = [pg EXCEPT !.voice = None]
  BY DEF PageType
<1>3. q = [p EXCEPT !.worklet = FALSE]
  BY <1>1, <1>2
<1>4. /\ q \in PageType /\ q.src = p.src /\ q.voice = p.voice /\ q.running = p.running
      /\ q.sessions = p.sessions /\ q.accents = p.accents /\ q.lipsync = p.lipsync
      /\ q.face = p.face /\ q.hands = p.hands /\ q.handModel = p.handModel
      /\ q.fileset = p.fileset
  BY <1>3 DEF PageType
<1>5. /\ p.src = pg.src /\ p.voice = None /\ p.running = pg.running
      /\ p.sessions = pg.sessions /\ p.accents = pg.accents /\ p.lipsync = pg.lipsync
      /\ p.face = pg.face /\ p.hands = pg.hands /\ p.handModel = pg.handModel
      /\ p.fileset = pg.fileset
  BY <1>2 DEF PageType
<1> QED
  BY <1>4, <1>5

\* btnStop.
LEMMA ClickStopKeeps ==
  ASSUME MediaAssumption, DevicesInv, ClickStop
  PROVE  DevicesKept
<1> PICK q : q = StopAudioInput(media)
  OBVIOUS
<1> PICK pg : pg = [q EXCEPT !.running = FALSE, !.sessions = {}, !.src = None,
                             !.startEnabled = TRUE, !.stopEnabled = FALSE]
  OBVIOUS
<1>1. ClickOnly(pg) /\ missed' = missed
  BY DEF ClickStop
<1>2. /\ q \in PageType /\ q.voice = None
      /\ q.face = media.face /\ q.hands = media.hands /\ q.handModel = media.handModel
      /\ q.fileset = media.fileset
  <2>1. media \in PageType
    BY DEF DevicesInv, DevicesFit, StreamsFit
  <2> QED
    BY <2>1, StopAudioDoes
<1>3. /\ pg \in PageType /\ pg.src = None /\ pg.voice = None /\ pg.running = FALSE
      /\ pg.sessions = {}
      /\ pg.face = media.face /\ pg.hands = media.hands /\ pg.handModel = media.handModel
      /\ pg.fileset = media.fileset
  <2>1. pg = [[[[[q EXCEPT !.running = FALSE] EXCEPT !.sessions = {}] EXCEPT !.src = None]
               EXCEPT !.startEnabled = TRUE] EXCEPT !.stopEnabled = FALSE]
    OBVIOUS
  <2>2. PICK a \in PageType : a = [q EXCEPT !.running = FALSE]
    BY <1>2, ZenonT(40) DEF PageType
  <2>3. PICK b \in PageType : b = [a EXCEPT !.sessions = {}]
    BY DEF PageType
  <2>4. PICK c \in PageType : c = [b EXCEPT !.src = None]
    BY DEF PageType
  <2>5. PICK d \in PageType : d = [c EXCEPT !.startEnabled = TRUE]
    BY DEF PageType
  <2>6. pg = [d EXCEPT !.stopEnabled = FALSE]
    BY <2>1, <2>2, <2>3, <2>4, <2>5
  <2>7. /\ pg \in PageType /\ pg.src = d.src /\ pg.voice = d.voice /\ pg.running = d.running
        /\ pg.sessions = d.sessions /\ pg.face = d.face /\ pg.hands = d.hands
        /\ pg.handModel = d.handModel /\ pg.fileset = d.fileset
    BY <2>6 DEF PageType
  <2>8. /\ d.src = c.src /\ d.voice = c.voice /\ d.running = c.running
        /\ d.sessions = c.sessions /\ d.face = c.face /\ d.hands = c.hands
        /\ d.handModel = c.handModel /\ d.fileset = c.fileset
    BY <2>5 DEF PageType
  <2>9. /\ c.src = None /\ c.voice = b.voice /\ c.running = b.running
        /\ c.sessions = b.sessions /\ c.face = b.face /\ c.hands = b.hands
        /\ c.handModel = b.handModel /\ c.fileset = b.fileset
    BY <2>4 DEF PageType
  <2>10. /\ b.voice = a.voice /\ b.running = a.running
         /\ b.sessions = {} /\ b.face = a.face /\ b.hands = a.hands
         /\ b.handModel = a.handModel /\ b.fileset = a.fileset
    BY <2>3 DEF PageType
  <2>11. /\ a.voice = q.voice /\ a.running = FALSE
         /\ a.face = q.face /\ a.hands = q.hands
         /\ a.handModel = q.handModel /\ a.fileset = q.fileset
    BY <1>2, <2>2 DEF PageType
  <2> QED
    BY <1>2, <2>7, <2>8, <2>9, <2>10, <2>11
<1> QED
  BY <1>1, <1>3, ClickOnlyKeeps DEF DevicesKept

\* Reset of the settings.
LEMMA ResetKeeps ==
  ASSUME MediaAssumption, DevicesInv, ResetSettings
  PROVE  DevicesKept
<1> PICK q : q = StopAudioInput(media)
  OBVIOUS
<1> PICK pg : pg = [q EXCEPT !.accents = FALSE, !.lipsync = FALSE, !.hands = FALSE,
                             !.mode = DefaultMode, !.sessions = {}]
  OBVIOUS
<1>1. ClickOnly(pg) /\ missed' = missed
  BY DEF ResetSettings
<1>2. /\ q \in PageType /\ q.voice = None /\ q.src = media.src /\ q.running = media.running
      /\ q.face = media.face /\ q.handModel = media.handModel
      /\ q.fileset = media.fileset
  <2>1. media \in PageType
    BY DEF DevicesInv, DevicesFit, StreamsFit
  <2> QED
    BY <2>1, StopAudioDoes
<1>3. /\ pg \in PageType /\ pg.src = media.src /\ pg.voice = None /\ pg.running = media.running
      /\ pg.sessions = {} /\ pg.hands = FALSE
      /\ pg.face = media.face /\ pg.handModel = media.handModel
      /\ pg.fileset = media.fileset
  <2>0. DefaultMode \in CameraModes
    BY DEF DefaultMode, MediaAssumption
  <2>1. pg = [[[[[q EXCEPT !.accents = FALSE] EXCEPT !.lipsync = FALSE] EXCEPT !.hands = FALSE]
               EXCEPT !.mode = DefaultMode] EXCEPT !.sessions = {}]
    OBVIOUS
  <2>2. PICK a \in PageType : a = [q EXCEPT !.accents = FALSE]
    BY <1>2, ZenonT(40) DEF PageType
  <2>3. PICK b \in PageType : b = [a EXCEPT !.lipsync = FALSE]
    BY DEF PageType
  <2>4. PICK c \in PageType : c = [b EXCEPT !.hands = FALSE]
    BY DEF PageType
  <2>5. PICK d \in PageType : d = [c EXCEPT !.mode = DefaultMode]
    BY <2>0 DEF PageType
  <2>6. pg = [d EXCEPT !.sessions = {}]
    BY <2>1, <2>2, <2>3, <2>4, <2>5
  <2>7. /\ pg \in PageType /\ pg.src = d.src /\ pg.voice = d.voice /\ pg.running = d.running
        /\ pg.sessions = {} /\ pg.face = d.face /\ pg.hands = d.hands
        /\ pg.handModel = d.handModel /\ pg.fileset = d.fileset
    BY <2>6 DEF PageType
  <2>8. /\ d.src = c.src /\ d.voice = c.voice /\ d.running = c.running
        /\ d.face = c.face /\ d.hands = c.hands
        /\ d.handModel = c.handModel /\ d.fileset = c.fileset
    BY <2>5 DEF PageType
  <2>9. /\ c.src = b.src /\ c.voice = b.voice /\ c.running = b.running
        /\ c.face = b.face /\ c.hands = FALSE
        /\ c.handModel = b.handModel /\ c.fileset = b.fileset
    BY <2>4 DEF PageType
  <2>10. /\ b.src = a.src /\ b.voice = a.voice /\ b.running = a.running
         /\ b.face = a.face
         /\ b.handModel = a.handModel /\ b.fileset = a.fileset
    BY <2>3 DEF PageType
  <2>11. /\ a.src = q.src /\ a.voice = q.voice /\ a.running = q.running
         /\ a.face = q.face
         /\ a.handModel = q.handModel /\ a.fileset = q.fileset
    BY <1>2, <2>2 DEF PageType
  <2> QED
    BY <1>2, <2>7, <2>8, <2>9, <2>10, <2>11
<1> QED
  BY <1>1, <1>3, ClickOnlyKeeps DEF DevicesKept

\* The selectors of the camera.
LEMMA ChangeCameraKeeps ==
  ASSUME MediaAssumption, DevicesInv, NEW mode \in CameraModes, ChangeCamera(mode)
  PROVE  DevicesKept
<1> PICK pg : pg = [media EXCEPT !.mode = mode]
  OBVIOUS
<1>1. /\ pg \in PageType /\ pg.src = media.src /\ pg.voice = media.voice /\ pg.running = media.running
      /\ pg.sessions = media.sessions /\ pg.accents = media.accents /\ pg.lipsync = media.lipsync
      /\ pg.face = media.face /\ pg.hands = media.hands /\ pg.handModel = media.handModel
      /\ pg.fileset = media.fileset
  <2>1. media \in PageType
    BY DEF DevicesInv, DevicesFit, StreamsFit
  <2> QED
    BY <2>1 DEF PageType
<1>2. missed' = missed /\ missed \in BOOLEAN
  BY DEF ChangeCamera, DevicesInv, HandsFit
<1>3. CASE media.running
  <2>1. BeginTask("restart", pg, CameraSteps)
    BY <1>3 DEF ChangeCamera
  <2>2. CameraSteps \in Todos("restart")
    BY DEF Todos
  <2>3. Begins("restart", pg, CameraSteps, missed)
    BY <1>1, <1>2, <1>3, <2>2 DEF Begins
  <2> QED
    BY <1>2, <2>1, <2>3, BeginKeeps DEF DevicesKept
<1>4. CASE ~media.running
  <2>1. ClickOnly(pg)
    BY <1>4 DEF ChangeCamera
  <2>2. pg.sessions # {} => pg.running
    BY <1>1 DEF DevicesInv, DevicesFit
  <2> QED
    BY <1>1, <1>2, <2>1, <2>2, ClickOnlyKeeps DEF DevicesKept
<1> QED
  BY <1>3, <1>4

\* chkVoice.
LEMMA TickVoiceKeeps ==
  ASSUME MediaAssumption, DevicesInv, TickVoice
  PROVE  DevicesKept
<1>p. PICK pg : pg = [media EXCEPT !.accents = ~@]
  OBVIOUS
<1>0. media \in PageType
  BY DEF DevicesInv, DevicesFit, StreamsFit
<1>1. /\ pg \in PageType /\ pg.src = media.src /\ pg.voice = media.voice /\ pg.running = media.running
      /\ pg.sessions = media.sessions /\ pg.lipsync = media.lipsync
      /\ pg.face = media.face /\ pg.hands = media.hands /\ pg.handModel = media.handModel
      /\ pg.fileset = media.fileset
  <2>1. PICK b \in BOOLEAN : b = ~media.accents
    OBVIOUS
  <2>2. pg = [media EXCEPT !.accents = b]
    BY <1>p, <2>1
  <2> QED
    BY <1>0, <2>2 DEF PageType
<1>2. missed' = missed /\ missed \in BOOLEAN
  BY DEF TickVoice, DevicesInv, HandsFit
<1>3. media.sessions # {} => media.running
  BY DEF DevicesInv, DevicesFit
<1>4. CASE pg.accents /\ pg.running
  <2>1. BeginTask("voice", pg, <<"voice">>)
    BY <1>p, <1>4 DEF TickVoice
  <2>2. <<"voice">> \in Todos("voice")
    BY DEF Todos
  <2>3. Begins("voice", pg, <<"voice">>, missed)
    BY <1>1, <1>2, <1>4, <2>2 DEF Begins
  <2> QED
    BY <1>2, <2>1, <2>3, BeginKeeps DEF DevicesKept
<1>5. CASE ~(pg.accents /\ pg.running)
  <2> PICK q : q = StopVoiceAccents(pg)
    OBVIOUS
  <2>1. ClickOnly(q)
    BY <1>p, <1>5 DEF TickVoice
  <2>2. /\ q \in PageType /\ q.src = media.src /\ q.running = media.running
        /\ q.sessions = media.sessions
        /\ q.face = media.face /\ q.hands = media.hands /\ q.handModel = media.handModel
        /\ q.fileset = media.fileset
        /\ q.voice \in {None, media.voice} /\ (q.voice # None => q.lipsync)
    <3>1. CASE pg.lipsync
      BY <1>1, <3>1 DEF StopVoiceAccents
    <3>2. CASE ~pg.lipsync
      <4>1. q = StopAudioInput(pg)
        BY <3>2 DEF StopVoiceAccents
      <4>2. /\ q \in PageType /\ q.src = pg.src /\ q.running = pg.running /\ q.voice = None
            /\ q.sessions = pg.sessions
            /\ q.face = pg.face /\ q.hands = pg.hands /\ q.handModel = pg.handModel
            /\ q.fileset = pg.fileset
        <5>1. pg \in PageType
          BY <1>1
        <5>2. StopAudioInput(pg) \in PageType
          BY <5>1, StopAudioDoes
        <5> QED
          BY <5>1, <5>2, <4>1, StopAudioDoes
      <4> QED
        BY <1>1, <4>2
    <3> QED
      BY <3>1, <3>2
  <2> QED
    BY <1>2, <1>3, <2>1, <2>2, ClickOnlyKeeps DEF DevicesKept
<1> QED
  BY <1>4, <1>5

\* chkLipsync.
LEMMA TickLipsyncKeeps ==
  ASSUME MediaAssumption, DevicesInv, TickLipsync
  PROVE  DevicesKept
<1>p. PICK pg : pg = [media EXCEPT !.lipsync = ~@]
  OBVIOUS
<1>0. media \in PageType
  BY DEF DevicesInv, DevicesFit, StreamsFit
<1>1. /\ pg \in PageType /\ pg.src = media.src /\ pg.voice = media.voice /\ pg.running = media.running
      /\ pg.sessions = media.sessions /\ pg.accents = media.accents
      /\ pg.face = media.face /\ pg.hands = media.hands /\ pg.handModel = media.handModel
      /\ pg.fileset = media.fileset
  <2>1. PICK b \in BOOLEAN : b = ~media.lipsync
    OBVIOUS
  <2>2. pg = [media EXCEPT !.lipsync = b]
    BY <1>p, <2>1
  <2> QED
    BY <1>0, <2>2 DEF PageType
<1>2. missed' = missed /\ missed \in BOOLEAN
  BY DEF TickLipsync, DevicesInv, HandsFit
<1>3. media.sessions # {} => media.running
  BY DEF DevicesInv, DevicesFit
<1>4. CASE pg.lipsync /\ pg.running
  <2>1. BeginTask("lipsync", pg, <<"lipsync">>)
    BY <1>p, <1>4 DEF TickLipsync
  <2>2. <<"lipsync">> \in Todos("lipsync")
    BY DEF Todos
  <2>3. Begins("lipsync", pg, <<"lipsync">>, missed)
    BY <1>1, <1>2, <1>4, <2>2 DEF Begins
  <2> QED
    BY <1>2, <2>1, <2>3, BeginKeeps DEF DevicesKept
<1>5. CASE ~(pg.lipsync /\ pg.running)
  <2> PICK q : q = StopAudioLipsync(pg)
    OBVIOUS
  <2>1. ClickOnly(q)
    BY <1>p, <1>5 DEF TickLipsync
  <2>2. /\ q \in PageType /\ q.src = media.src /\ q.running = media.running
        /\ q.sessions = media.sessions
        /\ q.face = media.face /\ q.hands = media.hands /\ q.handModel = media.handModel
        /\ q.fileset = media.fileset
        /\ q.voice \in {None, media.voice} /\ (q.voice # None => q.accents)
    <3>1. CASE pg.accents
      <4>1. q = [pg EXCEPT !.worklet = FALSE]
        BY <3>1 DEF StopAudioLipsync
      <4>2. /\ q \in PageType /\ q.src = pg.src /\ q.running = pg.running /\ q.voice = pg.voice
            /\ q.sessions = pg.sessions /\ q.accents = pg.accents
            /\ q.face = pg.face /\ q.hands = pg.hands /\ q.handModel = pg.handModel
            /\ q.fileset = pg.fileset
        BY <1>1, <4>1 DEF PageType
      <4> QED
        BY <1>1, <3>1, <4>2
    <3>2. CASE ~pg.accents
      <4>1. q = StopAudioInput(pg)
        BY <3>2 DEF StopAudioLipsync
      <4>2. /\ q \in PageType /\ q.src = pg.src /\ q.running = pg.running /\ q.voice = None
            /\ q.sessions = pg.sessions
            /\ q.face = pg.face /\ q.hands = pg.hands /\ q.handModel = pg.handModel
            /\ q.fileset = pg.fileset
        <5>1. pg \in PageType
          BY <1>1
        <5>2. StopAudioInput(pg) \in PageType
          BY <5>1, StopAudioDoes
        <5> QED
          BY <5>1, <5>2, <4>1, StopAudioDoes
      <4> QED
        BY <1>1, <4>2
    <3> QED
      BY <3>1, <3>2
  <2> QED
    BY <1>2, <1>3, <2>1, <2>2, ClickOnlyKeeps DEF DevicesKept
<1> QED
  BY <1>4, <1>5

\* Switching hands on while the page tracks asks for the model, unless it is on its way.
LEMMA HandsAsked ==
  ASSUME MediaAssumption, DevicesInv, NEW pg, NEW todo,
         todo = <<"hands">> \/ todo = AtHands,
         pg.running = media.running, pg.face = media.face, pg.handModel = media.handModel,
         pg.fileset = media.fileset, pg.hands, ~pg.handModel, pg.face, ~missed, pg.running,
         ~\E u \in DOMAIN tasks : tasks[u].await = "firstHand"
  PROVE  At(pg, Rest(pg, todo)) = "hand"
<1>1. pg.fileset
  <2>1. HandsFit(media, tasks, missed)
    BY DEF DevicesInv
  <2>2. ~missed /\ media.face /\ ~media.fileset =>
          media.handModel \/ \E u \in DOMAIN tasks : tasks[u].await = "firstHand"
    BY <2>1 DEF HandsFit
  <2> QED
    BY <2>2
<1>2. Await(pg, "hands") = "hand"
  BY <1>1 DEF Await, AwaitHand
<1>3. Rest(pg, todo) = todo /\ todo # <<>> /\ Head(todo) = "hands"
  <2>1. CASE todo = <<"hands">>
    BY <1>2, <2>1, RestCases, StepLists DEF Starts
  <2>2. CASE todo = AtHands
    BY <1>2, <2>2, RestCases, StepLists DEF Starts
  <2> QED
    BY <2>1, <2>2
<1> QED
  BY <1>2, <1>3 DEF At

\* chkHands.
LEMMA TickHandsKeeps ==
  ASSUME MediaAssumption, DevicesInv, TickHands
  PROVE  DevicesKept
<1>p. PICK pg : pg = [media EXCEPT !.hands = ~@]
  OBVIOUS
<1>1. /\ pg \in PageType /\ pg.src = media.src /\ pg.voice = media.voice /\ pg.running = media.running
      /\ pg.sessions = media.sessions /\ pg.accents = media.accents /\ pg.lipsync = media.lipsync
      /\ pg.face = media.face /\ pg.handModel = media.handModel
      /\ pg.fileset = media.fileset
  <2>0. media \in PageType
    BY DEF DevicesInv, DevicesFit, StreamsFit
  <2>1. PICK b \in BOOLEAN : b = ~media.hands
    OBVIOUS
  <2>2. pg = [media EXCEPT !.hands = b]
    BY <1>p, <2>1
  <2> QED
    BY <2>0, <2>2 DEF PageType
<1>2. /\ BeginTask("hands", pg, <<"hands">>)
      /\ missed' = (missed \/ (pg.hands /\ ~pg.running /\ ~pg.handModel /\ media.face))
  BY <1>p DEF TickHands
<1>3. missed' \in BOOLEAN /\ (~missed' => ~missed)
      /\ (~missed' => ~(pg.hands /\ ~pg.running /\ ~pg.handModel /\ media.face))
  BY <1>2, Zenon
<1>4. /\ <<"hands">> \in Todos("hands") /\ <<"hands">> \in NoDevice
  BY DEF Todos, NoDevice
<1>5. ~missed' /\ pg.face /\ pg.hands /\ ~pg.handModel =>
        \/ At(pg, Rest(pg, <<"hands">>)) = "hand"
        \/ \E u \in DOMAIN tasks : tasks[u].await = "firstHand"
  BY <1>1, <1>3, HandsAsked
<1>6. Begins("hands", pg, <<"hands">>, missed')
  BY <1>1, <1>3, <1>4, <1>5 DEF Begins
<1> QED
  BY <1>2, <1>6, BeginKeeps DEF DevicesKept

\* selSituation.
LEMMA ApplySituationKeeps ==
  ASSUME MediaAssumption, DevicesInv, NEW picked \in Situations, ApplySituation(picked)
  PROVE  DevicesKept
<1> PICK pg : pg = [media EXCEPT !.lipsync = picked.lipsync, !.hands = picked.hands,
                                 !.mode = picked.mode]
  OBVIOUS
<1>1. /\ pg \in PageType /\ pg.src = media.src /\ pg.voice = media.voice /\ pg.running = media.running
      /\ pg.sessions = media.sessions /\ pg.accents = media.accents
      /\ pg.face = media.face /\ pg.handModel = media.handModel
      /\ pg.fileset = media.fileset
  <2>0. media \in PageType
    BY DEF DevicesInv, DevicesFit, StreamsFit
  <2>1. picked.lipsync \in BOOLEAN /\ picked.hands \in BOOLEAN /\ picked.mode \in CameraModes
    BY DEF MediaAssumption
  <2>2. pg = [[[media EXCEPT !.lipsync = picked.lipsync] EXCEPT !.hands = picked.hands]
              EXCEPT !.mode = picked.mode]
    OBVIOUS
  <2>3. PICK a \in PageType : a = [media EXCEPT !.lipsync = picked.lipsync]
    BY <2>0, <2>1 DEF PageType
  <2>4. PICK b \in PageType : b = [a EXCEPT !.hands = picked.hands]
    BY <2>1 DEF PageType
  <2>5. pg = [b EXCEPT !.mode = picked.mode]
    BY <2>2, <2>3, <2>4
  <2>6. /\ pg \in PageType /\ pg.src = b.src /\ pg.voice = b.voice /\ pg.running = b.running
        /\ pg.sessions = b.sessions /\ pg.accents = b.accents
        /\ pg.face = b.face /\ pg.handModel = b.handModel /\ pg.fileset = b.fileset
    BY <2>1, <2>5 DEF PageType
  <2>7. /\ b.src = a.src /\ b.voice = a.voice /\ b.running = a.running
        /\ b.sessions = a.sessions /\ b.accents = a.accents
        /\ b.face = a.face /\ b.handModel = a.handModel /\ b.fileset = a.fileset
    BY <2>4 DEF PageType
  <2>8. /\ a.src = media.src /\ a.voice = media.voice /\ a.running = media.running
        /\ a.sessions = media.sessions /\ a.accents = media.accents
        /\ a.face = media.face /\ a.handModel = media.handModel /\ a.fileset = media.fileset
    BY <2>0, <2>3 DEF PageType
  <2> QED
    BY <2>6, <2>7, <2>8
<1>2. /\ BeginTask("situation", pg, <<"hands", "audio", "recamera">>)
      /\ missed' = (missed \/ (pg.hands /\ ~pg.running /\ ~pg.handModel /\ pg.face))
  BY DEF ApplySituation
<1>3. missed' \in BOOLEAN /\ (~missed' => ~missed)
      /\ (~missed' => ~(pg.hands /\ ~pg.running /\ ~pg.handModel /\ pg.face))
  BY <1>2, Zenon
<1>4. /\ BeginTask("situation", pg, AtHands)
      /\ AtHands \in Todos("situation") /\ AtHands \in NoDevice /\ AtHands \in Turns
      /\ AtHands # CameraSteps
  BY <1>2, StepLists DEF AtHands, Todos, NoDevice, Turns, Starts
<1>5. ~missed' /\ pg.face /\ pg.hands /\ ~pg.handModel =>
        \/ At(pg, Rest(pg, AtHands)) = "hand"
        \/ \E u \in DOMAIN tasks : tasks[u].await = "firstHand"
  BY <1>1, <1>3, HandsAsked
<1>6. Begins("situation", pg, AtHands, missed')
  BY <1>1, <1>3, <1>4, <1>5 DEF Begins
<1> QED
  BY <1>4, <1>6, BeginKeeps DEF DevicesKept

\* Only the set of sessions changes, while the page tracks.
LEMMA SessionsKeep ==
  ASSUME MediaAssumption, DevicesInv, NEW run \in SUBSET Calibrations, media.running,
         media' = [media EXCEPT !.sessions = run], tasks' = tasks, live' = live, missed' = missed
  PROVE  DevicesKept
<1> PICK q : q = media'
  OBVIOUS
<1>1. /\ TasksFit(tasks) /\ media \in PageType
      /\ StreamsFit(media, tasks, live) /\ NoStray(media, tasks, live) /\ OneAsked(media, tasks)
      /\ InOrder(tasks, live) /\ WhileTracking(media, tasks) /\ MicWanted(media, tasks)
      /\ HandsFit(media, tasks, missed)
  BY DEF DevicesInv, DevicesFit, StreamsFit
<1>2. /\ q \in PageType /\ q.src = media.src /\ q.voice = media.voice /\ q.running = media.running
      /\ q.accents = media.accents /\ q.lipsync = media.lipsync /\ q.hands = media.hands
      /\ q.face = media.face /\ q.handModel = media.handModel /\ q.fileset = media.fileset
  BY <1>1 DEF PageType
<1>3. Held(q) = Held(media)
  BY <1>2 DEF Held
<1>4. /\ StreamsFit(q, tasks, live) /\ NoStray(q, tasks, live) /\ OneAsked(q, tasks)
      /\ WhileTracking(q, tasks) /\ MicWanted(q, tasks)
  <2>1. StreamsFit(q, tasks, live)
    BY <1>1, <1>2, <1>3 DEF StreamsFit
  <2>2. NoStray(q, tasks, live)
    BY <1>1, <1>2, <1>3 DEF NoStray
  <2>3. OneAsked(q, tasks)
    BY <1>1, <1>2 DEF OneAsked
  <2>4. WhileTracking(q, tasks)
    BY <1>1, <1>2 DEF WhileTracking
  <2>5. MicWanted(q, tasks)
    BY <1>1, <1>2 DEF MicWanted
  <2> QED
    BY <2>1, <2>2, <2>3, <2>4, <2>5
<1>5. HandsFit(q, tasks, missed)
  BY <1>1, <1>2 DEF HandsFit
<1>6. DevicesFit(q, tasks, live)
  BY <1>1, <1>2, <1>4 DEF DevicesFit
<1> QED
  BY <1>1, <1>5, <1>6 DEF DevicesKept

\* The calibration buttons.
LEMMA CalibrationKeeps ==
  ASSUME MediaAssumption, DevicesInv, NEW c \in Calibrations,
         StartCalibration(c) \/ FinishCalibration(c)
  PROVE  DevicesKept
<1>1. media.sessions \subseteq Calibrations
  BY DEF DevicesInv, DevicesFit, StreamsFit, PageType
<1>2. CASE StartCalibration(c)
  <2>1. media.sessions \cup {c} \in SUBSET Calibrations
    BY <1>1
  <2> QED
    BY <1>2, <2>1, SessionsKeep DEF StartCalibration
<1>3. CASE FinishCalibration(c)
  <2>1. media.sessions \ {c} \in SUBSET Calibrations
    BY <1>1
  <2> QED
    BY <1>3, <2>1, SessionsKeep DEF FinishCalibration
<1> QED
  BY <1>2, <1>3

\* The page as it is loaded has no device.
LEMMA DevicesInitially ==
  ASSUME MediaAssumption, MediaInit
  PROVE  DevicesInv
<1>1. tasks \in Seq(TaskType) /\ Len(tasks) = 0 /\ DOMAIN tasks = {}
  BY DEF MediaInit
<1>2. media \in PageType
  BY DEF MediaInit, PageType, DefaultMode, MediaAssumption
<1>3. /\ media.src = None /\ media.voice = None /\ ~media.running /\ media.sessions = {}
      /\ ~media.face /\ live = {} /\ missed = FALSE
  BY DEF MediaInit
<1>4. Held(media) = {}
  BY <1>3 DEF Held
<1>5. TasksFit(tasks)
  BY <1>1 DEF TasksFit, MediaAssumption
<1>6. DevicesFit(media, tasks, live)
  BY <1>1, <1>2, <1>3, <1>4
     DEF DevicesFit, StreamsFit, NoStray, OneAsked, InOrder, WhileTracking, MicWanted
<1>7. HandsFit(media, tasks, missed)
  BY <1>1, <1>3 DEF HandsFit
<1> QED
  BY <1>5, <1>6, <1>7 DEF DevicesInv

\* Every step of the page keeps the invariant.
LEMMA DevicesStep ==
  ASSUME MediaAssumption, DevicesInv, [MediaNext]_mediaVars
  PROVE  DevicesInv'
<1>1. CASE MediaNext
  <2>1. DevicesKept
    <3>1. CASE \E t \in TaskIds : Settles(t) \/ MetadataArrives(t)
      BY <3>1, SettlesKeeps, MetadataKeeps
    <3>2. CASE \E mode \in CameraModes : ChangeCamera(mode)
      BY <3>2, ChangeCameraKeeps
    <3>3. CASE \E picked \in Situations : ApplySituation(picked)
      BY <3>3, ApplySituationKeeps
    <3>4. CASE \E c \in Calibrations : StartCalibration(c) \/ FinishCalibration(c)
      BY <3>4, CalibrationKeeps
    <3>5. CASE ClickStart \/ ClickStop \/ TickVoice \/ TickLipsync \/ TickHands \/ ResetSettings
      BY <3>5, ClickStartKeeps, ClickStopKeeps, TickVoiceKeeps, TickLipsyncKeeps, TickHandsKeeps,
         ResetKeeps
    <3> QED
      BY <1>1, <3>1, <3>2, <3>3, <3>4, <3>5 DEF MediaNext
  <2> QED
    BY <2>1 DEF DevicesKept, DevicesInv
<1>2. CASE UNCHANGED mediaVars
  BY <1>2 DEF mediaVars, DevicesInv
<1> QED
  BY <1>1, <1>2

\* What the invariant says of devices is what the run checks.
LEMMA DevicesAreThose ==
  ASSUME DevicesInv
  PROVE  DevicesFollowPage
<1>1. TracksAreHeld
  <2>1. \A s \in live : s[1] \in DOMAIN tasks /\ (~tasks[s[1]].overlapped => s \in Held(media))
    BY DEF DevicesInv, DevicesFit, StreamsFit, NoStray
  <2>2. \A s \in Held(media) : s \in live /\ s[1] \in DOMAIN tasks
    BY <2>1 DEF DevicesInv, DevicesFit, StreamsFit
  <2>3. \A s \in Held(media) : ~tasks[s[1]].overlapped => media.running \/ Going(tasks[s[1]])
    BY DEF DevicesInv, DevicesFit, NoStray
  <2>4. ASSUME Unfinished = {}, {t \in TaskIds : ~tasks[t].overlapped} = TaskIds, media.voice # None,
               \A t \in TaskIds : ~(tasks[t].kind = "situation" /\ tasks[t].failed)
        PROVE  media.accents \/ media.lipsync
    <3>1. \A t \in DOMAIN tasks : ~tasks[t].overlapped /\ tasks[t].await = "no"
      BY <2>4 DEF Unfinished, TaskIds
    <3>2. \A t \in DOMAIN tasks : tasks[t].todo = <<>>
      BY <3>1 DEF DevicesInv, TasksFit, TaskFits
    <3>3. <<>> \notin Turns
      BY StepLists DEF Turns, Starts
    <3>4. Undisturbed(tasks)
      BY <2>4, <3>1 DEF Undisturbed, TaskIds
    <3>5. \/ media.accents \/ media.lipsync
          \/ \E u \in DOMAIN tasks :
               tasks[u].kind = "situation" /\ tasks[u].todo \in Turns /\ tasks[u].lipsyncBefore
      BY <2>4, <3>4 DEF DevicesInv, DevicesFit, MicWanted, Undisturbed
    <3> QED
      BY <3>2, <3>3, <3>5
  <2>5. media.sessions # {} => media.running
    BY DEF DevicesInv, DevicesFit
  <2>6. \A s \in {media.src, media.voice} \ {None} :
          s \in live /\ (~tasks[s[1]].overlapped => media.running \/ s[1] \in Unfinished)
    BY <2>2, <2>3 DEF Held, Going, Unfinished, TaskIds
  <2>7. \A s \in live : s[1] \in {t \in TaskIds : ~tasks[t].overlapped} => s \in {media.src, media.voice} \ {None}
    BY <2>1 DEF Held
  <2> QED
    BY <2>4, <2>5, <2>6, <2>7 DEF TracksAreHeld
<1>2. HandsHaveModel
  <2>1. HandsFit(media, tasks, missed)
    BY DEF DevicesInv
  <2>2. Unfinished = {} => \A t \in DOMAIN tasks : tasks[t].await \notin {"firstHand", "hand"}
    BY DEF Unfinished, TaskIds
  <2> QED
    BY <2>1, <2>2 DEF HandsFit, HandsHaveModel
<1> QED
  BY <1>1, <1>2 DEF DevicesFollowPage

\* What the page holds is what its settings and buttons say.
THEOREM DevicesAlwaysFollowPage == MediaSpec => []DevicesFollowPage
<1>1. MediaInit => DevicesInv
  BY MediaAssumption, DevicesInitially
<1>2. DevicesInv /\ [MediaNext]_mediaVars => DevicesInv'
  BY MediaAssumption, DevicesStep
<1>3. DevicesInv => DevicesFollowPage
  BY DevicesAreThose
<1> QED
  BY <1>1, <1>2, <1>3, PTL DEF MediaSpec

-----------------------------------------------------------------------------
(***************************************************************************)
(* The hand stabiliser and its zones, for any curls, limits, holds and frame *)
(* times.                                                                  *)
(*                                                                         *)
(* StillHandIsFollowed speaks of a hand seen long enough.  HandsInv says how far *)
(* it is still away: k frames after it came to rest its curl is the real one, *)
(* or k clamped steps nearer (Near).                                       *)
(***************************************************************************)

\* Settle limited steps reach any curl.
LEMMA SettleIsEnough ==
  /\ Settle \in Nat /\ Settle * MaxCurlDelta >= MaxCurl
<1>1. MaxCurl \in Nat /\ MaxCurlDelta \in Nat /\ MaxCurlDelta > 0
  BY HandAssumption
<1>2. \A a, b \in Nat : b > 0 => a \div b \in Nat /\ (a \div b) * b + b > a
  OBVIOUS
<1>3. MaxCurl + MaxCurlDelta - 1 \in Nat
  BY <1>1
<1>4. Settle \in Nat /\ Settle * MaxCurlDelta + MaxCurlDelta > MaxCurl + MaxCurlDelta - 1
  BY <1>1, <1>2, <1>3 DEF Settle
<1> QED
  BY <1>1, <1>4

CurlType == [curl : 0 .. MaxCurl, over : BOOLEAN]

\* p is a target, r how the hand was seen in the last k frames: p has come as near to r
\* as k limited steps bring it.
Near(p, r, k) ==
  /\ p \in CurlType /\ r \in CurlType /\ k \in Nat /\ p.over = r.over
  /\ p.curl = r.curl \/ (/\ p.curl - r.curl + k * MaxCurlDelta <= MaxCurl
                         /\ r.curl - p.curl + k * MaxCurlDelta <= MaxCurl)

HandsInv ==
  /\ absent \in Nat /\ unseen = absent
  /\ absent > Hold => previous = NoHands
  /\ targets = previous /\ lit = Lit(previous)
  /\ DOMAIN previous \subseteq DOMAIN raw /\ DOMAIN raw \subseteq Handedness
  /\ still \in [Handedness -> Nat]
  /\ \A h \in DOMAIN raw : raw[h] \in CurlType
  /\ \A h \in DOMAIN previous : Near(previous[h], raw[h], still[h])

\* A limited step.
LEMMA LimitIs ==
  ASSUME NEW a \in 0 .. MaxCurl, NEW b \in 0 .. MaxCurl
  PROVE  /\ LimitDelta(a, b) \in 0 .. MaxCurl
         /\ \/ LimitDelta(a, b) = a
            \/ b > a /\ LimitDelta(a, b) > a /\ LimitDelta(a, b) = b - MaxCurlDelta
            \/ b < a /\ LimitDelta(a, b) < a /\ LimitDelta(a, b) = b + MaxCurlDelta
BY HandAssumption DEF LimitDelta

\* A hand that is seen as before comes a step nearer.
LEMMA StepNearer ==
  ASSUME NEW p, NEW r, NEW k, Near(p, r, k),
         NEW q, q = [r EXCEPT !.curl = LimitDelta(r.curl, p.curl)]
  PROVE  Near(q, r, k + 1)
<1>1. /\ p \in CurlType /\ r \in CurlType /\ k \in Nat
      /\ p.curl = r.curl \/ (/\ p.curl - r.curl + k * MaxCurlDelta <= MaxCurl
                             /\ r.curl - p.curl + k * MaxCurlDelta <= MaxCurl)
  BY DEF Near
<1>2. PICK a \in 0 .. MaxCurl : a = r.curl
  BY <1>1 DEF CurlType
<1>3. PICK b \in 0 .. MaxCurl : b = p.curl
  BY <1>1 DEF CurlType
<1>4. PICK c \in 0 .. MaxCurl :
        /\ c = LimitDelta(a, b)
        /\ \/ c = a \/ (b > a /\ c > a /\ c = b - MaxCurlDelta)
           \/ (b < a /\ c < a /\ c = b + MaxCurlDelta)
  BY LimitIs
<1>5. q \in CurlType /\ q.curl = c /\ q.over = r.over
  BY <1>1, <1>2, <1>3, <1>4 DEF CurlType
<1>6. MaxCurlDelta \in Nat /\ MaxCurl \in Nat
  BY HandAssumption
<1>7. (k + 1) * MaxCurlDelta = k * MaxCurlDelta + MaxCurlDelta /\ k * MaxCurlDelta \in Nat
  BY <1>1, <1>6
<1>8. c = a \/ (c - a + (k + 1) * MaxCurlDelta <= MaxCurl /\ a - c + (k + 1) * MaxCurlDelta <= MaxCurl)
  <2>1. CASE c = a
    BY <2>1
  <2>2. CASE b > a /\ c > a /\ c = b - MaxCurlDelta
    <3>1. b - a + k * MaxCurlDelta <= MaxCurl
      BY <1>1, <1>2, <1>3, <2>2
    <3> QED
      BY <1>6, <1>7, <2>2, <3>1
  <2>3. CASE b < a /\ c < a /\ c = b + MaxCurlDelta
    <3>1. a - b + k * MaxCurlDelta <= MaxCurl
      BY <1>1, <1>2, <1>3, <2>3
    <3> QED
      BY <1>6, <1>7, <2>3, <3>1
  <2> QED
    BY <1>4, <2>1, <2>2, <2>3
<1> QED
  BY <1>1, <1>2, <1>5, <1>8 DEF Near

\* Wherever the target was, one limited step brings it within that of any curl.
LEMMA AnyIsNear ==
  ASSUME NEW p \in CurlType, NEW r \in CurlType
  PROVE  Near([r EXCEPT !.curl = p.curl], r, 0)
<1>1. /\ [r EXCEPT !.curl = p.curl] \in CurlType /\ [r EXCEPT !.curl = p.curl].curl = p.curl
      /\ [r EXCEPT !.curl = p.curl].over = r.over /\ p.curl \in 0 .. MaxCurl /\ r.curl \in 0 .. MaxCurl
  BY DEF CurlType
<1>2. 0 * MaxCurlDelta = 0 /\ MaxCurl \in Nat
  BY HandAssumption
<1> QED
  BY <1>1, <1>2 DEF Near

\* A hand seen again as it was is one step nearer ...
LEMMA NearAgain ==
  ASSUME NEW p, NEW r, Near(p, r, Settle)
  PROVE  p = r
<1>1. p \in CurlType /\ r \in CurlType /\ p.over = r.over
  BY DEF Near
<1>2. p.curl = r.curl
  BY <1>1, SettleIsEnough, HandAssumption DEF Near, CurlType
<1> QED
  BY <1>1, <1>2 DEF CurlType

\* ... and one that has come there stays.
LEMMA SameIsNear ==
  ASSUME NEW r \in CurlType, NEW k \in Nat
  PROVE  Near(r, r, k)
BY DEF Near

\* No hand has been seen yet.
LEMMA HandsInitially ==
  ASSUME HandInit
  PROVE  HandsInv
<1>1. DOMAIN NoHands = {}
  BY DEF NoHands
<1>2. Hold \in Nat
  BY HandAssumption
<1> QED
  BY <1>1, <1>2 DEF HandInit, HandsInv, Lit

\* A frame keeps the invariant.
LEMMA HandsFrame ==
  ASSUME HandsInv, NEW seen \in Seen, NEW dt \in FrameTimes, HandFrame(seen, dt)
  PROVE  HandsInv'
<1> PICK age : age = Aged(absent, dt)
  OBVIOUS
<1>0. Hold \in Nat /\ dt \in Nat /\ absent \in Nat /\ unseen = absent
  BY HandAssumption DEF HandsInv
<1>1. age \in Nat
  BY <1>0 DEF Aged
<1>2. DOMAIN seen \subseteq Handedness /\ \A h \in DOMAIN seen : seen[h] \in CurlType
  <2>1. PICK hs \in SUBSET Handedness : seen \in [hs -> [curl : RawCurls, over : BOOLEAN]]
    BY DEF Seen
  <2> QED
    BY <2>1, HandAssumption DEF CurlType
<1>3. /\ targets' = previous' /\ lit' = Lit(previous') /\ style' = style
      /\ Update(seen, age)
  BY <1>0 DEF HandFrame
<1>4. lit' = Lit(previous)'
  BY <1>3 DEF Lit, StrikeMatches
<1>5. CASE seen = NoHands
  <2>1. DOMAIN seen = {}
    BY <1>5 DEF NoHands
  <2>2. absent' = age /\ raw' = [h \in DOMAIN raw |-> raw[h]] /\ still' = [h \in Handedness |-> still[h]]
    BY <1>5, <2>1 DEF HandFrame
  <2>3. /\ DOMAIN raw' = DOMAIN raw /\ \A h \in DOMAIN raw : raw'[h] = raw[h]
        /\ still' \in [Handedness -> Nat] /\ \A h \in Handedness : still'[h] = still[h]
    BY <2>2 DEF HandsInv
  <2>4. HoldHands(age)
    BY <1>3, <1>5 DEF Update
  <2>5. CASE age <= Hold
    <3>1. previous' = previous /\ unseen' = age
      BY <2>4, <2>5 DEF HoldHands
    <3>2. \A h \in DOMAIN previous : h \in DOMAIN raw /\ h \in Handedness /\ Near(previous[h], raw[h], still[h])
      BY DEF HandsInv
    <3> QED
      BY <1>0, <1>1, <1>3, <1>4, <2>2, <2>3, <2>5, <3>1, <3>2 DEF HandsInv
  <2>6. CASE ~(age <= Hold)
    <3>1. previous' = NoHands /\ unseen' = Hold + 1 /\ DOMAIN NoHands = {}
      BY <2>4, <2>6 DEF HoldHands, NoHands
    <3>2. age = Hold + 1
      BY <1>0, <2>6 DEF Aged
    <3> QED
      BY <1>0, <1>1, <1>3, <1>4, <2>2, <2>3, <3>1, <3>2 DEF HandsInv
  <2> QED
    BY <2>5, <2>6
<1>6. CASE seen # NoHands
  <2>1. /\ previous' = [h \in DOMAIN seen |-> StabilizeHandTarget(h, seen[h])]
        /\ unseen' = 0 /\ absent' = 0
    BY <1>3, <1>6 DEF Update, HandFrame
  <2>2. /\ DOMAIN raw' = DOMAIN raw \cup DOMAIN seen
        /\ \A h \in DOMAIN raw \cup DOMAIN seen : raw'[h] = IF h \in DOMAIN seen THEN seen[h] ELSE raw[h]
    BY DEF HandFrame
  <2>3. still' \in [Handedness -> Nat]
    <3>1. \A h \in Handedness : still[h] \in Nat
      BY DEF HandsInv
    <3>2. ASSUME NEW h \in Handedness
          PROVE  still'[h] = still[h] \/ still'[h] = Settle \/ still'[h] = still[h] + 1 \/ still'[h] = 1
      BY DEF HandFrame
    <3>3. \A h \in Handedness : still'[h] \in Nat
      BY <3>1, <3>2, SettleIsEnough
    <3>4. still' = [h \in Handedness |-> still'[h]]
      BY DEF HandFrame
    <3> QED
      BY <3>3, <3>4
  <2>4. \A h \in DOMAIN raw' : h \in Handedness /\ raw'[h] \in CurlType
    BY <1>2, <2>2 DEF HandsInv
  <2>5. ASSUME NEW h \in DOMAIN seen
        PROVE  Near(previous'[h], raw'[h], still'[h])
    <3>1. raw'[h] = seen[h] /\ seen[h] \in CurlType /\ h \in Handedness
      BY <1>2, <2>2, <2>5
    <3>2. previous'[h] = StabilizeHandTarget(h, seen[h])
      BY <2>1
    <3>3. still'[h] \in Nat
      BY <2>3, <3>1
    <3>4. still'[h] = IF h \in DOMAIN raw /\ raw[h] = seen[h]
                      THEN IF still[h] = Settle THEN Settle ELSE still[h] + 1
                      ELSE 1
      BY <3>1 DEF HandFrame
    <3>5. CASE h \notin DOMAIN previous
      <4>1. previous'[h] = seen[h]
        BY <3>2, <3>5 DEF StabilizeHandTarget
      <4> QED
        BY <3>1, <3>3, <4>1, SameIsNear
    <3>6. CASE h \in DOMAIN previous
      <4> PICK p : p = previous[h]
        OBVIOUS
      <4> PICK r : r = raw[h]
        OBVIOUS
      <4> PICK k : k = still[h]
        OBVIOUS
      <4> PICK x : x = seen[h]
        OBVIOUS
      <4> PICK q : q = previous'[h]
        OBVIOUS
      <4>1. Near(p, r, k) /\ h \in DOMAIN raw
        BY <3>6 DEF HandsInv
      <4>2. q = [x EXCEPT !.curl = LimitDelta(x.curl, p.curl)]
        BY <3>2, <3>6 DEF StabilizeHandTarget
      <4>3. CASE r = x /\ k # Settle
        <5>1. still'[h] = k + 1
          BY <3>4, <4>1, <4>3
        <5>2. Near(q, x, k + 1)
          BY <4>1, <4>2, <4>3, StepNearer
        <5> QED
          BY <3>1, <5>1, <5>2
      <4>4. CASE r = x /\ k = Settle
        <5>1. p = x
          BY <4>1, <4>4, NearAgain
        <5>2. Near(p, x, 0)
          BY <3>1, <5>1, SameIsNear
        <5>3. LimitDelta(x.curl, p.curl) = x.curl
          BY <3>1, <5>1, HandAssumption DEF LimitDelta, CurlType
        <5>4. q = x
          BY <3>1, <4>2, <5>3 DEF CurlType
        <5> QED
          BY <3>1, <3>3, <5>4, SameIsNear
      <4>5. CASE r # x
        <5>1. still'[h] = 1
          BY <3>4, <4>5
        <5>2. p \in CurlType
          BY <4>1 DEF Near
        <5> PICK z : z = [x EXCEPT !.curl = p.curl]
          OBVIOUS
        <5>3. Near(z, x, 0) /\ z.curl = p.curl
          BY <3>1, <5>2, AnyIsNear DEF CurlType
        <5>4. Near(q, x, 0 + 1)
          BY <4>2, <5>3, StepNearer
        <5> QED
          BY <3>1, <5>1, <5>4
      <4> QED
        BY <4>3, <4>4, <4>5
    <3> QED
      BY <3>5, <3>6
  <2> QED
    BY <1>0, <1>3, <1>4, <2>1, <2>2, <2>3, <2>4, <2>5 DEF HandsInv
<1> QED
  BY <1>5, <1>6

\* A hand that keeps still is followed.
THEOREM HandAlwaysFollowed == HandSpec => []StillHandIsFollowed
<1>1. HandInit => HandsInv
  BY HandsInitially
<1>2. HandsInv /\ [HandNext]_handVars => HandsInv'
  <2> SUFFICES ASSUME HandsInv, [HandNext]_handVars PROVE HandsInv'
    OBVIOUS
  <2>1. CASE HandNext
    BY <2>1, HandsFrame DEF HandNext
  <2>2. CASE UNCHANGED handVars
    BY <2>2 DEF handVars, HandsInv, Lit, StrikeMatches
  <2> QED
    BY <2>1, <2>2
<1>3. HandsInv => StillHandIsFollowed
  <2> SUFFICES ASSUME HandsInv PROVE StillHandIsFollowed
    OBVIOUS
  <2>1. \A h \in DOMAIN targets : still[h] = Settle => targets[h] = raw[h]
    BY NearAgain DEF HandsInv
  <2>2. DOMAIN NoHands = {}
    BY DEF NoHands
  <2> QED
    BY <2>1, <2>2 DEF HandsInv, StillHandIsFollowed, Lit
<1> QED
  BY <1>1, <1>2, <1>3, PTL DEF HandSpec

-----------------------------------------------------------------------------
(***************************************************************************)
(* The OBS bridge, for any situations, sources, pushes and clicks.         *)
(*                                                                         *)
(* ObsShowsSituation speaks of a push that has come to its end.  ObsInv says how *)
(* far it is: it has requests in order (TodoOrdered), and, while it has the field *)
(* to itself, each source is still to be made or in the scene, still to be *)
(* found or placed or in its place (Progress) - unless its scene was deleted, *)
(* or the situation changed while it awaited the canvas.                   *)
(***************************************************************************)

Scenes   == ObsSituations \cup {NoSituation}
Owns(s)  == ToSet(SourcesOf(s))
Sources  == UNION {Owns(s) : s \in ObsSituations}
Kinds    == {"CreateScene", "CreateInput", "SetInputSettings", "GetSceneItemId",
             "SetSceneItemTransform", "SetCurrentProgramScene"}
Requests == Kinds \X (Sources \cup {NoSituation})
PushType ==
  [kind : {"none", "connect", "tick", "switch"},
   at : {"done", "connect", "devices", "canvas", "lists", "requests"},
   on : Nat, scene : Scenes, plan : Scenes, todo : Seq(Requests), alone : BOOLEAN]
ObsType ==
  [scenes : SUBSET Scenes, items : SUBSET (Scenes \X Sources), placed : SUBSET (Scenes \X Sources),
   current : Scenes]

\* The order of a push: the scene, its sources, where they are, their places, the program.
Rank(kind) ==
  CASE kind = "CreateScene" -> 0
    [] kind \in {"CreateInput", "SetInputSettings"} -> 1
    [] kind = "GetSceneItemId" -> 2
    [] kind = "SetSceneItemTransform" -> 3
    [] OTHER -> 4
TodoOrdered(todo) ==
  /\ todo # <<>> /\ todo[Len(todo)][1] = "SetCurrentProgramScene"
  /\ \A i, j \in 1 .. Len(todo) : i < j =>
       /\ Rank(todo[i][1]) <= Rank(todo[j][1])
       /\ todo[i][1] # "SetCurrentProgramScene" /\ todo[j][1] # "CreateScene"

OnObs(e) == e.at \in {"canvas", "lists", "requests"}
Has(todo, kinds, x) == \E i \in 1 .. Len(todo) : todo[i][1] \in kinds /\ todo[i][2] = x
Making   == {"CreateInput", "SetInputSettings"}
Finding  == {"GetSceneItemId"}
Placing  == {"SetSceneItemTransform"}

\* A push puts the sources of its plan into its scene, and the plan is the scene's unless
\* the situation changed meanwhile.
PushFits(e, mix) ==
  /\ e \in PushType
  /\ e.at \in {"lists", "requests"} => e.plan \in ObsSituations /\ (~mix => e.plan = e.scene)
  /\ e.at = "requests" =>
       /\ TodoOrdered(e.todo)
       /\ \A i \in 1 .. Len(e.todo) :
            e.todo[i][1] \in Making \cup Finding \cup Placing => e.todo[i][2] \in Owns(e.plan)
  /\ e.alone => OnObs(e)

\* How far a push that has the field to itself has come: each source is still to be made
\* or is in the scene, is still to be found or placed or is in its place, unless the
\* streamer has deleted the scene.
Progress(e, o, mix) ==
  e.at = "requests" /\ e.alone /\ ~mix =>
    /\ e.todo[1][1] = "CreateScene" =>
         \A x \in Owns(e.plan) : Has(e.todo, Making, x) /\ Has(e.todo, Finding, x)
    /\ e.todo[1][1] # "CreateScene" /\ e.scene \in o.scenes =>
         \A x \in Owns(e.plan) :
           /\ Has(e.todo, Making, x) \/ <<e.scene, x>> \in o.items
           /\ Has(e.todo, Finding, x) \/ Has(e.todo, Placing, x) \/ <<e.scene, x>> \in o.placed

\* What OBS holds: sources of Minamo, each in its own situation's scene.
Holds(o, mix) ==
  /\ o \in ObsType
  /\ \A i \in o.items : i[2] \in Owns(i[2][1]) /\ (~mix => i[1] = i[2][1])

Shows(o, s) ==
  /\ o.current = s
  /\ \A x \in Owns(s) : <<s, x>> \in o.items /\ <<s, x>> \in o.placed

AloneIsAlone(ps) == \A p, q \in Pushes : ps[p].alone /\ OnObs(ps[q]) => q = p

BridgeFits(b, conns) == b \in Nat /\ conns \in Seq({"connecting", "identified", "closed"})

ObsInv ==
  /\ situation \in ObsSituations /\ mixed \in BOOLEAN /\ shown \in Scenes
  /\ BridgeFits(bridge, sockets)
  /\ pushes \in [Pushes -> PushType] /\ AloneIsAlone(pushes)
  /\ \A p \in Pushes : PushFits(pushes[p], mixed) /\ Progress(pushes[p], obs, mixed)
  /\ Holds(obs, mixed)
  /\ shown # NoSituation =>
       /\ \A p \in Pushes : ~OnObs(pushes[p])
       /\ ~mixed => Shows(obs, shown)

\* A situation's sources are Minamo's, and carry its name.
LEMMA SourcesAre ==
  ASSUME NEW s \in ObsSituations
  PROVE  /\ Len(Owned[s]) \in Nat /\ DOMAIN Owned[s] = 1 .. Len(Owned[s])
         /\ DOMAIN SourcesOf(s) = 1 .. Len(Owned[s])
         /\ \A i \in 1 .. Len(Owned[s]) : SourcesOf(s)[i] \in Owns(s)
         /\ \A x \in Owns(s) : x[1] = s /\ x \in Sources /\ \E i \in 1 .. Len(Owned[s]) : SourcesOf(s)[i] = x
<1>1. Owned[s] \in Seq(STRING)
  BY ObsAssumption
<1>2. Len(Owned[s]) \in Nat /\ DOMAIN Owned[s] = 1 .. Len(Owned[s])
  BY <1>1
<1>3. /\ DOMAIN SourcesOf(s) = 1 .. Len(Owned[s])
      /\ \A i \in 1 .. Len(Owned[s]) : SourcesOf(s)[i] = <<s, Owned[s][i]>>
  BY <1>2 DEF SourcesOf
<1>4. \A i \in 1 .. Len(Owned[s]) : SourcesOf(s)[i] \in Owns(s)
  BY <1>3 DEF Owns, ToSet
<1>5. ASSUME NEW x \in Owns(s)
      PROVE  x[1] = s /\ x \in Sources /\ \E i \in 1 .. Len(Owned[s]) : SourcesOf(s)[i] = x
  <2>1. PICK i \in 1 .. Len(Owned[s]) : x = SourcesOf(s)[i]
    BY <1>3 DEF Owns, ToSet
  <2>2. x \in Sources
    BY DEF Sources
  <2> QED
    BY <1>3, <2>1, <2>2
<1> QED
  BY <1>2, <1>3, <1>4, <1>5

\* Two lists one after the other.
LEMMA TwoLists ==
  ASSUME NEW s \in Seq(Requests), NEW t \in Seq(Requests), NEW u, u = s \o t
  PROVE  /\ u \in Seq(Requests) /\ Len(u) = Len(s) + Len(t)
         /\ \A i \in 1 .. Len(s) : u[i] = s[i]
         /\ \A i \in 1 .. Len(t) : u[Len(s) + i] = t[i]
OBVIOUS

\* A list given by its members.
LEMMA ListOf ==
  ASSUME NEW R, NEW n \in Nat, NEW f \in [1 .. n -> R]
  PROVE  f \in Seq(R) /\ Len(f) = n
OBVIOUS

\* What u has of s and t when it is the one after the other.
Joined(s, t, u) ==
  /\ u \in Seq(Requests) /\ Len(u) = Len(s) + Len(t)
  /\ \A i \in 1 .. Len(s) : u[i] = s[i]
  /\ \A i \in 1 .. Len(t) : u[Len(s) + i] = t[i]

\* Two lists one after the other are Joined.
LEMMA JoinedAre ==
  ASSUME NEW s \in Seq(Requests), NEW t \in Seq(Requests)
  PROVE  Joined(s, t, s \o t)
<1> PICK u : u = s \o t
  OBVIOUS
<1> QED
  BY TwoLists DEF Joined

AllFour(la, n, a, b, c, d, todo) ==
  /\ todo \in Seq(Requests) /\ Len(todo) = la + n + n + 1
  /\ \A i \in 1 .. la : todo[i] = a[i]
  /\ \A i \in 1 .. n : todo[la + i] = b[i] /\ todo[la + n + i] = c[i]
  /\ todo[la + n + n + 1] = d[1]

\* Four lists one after the other, the first with la members, two with n, the last with one.
LEMMA FourLists ==
  ASSUME NEW la \in Nat, NEW n \in Nat,
         NEW a \in Seq(Requests), NEW b \in Seq(Requests), NEW c \in Seq(Requests),
         NEW d \in Seq(Requests), Len(a) = la, Len(b) = n, Len(c) = n, Len(d) = 1,
         NEW ab, NEW abc, NEW todo, Joined(a, b, ab), Joined(ab, c, abc), Joined(abc, d, todo)
  PROVE  AllFour(la, n, a, b, c, d, todo)
<1>1. /\ Len(ab) = la + n
      /\ \A i \in 1 .. la : ab[i] = a[i]
      /\ \A i \in 1 .. n : ab[la + i] = b[i]
  BY DEF Joined
<1>2. /\ Len(abc) = la + n + n
      /\ \A i \in 1 .. la + n : abc[i] = ab[i]
      /\ \A i \in 1 .. n : abc[la + n + i] = c[i]
  BY <1>1 DEF Joined
<1>3. /\ todo \in Seq(Requests) /\ Len(todo) = la + n + n + 1
      /\ \A i \in 1 .. la + n + n : todo[i] = abc[i]
      /\ todo[la + n + n + 1] = d[1]
  <2>1. 1 \in 1 .. Len(d)
    OBVIOUS
  <2> QED
    BY <1>2, <2>1 DEF Joined
<1>4. ASSUME NEW i \in 1 .. la PROVE todo[i] = a[i]
  <2>1. i \in 1 .. la + n /\ i \in 1 .. la + n + n
    OBVIOUS
  <2> QED
    BY <1>1, <1>2, <1>3, <2>1
<1>5. ASSUME NEW i \in 1 .. n PROVE todo[la + i] = b[i] /\ todo[la + n + i] = c[i]
  <2>1. la + i \in 1 .. la + n /\ la + i \in 1 .. la + n + n /\ la + n + i \in 1 .. la + n + n
    OBVIOUS
  <2> QED
    BY <1>1, <1>2, <1>3, <2>1
<1> QED
  BY <1>3, <1>4, <1>5 DEF AllFour

\* Two runs of requests, one for each source, behind the first la of a list.
LEMMA SlotsFit ==
  ASSUME NEW la \in Nat, NEW n \in Nat, NEW len, len = la + n + n + 1, NEW i \in 1 .. n
  PROVE  la + i \in 1 .. len /\ la + n + i \in 1 .. len
OBVIOUS

\* What a push has to do when OBS has told what it has.
LEMMA PlanIs ==
  ASSUME NEW plan \in ObsSituations, NEW scene \in Scenes, NEW o,
         NEW todo,
         todo = BuildObsSourceRequests(plan, scene, o) \o ToAll("GetSceneItemId", plan)
                \o <<<<"SetCurrentProgramScene", NoSituation>>>>
  PROVE  /\ todo \in Seq(Requests) /\ TodoOrdered(todo)
         /\ \A i \in 1 .. Len(todo) :
              todo[i][1] \in Making \cup Finding \cup Placing => todo[i][2] \in Owns(plan)
         /\ \A x \in Owns(plan) : Has(todo, Making, x) /\ Has(todo, Finding, x)
         /\ scene \in o.scenes => todo[1][1] # "CreateScene"
<1>n. PICK n : n = Len(Owned[plan])
  OBVIOUS
<1>s. PICK src : src = SourcesOf(plan)
  OBVIOUS
<1>0. n \in Nat /\ DOMAIN Owned[plan] = 1 .. n /\ \A i \in 1 .. n : src[i] \in Owns(plan) /\ src[i] \in Sources
  BY <1>n, <1>s, SourcesAre
<1>a. PICK a : a = IF scene \in o.scenes THEN <<>> ELSE <<<<"CreateScene", NoSituation>>>>
  OBVIOUS
<1>b. PICK b : b = [i \in 1 .. n |->
                   <<IF src[i] \in Inputs(o) THEN "SetInputSettings" ELSE "CreateInput", src[i]>>]
  OBVIOUS
<1>c. PICK c : c = [i \in 1 .. n |-> <<"GetSceneItemId", src[i]>>]
  OBVIOUS
<1>d. PICK d : d = <<<<"SetCurrentProgramScene", NoSituation>>>>
  OBVIOUS
<1>l. PICK la : la = IF scene \in o.scenes THEN 0 ELSE 1
  OBVIOUS
<1>9. la \in {0, 1} /\ la \in Nat /\ (scene \in o.scenes <=> la = 0)
  BY <1>l
<1>1. todo = ((a \o b) \o c) \o d
  BY <1>0, <1>n, <1>s, <1>a, <1>b, <1>c, <1>d DEF BuildObsSourceRequests, ToAll
<1>2. a \in Seq(Requests) /\ Len(a) = la /\ \A i \in 1 .. la : a[i] = <<"CreateScene", NoSituation>>
  <2>1. <<"CreateScene", NoSituation>> \in Requests
    BY DEF Requests, Kinds
  <2>2. CASE scene \in o.scenes
    BY <1>a, <1>l, <2>2
  <2>3. CASE scene \notin o.scenes
    <3>1. a = <<<<"CreateScene", NoSituation>>>> /\ la = 1
      BY <1>a, <1>l, <2>3
    <3> QED
      BY <2>1, <3>1
  <2> QED
    BY <2>2, <2>3
<1>3. /\ b \in Seq(Requests) /\ Len(b) = n
      /\ \A i \in 1 .. n : b[i][1] \in Making /\ b[i][2] = src[i]
  <2>1. \A i \in 1 .. n : b[i] \in Requests /\ b[i][1] \in Making /\ b[i][2] = src[i]
    BY <1>0, <1>b DEF Requests, Kinds, Making
  <2>2. b \in [1 .. n -> Requests]
    BY <1>b, <2>1
  <2> QED
    BY <1>0, <2>1, <2>2, ListOf
<1>4. /\ c \in Seq(Requests) /\ Len(c) = n
      /\ \A i \in 1 .. n : c[i][1] = "GetSceneItemId" /\ c[i][2] = src[i]
  <2>1. \A i \in 1 .. n : c[i] \in Requests /\ c[i][1] = "GetSceneItemId" /\ c[i][2] = src[i]
    BY <1>0, <1>c DEF Requests, Kinds
  <2>2. c \in [1 .. n -> Requests]
    BY <1>c, <2>1
  <2> QED
    BY <1>0, <2>1, <2>2, ListOf
<1>5. d \in Seq(Requests) /\ Len(d) = 1 /\ d[1] = <<"SetCurrentProgramScene", NoSituation>>
  <2>1. <<"SetCurrentProgramScene", NoSituation>> \in Requests
    BY DEF Requests, Kinds
  <2> QED
    BY <1>d, <2>1
<1>8. /\ todo \in Seq(Requests) /\ Len(todo) = la + n + n + 1
      /\ \A i \in 1 .. la : todo[i] = a[i]
      /\ \A i \in 1 .. n : todo[la + i] = b[i] /\ todo[la + n + i] = c[i]
      /\ todo[la + n + n + 1] = d[1]
  <2>1. a \in Seq(Requests) /\ b \in Seq(Requests) /\ c \in Seq(Requests) /\ d \in Seq(Requests)
    BY <1>2, <1>3, <1>4, <1>5
  <2>2. Joined(a, b, a \o b) /\ (a \o b) \in Seq(Requests)
    BY <2>1, JoinedAre DEF Joined
  <2>3. Joined(a \o b, c, (a \o b) \o c) /\ ((a \o b) \o c) \in Seq(Requests)
    BY <2>1, <2>2, JoinedAre DEF Joined
  <2>4. Joined((a \o b) \o c, d, todo)
    BY <1>1, <2>1, <2>3, JoinedAre
  <2>5. Len(a) = la /\ Len(b) = n /\ Len(c) = n /\ Len(d) = 1 /\ la \in Nat /\ n \in Nat
    BY <1>0, <1>2, <1>3, <1>4, <1>5, <1>9
  <2> QED
    <3>1. PICK ab : ab = a \o b
      OBVIOUS
    <3>2. PICK abc : abc = (a \o b) \o c
      OBVIOUS
    <3>3. Joined(a, b, ab) /\ Joined(ab, c, abc) /\ Joined(abc, d, todo)
      BY <2>2, <2>3, <2>4, <3>1, <3>2
    <3>4. AllFour(la, n, a, b, c, d, todo)
      BY <2>1, <2>5, <3>3, FourLists
    <3> QED
      BY <3>4 DEF AllFour
<1>10. /\ \A i \in 1 .. la : todo[i][1] = "CreateScene"
       /\ \A i \in 1 .. n : todo[la + i][1] \in Making /\ todo[la + i][2] = src[i]
       /\ \A i \in 1 .. n : todo[la + n + i][1] = "GetSceneItemId" /\ todo[la + n + i][2] = src[i]
       /\ todo[la + n + n + 1][1] = "SetCurrentProgramScene"
  <2>1. \A i \in 1 .. la : todo[i][1] = "CreateScene"
    <3> TAKE i \in 1 .. la
    <3>1. todo[i] = <<"CreateScene", NoSituation>>
      BY <1>2, <1>8
    <3>2. <<"CreateScene", NoSituation>>[1] = "CreateScene"
      OBVIOUS
    <3> QED
      BY <3>1, <3>2, Zenon
  <2>2. \A i \in 1 .. n : todo[la + i][1] \in Making /\ todo[la + i][2] = src[i]
    BY <1>3, <1>8
  <2>3. \A i \in 1 .. n : todo[la + n + i][1] = "GetSceneItemId" /\ todo[la + n + i][2] = src[i]
    BY <1>4, <1>8, ZenonT(40)
  <2>4. todo[la + n + n + 1][1] = "SetCurrentProgramScene"
    BY <1>5, <1>8
  <2> QED
    BY <2>1, <2>2, <2>3, <2>4
<1>11. ASSUME NEW i \in 1 .. Len(todo)
       PROVE  \/ i <= la
              \/ i - la \in 1 .. n /\ i > la /\ i = la + (i - la)
              \/ i - la - n \in 1 .. n /\ i > la + n /\ i = la + n + (i - la - n)
              \/ i = la + n + n + 1
  <2>1. n \in Nat /\ la \in Nat /\ i \in 1 .. la + n + n + 1
    BY <1>0, <1>8, <1>9
  <2> QED
    BY <2>1
<1>12. \A i \in 1 .. Len(todo) :
         \/ i <= la /\ todo[i][1] = "CreateScene"
         \/ i > la /\ i <= la + n /\ todo[i][1] \in Making /\ todo[i][2] \in Owns(plan)
         \/ i > la + n /\ i <= la + n + n /\ todo[i][1] = "GetSceneItemId" /\ todo[i][2] \in Owns(plan)
         \/ i = la + n + n + 1 /\ todo[i][1] = "SetCurrentProgramScene"
  <2> TAKE i \in 1 .. Len(todo)
  <2>1. CASE i <= la
    BY <1>9, <1>10, <2>1
  <2>2. CASE i - la \in 1 .. n /\ i > la /\ i = la + (i - la)
    <3> PICK j \in 1 .. n : j = i - la /\ i = la + j
      BY <2>2
    <3>1. todo[la + j][1] \in Making /\ todo[la + j][2] = src[j] /\ src[j] \in Owns(plan)
      BY <1>0, <1>10
    <3> QED
      BY <1>0, <1>9, <2>2, <3>1
  <2>3. CASE i - la - n \in 1 .. n /\ i > la + n /\ i = la + n + (i - la - n)
    <3> PICK j \in 1 .. n : j = i - la - n /\ i = la + n + j
      BY <2>3
    <3>1. todo[la + n + j][1] = "GetSceneItemId" /\ todo[la + n + j][2] = src[j] /\ src[j] \in Owns(plan)
      BY <1>0, <1>10
    <3>2. i > la + n /\ i <= la + n + n
      <4>1. la \in Nat /\ n \in Nat
        BY <1>0, <1>9
      <4> QED
        BY <4>1
    <3>3. todo[i][1] = "GetSceneItemId" /\ todo[i][2] \in Owns(plan)
      BY <3>1
    <3> QED
      BY <3>2, <3>3, Zenon
  <2>4. CASE i = la + n + n + 1
    BY <1>10, <2>4
  <2> QED
    BY <1>11, <2>1, <2>2, <2>3, <2>4
<1>13. TodoOrdered(todo)
  <2>1. todo # <<>> /\ todo[Len(todo)][1] = "SetCurrentProgramScene"
    BY <1>0, <1>8, <1>9, <1>10
  <2>2. ASSUME NEW i \in 1 .. Len(todo), NEW j \in 1 .. Len(todo), i < j
        PROVE  /\ Rank(todo[i][1]) <= Rank(todo[j][1])
               /\ todo[i][1] # "SetCurrentProgramScene" /\ todo[j][1] # "CreateScene"
    <3>1. /\ Rank("CreateScene") = 0 /\ (\A k \in Making : Rank(k) = 1) /\ Rank("GetSceneItemId") = 2
          /\ Rank("SetCurrentProgramScene") = 4
      BY DEF Rank, Making
    <3>2. "CreateScene" \notin Making /\ "SetCurrentProgramScene" \notin Making
      BY DEF Making
    <3>3. i < la + n + n + 1 /\ j > la /\ la \in Nat /\ n \in Nat /\ i \in Nat /\ j \in Nat
      BY <1>0, <1>8, <1>9, <2>2
    <3>a. \/ i <= la /\ todo[i][1] = "CreateScene"
          \/ i > la /\ i <= la + n /\ todo[i][1] \in Making
          \/ i > la + n /\ i <= la + n + n /\ todo[i][1] = "GetSceneItemId"
          \/ i = la + n + n + 1 /\ todo[i][1] = "SetCurrentProgramScene"
      BY <1>12
    <3>b. \/ j <= la /\ todo[j][1] = "CreateScene"
          \/ j > la /\ j <= la + n /\ todo[j][1] \in Making
          \/ j > la + n /\ j <= la + n + n /\ todo[j][1] = "GetSceneItemId"
          \/ j = la + n + n + 1 /\ todo[j][1] = "SetCurrentProgramScene"
      BY <1>12
    <3>c. \/ todo[i][1] = "CreateScene"
          \/ todo[i][1] \in Making
          \/ i > la + n /\ todo[i][1] = "GetSceneItemId"
      BY <3>3, <3>a, SMTT(30)
    <3>d. \/ todo[j][1] \in Making /\ j <= la + n
          \/ todo[j][1] = "GetSceneItemId"
          \/ todo[j][1] = "SetCurrentProgramScene"
      BY <3>3, <3>b
    <3>4. todo[j][1] # "CreateScene" /\ todo[i][1] # "SetCurrentProgramScene"
      BY <3>2, <3>c, <3>d
    <3>r. Rank(todo[j][1]) \in {1, 2, 4}
      BY <3>1, <3>d
    <3>5. CASE todo[i][1] = "CreateScene"
      BY <3>1, <3>4, <3>5, <3>r
    <3>6. CASE todo[i][1] \in Making
      BY <3>1, <3>4, <3>6, <3>r
    <3>7. CASE i > la + n /\ todo[i][1] = "GetSceneItemId"
      <4>1. j > la + n
        BY <2>2, <3>3, <3>7
      <4>2. todo[j][1] \in {"GetSceneItemId", "SetCurrentProgramScene"}
        BY <3>3, <3>d, <4>1
      <4> QED
        BY <3>1, <3>4, <3>7, <4>2, SMTT(30)
    <3> QED
      BY <3>c, <3>5, <3>6, <3>7
  <2> QED
    BY <2>1, <2>2 DEF TodoOrdered
<1>14. \A i \in 1 .. Len(todo) :
         todo[i][1] \in Making \cup Finding \cup Placing => todo[i][2] \in Owns(plan)
  BY <1>12 DEF Making, Finding, Placing
<1>15. ASSUME NEW x \in Owns(plan) PROVE Has(todo, Making, x) /\ Has(todo, Finding, x)
  <2>1. PICK i \in 1 .. n : src[i] = x
    BY <1>n, <1>s, SourcesAre
  <2>2. la + i \in 1 .. Len(todo) /\ la + n + i \in 1 .. Len(todo)
    <3>1. PICK len : len = Len(todo)
      OBVIOUS
    <3>2. len = la + n + n + 1 /\ la \in Nat /\ n \in Nat
      BY <1>0, <1>8, <1>9, <3>1
    <3>3. la + i \in 1 .. len /\ la + n + i \in 1 .. len
      BY <3>2, SlotsFit
    <3> QED
      BY <3>1, <3>3
  <2> QED
    BY <1>10, <2>1, <2>2 DEF Has, Finding
<1>16. scene \in o.scenes => todo[1][1] # "CreateScene"
  <2> SUFFICES ASSUME scene \in o.scenes PROVE todo[1][1] # "CreateScene"
    OBVIOUS
  <2>1. la = 0 /\ 1 \in 1 .. Len(todo)
    BY <1>0, <1>8, <1>9
  <2>2. "CreateScene" \notin Making
    BY DEF Making
  <2>3. PICK request : request = todo[1]
    OBVIOUS
  <2>4. \/ 1 <= la /\ request[1] = "CreateScene"
        \/ request[1] \in Making
        \/ request[1] = "GetSceneItemId"
        \/ request[1] = "SetCurrentProgramScene"
    BY <1>12, <2>1, <2>3
  <2>5. ~(1 <= la)
    BY <2>1
  <2>6. request[1] # "CreateScene"
    BY <2>2, <2>4, <2>5
  <2> QED
    BY <2>3, <2>6
<1> QED
  BY <1>8, <1>13, <1>14, <1>15, <1>16

\* What is left of a push's requests after one of them.
Remains(todo, left, plan) ==
  /\ left \in Seq(Requests)
  /\ left = <<>> <=> todo[1][1] = "SetCurrentProgramScene"
  /\ left # <<>> => TodoOrdered(left) /\ left[1][1] # "CreateScene"
  /\ \A i \in 1 .. Len(left) :
       left[i][1] \in Making \cup Finding \cup Placing => left[i][2] \in Owns(plan)
  /\ \A K, x : Has(todo, K, x) /\ ~(todo[1][1] \in K /\ todo[1][2] = x) => Has(left, K, x)

TodoFits(todo, plan) ==
  /\ todo \in Seq(Requests) /\ TodoOrdered(todo)
  /\ \A i \in 1 .. Len(todo) :
       todo[i][1] \in Making \cup Finding \cup Placing => todo[i][2] \in Owns(plan)

\* The rest of a push's requests is what remains after one that finds nothing.
LEMMA TailRemains ==
  ASSUME NEW todo, NEW plan, TodoFits(todo, plan)
  PROVE  Remains(todo, Tail(todo), plan)
<1>p. PICK rest : rest = Tail(todo)
  OBVIOUS
<1>1. todo \in Seq(Requests) /\ Len(todo) \in Nat /\ Len(todo) >= 1
  BY DEF TodoFits, TodoOrdered
<1>2. /\ rest \in Seq(Requests) /\ Len(rest) = Len(todo) - 1
      /\ \A i \in 1 .. Len(rest) : i + 1 \in 1 .. Len(todo) /\ rest[i] = todo[i + 1]
  BY <1>p, <1>1
<1>3. rest = <<>> <=> Len(todo) = 1
  BY <1>1, <1>2
<1>4. Len(todo) = 1 <=> todo[1][1] = "SetCurrentProgramScene"
  <2>1. \A i, j \in 1 .. Len(todo) : i < j => todo[i][1] # "SetCurrentProgramScene"
    BY DEF TodoFits, TodoOrdered
  <2>2. todo[Len(todo)][1] = "SetCurrentProgramScene"
    BY DEF TodoFits, TodoOrdered
  <2>3. Len(todo) # 1 => 1 \in 1 .. Len(todo) /\ Len(todo) \in 1 .. Len(todo) /\ 1 < Len(todo)
    <3>1. PICK n \in Nat : n = Len(todo) /\ n >= 1
      BY <1>1
    <3>2. n # 1 => 1 \in 1 .. n /\ n \in 1 .. n /\ 1 < n
      BY <3>1
    <3> QED
      BY <3>1, <3>2
  <2> QED
    BY <2>1, <2>2, <2>3
<1>5. ASSUME rest # <<>> PROVE TodoOrdered(rest) /\ rest[1][1] # "CreateScene"
  <2>1. Len(rest) >= 1 /\ Len(rest) \in Nat
    BY <1>1, <1>2, <1>3, <1>5
  <2>2. rest[Len(rest)][1] = "SetCurrentProgramScene"
    <3>1. Len(rest) \in 1 .. Len(rest) /\ Len(rest) + 1 = Len(todo)
      BY <1>1, <1>2, <2>1
    <3> QED
      BY <1>2, <3>1 DEF TodoFits, TodoOrdered
  <2>3. ASSUME NEW i \in 1 .. Len(rest), NEW j \in 1 .. Len(rest), i < j
        PROVE  /\ Rank(rest[i][1]) <= Rank(rest[j][1])
               /\ rest[i][1] # "SetCurrentProgramScene" /\ rest[j][1] # "CreateScene"
    <3>1. i + 1 \in 1 .. Len(todo) /\ j + 1 \in 1 .. Len(todo) /\ i + 1 < j + 1
      BY <1>2, <2>3
    <3> QED
      BY <1>2, <3>1 DEF TodoFits, TodoOrdered
  <2>4. rest[1][1] # "CreateScene"
    <3>1. 1 \in 1 .. Len(rest) /\ 1 \in 1 .. Len(todo) /\ 2 \in 1 .. Len(todo) /\ 1 + 1 = 2 /\ 1 < 2
      BY <1>1, <1>2, <2>1
    <3> QED
      BY <1>2, <3>1 DEF TodoFits, TodoOrdered
  <2> QED
    BY <1>5, <2>2, <2>3, <2>4 DEF TodoOrdered
<1>6. \A i \in 1 .. Len(rest) :
        rest[i][1] \in Making \cup Finding \cup Placing => rest[i][2] \in Owns(plan)
  BY <1>2 DEF TodoFits
<1>7. ASSUME NEW K, NEW x, Has(todo, K, x), ~(todo[1][1] \in K /\ todo[1][2] = x) PROVE Has(rest, K, x)
  <2>1. PICK i \in 1 .. Len(todo) : todo[i][1] \in K /\ todo[i][2] = x
    BY <1>7 DEF Has
  <2>2. i # 1
    BY <1>7, <2>1
  <2>3. i - 1 \in 1 .. Len(rest) /\ (i - 1) + 1 = i
    BY <1>1, <1>2, <2>2
  <2>4. rest[i - 1] = todo[i]
    BY <1>2, <2>3
  <2> QED
    BY <2>1, <2>3, <2>4 DEF Has
<1> QED
  BY <1>p, <1>2, <1>3, <1>4, <1>5, <1>6, <1>7 DEF Remains

\* So is AfterAnswer, which also places an item that was found.
LEMMA AfterAnswerIs ==
  ASSUME NEW e, TodoFits(e.todo, e.plan), NEW accepted,
         NEW left, left = AfterAnswer(e, accepted)
  PROVE  /\ Remains(e.todo, left, e.plan)
         /\ e.todo[1][1] = "GetSceneItemId" /\ accepted => Has(left, Placing, e.todo[1][2])
<1>t. PICK todo : todo = e.todo
  OBVIOUS
<1>p. PICK plan : plan = e.plan
  OBVIOUS
<1>r. PICK rest : rest = Tail(todo)
  OBVIOUS
<1>1. TodoFits(todo, plan) /\ Remains(todo, rest, plan)
  BY <1>t, <1>p, <1>r, TailRemains
<1>2. todo \in Seq(Requests) /\ Head(todo) = todo[1] /\ Len(todo) >= 1 /\ Len(todo) \in Nat
  BY <1>1 DEF TodoFits, TodoOrdered
<1>3. CASE ~(todo[1][1] = "GetSceneItemId" /\ accepted)
  <2>1. left = rest
    BY <1>t, <1>r, <1>2, <1>3 DEF AfterAnswer
  <2> QED
    BY <1>t, <1>p, <1>1, <1>3, <2>1
<1>4. CASE todo[1][1] = "GetSceneItemId" /\ accepted
  <2>s. PICK x : x = todo[1][2]
    OBVIOUS
  <2>1. left = Front(rest) \o <<<<"SetSceneItemTransform", x>>, Last(rest)>>
    BY <1>t, <1>r, <1>2, <1>4, <2>s DEF AfterAnswer
  <2>2. /\ rest \in Seq(Requests) /\ rest # <<>> /\ TodoOrdered(rest) /\ rest[1][1] # "CreateScene"
        /\ \A i \in 1 .. Len(rest) :
             rest[i][1] \in Making \cup Finding \cup Placing => rest[i][2] \in Owns(plan)
        /\ \A K, y : Has(todo, K, y) /\ ~(todo[1][1] \in K /\ todo[1][2] = y) => Has(rest, K, y)
    BY <1>1, <1>4 DEF Remains
  <2>m. PICK m \in Nat : m = Len(rest) /\ m >= 1
    BY <2>2
  <2>3. x \in Owns(plan) /\ x \in Sources \cup {NoSituation}
    <3>1. 1 \in 1 .. Len(todo) /\ todo[1] \in Requests
      BY <1>2
    <3> QED
      BY <1>1, <1>4, <2>s, <3>1 DEF TodoFits, Finding, Requests
  <2>f. PICK front : front = Front(rest)
    OBVIOUS
  <2>w. PICK two : two = <<<<"SetSceneItemTransform", x>>, rest[m]>>
    OBVIOUS
  <2>4. /\ front \in Seq(Requests) /\ Len(front) = m - 1
        /\ \A i \in 1 .. m - 1 : front[i] = rest[i]
    BY <2>2, <2>m, <2>f DEF Front
  <2>5. /\ two \in Seq(Requests) /\ Len(two) = 2 /\ two[1] = <<"SetSceneItemTransform", x>>
        /\ two[2] = rest[m]
    <3>1. <<"SetSceneItemTransform", x>> \in Requests
      BY <2>3 DEF Requests, Kinds
    <3>2. rest[m] \in Requests
      BY <2>2, <2>m
    <3> QED
      BY <2>w, <3>1, <3>2
  <2>6. Joined(front, two, left)
    <3>1. left = front \o two
      BY <2>1, <2>f, <2>w, <2>m DEF Last
    <3> QED
      BY <2>4, <2>5, <3>1, JoinedAre
  <2>7. /\ left \in Seq(Requests) /\ Len(left) = m + 1
        /\ \A i \in 1 .. m - 1 : left[i] = rest[i]
        /\ left[m] = <<"SetSceneItemTransform", x>> /\ left[m + 1] = rest[m]
    <3>1. /\ left \in Seq(Requests) /\ Len(left) = (m - 1) + 2
          /\ \A i \in 1 .. m - 1 : left[i] = front[i]
          /\ \A i \in 1 .. 2 : left[(m - 1) + i] = two[i]
      BY <2>4, <2>5, <2>6 DEF Joined
    <3>2. 1 \in 1 .. 2 /\ 2 \in 1 .. 2 /\ (m - 1) + 1 = m /\ (m - 1) + 2 = m + 1
      OBVIOUS
    <3>3. left[m] = two[1] /\ left[m + 1] = two[2]
      BY <3>1, <3>2
    <3> QED
      BY <2>4, <2>5, <3>1, <3>2, <3>3
  <2>8. left[m][1] = "SetSceneItemTransform" /\ left[m][2] = x
    BY <2>7
  <2>9. /\ \A i \in 1 .. m : Rank(rest[i][1]) >= 2 /\ rest[i][1] # "CreateScene"
        /\ \A i \in 1 .. m - 1 : rest[i][1] # "SetCurrentProgramScene" /\ Rank(rest[i][1]) <= 3
        /\ rest[m][1] = "SetCurrentProgramScene"
    <3>1. ASSUME NEW i \in 1 .. m PROVE Rank(rest[i][1]) >= 2 /\ rest[i][1] # "CreateScene"
      <4>1. Len(rest) = Len(todo) - 1 /\ rest[i] = todo[i + 1] /\ i + 1 \in 1 .. Len(todo) /\ 1 < i + 1
        BY <1>r, <1>2, <2>m
      <4>2. 1 \in 1 .. Len(todo)
        BY <1>2
      <4>3. Rank(todo[1][1]) <= Rank(todo[i + 1][1]) /\ todo[i + 1][1] # "CreateScene"
        BY <1>1, <4>1, <4>2 DEF TodoFits, TodoOrdered
      <4>4. Rank("GetSceneItemId") = 2
        BY DEF Rank
      <4>5. Rank(todo[i + 1][1]) \in 0 .. 4
        BY DEF Rank
      <4> QED
        BY <1>4, <4>1, <4>3, <4>4, <4>5
    <3>2. ASSUME NEW i \in 1 .. m - 1
          PROVE  rest[i][1] # "SetCurrentProgramScene" /\ Rank(rest[i][1]) <= 3
      <4>1. i \in 1 .. Len(rest) /\ m \in 1 .. Len(rest) /\ i < m
        BY <2>m
      <4>2. rest[i][1] # "SetCurrentProgramScene" /\ rest[i] \in Requests
        BY <2>2, <4>1 DEF TodoOrdered
      <4> QED
        BY <4>2 DEF Rank, Requests, Kinds
    <3>3. rest[m][1] = "SetCurrentProgramScene"
      BY <2>2, <2>m DEF TodoOrdered
    <3> QED
      BY <3>1, <3>2, <3>3
  <2>10. Rank("SetSceneItemTransform") = 3 /\ Rank("SetCurrentProgramScene") = 4
    BY DEF Rank
  <2>11. \A i \in 1 .. m + 1 : i \in 1 .. m - 1 \/ i = m \/ i = m + 1
    OBVIOUS
  <2>12. TodoOrdered(left)
    <3>1. left # <<>> /\ left[Len(left)][1] = "SetCurrentProgramScene"
      BY <2>7, <2>9
    <3>2. ASSUME NEW i \in 1 .. Len(left), NEW j \in 1 .. Len(left), i < j
          PROVE  /\ Rank(left[i][1]) <= Rank(left[j][1])
                 /\ left[i][1] # "SetCurrentProgramScene" /\ left[j][1] # "CreateScene"
      <4>0. i \in 1 .. m + 1 /\ j \in 1 .. m + 1
        BY <2>7
      <4>1. CASE i \in 1 .. m - 1 /\ j \in 1 .. m - 1
        <5>1. i \in 1 .. Len(rest) /\ j \in 1 .. Len(rest)
          BY <2>m, <4>1
        <5> QED
          BY <2>2, <2>7, <3>2, <4>1, <5>1 DEF TodoOrdered
      <4>2. CASE i \in 1 .. m - 1 /\ j = m
        BY <2>7, <2>8, <2>9, <2>10, <4>2
      <4>3. CASE i \in 1 .. m - 1 /\ j = m + 1
        <5>1. Rank(rest[i][1]) <= 3 /\ Rank(rest[i][1]) \in 0 .. 4
          BY <2>9, <4>3 DEF Rank
        <5> QED
          BY <2>7, <2>9, <2>10, <4>3, <5>1
      <4>4. CASE i = m /\ j = m + 1
        BY <2>7, <2>8, <2>9, <2>10, <4>4
      <4>5. ~(i = m /\ j \in 1 .. m - 1) /\ ~(i = m + 1)  /\ ~(i = m /\ j = m)
        BY <3>2, <4>0
      <4> QED
        BY <2>11, <4>0, <4>1, <4>2, <4>3, <4>4, <4>5
    <3> QED
      BY <3>1, <3>2 DEF TodoOrdered
  <2>13. left[1][1] # "CreateScene"
    <3>1. 1 \in 1 .. m - 1 \/ 1 = m
      BY <2>m
    <3>2. 1 \in 1 .. m
      BY <2>m
    <3> QED
      BY <2>7, <2>8, <2>9, <3>1, <3>2
  <2>14. \A i \in 1 .. Len(left) :
           left[i][1] \in Making \cup Finding \cup Placing => left[i][2] \in Owns(plan)
    <3> TAKE i \in 1 .. Len(left)
    <3>1. CASE i \in 1 .. m - 1
      <4>1. i \in 1 .. Len(rest) /\ left[i] = rest[i]
        BY <2>m, <2>7, <3>1
      <4> QED
        BY <2>2, <4>1
    <3>2. CASE i = m
      BY <2>3, <2>8, <3>2
    <3>3. CASE i = m + 1
      BY <2>7, <2>9, <3>3 DEF Making, Finding, Placing
    <3> QED
      BY <2>7, <2>11, <3>1, <3>2, <3>3
  <2>15. ASSUME NEW K, NEW y, Has(todo, K, y), ~(todo[1][1] \in K /\ todo[1][2] = y) PROVE Has(left, K, y)
    <3>1. Has(rest, K, y)
      BY <2>2, <2>15
    <3>2. PICK i \in 1 .. m : rest[i][1] \in K /\ rest[i][2] = y
      BY <2>m, <3>1 DEF Has
    <3>3. CASE i = m
      <4>1. m + 1 \in 1 .. Len(left) /\ left[m + 1] = rest[m]
        BY <2>7
      <4> QED
        BY <3>2, <3>3, <4>1 DEF Has
    <3>4. CASE i # m
      <4>1. i \in 1 .. m - 1 /\ i \in 1 .. Len(left)
        BY <2>7, <3>4
      <4> QED
        BY <2>7, <3>2, <4>1 DEF Has
    <3> QED
      BY <3>3, <3>4
  <2>16. left # <<>> /\ todo[1][1] # "SetCurrentProgramScene"
    BY <1>4, <2>7, <2>12 DEF TodoOrdered
  <2>17. Remains(todo, left, plan)
    BY <2>7, <2>12, <2>13, <2>14, <2>15, <2>16 DEF Remains
  <2>18. Has(left, Placing, x)
    <3>1. m \in 1 .. Len(left)
      BY <2>7, <2>m
    <3> QED
      BY <2>8, <3>1 DEF Has, Placing
  <2> QED
    BY <1>t, <1>p, <2>s, <2>17, <2>18
<1> QED
  BY <1>3, <1>4

\* A handler that goes on as before, has the field to itself no more, or asks OBS nothing.
Calmer(new, old) ==
  /\ new \in PushType
  /\ \/ new = old \/ new = [old EXCEPT !.alone = FALSE]
     \/ ~OnObs(new) /\ ~new.alone

\* Such a handler fits as before.
LEMMA CalmerIs ==
  ASSUME NEW new, NEW old \in PushType, Calmer(new, old), NEW mix, PushFits(old, mix)
  PROVE  /\ PushFits(new, mix)
         /\ OnObs(new) => OnObs(old)
         /\ new.alone => new = old
<1>1. CASE new = old
  BY <1>1
<1>2. CASE new = [old EXCEPT !.alone = FALSE]
  <2>1. /\ new \in PushType /\ new.at = old.at /\ new.plan = old.plan /\ new.scene = old.scene
        /\ new.todo = old.todo /\ new.alone = FALSE
    BY <1>2 DEF Calmer, PushType
  <2> QED
    BY <2>1 DEF PushFits, OnObs
<1>3. CASE ~OnObs(new) /\ ~new.alone
  BY <1>3 DEF Calmer, PushFits, OnObs
<1> QED
  BY <1>1, <1>2, <1>3 DEF Calmer

\* While handlers only become calmer, the invariant is kept.
LEMMA CalmKeeps ==
  ASSUME ObsInv, pushes' \in [Pushes -> PushType], \A q \in Pushes : Calmer(pushes'[q], pushes[q]),
         situation' \in ObsSituations, BridgeFits(bridge', sockets'), mixed' = mixed,
         shown' \in {shown, NoSituation},
         \/ obs' = obs
         \/ Holds(obs', mixed) /\ shown' = NoSituation /\ \A q \in Pushes : ~pushes'[q].alone
  PROVE  ObsInv'
<1>1. /\ mixed \in BOOLEAN /\ shown \in Scenes /\ pushes \in [Pushes -> PushType]
      /\ AloneIsAlone(pushes) /\ Holds(obs, mixed)
      /\ \A p \in Pushes : pushes[p] \in PushType /\ PushFits(pushes[p], mixed) /\ Progress(pushes[p], obs, mixed)
  BY DEF ObsInv
<1>2. \A q \in Pushes : /\ PushFits(pushes'[q], mixed)
                        /\ OnObs(pushes'[q]) => OnObs(pushes[q])
                        /\ pushes'[q].alone => pushes'[q] = pushes[q]
  BY <1>1, CalmerIs
<1>3. AloneIsAlone(pushes')
  BY <1>1, <1>2 DEF AloneIsAlone
<1>4. \A q \in Pushes : Progress(pushes'[q], obs', mixed)
  <2> TAKE q \in Pushes
  <2>1. CASE ~pushes'[q].alone
    BY <2>1 DEF Progress
  <2>2. CASE pushes'[q].alone
    <3>1. obs' = obs /\ pushes'[q] = pushes[q]
      BY <1>2, <2>2
    <3> QED
      BY <1>1, <3>1
  <2> QED
    BY <2>1, <2>2
<1>5. Holds(obs', mixed)
  BY <1>1
<1>6. shown' # NoSituation =>
        /\ \A p \in Pushes : ~OnObs(pushes'[p])
        /\ ~mixed => Shows(obs', shown')
  <2> SUFFICES ASSUME shown' # NoSituation
               PROVE  /\ \A p \in Pushes : ~OnObs(pushes'[p])
                      /\ ~mixed => Shows(obs', shown')
    OBVIOUS
  <2>1. shown' = shown /\ obs' = obs
    OBVIOUS
  <2> QED
    BY <1>2, <2>1 DEF ObsInv
<1>7. shown' \in Scenes
  BY <1>1 DEF Scenes
<1> QED
  BY <1>1, <1>2, <1>3, <1>4, <1>5, <1>6, <1>7 DEF ObsInv

\* A step on one handler; the others are as they were.
LEMMA OneKeeps ==
  ASSUME ObsInv, NEW p \in Pushes, NEW e \in PushType, pushes' = [pushes EXCEPT ![p] = e],
         ~OnObs(e), ~e.alone,
         situation' \in ObsSituations, BridgeFits(bridge', sockets'), mixed' = mixed,
         shown' \in {shown, NoSituation}, obs' = obs
  PROVE  ObsInv'
<1>1. pushes \in [Pushes -> PushType]
  BY DEF ObsInv
<1>2. pushes' \in [Pushes -> PushType] /\ pushes'[p] = e /\ \A q \in Pushes : q # p => pushes'[q] = pushes[q]
  BY <1>1
<1>3. \A q \in Pushes : Calmer(pushes'[q], pushes[q])
  BY <1>1, <1>2 DEF Calmer
<1> QED
  BY <1>2, <1>3, CalmKeeps

\* So it is while no handler moves.
LEMMA NothingAsked ==
  ASSUME ObsInv, pushes' = pushes,
         situation' \in ObsSituations, BridgeFits(bridge', sockets'), mixed' = mixed,
         shown' = shown, obs' = obs
  PROVE  ObsInv'
<1>1. pushes \in [Pushes -> PushType] /\ \A q \in Pushes : Calmer(pushes[q], pushes[q])
  BY DEF ObsInv, Calmer
<1> QED
  BY <1>1, CalmKeeps

\* A handler that begins does not have the field to itself.
LEMMA NewPushIs ==
  ASSUME NEW kind \in {"none", "connect", "tick", "switch"},
         NEW at \in {"done", "connect", "devices", "canvas", "lists", "requests"}, NEW on \in Nat
  PROVE  /\ NewPush(kind, at, on) \in PushType /\ NewPush(kind, at, on).at = at
         /\ NewPush(kind, at, on).alone = FALSE
<1>1. <<>> \in Seq(Requests) /\ NoSituation \in Scenes
  BY DEF Scenes
<1> QED
  BY <1>1 DEF NewPush, PushType

\* A free place asks nothing.
LEMMA DoneIs == Done \in PushType /\ Done.at = "done" /\ ~OnObs(Done) /\ ~Done.alone
<1>1. Done \in PushType /\ Done.at = "done" /\ Done.alone = FALSE
  BY NewPushIs DEF Done
<1> QED
  BY <1>1 DEF OnObs

\* The state of one socket changes.
LEMMA SocketChanges ==
  ASSUME NEW b, NEW conns, BridgeFits(b, conns), NEW i,
         NEW st \in {"connecting", "identified", "closed"}
  PROVE  BridgeFits(b, [conns EXCEPT ![i] = st])
<1>1. PICK n \in Nat : conns \in [1 .. n -> {"connecting", "identified", "closed"}]
  BY DEF BridgeFits
<1>2. [conns EXCEPT ![i] = st] \in [1 .. n -> {"connecting", "identified", "closed"}]
  BY <1>1
<1>3. [conns EXCEPT ![i] = st] \in Seq({"connecting", "identified", "closed"})
  BY <1>2, ListOf
<1> QED
  BY <1>3 DEF BridgeFits

\* A handler that throws frees its place; connectObs closes the bridge of now.
LEMMA FailDoes ==
  ASSUME NEW p \in Pushes, NEW list \in [Pushes -> PushType], NEW conns,
         BridgeFits(bridge, conns), Fail(p, list, conns)
  PROVE  /\ pushes' = [list EXCEPT ![p] = Done] /\ BridgeFits(bridge', sockets')
         /\ pushes' \in [Pushes -> PushType] /\ pushes'[p] = Done
         /\ \A q \in Pushes : q # p => pushes'[q] = list[q]
<1>1. pushes' = [list EXCEPT ![p] = Done]
  BY DEF Fail
<1>2. pushes' \in [Pushes -> PushType] /\ pushes'[p] = Done /\ \A q \in Pushes : q # p => pushes'[q] = list[q]
  BY <1>1, DoneIs
<1>3. BridgeFits(bridge', sockets')
  <2>1. CASE list[p].kind = "connect"
    <3>1. bridge' = 0 /\ (sockets' = conns \/ sockets' = [conns EXCEPT ![bridge] = "closed"])
      BY <2>1 DEF Fail
    <3>2. BridgeFits(bridge, [conns EXCEPT ![bridge] = "closed"])
      BY SocketChanges
    <3> QED
      BY <3>1, <3>2 DEF BridgeFits
  <2>2. CASE list[p].kind # "connect"
    BY <2>2 DEF Fail
  <2> QED
    BY <2>1, <2>2
<1> QED
  BY <1>1, <1>2, <1>3

\* Whatever connection it closes, the invariant is kept.
LEMMA FailKeeps ==
  ASSUME ObsInv, NEW p \in Pushes, NEW list \in [Pushes -> PushType], NEW conns,
         BridgeFits(bridge, conns), Fail(p, list, conns),
         \A q \in Pushes : q # p => Calmer(list[q], pushes[q]),
         situation' = situation, mixed' = mixed, shown' = shown, obs' = obs
  PROVE  ObsInv'
<1>1. /\ pushes' \in [Pushes -> PushType] /\ pushes'[p] = Done /\ BridgeFits(bridge', sockets')
      /\ \A q \in Pushes : q # p => pushes'[q] = list[q]
  BY FailDoes
<1>2. \A q \in Pushes : Calmer(pushes'[q], pushes[q])
  BY <1>1, DoneIs DEF Calmer
<1>3. situation \in ObsSituations
  BY DEF ObsInv
<1> QED
  BY <1>1, <1>2, <1>3, CalmKeeps

\* A handler that has asked for the canvas.
AsksCanvas(e, on, s, b, x) ==
  x = [[[[e EXCEPT !.at = "canvas"] EXCEPT !.on = on] EXCEPT !.scene = s] EXCEPT !.alone = b]

\* Such a handler awaits the canvas.
LEMMA StartedIs ==
  ASSUME NEW e \in PushType, NEW on \in Nat, NEW s \in Scenes, NEW b \in BOOLEAN,
         NEW x, AsksCanvas(e, on, s, b, x)
  PROVE  x \in PushType /\ x.at = "canvas" /\ x.alone = b
<1>1. PICK e1 : e1 = [e EXCEPT !.at = "canvas"]
  OBVIOUS
<1>2. e1 \in PushType /\ e1.at = "canvas"
  BY <1>1 DEF PushType
<1>3. PICK e2 : e2 = [e1 EXCEPT !.on = on]
  OBVIOUS
<1>4. e2 \in PushType /\ e2.at = "canvas"
  BY <1>2, <1>3 DEF PushType
<1>5. PICK e3 : e3 = [e2 EXCEPT !.scene = s]
  OBVIOUS
<1>6. e3 \in PushType /\ e3.at = "canvas"
  BY <1>4, <1>5 DEF PushType
<1>7. x = [e3 EXCEPT !.alone = b]
  BY <1>1, <1>3, <1>5 DEF AsksCanvas
<1> QED
  BY <1>6, <1>7 DEF PushType

\* Nothing to ask OBS leaves the handlers with the field to themselves as they are.
LEMMA StartPushKeeps ==
  ASSUME ObsInv, NEW p \in Pushes, NEW list \in [Pushes -> PushType], NEW conns,
         BridgeFits(bridge, conns), StartPush(p, list, conns), ~OnObs(pushes[p]),
         \A q \in Pushes : q # p => Calmer(list[q], pushes[q]),
         situation' = situation, mixed' = mixed, obs' = obs
  PROVE  ObsInv'
<1>0. situation \in ObsSituations /\ bridge \in Nat
  BY DEF ObsInv, BridgeFits
<1>1. CASE ~(bridge # 0 /\ conns[bridge] = "identified")
  <2>1. Fail(p, list, conns) /\ shown' = shown
    BY <1>1 DEF StartPush
  <2> QED
    BY <2>1, FailKeeps
<1>2. CASE bridge # 0 /\ conns[bridge] = "identified"
  <2>l. PICK others : others = IF Pushing = {} THEN list ELSE Crowded(list)
    OBVIOUS
  <2>b. PICK b \in BOOLEAN : b = (Pushing = {})
    OBVIOUS
  <2>1. /\ pushes' = [others EXCEPT ![p].at = "canvas", ![p].on = bridge, ![p].scene = situation,
                                    ![p].alone = b]
        /\ bridge' = bridge /\ sockets' = conns /\ shown' = NoSituation
    BY <1>2, <2>l, <2>b DEF StartPush
  <2>2. /\ others \in [Pushes -> PushType]
        /\ \A q \in Pushes : (others[q] = list[q] /\ b) \/ (others[q] = [list[q] EXCEPT !.alone = FALSE] /\ ~b)
    <3>1. CASE Pushing = {}
      <4>1. others = list
        BY <2>l, <3>1, Zenon
      <4>2. b
        BY <2>b, <3>1, Zenon
      <4> QED
        BY <4>1, <4>2, Zenon
    <3>2. CASE Pushing # {}
      <4>1. others = [q \in Pushes |-> [list[q] EXCEPT !.alone = FALSE]] /\ ~b
        BY <2>l, <2>b, <3>2 DEF Crowded
      <4>2. \A q \in Pushes : [list[q] EXCEPT !.alone = FALSE] \in PushType
        BY DEF PushType
      <4> QED
        BY <4>1, <4>2
    <3> QED
      BY <3>1, <3>2
  <2>e. PICK e \in PushType : e = others[p]
    BY <2>2
  <2>x. PICK x : x = [e EXCEPT !.at = "canvas", !.on = bridge, !.scene = situation, !.alone = b]
    OBVIOUS
  <2>3. x \in PushType /\ x.at = "canvas" /\ x.alone = b
    <3>1. situation \in Scenes
      BY <1>0 DEF Scenes
    <3>2. AsksCanvas(e, bridge, situation, b, x)
      BY <2>x DEF AsksCanvas
    <3> QED
      <4>1. e \in PushType /\ bridge \in Nat /\ situation \in Scenes /\ b \in BOOLEAN
        BY <1>0, <2>e, <2>b, <3>1
      <4> QED
        BY <3>2, <4>1, StartedIs, ZenonT(60)
  <2>4. pushes' = [others EXCEPT ![p] = x]
    BY <2>1, <2>2, <2>e, <2>x
  <2>5. /\ pushes' \in [Pushes -> PushType] /\ pushes'[p] = x
        /\ \A q \in Pushes : q # p => pushes'[q] = others[q]
    BY <2>2, <2>3, <2>4
  <2>6. \A q \in Pushes : pushes[q] \in PushType /\ PushFits(pushes[q], mixed) /\ Progress(pushes[q], obs, mixed)
    BY DEF ObsInv
  <2>7. ASSUME NEW q \in Pushes, q # p
        PROVE  /\ PushFits(pushes'[q], mixed)
               /\ OnObs(pushes'[q]) => OnObs(pushes[q])
               /\ pushes'[q].alone => b /\ pushes'[q] = pushes[q]
    <3>1. Calmer(list[q], pushes[q]) /\ list[q] \in PushType
      BY <2>7
    <3>2. /\ PushFits(list[q], mixed) /\ (OnObs(list[q]) => OnObs(pushes[q]))
          /\ (list[q].alone => list[q] = pushes[q])
      BY <2>6, <3>1, CalmerIs
    <3>3. CASE b /\ others[q] = list[q]
      BY <2>5, <2>7, <3>2, <3>3
    <3>4. CASE ~b /\ others[q] = [list[q] EXCEPT !.alone = FALSE]
      <4>1. Calmer(others[q], list[q])
        BY <2>2, <3>4 DEF Calmer
      <4>2. PushFits(others[q], mixed) /\ (OnObs(others[q]) => OnObs(list[q]))
        BY <3>1, <3>2, <4>1, CalmerIs
      <4>3. others[q].alone = FALSE
        BY <3>1, <3>4 DEF PushType
      <4> QED
        BY <2>5, <2>7, <3>2, <4>2, <4>3
    <3> QED
      BY <2>2, <3>3, <3>4
  <2>8. b => \A q \in Pushes : ~OnObs(pushes[q])
    BY <2>b DEF Pushing, OnObs
  <2>9. PushFits(x, mixed) /\ OnObs(x)
    BY <2>3 DEF PushFits, OnObs
  <2>10. \A q \in Pushes : pushes'[q].alone => q = p
    <3> SUFFICES ASSUME NEW q \in Pushes, q # p, pushes'[q].alone PROVE FALSE
      OBVIOUS
    <3>1. b /\ pushes[q].alone /\ PushFits(pushes[q], mixed)
      BY <2>6, <2>7
    <3> QED
      BY <2>8, <3>1 DEF PushFits
  <2>11. AloneIsAlone(pushes')
    <3> SUFFICES ASSUME NEW r \in Pushes, NEW q \in Pushes, pushes'[r].alone, OnObs(pushes'[q]), q # r
                 PROVE  FALSE
      BY DEF AloneIsAlone
    <3>1. r = p /\ b
      BY <2>3, <2>5, <2>10
    <3> QED
      BY <2>7, <2>8, <3>1
  <2>12. \A q \in Pushes : Progress(pushes'[q], obs, mixed)
    BY <2>3, <2>5, <2>10 DEF Progress
  <2>13. \A q \in Pushes : PushFits(pushes'[q], mixed)
    BY <2>5, <2>7, <2>9
  <2>14. Holds(obs, mixed) /\ mixed \in BOOLEAN /\ NoSituation \in Scenes
    BY DEF ObsInv, Scenes
  <2> QED
    BY <1>0, <2>1, <2>5, <2>11, <2>12, <2>13, <2>14 DEF ObsInv
<1> QED
  BY <1>1, <1>2
\* A handler begins in a place that is free.
LEMMA FreePlace ==
  ASSUME Idle # {}
  PROVE  Min(Idle) \in Pushes /\ pushes[Min(Idle)].at = "done" /\ ~OnObs(pushes[Min(Idle)])
<1>1. Idle \subseteq Nat
  BY ObsAssumption DEF Idle, Pushes
<1>2. Min(Idle) \in Idle
  <2>1. \E x \in Idle : \A y \in Idle : x <= y
    BY <1>1, LeastNatural
  <2> QED
    BY <2>1 DEF Min
<1> QED
  BY <1>2 DEF Idle, OnObs

\* The parts of the invariant the actions need most.
LEMMA InvGives ==
  ASSUME ObsInv
  PROVE  /\ situation \in ObsSituations /\ mixed \in BOOLEAN /\ shown \in Scenes
         /\ BridgeFits(bridge, sockets) /\ bridge \in Nat
         /\ pushes \in [Pushes -> PushType]
         /\ \A q \in Pushes : pushes[q] \in PushType /\ Calmer(pushes[q], pushes[q])
         /\ \A q \in Pushes : PushFits(pushes[q], mixed) /\ Progress(pushes[q], obs, mixed)
BY DEF ObsInv, BridgeFits, Calmer

\* A handler that begins asks OBS nothing yet.
LEMMA PushBeginDoes ==
  ASSUME NEW list \in [Pushes -> PushType], Idle # {}, NEW e \in PushType
  PROVE  /\ Begin(list, e) = [list EXCEPT ![Min(Idle)] = e]
         /\ Begin(list, e) \in [Pushes -> PushType] /\ Begin(list, e)[Min(Idle)] = e
         /\ \A q \in Pushes : q # Min(Idle) => Begin(list, e)[q] = list[q]
BY FreePlace DEF Begin

\* btnConnectObs.
LEMMA ConnectKeeps ==
  ASSUME ObsInv, ConnectObs
  PROVE  ObsInv'
<1>1. PICK closed : closed = IF bridge = 0 THEN sockets ELSE [sockets EXCEPT ![bridge] = "closed"]
  OBVIOUS
<1>2. /\ Idle # {} /\ sockets' = Append(closed, "connecting") /\ bridge' = Len(sockets) + 1
      /\ pushes' = Begin(pushes, NewPush("connect", "connect", Len(sockets) + 1))
      /\ situation' = situation /\ mixed' = mixed /\ shown' = shown /\ obs' = obs
  BY <1>1 DEF ConnectObs
<1>3. BridgeFits(bridge', sockets') /\ Len(sockets) + 1 \in Nat
  <2>1. BridgeFits(bridge, closed)
    BY <1>1, InvGives, SocketChanges
  <2>2. Len(sockets) + 1 \in Nat
    BY InvGives DEF BridgeFits
  <2> QED
    BY <1>2, <2>1, <2>2 DEF BridgeFits
<1>n. PICK n \in Nat : n = Len(sockets) + 1
  BY <1>3
<1>4. PICK e \in PushType : /\ e = NewPush("connect", "connect", Len(sockets) + 1)
                            /\ ~OnObs(e) /\ ~e.alone
  <2>1. NewPush("connect", "connect", n) \in PushType /\ NewPush("connect", "connect", n).at = "connect"
        /\ NewPush("connect", "connect", n).alone = FALSE
    <3>1. n \in Nat
      BY <1>n
    <3> QED
      BY <3>1, NewPushIs
  <2> QED
    BY <1>n, <2>1 DEF OnObs
<1>5. pushes' = [pushes EXCEPT ![Min(Idle)] = e]
  BY <1>2, <1>4, InvGives, PushBeginDoes
<1> QED
  BY <1>2, <1>3, <1>4, <1>5, InvGives, FreePlace, OneKeeps

\* The socket is identified.
LEMMA ConnectedKeeps ==
  ASSUME ObsInv, NEW p \in Pushes, Connected(p)
  PROVE  ObsInv'
<1>1. PICK conns : conns = [sockets EXCEPT ![pushes[p].on] = "identified"]
  OBVIOUS
<1>2. /\ StartPush(p, pushes, conns) /\ ~OnObs(pushes[p])
      /\ situation' = situation /\ mixed' = mixed /\ obs' = obs
  BY <1>1 DEF Connected, OnObs
<1>3. BridgeFits(bridge, conns)
  BY <1>1, InvGives, SocketChanges
<1> QED
  BY <1>2, <1>3, InvGives, StartPushKeeps

\* The socket is not to be had.
LEMMA ConnectFailsKeeps ==
  ASSUME ObsInv, NEW p \in Pushes, ConnectFails(p)
  PROVE  ObsInv'
<1>1. PICK conns : conns = [sockets EXCEPT ![pushes[p].on] = "closed"]
  OBVIOUS
<1>2. /\ Fail(p, pushes, conns)
      /\ situation' = situation /\ mixed' = mixed /\ shown' = shown /\ obs' = obs
  BY <1>1 DEF ConnectFails
<1>3. BridgeFits(bridge, conns)
  BY <1>1, InvGives, SocketChanges
<1> QED
  BY <1>2, <1>3, InvGives, FailKeeps

\* A connection is lost.
LEMMA LostKeeps ==
  ASSUME ObsInv, NEW b, ConnectionLost(b)
  PROVE  ObsInv'
<1>1. BridgeFits(bridge', sockets')
  BY InvGives, SocketChanges DEF ConnectionLost
<1> QED
  BY <1>1, InvGives, NothingAsked DEF ConnectionLost

\* chkObsAutoScene.
LEMMA TickKeeps ==
  ASSUME ObsInv, TickAutoScene
  PROVE  ObsInv'
<1>1. situation' = situation /\ mixed' = mixed /\ obs' = obs
  BY DEF TickAutoScene
<1>2. CASE ~autoScene /\ bridge # 0 /\ sockets[bridge] = "identified"
  <2>e. PICK e \in PushType : e = NewPush("tick", "canvas", 0)
    BY NewPushIs
  <2>1. Idle # {} /\ StartPush(Min(Idle), Begin(pushes, e), sockets)
    BY <1>2, <2>e DEF TickAutoScene
  <2>l. PICK list : list = Begin(pushes, e)
    OBVIOUS
  <2>2. /\ list \in [Pushes -> PushType]
        /\ \A q \in Pushes : q # Min(Idle) => Calmer(list[q], pushes[q])
    BY <2>e, <2>l, <2>1, InvGives, PushBeginDoes
  <2> QED
    BY <1>1, <2>1, <2>l, <2>2, InvGives, FreePlace, StartPushKeeps
<1>3. CASE ~(~autoScene /\ bridge # 0 /\ sockets[bridge] = "identified")
  <2>1. bridge' = bridge /\ sockets' = sockets /\ pushes' = pushes /\ shown' = shown
    BY <1>3 DEF TickAutoScene
  <2> QED
    BY <1>1, <2>1, InvGives, NothingAsked
<1> QED
  BY <1>2, <1>3

\* selSituation: whoever was alone is so no more.
LEMMA SwitchKeeps ==
  ASSUME ObsInv, NEW s \in ObsSituations, Switch(s)
  PROVE  ObsInv'
<1>1. /\ Idle # {} /\ situation' = s /\ mixed' = mixed /\ obs' = obs /\ shown' = shown
      /\ bridge' = bridge /\ sockets' = sockets
      /\ pushes' = Begin(Crowded(pushes), NewPush("switch", "devices", 0))
  BY DEF Switch
<1>e. PICK e \in PushType : e = NewPush("switch", "devices", 0) /\ ~OnObs(e) /\ ~e.alone
  BY NewPushIs, ZenonT(40) DEF OnObs
<1>l. PICK list : list = Crowded(pushes)
  OBVIOUS
<1>2. /\ list \in [Pushes -> PushType]
      /\ \A q \in Pushes : list[q] = [pushes[q] EXCEPT !.alone = FALSE]
  <2>1. \A q \in Pushes : [pushes[q] EXCEPT !.alone = FALSE] \in PushType
    BY InvGives DEF PushType
  <2> QED
    BY <1>l, <2>1 DEF Crowded
<1>3. /\ pushes' \in [Pushes -> PushType] /\ pushes'[Min(Idle)] = e
      /\ \A q \in Pushes : q # Min(Idle) => pushes'[q] = list[q]
  BY <1>1, <1>e, <1>l, <1>2, PushBeginDoes
<1>4. \A q \in Pushes : Calmer(pushes'[q], pushes[q])
  BY <1>e, <1>2, <1>3 DEF Calmer
<1> QED
  BY <1>1, <1>3, <1>4, InvGives, CalmKeeps

\* The devices have been switched, and OBS comes next ...
LEMMA DevicesSwitchedKeeps ==
  ASSUME ObsInv, NEW p \in Pushes, DevicesSwitched(p)
  PROVE  ObsInv'
<1>1. /\ situation' = situation /\ mixed' = mixed /\ obs' = obs
      /\ ~OnObs(pushes[p])
  BY DEF DevicesSwitched, OnObs
<1>2. CASE autoScene /\ bridge # 0 /\ sockets[bridge] = "identified"
  <2>1. StartPush(p, pushes, sockets)
    BY <1>2 DEF DevicesSwitched
  <2> QED
    BY <1>1, <2>1, InvGives, StartPushKeeps
<1>3. CASE ~(autoScene /\ bridge # 0 /\ sockets[bridge] = "identified")
  <2>1. /\ bridge' = bridge /\ sockets' = sockets /\ shown' = shown
        /\ pushes' = [pushes EXCEPT ![p] = Done]
    BY <1>3 DEF DevicesSwitched
  <2> QED
    BY <1>1, <2>1, InvGives, DoneIs, OneKeeps
<1> QED
  BY <1>2, <1>3

\* ... or the switch has failed.
LEMMA DevicesFailKeeps ==
  ASSUME ObsInv, NEW p \in Pushes, DevicesFail(p)
  PROVE  ObsInv'
<1>1. /\ situation' = situation /\ mixed' = mixed /\ obs' = obs /\ shown' = shown
      /\ bridge' = bridge /\ sockets' = sockets /\ pushes' = [pushes EXCEPT ![p] = Done]
  BY DEF DevicesFail
<1> QED
  BY <1>1, InvGives, DoneIs, OneKeeps

\* A call is rejected as its socket is closed.
LEMMA RejectedKeeps ==
  ASSUME ObsInv, NEW p \in Pushes, CallRejected(p)
  PROVE  ObsInv'
<1>1. /\ Fail(p, pushes, sockets)
      /\ situation' = situation /\ mixed' = mixed /\ obs' = obs /\ shown' = shown
  BY DEF CallRejected
<1> QED
  BY <1>1, InvGives, FailKeeps
\* One push goes a step; what OBS holds may change.
GoesOn(p, e) ==
  /\ OnObs(pushes[p]) /\ e \in PushType /\ pushes' = [pushes EXCEPT ![p] = e]
  /\ mixed' \in BOOLEAN /\ (mixed => mixed')
  /\ PushFits(e, mixed') /\ Progress(e, obs', mixed') /\ Holds(obs', mixed')
  /\ e.alone => pushes[p].alone
  /\ situation' \in ObsSituations /\ BridgeFits(bridge', sockets') /\ shown' \in Scenes
  /\ shown' # NoSituation => ~OnObs(e) /\ pushes[p].alone /\ (~mixed' => Shows(obs', shown'))

\* Such a step keeps the invariant: whoever else is on OBS does not count as alone.
LEMMA StepKeeps ==
  ASSUME ObsInv, NEW p \in Pushes, NEW e, GoesOn(p, e)
  PROVE  ObsInv'
<1> USE DEF GoesOn
<1>1. /\ pushes' \in [Pushes -> PushType] /\ pushes'[p] = e
      /\ \A q \in Pushes : q # p => pushes'[q] = pushes[q]
  BY InvGives
<1>2. \A q \in Pushes : q # p => ~pushes[q].alone
  BY DEF ObsInv, AloneIsAlone
<1>3. pushes[p].alone => \A q \in Pushes : q # p => ~OnObs(pushes[q])
  BY DEF ObsInv, AloneIsAlone
<1>4. AloneIsAlone(pushes')
  <2> SUFFICES ASSUME NEW r \in Pushes, NEW q \in Pushes, pushes'[r].alone, OnObs(pushes'[q]), q # r
               PROVE  FALSE
    BY DEF AloneIsAlone
  <2>1. r = p /\ pushes[p].alone
    BY <1>1, <1>2
  <2> QED
    BY <1>1, <1>3, <2>1
<1>5. \A q \in Pushes : PushFits(pushes'[q], mixed')
  <2> TAKE q \in Pushes
  <2>1. CASE q = p
    BY <1>1, <2>1
  <2>2. CASE q # p
    <3>1. PushFits(pushes[q], mixed) /\ pushes'[q] = pushes[q]
      BY <1>1, <2>2, InvGives
    <3> QED
      BY <3>1 DEF PushFits
  <2> QED
    BY <2>1, <2>2
<1>6. \A q \in Pushes : Progress(pushes'[q], obs', mixed')
  <2> TAKE q \in Pushes
  <2>1. CASE q = p
    BY <1>1, <2>1
  <2>2. CASE q # p
    BY <1>1, <1>2, <2>2 DEF Progress
  <2> QED
    BY <2>1, <2>2
<1>7. shown' # NoSituation =>
        /\ \A q \in Pushes : ~OnObs(pushes'[q])
        /\ ~mixed' => Shows(obs', shown')
  <2> SUFFICES ASSUME shown' # NoSituation
               PROVE  /\ \A q \in Pushes : ~OnObs(pushes'[q])
                      /\ ~mixed' => Shows(obs', shown')
    OBVIOUS
  <2> QED
    BY <1>1, <1>3
<1> QED
  BY <1>1, <1>4, <1>5, <1>6, <1>7 DEF ObsInv

\* While a push is on its way nothing is known to be shown.
LEMMA OnObsShowsNothing ==
  ASSUME ObsInv, NEW p \in Pushes, OnObs(pushes[p])
  PROVE  shown = NoSituation /\ NoSituation \in Scenes
BY DEF ObsInv, Scenes

\* What OBS holds has the shape it had, whether a push was mixed or not.
LEMMA HoldsStill ==
  ASSUME NEW o, NEW m \in BOOLEAN, NEW n \in BOOLEAN, m => n, Holds(o, m)
  PROVE  Holds(o, n)
BY DEF Holds

\* The canvas is there: the plan is the scene's unless the situation changed meanwhile.
LEMMA CanvasKeeps ==
  ASSUME ObsInv, NEW p \in Pushes, CanvasSettled(p)
  PROVE  ObsInv'
<1>1. /\ situation' = situation /\ shown' = shown /\ obs' = obs /\ pushes[p].at = "canvas"
  BY DEF CanvasSettled
<1>2. CASE bridge # 0 /\ sockets[bridge] = "identified"
  <2>1. /\ pushes' = [pushes EXCEPT ![p].at = "lists", ![p].on = bridge, ![p].plan = situation]
        /\ mixed' = (mixed \/ situation # pushes[p].scene)
        /\ bridge' = bridge /\ sockets' = sockets
    BY <1>2 DEF CanvasSettled
  <2>o. PICK old \in PushType : old = pushes[p]
    BY InvGives
  <2>e. PICK e : e = [[[old EXCEPT !.at = "lists"] EXCEPT !.on = bridge] EXCEPT !.plan = situation]
    OBVIOUS
  <2>2. e \in PushType /\ e.at = "lists" /\ e.plan = situation /\ e.scene = old.scene /\ e.alone = old.alone
    <3>1. PICK e1 : e1 = [old EXCEPT !.at = "lists"]
      OBVIOUS
    <3>2. e1 \in PushType /\ e1.at = "lists" /\ e1.scene = old.scene /\ e1.alone = old.alone
      BY <2>o, <3>1 DEF PushType
    <3>3. PICK e2 : e2 = [e1 EXCEPT !.on = bridge]
      OBVIOUS
    <3>4. e2 \in PushType /\ e2.at = "lists" /\ e2.scene = old.scene /\ e2.alone = old.alone
      BY <3>2, <3>3, InvGives DEF PushType
    <3>5. e = [e2 EXCEPT !.plan = situation]
      BY <2>e, <3>1, <3>3
    <3>6. situation \in Scenes
      BY InvGives DEF Scenes
    <3> QED
      BY <3>4, <3>5, <3>6 DEF PushType
  <2>3. pushes' = [pushes EXCEPT ![p] = e]
    BY <2>1, <2>o, <2>e
  <2>4. mixed' \in BOOLEAN /\ (mixed => mixed') /\ (~mixed' => situation = old.scene)
    <3>1. mixed \in BOOLEAN
      BY InvGives
    <3> QED
      BY <2>1, <2>o, <3>1
  <2>5. PushFits(e, mixed') /\ Progress(e, obs', mixed')
    <3>1. OnObs(e)
      BY <2>2 DEF OnObs
    <3> QED
      BY <2>2, <2>4, <3>1, InvGives DEF PushFits, Progress
  <2>6. Holds(obs', mixed')
    <3>1. Holds(obs, mixed)
      BY DEF ObsInv
    <3>2. Holds(obs, mixed')
      BY <2>4, <3>1, InvGives, HoldsStill
    <3> QED
      BY <1>1, <3>2
  <2>7. OnObs(pushes[p])
    BY <1>1 DEF OnObs
  <2>8. shown' = NoSituation /\ shown' \in Scenes
    BY <1>1, <2>7, OnObsShowsNothing
  <2>9. e.alone => pushes[p].alone
    BY <2>o, <2>2
  <2>10. situation' \in ObsSituations /\ BridgeFits(bridge', sockets')
    BY <1>1, <2>1, InvGives
  <2> QED
    <3>1. e \in PushType
      BY <2>2
    <3>2. mixed' \in BOOLEAN /\ (mixed => mixed')
      BY <2>4
    <3>3. shown' \in Scenes /\ shown' = NoSituation
      BY <2>8
    <3>4. GoesOn(p, e)
      BY <2>3, <2>5, <2>6, <2>7, <2>9, <2>10, <3>1, <3>2, <3>3, Zenon DEF GoesOn
    <3> QED
      BY <3>4, StepKeeps
<1>3. CASE ~(bridge # 0 /\ sockets[bridge] = "identified")
  <2>1. Fail(p, pushes, sockets) /\ mixed' = mixed
    BY <1>3 DEF CanvasSettled
  <2> QED
    BY <1>1, <2>1, InvGives, FailKeeps
<1> QED
  BY <1>2, <1>3
\* The lists arrive: every source is still to be made and to be found.
LEMMA ListsKeep ==
  ASSUME ObsInv, NEW p \in Pushes, ListsArrive(p)
  PROVE  ObsInv'
<1>o. PICK old \in PushType : old = pushes[p]
  BY InvGives
<1>t. PICK todo : todo = BuildObsSourceRequests(old.plan, old.scene, obs) \o ToAll("GetSceneItemId", old.plan)
                         \o <<<<"SetCurrentProgramScene", NoSituation>>>>
  OBVIOUS
<1>e. PICK e : e = [[old EXCEPT !.at = "requests"] EXCEPT !.todo = todo]
  OBVIOUS
<1>1. /\ situation' = situation /\ shown' = shown /\ obs' = obs /\ mixed' = mixed
      /\ bridge' = bridge /\ sockets' = sockets /\ old.at = "lists"
      /\ pushes' = [pushes EXCEPT ![p].at = "requests", ![p].todo = todo]
  BY <1>o, <1>t DEF ListsArrive
<1>2. pushes' = [pushes EXCEPT ![p] = e]
  BY <1>1, <1>o, <1>e
<1>3. /\ PushFits(old, mixed) /\ old.plan \in ObsSituations /\ (~mixed => old.plan = old.scene)
      /\ old.scene \in Scenes
  <2>1. PushFits(old, mixed) /\ old.scene \in Scenes
    BY <1>o, InvGives DEF PushType
  <2> QED
    BY <1>1, <2>1 DEF PushFits
<1>4. /\ todo \in Seq(Requests) /\ TodoOrdered(todo)
      /\ \A i \in 1 .. Len(todo) :
           todo[i][1] \in Making \cup Finding \cup Placing => todo[i][2] \in Owns(old.plan)
      /\ \A x \in Owns(old.plan) : Has(todo, Making, x) /\ Has(todo, Finding, x)
  BY <1>t, <1>3, PlanIs
<1>5. /\ e \in PushType /\ e.at = "requests" /\ e.todo = todo /\ e.plan = old.plan
      /\ e.scene = old.scene /\ e.alone = old.alone
  <2>1. PICK e1 : e1 = [old EXCEPT !.at = "requests"]
    OBVIOUS
  <2>2. /\ e1 \in PushType /\ e1.at = "requests" /\ e1.plan = old.plan /\ e1.scene = old.scene
        /\ e1.alone = old.alone
    BY <1>o, <2>1 DEF PushType
  <2>3. e = [e1 EXCEPT !.todo = todo] /\ todo \in Seq(Requests)
    BY <1>e, <1>4, <2>1
  <2> QED
    BY <2>2, <2>3 DEF PushType
<1>6. PushFits(e, mixed)
  <2>1. OnObs(e)
    BY <1>5 DEF OnObs
  <2> QED
    BY <1>3, <1>4, <1>5, <2>1 DEF PushFits
<1>7. Progress(e, obs, mixed)
  BY <1>4, <1>5 DEF Progress
<1>8. OnObs(pushes[p]) /\ (e.alone => pushes[p].alone)
  BY <1>o, <1>1, <1>5 DEF OnObs
<1>9. shown' = NoSituation /\ shown' \in Scenes
  BY <1>1, <1>8, OnObsShowsNothing
<1>10. situation' \in ObsSituations /\ BridgeFits(bridge', sockets') /\ mixed' \in BOOLEAN /\ Holds(obs', mixed')
  BY <1>1, InvGives DEF ObsInv
<1>11. GoesOn(p, e)
  <2>1. PushFits(e, mixed') /\ Progress(e, obs', mixed') /\ (mixed => mixed')
    BY <1>1, <1>6, <1>7
  <2>2. e \in PushType
    BY <1>5
  <2> QED
    BY <1>2, <1>8, <1>9, <1>10, <2>1, <2>2, Zenon DEF GoesOn
<1> QED
  BY <1>11, StepKeeps

-----------------------------------------------------------------------------
\* A push's first request.
LEMMA FirstIs ==
  ASSUME NEW e, NEW mix \in BOOLEAN, PushFits(e, mix), e.at = "requests"
  PROVE  /\ TodoFits(e.todo, e.plan) /\ Head(e.todo) = e.todo[1] /\ e.todo[1] \in Requests
         /\ e.plan \in ObsSituations /\ e.scene \in Scenes /\ (~mix => e.plan = e.scene)
         /\ e.todo[1][1] \in Kinds
         /\ e.todo[1][1] \in Making \cup Finding \cup Placing => e.todo[1][2] \in Owns(e.plan)
<1>1. e \in PushType /\ e.todo \in Seq(Requests) /\ e.scene \in Scenes /\ e.plan \in ObsSituations
  BY DEF PushFits, PushType
<1>2. TodoFits(e.todo, e.plan) /\ (~mix => e.plan = e.scene)
  BY <1>1 DEF PushFits, TodoFits
<1>3. PICK todo \in Seq(Requests) : todo = e.todo
  BY <1>1
<1>4. todo # <<>>
  BY <1>2, <1>3 DEF TodoFits, TodoOrdered
<1>5. 1 \in 1 .. Len(todo) /\ Head(todo) = todo[1] /\ todo[1] \in Requests
  BY <1>4
<1>6. todo[1][1] \in Kinds
  BY <1>5 DEF Requests
<1>7. todo[1][1] \in Making \cup Finding \cup Placing => todo[1][2] \in Owns(e.plan)
  BY <1>2, <1>3, <1>5 DEF TodoFits
<1> QED
  BY <1>1, <1>2, <1>3, <1>5, <1>6, <1>7

\* What OBS does with a request.
Grows(o, scene, r, n) ==
  /\ n \in ObsType
  /\ \A i \in n.items : i \in o.items \/ (i = <<scene, r[2]>> /\ r[1] = "CreateInput")

\* OBS takes nothing away, and does what was asked if it accepts it.
LEMMA ExecuteDoes ==
  ASSUME NEW o \in ObsType, NEW scene \in Scenes, NEW r, r[1] \in Kinds,
         r[1] \in Making \cup Finding \cup Placing => r[2] \in Sources,
         NEW n, n = Execute(o, scene, r)
  PROVE  /\ Grows(o, scene, r, n)
         /\ o.items \subseteq n.items /\ o.placed \subseteq n.placed
         /\ r[1] = "CreateScene" \/ n.scenes = o.scenes
         /\ Accepts(o, scene, r) =>
              /\ r[1] = "CreateInput" => <<scene, r[2]>> \in n.items
              /\ r[1] = "SetInputSettings" => \E i \in o.items : i[2] = r[2]
              /\ r[1] = "GetSceneItemId" => n = o
              /\ r[1] = "SetSceneItemTransform" => <<scene, r[2]>> \in n.placed
              /\ r[1] = "SetCurrentProgramScene" =>
                   scene \in o.scenes /\ n.current = scene /\ n.items = o.items /\ n.placed = o.placed
         /\ ~Accepts(o, scene, r) => n = o
         /\ ~Accepts(o, scene, r) /\ r[1] = "GetSceneItemId" => <<scene, r[2]>> \notin o.items
<1>1. CASE ~Accepts(o, scene, r)
  <2>1. n = o
    BY <1>1 DEF Execute
  <2>2. r[1] = "GetSceneItemId" => <<scene, r[2]>> \notin o.items
    BY <1>1 DEF Accepts
  <2> QED
    BY <1>1, <2>1, <2>2 DEF Grows
<1>2. CASE Accepts(o, scene, r) /\ r[1] = "CreateScene"
  <2>1. n = [o EXCEPT !.scenes = o.scenes \cup {scene}]
    BY <1>2 DEF Execute
  <2> QED
    BY <1>2, <2>1 DEF ObsType, Grows
<1>3. CASE Accepts(o, scene, r) /\ r[1] = "CreateInput"
  <2>1. n = [o EXCEPT !.items = o.items \cup {<<scene, r[2]>>}]
    BY <1>3 DEF Execute
  <2>2. <<scene, r[2]>> \in Scenes \X Sources
    BY <1>3 DEF Making
  <2> QED
    BY <1>3, <2>1, <2>2 DEF ObsType, Grows
<1>4. CASE Accepts(o, scene, r) /\ r[1] = "SetInputSettings"
  <2>1. n = o /\ \E i \in o.items : i[2] = r[2]
    BY <1>4 DEF Execute, Accepts, Inputs
  <2> QED
    BY <1>4, <2>1 DEF Grows
<1>5. CASE Accepts(o, scene, r) /\ r[1] = "GetSceneItemId"
  <2>1. n = o
    BY <1>5 DEF Execute
  <2> QED
    BY <1>5, <2>1 DEF Grows
<1>6. CASE Accepts(o, scene, r) /\ r[1] = "SetSceneItemTransform"
  <2>1. n = [o EXCEPT !.placed = o.placed \cup {<<scene, r[2]>>}]
    BY <1>6 DEF Execute
  <2>2. <<scene, r[2]>> \in Scenes \X Sources
    BY <1>6 DEF Placing
  <2> QED
    BY <1>6, <2>1, <2>2 DEF ObsType, Grows
<1>7. CASE Accepts(o, scene, r) /\ r[1] = "SetCurrentProgramScene"
  <2>1. n = [o EXCEPT !.current = scene] /\ scene \in o.scenes
    BY <1>7 DEF Execute, Accepts
  <2> QED
    BY <1>7, <2>1 DEF ObsType, Grows
<1> QED
  BY <1>1, <1>2, <1>3, <1>4, <1>5, <1>6, <1>7 DEF Kinds
\* A request of a push that fits puts no other situation's sources in a scene.
LEMMA ExecuteHolds ==
  ASSUME NEW e, NEW mix \in BOOLEAN, PushFits(e, mix), e.at = "requests",
         NEW o, Holds(o, mix), NEW n, n = Execute(o, e.scene, e.todo[1])
  PROVE  Holds(n, mix)
<1>r. PICK r : r = e.todo[1]
  OBVIOUS
<1>1. /\ r[1] \in Kinds /\ e.scene \in Scenes /\ e.plan \in ObsSituations /\ (~mix => e.plan = e.scene)
      /\ r[1] \in Making \cup Finding \cup Placing => r[2] \in Owns(e.plan)
  BY <1>r, FirstIs
<1>2. \A x \in Owns(e.plan) : x[1] = e.plan /\ x \in Sources
  BY <1>1, SourcesAre
<1>3. o \in ObsType /\ \A i \in o.items : i[2] \in Owns(i[2][1]) /\ (~mix => i[1] = i[2][1])
  BY DEF Holds
<1>4. n = Execute(o, e.scene, r)
  BY <1>r
<1>5. n \in ObsType /\ \A i \in n.items : i \in o.items \/ (i = <<e.scene, r[2]>> /\ r[1] = "CreateInput")
  <2>1. r[1] \in Making \cup Finding \cup Placing => r[2] \in Sources
    BY <1>1, <1>2
  <2> QED
    <3>1. o \in ObsType /\ e.scene \in Scenes /\ r[1] \in Kinds
      BY <1>1, <1>3
    <3>2. /\ n \in ObsType
          /\ \A i \in n.items : i \in o.items \/ (i = <<e.scene, r[2]>> /\ r[1] = "CreateInput")
      <4>1. Grows(o, e.scene, r, n)
        BY <1>4, <2>1, <3>1, ExecuteDoes
      <4> QED
        BY <4>1 DEF Grows
    <3> QED
      BY <3>2
<1>6. ASSUME NEW i \in n.items PROVE i[2] \in Owns(i[2][1]) /\ (~mix => i[1] = i[2][1])
  <2>1. CASE i \in o.items
    BY <1>3, <2>1
  <2>2. CASE i = <<e.scene, r[2]>> /\ r[1] = "CreateInput"
    <3>1. r[2] \in Owns(e.plan)
      BY <1>1, <2>2 DEF Making
    <3>2. i[1] = e.scene /\ i[2] = r[2] /\ i[2][1] = e.plan
      BY <1>2, <2>2, <3>1
    <3> QED
      BY <1>1, <3>1, <3>2
  <2> QED
    BY <1>5, <2>1, <2>2
<1> QED
  BY <1>5, <1>6 DEF Holds

\* A request that is answered as it should be, or an item that is not found, brings a push
\* that has the field to itself on.
LEMMA AnswerProgress ==
  ASSUME NEW e, NEW o, PushFits(e, FALSE), e.at = "requests", Progress(e, o, FALSE), e.alone,
         Holds(o, FALSE), NEW n, n = Execute(o, e.scene, e.todo[1]),
         NEW accepted \in BOOLEAN, accepted = Accepts(o, e.scene, e.todo[1]),
         accepted \/ e.todo[1][1] = "GetSceneItemId",
         NEW left, left = AfterAnswer(e, accepted), e.scene \in n.scenes, NEW x \in Owns(e.plan)
  PROVE  /\ Has(left, Making, x) \/ <<e.scene, x>> \in n.items
         /\ Has(left, Finding, x) \/ Has(left, Placing, x) \/ <<e.scene, x>> \in n.placed
<1>r. PICK r : r = e.todo[1]
  OBVIOUS
<1>t. PICK todo : todo = e.todo
  OBVIOUS
<1>1. /\ r[1] \in Kinds /\ e.scene \in Scenes /\ e.plan \in ObsSituations /\ e.plan = e.scene
      /\ r[1] \in Making \cup Finding \cup Placing => r[2] \in Owns(e.plan)
      /\ TodoFits(todo, e.plan) /\ todo[1] = r
  BY <1>r, <1>t, FirstIs
<1>2. \A y \in Owns(e.plan) : y[1] = e.plan /\ y \in Sources
  BY <1>1, SourcesAre
<1>3. o \in ObsType /\ \A i \in o.items : i \in Scenes \X Sources /\ i[1] = i[2][1]
  BY DEF Holds, ObsType
<1>4. /\ o.items \subseteq n.items /\ o.placed \subseteq n.placed
      /\ r[1] = "CreateScene" \/ n.scenes = o.scenes
      /\ accepted =>
           /\ r[1] = "CreateInput" => <<e.scene, r[2]>> \in n.items
           /\ r[1] = "SetInputSettings" => \E i \in o.items : i[2] = r[2]
           /\ r[1] = "SetSceneItemTransform" => <<e.scene, r[2]>> \in n.placed
      /\ ~accepted => <<e.scene, r[2]>> \notin o.items
  <2>1. r[1] \in Making \cup Finding \cup Placing => r[2] \in Sources
    BY <1>1, <1>2
  <2>2. n = Execute(o, e.scene, r) /\ (accepted <=> Accepts(o, e.scene, r))
    BY <1>r
  <2>3. ~accepted => r[1] = "GetSceneItemId"
    BY <1>r
  <2> QED
    BY <1>1, <1>3, <2>1, <2>2, <2>3, ExecuteDoes
<1>5. /\ \A K, y : Has(todo, K, y) /\ ~(r[1] \in K /\ r[2] = y) => Has(left, K, y)
      /\ r[1] = "GetSceneItemId" /\ accepted => Has(left, Placing, r[2])
  <2>1. /\ Remains(e.todo, left, e.plan)
        /\ e.todo[1][1] = "GetSceneItemId" /\ accepted => Has(left, Placing, e.todo[1][2])
    BY <1>1, <1>t, AfterAnswerIs
  <2> QED
    <3>1. Remains(todo, left, e.plan) /\ todo[1] = r
      BY <1>r, <1>t, <2>1
    <3>2. \A K, y : Has(todo, K, y) /\ ~(r[1] \in K /\ r[2] = y) => Has(left, K, y)
      BY <3>1 DEF Remains
    <3> QED
      BY <1>r, <2>1, <3>2
<1>6. CASE r[1] = "CreateScene"
  <2>1. Has(todo, Making, x) /\ Has(todo, Finding, x)
    BY <1>r, <1>t, <1>6 DEF Progress
  <2>2. r[1] \notin Making /\ r[1] \notin Finding
    BY <1>6 DEF Making, Finding
  <2> QED
    BY <1>5, <2>1, <2>2
<1>7. CASE r[1] # "CreateScene"
  <2>1. /\ Has(todo, Making, x) \/ <<e.scene, x>> \in o.items
        /\ Has(todo, Finding, x) \/ Has(todo, Placing, x) \/ <<e.scene, x>> \in o.placed
    BY <1>r, <1>t, <1>4, <1>7 DEF Progress
  <2>2. ASSUME Has(todo, Making, x) PROVE Has(left, Making, x) \/ <<e.scene, x>> \in n.items
    <3>1. CASE r[1] \in Making /\ r[2] = x
      <4>1. accepted
        BY <1>r, <3>1 DEF Making
      <4>2. CASE r[1] = "CreateInput"
        BY <1>4, <3>1, <4>1, <4>2
      <4>3. CASE r[1] = "SetInputSettings"
        <5>1. PICK i \in o.items : i[2] = x
          BY <1>4, <3>1, <4>1, <4>3
        <5>2. i = <<e.scene, x>>
          BY <1>1, <1>2, <1>3, <5>1
        <5> QED
          BY <1>4, <5>1, <5>2
      <4> QED
        BY <3>1, <4>2, <4>3 DEF Making
    <3>2. CASE ~(r[1] \in Making /\ r[2] = x)
      BY <1>5, <2>2, <3>2
    <3> QED
      BY <3>1, <3>2
  <2>3. ASSUME Has(todo, Finding, x)
        PROVE  Has(left, Finding, x) \/ Has(left, Placing, x) \/ <<e.scene, x>> \in n.placed
    <3>1. CASE r[1] \in Finding /\ r[2] = x
      <4>1. CASE accepted
        BY <1>5, <3>1, <4>1 DEF Finding
      <4>2. CASE ~accepted
        <5>1. <<e.scene, x>> \notin o.items
          BY <1>4, <3>1, <4>2
        <5>2. Has(todo, Making, x)
          BY <2>1, <5>1
        <5>3. PICK i \in 1 .. Len(todo) : todo[i][1] \in Making
          BY <5>2 DEF Has
        <5>4. r[1] = "GetSceneItemId"
          BY <3>1 DEF Finding
        <5>5. i # 1 /\ 1 \in 1 .. Len(todo) /\ 1 < i
          <6>1. todo \in Seq(Requests)
            BY <1>1 DEF TodoFits
          <6>2. i # 1
            BY <1>1, <5>3, <5>4 DEF Making
          <6> QED
            BY <6>1, <6>2
        <5>6. Rank(todo[1][1]) <= Rank(todo[i][1])
          BY <1>1, <5>5 DEF TodoFits, TodoOrdered
        <5>7. Rank("GetSceneItemId") = 2 /\ \A k \in Making : Rank(k) = 1
          BY DEF Rank, Making
        <5> QED
          BY <1>1, <5>3, <5>4, <5>6, <5>7
      <4> QED
        BY <4>1, <4>2
    <3>2. CASE ~(r[1] \in Finding /\ r[2] = x)
      BY <1>5, <2>3, <3>2
    <3> QED
      BY <3>1, <3>2
  <2>4. ASSUME Has(todo, Placing, x)
        PROVE  Has(left, Placing, x) \/ <<e.scene, x>> \in n.placed
    <3>1. CASE r[1] \in Placing /\ r[2] = x
      <4>1. accepted /\ r[1] = "SetSceneItemTransform"
        BY <1>r, <3>1 DEF Placing
      <4> QED
        BY <1>4, <3>1, <4>1
    <3>2. CASE ~(r[1] \in Placing /\ r[2] = x)
      BY <1>5, <2>4, <3>2
    <3> QED
      BY <3>1, <3>2
  <2> QED
    BY <1>4, <2>1, <2>2, <2>3, <2>4
<1> QED
  BY <1>6, <1>7
\* A push whose first request is off its list fits as before.
LEMMA LessIsLeft ==
  ASSUME NEW old, NEW mix \in BOOLEAN, PushFits(old, mix), old.at = "requests",
         NEW left, Remains(old.todo, left, old.plan), left # <<>>,
         NEW e, e \in PushType, e.at = "requests", e.todo = left, e.plan = old.plan, e.scene = old.scene
  PROVE  PushFits(e, mix)
<1>1. OnObs(e)
  BY DEF OnObs
<1>2. /\ TodoOrdered(left)
      /\ \A i \in 1 .. Len(left) :
           left[i][1] \in Making \cup Finding \cup Placing => left[i][2] \in Owns(old.plan)
  BY DEF Remains
<1> QED
  BY <1>1, <1>2 DEF PushFits

\* An answer: the push fails, goes on, or has shown its situation.
LEMMA AnsweredKeeps ==
  ASSUME ObsInv, NEW p \in Pushes, Answered(p)
  PROVE  ObsInv'
<1>o. PICK old \in PushType : old = pushes[p]
  BY InvGives
<1>r. PICK r : r = old.todo[1]
  OBVIOUS
<1>m. PICK mix \in BOOLEAN : mix = mixed
  BY InvGives
<1>0. old.at = "requests" /\ PushFits(old, mix) /\ Progress(old, obs, mix) /\ Holds(obs, mix)
  BY <1>o, <1>m, InvGives DEF Answered, ObsInv
<1>1. /\ r[1] \in Kinds /\ old.scene \in Scenes /\ old.plan \in ObsSituations
      /\ (~mix => old.plan = old.scene)
      /\ r[1] \in Making \cup Finding \cup Placing => r[2] \in Owns(old.plan)
      /\ TodoFits(old.todo, old.plan) /\ Head(old.todo) = r
  BY <1>0, <1>r, FirstIs
<1>a. PICK accepted \in BOOLEAN : accepted = Accepts(obs, old.scene, r)
  <2>1. Accepts(obs, old.scene, r) \in BOOLEAN
    <3>1. CASE r[1] = "CreateScene"
      BY <3>1 DEF Accepts
    <3>2. CASE r[1] = "CreateInput"
      BY <3>2 DEF Accepts
    <3>3. CASE r[1] = "SetInputSettings"
      BY <3>3 DEF Accepts
    <3>4. CASE r[1] = "GetSceneItemId"
      BY <3>4 DEF Accepts
    <3>6. CASE r[1] = "SetSceneItemTransform"
      BY <3>6 DEF Accepts
    <3>5. CASE r[1] = "SetCurrentProgramScene"
      BY <3>5 DEF Accepts
    <3> QED
      BY <1>1, <3>1, <3>2, <3>3, <3>4, <3>5, <3>6 DEF Kinds
  <2> QED
    BY <2>1
<1>l. PICK left : left = AfterAnswer(old, accepted)
  OBVIOUS
<1>2. /\ obs' = Execute(obs, old.scene, r)
      /\ situation' = situation /\ mixed' = mixed
      /\ IF accepted \/ r[1] = "GetSceneItemId"
         THEN /\ pushes' = [pushes EXCEPT ![p] = IF left = <<>> THEN Done ELSE [@ EXCEPT !.todo = left]]
              /\ shown' = IF left = <<>> /\ old.alone THEN old.plan ELSE shown
              /\ bridge' = bridge /\ sockets' = sockets
         ELSE Fail(p, pushes, sockets) /\ shown' = shown
  BY <1>o, <1>1, <1>a, <1>l DEF Answered
<1>3. Holds(obs', mix)
  BY <1>0, <1>2, <1>r, ExecuteHolds
<1>4. OnObs(pushes[p]) /\ shown = NoSituation /\ NoSituation \in Scenes
  <2>1. OnObs(pushes[p])
    BY <1>o, <1>0 DEF OnObs
  <2> QED
    BY <2>1, OnObsShowsNothing
<1>5. situation' \in ObsSituations /\ mixed' \in BOOLEAN /\ mixed' = mix
  BY <1>2, <1>m, InvGives
<1>6. Remains(old.todo, left, old.plan)
  BY <1>1, <1>l, AfterAnswerIs
<1>7. CASE ~(accepted \/ r[1] = "GetSceneItemId")
  <2>1. Fail(p, pushes, sockets) /\ shown' = shown
    BY <1>2, <1>7
  <2>2. obs' = obs
    BY <1>2, <1>a, <1>7 DEF Execute
  <2> QED
    BY <1>2, <2>1, <2>2, InvGives, FailKeeps
<1>8. CASE (accepted \/ r[1] = "GetSceneItemId") /\ left # <<>>
  <2>e. PICK e : e = [old EXCEPT !.todo = left]
    OBVIOUS
  <2>1. /\ pushes' = [pushes EXCEPT ![p] = e] /\ shown' = shown
        /\ bridge' = bridge /\ sockets' = sockets
    <3>1. pushes' = [pushes EXCEPT ![p] = [@ EXCEPT !.todo = left]] /\ shown' = shown
          /\ bridge' = bridge /\ sockets' = sockets
      BY <1>2, <1>8
    <3> QED
      BY <3>1, <2>e, <1>o, InvGives
  <2>2. /\ e \in PushType /\ e.at = "requests" /\ e.todo = left /\ e.plan = old.plan
        /\ e.scene = old.scene /\ e.alone = old.alone
    <3>1. left \in Seq(Requests)
      BY <1>6 DEF Remains
    <3> QED
      BY <2>e, <1>0, <3>1 DEF PushType
  <2>3. PushFits(e, mix)
    BY <1>0, <1>6, <1>8, <2>2, LessIsLeft
  <2>4. Progress(e, obs', mix)
    <3> SUFFICES ASSUME e.alone, ~mix PROVE Progress(e, obs', mix)
      BY DEF Progress
    <3>1. left[1][1] # "CreateScene"
      BY <1>6, <1>8 DEF Remains
    <3>2. ASSUME NEW x \in Owns(old.plan), old.scene \in obs'.scenes
          PROVE  /\ Has(left, Making, x) \/ <<old.scene, x>> \in obs'.items
                 /\ Has(left, Finding, x) \/ Has(left, Placing, x) \/ <<old.scene, x>> \in obs'.placed
      <4>1. PushFits(old, FALSE) /\ Progress(old, obs, FALSE) /\ Holds(obs, FALSE)
        BY <1>0
      <4>2. old.alone /\ accepted = Accepts(obs, old.scene, old.todo[1])
            /\ obs' = Execute(obs, old.scene, old.todo[1])
        BY <1>r, <1>a, <1>2, <2>2
      <4>3. accepted \/ old.todo[1][1] = "GetSceneItemId"
        BY <1>8, <1>r
      <4> QED
        BY <1>0, <1>a, <1>l, <3>2, <4>1, <4>2, <4>3, AnswerProgress
    <3> QED
      BY <2>2, <3>1, <3>2 DEF Progress
  <2>5. GoesOn(p, e)
    <3>1. shown' \in Scenes /\ shown' = NoSituation /\ BridgeFits(bridge', sockets')
      BY <1>4, <2>1, InvGives
    <3>2. PushFits(e, mixed') /\ Progress(e, obs', mixed') /\ Holds(obs', mixed')
      BY <1>3, <1>5, <2>3, <2>4
    <3>3. (mixed => mixed') /\ (e.alone => pushes[p].alone)
      BY <1>2, <1>o, <2>2
    <3>4. e \in PushType
      BY <2>2
    <3> QED
      BY <1>4, <1>5, <2>1, <3>1, <3>2, <3>3, <3>4, Zenon DEF GoesOn
  <2> QED
    BY <2>5, StepKeeps
<1>9. CASE (accepted \/ r[1] = "GetSceneItemId") /\ left = <<>>
  <2>1. pushes' = [pushes EXCEPT ![p] = Done] /\ shown' = (IF old.alone THEN old.plan ELSE shown)
        /\ bridge' = bridge /\ sockets' = sockets
    BY <1>2, <1>9
  <2>2. r[1] = "SetCurrentProgramScene" /\ accepted
    BY <1>6, <1>9, <1>r DEF Remains
  <2>3. PushFits(Done, mix) /\ Progress(Done, obs', mix)
    BY DoneIs DEF PushFits, Progress, OnObs
  <2>4. ASSUME old.alone, ~mix PROVE Shows(obs', old.plan)
    <3>1. old.scene \in obs.scenes /\ obs'.current = old.scene /\ obs'.items = obs.items /\ obs'.placed = obs.placed
      <4>1. r[1] \in Making \cup Finding \cup Placing => r[2] \in Sources
        BY <2>2 DEF Making, Finding, Placing
      <4>2. obs \in ObsType /\ Accepts(obs, old.scene, r)
        BY <1>0, <1>a, <2>2 DEF Holds
      <4> QED
        <5>1. PICK n : n = obs'
          OBVIOUS
        <5>2. n = Execute(obs, old.scene, r) /\ r[1] \in Kinds /\ old.scene \in Scenes
          BY <1>1, <1>2, <5>1
        <5>3. /\ old.scene \in obs.scenes /\ n.current = old.scene /\ n.items = obs.items
              /\ n.placed = obs.placed
          <6>1. Accepts(obs, old.scene, r) /\ r[1] = "SetCurrentProgramScene"
            BY <2>2, <4>2
          <6>2. obs \in ObsType
            BY <4>2
          <6>3. n = [obs EXCEPT !.current = old.scene] /\ old.scene \in obs.scenes
            BY <5>2, <6>1 DEF Execute, Accepts
          <6> QED
            BY <6>2, <6>3 DEF ObsType
        <5> QED
          BY <5>1, <5>3
    <3>2. ASSUME NEW x \in Owns(old.plan) PROVE <<old.plan, x>> \in obs.items /\ <<old.plan, x>> \in obs.placed
      <4>1. /\ Has(old.todo, Making, x) \/ <<old.scene, x>> \in obs.items
            /\ Has(old.todo, Finding, x) \/ Has(old.todo, Placing, x) \/ <<old.scene, x>> \in obs.placed
        BY <1>0, <1>r, <2>2, <2>4, <3>1 DEF Progress
      <4>2. \A K : Has(old.todo, K, x) /\ r[1] \notin K => Has(left, K, x)
        BY <1>6, <1>r DEF Remains
      <4>3. \A K : ~Has(left, K, x)
        BY <1>9 DEF Has
      <4>4. r[1] \notin Making /\ r[1] \notin Finding /\ r[1] \notin Placing
        BY <2>2 DEF Making, Finding, Placing
      <4> QED
        BY <1>1, <2>4, <4>1, <4>2, <4>3, <4>4
    <3> QED
      BY <1>1, <2>4, <3>1, <3>2 DEF Shows
  <2>5. GoesOn(p, Done)
    <3>1. shown' \in Scenes /\ BridgeFits(bridge', sockets')
      BY <1>1, <1>4, <2>1, InvGives DEF Scenes
    <3>2. PushFits(Done, mixed') /\ Progress(Done, obs', mixed') /\ Holds(obs', mixed')
      BY <1>3, <1>5, <2>3
    <3>3. (mixed => mixed') /\ (Done.alone => pushes[p].alone)
      BY <1>2, DoneIs
    <3>4. shown' # NoSituation => ~OnObs(Done) /\ pushes[p].alone /\ (~mixed' => Shows(obs', shown'))
      BY <1>4, <1>5, <1>o, <2>1, <2>4, DoneIs
    <3> QED
      BY <1>4, <1>5, <2>1, <3>1, <3>2, <3>3, <3>4, DoneIs, Zenon DEF GoesOn
  <2> QED
    BY <2>5, StepKeeps
<1> QED
  BY <1>7, <1>8, <1>9

\* No answer for 8 s: the push fails, or goes on without the item, alone no more.
LEMMA PushTimesOutKeeps ==
  ASSUME ObsInv, NEW p \in Pushes, TimesOut(p)
  PROVE  ObsInv'
<1>o. PICK old \in PushType : old = pushes[p]
  BY InvGives
<1>m. PICK mix \in BOOLEAN : mix = mixed
  BY InvGives
<1>0. /\ old.at \in {"lists", "requests"} /\ PushFits(old, mix) /\ Holds(obs, mix)
      /\ situation' = situation /\ mixed' = mixed /\ shown' = shown
  BY <1>o, <1>m, InvGives DEF TimesOut, ObsInv
<1>1. CASE old.at = "lists"
  <2>1. obs' = obs /\ Fail(p, pushes, sockets)
    BY <1>1, <1>o DEF TimesOut
  <2> QED
    BY <1>0, <2>1, InvGives, FailKeeps
<1>2. CASE old.at = "requests"
  <2>r. PICK r : r = old.todo[1]
    OBVIOUS
  <2>1. TodoFits(old.todo, old.plan) /\ Head(old.todo) = r
    BY <1>0, <1>2, <2>r, FirstIs
  <2>2. /\ obs' \in {obs, Execute(obs, old.scene, r)}
        /\ IF r[1] = "GetSceneItemId"
           THEN /\ pushes' = [pushes EXCEPT ![p].todo = Tail(@), ![p].alone = FALSE]
                /\ bridge' = bridge /\ sockets' = sockets
           ELSE Fail(p, pushes, sockets)
    BY <1>2, <1>o, <2>1 DEF TimesOut
  <2>3. Holds(obs', mix)
    BY <1>0, <1>2, <2>2, <2>r, ExecuteHolds
  <2>4. OnObs(pushes[p]) /\ shown' = NoSituation /\ shown' \in Scenes
    <3>1. OnObs(pushes[p])
      BY <1>o, <1>2 DEF OnObs
    <3> QED
      BY <1>0, <3>1, OnObsShowsNothing
  <2>5. situation' \in ObsSituations /\ mixed' \in BOOLEAN /\ mixed' = mix /\ (mixed => mixed')
    BY <1>0, <1>m, InvGives
  <2>6. CASE r[1] = "GetSceneItemId"
    <3>l. PICK left : left = Tail(old.todo)
      OBVIOUS
    <3>1. Remains(old.todo, left, old.plan) /\ left # <<>>
      <4>1. Remains(old.todo, left, old.plan)
        BY <2>1, <3>l, TailRemains
      <4> QED
        BY <4>1, <2>6, <2>r DEF Remains
    <3>e. PICK e : e = [[old EXCEPT !.todo = left] EXCEPT !.alone = FALSE]
      OBVIOUS
    <3>2. pushes' = [pushes EXCEPT ![p] = e] /\ bridge' = bridge /\ sockets' = sockets
      <4>1. /\ pushes' = [pushes EXCEPT ![p].todo = Tail(@), ![p].alone = FALSE]
            /\ bridge' = bridge /\ sockets' = sockets
        BY <2>2, <2>6
      <4> QED
        BY <4>1, <3>e, <3>l, <1>o, InvGives
    <3>3. /\ e \in PushType /\ e.at = "requests" /\ e.todo = left /\ e.plan = old.plan
          /\ e.scene = old.scene /\ e.alone = FALSE
      <4>1. PICK e1 : e1 = [old EXCEPT !.todo = left]
        OBVIOUS
      <4>2. left \in Seq(Requests)
        BY <3>1 DEF Remains
      <4>3. /\ e1 \in PushType /\ e1.at = "requests" /\ e1.todo = left /\ e1.plan = old.plan
            /\ e1.scene = old.scene
        BY <1>2, <4>1, <4>2 DEF PushType
      <4>4. e = [e1 EXCEPT !.alone = FALSE]
        BY <3>e, <4>1
      <4> QED
        BY <4>3, <4>4 DEF PushType
    <3>4. PushFits(e, mixed') /\ Progress(e, obs', mixed')
      <4>1. PushFits(e, mix)
        BY <1>0, <1>2, <3>1, <3>3, LessIsLeft
      <4>2. Progress(e, obs', mix)
        BY <3>3 DEF Progress
      <4> QED
        BY <2>5, <4>1, <4>2
    <3>5. GoesOn(p, e)
      <4>1. BridgeFits(bridge', sockets') /\ Holds(obs', mixed')
        BY <2>3, <2>5, <3>2, InvGives
      <4>2. e \in PushType /\ ~e.alone
        BY <3>3
      <4> QED
        BY <2>4, <2>5, <3>2, <3>4, <4>1, <4>2, Zenon DEF GoesOn
    <3> QED
      BY <3>5, StepKeeps
  <2>7. CASE r[1] # "GetSceneItemId"
    <3>1. Fail(p, pushes, sockets)
      BY <2>2, <2>7
    <3>2. pushes' = [pushes EXCEPT ![p] = Done] /\ BridgeFits(bridge', sockets')
      BY <3>1, InvGives, FailDoes
    <3>3. PushFits(Done, mixed') /\ Progress(Done, obs', mixed') /\ Holds(obs', mixed')
      BY <2>3, <2>5, DoneIs DEF PushFits, Progress, OnObs
    <3>4. GoesOn(p, Done)
      BY <2>4, <2>5, <3>2, <3>3, DoneIs, Zenon DEF GoesOn
    <3> QED
      BY <3>4, StepKeeps
  <2> QED
    BY <2>6, <2>7
<1> QED
  BY <1>0, <1>1, <1>2
\* The streamer deletes a scene that is not on air, so not the one that is shown.
LEMMA RemoveKeeps ==
  ASSUME ObsInv, NEW s \in ObsSituations, RemoveScene(s)
  PROVE  ObsInv'
<1>1. /\ s # obs.current
      /\ obs' = [obs EXCEPT !.scenes = @ \ {s}, !.items = {i \in @ : i[1] # s},
                            !.placed = {i \in @ : i[1] # s}]
      /\ situation' = situation /\ mixed' = mixed /\ shown' = shown /\ pushes' = pushes
      /\ bridge' = bridge /\ sockets' = sockets
  BY DEF RemoveScene
<1>2. obs \in ObsType /\ Holds(obs, mixed)
  BY DEF ObsInv, Holds
<1>3. /\ obs'.scenes = obs.scenes \ {s} /\ obs'.items = {i \in obs.items : i[1] # s}
      /\ obs'.placed = {i \in obs.placed : i[1] # s} /\ obs'.current = obs.current
      /\ obs' \in ObsType
  <2>1. PICK o1 : o1 = [obs EXCEPT !.scenes = obs.scenes \ {s}]
    OBVIOUS
  <2>2. /\ o1 \in ObsType /\ o1.scenes = obs.scenes \ {s} /\ o1.items = obs.items
        /\ o1.placed = obs.placed /\ o1.current = obs.current
    BY <1>2, <2>1 DEF ObsType
  <2>3. PICK o2 : o2 = [o1 EXCEPT !.items = {i \in obs.items : i[1] # s}]
    OBVIOUS
  <2>4. /\ o2 \in ObsType /\ o2.scenes = obs.scenes \ {s} /\ o2.items = {i \in obs.items : i[1] # s}
        /\ o2.placed = obs.placed /\ o2.current = obs.current
    BY <2>2, <2>3 DEF ObsType
  <2>5. obs' = [o2 EXCEPT !.placed = {i \in obs.placed : i[1] # s}]
    BY <1>1, <2>1, <2>3
  <2> QED
    BY <2>4, <2>5 DEF ObsType
<1>4. Holds(obs', mixed)
  BY <1>2, <1>3 DEF Holds
<1>5. ASSUME NEW q \in Pushes PROVE Progress(pushes[q], obs', mixed)
  <2>1. Progress(pushes[q], obs, mixed)
    BY InvGives
  <2>e. PICK e : e = pushes[q]
    OBVIOUS
  <2>2. CASE ~(e.at = "requests" /\ e.alone /\ ~mixed)
    BY <2>e, <2>2 DEF Progress
  <2>3. CASE e.at = "requests" /\ e.alone /\ ~mixed
    <3>1. e.todo[1][1] = "CreateScene" =>
            \A x \in Owns(e.plan) : Has(e.todo, Making, x) /\ Has(e.todo, Finding, x)
      BY <2>1, <2>e, <2>3 DEF Progress
    <3>2. ASSUME e.todo[1][1] # "CreateScene", e.scene \in obs'.scenes, NEW x \in Owns(e.plan)
          PROVE  /\ Has(e.todo, Making, x) \/ <<e.scene, x>> \in obs'.items
                 /\ Has(e.todo, Finding, x) \/ Has(e.todo, Placing, x) \/ <<e.scene, x>> \in obs'.placed
      <4>1. e.scene \in obs.scenes /\ e.scene # s
        BY <1>3, <3>2
      <4>2. /\ Has(e.todo, Making, x) \/ <<e.scene, x>> \in obs.items
            /\ Has(e.todo, Finding, x) \/ Has(e.todo, Placing, x) \/ <<e.scene, x>> \in obs.placed
        BY <2>1, <2>e, <2>3, <3>2, <4>1 DEF Progress
      <4>3. <<e.scene, x>>[1] # s
        BY <4>1
      <4> QED
        BY <1>3, <4>2, <4>3
    <3> QED
      BY <2>e, <3>1, <3>2 DEF Progress
  <2> QED
    BY <2>2, <2>3
<1>6. shown # NoSituation => (~mixed => Shows(obs', shown))
  <2> SUFFICES ASSUME shown # NoSituation, ~mixed PROVE Shows(obs', shown)
    OBVIOUS
  <2>1. Shows(obs, shown)
    BY DEF ObsInv
  <2>2. shown # s
    BY <1>1, <2>1 DEF Shows
  <2>3. ASSUME NEW x \in Owns(shown) PROVE <<shown, x>> \in obs'.items /\ <<shown, x>> \in obs'.placed
    <3>1. <<shown, x>> \in obs.items /\ <<shown, x>> \in obs.placed /\ <<shown, x>>[1] # s
      BY <2>1, <2>2 DEF Shows
    <3> QED
      BY <1>3, <3>1
  <2> QED
    BY <1>3, <2>1, <2>3 DEF Shows
<1>7. shown # NoSituation => \A q \in Pushes : ~OnObs(pushes[q])
  BY DEF ObsInv
<1>8. AloneIsAlone(pushes)
  BY DEF ObsInv
<1> QED
  BY <1>1, <1>4, <1>5, <1>6, <1>7, <1>8, InvGives DEF ObsInv

\* Nothing is in OBS yet.
LEMMA ObsStarts == ObsInit => ObsInv
<1> SUFFICES ASSUME ObsInit PROVE ObsInv
  OBVIOUS
<1>1. /\ situation \in ObsSituations /\ bridge = 0 /\ sockets = <<>> /\ shown = NoSituation /\ mixed = FALSE
      /\ pushes = [p \in Pushes |-> Done]
      /\ obs = [scenes |-> {}, items |-> {}, placed |-> {}, current |-> NoSituation]
  BY DEF ObsInit
<1>2. pushes \in [Pushes -> PushType] /\ \A p \in Pushes : pushes[p] = Done
  BY <1>1, DoneIs
<1>3. \A p \in Pushes : PushFits(pushes[p], mixed) /\ Progress(pushes[p], obs, mixed)
  <2>1. PushFits(Done, mixed) /\ Progress(Done, obs, mixed)
    BY DoneIs DEF PushFits, Progress, OnObs
  <2> QED
    BY <1>2, <2>1
<1>4. AloneIsAlone(pushes)
  BY <1>2, DoneIs DEF AloneIsAlone
<1>5. Holds(obs, mixed)
  BY <1>1 DEF Holds, ObsType, Scenes
<1>6. BridgeFits(bridge, sockets)
  BY <1>1 DEF BridgeFits
<1> QED
  BY <1>1, <1>2, <1>3, <1>4, <1>5, <1>6 DEF ObsInv, Scenes

\* Nothing happens.
LEMMA ObsStutters ==
  ASSUME ObsInv, UNCHANGED obsVars
  PROVE  ObsInv'
BY DEF ObsInv, obsVars

\* Every step of the page and of OBS keeps the invariant.
LEMMA ObsSteps ==
  ASSUME ObsInv, [ObsNext]_obsVars
  PROVE  ObsInv'
<1>1. CASE UNCHANGED obsVars
  BY <1>1, ObsStutters
<1>2. CASE ConnectObs \/ TickAutoScene
  BY <1>2, ConnectKeeps, TickKeeps
<1>3. ASSUME NEW s \in ObsSituations, Switch(s) \/ RemoveScene(s) PROVE ObsInv'
  BY <1>3, SwitchKeeps, RemoveKeeps
<1>4. ASSUME NEW b \in DOMAIN sockets, ConnectionLost(b) PROVE ObsInv'
  BY <1>4, LostKeeps
<1>5. ASSUME NEW p \in Pushes,
             \/ Connected(p) \/ ConnectFails(p) \/ DevicesSwitched(p) \/ DevicesFail(p)
             \/ CanvasSettled(p) \/ ListsArrive(p) \/ Answered(p) \/ TimesOut(p) \/ CallRejected(p)
      PROVE  ObsInv'
  BY <1>5, ConnectedKeeps, ConnectFailsKeeps, DevicesSwitchedKeeps, DevicesFailKeeps,
     CanvasKeeps, ListsKeep, AnsweredKeeps, PushTimesOutKeeps, RejectedKeeps
<1> QED
  BY <1>1, <1>2, <1>3, <1>4, <1>5 DEF ObsNext

\* What the invariant says of a push that had the field to itself.
LEMMA ObsSafe == ObsInv => ObsShowsSituation
<1> SUFFICES ASSUME ObsInv, ~mixed PROVE
      /\ \A i \in obs.items : i[1] = i[2][1]
      /\ shown # NoSituation =>
           /\ obs.current = shown
           /\ {i \in obs.items : i[1] = shown} = {<<shown, x>> : x \in ToSet(SourcesOf(shown))}
           /\ {i \in obs.items : i[1] = shown} \subseteq obs.placed
  BY DEF ObsShowsSituation
<1>1. \A i \in obs.items : i \in Scenes \X Sources /\ i[2] \in Owns(i[2][1]) /\ i[1] = i[2][1]
  BY DEF ObsInv, Holds, ObsType
<1>2. ASSUME shown # NoSituation
      PROVE  /\ obs.current = shown
             /\ {i \in obs.items : i[1] = shown} = {<<shown, x>> : x \in Owns(shown)}
             /\ {i \in obs.items : i[1] = shown} \subseteq obs.placed
  <2>1. Shows(obs, shown)
    BY <1>2 DEF ObsInv
  <2>2. \A i \in obs.items : i[1] = shown => i[2] \in Owns(shown) /\ i = <<shown, i[2]>>
    BY <1>1
  <2> QED
    BY <2>1, <2>2 DEF Shows
<1> QED
  BY <1>1, <1>2 DEF Owns

\* A push that has the field to itself shows its situation, and no scene holds another
\* situation's source, for all situations, sources, pushes and clicks.
THEOREM ObsAlwaysShowsSituation == ObsSpec => []ObsShowsSituation
<1>1. ObsInv /\ [ObsNext]_obsVars => ObsInv'
  BY ObsSteps
<1> QED
  BY ObsStarts, ObsSafe, <1>1, PTL DEF ObsSpec

-----------------------------------------------------------------------------
(***************************************************************************)
(* The delta codec: a decoded delta is read on the keyframe it was made    *)
(* against, for any weights, intervals, ids, bounds of the decoder and order *)
(* of packets.                                                             *)
(*                                                                         *)
(* The invariant follows a keyframe from the encoder over the channel into *)
(* the decoder's map: the base of a delta is a keyframe on the channel     *)
(* (SentOK, EncoderOK), what the decoder holds under an id was sent under  *)
(* that id (KeyframesOK), and what it made of the last delta is that delta *)
(* on one of those, or nothing if it holds none (DecodedOK).               *)
(***************************************************************************)

Faces   == [w : Weights, p : Positions]
Packets == [n : Nat, type : {"keyframe", "delta"}, id : Int, w : Int, p : Int, of : Faces,
            base : Nat]
Keys    == [n : Nat, w : Int, p : Int]
Entries == [id : Int, n : Nat, w : Int, p : Int]

\* k holds the face of the n-th packet, a keyframe.
HoldsKeyframe(k, n) ==
  /\ n \in DOMAIN sent /\ sent[n].type = "keyframe"
  /\ k.w = sent[n].w /\ k.p = sent[n].p

PacketOK(packet) ==
  /\ packet.type = "keyframe" => packet.w = packet.of.w /\ packet.p = packet.of.p
  /\ packet.type = "delta" =>
       /\ packet.base \in DOMAIN sent /\ sent[packet.base].type = "keyframe"
       /\ packet.w = packet.of.w - sent[packet.base].w
       /\ packet.p = Clamped(packet.of.p - sent[packet.base].p)

SentOK == sent \in Seq(Packets) /\ \A n \in DOMAIN sent : PacketOK(sent[n])

EncoderOK ==
  /\ encoder \in [seq : Nat, key : Keys \cup {NoFrame}, restarts : Nat]
  /\ encoder.key # NoFrame => encoder.key \in Keys /\ HoldsKeyframe(encoder.key, encoder.key.n)

EntryOK(k) == HoldsKeyframe(k, k.n) /\ sent[k.n].id = k.id

KeyframesOK == keyframes \in Seq(Entries) /\ \A i \in DOMAIN keyframes : EntryOK(keyframes[i])

ReadOn(packet, k) == [w |-> k.w + packet.w, p |-> k.p + packet.p]

DecodedOK ==
  decoded # NoFrame /\ decoded.packet.type = "delta" =>
    /\ \E n \in DOMAIN sent : decoded.packet = sent[n]
    /\ \/ decoded.frame = NoFrame /\ HeldUnder(decoded.packet.id) = {}
       \/ \E m \in SentUnder(decoded.packet.id) : decoded.frame = ReadOn(decoded.packet, sent[m])

Kgm2Inv == SentOK /\ EncoderOK /\ KeyframesOK /\ DecodedOK

\* A delta in reach is not clamped.
LEMMA InReachUnclamped ==
  ASSUME NEW d \in Int, InReach(d)
  PROVE  Clamped(d) = d
<1>1. Reach \in Int
  BY Kgm2Assumption
<1> QED
  BY <1>1 DEF InReach, Clamped

\* A face is two numbers.
LEMMA FaceTypes ==
  ASSUME NEW face \in Faces
  PROVE  face.w \in Int /\ face.p \in Int
<1>1. face.w \in Weights /\ face.p \in Positions
  BY DEF Faces
<1>2. Weights \subseteq Int /\ Positions \subseteq Int
  BY Kgm2Assumption
<1> QED
  BY <1>1, <1>2

\* What the decoder reads a delta on is what it was made against.
LEMMA Kgm2InvBase == Kgm2Inv => DeltaOnItsBase
<1> SUFFICES ASSUME Kgm2Inv, decoded # NoFrame, decoded.packet.type = "delta"
             PROVE  LET packet == decoded.packet
                        base == sent[packet.base]
                    IN  /\ (decoded.frame # NoFrame /\ SentUnder(packet.id) = {packet.base}) =>
                             /\ decoded.frame.w = packet.of.w
                             /\ InReach(packet.of.p - base.p) => decoded.frame.p = packet.of.p
                        /\ (base.id = packet.id /\ \E k \in ToSet(keyframes) : k.n = packet.base)
                             => decoded.frame # NoFrame
  BY DEF DeltaOnItsBase
<1> DEFINE packet == decoded.packet
           base == sent[packet.base]
<1>1. PICK n \in DOMAIN sent : packet = sent[n]
  BY DEF Kgm2Inv, DecodedOK
<1>2. packet \in Packets /\ packet.type = "delta" /\ PacketOK(packet)
  BY <1>1 DEF Kgm2Inv, SentOK
<1>3. /\ packet.base \in DOMAIN sent /\ base \in Packets
      /\ packet.w = packet.of.w - base.w /\ packet.p = Clamped(packet.of.p - base.p)
  BY <1>2 DEF PacketOK, Kgm2Inv, SentOK
<1>4. packet.of \in Faces /\ base.w \in Int /\ base.p \in Int
  BY <1>2, <1>3 DEF Packets
<1>5. packet.of.w \in Int /\ packet.of.p \in Int
  BY <1>4, FaceTypes
<1>6. ASSUME decoded.frame # NoFrame, SentUnder(packet.id) = {packet.base}
      PROVE  /\ decoded.frame.w = packet.of.w
             /\ InReach(packet.of.p - base.p) => decoded.frame.p = packet.of.p
  <2>1. decoded.frame = ReadOn(packet, base)
    BY <1>6 DEF Kgm2Inv, DecodedOK
  <2>2. decoded.frame.w = base.w + packet.w /\ decoded.frame.p = base.p + packet.p
    BY <2>1 DEF ReadOn
  <2>3. ASSUME InReach(packet.of.p - base.p) PROVE decoded.frame.p = packet.of.p
    <3>1. packet.p = packet.of.p - base.p
      BY <1>3, <1>4, <1>5, <2>3, InReachUnclamped
    <3> QED
      BY <1>4, <1>5, <2>2, <3>1
  <2> QED
    BY <1>3, <1>4, <1>5, <2>2, <2>3
<1>7. ASSUME base.id = packet.id, NEW k \in ToSet(keyframes), k.n = packet.base
      PROVE  decoded.frame # NoFrame
  <2>1. PICK i \in DOMAIN keyframes : k = keyframes[i]
    BY <1>7 DEF ToSet
  <2>2. k.id = packet.id
    BY <1>7, <2>1 DEF Kgm2Inv, KeyframesOK, EntryOK
  <2>3. HeldUnder(packet.id) # {}
    BY <2>1, <2>2 DEF HeldUnder
  <2>4. PICK m \in SentUnder(packet.id) : decoded.frame = ReadOn(packet, sent[m])
    BY <2>3 DEF Kgm2Inv, DecodedOK
  <2>5. sent[m] \in Packets
    BY <2>4 DEF SentUnder, Kgm2Inv, SentOK
  <2>6. decoded.frame \in [w : Int, p : Int]
    BY <1>2, <2>4, <2>5 DEF ReadOn, Packets
  <2> QED
    BY <2>6, Kgm2Assumption
<1> QED
  BY <1>6, <1>7

\* Nothing has been encoded.
LEMMA Kgm2InitInv == Kgm2Init => Kgm2Inv
<1> SUFFICES ASSUME Kgm2Init PROVE Kgm2Inv
  OBVIOUS
<1>1. sent = <<>> /\ keyframes = <<>> /\ decoded = NoFrame
  BY DEF Kgm2Init
<1>2. encoder = [seq |-> 0, key |-> NoFrame, restarts |-> 0]
  BY DEF Kgm2Init
<1>3. SentOK /\ KeyframesOK /\ DecodedOK
  BY <1>1 DEF SentOK, KeyframesOK, DecodedOK
<1>4. EncoderOK
  BY <1>2 DEF EncoderOK
<1> QED
  BY <1>3, <1>4 DEF Kgm2Inv

\* What is on the channel stays there: a packet more disturbs nothing that was said of
\* the others.
LEMMA ChannelGrows ==
  ASSUME Kgm2Inv, NEW packet \in Packets, sent' = Append(sent, packet),
         UNCHANGED <<keyframes, decoded>>
  PROVE  /\ sent' \in Seq(Packets) /\ DOMAIN sent' = 1 .. Len(sent) + 1
         /\ sent'[Len(sent) + 1] = packet
         /\ \A n \in DOMAIN sent : n \in DOMAIN sent' /\ sent'[n] = sent[n] /\ PacketOK(sent[n])'
         /\ KeyframesOK' /\ DecodedOK'
<1>1. sent \in Seq(Packets) /\ DOMAIN sent = 1 .. Len(sent) /\ Len(sent) \in Nat
  BY DEF Kgm2Inv, SentOK
<1>2. /\ sent' \in Seq(Packets) /\ Len(sent') = Len(sent) + 1
      /\ \A i \in 1 .. Len(sent) : sent'[i] = sent[i]
      /\ sent'[Len(sent) + 1] = packet
  BY <1>1, AppendProperties
<1>3. DOMAIN sent' = 1 .. Len(sent) + 1
  BY <1>2
<1>4. \A n \in DOMAIN sent : n \in DOMAIN sent' /\ sent'[n] = sent[n]
  BY <1>1, <1>2, <1>3
<1>5. \A n \in DOMAIN sent : PacketOK(sent[n])'
  <2> SUFFICES ASSUME NEW n \in DOMAIN sent PROVE PacketOK(sent[n])'
    OBVIOUS
  <2>1. PacketOK(sent[n]) /\ sent'[n] = sent[n]
    BY <1>4 DEF Kgm2Inv, SentOK
  <2> QED
    BY <1>4, <2>1 DEF PacketOK, Clamped
<1>6. KeyframesOK'
  <2>1. \A i \in DOMAIN keyframes : EntryOK(keyframes[i])'
    BY <1>4 DEF Kgm2Inv, KeyframesOK, EntryOK, HoldsKeyframe
  <2> QED
    BY <2>1 DEF Kgm2Inv, KeyframesOK
<1>7. DecodedOK'
  <2>1. \A id : SentUnder(id) \subseteq SentUnder(id)' /\ HeldUnder(id)' = HeldUnder(id)
    BY <1>4 DEF SentUnder, HeldUnder
  <2> SUFFICES ASSUME decoded # NoFrame, decoded.packet.type = "delta"
               PROVE  /\ \E n \in DOMAIN sent' : decoded.packet = sent'[n]
                      /\ \/ /\ decoded.frame = NoFrame
                            /\ HeldUnder(decoded.packet.id) = {}
                         \/ \E m \in SentUnder(decoded.packet.id)' :
                              decoded.frame = ReadOn(decoded.packet, sent'[m])
    BY <2>1 DEF DecodedOK, ReadOn
  <2>2. PICK n \in DOMAIN sent : decoded.packet = sent[n]
    BY DEF Kgm2Inv, DecodedOK
  <2>3. CASE decoded.frame = NoFrame /\ HeldUnder(decoded.packet.id) = {}
    BY <1>4, <2>2, <2>3
  <2>4. ASSUME NEW m \in SentUnder(decoded.packet.id),
               decoded.frame = ReadOn(decoded.packet, sent[m])
        PROVE  \E k \in SentUnder(decoded.packet.id)' :
                 decoded.frame = ReadOn(decoded.packet, sent'[k])
    <3>1. m \in SentUnder(decoded.packet.id)' /\ sent'[m] = sent[m]
      BY <1>4, <2>1 DEF SentUnder
    <3> QED
      BY <2>4, <3>1
  <2> QED
    BY <1>4, <2>2, <2>3, <2>4 DEF Kgm2Inv, DecodedOK
<1> QED
  BY <1>2, <1>3, <1>4, <1>5, <1>6, <1>7

\* The id of a keyframe is a number.
LEMMA KeyIdType == ASSUME Kgm2Inv PROVE KeyId \in Int
<1>1. encoder.seq \in Nat /\ Interval \in Nat \ {0} /\ IdModulus \in Nat \ {0}
  BY Kgm2Assumption DEF Kgm2Inv, EncoderOK
<1>2. encoder.seq \div Interval \in Int
  BY <1>1
<1> QED
  BY <1>1, <1>2 DEF KeyId

\* encodeKeyframe.
LEMMA KeyframeStep ==
  ASSUME Kgm2Inv, NEW frame \in Faces, EncodeKeyframe(frame), UNCHANGED <<keyframes, decoded>>
  PROVE  Kgm2Inv'
<1> DEFINE last == Len(sent) + 1
           packet == Packet("keyframe", KeyId, frame.w, frame.p, frame, last)
           key == [n |-> last, w |-> frame.w, p |-> frame.p]
<1>1. sent' = Append(sent, packet) /\ encoder' = [encoder EXCEPT !.seq = @ + 1, !.key = key]
  BY DEF EncodeKeyframe
<1>2. last \in Nat /\ frame.w \in Int /\ frame.p \in Int
  BY FaceTypes DEF Kgm2Inv, SentOK
<1>3. /\ packet \in Packets /\ packet.type = "keyframe" /\ packet.of = frame
      /\ packet.w = frame.w /\ packet.p = frame.p
  BY <1>2, KeyIdType DEF Packet, Packets
<1>4. key \in Keys /\ key.n = last /\ key.w = frame.w /\ key.p = frame.p
  BY <1>2 DEF Keys
<1> HIDE DEF packet, key
<1>5. /\ sent' \in Seq(Packets) /\ DOMAIN sent' = 1 .. last /\ sent'[last] = packet
      /\ \A n \in DOMAIN sent : PacketOK(sent[n])' /\ sent'[n] = sent[n]
      /\ KeyframesOK' /\ DecodedOK'
  BY <1>1, <1>3, ChannelGrows
<1>6. DOMAIN sent = 1 .. last - 1
  BY DEF Kgm2Inv, SentOK
<1>7. SentOK'
  <2> SUFFICES ASSUME NEW n \in DOMAIN sent' PROVE PacketOK(sent[n])'
    BY <1>5 DEF SentOK
  <2>1. CASE n \in DOMAIN sent
    BY <1>5, <2>1
  <2>2. CASE n = last
    BY <1>3, <1>5, <2>2 DEF PacketOK
  <2> QED
    BY <1>2, <1>5, <1>6, <2>1, <2>2
<1>8. EncoderOK'
  <2>1. encoder' \in [seq : Nat, key : Keys \cup {NoFrame}, restarts : Nat] /\ encoder'.key = key
    <3>1. encoder \in [seq : Nat, key : Keys \cup {NoFrame}, restarts : Nat]
      BY DEF Kgm2Inv, EncoderOK
    <3>2. encoder' = [seq |-> encoder.seq + 1, key |-> key, restarts |-> encoder.restarts]
      BY <1>1, <3>1
    <3>3. encoder.seq \in Nat /\ encoder.restarts \in Nat
      BY <3>1
    <3>4. encoder.seq + 1 \in Nat
      BY <3>3
    <3>5. key \in Keys \cup {NoFrame}
      BY <1>4
    <3> QED
      BY <3>2, <3>3, <3>4, <3>5
  <2>2. last \in DOMAIN sent'
    BY <1>2, <1>5
  <2> QED
    BY <1>3, <1>4, <1>5, <2>1, <2>2 DEF EncoderOK, HoldsKeyframe
<1> QED
  BY <1>5, <1>7, <1>8 DEF Kgm2Inv

\* encodeDelta, in reach of the last keyframe.
LEMMA DeltaStep ==
  ASSUME Kgm2Inv, NEW frame \in Faces, EncodeDelta(frame), encoder.key # NoFrame,
         UNCHANGED <<keyframes, decoded>>
  PROVE  Kgm2Inv'
<1> DEFINE key == encoder.key
           last == Len(sent) + 1
           packet == Packet("delta", KeyId, frame.w - key.w, Clamped(frame.p - key.p), frame, key.n)
<1>1. sent' = Append(sent, packet) /\ encoder' = [encoder EXCEPT !.seq = @ + 1]
  BY DEF EncodeDelta
<1>2. key \in Keys /\ HoldsKeyframe(key, key.n)
  BY DEF Kgm2Inv, EncoderOK
<1>3. /\ frame.w \in Int /\ frame.p \in Int /\ key.w \in Int /\ key.p \in Int /\ key.n \in Nat
      /\ last \in Nat
  BY <1>2, FaceTypes DEF Keys, Kgm2Inv, SentOK
<1>4. frame.w - key.w \in Int /\ Clamped(frame.p - key.p) \in Int
  BY <1>3, Kgm2Assumption DEF Clamped
<1>5. /\ packet \in Packets /\ packet.type = "delta" /\ packet.of = frame /\ packet.base = key.n
      /\ packet.w = frame.w - key.w /\ packet.p = Clamped(frame.p - key.p)
  BY <1>3, <1>4, KeyIdType DEF Packet, Packets
<1> HIDE DEF packet
<1>6. /\ sent' \in Seq(Packets) /\ DOMAIN sent' = 1 .. last /\ sent'[last] = packet
      /\ \A n \in DOMAIN sent : n \in DOMAIN sent' /\ PacketOK(sent[n])' /\ sent'[n] = sent[n]
      /\ KeyframesOK' /\ DecodedOK'
  BY <1>1, <1>5, ChannelGrows
<1>7. DOMAIN sent = 1 .. last - 1
  BY DEF Kgm2Inv, SentOK
<1>8. SentOK'
  <2> SUFFICES ASSUME NEW n \in DOMAIN sent' PROVE PacketOK(sent[n])'
    BY <1>6 DEF SentOK
  <2>1. CASE n \in DOMAIN sent
    BY <1>6, <2>1
  <2>2. CASE n = last
    <3>1. /\ key.n \in DOMAIN sent' /\ sent'[key.n].type = "keyframe"
          /\ key.w = sent'[key.n].w /\ key.p = sent'[key.n].p
      BY <1>2, <1>6 DEF HoldsKeyframe
    <3> QED
      BY <1>5, <1>6, <2>2, <3>1 DEF PacketOK, Clamped
  <2> QED
    BY <1>3, <1>6, <1>7, <2>1, <2>2
<1>9. EncoderOK'
  <2>1. encoder' \in [seq : Nat, key : Keys \cup {NoFrame}, restarts : Nat] /\ encoder'.key = key
    BY <1>1 DEF Kgm2Inv, EncoderOK
  <2> QED
    BY <1>2, <1>6, <2>1 DEF EncoderOK, HoldsKeyframe
<1> QED
  BY <1>6, <1>8, <1>9 DEF Kgm2Inv

\* encode takes one of the two.
LEMMA EncodeStep ==
  ASSUME Kgm2Inv, NEW w \in Weights, NEW p \in Positions, Encode([w |-> w, p |-> p])
  PROVE  Kgm2Inv'
<1>1. [w |-> w, p |-> p] \in Faces
  BY DEF Faces
<1> QED
  BY <1>1, KeyframeStep, DeltaStep DEF Encode

\* What is left of a sequence once an element is removed are elements of it.
LEMMA Removed ==
  ASSUME NEW S, NEW s \in Seq(S), NEW i \in DOMAIN s
  PROVE  /\ RemoveAt(s, i) \in Seq(S)
         /\ \A j \in DOMAIN RemoveAt(s, i) : \E k \in DOMAIN s : RemoveAt(s, i)[j] = s[k]
<1> DEFINE front == SubSeq(s, 1, i - 1)
           back == SubSeq(s, i + 1, Len(s))
<1>1. Len(s) \in Nat /\ i \in 1 .. Len(s) /\ DOMAIN s = 1 .. Len(s)
  OBVIOUS
<1>2. /\ front \in Seq(S) /\ Len(front) = i - 1
      /\ \A j \in 1 .. i - 1 : front[j] = s[j]
  BY <1>1, SubSeqProperties
<1>3. /\ back \in Seq(S) /\ Len(back) = Len(s) - i
      /\ \A j \in 1 .. Len(s) - i : back[j] = s[i + j]
  <2>1. \A j \in i + 1 .. Len(s) : s[j] \in S
    BY <1>1
  <2>2. /\ back \in Seq(S) /\ Len(back) = IF i + 1 <= Len(s) THEN Len(s) - (i + 1) + 1 ELSE 0
        /\ \A j \in 1 .. Len(s) - (i + 1) + 1 : back[j] = s[i + 1 + j - 1]
    BY <1>1, <2>1, SubSeqProperties
  <2> QED
    BY <1>1, <2>2
<1> HIDE DEF front, back
<1>4. /\ front \o back \in Seq(S) /\ Len(front \o back) = Len(s) - 1
      /\ \A j \in 1 .. Len(s) - 1 :
           (front \o back)[j] = IF j <= i - 1 THEN front[j] ELSE back[j - (i - 1)]
  <2>1. Len(front) + Len(back) = Len(s) - 1
    BY <1>1, <1>2, <1>3
  <2>2. /\ front \o back \in Seq(S) /\ Len(front \o back) = Len(front) + Len(back)
        /\ \A j \in 1 .. Len(front) + Len(back) : (front \o back)[j] =
             IF j <= Len(front) THEN front[j] ELSE back[j - Len(front)]
    BY <1>2, <1>3, ConcatProperties
  <2> QED
    BY <1>2, <2>1, <2>2
<1>5. \A j \in 1 .. Len(s) - 1 : \E k \in DOMAIN s : (front \o back)[j] = s[k]
  <2> SUFFICES ASSUME NEW j \in 1 .. Len(s) - 1 PROVE \E k \in DOMAIN s : (front \o back)[j] = s[k]
    OBVIOUS
  <2>1. CASE j <= i - 1
    <3>1. (front \o back)[j] = front[j]
      BY <1>4, <2>1
    <3>2. j \in 1 .. i - 1 /\ j \in DOMAIN s
      BY <1>1, <2>1
    <3> QED
      BY <1>2, <3>1, <3>2
  <2>2. CASE j > i - 1
    <3>1. (front \o back)[j] = back[j - (i - 1)]
      BY <1>1, <1>4, <2>2
    <3>2. j - (i - 1) \in 1 .. Len(s) - i /\ i + (j - (i - 1)) = j + 1 /\ j + 1 \in DOMAIN s
      BY <1>1, <2>2
    <3> QED
      BY <1>3, <3>1, <3>2
  <2>3. j <= i - 1 \/ j > i - 1
    BY <1>1
  <2> QED
    BY <2>1, <2>2, <2>3
<1>6. RemoveAt(s, i) = front \o back
  BY DEF RemoveAt, front, back
<1>7. DOMAIN (front \o back) = 1 .. Len(s) - 1
  BY <1>4
<1> QED
  BY <1>4, <1>5, <1>6, <1>7

\* The keyframes after one more are the one that came and some of those before.
LEMMA RefreshedEntries ==
  ASSUME keyframes \in Seq(Entries), NEW key \in Entries
  PROVE  /\ Refreshed(key) \in Seq(Entries)
         /\ \A j \in DOMAIN Refreshed(key) :
              \/ Refreshed(key)[j] = key
              \/ \E k \in DOMAIN keyframes : Refreshed(key)[j] = keyframes[k]
<1> DEFINE others == IF HeldUnder(key.id) = {} THEN keyframes
                     ELSE RemoveAt(keyframes, CHOOSE i \in HeldUnder(key.id) : TRUE)
           all == Append(others, key)
<1>1. /\ others \in Seq(Entries)
      /\ \A j \in DOMAIN others : \E k \in DOMAIN keyframes : others[j] = keyframes[k]
  <2>1. CASE HeldUnder(key.id) = {}
    BY <2>1
  <2>2. CASE HeldUnder(key.id) # {}
    <3>1. PICK i \in DOMAIN keyframes : i = CHOOSE j \in HeldUnder(key.id) : TRUE
      BY <2>2 DEF HeldUnder
    <3>2. others = RemoveAt(keyframes, i)
      BY <2>2, <3>1
    <3> HIDE DEF others
    <3> QED
      BY <3>2, Removed
  <2> QED
    BY <2>1, <2>2
<1> HIDE DEF others
<1>2. /\ all \in Seq(Entries) /\ all # <<>> /\ Len(all) = Len(others) + 1
      /\ \A j \in 1 .. Len(others) : all[j] = others[j]
      /\ all[Len(others) + 1] = key
  BY <1>1, AppendProperties
<1>3. \A j \in DOMAIN all : all[j] = key \/ \E k \in DOMAIN keyframes : all[j] = keyframes[k]
  <2>1. DOMAIN all = 1 .. Len(others) + 1 /\ DOMAIN others = 1 .. Len(others) /\ Len(others) \in Nat
    BY <1>1, <1>2
  <2> SUFFICES ASSUME NEW j \in DOMAIN all, j # Len(others) + 1
               PROVE  \E k \in DOMAIN keyframes : all[j] = keyframes[k]
    BY <1>2
  <2>2. j \in DOMAIN others
    BY <2>1
  <2> QED
    BY <1>1, <1>2, <2>1, <2>2
<1> HIDE DEF all
<1>4. /\ Tail(all) \in Seq(Entries) /\ Len(Tail(all)) = Len(all) - 1
      /\ \A j \in 1 .. Len(Tail(all)) : Tail(all)[j] = all[j + 1]
  BY <1>2, HeadTailProperties
<1>5. \A j \in DOMAIN Tail(all) : j + 1 \in DOMAIN all /\ Tail(all)[j] = all[j + 1]
  BY <1>2, <1>4
<1>6. Refreshed(key) \in {all, Tail(all)}
  BY DEF Refreshed, all, others
<1>7. CASE Refreshed(key) = all
  BY <1>2, <1>3, <1>7
<1>8. CASE Refreshed(key) = Tail(all)
  BY <1>3, <1>4, <1>5, <1>8
<1> QED
  BY <1>6, <1>7, <1>8

\* decode of any packet on the channel.
LEMMA DecodeStep ==
  ASSUME Kgm2Inv, NEW n \in DOMAIN sent, Decode(n)
  PROVE  Kgm2Inv'
<1> DEFINE packet == sent[n]
           key == [id |-> packet.id, n |-> n, w |-> packet.w, p |-> packet.p]
<1>1. /\ UNCHANGED <<encoder, sent>>
      /\ decoded' = [packet |-> packet, frame |-> ReadPacket(packet)]
      /\ keyframes' = IF packet.type = "delta" THEN keyframes ELSE Refreshed(key)
  BY DEF Decode
<1>2. packet \in Packets /\ n \in Nat
  BY DEF Kgm2Inv, SentOK
<1>3. SentOK'
  BY <1>1 DEF Kgm2Inv, SentOK, PacketOK, Clamped
<1>4. EncoderOK'
  BY <1>1 DEF Kgm2Inv, EncoderOK, HoldsKeyframe
<1>5. KeyframesOK'
  <2>1. CASE packet.type = "delta"
    BY <1>1, <2>1 DEF Kgm2Inv, KeyframesOK, EntryOK, HoldsKeyframe
  <2>2. CASE packet.type = "keyframe"
    <3>1. key \in Entries /\ EntryOK(key)
      <4>1. key \in Entries
        BY <1>2 DEF Packets, Entries
      <4> QED
        BY <2>2, <4>1 DEF EntryOK, HoldsKeyframe
    <3> HIDE DEF key
    <3>2. /\ keyframes' \in Seq(Entries)
          /\ \A j \in DOMAIN keyframes' :
               keyframes'[j] = key \/ \E k \in DOMAIN keyframes : keyframes'[j] = keyframes[k]
      BY <1>1, <2>2, <3>1, RefreshedEntries DEF Kgm2Inv, KeyframesOK
    <3>3. \A j \in DOMAIN keyframes' : EntryOK(keyframes'[j])
      BY <3>1, <3>2 DEF Kgm2Inv, KeyframesOK
    <3> QED
      BY <1>1, <3>2, <3>3 DEF KeyframesOK, EntryOK, HoldsKeyframe
  <2> QED
    BY <1>2, <2>1, <2>2 DEF Packets
<1>6. DecodedOK'
  <2> SUFFICES ASSUME packet.type = "delta"
               PROVE  \/ ReadPacket(packet) = NoFrame /\ HeldUnder(packet.id) = {}
                      \/ \E m \in SentUnder(packet.id) : ReadPacket(packet) = ReadOn(packet, sent[m])
    <3>1. decoded'.packet = sent'[n] /\ decoded'.packet = packet /\ decoded'.frame = ReadPacket(packet)
      BY <1>1
    <3>2. \A id : SentUnder(id)' = SentUnder(id)
      BY <1>1 DEF SentUnder
    <3>3. packet.type = "delta" => \A id : HeldUnder(id)' = HeldUnder(id)
      BY <1>1 DEF HeldUnder
    <3> QED
      BY <1>1, <3>1, <3>2, <3>3 DEF DecodedOK, ReadOn
  <2>1. CASE HeldUnder(packet.id) = {}
    BY <2>1 DEF ReadPacket
  <2>2. CASE HeldUnder(packet.id) # {}
    <3>1. PICK i \in DOMAIN keyframes : /\ i = CHOOSE j \in HeldUnder(packet.id) : TRUE
                                        /\ keyframes[i].id = packet.id
      BY <2>2 DEF HeldUnder
    <3>2. ReadPacket(packet) = ReadOn(packet, keyframes[i])
      BY <2>2, <3>1 DEF ReadPacket, ReadOn
    <3>3. EntryOK(keyframes[i])
      BY DEF Kgm2Inv, KeyframesOK
    <3>4. /\ keyframes[i].n \in SentUnder(packet.id)
          /\ keyframes[i].w = sent[keyframes[i].n].w /\ keyframes[i].p = sent[keyframes[i].n].p
      BY <3>1, <3>3 DEF EntryOK, HoldsKeyframe, SentUnder
    <3> QED
      BY <3>2, <3>4 DEF ReadOn
  <2> QED
    BY <2>1, <2>2
<1> QED
  BY <1>3, <1>4, <1>5, <1>6 DEF Kgm2Inv

\* A new encoder leaves channel and decoder as they are.
LEMMA ChannelKept ==
  ASSUME Kgm2Inv, UNCHANGED <<sent, keyframes, decoded>>, EncoderOK'
  PROVE  Kgm2Inv'
BY DEF Kgm2Inv, SentOK, PacketOK, Clamped, KeyframesOK, EntryOK, HoldsKeyframe, DecodedOK,
       HeldUnder, SentUnder, ReadOn

\* Every step of encoder, channel and decoder keeps the invariant.
LEMMA Kgm2NextInv == Kgm2Inv /\ [Kgm2Next]_kgm2Vars => Kgm2Inv'
<1> SUFFICES ASSUME Kgm2Inv, [Kgm2Next]_kgm2Vars PROVE Kgm2Inv'
  OBVIOUS
<1>1. ASSUME NEW w \in Weights, NEW p \in Positions, Encode([w |-> w, p |-> p]) PROVE Kgm2Inv'
  BY <1>1, EncodeStep
<1>2. CASE Skip
  <2>1. EncoderOK'
    BY <1>2 DEF Skip, Kgm2Inv, EncoderOK, HoldsKeyframe
  <2> QED
    BY <1>2, <2>1, ChannelKept DEF Skip
<1>3. CASE Restart
  <2>1. EncoderOK'
    BY <1>3 DEF Restart, Kgm2Inv, EncoderOK
  <2> QED
    BY <1>3, <2>1, ChannelKept DEF Restart
<1>4. ASSUME NEW n \in DOMAIN sent, Decode(n) PROVE Kgm2Inv'
  BY <1>4, DecodeStep
<1>5. CASE UNCHANGED kgm2Vars
  <2>1. EncoderOK'
    BY <1>5 DEF kgm2Vars, Kgm2Inv, EncoderOK, HoldsKeyframe
  <2> QED
    BY <1>5, <2>1, ChannelKept DEF kgm2Vars
<1> QED
  BY <1>1, <1>2, <1>3, <1>4, <1>5 DEF Kgm2Next

\* Whatever the channel loses, repeats or reorders and whatever the decoder forgets, a
\* delta is read on the keyframe it was made against unless its id named another one
\* too, and is read whenever that keyframe is still held (shared/kgm2.js 51-110).
THEOREM DeltasOnTheirBase == Kgm2Spec => []DeltaOnItsBase
<1>1. Kgm2Spec => []Kgm2Inv
  BY Kgm2InitInv, Kgm2NextInv, PTL DEF Kgm2Spec
<1> QED
  BY <1>1, Kgm2InvBase, PTL


-----------------------------------------------------------------------------
(***************************************************************************)
(* The percussion kit, for any catalogue, any width of the picture and any *)
(* order of edits, switches and reloads.                                   *)
(*                                                                         *)
(* KitInv says where a placed zone is: at the place the user pointed at,   *)
(* turned over if the preview was mirrored then; where it is drawn and     *)
(* which hand is in it follow.                                             *)
(***************************************************************************)

WellFormed(config) == config \in Kits /\ DOMAIN config.zones = ZoneIds(config.id)

KitType ==
  /\ WellFormed(kit) /\ chosen \in ZoneIds(kit.id)
  /\ mirrored \in BOOLEAN /\ drummer \in BOOLEAN /\ armed \in BOOLEAN
  /\ pointed \in [DOMAIN pointed -> PreviewPlaces \X BOOLEAN]

\* A placed zone is where the user pointed.
ZonesPointedAt ==
  \A z \in DOMAIN kit.zones : kit.zones[z].calibrated =>
    /\ z \in DOMAIN pointed
    /\ kit.zones[z].x = IF pointed[z][2] THEN Width - pointed[z][1] ELSE pointed[z][1]

KitKept ==
  /\ keptKit \in {NoKit, kit}
  /\ keptKit = NoKit => kit = CreateDefaultDrumKitConfig(DefaultKit)

KitInv == KitType /\ ZonesPointedAt /\ KitKept

\* The kits of the catalogue are well formed, and none of their zones is placed.
LEMMA DefaultKitWellFormed ==
  ASSUME NEW id \in DOMAIN Catalogue
  PROVE  /\ WellFormed(CreateDefaultDrumKitConfig(id))
         /\ CreateDefaultDrumKitConfig(id).id = id
         /\ \A z \in ZoneIds(id) : ~CreateDefaultDrumKitConfig(id).zones[z].calibrated
         /\ Head(Catalogue[id]).id \in ZoneIds(id)
<1>1. ASSUME NEW z \in ZoneIds(id)
      PROVE  ZoneDef(id, z).x \in 0 .. Width /\ ZoneDef(id, z).radius \in MinRadius .. MaxRadius
  BY KitAssumption DEF KitAssumption, ZoneIds, ZoneDef
<1>2. CreateDefaultDrumKitConfig(id).zones \in [ZoneIds(id) -> ZoneSettings]
  BY <1>1 DEF CreateDefaultDrumKitConfig, ZoneSettings
<1>3. 1 \in DOMAIN Catalogue[id] /\ Head(Catalogue[id]) = Catalogue[id][1]
  BY KitAssumption DEF KitAssumption
<1> QED
  BY <1>2, <1>3 DEF WellFormed, Kits, CreateDefaultDrumKitConfig, ZoneIds

\* A value that lies within its range stays.
LEMMA WithinRange ==
  ASSUME NEW low \in Int, NEW high \in Int, low <= high, NEW v \in Int
  PROVE  /\ Within(v, low, high) \in low .. high
         /\ v \in low .. high => Within(v, low, high) = v
BY DEF Within

\* Normalising leaves a well-formed kit as it is.
LEMMA NormalKitStays ==
  ASSUME NEW config, WellFormed(config)
  PROVE  NormalizeDrumKitConfig(config) = config
<1>1. config = [id |-> config.id, zones |-> config.zones] /\ config.id \in DOMAIN Catalogue
  BY DEF WellFormed, Kits
<1>2. config.zones \in [ZoneIds(config.id) -> ZoneSettings]
  BY DEF WellFormed, Kits
<1>3. ASSUME NEW z \in ZoneIds(config.id)
      PROVE  [config.zones[z] EXCEPT !.x = Within(@, 0, Width),
                                     !.radius = Within(@, MinRadius, MaxRadius)] = config.zones[z]
  <2>1. config.zones[z] \in ZoneSettings
    BY <1>2
  <2>2. /\ Within(config.zones[z].x, 0, Width) = config.zones[z].x
        /\ Within(config.zones[z].radius, MinRadius, MaxRadius) = config.zones[z].radius
    <3>1. config.zones[z].x \in 0 .. Width /\ config.zones[z].radius \in MinRadius .. MaxRadius
      BY <2>1 DEF ZoneSettings
    <3>2. /\ Width \in Int /\ MinRadius \in Int /\ MaxRadius \in Int /\ 0 \in Int
          /\ 0 <= Width /\ MinRadius <= MaxRadius
      BY KitAssumption DEF KitAssumption
    <3>3. config.zones[z].x \in Int /\ config.zones[z].radius \in Int
      BY <3>1, <3>2
    <3>4. Within(config.zones[z].x, 0, Width) = config.zones[z].x
      BY <3>1, <3>2, <3>3, WithinRange
    <3>5. Within(config.zones[z].radius, MinRadius, MaxRadius) = config.zones[z].radius
      BY <3>1, <3>2, <3>3, WithinRange
    <3> QED
      BY <3>4, <3>5
  <2> QED
    BY <2>1, <2>2 DEF ZoneSettings
<1>4. NormalizeDrumKitConfig(config).zones = config.zones
  BY <1>2, <1>3 DEF NormalizeDrumKitConfig
<1> QED
  BY <1>1, <1>4 DEF NormalizeDrumKitConfig

\* What an edit of a zone leaves of it.
LEMMA ZoneEdits ==
  ASSUME NEW here \in [x : 0 .. Width, radius : Nat, calibrated : BOOLEAN], NEW p \in 0 .. Width
  PROVE  /\ [here EXCEPT !.x = p, !.calibrated = TRUE]
              \in [x : 0 .. Width, radius : Nat, calibrated : BOOLEAN]
         /\ [here EXCEPT !.x = p, !.calibrated = TRUE].x = p
         /\ [here EXCEPT !.calibrated = FALSE]
              \in [x : 0 .. Width, radius : Nat, calibrated : BOOLEAN]
         /\ [here EXCEPT !.calibrated = FALSE].x = here.x
         /\ ~[here EXCEPT !.calibrated = FALSE].calibrated
OBVIOUS

\* An edit of the chosen zone changes that zone only, and limits its radius.
LEMMA EditChangesOneZone ==
  ASSUME WellFormed(kit), chosen \in ZoneIds(kit.id),
         NEW zone \in [x : 0 .. Width, radius : Nat, calibrated : BOOLEAN]
  PROVE  LET made == NormalizeDrumKitConfig(WithZone(chosen, zone)) IN
         /\ WellFormed(made) /\ made.id = kit.id
         /\ made.zones[chosen].x = zone.x /\ made.zones[chosen].calibrated = zone.calibrated
         /\ \A z \in ZoneIds(kit.id) \ {chosen} : made.zones[z] = kit.zones[z]
<1> DEFINE config == WithZone(chosen, zone)
           made == NormalizeDrumKitConfig(config)
<1>1. kit = [id |-> kit.id, zones |-> kit.zones] /\ kit.id \in DOMAIN Catalogue
      /\ kit.zones \in [ZoneIds(kit.id) -> ZoneSettings]
  BY DEF WellFormed, Kits
<1>2. /\ config.id = kit.id /\ DOMAIN config.zones = ZoneIds(kit.id) /\ config.zones[chosen] = zone
      /\ \A z \in ZoneIds(kit.id) \ {chosen} : config.zones[z] = kit.zones[z]
  BY <1>1 DEF WithZone
<1>3. /\ made.id = kit.id /\ DOMAIN made.zones = ZoneIds(kit.id)
      /\ made = [id |-> made.id, zones |-> made.zones]
  BY <1>2 DEF NormalizeDrumKitConfig
<1> DEFINE Limited(z) == [z EXCEPT !.x = Within(@, 0, Width), !.radius = Within(@, MinRadius, MaxRadius)]
<1>4. \A z \in ZoneIds(kit.id) : made.zones[z] = Limited(config.zones[z])
  BY <1>2 DEF NormalizeDrumKitConfig
<1> HIDE DEF config, made
<1>5. ASSUME NEW x \in 0 .. Width, NEW r \in Nat
      PROVE  Within(x, 0, Width) = x /\ Within(r, MinRadius, MaxRadius) \in MinRadius .. MaxRadius
             /\ (r \in MinRadius .. MaxRadius => Within(r, MinRadius, MaxRadius) = r)
  <2>1. /\ Width \in Int /\ MinRadius \in Int /\ MaxRadius \in Int
        /\ 0 <= Width /\ MinRadius <= MaxRadius /\ x \in Int /\ r \in Int
    BY KitAssumption DEF KitAssumption
  <2>2. Within(x, 0, Width) = x
    BY <2>1, WithinRange
  <2>3. /\ Within(r, MinRadius, MaxRadius) \in MinRadius .. MaxRadius
        /\ r \in MinRadius .. MaxRadius => Within(r, MinRadius, MaxRadius) = r
    BY <2>1, WithinRange
  <2> QED
    BY <2>2, <2>3
<1>6. made.zones[chosen] \in ZoneSettings /\ made.zones[chosen].x = zone.x
      /\ made.zones[chosen].calibrated = zone.calibrated
  <2>1. Within(zone.x, 0, Width) = zone.x
        /\ Within(zone.radius, MinRadius, MaxRadius) \in MinRadius .. MaxRadius
    BY <1>5
  <2> QED
    BY <1>2, <1>4, <2>1 DEF ZoneSettings
<1>7. ASSUME NEW z \in ZoneIds(kit.id) \ {chosen} PROVE made.zones[z] = kit.zones[z]
  <2>1. kit.zones[z].x \in 0 .. Width /\ kit.zones[z].radius \in MinRadius .. MaxRadius
        /\ kit.zones[z].radius \in Nat
    BY <1>1, KitAssumption DEF ZoneSettings, KitAssumption
  <2>2. Within(kit.zones[z].x, 0, Width) = kit.zones[z].x
        /\ Within(kit.zones[z].radius, MinRadius, MaxRadius) = kit.zones[z].radius
    BY <1>5, <2>1
  <2>3. PICK here \in ZoneSettings : here = kit.zones[z]
    BY <1>1
  <2>4. Limited(here) = here
    BY <2>2, <2>3 DEF ZoneSettings
  <2> QED
    BY <1>2, <1>4, <2>3, <2>4
<1>8. made.zones \in [ZoneIds(kit.id) -> ZoneSettings]
  <2>1. made.zones = [z \in ZoneIds(kit.id) |-> made.zones[z]]
    BY <1>2 DEF made, NormalizeDrumKitConfig
  <2> QED
    BY <1>1, <1>6, <1>7, <2>1
<1> QED
  BY <1>1, <1>3, <1>6, <1>7, <1>8 DEF WellFormed, Kits, made, config

\* Saving an edit of the chosen zone that places it where the user pointed, or leaves its
\* place alone, keeps the invariant.
LEMMA EditKeepsKitInv ==
  ASSUME KitInv, NEW zone \in [x : 0 .. Width, radius : Nat, calibrated : BOOLEAN],
         SaveDrumKit(WithZone(chosen, zone)),
         mirrored' \in BOOLEAN, drummer' \in BOOLEAN, armed' \in BOOLEAN,
         pointed' \in [DOMAIN pointed' -> PreviewPlaces \X BOOLEAN],
         \A z \in DOMAIN pointed \ {chosen} : z \in DOMAIN pointed' /\ pointed'[z] = pointed[z],
         zone.calibrated =>
           /\ chosen \in DOMAIN pointed'
           /\ zone.x = IF pointed'[chosen][2] THEN Width - pointed'[chosen][1] ELSE pointed'[chosen][1]
  PROVE  KitInv'
<1> DEFINE made == NormalizeDrumKitConfig(WithZone(chosen, zone))
<1>1. WellFormed(kit) /\ chosen \in ZoneIds(kit.id) /\ DOMAIN kit.zones = ZoneIds(kit.id)
  BY DEF KitInv, KitType, WellFormed
<1>2. /\ WellFormed(made) /\ made.id = kit.id
      /\ made.zones[chosen].x = zone.x /\ made.zones[chosen].calibrated = zone.calibrated
      /\ \A z \in ZoneIds(kit.id) \ {chosen} : made.zones[z] = kit.zones[z]
  BY <1>1, EditChangesOneZone
<1>3. kit' = made /\ keptKit' = made /\ chosen' = StillChosen(made)
  BY DEF SaveDrumKit
<1> HIDE DEF made
<1>4. DOMAIN made.zones = ZoneIds(kit.id) /\ made \in Kits
  BY <1>2 DEF WellFormed
<1>5. chosen' = chosen
  BY <1>1, <1>3, <1>4 DEF StillChosen
<1>6. KitType'
  BY <1>1, <1>2, <1>3, <1>5 DEF KitType, WellFormed
<1>7. ZonesPointedAt'
  <2> SUFFICES ASSUME NEW z \in ZoneIds(kit.id), made.zones[z].calibrated
               PROVE  /\ z \in DOMAIN pointed'
                      /\ made.zones[z].x = IF pointed'[z][2] THEN Width - pointed'[z][1] ELSE pointed'[z][1]
    BY <1>3, <1>4 DEF ZonesPointedAt
  <2>1. CASE z = chosen
    BY <1>2, <2>1
  <2>2. CASE z # chosen
    BY <1>1, <1>2, <2>2 DEF KitInv, ZonesPointedAt
  <2> QED
    BY <2>1, <2>2
<1>8. KitKept'
  BY <1>3, <1>4, KitAssumption DEF KitKept, KitAssumption
<1> QED
  BY <1>6, <1>7, <1>8 DEF KitInv

\* Saving a kit of the catalogue, with nothing pointed at, does too.
LEMMA NewKitKeepsKitInv ==
  ASSUME NEW id \in DOMAIN Catalogue,
         kit' = CreateDefaultDrumKitConfig(id), keptKit' = kit',
         chosen' \in ZoneIds(id), pointed' = <<>>,
         mirrored' \in BOOLEAN, drummer' \in BOOLEAN, armed' \in BOOLEAN
  PROVE  KitInv'
<1>1. /\ WellFormed(kit') /\ kit'.id = id /\ kit' \in Kits /\ DOMAIN kit'.zones = ZoneIds(id)
      /\ \A z \in ZoneIds(id) : ~kit'.zones[z].calibrated
  BY DefaultKitWellFormed DEF WellFormed
<1>2. KitType'
  BY <1>1 DEF KitType, WellFormed
<1>3. ZonesPointedAt'
  BY <1>1 DEF ZonesPointedAt
<1>4. KitKept'
  BY <1>1, KitAssumption DEF KitKept, KitAssumption
<1> QED
  BY <1>2, <1>3, <1>4 DEF KitInv

LEMMA KitInvStep == KitInv /\ [KitNext]_kitVars => KitInv'
<1> SUFFICES ASSUME KitInv, [KitNext]_kitVars PROVE KitInv'
  OBVIOUS
<1>0. /\ kit \in Kits /\ kit.id \in DOMAIN Catalogue /\ DOMAIN kit.zones = ZoneIds(kit.id)
      /\ WellFormed(kit) /\ chosen \in ZoneIds(kit.id)
      /\ kit.zones[chosen] \in ZoneSettings
      /\ mirrored \in BOOLEAN /\ drummer \in BOOLEAN /\ armed \in BOOLEAN
      /\ pointed \in [DOMAIN pointed -> PreviewPlaces \X BOOLEAN]
  BY DEF KitInv, KitType, WellFormed, Kits
<1>1. ASSUME NEW id \in DOMAIN Catalogue, SaveDrumKit(CreateDefaultDrumKitConfig(id)),
             pointed' = <<>>, mirrored' = mirrored, drummer' = drummer, armed' = FALSE
      PROVE  KitInv'
  <2> DEFINE config == CreateDefaultDrumKitConfig(id)
  <2>1. WellFormed(config) /\ config.id = id /\ Head(Catalogue[id]).id \in ZoneIds(id)
    BY DefaultKitWellFormed
  <2>2. NormalizeDrumKitConfig(config) = config
    BY <2>1, NormalKitStays
  <2>3. kit' = config /\ keptKit' = config /\ chosen' = StillChosen(config)
    BY <1>1, <2>2 DEF SaveDrumKit
  <2> HIDE DEF config
  <2>4. chosen' \in ZoneIds(id)
    BY <2>1, <2>3 DEF StillChosen, WellFormed
  <2> QED
    BY <1>0, <1>1, <2>3, <2>4, NewKitKeepsKitInv DEF config
<1>2. CASE ApplyPercussionKit
  BY <1>1, <1>2 DEF ApplyPercussionKit, KitForNewId
<1>3. CASE ResetDrumKit
  BY <1>1, <1>3, KitAssumption DEF ResetDrumKit, KitAssumption
<1>4. CASE ResetAllSettings
  <2> DEFINE config == CreateDefaultDrumKitConfig(DefaultKit)
  <2>1. /\ DefaultKit \in DOMAIN Catalogue /\ WellFormed(config) /\ config.id = DefaultKit
        /\ Head(Catalogue[DefaultKit]).id \in ZoneIds(DefaultKit)
    BY DefaultKitWellFormed, KitAssumption DEF KitAssumption
  <2>2. chosen' = StillChosen(config)
    BY <1>4 DEF ResetAllSettings
  <2> HIDE DEF config
  <2>3. chosen' \in ZoneIds(DefaultKit)
    BY <2>1, <2>2 DEF StillChosen, WellFormed
  <2> QED
    BY <1>4, <2>1, <2>3, NewKitKeepsKitInv DEF ResetAllSettings
<1>5. CASE PlaceSelectedDrumZone
  <2>1. PICK spot \in PreviewPlaces :
          /\ SaveDrumKit(WithZone(chosen, [kit.zones[chosen] EXCEPT !.x = PlacedX(spot),
                                                                    !.calibrated = TRUE]))
          /\ pointed' = [z \in DOMAIN pointed \cup {chosen} |->
                           IF z = chosen THEN <<spot, mirrored>> ELSE pointed[z]]
    BY <1>5 DEF PlaceSelectedDrumZone
  <2> DEFINE zone == [kit.zones[chosen] EXCEPT !.x = PlacedX(spot), !.calibrated = TRUE]
  <2>2. spot \in 0 .. Width /\ Width \in Nat /\ MinRadius \in Nat /\ MaxRadius \in Nat
    BY KitAssumption DEF KitAssumption
  <2>3. PlacedX(spot) \in 0 .. Width /\ PlacedX(spot) = IF mirrored THEN Width - spot ELSE spot
    BY <2>2 DEF PlacedX
  <2>4. zone \in [x : 0 .. Width, radius : Nat, calibrated : BOOLEAN]
        /\ zone.x = PlacedX(spot) /\ zone.calibrated
    <3>1. PICK here \in [x : 0 .. Width, radius : Nat, calibrated : BOOLEAN] : here = kit.zones[chosen]
      BY <1>0, <2>2 DEF ZoneSettings
    <3>2. zone = [here EXCEPT !.x = PlacedX(spot), !.calibrated = TRUE]
      BY <3>1
    <3>3. zone.calibrated
      BY <1>0 DEF ZoneSettings
    <3> HIDE DEF zone
    <3> QED
      BY <2>3, <3>2, <3>3, ZoneEdits
  <2>5. pointed' \in [DOMAIN pointed' -> PreviewPlaces \X BOOLEAN]
        /\ chosen \in DOMAIN pointed' /\ pointed'[chosen] = <<spot, mirrored>>
        /\ \A z \in DOMAIN pointed \ {chosen} : z \in DOMAIN pointed' /\ pointed'[z] = pointed[z]
    BY <1>0, <2>1
  <2>6. SaveDrumKit(WithZone(chosen, zone))
    BY <2>1
  <2>7. mirrored' \in BOOLEAN /\ drummer' \in BOOLEAN /\ armed' \in BOOLEAN
    BY <1>0, <1>5 DEF PlaceSelectedDrumZone
  <2> HIDE DEF zone
  <2> QED
    BY <2>3, <2>4, <2>5, <2>6, <2>7, EditKeepsKitInv
<1>6. ASSUME NEW zone \in [x : 0 .. Width, radius : Nat, calibrated : BOOLEAN],
             SaveDrumKit(WithZone(chosen, zone)), zone.x = kit.zones[chosen].x,
             zone.calibrated => kit.zones[chosen].calibrated,
             UNCHANGED <<mirrored, drummer, armed, pointed>>
      PROVE  KitInv'
  <2>1. zone.calibrated =>
          /\ chosen \in DOMAIN pointed
          /\ zone.x = IF pointed[chosen][2] THEN Width - pointed[chosen][1] ELSE pointed[chosen][1]
    BY <1>0, <1>6 DEF KitInv, ZonesPointedAt
  <2> QED
    BY <1>0, <1>6, <2>1, EditKeepsKitInv
<1>7. CASE MoveRadius
  <2>1. PICK r \in RadiusTries : SaveDrumKit(WithZone(chosen, [kit.zones[chosen] EXCEPT !.radius = r]))
    BY <1>7 DEF MoveRadius
  <2>2. r \in Nat
    BY KitAssumption DEF KitAssumption
  <2> QED
    BY <1>0, <1>6, <1>7, <2>1, <2>2 DEF MoveRadius, ZoneSettings
<1>8. CASE ClearZone
  <2> DEFINE zone == [kit.zones[chosen] EXCEPT !.calibrated = FALSE]
  <2>1. MinRadius \in Nat /\ MaxRadius \in Nat
    BY KitAssumption DEF KitAssumption
  <2>2. PICK here \in [x : 0 .. Width, radius : Nat, calibrated : BOOLEAN] : here = kit.zones[chosen]
    BY <1>0, <2>1 DEF ZoneSettings
  <2>3. zone = [here EXCEPT !.calibrated = FALSE]
    BY <2>2
  <2>4. 0 \in 0 .. Width
    BY KitAssumption DEF KitAssumption
  <2>5. zone \in [x : 0 .. Width, radius : Nat, calibrated : BOOLEAN]
        /\ zone.x = kit.zones[chosen].x /\ ~zone.calibrated
    <3> HIDE DEF zone
    <3> QED
      BY <2>2, <2>3, <2>4, ZoneEdits
  <2>6. SaveDrumKit(WithZone(chosen, zone)) /\ UNCHANGED <<mirrored, drummer, armed, pointed>>
    BY <1>8 DEF ClearZone
  <2> HIDE DEF zone
  <2> QED
    BY <1>6, <2>5, <2>6
<1>9. ASSUME chosen' \in ZoneIds(kit.id), mirrored' \in BOOLEAN, drummer' \in BOOLEAN, armed' \in BOOLEAN,
             UNCHANGED <<kit, keptKit, pointed>>
      PROVE  KitInv'
  BY <1>0, <1>9 DEF KitInv, KitType, ZonesPointedAt, KitKept
<1>10. CASE ReloadTracker
  <2>1. PICK mirror \in BOOLEAN, drums \in BOOLEAN : LoadKit(mirror, drums)
    BY <1>10 DEF ReloadTracker
  <2>2. kit = IF keptKit = NoKit THEN CreateDefaultDrumKitConfig(DefaultKit) ELSE keptKit
    BY DEF KitInv, KitKept
  <2>3. NormalizeDrumKitConfig(kit) = kit
    BY <1>0, NormalKitStays
  <2>4. kit' = kit /\ chosen' = Head(Catalogue[kit.id]).id
    BY <2>1, <2>2, <2>3 DEF LoadKit
  <2>5. chosen' \in ZoneIds(kit.id)
    BY <1>0, <2>4, DefaultKitWellFormed
  <2> QED
    BY <1>9, <2>1, <2>4, <2>5 DEF LoadKit
<1>11. CASE UNCHANGED kitVars
  BY <1>0, <1>9, <1>11 DEF kitVars
<1>12. CASE ChooseZone \/ PressArm \/ ToggleDrummer \/ ToggleMirror \/ SwitchSituation \/ StopDisarms
  BY <1>0, <1>9, <1>12
  DEF ChooseZone, PressArm, ToggleDrummer, ToggleMirror, SwitchSituation, StopDisarms
<1> QED
  BY <1>2, <1>3, <1>4, <1>5, <1>7, <1>8, <1>10, <1>11, <1>12 DEF KitNext

\* A hand at the place of a placed zone is in that zone or in another at the same place.
LEMMA HandAtZoneIsInIt ==
  ASSUME KitInv, NEW z \in ZoneIds(kit.id), kit.zones[z].calibrated
  PROVE  LET under == ZoneUnderHand(kit, kit.zones[z].x)
         IN  under # Nowhere /\ kit.zones[under].x = kit.zones[z].x
<1> DEFINE x == kit.zones[z].x
           Zone(i) == Catalogue[kit.id][i].id
           placed == {i \in DOMAIN Catalogue[kit.id] : kit.zones[Zone(i)].calibrated}
           nearest == {i \in placed : \A j \in placed :
                         Distance(x, kit.zones[Zone(i)].x) <= Distance(x, kit.zones[Zone(j)].x)}
           under == Zone(Min(nearest))
<1>1. /\ WellFormed(kit) /\ kit.id \in DOMAIN Catalogue /\ kit.zones \in [ZoneIds(kit.id) -> ZoneSettings]
      /\ Width \in Nat /\ MinRadius \in Nat /\ MaxRadius \in Nat /\ Nowhere \notin ZoneIds(kit.id)
  BY KitAssumption DEF KitInv, KitType, WellFormed, Kits, KitAssumption
<1>2. NormalizeDrumKitConfig(kit) = kit
  BY <1>1, NormalKitStays
<1>3. \A i \in placed : Zone(i) \in ZoneIds(kit.id) /\ kit.zones[Zone(i)].x \in Nat
  BY <1>1 DEF ZoneIds, ZoneSettings
<1>4. x \in Nat /\ Distance(x, x) = 0
  BY <1>1 DEF ZoneSettings, Distance
<1>5. \A i \in placed : Distance(x, kit.zones[Zone(i)].x) \in Nat
        /\ (Distance(x, kit.zones[Zone(i)].x) <= 0 => kit.zones[Zone(i)].x = x)
  <2>1. ASSUME NEW a \in Nat, NEW b \in Nat PROVE Distance(a, b) \in Nat /\ (Distance(a, b) <= 0 => b = a)
    BY DEF Distance
  <2> SUFFICES ASSUME NEW i \in placed
               PROVE  /\ Distance(x, kit.zones[Zone(i)].x) \in Nat
                      /\ (Distance(x, kit.zones[Zone(i)].x) <= 0 => kit.zones[Zone(i)].x = x)
    OBVIOUS
  <2>2. kit.zones[Zone(i)].x \in Nat
    BY <1>3
  <2> HIDE DEF x, Zone, placed
  <2> QED
    BY <1>4, <2>1, <2>2
<1>6. PICK k \in placed : Zone(k) = z
  BY DEF ZoneIds
<1>7. k \in nearest /\ \A i \in nearest : kit.zones[Zone(i)].x = x /\ Zone(i) \in ZoneIds(kit.id)
  <2>1. Distance(x, kit.zones[Zone(k)].x) = 0
    <3>1. kit.zones[Zone(k)].x = x
      BY <1>6
    <3> HIDE DEF x, Zone
    <3> QED
      BY <1>4, <3>1
  <2>2. \A j \in placed : Distance(x, kit.zones[Zone(k)].x) <= Distance(x, kit.zones[Zone(j)].x)
    <3> HIDE DEF x, Zone, placed
    <3> QED
      BY <1>5, <2>1
  <2>3. k \in nearest
    BY <1>6, <2>2
  <2>4. ASSUME NEW i \in nearest
        PROVE  kit.zones[Zone(i)].x = x /\ Zone(i) \in ZoneIds(kit.id)
    <3>1. i \in placed /\ Distance(x, kit.zones[Zone(i)].x) <= Distance(x, kit.zones[Zone(k)].x)
      BY <1>6
    <3> QED
      BY <1>3, <1>5, <2>1, <3>1
  <2> QED
    BY <2>3, <2>4
<1>8. nearest \subseteq Nat
  BY <1>1, KitAssumption DEF KitAssumption
<1>9. PICK n \in nearest : \A m \in nearest : n <= m
  <2> HIDE DEF nearest
  <2> QED
    BY <1>7, <1>8, LeastNatural
<1>10. Min(nearest) = n
  <2> HIDE DEF nearest
  <2> QED
    BY <1>8, <1>9, LeastIsMin
<1>11. under \in ZoneIds(kit.id) /\ kit.zones[under].x = x
  BY <1>7, <1>9, <1>10
<1>12. kit.zones[under].radius \in Nat
  <2> HIDE DEF under
  <2> QED
    BY <1>1, <1>11, SMTT(30) DEF ZoneSettings
<1>13. 100 * Distance(x, kit.zones[under].x) <= 135 * kit.zones[under].radius
  <2>1. Distance(x, kit.zones[under].x) = 0
    BY <1>4, <1>11
  <2> HIDE DEF under, x
  <2>2. PICK radius \in Nat : radius = kit.zones[under].radius
    BY <1>12
  <2>3. PICK distance : distance = Distance(x, kit.zones[under].x)
    OBVIOUS
  <2>4. 100 * distance <= 135 * radius
    BY <2>1, <2>3, SMTT(30)
  <2> QED
    BY <2>2, <2>3, <2>4, SMTT(30)
<1>14. ZoneUnderHand(kit, x) = IF nearest # {} /\ 100 * Distance(x, kit.zones[under].x) <= 135 * kit.zones[under].radius
                              THEN under ELSE Nowhere
  BY <1>2 DEF ZoneUnderHand
<1>15. ZoneUnderHand(kit, x) = under
  BY <1>7, <1>13, <1>14
<1> QED
  BY <1>1, <1>11, <1>15

\* For any catalogue and any order of kits chosen, zones placed, widened and cleared,
\* mirrors turned and reloads, a zone counts as placed only where the user pointed, is
\* drawn there, and a hand there is in it; the stored kit is the one in force.
THEOREM PlacedZonesAlwaysStay == KitSpec => []PlacedZonesStay
<1>1. KitInit => KitInv
  <2> SUFFICES ASSUME KitInit PROVE KitInv
    OBVIOUS
  <2>1. DefaultKit \in DOMAIN Catalogue
    BY KitAssumption DEF KitAssumption
  <2>2. /\ WellFormed(kit) /\ kit.id = DefaultKit /\ chosen \in ZoneIds(kit.id)
        /\ \A z \in ZoneIds(kit.id) : ~kit.zones[z].calibrated
    BY <2>1, DefaultKitWellFormed DEF KitInit
  <2>3. KitType
    <3>1. <<>> \in [DOMAIN <<>> -> PreviewPlaces \X BOOLEAN]
      <4>1. DOMAIN <<>> = {}
        OBVIOUS
      <4> QED
        BY <4>1
    <3>2. mirrored \in BOOLEAN /\ drummer \in BOOLEAN /\ armed \in BOOLEAN
      BY DEF KitInit
    <3>3. pointed \in [DOMAIN pointed -> PreviewPlaces \X BOOLEAN]
      BY <3>1 DEF KitInit
    <3> QED
      BY <2>2, <3>2, <3>3 DEF KitType
  <2> QED
    BY <2>2, <2>3 DEF KitInit, KitInv, ZonesPointedAt, KitKept, WellFormed
<1>2. KitInv => PlacedZonesStay
  <2> SUFFICES ASSUME KitInv PROVE PlacedZonesStay
    OBVIOUS
  <2>1. ASSUME NEW z \in DOMAIN kit.zones, kit.zones[z].calibrated
        PROVE  /\ z \in DOMAIN pointed
               /\ DrawnAt(kit.zones[z]) =
                    IF pointed[z][2] = mirrored THEN pointed[z][1] ELSE Width - pointed[z][1]
               /\ ~mirrored => HandWristToDrumStage(WristOf(kit.zones[z].x)) = kit.zones[z].x
               /\ z \in ZoneIds(kit.id)
    <3>1. z \in DOMAIN pointed /\ z \in ZoneIds(kit.id)
          /\ kit.zones[z].x = IF pointed[z][2] THEN Width - pointed[z][1] ELSE pointed[z][1]
      BY <2>1 DEF KitInv, KitType, WellFormed, ZonesPointedAt
    <3>2. kit.zones[z].x \in 0 .. Width /\ Width \in Nat /\ PreviewPlaces \subseteq 0 .. Width
      BY <3>1, KitAssumption DEF KitInv, KitType, WellFormed, Kits, ZoneSettings, KitAssumption
    <3>3. pointed[z] \in PreviewPlaces \X BOOLEAN /\ mirrored \in BOOLEAN
      BY <3>1 DEF KitInv, KitType
    <3>4. pointed[z][1] \in 0 .. Width /\ pointed[z][2] \in BOOLEAN
      BY <3>2, <3>3
    <3>5. DrawnAt(kit.zones[z]) = IF pointed[z][2] = mirrored THEN pointed[z][1] ELSE Width - pointed[z][1]
      BY <3>1, <3>2, <3>3, <3>4 DEF DrawnAt
    <3>6. ~mirrored => HandWristToDrumStage(WristOf(kit.zones[z].x)) = kit.zones[z].x
      BY <3>2 DEF HandWristToDrumStage, WristOf, Within
    <3> QED
      BY <3>1, <3>5, <3>6
  <2> QED
    BY <2>1, HandAtZoneIsInIt DEF PlacedZonesStay, KitInv, KitKept
<1> QED
  BY <1>1, <1>2, KitInvStep, PTL DEF KitSpec
=============================================================================
