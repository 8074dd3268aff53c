---------------------------- MODULE SenderProofs ----------------------------
(***************************************************************************)
(* Proofs about the sending side of the tracker page: the transport, the   *)
(* frame loop with its two recordings, and the drum stick.  Each section   *)
(* proves, for every value of its component's constants, what              *)
(* transport.cfg and tracker.cfg check on small instances.                 *)
(***************************************************************************)
EXTENDS Transport, TrackerLoop, DrumStick, FiniteSetTheorems, SequenceTheorems, TLAPS

-----------------------------------------------------------------------------
(***************************************************************************)
(* Transport keeps one connection, and its datagrams to it, for any number *)
(* of overlapping calls and of connection objects.                         *)
(*                                                                         *)
(* The datagrams need a strengthening: one that waits in the slot is for   *)
(* the installed connection, since whatever replaces the connection also   *)
(* empties the slot; and the unsettled writes are bounded together.        *)
(***************************************************************************)

SlotIsCurrent == slot # None => slot = cur

\* A write in flight is one more that may be unsettled.
Allowed == IF inFlight THEN MaxStale + 1 ELSE MaxStale

WritesBounded == live \in Nat /\ stale \in 0 .. MaxStale /\ live + stale <= Allowed

IInv == TypeOK /\ NoOrphans /\ DatagramsStay /\ SlotIsCurrent /\ WritesBounded

ConnTypes ==
  /\ conn \in [Conns -> ConnStates] /\ kind \in [Conns -> Modes]
  /\ cur \in Conns \cup {None}
  /\ mode = IF cur = None THEN None ELSE kind[cur]

JobTypes ==
  /\ job \in [Calls -> [plan : Seq(Modes), conn : Conns \cup {None}]]
  /\ \A k \in Calls : InProgress(k) => job[k].conn # None /\ job[k].plan # <<>>
  /\ latest \in Calls \cup {None}

WritesInv ==
  /\ slot \in Conns \cup {None} /\ SlotIsCurrent
  /\ inFlight \in BOOLEAN
  /\ strayed = FALSE
  /\ WritesBounded

\* Adding nothing, and adding one on both sides.
LEMMA Sums ==
  ASSUME NEW a \in Nat, NEW b \in Nat, NEW m \in Nat
  PROVE  /\ b <= m => 0 + b <= m
         /\ a + b <= m => (a + 1) + b <= m + 1
OBVIOUS

\* What the flag allows.
LEMMA AllowedValue ==
  /\ inFlight = TRUE => Allowed = MaxStale + 1
  /\ inFlight = FALSE => Allowed = MaxStale
BY Zenon DEF Allowed

LEMMA AllowedValueNext ==
  /\ inFlight' = TRUE => Allowed' = MaxStale + 1
  /\ inFlight' = FALSE => Allowed' = MaxStale
BY Zenon DEF Allowed

\* The types of the counters follow from their bound.
LEMMA Counters ==
  ASSUME inFlight \in BOOLEAN, WritesBounded
  PROVE  live \in 0 .. 1 + MaxStale /\ stale \in 0 .. MaxStale
<1>1. Allowed = MaxStale + 1 \/ Allowed = MaxStale
  BY AllowedValue
<1> QED
  BY <1>1, TransportAssumption DEF WritesBounded

\* The invariant falls into the connection's, the calls' and the writes' part.
LEMMA Parts == IInv <=> (ConnTypes /\ NoOrphans) /\ JobTypes /\ WritesInv
<1>1. strayed = FALSE <=> strayed \in BOOLEAN /\ ~strayed
  BY Zenon
<1> QED
  BY <1>1, Counters, Zenon
     DEF IInv, TypeOK, ConnTypes, JobTypes, WritesInv, DatagramsStay

LEMMA PartsNext ==
  ASSUME (ConnTypes /\ NoOrphans)', JobTypes', WritesInv'
  PROVE  IInv'
<1>1. ((ConnTypes /\ NoOrphans) /\ JobTypes /\ WritesInv => IInv)'
  BY Parts, PTL
<1> QED
  BY <1>1

\* The initial state satisfies the invariant.
LEMMA InitInv == Init => IInv
<1> SUFFICES ASSUME Init PROVE IInv
  OBVIOUS
<1>1. ConnTypes /\ NoOrphans
  BY DEF Init, ConnTypes, NoOrphans, ConnStates, Modes
<1>2. JobTypes
  BY EmptySeq DEF Init, JobTypes, NoJob, InProgress
<1>3. WritesInv
  <2>1. Allowed = MaxStale
    BY AllowedValue DEF Init
  <2>2. WritesBounded
    BY <2>1, TransportAssumption DEF Init, WritesBounded
  <2> QED
    BY <2>2 DEF Init, WritesInv, SlotIsCurrent
<1> QED
  BY <1>1, <1>2, <1>3, Parts

-----------------------------------------------------------------------------
(* The two steps from which the others are made                             *)

\* close() leaves no connection open, whatever it finds.
LEMMA AfterCloseShuts ==
  ASSUME ConnTypes, NoOrphans, NEW ended
  PROVE  /\ AfterClose(ended) \in [Conns -> ConnStates]
         /\ \A c \in Conns : AfterClose(ended)[c] \notin {"connecting", "open"}
<1> SUFFICES ASSUME NEW c \in Conns
             PROVE  AfterClose(ended)[c] \in ConnStates \ {"connecting", "open"}
  BY DEF AfterClose
<1>1. Shut(c) \in {"aborted", "closing", "unused"}
  BY DEF Shut
<1>2. c # cur => conn[c] \in ConnStates \ {"connecting", "open"}
  BY DEF ConnTypes, NoOrphans
<1> QED
  BY <1>1, <1>2 DEF AfterClose, ConnStates

\* close() forgets the writes.
LEMMA ForgetWritesInv ==
  ASSUME WritesInv, ForgetWrites
  PROVE  WritesInv'
<1>1. live' = 0 /\ stale' \in 0 .. MaxStale
  <2> DEFINE top == IF stale + live < MaxStale THEN stale + live ELSE MaxStale
  <2>1. live' = 0 /\ stale' \in stale .. top
    BY DEF ForgetWrites, WritesGoStale
  <2>2. stale \in 0 .. MaxStale /\ live \in Nat
    BY DEF WritesInv, WritesBounded
  <2>3. top \in Int /\ top <= MaxStale
    BY <2>2, TransportAssumption
  <2> HIDE DEF top
  <2> QED
    BY <2>1, <2>2, <2>3, TransportAssumption
<1>2. Allowed' = MaxStale
  BY AllowedValueNext DEF ForgetWrites
<1>3. live' \in Nat /\ live' + stale' <= MaxStale
  <2>1. MaxStale \in Nat /\ stale' \in Nat /\ stale' <= MaxStale
    BY <1>1, TransportAssumption
  <2>2. 0 + stale' <= MaxStale
    BY <2>1, Sums
  <2> QED
    BY <2>2, <1>1
<1>4. WritesBounded'
  BY <1>1, <1>2, <1>3 DEF WritesBounded
<1>5. strayed' = FALSE
  BY Zenon DEF WritesInv, ForgetWrites
<1> QED
  BY <1>4, <1>5 DEF WritesInv, SlotIsCurrent, ForgetWrites

\* A flush, with room for one more write, of a datagram for the connection.
LEMMA FlushInv ==
  ASSUME WritesInv, cur \in Conns \cup {None}, NEW waiting \in {None, cur}, Flush(waiting), cur' = cur,
         stale' \in 0 .. MaxStale, live + stale' <= MaxStale
  PROVE  WritesInv'
<1> USE DEF WritesInv
<1>1. CASE waiting # None /\ HasWriter
  <2>1. slot' = None /\ inFlight' = TRUE /\ live' = live + 1
    BY <1>1 DEF Flush
  <2>2. strayed' = FALSE
    BY <1>1, Zenon DEF Flush
  <2>3. Allowed' = MaxStale + 1
    BY <2>1, AllowedValueNext
  <2>4. live' \in Nat /\ live' + stale' <= MaxStale + 1
    <3>1. live \in Nat /\ MaxStale \in Nat
      BY TransportAssumption DEF WritesBounded
    <3>2. stale' \in Nat
      BY <3>1
    <3>3. (live + 1) + stale' <= MaxStale + 1
      BY <3>1, <3>2, Sums
    <3>4. live + 1 \in Nat
      BY <3>1
    <3> QED
      BY <2>1, <3>3, <3>4, Zenon
  <2>5. WritesBounded'
    BY <2>3, <2>4 DEF WritesBounded
  <2> QED
    BY <2>1, <2>2, <2>5 DEF SlotIsCurrent
<1>2. CASE ~(waiting # None /\ HasWriter)
  <2>1. slot' = waiting /\ inFlight' = FALSE /\ live' = live /\ strayed' = strayed
    BY <1>2, Zenon DEF Flush
  <2>2. WritesBounded'
    BY <2>1, AllowedValueNext, TransportAssumption DEF WritesBounded
  <2>3. strayed' = FALSE /\ inFlight' \in BOOLEAN
    BY <2>1
  <2>4. waiting \in Conns \cup {None} /\ SlotIsCurrent'
    BY <2>1 DEF SlotIsCurrent
  <2> QED
    BY <2>1, <2>2, <2>3, <2>4
<1> QED
  BY <1>1, <1>2

\* close() leaves a good state.
LEMMA CloseInv ==
  ASSUME ConnTypes, NoOrphans, WritesInv, NEW ended, CloseCurrent(ended)
  PROVE  (ConnTypes /\ NoOrphans)' /\ WritesInv'
<1>1. WritesInv'
  BY ForgetWritesInv DEF CloseCurrent
<1>2. ConnTypes' /\ NoOrphans'
  BY AfterCloseShuts DEF ConnTypes, NoOrphans, CloseCurrent
<1> QED
  BY <1>1, <1>2

\* An attempt leaves a good state, and a call with its plan.
LEMMA AttemptInv ==
  ASSUME ConnTypes, NoOrphans, WritesInv, JobTypes,
         NEW k \in Calls, NEW plan \in Seq(Modes), plan # <<>>, NEW ended,
         Attempt(k, plan, ended), latest' \in Calls \cup {None}
  PROVE  (ConnTypes /\ NoOrphans)' /\ JobTypes' /\ WritesInv'
<1> DEFINE c == CHOOSE x \in Spare : TRUE
           m == Head(plan)
           state == IF m = "local" THEN "open" ELSE "connecting"
<1>1. c \in Conns /\ c # None
  BY TransportAssumption DEF Attempt, Spare
<1>2. m \in Modes
  OBVIOUS
<1>3. /\ conn' = [AfterClose(ended) EXCEPT ![c] = state]
      /\ kind' = [kind EXCEPT ![c] = m]
      /\ cur' = c /\ mode' = m
      /\ job' = [job EXCEPT ![k] = IF m = "local" THEN NoJob
                                   ELSE [plan |-> plan, conn |-> c]]
      /\ ForgetWrites
  BY DEF Attempt
<1> HIDE DEF c, m
<1>4. WritesInv'
  BY <1>3, ForgetWritesInv
<1>5. ConnTypes' /\ NoOrphans'
  BY <1>1, <1>2, <1>3, AfterCloseShuts DEF ConnTypes, NoOrphans, ConnStates
<1>6. JobTypes'
  <2>1. [plan |-> plan, conn |-> c] \in [plan : Seq(Modes), conn : Conns \cup {None}]
    BY <1>1
  <2>2. NoJob \in [plan : Seq(Modes), conn : Conns \cup {None}]
    BY EmptySeq DEF NoJob
  <2>3. job' \in [Calls -> [plan : Seq(Modes), conn : Conns \cup {None}]]
    BY <1>3, <2>1, <2>2 DEF JobTypes
  <2>4. ASSUME NEW j \in Calls, InProgress(j)'
        PROVE  (job[j].conn # None /\ job[j].plan # <<>>)'
    <3>1. CASE j # k
      BY <3>1, <2>4, <1>3 DEF JobTypes, InProgress
    <3>2. CASE j = k
      BY <3>2, <2>4, <1>1, <1>3 DEF JobTypes, InProgress, NoJob
    <3> QED BY <3>1, <3>2
  <2> QED
    BY <2>3, <2>4 DEF JobTypes
<1> QED
  BY <1>4, <1>5, <1>6

\* Giving an attempt up leaves a good state.
LEMMA GiveUpInv ==
  ASSUME ConnTypes, NoOrphans, WritesInv, JobTypes,
         NEW k \in Calls, InProgress(k), NEW ended, GiveUp(k, ended)
  PROVE  (ConnTypes /\ NoOrphans)' /\ JobTypes' /\ WritesInv'
<1> DEFINE plan == job[k].plan
<1>1. plan \in Seq(Modes) /\ plan # <<>>
  BY DEF JobTypes
<1> HIDE DEF plan
<1>2. CASE Len(plan) > 1
  <2>1. Tail(plan) \in Seq(Modes) /\ Tail(plan) # <<>>
    <3>1. Tail(plan) \in Seq(Modes) /\ Len(Tail(plan)) = Len(plan) - 1
      BY <1>1, HeadTailProperties
    <3>2. Len(plan) \in Nat /\ Len(<<>>) = 0
      BY <1>1, LenProperties
    <3>3. Len(Tail(plan)) # 0
      BY <1>2, <3>1, <3>2
    <3> QED
      BY <3>1, <3>2, <3>3
  <2>2. Attempt(k, Tail(plan), ended) /\ latest' \in Calls \cup {None}
    BY <1>2 DEF GiveUp, JobTypes, plan
  <2> QED
    BY <2>1, <2>2, AttemptInv
<1>3. CASE ~(Len(plan) > 1)
  <2>1. CloseCurrent(ended) /\ job' = [job EXCEPT ![k] = NoJob] /\ latest' = latest
    BY <1>3 DEF GiveUp, plan
  <2>2. JobTypes'
    BY <2>1, EmptySeq DEF JobTypes, NoJob, InProgress
  <2> QED
    BY <2>1, <2>2, CloseInv
<1> QED
  BY <1>2, <1>3

-----------------------------------------------------------------------------
(* The steps *)

\* Every step preserves the invariant.
LEMMA StepInv == IInv /\ [Next]_vars => IInv'
<1> SUFFICES ASSUME IInv, [Next]_vars PROVE IInv'
  OBVIOUS
<1>0. ConnTypes /\ NoOrphans /\ JobTypes /\ WritesInv
  BY Parts
<1> SUFFICES (ConnTypes /\ NoOrphans)' /\ JobTypes' /\ WritesInv'
  BY PartsNext
<1>1. ASSUME NEW k \in Calls, NEW requested \in Requests, ConnectAuto(k, requested)
      PROVE  (ConnTypes /\ NoOrphans)' /\ JobTypes' /\ WritesInv'
  <2>1. Plan(requested) \in Seq(Modes) /\ Plan(requested) # <<>>
    <3>1. CASE requested = "wt"
      BY <3>1 DEF Plan, Modes
    <3>2. CASE requested # "wt"
      BY <3>2, TransportAssumption DEF Plan, Modes
    <3> QED
      BY <3>1, <3>2
  <2> QED
    BY <1>0, <1>1, <2>1, AttemptInv DEF ConnectAuto
<1>2. ASSUME NEW k \in Calls, Opened(k)
      PROVE  (ConnTypes /\ NoOrphans)' /\ JobTypes' /\ WritesInv'
  <2>1. job[k].conn = cur /\ cur \in Conns
    BY <1>0, <1>2 DEF Opened, JobTypes, NoOrphans
  <2>2. ConnTypes' /\ NoOrphans'
    BY <1>0, <1>2, <2>1 DEF Opened, ConnTypes, NoOrphans, ConnStates
  <2>3. JobTypes'
    BY <1>0, <1>2, EmptySeq DEF Opened, JobTypes, NoJob, InProgress
  <2>4. WritesInv'
    BY <1>0, <1>2 DEF Opened, writeVars, WritesInv, SlotIsCurrent, WritesBounded, Allowed
  <2> QED
    BY <2>2, <2>3, <2>4
<1>3. ASSUME NEW k \in Calls, Failed(k)
      PROVE  (ConnTypes /\ NoOrphans)' /\ JobTypes' /\ WritesInv'
  BY <1>0, <1>3, GiveUpInv DEF Failed
<1>4. ASSUME NEW k \in Calls, TimedOut(k)
      PROVE  (ConnTypes /\ NoOrphans)' /\ JobTypes' /\ WritesInv'
  BY <1>0, <1>4, GiveUpInv DEF TimedOut
<1>5. CASE Close
  <2>1. JobTypes'
    BY <1>0, <1>5 DEF Close, JobTypes, InProgress
  <2> QED
    BY <1>0, <1>5, <2>1, CloseInv DEF Close
<1>6. CASE Dropped
  <2>1. ConnTypes' /\ NoOrphans'
    BY <1>0, <1>6 DEF Dropped, ConnTypes, NoOrphans, ConnStates
  <2> QED
    BY <1>0, <1>6, <2>1
       DEF Dropped, JobTypes, InProgress, writeVars, WritesInv, SlotIsCurrent, WritesBounded, Allowed
<1>7. ASSUME NEW c \in Conns, Ended(c)
      PROVE  (ConnTypes /\ NoOrphans)' /\ JobTypes' /\ WritesInv'
  <2>1. ConnTypes' /\ NoOrphans'
    BY <1>0, <1>7 DEF Ended, ConnTypes, NoOrphans, ConnStates
  <2> QED
    BY <1>0, <1>7, <2>1
       DEF Ended, JobTypes, InProgress, writeVars, WritesInv, SlotIsCurrent, WritesBounded, Allowed
<1>8. CASE Send
  <2>1. ASSUME inFlight = TRUE PROVE WritesInv'
    <3>1. /\ slot' = cur /\ inFlight' = inFlight /\ live' = live /\ strayed' = strayed
          /\ stale' = stale /\ cur' = cur
      BY <1>8, <2>1, Zenon DEF Send, connVars
    <3> QED
      BY <1>0, <3>1 DEF WritesInv, SlotIsCurrent, WritesBounded, Allowed, ConnTypes
  <2>2. ASSUME inFlight = FALSE PROVE WritesInv'
    <3>1. Flush(cur) /\ cur' = cur /\ stale' = stale
      BY <1>8, <2>2, Zenon DEF Send, connVars
    <3>2. stale \in 0 .. MaxStale /\ live + stale <= MaxStale
      BY <1>0, <2>2, AllowedValue DEF WritesInv, WritesBounded
    <3> QED
      BY <1>0, <3>1, <3>2, FlushInv DEF ConnTypes
  <2>3. WritesInv'
    BY <1>0, <2>1, <2>2 DEF WritesInv
  <2> QED
    BY <1>0, <1>8, <2>3 DEF Send, connVars, ConnTypes, NoOrphans, JobTypes, InProgress
<1>9. CASE WriteSettled
  <2>1. slot' = None /\ live > 0 /\ stale' = stale
    BY <1>9 DEF WriteSettled
  <2>2. strayed = FALSE /\ (slot # None => slot = cur)
    BY <1>0 DEF WritesInv, SlotIsCurrent
  <2>3. strayed' = FALSE
    BY <1>9, <2>2, Zenon DEF WriteSettled
  <2>4. \/ inFlight' = TRUE /\ live' = live
        \/ inFlight' = FALSE /\ live' = live - 1
    BY <1>9 DEF WriteSettled
  <2>5. live \in Nat /\ stale \in 0 .. MaxStale /\ live + stale <= MaxStale + 1
    BY <1>0, AllowedValue, TransportAssumption DEF WritesInv, WritesBounded
  <2>6. WritesBounded'
    BY <2>1, <2>4, <2>5, AllowedValueNext, TransportAssumption DEF WritesBounded
  <2>7. WritesInv'
    BY <2>1, <2>3, <2>4, <2>6 DEF WritesInv, SlotIsCurrent
  <2> QED
    BY <1>0, <1>9, <2>7 DEF WriteSettled, connVars, ConnTypes, NoOrphans, JobTypes, InProgress
<1>10. CASE StaleWriteSettled
  <2>1. Flush(slot) /\ cur' = cur /\ stale > 0 /\ stale' = stale - 1
    BY <1>10 DEF StaleWriteSettled, connVars
  <2>2. live \in Nat /\ stale \in 0 .. MaxStale /\ live + stale <= MaxStale + 1
    BY <1>0, AllowedValue, TransportAssumption DEF WritesInv, WritesBounded
  <2>3. stale' \in 0 .. MaxStale /\ live + stale' <= MaxStale
    BY <2>1, <2>2, TransportAssumption
  <2>4. slot \in {None, cur}
    BY <1>0 DEF WritesInv, SlotIsCurrent
  <2>5. WritesInv'
    BY <1>0, <2>1, <2>3, <2>4, FlushInv DEF ConnTypes
  <2> QED
    BY <1>0, <1>10, <2>5 DEF StaleWriteSettled, connVars, ConnTypes, NoOrphans, JobTypes, InProgress
<1>11. CASE UNCHANGED vars
  BY <1>0, <1>11
     DEF vars, connVars, writeVars, ConnTypes, NoOrphans, JobTypes, InProgress,
         WritesInv, SlotIsCurrent, WritesBounded, Allowed
<1> QED
  BY <1>1, <1>2, <1>3, <1>4, <1>5, <1>6, <1>7, <1>8, <1>9, <1>10, <1>11 DEF Next

\* The invariant holds in every reachable state.
LEMMA Invariance == Spec => []IInv
<1>1. Spec => Init /\ [][Next]_vars
  BY PTL DEF Spec
<1> QED
  BY InitInv, StepInv, <1>1, PTL

\* Every reachable state has its type: in particular this.mode is always the
\* installed connection's.
THEOREM TypeCorrect == Spec => []TypeOK
<1>1. IInv => TypeOK
  BY DEF IInv
<1> QED
  BY Invariance, <1>1, PTL

\* connect and connectAuto leave no connection behind.
THEOREM OneConnection == Spec => []NoOrphans
<1>1. IInv => NoOrphans
  BY DEF IInv
<1> QED
  BY Invariance, <1>1, PTL

\* No datagram is carried over to another connection.
THEOREM NoCarryOver == Spec => []DatagramsStay
<1>1. IInv => DatagramsStay
  BY DEF IInv
<1> QED
  BY Invariance, <1>1, PTL

-----------------------------------------------------------------------------
(***************************************************************************)
(* The frame loop and its two recordings, for any pictures, cap, windows   *)
(* and any order of starts, stops, switches and late animation frames.     *)
(*                                                                         *)
(* LoopInv says that a picture not yet looked at is younger than every     *)
(* turn before it (TimesRun), that the detector holds the gaps between the *)
(* last turns and no other (Fits), and that both recordings are the    *)
(* last of what was taken, behind the metadata as long as there is room    *)
(* (RecordFits).                                                           *)
(***************************************************************************)

\* A set of naturals has a least member: no member of the set of intervals 0 .. n is minimal
\* otherwise.
LEMMA LeastNatural ==
  ASSUME NEW T \in SUBSET Nat, T # {}
  PROVE  \E n \in T : \A m \in T : n <= m
<1> DEFINE Below == {0 .. n : n \in T}
<1>1. Below \subseteq FiniteSubsetsOf(Nat) /\ Below # {}
  <2>1. ASSUME NEW n \in T PROVE 0 .. n \in FiniteSubsetsOf(Nat)
    <3>1. IsFiniteSet(0 .. n)
      BY FS_Interval
    <3> QED
      BY <3>1 DEF FiniteSubsetsOf
  <2> QED
    BY <2>1
<1>2. PICK X \in Below : \A Y \in Below : <<Y, X>> \notin StrictSubsetOrdering(Nat)
  <2> HIDE DEF Below
  <2> QED BY <1>1, FS_StrictSubsetOrderingWellFounded, WFMin
<1>3. PICK n \in T : X = 0 .. n
  OBVIOUS
<1>4. ASSUME NEW m \in T, m < n PROVE FALSE
  <2>1. 0 .. m \in Below /\ 0 .. m \subseteq X /\ n \in X /\ n \notin 0 .. m
    BY <1>3, <1>4
  <2> QED
    BY <1>1, <1>2, <2>1 DEF StrictSubsetOrdering, FiniteSubsetsOf
<1> QED
  BY <1>4

\* The least member of a set of naturals.
LEMMA LeastIsMin ==
  ASSUME NEW S \in SUBSET Nat, NEW n \in S, \A m \in S : n <= m
  PROVE  Min(S) = n
<1>1. Min(S) \in S /\ \A m \in S : Min(S) <= m
  BY DEF Min
<1>2. PICK k \in Nat : k = Min(S)
  BY <1>1
<1>3. k <= n /\ n <= k /\ n \in Nat
  BY <1>1, <1>2
<1> QED
  BY <1>2, <1>3

\* What holds at 0 and is passed on up to N holds up to N.
LEMMA UpToN ==
  ASSUME NEW N \in Nat, NEW P, 0 \in P, \A i \in 1 .. N : i - 1 \in P => i \in P
  PROVE  \A n \in 0 .. N : n \in P
<1> DEFINE T == {n \in 0 .. N : n \notin P}
<1> SUFFICES ASSUME T # {} PROVE FALSE
  OBVIOUS
<1>1. PICK m \in T : \A k \in T : m <= k
  <2>1. T \in SUBSET Nat
    OBVIOUS
  <2> HIDE DEF T
  <2> QED
    BY <2>1, LeastNatural
<1>2. m \in 1 .. N /\ m - 1 \in 0 .. N /\ ~(m <= m - 1)
  BY <1>1
<1>3. m - 1 \in P
  BY <1>1, <1>2
<1> QED
  BY <1>1, <1>2, <1>3

\* Steps taken one after the other lead somewhere.
Steps(N, S) == [1 .. N -> [S -> S]]
Runs(f, start, step, N, S) ==
  f \in [0 .. N -> S] /\ f[0] = start /\ \A i \in 1 .. N : f[i] = step[i][f[i - 1]]

LEMMA StepsExist ==
  ASSUME NEW S, NEW start \in S, NEW N \in Nat, NEW step \in Steps(N, S)
  PROVE  \E f : Runs(f, start, step, N, S)
<1> USE DEF Steps
<1> DEFINE Built(f, m) == f[0] = start /\ \A i \in 1 .. m : f[i] = step[i][f[i - 1]]
           P == {m \in 0 .. N : \E f \in [0 .. m -> S] : Built(f, m)}
<1>1. 0 \in P
  <2> DEFINE f == [n \in 0 .. 0 |-> start]
  <2>1. f \in [0 .. 0 -> S] /\ f[0] = start
    OBVIOUS
  <2> HIDE DEF f
  <2>2. Built(f, 0)
    BY <2>1
  <2> QED
    BY <2>1, <2>2
<1>2. ASSUME NEW m \in 1 .. N, m - 1 \in P PROVE m \in P
  <2>1. PICK f \in [0 .. m - 1 -> S] : Built(f, m - 1)
    BY <1>2
  <2>2. f[m - 1] \in S /\ m - 1 \in 0 .. m /\ m - 1 # m /\ 0 # m /\ 0 \in 0 .. m
    OBVIOUS
  <2> DEFINE g == [n \in 0 .. m |-> IF n = m THEN step[m][f[m - 1]] ELSE f[n]]
  <2>3. step[m][f[m - 1]] \in S
    BY <2>2
  <2>4. \A n \in 0 .. m : n # m => n \in 0 .. m - 1
    OBVIOUS
  <2>5. g \in [0 .. m -> S]
    BY <2>3, <2>4
  <2>6. g[m] = step[m][f[m - 1]] /\ \A n \in 0 .. m - 1 : g[n] = f[n]
    BY <2>4
  <2> HIDE DEF g
  <2>7. g[0] = start
    BY <2>1, <2>6
  <2>8. ASSUME NEW i \in 1 .. m PROVE g[i] = step[i][g[i - 1]]
    <3>1. i - 1 \in 0 .. m - 1
      OBVIOUS
    <3>2. CASE i = m
      BY <2>6, <3>1, <3>2
    <3>3. CASE i # m
      <4>1. i \in 0 .. m - 1 /\ i \in 1 .. m - 1
        BY <3>3
      <4> QED
        BY <2>1, <2>6, <3>1, <4>1
    <3> QED
      BY <3>2, <3>3
  <2>9. Built(g, m)
    BY <2>7, <2>8
  <2> HIDE DEF Built
  <2> QED
    BY <2>5, <2>9
<1>3. N \in P
  <2>1. \A i \in 1 .. N : i - 1 \in P => i \in P
    BY <1>2
  <2> HIDE DEF P
  <2>2. \A n \in 0 .. N : n \in P
    BY <1>1, <2>1, UpToN, Zenon
  <2>3. N \in 0 .. N
    OBVIOUS
  <2> QED
    BY <2>2, <2>3
<1> QED
  BY <1>3 DEF P, Runs

\* TotalOf adds the numbers one by one.
LEMMA TotalIsBuilt ==
  ASSUME NEW numbers, NEW N \in Nat, \A i \in 1 .. N : numbers[i] \in Nat
  PROVE  \E total \in [0 .. N -> Nat] :
           /\ TotalOf(numbers, N) = total[N] /\ total[0] = 0
           /\ \A i \in 1 .. N : total[i] = total[i - 1] + numbers[i]
<1> DEFINE Body(f) == [i \in 0 .. N |-> IF i = 0 THEN 0 ELSE f[i - 1] + numbers[i]]
           total == CHOOSE f : f = Body(f)
           step == [i \in 1 .. N |-> [x \in Nat |-> x + numbers[i]]]
<1>1. step \in [1 .. N -> [Nat -> Nat]]
  OBVIOUS
<1>2. \A i \in 1 .. N, x \in Nat : step[i][x] = x + numbers[i]
  OBVIOUS
<1> HIDE DEF step
<1>3. PICK f \in [0 .. N -> Nat] : f[0] = 0 /\ \A i \in 1 .. N : f[i] = step[i][f[i - 1]]
  <2>1. 0 \in Nat /\ step \in Steps(N, Nat)
    BY <1>1 DEF Steps
  <2>2. \E f : Runs(f, 0, step, N, Nat)
    BY <2>1, StepsExist, Zenon
  <2> QED
    BY <2>2 DEF Runs
<1>4. \A i \in 1 .. N : i - 1 \in 0 .. N /\ f[i] = f[i - 1] + numbers[i]
  <2> SUFFICES ASSUME NEW i \in 1 .. N PROVE i - 1 \in 0 .. N /\ f[i] = f[i - 1] + numbers[i]
    OBVIOUS
  <2>1. i - 1 \in 0 .. N
    OBVIOUS
  <2>2. f[i - 1] \in Nat
    BY <2>1
  <2> QED
    BY <1>2, <1>3, <2>1, <2>2
<1>5. f = Body(f)
  <2>1. \A i \in 0 .. N : f[i] = IF i = 0 THEN 0 ELSE f[i - 1] + numbers[i]
    BY <1>3, <1>4
  <2> QED
    BY <1>3, <2>1
<1>6. total = Body(total)
  <2> HIDE DEF Body
  <2> QED
    BY <1>5
<1>7. TotalOf(numbers, N) = total[N]
  BY DEF TotalOf
<1> HIDE DEF total
<1>8. total[0] = 0 /\ \A i \in 1 .. N : total[i] = total[i - 1] + numbers[i]
  BY <1>6
<1> DEFINE P == {n \in 0 .. N : total[n] \in Nat}
<1>9. \A n \in 0 .. N : n \in P
  <2>1. 0 \in P
    BY <1>8
  <2>2. ASSUME NEW i \in 1 .. N, i - 1 \in P PROVE i \in P
    <3>1. total[i - 1] \in Nat /\ numbers[i] \in Nat /\ i \in 0 .. N
      BY <2>2
    <3>2. total[i] = total[i - 1] + numbers[i]
      BY <1>8
    <3> HIDE DEF Body
    <3> QED
      BY <3>1, <3>2
  <2> HIDE DEF P
  <2> QED
    BY <2>1, <2>2, UpToN
<1>10. total \in [0 .. N -> Nat]
  BY <1>6, <1>9
<1> QED
  BY <1>7, <1>8, <1>10

\* A concatenation has what its parts have.
LEMMA RangeOfConcat ==
  ASSUME NEW S, NEW s \in Seq(S), NEW t \in Seq(S)
  PROVE  s \o t \in Seq(S) /\ Range(s \o t) = Range(s) \cup Range(t)
<1> DEFINE all == s \o t
<1>1. /\ all \in Seq(S) /\ Len(all) = Len(s) + Len(t) /\ Len(s) \in Nat /\ Len(t) \in Nat
      /\ \A i \in 1 .. Len(s) + Len(t) : all[i] = IF i <= Len(s) THEN s[i] ELSE t[i - Len(s)]
  BY ConcatProperties
<1>2. DOMAIN all = 1 .. Len(s) + Len(t) /\ DOMAIN s = 1 .. Len(s) /\ DOMAIN t = 1 .. Len(t)
  BY <1>1
<1> HIDE DEF all
<1>3. ASSUME NEW i \in 1 .. Len(s) + Len(t) PROVE all[i] \in Range(s) \cup Range(t)
  <2>1. CASE i <= Len(s)
    <3>1. i \in 1 .. Len(s) /\ all[i] = s[i]
      BY <1>1, <2>1
    <3> QED
      BY <1>2, <3>1 DEF Range
  <2>2. CASE ~(i <= Len(s))
    <3>1. i - Len(s) \in 1 .. Len(t) /\ all[i] = t[i - Len(s)]
      BY <1>1, <2>2
    <3> QED
      BY <1>2, <3>1 DEF Range
  <2> QED
    BY <2>1, <2>2
<1>4. ASSUME NEW i \in 1 .. Len(s) PROVE s[i] \in Range(all)
  <2>1. i \in 1 .. Len(s) + Len(t) /\ all[i] = s[i]
    BY <1>1
  <2> QED
    BY <1>2, <2>1 DEF Range
<1>5. ASSUME NEW i \in 1 .. Len(t) PROVE t[i] \in Range(all)
  <2>1. Len(s) + i \in 1 .. Len(s) + Len(t) /\ ~(Len(s) + i <= Len(s)) /\ (Len(s) + i) - Len(s) = i
    BY <1>1
  <2>2. all[Len(s) + i] = t[i]
    BY <1>1, <2>1
  <2> QED
    BY <1>2, <2>1, <2>2 DEF Range
<1>6. Range(all) = Range(s) \cup Range(t)
  BY <1>2, <1>3, <1>4, <1>5 DEF Range
<1> QED
  BY <1>1, <1>6 DEF all

\* Merged, the warnings of two lists are each there once.
LEMMA MergedOnce ==
  ASSUME NEW primary \in Seq(Warnings), NEW secondary \in Seq(Warnings)
  PROVE  LET merged == MergeWarnings(primary, secondary)
         IN  /\ merged \in Seq(Warnings) /\ Range(merged) = Range(primary) \cup Range(secondary)
             /\ Len(merged) = Cardinality(Range(merged))
<1> DEFINE all == primary \o secondary
<1>17. PICK N \in Nat : N = Len(all)
  BY ConcatProperties
<1> DEFINE Body(f) == [i \in 0 .. N |-> IF i = 0 THEN <<>> ELSE AppendUnique(f[i - 1], all[i])]
           out == CHOOSE f : f = Body(f)
           Lists == Seq(Warnings)
<1>1. /\ all \in Seq(Warnings) /\ N = Len(primary) + Len(secondary)
      /\ \A i \in 1 .. N : all[i] = IF i <= Len(primary) THEN primary[i] ELSE secondary[i - Len(primary)]
  BY <1>17, ConcatProperties
<1>2. MergeWarnings(primary, secondary) = out[N]
  BY <1>17 DEF MergeWarnings
<1> HIDE DEF all
<1>3. \A i \in 1 .. N : all[i] \in Warnings
  BY <1>1
<1>16. N \in Nat /\ 0 \in 0 .. N /\ \A i \in 1 .. N : i \in 0 .. N /\ i # 0 /\ i - 1 \in 0 .. N
  BY <1>3
<1>4. \A i \in 1 .. N, x \in Lists : AppendUnique(x, all[i]) \in Lists
  BY <1>3 DEF AppendUnique
<1>5. <<>> \in Lists
  OBVIOUS
<1> HIDE DEF Lists
<1>9. \E f : f = Body(f)
  <2> DEFINE step == [i \in 1 .. N |-> [x \in Lists |-> AppendUnique(x, all[i])]]
  <2>1. /\ step \in Steps(N, Lists)
        /\ \A i \in 1 .. N, x \in Lists : step[i][x] = AppendUnique(x, all[i])
    BY <1>4 DEF Steps
  <2> HIDE DEF step
  <2>4. \E f : Runs(f, <<>>, step, N, Lists)
    BY <1>5, <2>1, StepsExist, Zenon
  <2>5. PICK f : Runs(f, <<>>, step, N, Lists)
    BY <2>4
  <2>2. f \in [0 .. N -> Lists] /\ f[0] = <<>> /\ \A i \in 1 .. N : f[i] = AppendUnique(f[i - 1], all[i])
    <3>1. \A i \in 1 .. N : f[i - 1] \in Lists
      BY <1>16, <2>5 DEF Runs
    <3> QED
      BY <2>1, <2>5, <3>1 DEF Runs
  <2>3. \A i \in 0 .. N : f[i] = IF i = 0 THEN <<>> ELSE AppendUnique(f[i - 1], all[i])
    BY <2>2
  <2> QED
    BY <2>2, <2>3
<1>10. out = Body(out)
  <2> HIDE DEF Body
  <2> QED
    BY <1>9
<1> HIDE DEF out
<1>11. out[0] = <<>> /\ \A i \in 1 .. N : out[i] = AppendUnique(out[i - 1], all[i])
  BY <1>10, <1>16
<1> HIDE DEF Body
<1> DEFINE Good(n) == /\ out[n] \in Seq(Warnings) /\ Range(out[n]) = {all[i] : i \in 1 .. n}
                      /\ IsFiniteSet(Range(out[n])) /\ Len(out[n]) = Cardinality(Range(out[n]))
           P == {n \in 0 .. N : Good(n)}
<1>12. 0 \in P
  <2>1. Range(out[0]) = {} /\ {all[i] : i \in 1 .. 0} = {} /\ Len(out[0]) = 0 /\ out[0] \in Seq(Warnings)
    BY <1>11 DEF Range
  <2> QED
    <3>1. IsFiniteSet(Range(out[0])) /\ Len(out[0]) = Cardinality(Range(out[0]))
      BY <2>1, FS_EmptySet
    <3> QED
      BY <1>16, <2>1, <3>1
<1>13. ASSUME NEW n \in 1 .. N, n - 1 \in P PROVE n \in P
  <2> DEFINE before == out[n - 1]
             w == all[n]
  <2>1. /\ before \in Seq(Warnings) /\ Range(before) = {all[i] : i \in 1 .. n - 1}
        /\ IsFiniteSet(Range(before)) /\ Len(before) = Cardinality(Range(before))
    BY <1>13
  <2>2. out[n] = AppendUnique(before, w) /\ w \in Warnings
    BY <1>3, <1>11
  <2>3. {all[i] : i \in 1 .. n} = {all[i] : i \in 1 .. n - 1} \cup {w}
    <3>1. \A i \in 1 .. n : i \in 1 .. n - 1 \/ i = n
      OBVIOUS
    <3>2. \A i \in 1 .. n - 1 : i \in 1 .. n
      OBVIOUS
    <3> QED
      BY <3>1, <3>2
  <2> HIDE DEF before, w
  <2>4. CASE w \in Range(before)
    <3>1. out[n] = before /\ {all[i] : i \in 1 .. n} = {all[i] : i \in 1 .. n - 1}
      BY <2>1, <2>2, <2>3, <2>4 DEF AppendUnique
    <3>2. Good(n)
      <4> HIDE DEF all
      <4> QED
        BY <2>1, <3>1
    <3> QED
      BY <1>16, <3>2
  <2>5. CASE w \notin Range(before)
    <3>1. out[n] = Append(before, w)
      BY <2>2, <2>5 DEF AppendUnique
    <3>2. out[n] \in Seq(Warnings) /\ Len(out[n]) = Len(before) + 1
      BY <2>1, <2>2, <3>1
    <3>3. Range(out[n]) = Range(before) \cup {w}
      <4>1. /\ DOMAIN out[n] = 1 .. Len(before) + 1 /\ DOMAIN before = 1 .. Len(before) /\ Len(before) \in Nat
            /\ out[n][Len(before) + 1] = w /\ \A i \in 1 .. Len(before) : out[n][i] = before[i]
        <5>1. before \in Seq(Warnings) /\ w \in Warnings
          BY <2>1, <2>2
        <5> QED
          BY <3>1, <5>1
      <4>2. \A i \in 1 .. Len(before) + 1 : i \in 1 .. Len(before) \/ i = Len(before) + 1
        BY <4>1
      <4>3. Len(before) + 1 \in 1 .. Len(before) + 1 /\ \A i \in 1 .. Len(before) : i \in 1 .. Len(before) + 1
        BY <4>1
      <4> QED
        BY <4>1, <4>2, <4>3 DEF Range
    <3>4. /\ IsFiniteSet(Range(before) \cup {w})
          /\ Cardinality(Range(before) \cup {w}) = Cardinality(Range(before)) + 1
      BY <2>1, <2>5, FS_AddElement
    <3>5. Good(n)
      BY <2>1, <2>3, <3>2, <3>3, <3>4
    <3> QED
      BY <1>16, <3>5
  <2> QED
    BY <2>4, <2>5
<1>14. Good(N)
  <2>1. \A i \in 1 .. N : i - 1 \in P => i \in P
    BY <1>13
  <2> HIDE DEF P
  <2>2. \A n \in 0 .. N : n \in P
    BY <1>1, <1>12, <2>1, UpToN, Zenon
  <2>3. N \in 0 .. N
    BY <1>1
  <2> QED
    BY <2>2, <2>3 DEF P
<1>15. {all[i] : i \in 1 .. N} = Range(primary) \cup Range(secondary)
  <2>1. DOMAIN all = 1 .. N
    BY <1>1, <1>17
  <2>2. Range(all) = Range(primary) \cup Range(secondary)
    BY RangeOfConcat DEF all
  <2> QED
    BY <2>1, <2>2 DEF Range
<1> QED
  BY <1>2, <1>14, <1>15

\* The JSONL file read back is the lines behind the metadata.
LEMMA JsonlIsRead ==
  ASSUME NEW r, r.lines \in Seq(Lines \cup {Metadata}), NEW h \in {0, 1}, h <= Len(r.lines),
         \A i \in 1 .. Len(r.lines) : r.lines[i] = Metadata <=> i <= h
  PROVE  /\ JsonlFrames(r) \in Seq(Lines \cup {Metadata}) /\ Len(JsonlFrames(r)) = Len(r.lines) - h
         /\ \A i \in 1 .. Len(r.lines) - h : JsonlFrames(r)[i] = r.lines[i + h]
<1>1. PICK N \in Nat : N = Len(r.lines)
  OBVIOUS
<1> DEFINE all == r.lines
           Taking(x, i) == IF r.lines[i] = Metadata THEN x ELSE Append(x, r.lines[i])
           Body(f) == [i \in 0 .. N |-> IF i = 0 THEN <<>>
                                       ELSE IF r.lines[i] = Metadata THEN f[i - 1]
                                       ELSE Append(f[i - 1], r.lines[i])]
           read == CHOOSE f : f = Body(f)
           Lists == Seq(Lines \cup {Metadata})
           step == [i \in 1 .. N |-> [x \in Lists |-> Taking(x, i)]]
<1>2. JsonlFrames(r) = read[N]
  BY <1>1 DEF JsonlFrames
<1>3. \A i \in 1 .. N : r.lines[i] \in Lines \cup {Metadata}
  BY <1>1
<1>4. \A i \in 1 .. N, x \in Lists : Taking(x, i) \in Lists
  BY <1>3
<1>5. <<>> \in Lists
  OBVIOUS
<1>6. N \in Nat /\ 0 \in 0 .. N /\ \A i \in 1 .. N : i \in 0 .. N /\ i # 0 /\ i - 1 \in 0 .. N
  OBVIOUS
<1> HIDE DEF Next, Lists
<1>7. \E f : f = Body(f)
  <2>1. step \in Steps(N, Lists) /\ \A i \in 1 .. N, x \in Lists : step[i][x] = Taking(x, i)
    BY <1>4 DEF Steps
  <2> HIDE DEF step
  <2>2. \E f : Runs(f, <<>>, step, N, Lists)
    BY <1>5, <2>1, StepsExist, Zenon
  <2>3. PICK f : Runs(f, <<>>, step, N, Lists)
    BY <2>2
  <2>4. f \in [0 .. N -> Lists] /\ f[0] = <<>> /\ \A i \in 1 .. N : f[i] = Taking(f[i - 1], i)
    <3>1. \A i \in 1 .. N : f[i - 1] \in Lists
      BY <1>6, <2>3 DEF Runs
    <3> QED
      BY <2>1, <2>3, <3>1 DEF Runs
  <2>5. \A i \in 0 .. N : f[i] = IF i = 0 THEN <<>>
                                 ELSE IF r.lines[i] = Metadata THEN f[i - 1] ELSE Append(f[i - 1], r.lines[i])
    <3>1. \A i \in 0 .. N : i = 0 \/ i \in 1 .. N
      OBVIOUS
    <3>2. \A i \in 0 .. N : f[i] = IF i = 0 THEN <<>> ELSE Taking(f[i - 1], i)
      BY <1>6, <2>4, <3>1
    <3> QED
      BY <3>2 DEF Next
  <2> QED
    BY <2>4, <2>5
<1>8. read = Body(read)
  <2> HIDE DEF Body
  <2> QED
    BY <1>7
<1> HIDE DEF read
<1>9. read[0] = <<>> /\ \A i \in 1 .. N : read[i] = Taking(read[i - 1], i)
  BY <1>6, <1>8 DEF Next
<1> HIDE DEF Body
<1> DEFINE Good(n) == /\ read[n] \in Lists /\ Len(read[n]) = IF n <= h THEN 0 ELSE n - h
                      /\ \A i \in 1 .. n - h : read[n][i] = r.lines[i + h]
           P == {n \in 0 .. N : Good(n)}
<1>10. 0 \in P
  <2>1. Len(read[0]) = 0 /\ read[0] \in Lists
    BY <1>5, <1>9
  <2> QED
    BY <1>6, <2>1
<1>11. ASSUME NEW n \in 1 .. N, n - 1 \in P PROVE n \in P
  <2>1. read[n] = Taking(read[n - 1], n) /\ read[n - 1] \in Lists /\ Taking(read[n - 1], n) \in Lists
        /\ Len(read[n - 1]) = IF n - 1 <= h THEN 0 ELSE (n - 1) - h
    BY <1>4, <1>9, <1>11
  <2>2. CASE n <= h
    <3>1. n = 1 /\ h = 1 /\ r.lines[n] = Metadata
      BY <1>1, <2>2
    <3>2. read[n] = read[n - 1]
      BY <2>1, <3>1 DEF Next
    <3>3. Good(n)
      BY <2>1, <3>1, <3>2
    <3> QED
      BY <1>6, <3>3
  <2>3. CASE ~(n <= h)
    <3>1. r.lines[n] # Metadata /\ n - 1 >= h /\ Len(read[n - 1]) = n - 1 - h
      BY <1>1, <2>1, <2>3
    <3>2. read[n] = Append(read[n - 1], r.lines[n])
      BY <2>1, <3>1 DEF Next
    <3>3. /\ Len(read[n]) = n - h /\ read[n][n - h] = r.lines[n]
          /\ \A i \in 1 .. n - 1 - h : read[n][i] = read[n - 1][i]
      <4>1. PICK before \in Seq(Lines \cup {Metadata}) : before = read[n - 1]
        BY <2>1 DEF Lists
      <4>2. r.lines[n] \in Lines \cup {Metadata} /\ n - 1 - h + 1 = n - h
        BY <1>3
      <4>3. read[n] = Append(before, r.lines[n]) /\ Len(before) = n - 1 - h
        BY <3>1, <3>2, <4>1
      <4> QED
        BY <4>1, <4>2, <4>3
    <3>4. \A i \in 1 .. n - h : read[n][i] = r.lines[i + h]
      <4>1. \A i \in 1 .. n - 1 - h : read[n - 1][i] = r.lines[i + h]
        BY <1>11
      <4>2. \A i \in 1 .. n - h : i \in 1 .. n - 1 - h \/ i = n - h
        OBVIOUS
      <4>3. (n - h) + h = n
        OBVIOUS
      <4> QED
        BY <3>3, <4>1, <4>2, <4>3
    <3>5. Good(n)
      BY <2>1, <2>3, <3>3, <3>4
    <3> QED
      BY <1>6, <3>5
  <2> QED
    BY <2>2, <2>3
<1>12. Good(N)
  <2>1. \A i \in 1 .. N : i - 1 \in P => i \in P
    BY <1>11
  <2> HIDE DEF P
  <2>2. \A n \in 0 .. N : n \in P
    BY <1>10, <2>1, UpToN, Zenon
  <2>3. N \in 0 .. N
    BY <1>6
  <2> QED
    BY <2>2, <2>3 DEF P
<1> QED
  <2>1. N - h = IF N <= h THEN 0 ELSE N - h
    BY <1>1
  <2> QED
    BY <1>1, <1>2, <1>12, <2>1 DEF Lists

\* What the loop tells of a picture, each warning once.
LEMMA WarningsTold ==
  ASSUME LoopType, NEW d, RollingDropped(d) \in Nat, NEW dark \in BOOLEAN
  PROVE  LET told == PictureWarnings(d, dark)
         IN  /\ told \in Seq(Warnings) /\ Len(told) = Cardinality(Range(told))
             /\ Range(told) = (IF HandsEnabled /\ dark THEN {"hands: low light"} ELSE {})
                                \cup (IF dark THEN {LowLight} ELSE {})
                                \cup (IF stats.slow \/ RollingDropped(d) > DropLimit THEN {DroppedFrames} ELSE {})
<1> DEFINE hands == IF HandsEnabled /\ dark THEN <<"hands: low light">> ELSE <<>>
           light == IF dark THEN <<LowLight>> ELSE <<>>
           rate == IF stats.slow \/ RollingDropped(d) > DropLimit THEN <<DroppedFrames>> ELSE <<>>
<1>1. \A w \in Warnings : <<w>> \in Seq(Warnings) /\ Range(<<w>>) = {w}
  BY DEF Range
<1>2. <<>> \in Seq(Warnings) /\ Range(<<>>) = {}
  BY DEF Range
<1>3. "hands: low light" \in Warnings /\ LowLight \in Warnings /\ DroppedFrames \in Warnings
  BY DEF Warnings
<1>4. /\ hands \in Seq(Warnings) /\ light \in Seq(Warnings) /\ rate \in Seq(Warnings)
      /\ Range(hands) = (IF HandsEnabled /\ dark THEN {"hands: low light"} ELSE {})
      /\ Range(light) = (IF dark THEN {LowLight} ELSE {})
      /\ Range(rate) = (IF stats.slow \/ RollingDropped(d) > DropLimit THEN {DroppedFrames} ELSE {})
  BY <1>1, <1>2, <1>3
<1>5. PictureWarnings(d, dark) = MergeWarnings(hands, light \o rate)
  BY DEF PictureWarnings, QualityWarnings
<1> HIDE DEF hands, light, rate
<1>6. light \o rate \in Seq(Warnings) /\ Range(light \o rate) = Range(light) \cup Range(rate)
  <2>1. light \in Seq(Warnings) /\ rate \in Seq(Warnings)
    BY <1>4
  <2> QED
    BY <2>1, RangeOfConcat, ZenonT(40)
<1>7. /\ MergeWarnings(hands, light \o rate) \in Seq(Warnings)
      /\ Range(MergeWarnings(hands, light \o rate)) = Range(hands) \cup Range(light \o rate)
      /\ Len(MergeWarnings(hands, light \o rate)) = Cardinality(Range(MergeWarnings(hands, light \o rate)))
  BY <1>4, <1>6, MergedOnce
<1> QED
  BY <1>4, <1>5, <1>6, <1>7

\* A list that is cut at its old end keeps the last entries.
LEMMA PushKeeps ==
  ASSUME NEW S, NEW list \in Seq(S), NEW x \in S
  PROVE  LET drop == IF Len(list) + 1 > Cap THEN 1 ELSE 0
         IN  /\ Push(list, x) \in Seq(S) /\ Len(Push(list, x)) = Len(list) + 1 - drop
             /\ \A i \in 1 .. Len(list) + 1 - drop :
                  Push(list, x)[i] = IF i + drop = Len(list) + 1 THEN x ELSE list[i + drop]
<1> DEFINE all == Append(list, x)
           drop == IF Len(list) + 1 > Cap THEN 1 ELSE 0
<1>1. PICK n \in Nat : n = Len(list)
  OBVIOUS
<1>2. /\ all \in Seq(S) /\ Len(all) = n + 1 /\ all[n + 1] = x /\ \A i \in 1 .. n : all[i] = list[i]
  BY <1>1
<1>3. Push(list, x) = IF Len(all) > Cap THEN Tail(all) ELSE all
  BY DEF Push
<1>4. Cap \in Nat
  BY LoopAssumption DEF LoopAssumption
<1> HIDE DEF all
<1>5. CASE n + 1 > Cap
  <2>1. drop = 1 /\ Push(list, x) = Tail(all) /\ all # <<>>
    BY <1>1, <1>2, <1>3, <1>5
  <2>2. Tail(all) \in Seq(S) /\ Len(Tail(all)) = n /\ \A i \in 1 .. n : Tail(all)[i] = all[i + 1]
    BY <1>2, <2>1, HeadTailProperties
  <2>3. ASSUME NEW i \in 1 .. n PROVE Tail(all)[i] = IF i + 1 = n + 1 THEN x ELSE list[i + 1]
    <3>1. i + 1 = n + 1 \/ i + 1 \in 1 .. n
      OBVIOUS
    <3>2. Tail(all)[i] = all[i + 1]
      BY <2>2
    <3> HIDE DEF drop
    <3> QED
      BY <1>2, <3>1, <3>2
  <2>4. Len(list) + 1 - drop = n /\ \A i : i + drop = i + 1
    BY <1>1, <2>1
  <2>5. \A i \in 1 .. n : Push(list, x)[i] = IF i + drop = Len(list) + 1 THEN x ELSE list[i + drop]
    BY <1>1, <2>1, <2>3
  <2> HIDE DEF drop
  <2>6. /\ Push(list, x) \in Seq(S) /\ Len(Push(list, x)) = Len(list) + 1 - drop
        /\ \A i \in 1 .. Len(list) + 1 - drop :
             Push(list, x)[i] = IF i + drop = Len(list) + 1 THEN x ELSE list[i + drop]
    BY <2>1, <2>2, <2>4, <2>5
  <2> QED
    BY <2>6 DEF drop
<1>6. CASE ~(n + 1 > Cap)
  <2>1. drop = 0 /\ Push(list, x) = all
    BY <1>1, <1>2, <1>3, <1>4, <1>6
  <2>2. ASSUME NEW i \in 1 .. n + 1 PROVE all[i] = IF i = n + 1 THEN x ELSE list[i]
    <3>1. i = n + 1 \/ i \in 1 .. n
      OBVIOUS
    <3> QED
      BY <1>2, <3>1
  <2> QED
    BY <1>1, <1>2, <2>1, <2>2
<1> QED
  BY <1>5, <1>6

\* Turns that follow each other until now, a list of the gaps before those from a on, and
\* what was missed in these gaps.
Rising(seen, L, now) ==
  (\A i, j \in 1 .. L : i < j => seen[i] < seen[j]) /\ \A i \in 1 .. L : seen[i] <= now
GapsOf(missed, seen, L, a) ==
  \A k \in 1 .. L + 1 - a : missed[k] = seen[a + k - 1] - seen[a + k - 2] - 1
Between(seen, L, a, now) == {u \in 0 .. now : \E i \in a .. L : seen[i - 1] < u /\ u < seen[i]}

\* The gaps before the turns from a to the last, added up, are the pictures missed between
\* them.
LEMMA GapsAreMissed ==
  ASSUME NEW seen \in Seq(Nat), NEW L \in Nat, L = Len(seen), NEW a \in 2 .. L + 1, NEW now \in Nat,
         Rising(seen, L, now), NEW missed, GapsOf(missed, seen, L, a)
  PROVE  /\ TotalOf(missed, L + 1 - a) \in Nat
         /\ TotalOf(missed, L + 1 - a) = Cardinality(Between(seen, L, a, now))
<1> USE DEF Rising, GapsOf, Between
<1> DEFINE N == L + 1 - a
           M(k) == {u \in 0 .. now : \E i \in a .. a + k - 1 : seen[i - 1] < u /\ u < seen[i]}
<1>1. N \in Nat /\ \A i \in 1 .. L : seen[i] \in Nat
  OBVIOUS
<1>2. ASSUME NEW k \in 1 .. N
      PROVE  /\ a + k - 1 \in 1 .. L /\ a + k - 2 \in 1 .. L /\ a + k - 2 < a + k - 1
             /\ seen[a + k - 2] \in Nat /\ seen[a + k - 1] \in Nat /\ seen[a + k - 2] < seen[a + k - 1]
             /\ missed[k] = seen[a + k - 1] - seen[a + k - 2] - 1 /\ missed[k] \in Nat
  <2>1. a + k - 1 \in 1 .. L /\ a + k - 2 \in 1 .. L /\ a + k - 2 < a + k - 1
    BY <1>1
  <2>2. seen[a + k - 2] \in Nat /\ seen[a + k - 1] \in Nat /\ seen[a + k - 2] < seen[a + k - 1]
    BY <1>1, <2>1
  <2> QED
    BY <2>1, <2>2, SMTT(30)
<1> HIDE DEF N
<1>3. PICK total \in [0 .. N -> Nat] :
        /\ TotalOf(missed, N) = total[N] /\ total[0] = 0
        /\ \A k \in 1 .. N : total[k] = total[k - 1] + missed[k]
  BY <1>1, <1>2, TotalIsBuilt
<1> DEFINE Good(k) == IsFiniteSet(M(k)) /\ Cardinality(M(k)) = total[k]
           P == {k \in 0 .. N : Good(k)}
<1>4. 0 \in P
  <2>1. M(0) = {}
    OBVIOUS
  <2> HIDE DEF M
  <2>2. Good(0)
    BY <1>3, <2>1, FS_EmptySet
  <2> QED
    BY <1>1, <2>2
<1>5. ASSUME NEW k \in 1 .. N, k - 1 \in P PROVE k \in P
  <2>1. k - 1 \in Nat /\ k \in 0 .. N /\ k - 1 \in 0 .. N
    BY <1>1
  <2>10. PICK low \in Nat, high \in Nat : low = seen[a + k - 2] /\ high = seen[a + k - 1]
    BY <1>2
  <2>2. low < high /\ high <= now
    BY <1>2, <2>10
  <2> DEFINE gap == low + 1 .. high - 1
  <2>3. M(k) = M(k - 1) \cup gap
    <3>1. \A i \in a .. a + k - 1 : i \in a .. a + (k - 1) - 1 \/ i = a + k - 1
      BY <2>1
    <3>2. \A i \in a .. a + (k - 1) - 1 : i \in a .. a + k - 1
      BY <2>1
    <3>3. a + k - 1 \in a .. a + k - 1 /\ (a + k - 1) - 1 = a + k - 2
      BY <2>1
    <3>4. \A u \in gap : u \in 0 .. now /\ low < u /\ u < high
      BY <2>2
    <3>5. \A u \in 0 .. now : low < u /\ u < high => u \in gap
      BY <2>2
    <3> HIDE DEF gap
    <3>6. ASSUME NEW u \in M(k) PROVE u \in M(k - 1) \cup gap
      <4>1. PICK i \in a .. a + k - 1 : seen[i - 1] < u /\ u < seen[i]
        OBVIOUS
      <4> QED
        BY <2>10, <3>1, <3>3, <3>5, <4>1
    <3>7. ASSUME NEW u \in M(k - 1) PROVE u \in M(k)
      BY <3>2
    <3>8. ASSUME NEW u \in gap PROVE u \in M(k)
      BY <2>10, <3>3, <3>4
    <3> QED
      BY <3>6, <3>7, <3>8
  <2>4. M(k - 1) \cap gap = {}
    <3> SUFFICES ASSUME NEW u \in M(k - 1), u \in gap PROVE FALSE
      OBVIOUS
    <3>1. PICK i \in a .. a + (k - 1) - 1 : u < seen[i]
      OBVIOUS
    <3>2. i \in 1 .. L /\ i <= a + k - 2
      BY <1>2, <2>1
    <3>3. seen[i] <= low /\ seen[i] \in Nat
      <4>1. a + k - 2 \in 1 .. L /\ (i = a + k - 2 \/ i < a + k - 2)
        BY <1>2, <3>2
      <4>2. seen[i] \in Nat
        BY <1>1, <3>2
      <4>3. CASE i = a + k - 2
        BY <2>10, <4>2, <4>3
      <4>4. CASE i < a + k - 2
        <5>1. seen[i] < seen[a + k - 2]
          BY <3>2, <4>1, <4>4
        <5> QED
          BY <2>10, <4>2, <5>1, SMTT(30)
      <4> QED
        BY <4>1, <4>3, <4>4
    <3>4. u \in Nat /\ low < u
      BY <2>2
    <3> QED
      BY <3>1, <3>3, <3>4
  <2>5. IsFiniteSet(gap) /\ Cardinality(gap) = high - low - 1
    <3>1. low + 1 \in Int /\ high - 1 \in Int
      OBVIOUS
    <3>2. IsFiniteSet(gap) /\ Cardinality(gap) = IF low + 1 > high - 1 THEN 0 ELSE (high - 1) - (low + 1) + 1
      BY <3>1, FS_Interval
    <3> HIDE DEF gap
    <3> QED
      BY <2>2, <3>2
  <2>6. IsFiniteSet(M(k - 1)) /\ Cardinality(M(k - 1)) = total[k - 1]
    BY <1>5
  <2> HIDE DEF M, gap
  <2>7. IsFiniteSet(M(k)) /\ Cardinality(M(k)) = Cardinality(M(k - 1)) + Cardinality(gap) - Cardinality({})
    <3>1. IsFiniteSet(M(k - 1)) /\ IsFiniteSet(gap)
      BY <2>5, <2>6
    <3>2. /\ IsFiniteSet(M(k - 1) \cup gap)
          /\ Cardinality(M(k - 1) \cup gap)
               = Cardinality(M(k - 1)) + Cardinality(gap) - Cardinality(M(k - 1) \cap gap)
      BY <3>1, FS_Union, Zenon
    <3> QED
      BY <2>3, <2>4, <3>2
  <2>8. Cardinality({}) = 0 /\ total[k - 1] \in Nat /\ total[k] = total[k - 1] + missed[k]
    BY <1>3, <2>1, FS_EmptySet
  <2>9. Good(k)
    BY <1>2, <2>10, <2>5, <2>6, <2>7, <2>8, SMTT(30)
  <2> QED
    BY <2>1, <2>9
<1>6. Good(N)
  <2>1. \A k \in 1 .. N : k - 1 \in P => k \in P
    BY <1>5
  <2> HIDE DEF P
  <2>2. \A n \in 0 .. N : n \in P
    BY <1>1, <1>4, <2>1, UpToN, Zenon
  <2>3. N \in 0 .. N
    BY <1>1
  <2> QED
    BY <2>2, <2>3 DEF P
<1>7. a + N - 1 = L
  BY DEF N
<1>8. total[N] \in Nat
  BY <1>1
<1> QED
  BY <1>3, <1>6, <1>7, <1>8 DEF N

\* Read back, a KGM file never plays longer than it was recorded, and exactly as long when
\* no gap exceeds 16 bits.
LEMMA TimesReadBack ==
  ASSUME NEW frames \in Seq(Frames), NEW i \in 1 .. Len(frames),
         \A m, n \in 1 .. Len(frames) : m < n => frames[m].t < frames[n].t
  PROVE  /\ TotalOf(Dts(frames), i) \in Nat
         /\ TotalOf(Dts(frames), i) <= frames[i].t - frames[1].t
         /\ (\A j \in 2 .. i : frames[j].t - frames[j - 1].t <= MaxDt)
              => TotalOf(Dts(frames), i) = frames[i].t - frames[1].t
<1> DEFINE dts == Dts(frames)
<1>1. PICK N \in Nat : N = i /\ N <= Len(frames) /\ N \in 1 .. Len(frames)
  OBVIOUS
<1>2. \A k \in 1 .. N : k \in 1 .. Len(frames) /\ frames[k].t \in Nat
  <2>1. \A k \in 1 .. N : k \in 1 .. Len(frames)
    BY <1>1
  <2>2. \A k \in 1 .. Len(frames) : frames[k] \in Frames
    OBVIOUS
  <2>3. \A f \in Frames : f.t \in Nat
    BY DEF Frames
  <2> QED
    BY <2>1, <2>2, <2>3
<1>3. MaxDt \in Nat
  BY LoopAssumption DEF LoopAssumption
<1>4. ASSUME NEW k \in 1 .. N
      PROVE  dts[k] = IF k = 1 THEN 0
                      ELSE IF frames[k].t - frames[k - 1].t > MaxDt THEN MaxDt ELSE frames[k].t - frames[k - 1].t
  BY <1>2 DEF Dts
<1>5. ASSUME NEW k \in 1 .. N, k # 1
      PROVE  frames[k].t \in Nat /\ frames[k - 1].t \in Nat /\ frames[k - 1].t < frames[k].t /\ k - 1 \in 1 .. N
  <2>1. k - 1 \in 1 .. N /\ k - 1 < k
    BY <1>5
  <2> QED
    BY <1>2, <2>1
<1> HIDE DEF dts
<1>6. ASSUME NEW k \in 1 .. N PROVE dts[k] \in Nat
  <2>1. CASE k = 1
    BY <1>4, <2>1
  <2>2. CASE k # 1
    <3>1. PICK here \in Nat, before \in Nat : here = frames[k].t /\ before = frames[k - 1].t /\ before < here
      BY <1>5, <2>2
    <3>2. dts[k] = IF here - before > MaxDt THEN MaxDt ELSE here - before
      BY <1>4, <2>2, <3>1
    <3> QED
      BY <1>3, <3>1, <3>2
  <2> QED
    BY <2>1, <2>2
<1>7. PICK total \in [0 .. N -> Nat] :
        /\ TotalOf(dts, N) = total[N] /\ total[0] = 0
        /\ \A k \in 1 .. N : total[k] = total[k - 1] + dts[k]
  BY <1>6, TotalIsBuilt
<1> DEFINE Good(k) == /\ total[k] <= frames[k].t - frames[1].t
                      /\ (\A j \in 2 .. k : frames[j].t - frames[j - 1].t <= MaxDt)
                           => total[k] = frames[k].t - frames[1].t
           P == {k \in 0 .. N : k = 0 \/ Good(k)}
<1>8. 0 \in P
  OBVIOUS
<1>9. ASSUME NEW k \in 1 .. N, k - 1 \in P PROVE k \in P
  <2>1. k \in 0 .. N /\ k - 1 \in 0 .. N /\ total[k - 1] \in Nat /\ total[k] = total[k - 1] + dts[k]
    <3>1. k \in 0 .. N /\ k - 1 \in 0 .. N
      OBVIOUS
    <3>2. total[k] = total[k - 1] + dts[k]
      BY <1>7, Zenon
    <3> QED
      BY <3>1, <3>2
  <2>2. CASE k = 1
    <3>1. total[1] = 0 /\ frames[1].t \in Nat
      BY <1>2, <1>4, <1>7, <2>1, <2>2
    <3> HIDE DEF P
    <3>2. Good(k)
      BY <2>2, <3>1
    <3> QED
      BY <2>1, <3>2 DEF P
  <2>3. CASE k # 1
    <3>1. Good(k - 1)
      BY <1>9, <2>3
    <3>2. PICK here \in Nat, before \in Nat, first \in Nat :
            here = frames[k].t /\ before = frames[k - 1].t /\ first = frames[1].t
      <4>1. 1 \in 1 .. N
        BY <1>1
      <4> QED
        BY <1>2, <1>5, <2>3, <4>1
    <3>3. before < here /\ dts[k] = IF here - before > MaxDt THEN MaxDt ELSE here - before
      BY <1>4, <1>5, <2>3, <3>2
    <3>4. total[k] <= here - first
      <4>1. PICK sofar \in Nat : sofar = total[k - 1] /\ sofar <= before - first
        BY <2>1, <3>1, <3>2
      <4>2. dts[k] \in Nat /\ dts[k] <= here - before /\ total[k] = sofar + dts[k]
        BY <1>3, <2>1, <3>3, <4>1
      <4> QED
        BY <4>1, <4>2, SMTT(30)
    <3>5. ASSUME \A j \in 2 .. k : frames[j].t - frames[j - 1].t <= MaxDt PROVE total[k] = here - first
      <4>1. \A j \in 2 .. k - 1 : j \in 2 .. k
        OBVIOUS
      <4>2. k \in 2 .. k
        BY <2>3
      <4>3. here - before <= MaxDt
        BY <3>2, <3>5, <4>2
      <4>4. total[k - 1] = before - first
        BY <3>1, <3>2, <3>5, <4>1
      <4>5. dts[k] = here - before
        BY <1>3, <3>3, <4>3
      <4> QED
        BY <2>1, <4>4, <4>5
    <3>6. Good(k)
      BY <3>2, <3>4, <3>5
    <3> QED
      BY <2>1, <3>6
  <2> QED
    BY <2>2, <2>3
<1>10. Good(N)
  <2>1. \A k \in 1 .. N : k - 1 \in P => k \in P
    BY <1>9
  <2> HIDE DEF P
  <2>2. \A n \in 0 .. N : n \in P
    BY <1>8, <2>1, UpToN, Zenon
  <2>3. N \in 0 .. N /\ N # 0
    BY <1>1
  <2> QED
    BY <2>2, <2>3 DEF P
<1> QED
  BY <1>1, <1>7, <1>10 DEF dts

Entries == [t : Nat, seq : Nat, warnings : SUBSET Warnings]

\* Turns, and frames taken, follow each other in time, and a picture that was not looked at
\* yet is younger than all of them.
TimesRun ==
  /\ picture <= clock
  /\ \A i, j \in 1 .. Len(turns) : i < j => turns[i] < turns[j]
  /\ \A i, j \in 1 .. Len(taken) : i < j => taken[i].t < taken[j].t
  /\ \A i \in 1 .. Len(turns) : turns[i] <= clock /\ (picture # loop.last => turns[i] < picture)
  /\ \A i \in 1 .. Len(taken) : taken[i].t <= clock /\ (picture # loop.last => taken[i].t < picture)

\* The detector d has the gaps before the turns from a on: those of its window.
Holds(d, seen, a) ==
  /\ Len(d.samples) = Len(seen) + 1 - a
  /\ \A k \in 1 .. Len(seen) + 1 - a :
       d.samples[k].t = seen[a + k - 1] /\ d.samples[k].missed = seen[a + k - 1] - seen[a + k - 2] - 1
  /\ \A j \in 2 .. Len(seen) : j >= a <=> seen[j] >= d.last - DropWindow

Fits(d, seen) ==
  IF seen = <<>> THEN d = NoDrops
  ELSE d.last = seen[Len(seen)] /\ \E a \in 2 .. Len(seen) + 1 : Holds(d, seen, a)

\* A line tells what is due to its picture.
Tells(line, entry) ==
  /\ line \in Lines /\ line.t = entry.t /\ line.seq = entry.seq
  /\ Range(line.warnings) = entry.warnings /\ Len(line.warnings) = Cardinality(entry.warnings)

Size == IF Len(taken) > Cap THEN Cap ELSE Len(taken)
Offset == Len(taken) - Size

\* Both recordings have the last of what was taken; the lines have the metadata before
\* them until the first line goes.
FramesFit ==
  /\ Len(recording.frames) = Size
  /\ \A i \in 1 .. Size : /\ recording.frames[i].t = taken[Offset + i].t
                          /\ recording.frames[i].seq = taken[Offset + i].seq

LinesFit(h) ==
  /\ Len(recording.lines) = Size + h
  /\ h = 1 => recording.lines[1] = Metadata /\ Len(taken) < Cap
  /\ h = 0 => Len(taken) >= Cap \/ (taken = <<>> /\ ~recording.enabled)
  /\ \A i \in 1 .. Size : Tells(recording.lines[i + h], taken[Offset + i])

RecordFits == FramesFit /\ \E h \in {0, 1} : LinesFit(h)

LoopInv == LoopType /\ taken \in Seq(Entries) /\ TimesRun /\ Fits(drops, turns) /\ RecordFits

\* The detector drops what is too old, and nothing else.
LEMMA SampleFits ==
  ASSUME LoopType, TimesRun, Fits(drops, turns), picture # loop.last
  PROVE  LET d == Sample(drops, clock)
             seen == Append(turns, clock)
         IN  Fits(d, seen) /\ d \in [last : Nat \cup {Never}, samples : Seq([t : Nat, missed : Nat])]
<1> DEFINE d == Sample(drops, clock)
           seen == Append(turns, clock)
           Samples == [t : Nat, missed : Nat]
<1>1. PICK n \in Nat : n = Len(turns)
  BY DEF LoopType
<1>2. /\ clock \in Nat /\ turns \in Seq(Nat) /\ Never \notin Nat /\ DropWindow \in Nat /\ picture \in Nat
      /\ \A i \in 1 .. n : turns[i] \in Nat /\ turns[i] < clock
  BY <1>1, LoopAssumption DEF LoopType, TimesRun, LoopAssumption
<1>3. /\ seen \in Seq(Nat) /\ Len(seen) = n + 1 /\ seen # <<>> /\ seen[n + 1] = clock
      /\ \A i \in 1 .. n : seen[i] = turns[i]
  BY <1>1, <1>2
<1> HIDE DEF seen
<1>4. ASSUME NEW i \in 1 .. n + 1 PROVE seen[i] \in Nat /\ seen[i] <= clock
  <2>1. i = n + 1 \/ i \in 1 .. n
    OBVIOUS
  <2> QED
    BY <1>2, <1>3, <2>1
<1>5. ASSUME NEW i \in 1 .. n + 1, NEW j \in 1 .. n + 1, i < j PROVE seen[i] < seen[j]
  <2>1. i \in 1 .. n
    BY <1>5
  <2>2. CASE j = n + 1
    BY <1>2, <1>3, <2>1, <2>2
  <2>3. CASE j \in 1 .. n
    BY <1>1, <1>3, <1>5, <2>1, <2>3 DEF TimesRun
  <2> QED
    BY <2>2, <2>3
<1>6. CASE turns = <<>>
  <2>1. n = 0 /\ drops = NoDrops
    BY <1>1, <1>6 DEF Fits
  <2>2. d = [last |-> clock, samples |-> <<>>]
    BY <2>1 DEF Sample, NoDrops
  <2> HIDE DEF d
  <2>3. d.last = seen[Len(seen)] /\ Len(seen) = 1
    BY <1>3, <2>1, <2>2
  <2>4. Holds(d, seen, 2)
    <3>1. Len(d.samples) = 0 /\ Len(seen) + 1 - 2 = 0 /\ 2 .. Len(seen) = {} /\ 1 .. 0 = {}
      BY <2>2, <2>3
    <3>2. Len(d.samples) = Len(seen) + 1 - 2 /\ 1 .. Len(seen) + 1 - 2 = {}
      BY <3>1
    <3> HIDE DEF d, seen
    <3> QED
      BY <3>1, <3>2, Zenon DEF Holds
  <2>5. 2 \in 2 .. Len(seen) + 1
    BY <2>3
  <2>6. d \in [last : Nat \cup {Never}, samples : Seq(Samples)]
    <3>1. clock \in Nat \cup {Never} /\ <<>> \in Seq(Samples)
      BY <1>2
    <3> QED
      BY <2>2, <3>1
  <2>7. Fits(d, seen)
    BY <1>3, <2>3, <2>4, <2>5 DEF Fits
  <2> QED
    BY <2>6, <2>7 DEF d, seen
<1>7. CASE turns # <<>>
  <2>1. n # 0 /\ drops.last = turns[n] /\ n \in 1 .. n
    BY <1>1, <1>2, <1>7 DEF Fits
  <2>2. PICK a \in 2 .. n + 1 : Holds(drops, turns, a)
    BY <1>1, <1>7 DEF Fits
  <2>3. PICK last \in Nat : last = drops.last /\ last = turns[n] /\ last < clock /\ last # Never
    BY <1>2, <2>1
  <2>30. PICK m \in Nat : m = n + 1 - a
    OBVIOUS
  <2> DEFINE new == [t |-> clock, missed |-> clock - last - 1]
             all == Append(drops.samples, new)
             fresh == {k \in 1 .. m + 1 : all[k].t >= clock - DropWindow}
  <2>4. drops.samples \in Seq(Samples) /\ Len(drops.samples) = m /\ new \in Samples
    <3>1. drops.samples \in Seq(Samples)
      BY DEF LoopType
    <3>2. Len(drops.samples) = m
      BY <1>1, <2>2, <2>30 DEF Holds
    <3>3. clock - last - 1 \in Nat
      BY <1>2, <2>3
    <3> QED
      BY <1>2, <3>1, <3>2, <3>3
  <2>5. /\ all \in Seq(Samples) /\ Len(all) = m + 1 /\ all[m + 1] = new /\ DOMAIN all = 1 .. m + 1
        /\ \A k \in 1 .. m : all[k] = drops.samples[k]
    <3> HIDE DEF new
    <3> QED
      BY <2>4
  <2>6. d = [last |-> clock, samples |-> SubSeq(all, Min(fresh), m + 1)]
    <3>1. clock - last > 0
      BY <1>2, <2>3
    <3>2. (IF clock - last > 1 THEN clock - last - 1 ELSE 0) = clock - last - 1
      BY <1>2, <2>3
    <3>3. drops.last # Never
      BY <2>3
    <3> QED
      BY <2>3, <2>5, <3>2, <3>3 DEF Sample, Prune
  <2> HIDE DEF d
  <2>7. ASSUME NEW k \in 1 .. m + 1
        PROVE  /\ a + k - 1 \in 2 .. n + 1 /\ all[k].t = seen[a + k - 1]
               /\ all[k].missed = seen[a + k - 1] - seen[a + k - 2] - 1
    <3>1. a + k - 1 \in 2 .. n + 1
      BY <2>30
    <3>2. CASE k = m + 1
      <4>1. a + k - 1 = n + 1 /\ a + k - 2 = n
        BY <2>30, <3>2
      <4>2. all[k] = new
        BY <2>5, <3>2
      <4>3. seen[n + 1] = clock /\ seen[n] = last
        BY <1>3, <2>1, <2>3
      <4>5. new.t = clock /\ new.missed = clock - last - 1
        OBVIOUS
      <4> HIDE DEF all, new
      <4>4. all[k].t = clock /\ all[k].missed = clock - last - 1
        BY <4>2, <4>5
      <4> QED
        BY <3>1, <4>1, <4>3, <4>4
    <3>3. CASE k # m + 1
      <4>1. k \in 1 .. m /\ a + k - 1 \in 1 .. n /\ a + k - 2 \in 1 .. n
        BY <2>30, <3>3
      <4>2. all[k] = drops.samples[k] /\ k \in 1 .. Len(turns) + 1 - a
        BY <1>1, <2>5, <2>30, <4>1
      <4>3. all[k].t = turns[a + k - 1] /\ all[k].missed = turns[a + k - 1] - turns[a + k - 2] - 1
        BY <2>2, <4>2 DEF Holds
      <4>4. turns[a + k - 1] = seen[a + k - 1] /\ turns[a + k - 2] = seen[a + k - 2]
        BY <1>3, <4>1
      <4> QED
        BY <3>1, <4>3, <4>4
    <3> QED
      BY <3>2, <3>3
  <2> HIDE DEF all, new
  <2>8. PICK f \in 1 .. m + 1 : f \in fresh /\ (\A k \in fresh : f <= k) /\ Min(fresh) = f
    <3>1. m + 1 \in fresh
      <4>1. all[m + 1].t = clock /\ m + 1 \in 1 .. m + 1
        BY <2>4, <2>5 DEF new
      <4> QED
        BY <1>2, <2>4, <4>1
    <3>2. fresh \in SUBSET Nat
      BY <2>4
    <3>3. PICK f \in fresh : \A k \in fresh : f <= k
      <4> HIDE DEF fresh
      <4> QED
        BY <3>1, <3>2, LeastNatural
    <3>4. Min(fresh) = f
      <4> HIDE DEF fresh
      <4> QED
        BY <3>2, <3>3, LeastIsMin
    <3> QED
      BY <3>3, <3>4
  <2>40. PICK b \in Nat : b = a + f - 1
    BY <2>8
  <2> DEFINE left == SubSeq(all, f, m + 1)
  <2>9. /\ b \in 2 .. n + 2 /\ b \in 2 .. Len(seen) + 1 /\ Len(seen) + 1 - b = m + 2 - f
        /\ m + 1 - f + 1 = m + 2 - f
    BY <1>3, <2>30, <2>40
  <2>10. /\ left \in Seq(Samples) /\ Len(left) = m + 2 - f
         /\ \A k \in 1 .. m + 2 - f : left[k] = all[f + k - 1]
    <3>1. \A k \in f .. m + 1 : all[k] \in Samples
      <4>1. \A k \in f .. m + 1 : k \in 1 .. m + 1
        OBVIOUS
      <4> HIDE DEF Samples
      <4> QED
        BY <2>5, <4>1
    <3>2. PICK e \in Int : e = m + 1 /\ f <= e
      OBVIOUS
    <3> HIDE DEF Samples
    <3>3. f \in Int /\ \A k \in f .. e : all[k] \in Samples
      BY <3>1, <3>2
    <3>4. /\ SubSeq(all, f, e) \in Seq(Samples)
          /\ Len(SubSeq(all, f, e)) = IF f <= e THEN e - f + 1 ELSE 0
          /\ \A k \in 1 .. e - f + 1 : SubSeq(all, f, e)[k] = all[f + k - 1]
      <4> HIDE DEF all
      <4> QED
        BY <3>2, <3>3, SubSeqProperties
    <3>5. left = SubSeq(all, f, e)
      BY <3>2
    <3>6. e - f + 1 = m + 2 - f
      BY <3>2
    <3> HIDE DEF left
    <3> QED
      BY <3>2, <3>4, <3>5, <3>6
  <2>11. d.last = clock /\ d.samples = left
    BY <2>6, <2>8
  <2> HIDE DEF left
  <2>12. ASSUME NEW k \in 1 .. m + 2 - f
         PROVE  left[k].t = seen[b + k - 1] /\ left[k].missed = seen[b + k - 1] - seen[b + k - 2] - 1
    <3>1. PICK i \in 1 .. m + 1 : i = f + k - 1
      BY <2>30
    <3>2. a + i - 1 = b + k - 1 /\ a + i - 2 = b + k - 2
      BY <2>40, <3>1
    <3>3. left[k] = all[i]
      BY <2>10, <3>1
    <3> QED
      BY <2>7, <3>2, <3>3
  <2>13. ASSUME NEW j \in 2 .. n + 1 PROVE j >= b <=> seen[j] >= clock - DropWindow
    <3>1. seen[b] >= clock - DropWindow /\ b \in 2 .. n + 1
      BY <2>7, <2>8, <2>40
    <3>2. CASE j >= b
      <4>1. seen[b] <= seen[j] /\ seen[b] \in Nat /\ seen[j] \in Nat
        <5>1. b = j \/ b < j
          BY <3>1, <3>2
        <5>2. b \in 1 .. n + 1 /\ j \in 1 .. n + 1
          BY <3>1
        <5> QED
          BY <1>4, <1>5, <5>1, <5>2
      <4> QED
        BY <1>2, <3>1, <3>2, <4>1
    <3>3. CASE j < b /\ j >= a
      <4>1. PICK k \in 1 .. m + 1 : k = j - a + 1 /\ k < f /\ a + k - 1 = j
        BY <2>30, <2>40, <3>3
      <4>2. k \notin fresh
        BY <2>8, <4>1
      <4>3. all[k].t = seen[j] /\ ~(all[k].t >= clock - DropWindow)
        BY <2>7, <4>1, <4>2
      <4> QED
        BY <3>3, <4>3
    <3>4. CASE j < a
      <4>1. j \in 2 .. n /\ ~(j >= a)
        BY <2>30, <3>4
      <4>2. ~(turns[j] >= last - DropWindow)
        BY <1>1, <2>2, <2>3, <4>1 DEF Holds
      <4>3. seen[j] = turns[j] /\ turns[j] \in Nat
        BY <1>2, <1>3, <4>1
      <4>4. ~(seen[j] >= clock - DropWindow)
        BY <1>2, <2>3, <4>2, <4>3
      <4>5. ~(j >= b)
        BY <2>40, <3>4
      <4> QED
        BY <4>4, <4>5
    <3> QED
      BY <3>2, <3>3, <3>4
  <2>14. Holds(d, seen, b)
    <3> QED
      BY <1>3, <2>9, <2>10, <2>11, <2>12, <2>13 DEF Holds
  <2>15. d \in [last : Nat \cup {Never}, samples : Seq(Samples)]
    <3>1. d = [last |-> clock, samples |-> left]
      BY <2>6, <2>8 DEF left
    <3>2. clock \in Nat \cup {Never}
      BY <1>2
    <3> HIDE DEF Samples
    <3> QED
      BY <2>10, <3>1, <3>2
  <2>16. d.last = seen[Len(seen)]
    BY <1>3, <2>11
  <2>17. Fits(d, seen)
    BY <1>3, <2>9, <2>14, <2>16 DEF Fits
  <2> QED
    BY <2>15, <2>17 DEF d, seen
<1> QED
  BY <1>6, <1>7

\* What the detector counts are the pictures missed before the last turns.
LEMMA MissedIsDropped ==
  ASSUME NEW d, NEW seen \in Seq(Nat), seen # <<>>, Fits(d, seen), NEW now \in Nat, d.last = now,
         \A i, j \in 1 .. Len(seen) : i < j => seen[i] < seen[j],
         \A i \in 1 .. Len(seen) : seen[i] <= now,
         d.samples \in Seq([t : Nat, missed : Nat])
  PROVE  /\ RollingDropped(d) \in Nat
         /\ RollingDropped(d) = Cardinality(MissedLately(seen, now))
<1>1. PICK L \in Nat : L = Len(seen)
  OBVIOUS
<1>2. PICK a \in 2 .. L + 1 : Holds(d, seen, a)
  BY <1>1 DEF Fits
<1> DEFINE missed == [i \in DOMAIN d.samples |-> d.samples[i].missed]
           Gaps == Between(seen, L, a, now)
<1>3. Len(d.samples) = L + 1 - a /\ DOMAIN d.samples = 1 .. L + 1 - a
  BY <1>1, <1>2 DEF Holds
<1>4. \A k \in 1 .. L + 1 - a : missed[k] = seen[a + k - 1] - seen[a + k - 2] - 1
  BY <1>1, <1>2, <1>3 DEF Holds
<1>5. RollingDropped(d) = TotalOf(missed, L + 1 - a)
  BY <1>3 DEF RollingDropped
<1>6. TotalOf(missed, L + 1 - a) \in Nat /\ TotalOf(missed, L + 1 - a) = Cardinality(Gaps)
  <2>1. L = Len(seen) /\ Rising(seen, L, now)
    BY <1>1 DEF Rising
  <2> HIDE DEF missed
  <2>2. GapsOf(missed, seen, L, a)
    BY <1>4 DEF GapsOf
  <2> QED
    BY <1>1, <1>2, <2>1, <2>2, GapsAreMissed, ZenonT(40)
<1>7. MissedLately(seen, now) = Gaps
  <2>1. \A i \in 2 .. L : i \in a .. L <=> seen[i] >= now - DropWindow
    BY <1>1, <1>2 DEF Holds
  <2>2. \A i \in a .. L : i \in 2 .. L
    OBVIOUS
  <2> QED
    BY <1>1, <2>1, <2>2 DEF MissedLately, Between
<1> QED
  BY <1>5, <1>6, <1>7

\* What the loop tells of a picture is what is due to it.
LEMMA TurnTells ==
  ASSUME LoopInv, NEW p \in Pictures, picture # loop.last
  PROVE  LET line == [t |-> clock, seq |-> nextSeq,
                      warnings |-> PictureWarnings(Sample(drops, clock), Dark(p))]
             entry == [line EXCEPT !.warnings = Deserved(Append(turns, clock), Dark(p))]
         IN  entry \in Entries /\ entry.t = clock /\ Tells(line, entry)
<1> DEFINE d == Sample(drops, clock)
           seen == Append(turns, clock)
           told == PictureWarnings(d, Dark(p))
           due == Deserved(seen, Dark(p))
           line == [t |-> clock, seq |-> nextSeq, warnings |-> told]
           entry == [line EXCEPT !.warnings = due]
<1>1. LoopType /\ TimesRun /\ Fits(drops, turns)
  BY DEF LoopInv
<1>2. Fits(d, seen) /\ d \in [last : Nat \cup {Never}, samples : Seq([t : Nat, missed : Nat])]
  BY <1>1, SampleFits
<1>3. clock \in Nat /\ nextSeq \in Nat /\ turns \in Seq(Nat) /\ picture \in Nat
  BY <1>1 DEF LoopType
<1>4. PICK n \in Nat : n = Len(turns)
  BY <1>3
<1>5. /\ seen \in Seq(Nat) /\ Len(seen) = n + 1 /\ seen # <<>> /\ seen[n + 1] = clock
      /\ \A i \in 1 .. n : seen[i] = turns[i]
  BY <1>3, <1>4
<1>6. \A i \in 1 .. n : turns[i] \in Nat /\ turns[i] < clock
  BY <1>1, <1>3, <1>4 DEF TimesRun
<1> HIDE DEF d, seen
<1>7. \A i \in 1 .. Len(seen) : seen[i] <= clock
  <2>1. \A i \in 1 .. Len(seen) : i = n + 1 \/ i \in 1 .. n
    BY <1>5
  <2> QED
    BY <1>3, <1>5, <1>6, <2>1
<1>8. ASSUME NEW i \in 1 .. Len(seen), NEW j \in 1 .. Len(seen), i < j PROVE seen[i] < seen[j]
  <2>1. i \in 1 .. n
    BY <1>5, <1>8
  <2>2. CASE j = n + 1
    BY <1>5, <1>6, <2>1, <2>2
  <2>3. CASE j # n + 1
    <3>1. j \in 1 .. n
      BY <1>5, <2>3
    <3> QED
      BY <1>1, <1>4, <1>5, <1>8, <2>1, <3>1 DEF TimesRun
  <2> QED
    BY <2>2, <2>3
<1>9. d.last = clock /\ d.samples \in Seq([t : Nat, missed : Nat])
  BY <1>2, <1>5 DEF Fits
<1>10. RollingDropped(d) \in Nat /\ RollingDropped(d) = Cardinality(MissedLately(seen, clock))
  <2>1. \A i, j \in 1 .. Len(seen) : i < j => seen[i] < seen[j]
    BY <1>8
  <2> QED
    BY <1>2, <1>3, <1>5, <1>7, <1>9, <2>1, MissedIsDropped, Zenon
<1>11. Dark(p) \in BOOLEAN
  BY DEF Dark
<1>12. told \in Seq(Warnings) /\ Len(told) = Cardinality(Range(told)) /\ Range(told) = due
  <2>1. /\ told \in Seq(Warnings) /\ Len(told) = Cardinality(Range(told))
        /\ Range(told) = (IF HandsEnabled /\ Dark(p) THEN {"hands: low light"} ELSE {})
                           \cup (IF Dark(p) THEN {LowLight} ELSE {})
                           \cup (IF stats.slow \/ RollingDropped(d) > DropLimit THEN {DroppedFrames} ELSE {})
    BY <1>1, <1>10, <1>11, WarningsTold, Zenon
  <2>2. due = (IF HandsEnabled /\ Dark(p) THEN {"hands: low light"} ELSE {})
                \cup (IF Dark(p) THEN {LowLight} ELSE {})
                \cup (IF stats.slow \/ RollingDropped(d) > DropLimit THEN {DroppedFrames} ELSE {})
    BY <1>10 DEF Deserved
  <2> QED
    BY <2>1, <2>2
<1>13. due \in SUBSET Warnings
  BY DEF Deserved, Warnings, LowLight, DroppedFrames
<1> HIDE DEF told, due
<1>14. line \in Lines /\ line.t = clock /\ line.seq = nextSeq /\ line.warnings = told
  BY <1>3, <1>12 DEF Lines
<1>15. entry = [t |-> clock, seq |-> nextSeq, warnings |-> due]
  OBVIOUS
<1>16. entry \in Entries /\ entry.t = clock /\ entry.seq = nextSeq /\ entry.warnings = due
  BY <1>3, <1>13, <1>15 DEF Entries
<1> HIDE DEF line, entry
<1>17. Tells(line, entry)
  BY <1>12, <1>14, <1>16 DEF Tells
<1> QED
  BY <1>16, <1>17 DEF line, entry, told, due, d, seen

\* A frame that is recorded goes to the end of both recordings, and what is cut for it is
\* the same: the metadata first, then the oldest frame.
LEMMA FrameIsRecorded ==
  ASSUME LoopInv, recording.enabled, NEW line, NEW entry \in Entries, Tells(line, entry),
         recording' = RecordFrame(recording, line), taken' = Append(taken, entry)
  PROVE  /\ RecordFits'
         /\ recording' \in [enabled : BOOLEAN, lines : Seq(Lines \cup {Metadata}), frames : Seq(Frames)]
<1> DEFINE frame == [t |-> line.t, seq |-> line.seq]
           All == Lines \cup {Metadata}
           R == [enabled : BOOLEAN, lines : Seq(All), frames : Seq(Frames)]
<1>1. /\ recording \in R /\ recording.lines \in Seq(All) /\ recording.frames \in Seq(Frames)
      /\ taken \in Seq(Entries) /\ line \in Lines /\ line \in All /\ frame \in Frames
      /\ line.t = entry.t /\ line.seq = entry.seq
  <2>1. recording \in R /\ taken \in Seq(Entries)
    BY DEF LoopInv, LoopType
  <2>2. recording.lines \in Seq(All) /\ recording.frames \in Seq(Frames)
    <3> HIDE DEF All
    <3> QED
      BY <2>1
  <2>3. line \in Lines /\ line.t = entry.t /\ line.seq = entry.seq
    BY DEF Tells
  <2>4. frame \in Frames
    BY <2>3 DEF Lines, Frames
  <2> QED
    BY <2>1, <2>2, <2>3, <2>4
<1> HIDE DEF All
<1>2. PICK n \in Nat : n = Len(taken)
  BY <1>1
<1>3. PICK cap \in Nat : cap = Cap /\ cap >= 2
  BY LoopAssumption DEF LoopAssumption
<1>4. PICK s \in Nat : s = Size /\ s = (IF n > cap THEN cap ELSE n)
  BY <1>2, <1>3 DEF Size
<1>5. PICK o \in Nat : o = Offset /\ o + s = n
  BY <1>2, <1>4 DEF Offset
<1>6. PICK drop \in {0, 1} : drop = IF s + 1 > cap THEN 1 ELSE 0
  OBVIOUS
<1>7. PICK z \in Nat : z = s + 1 - drop /\ z = (IF n + 1 > cap THEN cap ELSE n + 1)
  BY <1>3, <1>4, <1>6
<1>8. /\ taken' \in Seq(Entries) /\ Len(taken') = n + 1 /\ taken'[n + 1] = entry
      /\ \A i \in 1 .. n : taken'[i] = taken[i]
  BY <1>1, <1>2
<1>9. Size' = z /\ Offset' = o + drop
  <2>1. Size' = z
    BY <1>3, <1>7, <1>8 DEF Size
  <2>2. Offset' = n + 1 - z
    BY <1>8, <2>1 DEF Offset
  <2> QED
    BY <1>5, <1>6, <1>7, <2>1, <2>2
<1>10. ASSUME NEW i \in 1 .. z
       PROVE  /\ i + drop \in 1 .. s + 1
              /\ taken'[Offset' + i] = IF i + drop = s + 1 THEN entry ELSE taken[o + (i + drop)]
  <2>1. PICK k \in 1 .. s + 1 : k = i + drop
    BY <1>6, <1>7
  <2>2. Offset' + i = o + k
    BY <1>5, <1>6, <1>9, <2>1
  <2>3. CASE k = s + 1
    <3>1. o + k = n + 1
      BY <1>5, <2>3
    <3> QED
      BY <1>8, <2>1, <2>2, <2>3, <3>1
  <2>4. CASE k # s + 1
    <3>1. o + k \in 1 .. n
      BY <1>5, <2>1, <2>4
    <3> QED
      BY <1>8, <2>1, <2>2, <2>4, <3>1
  <2> QED
    BY <2>3, <2>4
<1>11. recording' = [enabled |-> recording.enabled, lines |-> Push(recording.lines, line),
                     frames |-> Push(recording.frames, frame)]
  <2> HIDE DEF frame
  <2>1. recording' = [recording EXCEPT !.lines = Push(recording.lines, line),
                                       !.frames = Push(recording.frames, frame)]
    BY DEF RecordFrame, frame
  <2> QED
    BY <1>1, <2>1
<1> HIDE DEF frame
<1>12. /\ recording'.frames \in Seq(Frames) /\ Len(recording'.frames) = z
       /\ \A i \in 1 .. z : recording'.frames[i]
            = IF i + drop = s + 1 THEN frame ELSE recording.frames[i + drop]
  <2>1. Len(recording.frames) = s
    BY <1>4 DEF LoopInv, RecordFits, FramesFit
  <2>2. LET cut == IF Len(recording.frames) + 1 > Cap THEN 1 ELSE 0
        IN  /\ Push(recording.frames, frame) \in Seq(Frames)
            /\ Len(Push(recording.frames, frame)) = Len(recording.frames) + 1 - cut
            /\ \A i \in 1 .. Len(recording.frames) + 1 - cut :
                 Push(recording.frames, frame)[i]
                   = IF i + cut = Len(recording.frames) + 1 THEN frame ELSE recording.frames[i + cut]
    BY <1>1, PushKeeps
  <2>3. (IF Len(recording.frames) + 1 > Cap THEN 1 ELSE 0) = drop
    BY <1>3, <1>6, <2>1
  <2>4. recording'.frames = Push(recording.frames, frame)
    BY <1>11
  <2> QED
    BY <1>7, <2>1, <2>2, <2>3, <2>4
<1>13. FramesFit'
  <2>1. ASSUME NEW i \in 1 .. z
        PROVE  /\ recording'.frames[i].t = taken'[Offset' + i].t
               /\ recording'.frames[i].seq = taken'[Offset' + i].seq
    <3>1. CASE i + drop = s + 1
      <4>1. recording'.frames[i] = frame /\ taken'[Offset' + i] = entry
        BY <1>10, <1>12, <3>1
      <4> QED
        BY <1>1, <4>1 DEF frame
    <3>2. CASE i + drop # s + 1
      <4>1. PICK k \in 1 .. s : k = i + drop
        BY <1>10, <3>2
      <4>2. recording'.frames[i] = recording.frames[k] /\ taken'[Offset' + i] = taken[o + k]
        BY <1>10, <1>12, <3>2, <4>1
      <4>3. recording.frames[k].t = taken[o + k].t /\ recording.frames[k].seq = taken[o + k].seq
        BY <1>4, <1>5 DEF LoopInv, RecordFits, FramesFit
      <4> QED
        BY <4>2, <4>3
    <3> QED
      BY <3>1, <3>2
  <2> QED
    BY <1>9, <1>12, <2>1 DEF FramesFit
<1>14. PICK h \in {0, 1} : LinesFit(h)
  BY DEF LoopInv, RecordFits
<1>15. /\ Len(recording.lines) = s + h
       /\ h = 1 => recording.lines[1] = Metadata /\ n < cap
       /\ h = 0 => n >= cap
       /\ \A k \in 1 .. s : Tells(recording.lines[k + h], taken[o + k])
  <2>1. h = 0 => n >= cap
    BY <1>2, <1>3, <1>14 DEF LinesFit
  <2> QED
    BY <1>2, <1>3, <1>4, <1>5, <1>14, <2>1 DEF LinesFit
<1>16. PICK cut \in {0, 1} : cut = IF s + h + 1 > cap THEN 1 ELSE 0
  OBVIOUS
<1>17. PICK g \in {0, 1} : g = h + drop - cut
  BY <1>3, <1>4, <1>6, <1>15, <1>16
<1>18. /\ recording'.lines \in Seq(All) /\ Len(recording'.lines) = z + g
       /\ \A i \in 1 .. z + g : recording'.lines[i]
            = IF i + cut = s + h + 1 THEN line ELSE recording.lines[i + cut]
  <2>1. LET gone == IF Len(recording.lines) + 1 > Cap THEN 1 ELSE 0
        IN  /\ Push(recording.lines, line) \in Seq(All)
            /\ Len(Push(recording.lines, line)) = Len(recording.lines) + 1 - gone
            /\ \A i \in 1 .. Len(recording.lines) + 1 - gone :
                 Push(recording.lines, line)[i]
                   = IF i + gone = Len(recording.lines) + 1 THEN line ELSE recording.lines[i + gone]
    BY <1>1, PushKeeps
  <2>2. (IF Len(recording.lines) + 1 > Cap THEN 1 ELSE 0) = cut
    BY <1>3, <1>15, <1>16
  <2>3. recording'.lines = Push(recording.lines, line)
    BY <1>11
  <2>4. PICK l \in Nat : l = Len(recording.lines) /\ l + 1 = s + h + 1 /\ l + 1 - cut = z + g
    <3>1. PICK l \in Nat : l = s + h
      OBVIOUS
    <3>2. l + 1 - cut = z + g
      BY <1>7, <1>17, <3>1
    <3> QED
      BY <1>15, <3>1, <3>2
  <2>5. /\ recording'.lines \in Seq(All) /\ Len(recording'.lines) = l + 1 - cut
        /\ \A i \in 1 .. l + 1 - cut :
             recording'.lines[i] = IF i + cut = l + 1 THEN line ELSE recording.lines[i + cut]
    BY <2>1, <2>2, <2>3, <2>4
  <2> QED
    BY <2>4, <2>5
<1>19. g = 1 => recording'.lines[1] = Metadata /\ n + 1 < cap
  <2> SUFFICES ASSUME g = 1 PROVE recording'.lines[1] = Metadata /\ n + 1 < cap
    OBVIOUS
  <2>1. h = 1 /\ cut = 0 /\ n + 1 < cap
    BY <1>3, <1>4, <1>6, <1>15, <1>16, <1>17
  <2>2. 1 \in 1 .. z + g /\ 1 + cut = 1 /\ 1 # s + h + 1
    BY <2>1
  <2>3. s # 0 \/ s + h + 1 = 2
    BY <2>1
  <2> QED
    BY <1>15, <1>18, <2>1, <2>2
<1>20. g = 0 => n + 1 >= cap
  BY <1>3, <1>4, <1>6, <1>15, <1>16, <1>17
<1>21. ASSUME NEW i \in 1 .. z PROVE Tells(recording'.lines[i + g], taken'[Offset' + i])
  <2>1. i + g \in 1 .. z + g /\ (i + g) + cut = (i + drop) + h
    BY <1>6, <1>17
  <2>2. CASE i + drop = s + 1
    <3>1. PICK j \in 1 .. z + g : j = i + g /\ j + cut = s + h + 1
      BY <2>1, <2>2
    <3>2. recording'.lines[j] = line
      BY <1>18, <3>1
    <3>3. recording'.lines[i + g] = line /\ taken'[Offset' + i] = entry
      BY <1>10, <2>2, <3>1, <3>2
    <3> QED
      BY <3>3
  <2>3. CASE i + drop # s + 1
    <3>1. PICK k \in 1 .. s : k = i + drop
      BY <1>10, <2>3
    <3>2. (i + g) + cut = k + h /\ k + h # s + h + 1
      BY <2>1, <3>1
    <3>3. recording'.lines[i + g] = recording.lines[k + h] /\ taken'[Offset' + i] = taken[o + k]
      BY <1>10, <1>18, <2>1, <2>3, <3>1, <3>2
    <3> QED
      BY <1>15, <3>3
  <2> QED
    BY <2>2, <2>3
<1>22. LinesFit(g)'
  <2>1. Len(recording'.lines) = Size' + g
    BY <1>9, <1>18
  <2>2. g = 1 => recording'.lines[1] = Metadata /\ Len(taken') < Cap
    BY <1>3, <1>8, <1>19
  <2>3. g = 0 => Len(taken') >= Cap
    BY <1>3, <1>8, <1>20
  <2> QED
    BY <1>9, <1>21, <2>1, <2>2, <2>3 DEF LinesFit
<1>23. recording' \in R
  BY <1>1, <1>11, <1>12, <1>18
<1> QED
  BY <1>13, <1>22, <1>23 DEF RecordFits, All

LEMMA LoopStarts == LoopInit => LoopInv
<1> SUFFICES ASSUME LoopInit PROVE LoopInv
  OBVIOUS
<1>1. Cap \in Nat /\ Cap >= 2
  BY LoopAssumption DEF LoopAssumption
<1>2. recording.lines = <<>> /\ recording.frames = <<>> /\ ~recording.enabled
  BY DEF LoopInit
<1>3. LoopType /\ taken \in Seq(Entries)
  <2>1. drops \in [last : Nat \cup {Never}, samples : Seq([t : Nat, missed : Nat])]
    BY DEF LoopInit, NoDrops
  <2>2. recording \in [enabled : BOOLEAN, lines : Seq(Lines \cup {Metadata}), frames : Seq(Frames)]
    BY DEF LoopInit
  <2>3. taken \in Seq([t : Nat, seq : Nat, warnings : SUBSET Warnings]) /\ turns \in Seq(Nat)
    BY DEF LoopInit
  <2> QED
    BY <2>1, <2>2, <2>3 DEF LoopInit, LoopType, Entries
<1>4. TimesRun
  BY DEF LoopInit, TimesRun
<1>5. Fits(drops, turns)
  BY DEF LoopInit, Fits
<1>6. taken = <<>> /\ Len(taken) = 0
  BY DEF LoopInit
<1>7. Size = 0
  BY <1>1, <1>6 DEF Size
<1>8. FramesFit /\ LinesFit(0)
  BY <1>2, <1>6, <1>7 DEF FramesFit, LinesFit
<1> QED
  BY <1>3, <1>4, <1>5, <1>8 DEF LoopInv, RecordFits

\* Where neither recording nor taken changes, both recordings go on fitting.
LEMMA RecordingsStay ==
  ASSUME RecordFits, recording' = recording, taken' = taken
  PROVE  RecordFits'
<1>1. Size' = Size
  BY DEF Size
<1>2. Offset' = Offset
  BY <1>1 DEF Offset
<1>3. FramesFit'
  BY <1>1, <1>2 DEF RecordFits, FramesFit
<1>4. ASSUME NEW h \in {0, 1}, LinesFit(h) PROVE LinesFit(h)'
  BY <1>1, <1>2, <1>4 DEF LinesFit
<1> QED
  BY <1>3, <1>4 DEF RecordFits

\* A turn of the loop with a new picture.
LEMMA TurnStep ==
  ASSUME LoopInv, NEW p \in Pictures, LoopTurns(p)
  PROVE  LoopInv'
<1> DEFINE d == Sample(drops, clock)
           seen == Append(turns, clock)
           line == [t |-> clock, seq |-> nextSeq, warnings |-> PictureWarnings(d, Dark(p))]
           entry == [line EXCEPT !.warnings = Deserved(seen, Dark(p))]
           R == [enabled : BOOLEAN, lines : Seq(Lines \cup {Metadata}), frames : Seq(Frames)]
<1>1. /\ LoopType /\ TimesRun /\ Fits(drops, turns) /\ RecordFits /\ taken \in Seq(Entries)
      /\ picture # loop.last
  BY DEF LoopInv, LoopTurns
<1>2. /\ clock' = clock /\ picture' = picture /\ loop' = [loop EXCEPT !.last = picture]
      /\ drops' = d /\ turns' = seen
      /\ lostAt' = clock \/ lostAt' = lostAt \/ lostAt' = Never
      /\ UpdateStats(stats.frames + 1)
  BY DEF LoopTurns
<1>3. /\ clock \in Nat /\ nextSeq \in Nat /\ turns \in Seq(Nat) /\ picture \in Nat /\ recording \in R
      /\ lostAt \in Nat \cup {Never} /\ loop \in [running : BOOLEAN, callbacks : 0 .. 2, last : Nat \cup {Never}]
  BY <1>1 DEF LoopType
<1>4. Fits(d, seen) /\ d \in [last : Nat \cup {Never}, samples : Seq([t : Nat, missed : Nat])]
  BY <1>1, SampleFits
<1>5. entry \in Entries /\ entry.t = clock /\ Tells(line, entry)
  BY <1>1, TurnTells, Zenon
<1>6. \/ SendFrame(PictureWarnings(d, Dark(p)), Deserved(seen, Dark(p)))
      \/ UNCHANGED <<nextSeq, recording, taken>>
  BY DEF LoopTurns
<1> HIDE DEF d
<1>7. /\ nextSeq' \in Nat /\ RecordFits' /\ recording' \in R
      /\ taken' = taken \/ taken' = Append(taken, entry)
  <2>1. CASE UNCHANGED <<nextSeq, recording, taken>>
    <3>1. nextSeq' = nextSeq /\ recording' = recording /\ taken' = taken
      BY <2>1
    <3>2. RecordFits'
      BY <1>1, <3>1, RecordingsStay
    <3> QED
      BY <1>3, <3>1, <3>2
  <2>2. CASE SendFrame(PictureWarnings(d, Dark(p)), Deserved(seen, Dark(p)))
    <3>1. /\ nextSeq' = nextSeq + 1 /\ recording' = RecordFrame(recording, line)
          /\ taken' = IF recording.enabled THEN Append(taken, entry) ELSE taken
      BY <2>2 DEF SendFrame
    <3> HIDE DEF line, entry
    <3>2. CASE recording.enabled
      <4>1. taken' = Append(taken, entry)
        BY <3>1, <3>2
      <4>2. RecordFits' /\ recording' \in R
        BY <1>5, <3>1, <3>2, <4>1, FrameIsRecorded
      <4> QED
        BY <1>3, <3>1, <4>1, <4>2
    <3>3. CASE ~recording.enabled
      <4>1. recording' = recording /\ taken' = taken
        BY <3>1, <3>3 DEF RecordFrame
      <4>2. RecordFits'
        BY <1>1, <4>1, RecordingsStay
      <4> QED
        BY <1>3, <3>1, <4>1, <4>2
    <3> QED
      BY <3>2, <3>3
  <2> QED
    BY <1>6, <2>1, <2>2
<1> HIDE DEF line, entry
<1>8. taken' \in Seq(Entries)
  <2>1. CASE taken' = Append(taken, entry)
    BY <1>1, <1>5, <2>1
  <2> QED
    BY <1>1, <1>7, <2>1
<1>9. /\ loop' \in [running : BOOLEAN, callbacks : 0 .. 2, last : Nat \cup {Never}]
      /\ loop'.last = picture
  BY <1>2, <1>3
<1>10. stats' \in [at : Nat, frames : Nat, slow : BOOLEAN]
  <2>1. stats \in [at : Nat, frames : Nat, slow : BOOLEAN] /\ stats.frames + 1 \in Nat
    BY <1>1 DEF LoopType
  <2>2. CASE StatsDue
    <3>1. stats' = [at |-> clock, frames |-> 0,
                    slow |-> stats.frames + 1 > 0 /\ (stats.frames + 1) * 100 < LowRate * (clock - stats.at)]
      BY <1>2, <2>2 DEF UpdateStats
    <3> QED
      BY <1>3, <3>1
  <2>3. CASE ~StatsDue
    <3>1. stats' = [stats EXCEPT !.frames = stats.frames + 1]
      BY <1>2, <2>3 DEF UpdateStats
    <3> QED
      BY <2>1, <3>1
  <2> QED
    BY <2>2, <2>3
<1>11. LoopType'
  <2>1. lostAt' \in Nat \cup {Never} /\ seen \in Seq(Nat)
    BY <1>2, <1>3
  <2> QED
    BY <1>2, <1>3, <1>4, <1>7, <1>8, <1>9, <1>10, <2>1 DEF LoopType, Entries
<1>12. TimesRun'
  <2>1. PICK n \in Nat : n = Len(turns)
    BY <1>3
  <2>2. /\ turns' \in Seq(Nat) /\ Len(turns') = n + 1 /\ turns'[n + 1] = clock
        /\ \A i \in 1 .. n : turns'[i] = turns[i] /\ turns[i] < clock /\ turns[i] \in Nat
    <3>1. \A i \in 1 .. n : turns[i] \in Nat /\ turns[i] < clock
      BY <1>1, <1>3, <2>1 DEF TimesRun
    <3> QED
      BY <1>2, <1>3, <2>1, <3>1
  <2>3. ASSUME NEW i \in 1 .. n + 1, NEW j \in 1 .. n + 1, i < j PROVE turns'[i] < turns'[j]
    <3>1. i \in 1 .. n /\ (j = n + 1 \/ j \in 1 .. n)
      BY <2>3
    <3>2. j \in 1 .. n => turns[i] < turns[j]
      BY <1>1, <2>1, <2>3, <3>1 DEF TimesRun
    <3> QED
      BY <2>2, <3>1, <3>2
  <2>4. ASSUME NEW i \in 1 .. n + 1 PROVE turns'[i] <= clock
    <3>1. i = n + 1 \/ i \in 1 .. n
      OBVIOUS
    <3>2. i = n + 1 => turns'[i] = clock
      BY <2>2
    <3>3. i \in 1 .. n => turns'[i] \in Nat /\ turns'[i] < clock
      BY <2>2
    <3> QED
      BY <1>3, <3>1, <3>2, <3>3
  <2>5. PICK k \in Nat : k = Len(taken)
    BY <1>1
  <2>6. ASSUME NEW i \in 1 .. k PROVE taken[i].t \in Nat /\ taken[i].t < clock
    <3>1. taken[i] \in Entries
      BY <1>1, <2>5
    <3>2. taken[i].t < picture /\ picture <= clock
      BY <1>1, <2>5 DEF TimesRun
    <3> QED
      BY <1>3, <3>1, <3>2 DEF Entries
  <2>7. /\ \A i, j \in 1 .. Len(taken') : i < j => taken'[i].t < taken'[j].t
        /\ \A i \in 1 .. Len(taken') : taken'[i].t <= clock
    <3>1. CASE taken' = taken
      <4>1. \A i \in 1 .. k : taken[i].t <= clock
        BY <1>3, <2>6
      <4> QED
        BY <1>1, <2>5, <3>1, <4>1 DEF TimesRun
    <3>2. CASE taken' = Append(taken, entry)
      <4>1. /\ Len(taken') = k + 1 /\ taken'[k + 1].t = clock
            /\ \A i \in 1 .. k : taken'[i] = taken[i]
        BY <1>1, <1>5, <2>5, <3>2
      <4>2. ASSUME NEW i \in 1 .. k + 1, NEW j \in 1 .. k + 1, i < j PROVE taken'[i].t < taken'[j].t
        <5>1. i \in 1 .. k /\ (j = k + 1 \/ j \in 1 .. k)
          BY <4>2
        <5>2. j \in 1 .. k => taken[i].t < taken[j].t
          BY <1>1, <2>5, <4>2, <5>1 DEF TimesRun
        <5> QED
          BY <2>6, <4>1, <5>1, <5>2
      <4>3. ASSUME NEW i \in 1 .. k + 1 PROVE taken'[i].t <= clock
        <5>1. i = k + 1 \/ i \in 1 .. k
          OBVIOUS
        <5>2. i = k + 1 => taken'[i].t = clock
          BY <4>1
        <5>3. i \in 1 .. k => taken'[i].t \in Nat /\ taken'[i].t < clock
          BY <2>6, <4>1
        <5> QED
          BY <1>3, <5>1, <5>2, <5>3
      <4> QED
        BY <4>1, <4>2, <4>3
    <3> QED
      BY <1>7, <3>1, <3>2
  <2>8. picture' <= clock' /\ picture' = loop'.last /\ clock' = clock
    BY <1>1, <1>2, <1>9 DEF TimesRun
  <2> QED
    BY <2>2, <2>3, <2>4, <2>7, <2>8 DEF TimesRun
<1>13. Fits(drops', turns')
  BY <1>2, <1>4
<1> QED
  BY <1>7, <1>8, <1>11, <1>12, <1>13 DEF LoopInv

\* Switching recording on starts with the metadata; off keeps what there is.
LEMMA SwitchStep ==
  ASSUME LoopInv, TickRecord
  PROVE  LoopInv'
<1>1. /\ LoopType /\ TimesRun /\ Fits(drops, turns) /\ RecordFits /\ taken \in Seq(Entries)
      /\ UNCHANGED <<clock, picture, loop, nextSeq, lostAt, drops, stats, turns>>
  BY DEF LoopInv, TickRecord
<1>2. Fits(drops', turns')
  BY <1>1
<1>3. recording \in [enabled : BOOLEAN, lines : Seq(Lines \cup {Metadata}), frames : Seq(Frames)]
  BY <1>1 DEF LoopType
<1>4. CASE recording.enabled
  <2>1. recording' = [recording EXCEPT !.enabled = FALSE] /\ taken' = taken
    BY <1>4 DEF TickRecord
  <2>2. /\ recording' \in [enabled : BOOLEAN, lines : Seq(Lines \cup {Metadata}), frames : Seq(Frames)]
        /\ recording'.lines = recording.lines /\ recording'.frames = recording.frames
    BY <1>3, <2>1
  <2>3. RecordFits'
    BY <1>1, <1>4, <2>1, <2>2 DEF RecordFits, FramesFit, LinesFit, Size, Offset
  <2>4. LoopType'
    BY <1>1, <2>1, <2>2 DEF LoopType
  <2>5. TimesRun'
    BY <1>1, <2>1 DEF TimesRun
  <2> QED
    BY <1>1, <1>2, <2>1, <2>3, <2>4, <2>5 DEF LoopInv
<1>5. CASE ~recording.enabled
  <2>1. recording' = [enabled |-> TRUE, lines |-> <<Metadata>>, frames |-> <<>>] /\ taken' = <<>>
    BY <1>5 DEF TickRecord
  <2>2. /\ recording' \in [enabled : BOOLEAN, lines : Seq(Lines \cup {Metadata}), frames : Seq(Frames)]
        /\ recording'.lines = <<Metadata>> /\ Len(recording'.lines) = 1 /\ recording'.lines[1] = Metadata
        /\ recording'.frames = <<>> /\ Len(recording'.frames) = 0 /\ Len(taken') = 0
        /\ taken' \in Seq(Entries)
    <3>1. <<Metadata>> \in Seq(Lines \cup {Metadata})
      OBVIOUS
    <3> QED
      BY <2>1, <3>1
  <2>3. Cap \in Nat /\ Cap >= 2
    BY LoopAssumption DEF LoopAssumption
  <2>4. Size' = 0
    BY <2>2, <2>3 DEF Size
  <2>5. FramesFit' /\ LinesFit(1)'
    BY <2>2, <2>3, <2>4 DEF FramesFit, LinesFit
  <2>6. LoopType'
    BY <1>1, <2>2 DEF LoopType, Entries
  <2>7. TimesRun'
    BY <1>1, <2>1 DEF TimesRun
  <2> QED
    BY <1>2, <2>2, <2>5, <2>6, <2>7 DEF LoopInv, RecordFits
<1> QED
  BY <1>4, <1>5

LEMMA LoopStep ==
  ASSUME LoopInv, [LoopNext]_loopVars
  PROVE  LoopInv'
<1> DEFINE Loops == [running : BOOLEAN, callbacks : 0 .. 2, last : Nat \cup {Never}]
           Detectors == [last : Nat \cup {Never}, samples : Seq([t : Nat, missed : Nat])]
           Stats == [at : Nat, frames : Nat, slow : BOOLEAN]
<1>1. LoopType /\ TimesRun /\ Fits(drops, turns) /\ RecordFits /\ taken \in Seq(Entries)
  BY DEF LoopInv
<1>2. /\ clock \in Nat /\ picture \in Nat /\ loop \in Loops /\ nextSeq \in Nat /\ lostAt \in Nat \cup {Never}
      /\ drops \in Detectors /\ stats \in Stats /\ turns \in Seq(Nat)
      /\ NoDrops \in Detectors
  <2>1. NoDrops \in Detectors
    BY DEF NoDrops
  <2> QED
    BY <1>1, <2>1 DEF LoopType
<1>3. ASSUME UNCHANGED <<recording, taken>>,
             clock' \in Nat, picture' \in Nat, loop' \in Loops, nextSeq' \in Nat, lostAt' \in Nat \cup {Never},
             drops' \in Detectors, stats' \in Stats, turns' \in Seq(Nat),
             TimesRun', Fits(drops', turns')
      PROVE  LoopInv'
  <2>1. RecordFits'
    BY <1>1, <1>3, RecordingsStay
  <2>2. LoopType'
    BY <1>1, <1>3 DEF LoopType
  <2> QED
    BY <1>1, <1>3, <2>1, <2>2 DEF LoopInv
<1>4. ASSUME UNCHANGED <<clock, picture, taken>>, loop'.last = loop.last, turns' = turns \/ turns' = <<>>
      PROVE  TimesRun'
  BY <1>1, <1>4 DEF TimesRun
<1>5. CASE Start
  <2>1. /\ loop' = [loop EXCEPT !.running = TRUE, !.callbacks = @ + 1] /\ loop.callbacks < 2
        /\ drops' = NoDrops /\ turns' = <<>>
        /\ UNCHANGED <<clock, picture, nextSeq, lostAt, stats, recording, taken>>
    BY <1>5 DEF Start, StartCamera
  <2>2. loop' \in Loops /\ loop'.last = loop.last
    <3>1. loop.callbacks + 1 \in 0 .. 2
      BY <1>2, <2>1
    <3>2. loop' = [loop EXCEPT !.running = TRUE, !.callbacks = loop.callbacks + 1]
      BY <2>1
    <3> QED
      BY <1>2, <3>1, <3>2
  <2>3. TimesRun' /\ Fits(drops', turns')
    BY <1>4, <2>1, <2>2 DEF Fits
  <2> QED
    BY <1>2, <1>3, <2>1, <2>2, <2>3
<1>6. CASE RestartCamera
  <2>1. /\ drops' = NoDrops /\ turns' = <<>>
        /\ UNCHANGED <<clock, picture, loop, nextSeq, lostAt, stats, recording, taken>>
    BY <1>6 DEF RestartCamera, StartCamera
  <2>2. TimesRun' /\ Fits(drops', turns')
    BY <1>4, <2>1 DEF Fits
  <2> QED
    BY <1>2, <1>3, <2>1, <2>2
<1>7. CASE Stop
  <2>1. /\ loop' = [loop EXCEPT !.running = FALSE]
        /\ UNCHANGED <<clock, picture, nextSeq, lostAt, drops, stats, recording, turns, taken>>
    BY <1>7 DEF Stop
  <2>2. loop' \in Loops /\ loop'.last = loop.last
    BY <1>2, <2>1
  <2>3. TimesRun' /\ Fits(drops', turns')
    BY <1>1, <1>4, <2>1, <2>2
  <2> QED
    BY <1>2, <1>3, <2>1, <2>2, <2>3
<1>8. CASE LoopEnds
  <2>1. /\ loop' = [loop EXCEPT !.callbacks = @ - 1] /\ loop.callbacks > 0
        /\ UNCHANGED <<clock, picture, nextSeq, lostAt, drops, stats, recording, turns, taken>>
    BY <1>8 DEF LoopEnds
  <2>2. loop' \in Loops /\ loop'.last = loop.last
    <3>1. loop.callbacks - 1 \in 0 .. 2
      BY <1>2, <2>1
    <3>2. loop' = [loop EXCEPT !.callbacks = loop.callbacks - 1]
      BY <2>1
    <3> QED
      BY <1>2, <3>1, <3>2
  <2>3. TimesRun' /\ Fits(drops', turns')
    BY <1>1, <1>4, <2>1, <2>2
  <2> QED
    BY <1>2, <1>3, <2>1, <2>2, <2>3
<1>9. CASE LoopIdles
  <2>1. /\ UpdateStats(stats.frames)
        /\ UNCHANGED <<clock, picture, loop, nextSeq, lostAt, drops, recording, turns, taken>>
    BY <1>9 DEF LoopIdles
  <2>2. stats' \in Stats
    <3>1. stats.frames \in Nat
      BY <1>2
    <3>2. CASE StatsDue
      <4>1. stats' = [at |-> clock, frames |-> 0,
                      slow |-> stats.frames > 0 /\ stats.frames * 100 < LowRate * (clock - stats.at)]
        BY <2>1, <3>2 DEF UpdateStats
      <4> QED
        BY <1>2, <4>1
    <3>3. CASE ~StatsDue
      <4>1. stats' = [stats EXCEPT !.frames = stats.frames]
        BY <2>1, <3>3 DEF UpdateStats
      <4> QED
        BY <1>2, <3>1, <4>1
    <3> QED
      BY <3>2, <3>3
  <2>3. TimesRun' /\ Fits(drops', turns')
    BY <1>1, <1>4, <2>1
  <2> QED
    BY <1>2, <1>3, <2>1, <2>2, <2>3
<1>10. CASE ResetFilters
  <2>1. /\ lostAt' = Never
        /\ UNCHANGED <<clock, picture, loop, nextSeq, drops, stats, recording, turns, taken>>
    BY <1>10 DEF ResetFilters
  <2>2. TimesRun' /\ Fits(drops', turns')
    BY <1>1, <1>4, <2>1
  <2> QED
    BY <1>2, <1>3, <2>1, <2>2
<1>11. CASE Tick
  <2>1. /\ clock' = clock + 1 /\ picture' \in {picture, clock + 1}
        /\ UNCHANGED <<loop, nextSeq, lostAt, drops, stats, recording, turns, taken>>
    BY <1>11 DEF Tick
  <2>2. \A i \in 1 .. Len(turns) : turns[i] \in Nat /\ turns[i] <= clock
    <3>1. \A i \in 1 .. Len(turns) : turns[i] \in Nat
      BY <1>2
    <3>2. \A i \in 1 .. Len(turns) : turns[i] <= clock
      BY <1>1, Zenon DEF TimesRun
    <3> QED
      BY <3>1, <3>2
  <2>3. \A i \in 1 .. Len(taken) : taken[i].t \in Nat /\ taken[i].t <= clock
    <3>1. \A i \in 1 .. Len(taken) : taken[i] \in Entries
      BY <1>1
    <3> QED
      BY <1>1, <3>1 DEF TimesRun, Entries
  <2>4. picture' <= clock' /\ (picture' = picture \/ picture' = clock + 1) /\ picture <= clock
    BY <1>1, <1>2, <2>1 DEF TimesRun
  <2>5. \A i \in 1 .. Len(turns) : turns[i] <= clock' /\ (picture' # loop.last => turns[i] < picture')
    BY <1>1, <1>2, <2>1, <2>2, <2>4 DEF TimesRun
  <2>6. \A i \in 1 .. Len(taken) : taken[i].t <= clock' /\ (picture' # loop.last => taken[i].t < picture')
    BY <1>1, <1>2, <2>1, <2>3, <2>4 DEF TimesRun
  <2>7. TimesRun'
    BY <1>1, <2>1, <2>4, <2>5, <2>6 DEF TimesRun
  <2>8. clock' \in Nat /\ picture' \in Nat
    BY <1>2, <2>1
  <2> QED
    BY <1>1, <1>2, <1>3, <2>1, <2>7, <2>8
<1>12. CASE \E p \in Pictures : LoopTurns(p)
  BY <1>12, TurnStep
<1>13. CASE TickRecord
  BY <1>13, SwitchStep
<1>14. CASE UNCHANGED loopVars
  <2>1. UNCHANGED <<clock, picture, loop, nextSeq, lostAt, drops, stats, recording, turns, taken>>
    BY <1>14 DEF loopVars
  <2>2. TimesRun' /\ Fits(drops', turns')
    BY <1>1, <1>4, <2>1
  <2> QED
    BY <1>2, <1>3, <2>1, <2>2
<1> QED
  BY <1>5, <1>6, <1>7, <1>8, <1>9, <1>10, <1>11, <1>12, <1>13, <1>14 DEF LoopNext

\* The invariant tells what is read back from both recordings.
LEMMA RecordingsAreRead == LoopInv => RecordingIsWhatWasSent
<1> SUFFICES ASSUME LoopInv PROVE RecordingIsWhatWasSent
  OBVIOUS
<1>20. PICK all \in Nat, cap \in Nat : all = Len(taken) /\ cap = Cap
  BY LoopAssumption DEF LoopInv, LoopAssumption
<1>1. PICK s \in Nat : s = Size /\ s <= all
  BY <1>20 DEF Size
<1>2. PICK o \in Nat : o = Offset /\ o + s = Len(taken)
  <2>1. Offset = all - s
    BY <1>1, <1>20 DEF Offset
  <2>2. all - s \in Nat /\ (all - s) + s = all
    BY <1>1
  <2> QED
    BY <1>20, <2>1, <2>2
<1>3. /\ taken \in Seq(Entries) /\ recording.lines \in Seq(Lines \cup {Metadata})
      /\ recording.frames \in Seq(Frames)
  <2> DEFINE All == Lines \cup {Metadata}
  <2>1. /\ taken \in Seq(Entries)
        /\ recording \in [enabled : BOOLEAN, lines : Seq(All), frames : Seq(Frames)]
    BY DEF LoopInv, LoopType
  <2> HIDE DEF All
  <2>2. recording.lines \in Seq(All) /\ recording.frames \in Seq(Frames)
    BY <2>1
  <2> QED
    BY <2>1, <2>2 DEF All
<1>4. PICK h \in {0, 1} : LinesFit(h)
  BY DEF LoopInv, RecordFits
<1> DEFINE kept == SubSeq(taken, Len(taken) - s + 1, Len(taken))
           lines == JsonlFrames(recording)
           kgm == KgmFrames(recording)
<1>5. ASSUME NEW i \in 1 .. s
      PROVE  /\ o + i \in 1 .. Len(taken) /\ kept[i] = taken[o + i]
             /\ taken[o + i].t \in Nat /\ taken[o + i].seq \in Nat
  <2>1. PICK m \in Nat : m = o + i /\ m \in 1 .. Len(taken)
    BY <1>2
  <2>2. taken[m].t \in Nat /\ taken[m].seq \in Nat
    <3>1. taken[m] \in Entries
      BY <1>3, <2>1
    <3> QED
      BY <3>1 DEF Entries
  <2>3. kept[i] = taken[m]
    <3>1. PICK first \in Int, last \in Int : first = Len(taken) - s + 1 /\ last = Len(taken)
      BY <1>1, <1>20
    <3>2. \A k \in first .. last : taken[k] \in Entries
      <4>1. \A k \in first .. last : k \in 1 .. Len(taken)
        BY <1>2, <3>1
      <4> QED
        BY <1>3, <4>1
    <3>3. \A k \in 1 .. last - first + 1 : SubSeq(taken, first, last)[k] = taken[first + k - 1]
      BY <3>2, SubSeqProperties
    <3>4. i \in 1 .. last - first + 1 /\ first + i - 1 = m
      BY <1>2, <2>1, <3>1
    <3>5. SubSeq(taken, first, last)[i] = taken[first + i - 1]
      BY <3>3, <3>4
    <3>6. kept = SubSeq(taken, first, last)
      BY <3>1
    <3> HIDE DEF kept
    <3> QED
      BY <3>4, <3>5, <3>6
  <2> HIDE DEF kept
  <2> QED
    BY <2>1, <2>2, <2>3
<1> HIDE DEF kept
<1>6. ASSUME NEW i \in 1 .. s, NEW j \in 1 .. s, i < j PROVE kept[i].t < kept[j].t
  <2>1. PICK m \in 1 .. Len(taken), n \in 1 .. Len(taken) : m = o + i /\ n = o + j /\ m < n
    BY <1>5, <1>6
  <2>2. taken[m].t < taken[n].t
    BY <2>1 DEF LoopInv, TimesRun
  <2> QED
    BY <1>5, <2>1, <2>2
<1>7. /\ Len(recording.lines) = s + h
      /\ h = 1 => recording.lines[1] = Metadata
      /\ \A i \in 1 .. s : Tells(recording.lines[i + h], kept[i])
  BY <1>1, <1>2, <1>4, <1>5 DEF LinesFit
<1>8. ASSUME NEW i \in 1 .. Len(recording.lines) PROVE recording.lines[i] = Metadata <=> i <= h
  <2>1. CASE i <= h
    <3>1. i = 1 /\ h = 1
      BY <2>1
    <3> QED
      BY <1>7, <2>1, <3>1
  <2>2. CASE ~(i <= h)
    <3>1. PICK k \in 1 .. s : k + h = i
      <4>1. i - h \in 1 .. s /\ (i - h) + h = i
        BY <1>7, <2>2
      <4> QED
        BY <4>1
    <3>2. recording.lines[i] \in Lines
      BY <1>7, <3>1 DEF Tells
    <3>3. recording.lines[i] # Metadata
      BY <3>2 DEF Lines, Metadata
    <3> QED
      BY <2>2, <3>3
  <2> QED
    BY <2>1, <2>2
<1>9. Len(lines) = s /\ \A i \in 1 .. s : lines[i] = recording.lines[i + h]
  <2>3. h <= Len(recording.lines) /\ Len(recording.lines) - h = s
    <3>1. h <= s + h /\ (s + h) - h = s
      OBVIOUS
    <3> QED
      BY <1>7, <3>1
  <2>1. /\ h \in {0, 1} /\ h <= Len(recording.lines) /\ Len(recording.lines) - h = s
        /\ \A i \in 1 .. Len(recording.lines) : recording.lines[i] = Metadata <=> i <= h
    BY <1>8, <2>3
  <2>2. /\ Len(lines) = Len(recording.lines) - h
        /\ \A i \in 1 .. Len(recording.lines) - h : lines[i] = recording.lines[i + h]
    BY <1>3, <2>1, JsonlIsRead, Zenon
  <2> HIDE DEF lines
  <2> QED
    BY <2>1, <2>2
<1> HIDE DEF lines
<1>10. /\ Len(recording.frames) = s /\ DOMAIN recording.frames = 1 .. s
       /\ \A i \in 1 .. s : /\ recording.frames[i].t = kept[i].t /\ recording.frames[i].seq = kept[i].seq
                            /\ kept[i].t \in Nat /\ kept[i].seq \in Nat
  BY <1>1, <1>2, <1>3, <1>5 DEF LoopInv, RecordFits, FramesFit
<1>11. DOMAIN Dts(recording.frames) = 1 .. s
  BY <1>10 DEF Dts
<1>12. /\ kgm = [i \in 1 .. s |-> [t |-> TotalOf(Dts(recording.frames), i),
                                   seq |-> recording.frames[i].seq % SeqModulus]]
  <2>1. /\ KgmFile(recording).dts = Dts(recording.frames)
        /\ KgmFile(recording).seqs = [i \in 1 .. s |-> recording.frames[i].seq % SeqModulus]
    BY <1>10 DEF KgmFile
  <2> QED
    BY <1>11, <2>1 DEF KgmFrames
<1>13. ASSUME NEW i \in 1 .. s
       PROVE  /\ TotalOf(Dts(recording.frames), i) \in Nat
              /\ TotalOf(Dts(recording.frames), i) <= kept[i].t - kept[1].t
              /\ (\A j \in 2 .. i : kept[j].t - kept[j - 1].t <= MaxDt)
                   => TotalOf(Dts(recording.frames), i) = kept[i].t - kept[1].t
  <2>1. \A m, n \in 1 .. Len(recording.frames) : m < n => recording.frames[m].t < recording.frames[n].t
    BY <1>6, <1>10
  <2>2. i \in 1 .. Len(recording.frames)
    BY <1>10
  <2>3. /\ TotalOf(Dts(recording.frames), i) \in Nat
        /\ TotalOf(Dts(recording.frames), i) <= recording.frames[i].t - recording.frames[1].t
        /\ (\A j \in 2 .. i : recording.frames[j].t - recording.frames[j - 1].t <= MaxDt)
             => TotalOf(Dts(recording.frames), i) = recording.frames[i].t - recording.frames[1].t
    BY <1>3, <2>1, <2>2, TimesReadBack, Zenon
  <2>4. 1 \in 1 .. s /\ \A j \in 2 .. i : j \in 1 .. s /\ j - 1 \in 1 .. s
    OBVIOUS
  <2> QED
    BY <1>10, <2>3, <2>4
<1>14. /\ Len(kgm) = s
       /\ \A i \in 1 .. s : /\ kgm[i].t = TotalOf(Dts(recording.frames), i)
                            /\ kgm[i].seq = kept[i].seq % SeqModulus
  <2> DEFINE seqs(i) == recording.frames[i].seq % SeqModulus
             total(i) == TotalOf(Dts(recording.frames), i)
  <2>1. \A i \in 1 .. s : total(i) \in Nat /\ seqs(i) \in Nat
    <3>1. \A a \in Nat, b \in Nat \ {0} : a % b \in Nat
      OBVIOUS
    <3>2. \A i \in 1 .. s : recording.frames[i].seq \in Nat
      BY <1>10
    <3>3. SeqModulus \in Nat \ {0}
      BY LoopAssumption DEF LoopAssumption
    <3>4. \A i \in 1 .. s : seqs(i) \in Nat
      BY <3>1, <3>2, <3>3
    <3> HIDE DEF seqs
    <3> QED
      BY <1>13, <3>4
  <2>2. \A i \in 1 .. s : seqs(i) = kept[i].seq % SeqModulus
    BY <1>10
  <2> HIDE DEF seqs, total
  <2>3. kgm = [i \in 1 .. s |-> [t |-> total(i), seq |-> seqs(i)]]
    BY <1>12 DEF seqs, total
  <2> HIDE DEF kgm
  <2>4. kgm \in Seq([t : Nat, seq : Nat])
    BY <2>1, <2>3
  <2>5. Len(kgm) = s
    BY <2>3, <2>4
  <2> QED
    BY <2>2, <2>3, <2>5 DEF total
<1> HIDE DEF kgm
<1>15. ASSUME NEW i \in 1 .. s
       PROVE  /\ lines[i].t = kept[i].t /\ lines[i].seq = kept[i].seq
              /\ Range(lines[i].warnings) = kept[i].warnings
              /\ Len(lines[i].warnings) = Cardinality(kept[i].warnings)
  BY <1>7, <1>9 DEF Tells
<1>16. ASSUME NEW i \in 1 .. s, i > 1 PROVE kept[i - 1].t < kept[i].t
  <2>1. i - 1 \in 1 .. s /\ i - 1 < i
    BY <1>16
  <2> QED
    BY <1>6, <2>1
<1>17. \A i \in 1 .. s :
         /\ lines[i].t = kept[i].t /\ lines[i].seq = kept[i].seq
         /\ Range(lines[i].warnings) = kept[i].warnings
         /\ Len(lines[i].warnings) = Cardinality(kept[i].warnings)
         /\ kgm[i].seq = kept[i].seq % SeqModulus
         /\ kgm[i].t <= kept[i].t - kept[1].t
         /\ (\A j \in 2 .. i : kept[j].t - kept[j - 1].t <= MaxDt)
              => kgm[i].t = kept[i].t - kept[1].t
         /\ i > 1 => kept[i - 1].t < kept[i].t
  BY <1>13, <1>14, <1>15, <1>16
<1>18. s = IF Len(taken) > Cap THEN Cap ELSE Len(taken)
  BY <1>1 DEF Size
<1>19. Len(lines) = s /\ Len(kgm) = s
  BY <1>9, <1>14
<1> QED
  BY <1>17, <1>18, <1>19 DEF RecordingIsWhatWasSent, kept, lines, kgm

\* Whatever is stopped, restarted, switched or cut: both recordings are the last frames that
\* were sent, each line with the warnings due to its picture, and the KGM file, read back,
\* keeps the time (recordFrame, DroppedFrameDetector, mergeWarningsInto, encodeKgmRecording,
\* parseKgmRecording).
THEOREM RecordingAlwaysIsWhatWasSent == LoopSpec => []RecordingIsWhatWasSent
<1>1. LoopInv /\ [LoopNext]_loopVars => LoopInv'
  BY LoopStep
<1> QED
  BY <1>1, LoopStarts, RecordingsAreRead, PTL DEF LoopSpec

-----------------------------------------------------------------------------
(***************************************************************************)
(* DrumStick: a strike is emitted once and at its time.                    *)
(*                                                                         *)
(* The strengthening is StickInv.  What the stick has sent are bursts,     *)
(* each within a round of the low bits, so that its packet determines its  *)
(* times; no two messages have one time in one boot.  For each connection  *)
(* there is a base of whole periods, and a hit's time is its strike's less *)
(* the base; the decoder's clock is that of the last message whose         *)
(* timestamp was read, in a packet cut short that of the cut.  The         *)
(* times remembered are those of the last hits, as many as the window      *)
(* holds.  So a strike that comes again within the window has the time of  *)
(* its hit, and is known.                                                  *)
(***************************************************************************)

\* A number is a multiple of the divisor and a smaller rest, in one way.
LEMMA Divided ==
  ASSUME NEW m \in Nat \ {0}, NEW n \in Nat
  PROVE  \E q \in Nat : \E r \in 0 .. m - 1 : n = q * m + r /\ n \div m = q /\ n % m = r
<1>1. PICK q \in Nat : q = n \div m
  OBVIOUS
<1>2. PICK r \in 0 .. m - 1 : r = n % m
  OBVIOUS
<1>3. n % m = n - m * (n \div m)
  OBVIOUS
<1> QED
  BY <1>1, <1>2, <1>3

LEMMA DividedOnce ==
  ASSUME NEW m \in Nat \ {0}, NEW n \in Nat, NEW q \in Nat, NEW r \in 0 .. m - 1, n = q * m + r
  PROVE  n \div m = q /\ n % m = r
<1>1. q = n \div m
  OBVIOUS
<1>2. r = n % m
  OBVIOUS
<1> QED
  BY <1>1, <1>2

LEMMA PeriodsAdd ==
  ASSUME NEW w \in Nat, NEW p \in Nat, NEW W \in Nat, NEW l \in Nat
  PROVE  (w + p) * W + l = p * W + (w * W + l) /\ w * W + l \in Nat
OBVIOUS

\* The high and the low bits of a clock are the clock.
LEMMA BitsAreClock ==
  ASSUME NEW t \in Nat
  PROVE  /\ Wrap \in Nat \ {0}
         /\ ((t \div Lows) % Highs) * Lows + (t % Lows) = t % Wrap
         /\ (t \div Lows) % Highs \in 0 .. Highs - 1 /\ t % Lows \in 0 .. Lows - 1
<1>1. Lows \in Nat \ {0} /\ Highs \in Nat \ {0}
  BY StickAssumption DEF StickAssumption
<1>2. PICK a \in Nat : \E l \in 0 .. Lows - 1 : t = a * Lows + l /\ t \div Lows = a /\ t % Lows = l
  BY <1>1, Divided
<1>3. PICK l \in 0 .. Lows - 1 : t = a * Lows + l /\ t \div Lows = a /\ t % Lows = l
  BY <1>2
<1>4. PICK c \in Nat : \E h \in 0 .. Highs - 1 : a = c * Highs + h /\ a % Highs = h
  BY <1>1, Divided
<1>5. PICK h \in 0 .. Highs - 1 : a = c * Highs + h /\ a % Highs = h
  BY <1>4
<1>6. Wrap \in Nat \ {0} /\ Wrap = Lows * Highs
  BY <1>1 DEF Wrap
<1>7. h * Lows + l \in Nat /\ h * Lows + l < Wrap
  <2>1. PICK e \in Nat : Highs = h + 1 + e
    <3>1. Highs - h - 1 \in Nat /\ Highs = h + 1 + (Highs - h - 1)
      BY <1>1
    <3> QED
      BY <3>1
  <2>2. Lows * Highs = h * Lows + Lows + e * Lows /\ e * Lows \in Nat /\ h * Lows \in Nat
    BY <1>1, <2>1
  <2> QED
    BY <1>1, <1>6, <2>2
<1>8. t = c * Wrap + (h * Lows + l)
  BY <1>1, <1>3, <1>5, <1>6
<1>9. PICK r \in 0 .. Wrap - 1 : r = h * Lows + l
  BY <1>6, <1>7
<1>10. t % Wrap = r
  BY <1>6, <1>8, <1>9, DividedOnce
<1>11. (t \div Lows) % Highs = h /\ t % Lows = l
  BY <1>3, <1>5
<1>12. ((t \div Lows) % Highs) * Lows + (t % Lows) = t % Wrap
  <2> DEFINE hi == (t \div Lows) % Highs
             lo == t % Lows
             at == t % Wrap
  <2>1. hi = h /\ lo = l /\ at = r
    BY <1>10, <1>11
  <2> HIDE DEF hi, lo, at
  <2>2. hi * Lows + lo = at
    BY <1>9, <2>1
  <2> QED
    BY <2>2, Zenon DEF hi, lo, at
<1> QED
  BY <1>6, <1>11, <1>12, Zenon

\* When the low bits fall back, and only then, the high ones have moved on by one.
LEMMA HighBitsMoveOn ==
  ASSUME NEW s \in Nat, NEW t \in Nat, s < t, t - s < Lows
  PROVE  (t \div Lows) % Highs
           = IF t % Lows < s % Lows THEN (((s \div Lows) % Highs) + 1) % Highs ELSE (s \div Lows) % Highs
<1>1. Lows \in Nat \ {0} /\ Highs \in Nat \ {0}
  BY StickAssumption DEF StickAssumption
<1>2. PICK a \in Nat : \E l \in 0 .. Lows - 1 : s = a * Lows + l /\ s \div Lows = a /\ s % Lows = l
  BY <1>1, Divided
<1>3. PICK l \in 0 .. Lows - 1 : s = a * Lows + l /\ s \div Lows = a /\ s % Lows = l
  BY <1>2
<1>4. PICK n \in Nat : n = l + (t - s) /\ n > l /\ n - l < Lows
  <2>1. l + (t - s) \in Nat /\ l + (t - s) > l
    OBVIOUS
  <2> QED
    BY <2>1
<1>5. t = a * Lows + n
  BY <1>1, <1>3, <1>4
<1>6. CASE n < Lows
  <2>1. n \in 0 .. Lows - 1 /\ ~(n < l)
    BY <1>1, <1>4, <1>6
  <2>2. t \div Lows = a /\ t % Lows = n
    BY <1>1, <1>5, <2>1, DividedOnce
  <2> QED
    BY <1>3, <2>1, <2>2
<1>7. CASE ~(n < Lows)
  <2>1. PICK m \in 0 .. Lows - 1 : n = Lows + m /\ m < l
    <3>1. n - Lows \in 0 .. Lows - 1 /\ n = Lows + (n - Lows) /\ n - Lows < l
      BY <1>1, <1>4, <1>7
    <3> QED
      BY <3>1
  <2>2. t = (a + 1) * Lows + m /\ a + 1 \in Nat
    BY <1>1, <1>5, <2>1
  <2>3. t \div Lows = a + 1 /\ t % Lows = m
    BY <1>1, <2>2, DividedOnce
  <2>4. PICK c \in Nat : \E h \in 0 .. Highs - 1 : a = c * Highs + h /\ a % Highs = h
    BY <1>1, Divided
  <2>5. PICK h \in 0 .. Highs - 1 : a = c * Highs + h /\ a % Highs = h
    BY <2>4
  <2>6. (a + 1) % Highs = (h + 1) % Highs
    <3>1. PICK x \in Nat : x = a + 1
      OBVIOUS
    <3>2. PICK y \in Nat : y = h + 1
      OBVIOUS
    <3>3. CASE y < Highs
      <4>1. y \in 0 .. Highs - 1 /\ x = c * Highs + y /\ y = 0 * Highs + y
        BY <1>1, <2>5, <3>1, <3>2, <3>3
      <4>2. x % Highs = y /\ y % Highs = y
        BY <1>1, <4>1, DividedOnce
      <4> QED
        BY <3>1, <3>2, <4>2
    <3>4. CASE ~(y < Highs)
      <4>1. y = Highs /\ 0 \in 0 .. Highs - 1 /\ y = 1 * Highs + 0
        BY <1>1, <3>2, <3>4
      <4>2. PICK d \in Nat : d = c + 1
        OBVIOUS
      <4>3. x = d * Highs + 0
        BY <1>1, <2>5, <3>1, <3>2, <4>1, <4>2
      <4>4. x % Highs = 0 /\ y % Highs = 0
        BY <1>1, <4>1, <4>3, DividedOnce
      <4> QED
        BY <3>1, <3>2, <4>4
    <3> QED
      BY <3>3, <3>4
  <2> QED
    BY <1>3, <2>1, <2>3, <2>5, <2>6
<1> QED
  BY <1>6, <1>7

\* Counting a wrap when the clock falls back by more than half keeps the count right, where
\* the message before was not too long ago.
LEMMA WrapsAreCounted ==
  ASSUME NEW W \in Nat \ {0}, NEW H \in Nat, H = W \div 2,
         NEW a \in Nat, NEW b \in Nat, NEW q \in Nat, NEW last \in 0 .. W - 1, a = q * W + last,
         \/ b >= a /\ b - a < H
         \/ b < a /\ b \div W = a \div W /\ a - b <= H
         \/ a < W /\ b < W /\ a - b <= H
  PROVE  b = (IF (b % W) + H < last THEN q + 1 ELSE q) * W + (b % W)
<1>1. PICK p \in Nat : \E r \in 0 .. W - 1 : b = p * W + r /\ b \div W = p /\ b % W = r
  BY Divided
<1>2. PICK r \in 0 .. W - 1 : b = p * W + r /\ b \div W = p /\ b % W = r
  BY <1>1
<1> DEFINE rest == b % W
<1>9. rest = r
  BY <1>2
<1> HIDE DEF rest
<1> SUFFICES b = (IF r + H < last THEN q + 1 ELSE q) * W + r
  <2>1. b = (IF rest + H < last THEN q + 1 ELSE q) * W + rest
    BY <1>9
  <2> QED
    BY <2>1, Zenon DEF rest
<1>3. a \div W = q /\ H + H <= W
  <2>1. a \div W = q
    BY DividedOnce
  <2>2. H + H <= W
    OBVIOUS
  <2> QED
    BY <2>1, <2>2
<1>4. CASE p = q
  <2>1. b - a = r - last
    BY <1>2, <1>4
  <2>2. ~(r + H < last)
    BY <1>2, <1>3, <2>1
  <2> QED
    BY <1>2, <1>4, <2>2
<1>5. CASE p = q + 1
  <2>1. b - a = W + r - last
    BY <1>2, <1>5
  <2>2. b >= a
    BY <1>2, <2>1
  <2>3. b - a < H
    <3>1. CASE a < W /\ b < W
      <4>1. PICK m \in Nat : m = q * W
        OBVIOUS
      <4>2. b = m + W + r
        BY <1>2, <1>5, <4>1
      <4> QED
        BY <3>1, <4>2
    <3> QED
      BY <2>2, <3>1
  <2>4. r + H < last
    BY <1>3, <2>1, <2>3
  <2> QED
    BY <1>2, <1>5, <2>4
<1>6. CASE p > q + 1
  <2>1. PICK e \in Nat : p = q + 2 + e
    <3>1. p - q - 2 \in Nat /\ p = q + 2 + (p - q - 2)
      BY <1>6
    <3> QED
      BY <3>1
  <2>2. PICK f \in Nat : f = e * W
    OBVIOUS
  <2>3. b - a = W + W + f + r - last
    BY <1>2, <2>1, <2>2
  <2>4. PICK m \in Nat : m = q * W
    OBVIOUS
  <2>5. b = m + W + W + f + r
    BY <1>2, <2>1, <2>2, <2>4
  <2> QED
    BY <1>3, <2>3, <2>5
<1>7. CASE p < q
  <2>1. PICK e \in Nat : q = p + 1 + e
    <3>1. q - p - 1 \in Nat /\ q = p + 1 + (q - p - 1)
      BY <1>7
    <3> QED
      BY <3>1
  <2>2. PICK f \in Nat : f = e * W
    OBVIOUS
  <2>3. a - b = W + f + last - r
    BY <1>2, <2>1, <2>2
  <2>4. PICK m \in Nat : m = p * W
    OBVIOUS
  <2>5. a = m + W + f + last /\ a > b
    BY <2>1, <2>2, <2>3, <2>4
  <2> QED
    BY <1>2, <1>3, <1>7, <2>5
<1> QED
  BY <1>4, <1>5, <1>6, <1>7

Messages == [t : Nat, boot : Nat, kind : NoteKinds]
Packets == [high : Nat, lows : Seq(Nat), strikes : Seq(Messages)]
Sessions == [connected : BOOLEAN, reconnects : Nat, last : 0 .. Wrap - 1 \cup {Unheard}, wraps : Nat,
             recent : Seq(Nat)]
Hits == [strike : Messages, time : Nat, link : Nat]
Heards == [strikes : SUBSET Messages, last : Messages \cup {Unheard}, replays : Nat]

\* Messages of one boot, one after the other and within a round of the low bits.
Burst(s, boot) ==
  /\ s \in Seq(Messages)
  /\ \A i \in 1 .. Len(s) : s[i].boot = boot
  /\ \A i, j \in 1 .. Len(s) : s[j].t - s[i].t < Lows /\ (i < j => s[i].t < s[j].t)

PacketOf(s) == [high |-> (s[1].t \div Lows) % Highs, lows |-> [i \in DOMAIN s |-> s[i].t % Lows],
                strikes |-> s]

\* What was sent is a packet made of a burst; the messages waiting will be one.
Sent == UNION {ToSet(air[n].strikes) : n \in DOMAIN air}
Waiting == ToSet(stick.pending)

StickFits ==
  /\ stick \in [now : Nat, boot : Nat, pending : Seq(Messages)]
  /\ Burst(stick.pending, stick.boot)
  /\ \A i \in 1 .. Len(stick.pending) : stick.pending[i].t <= stick.now

AirFits ==
  /\ air \in Seq(Packets)
  /\ \A n \in 1 .. Len(air) : /\ air[n].strikes # <<>> /\ air[n] = PacketOf(air[n].strikes)
                              /\ \E boot \in 0 .. stick.boot : Burst(air[n].strikes, boot)

\* No two messages have one time and one boot.
Apart(M) == \A x, y \in M : x.t = y.t /\ x.boot = y.boot => x = y

\* Whole periods, for each connection.
Bases == {base \in [Nat -> Nat] : \A boot \in Nat : \E period \in Nat : base[boot] = period * Wrap}

\* A hit is what a message was sent as; its time is the message's but for the periods
\* before the first message of its connection, and what is remembered are the last times.
HitsFit(hs, recent, M, boot, base) ==
  /\ hs \in Seq(Hits) /\ recent \in Seq(Nat) /\ Len(recent) <= Window
  /\ \A i \in 1 .. Len(hs) :
       /\ hs[i].strike \in M /\ Plays(hs[i].strike)
       /\ hs[i].strike.boot <= hs[i].link /\ hs[i].link <= boot
       /\ hs[i].strike.t = base[hs[i].link] + hs[i].time
  /\ \A i, j \in 1 .. Len(hs) : hs[i].strike = hs[j].strike => i = j
  /\ Len(recent) = IF Len(hs) < Window THEN Len(hs) ELSE Window
  /\ \A i \in 1 .. Len(recent) : recent[i] = hs[Len(hs) - Len(recent) + i].time

\* The clock of a connection that has heard something is right.
ClockFits(s, last, base) ==
  /\ s.last = Unheard => s.wraps = 0
  /\ s.connected /\ s.last # Unheard =>
       last \in Messages /\ last.t = base + (s.wraps * Wrap + s.last)

HeardFits(s, hs, h, M, boot) ==
  /\ s \in Sessions /\ h \in Heards
  /\ \E base \in Bases : HitsFit(hs, s.recent, M, boot, base) /\ ClockFits(s, h.last, base[boot])
  /\ ~s.connected \/ s.last = Unheard => \A i \in 1 .. Len(hs) : hs[i].link # boot
  /\ boot = 0 => h.strikes = {hs[i].strike : i \in 1 .. Len(hs)}

StickInv ==
  /\ misled \in BOOLEAN
  /\ ~misled => /\ StickFits /\ AirFits /\ Apart(Sent \cup Waiting)
                /\ HeardFits(session, hits, heard, Sent, stick.boot)

\* A time below the wrap is of the first period.
LEMMA FirstPeriod ==
  ASSUME NEW base \in Bases, NEW boot \in Nat
  PROVE  base[boot] \in Nat /\ (base[boot] = 0 \/ base[boot] >= Wrap)
<1>1. PICK k \in Nat : base[boot] = k * Wrap
  BY DEF Bases
<1>2. base[boot] \in Nat /\ Wrap \in Nat \ {0}
  BY BitsAreClock DEF Bases
<1>3. CASE k = 0
  BY <1>1, <1>2, <1>3
<1>4. CASE k # 0
  <2>1. PICK e \in Nat : k = e + 1
    <3>1. k - 1 \in Nat /\ k = (k - 1) + 1
      BY <1>4
    <3> QED
      BY <3>1
  <2>2. k * Wrap = e * Wrap + Wrap /\ e * Wrap \in Nat
    BY <1>2, <2>1
  <2> QED
    BY <1>1, <1>2, <2>2
<1> QED
  BY <1>3, <1>4

\* The state s of the session after the hits hs and one strike more.
HitTaken(s, hs, strike, M, boot, base) ==
  /\ s \in [recent : Seq(Nat), hits : Seq(Hits)]
  /\ HitsFit(s.hits, s.recent, M, boot, base)
  /\ Len(s.hits) \in {Len(hs), Len(hs) + 1}
  /\ \A i \in 1 .. Len(hs) : s.hits[i] = hs[i]
  /\ \A i \in 1 .. Len(s.hits) : i > Len(hs) => s.hits[i].strike = strike
  /\ boot = 0 => \E i \in 1 .. Len(s.hits) : s.hits[i].strike = strike

\* A strike played goes to the end of the hits, unless it is there, and then it is
\* remembered.
LEMMA OneHitFits ==
  ASSUME NEW M, Apart(M), NEW boot \in Nat, \A x \in M : x \in Messages /\ x.boot <= boot,
         NEW base \in Bases, NEW hs, NEW recent, HitsFit(hs, recent, M, boot, base),
         NEW strike \in M, Plays(strike), NEW time \in Nat, strike.t = base[boot] + time,
         strike.boot # boot => strike.t < Wrap,
         \A i \in 1 .. Len(hs) : hs[i].strike = strike => i > Len(hs) - Window
  PROVE  HitTaken(IngestOne([recent |-> recent, hits |-> hs],
                            [strike |-> strike, time |-> time, link |-> boot]),
                  hs, strike, M, boot, base)
<1> DEFINE hit == [strike |-> strike, time |-> time, link |-> boot]
           s == IngestOne([recent |-> recent, hits |-> hs], hit)
<1>1. /\ hs \in Seq(Hits) /\ recent \in Seq(Nat) /\ Window \in Nat \ {0} /\ strike \in Messages
      /\ strike.boot <= boot /\ strike.t \in Nat /\ strike.boot \in Nat /\ Wrap \in Nat \ {0}
  BY StickAssumption, BitsAreClock DEF StickAssumption, HitsFit, Messages
<1>2. PICK n \in Nat : n = Len(hs)
  BY <1>1
<1>3. PICK m \in Nat : m = Len(recent) /\ m <= Window /\ m = (IF n < Window THEN n ELSE Window)
  BY <1>1, <1>2 DEF HitsFit
<1>10. recent \in Seq(Nat) /\ m = Len(recent) /\ m \in Nat
  BY <1>1, <1>3
<1>11. DOMAIN recent = 1 .. m /\ \A i \in 1 .. m : recent[i] \in Nat
  BY <1>10
<1>4. \A i \in 1 .. n : /\ hs[i] \in Hits /\ hs[i].strike \in Messages /\ hs[i].time \in Nat
                        /\ hs[i].link \in Nat /\ hs[i].strike \in M /\ Plays(hs[i].strike)
                        /\ hs[i].strike.boot <= hs[i].link /\ hs[i].link <= boot
                        /\ hs[i].strike.t = base[hs[i].link] + hs[i].time
  <2>1. \A i \in 1 .. n : hs[i] \in Hits
    BY <1>1, <1>2
  <2>2. \A h \in Hits : h.strike \in Messages /\ h.time \in Nat /\ h.link \in Nat
    BY DEF Hits
  <2>3. \A i \in 1 .. n : /\ hs[i].strike \in M /\ Plays(hs[i].strike)
                          /\ hs[i].strike.boot <= hs[i].link /\ hs[i].link <= boot
                          /\ hs[i].strike.t = base[hs[i].link] + hs[i].time
    BY <1>2 DEF HitsFit
  <2> QED
    BY <2>1, <2>2, <2>3, Zenon
<1>5. \A i \in 1 .. m : recent[i] \in Nat /\ n - m + i \in 1 .. n /\ recent[i] = hs[n - m + i].time
  <2>1. \A i \in 1 .. m : n - m + i \in 1 .. n
    BY <1>3
  <2>2. \A i \in 1 .. m : recent[i] = hs[n - m + i].time
    BY <1>2, <1>3 DEF HitsFit
  <2> QED
    BY <1>11, <2>1, <2>2
<1>6. ToSet(recent) = {recent[i] : i \in 1 .. m}
  BY <1>11, Zenon DEF ToSet
<1>7. hit \in Hits
  BY <1>1 DEF Hits
<1>8. CASE time \in ToSet(recent)
  <2>1. s = [recent |-> recent, hits |-> hs]
    BY <1>8 DEF IngestOne
  <2>2. ASSUME boot = 0 PROVE \E i \in 1 .. n : hs[i].strike = strike
    <3>1. PICK j \in 1 .. m : recent[j] = time
      BY <1>6, <1>8
    <3>2. PICK i \in 1 .. n : hs[i].time = time
      BY <1>5, <3>1
    <3>3. hs[i].link = boot /\ hs[i].strike.boot = 0 /\ strike.boot = 0
      <4>1. hs[i].strike.boot \in Nat
        BY <1>4 DEF Messages
      <4> QED
        BY <1>1, <1>4, <2>2, <4>1
    <3>4. hs[i].strike.t = strike.t
      BY <1>4, <3>2, <3>3
    <3> QED
      BY <1>4, <3>3, <3>4 DEF Apart
  <2>3. s.recent = recent /\ s.hits = hs /\ s \in [recent : Seq(Nat), hits : Seq(Hits)]
    BY <1>1, <2>1
  <2> HIDE DEF s
  <2> QED
    BY <1>2, <2>2, <2>3 DEF s, HitTaken
<1>9. CASE time \notin ToSet(recent)
  <2>1. s = [recent |-> Remember(recent, time), hits |-> Append(hs, hit)]
    BY <1>9 DEF IngestOne
  <2>2. ASSUME NEW j \in 1 .. n, hs[j].strike = strike PROVE FALSE
    <3>1. j > n - Window
      BY <1>2, <2>2
    <3>2. PICK i \in 1 .. m : n - m + i = j
      <4>1. j - (n - m) \in 1 .. m /\ n - m + (j - (n - m)) = j
        BY <1>1, <1>3, <3>1
      <4> QED
        BY <4>1
    <3>3. hs[j].time \in ToSet(recent)
      BY <1>5, <1>6, <3>2
    <3>4. PICK k \in Nat : k = base[hs[j].link] /\ (k = 0 \/ k >= Wrap)
      BY <1>4, FirstPeriod
    <3>5. PICK l \in Nat : l = base[boot] /\ (l = 0 \/ l >= Wrap)
      BY FirstPeriod
    <3>6. PICK x \in Nat : x = hs[j].time
      BY <1>4
    <3>8. strike.t = k + x /\ strike.t = l + time
      BY <1>4, <2>2, <3>4, <3>5, <3>6
    <3>7. x = time
      <4>1. CASE hs[j].link = boot
        BY <3>4, <3>5, <3>8, <4>1
      <4>2. CASE hs[j].link # boot
        <5>1. hs[j].strike.boot <= hs[j].link /\ hs[j].link <= boot /\ hs[j].link \in Nat
          BY <1>4
        <5>2. strike.boot # boot
          BY <1>1, <2>2, <4>2, <5>1
        <5>3. strike.t < Wrap
          BY <5>2
        <5>4. PICK W \in Nat : W = Wrap
          BY <1>1
        <5>5. PICK u \in Nat : u = strike.t
          BY <1>1
        <5>6. u = k + x /\ u = l + time /\ u < W
          BY <3>8, <5>3, <5>4, <5>5
        <5>7. (k = 0 \/ k >= W) /\ (l = 0 \/ l >= W)
          BY <3>4, <3>5, <5>4
        <5>8. k = 0
          BY <5>6, <5>7
        <5>9. l = 0
          BY <5>6, <5>7
        <5> QED
          BY <5>6, <5>8, <5>9
      <4> QED
        BY <4>1, <4>2
    <3> QED
      BY <1>9, <3>3, <3>6, <3>7
  <2> DEFINE longer == Append(hs, hit)
             all == Append(recent, time)
             kept == Remember(recent, time)
  <2>3. /\ longer \in Seq(Hits) /\ Len(longer) = n + 1 /\ longer[n + 1] = hit
        /\ \A i \in 1 .. n : longer[i] = hs[i]
    BY <1>1, <1>2, <1>7
  <2>4. /\ all \in Seq(Nat) /\ Len(all) = m + 1 /\ all[m + 1] = time
        /\ \A i \in 1 .. m : all[i] = recent[i]
    BY <1>10, AppendProperties
  <2> HIDE DEF longer, all, hit
  <2>5. /\ kept \in Seq(Nat) /\ Len(kept) = IF n + 1 < Window THEN n + 1 ELSE Window
        /\ \A i \in 1 .. Len(kept) : kept[i] = longer[n + 1 - Len(kept) + i].time
    <3>1. \A i \in 1 .. m + 1 : all[i] = longer[n - m + i].time
      <4> SUFFICES ASSUME NEW i \in 1 .. m + 1 PROVE all[i] = longer[n - m + i].time
        OBVIOUS
      <4>1. CASE i = m + 1
        <5>1. n - m + i = n + 1
          BY <4>1
        <5> QED
          BY <2>3, <2>4, <4>1, <5>1 DEF hit
      <4>2. CASE i # m + 1
        <5>1. i \in 1 .. m
          BY <4>2
        <5> QED
          BY <1>5, <2>3, <2>4, <5>1
      <4> QED
        BY <4>1, <4>2
    <3>2. CASE m < Window
      <4>1. kept = all /\ m = n
        BY <1>1, <1>3, <2>4, <3>2 DEF Remember, all
      <4>2. Len(kept) = n + 1 /\ n + 1 <= Window
        BY <1>1, <2>4, <3>2, <4>1
      <4>3. \A i \in 1 .. n + 1 : kept[i] = longer[i].time
        BY <3>1, <4>1
      <4>4. \A i \in 1 .. n + 1 : n + 1 - (n + 1) + i = i
        OBVIOUS
      <4>5. Len(kept) = IF n + 1 < Window THEN n + 1 ELSE Window
        BY <1>1, <4>2
      <4> HIDE DEF kept
      <4> QED
        BY <2>4, <4>1, <4>2, <4>3, <4>4, <4>5
    <3>3. CASE ~(m < Window)
      <4>1. kept = Tail(all) /\ m = Window /\ n >= Window
        BY <1>1, <1>3, <2>4, <3>3 DEF Remember, all
      <4>2. kept \in Seq(Nat) /\ Len(kept) = m /\ \A i \in 1 .. m : kept[i] = all[i + 1]
        BY <1>1, <2>4, <4>1
      <4>3. \A i \in 1 .. m : i + 1 \in 1 .. m + 1 /\ n - m + (i + 1) = n + 1 - m + i
        OBVIOUS
      <4>4. Len(kept) = IF n + 1 < Window THEN n + 1 ELSE Window
        BY <1>1, <4>1, <4>2
      <4> HIDE DEF kept
      <4>5. \A i \in 1 .. m : kept[i] = longer[n + 1 - m + i].time
        BY <3>1, <4>2, <4>3
      <4> QED
        BY <4>2, <4>4, <4>5
    <3> QED
      BY <3>2, <3>3
  <2> HIDE DEF kept
  <2>6. s.hits = longer /\ s.recent = kept /\ s \in [recent : Seq(Nat), hits : Seq(Hits)]
    <3>1. s = [recent |-> kept, hits |-> longer]
      BY <2>1 DEF longer, kept
    <3> HIDE DEF s
    <3> QED
      BY <2>3, <2>5, <3>1
  <2>7. \A i \in 1 .. n + 1 : i = n + 1 \/ i \in 1 .. n
    OBVIOUS
  <2>8. \A i \in 1 .. n + 1 :
          /\ longer[i].strike \in M /\ Plays(longer[i].strike)
          /\ longer[i].strike.boot <= longer[i].link /\ longer[i].link <= boot
          /\ longer[i].strike.t = base[longer[i].link] + longer[i].time
    <3> SUFFICES ASSUME NEW i \in 1 .. n + 1
                 PROVE  /\ longer[i].strike \in M /\ Plays(longer[i].strike)
                        /\ longer[i].strike.boot <= longer[i].link /\ longer[i].link <= boot
                        /\ longer[i].strike.t = base[longer[i].link] + longer[i].time
      OBVIOUS
    <3>1. CASE i = n + 1
      BY <1>1, <2>3, <3>1 DEF hit
    <3>2. CASE i \in 1 .. n
      BY <1>4, <2>3, <3>2
    <3> QED
      BY <2>7, <3>1, <3>2
  <2>9. ASSUME NEW i \in 1 .. n + 1, NEW j \in 1 .. n + 1, longer[i].strike = longer[j].strike
        PROVE  i = j
    <3>1. CASE i \in 1 .. n /\ j \in 1 .. n
      BY <1>2, <2>3, <2>9, <3>1 DEF HitsFit
    <3>2. longer[n + 1].strike = strike
      BY <2>3 DEF hit
    <3>3. \A k \in 1 .. n : longer[k].strike # strike
      BY <2>2, <2>3
    <3> QED
      BY <2>7, <2>9, <3>1, <3>2, <3>3
  <2>10. HitsFit(longer, kept, M, boot, base)
    BY <1>1, <2>3, <2>5, <2>8, <2>9 DEF HitsFit
  <2>11. longer[n + 1].strike = strike /\ n + 1 \in 1 .. n + 1
    BY <2>3 DEF hit
  <2> HIDE DEF s
  <2>12. \A i \in 1 .. n + 1 : i > n => longer[i].strike = strike
    BY <2>7, <2>11
  <2> QED
    BY <1>2, <2>3, <2>6, <2>10, <2>11, <2>12 DEF s, hit, HitTaken
<1> QED
  BY <1>8, <1>9

\* A time that the clock, having heard time a, tells from the others of its 13 bits.
Near(a, b) ==
  \/ b >= a /\ b - a < HalfWrap
  \/ b < a /\ b \div Wrap = a \div Wrap /\ a - b <= HalfWrap
  \/ a < Wrap /\ b < Wrap /\ a - b <= HalfWrap

LEMMA FollowsIsNear ==
  ASSUME NEW b \in Messages
  PROVE  /\ \A a \in Messages \cup {Unheard} : Follows(a, b) /\ b.boot # stick.boot => b.t < Wrap
         /\ \A a \in Messages : Follows(a, b) => Near(a.t, b.t)
<1>1. Unheard \notin Messages
  BY StickAssumption DEF StickAssumption, Messages
<1>2. \A a \in Messages \cup {Unheard} : Follows(a, b) /\ b.boot # stick.boot => b.t < Wrap
  BY DEF Follows
<1>3. ASSUME NEW a \in Messages, Follows(a, b) PROVE Near(a.t, b.t)
  <2>1. a.t \in Nat /\ b.t \in Nat /\ a # Unheard
    BY <1>1 DEF Messages
  <2>2. b.t >= a.t \/ b.t < a.t
    BY <2>1
  <2> QED
    BY <1>3, <2>1, <2>2, Zenon DEF Follows, Near
<1> QED
  BY <1>2, <1>3

Decoders == [high : Nat, low : Nat \cup {Unheard}, last : Nat \cup {Unheard}, wraps : Nat]

\* decode and unwrap, one message.
LEMMA DecodeOneType ==
  ASSUME NEW d \in Decoders, NEW low \in Nat
  PROVE  DecodeOne(d, low) \in Decoders
<1> DEFINE high == IF d.low # Unheard /\ low < d.low THEN (d.high + 1) % Highs ELSE d.high
           raw == high * Lows + low
           wraps == IF d.last # Unheard /\ raw + HalfWrap < d.last THEN d.wraps + 1 ELSE d.wraps
<1>1. Lows \in Nat \ {0} /\ Highs \in Nat \ {0} /\ d.high \in Nat /\ d.wraps \in Nat
  BY StickAssumption DEF StickAssumption, Decoders
<1>2. high \in Nat
  BY <1>1
<1> HIDE DEF high
<1>3. raw \in Nat
  BY <1>1, <1>2
<1> HIDE DEF raw
<1>4. wraps \in Nat
  BY <1>1
<1>5. DecodeOne(d, low) = [high |-> high, low |-> low, last |-> raw, wraps |-> wraps]
  BY DEF DecodeOne, high, raw
<1> HIDE DEF wraps
<1> QED
  BY <1>2, <1>3, <1>4, <1>5 DEF Decoders

\* The decoder's states, from one message of a packet to the next.
LEMMA DecodePacketSteps ==
  ASSUME NEW packet \in Packets, NEW size \in 0 .. Len(packet.lows), session \in Sessions
  PROVE  LET d == DecodePacket(packet, size)
         IN  /\ d \in [0 .. size -> Decoders]
             /\ d[0] = [high |-> packet.high, low |-> Unheard, last |-> session.last, wraps |-> session.wraps]
             /\ \A i \in 1 .. size : d[i] = DecodeOne(d[i - 1], packet.lows[i])
<1> DEFINE start == [high |-> packet.high, low |-> Unheard, last |-> session.last, wraps |-> session.wraps]
           Body(f) == [i \in 0 .. size |-> IF i = 0 THEN start ELSE DecodeOne(f[i - 1], packet.lows[i])]
           d == CHOOSE f : f = Body(f)
           step == [i \in 1 .. size |-> [x \in Decoders |-> DecodeOne(x, packet.lows[i])]]
<1>1. DecodePacket(packet, size) = d
  BY DEF DecodePacket
<1>2. start \in Decoders /\ size \in Nat /\ \A i \in 1 .. size : packet.lows[i] \in Nat
  <2>1. packet.high \in Nat /\ packet.lows \in Seq(Nat)
    BY DEF Packets
  <2>2. session.last \in Nat \cup {Unheard} /\ session.wraps \in Nat
    BY BitsAreClock DEF Sessions
  <2>3. size \in Nat /\ \A i \in 1 .. size : i \in 1 .. Len(packet.lows)
    BY <2>1
  <2> QED
    BY <2>1, <2>2, <2>3 DEF Decoders
<1> HIDE DEF start
<1>3. \A i \in 1 .. size, x \in Decoders : DecodeOne(x, packet.lows[i]) \in Decoders
  BY <1>2, DecodeOneType
<1>4. 0 \in 0 .. size /\ \A i \in 1 .. size : i \in 0 .. size /\ i # 0 /\ i - 1 \in 0 .. size
  BY <1>2
<1>5. \E f : f = Body(f)
  <2>1. step \in Steps(size, Decoders)
        /\ \A i \in 1 .. size, x \in Decoders : step[i][x] = DecodeOne(x, packet.lows[i])
    BY <1>3 DEF Steps
  <2> HIDE DEF step
  <2>2. \E f : Runs(f, start, step, size, Decoders)
    BY <1>2, <2>1, StepsExist, Zenon
  <2>3. PICK f : Runs(f, start, step, size, Decoders)
    BY <2>2
  <2>4. f \in [0 .. size -> Decoders] /\ f[0] = start /\ \A i \in 1 .. size : f[i] = DecodeOne(f[i - 1], packet.lows[i])
    <3>1. \A i \in 1 .. size : f[i - 1] \in Decoders
      BY <1>4, <2>3 DEF Runs
    <3> QED
      BY <2>1, <2>3, <3>1 DEF Runs
  <2>5. \A i \in 0 .. size : f[i] = IF i = 0 THEN start ELSE DecodeOne(f[i - 1], packet.lows[i])
    <3>1. \A i \in 0 .. size : i = 0 \/ i \in 1 .. size
      BY <1>2
    <3> QED
      BY <2>4, <3>1
  <2> QED
    BY <2>4, <2>5
<1>6. d = Body(d)
  <2> HIDE DEF Body
  <2> QED
    BY <1>5
<1> HIDE DEF d
<1>7. d[0] = start /\ \A i \in 1 .. size : d[i] = DecodeOne(d[i - 1], packet.lows[i])
  BY <1>4, <1>6
<1>8. d \in [0 .. size -> Decoders]
  <2> DEFINE P == {n \in 0 .. size : d[n] \in Decoders}
  <2>1. 0 \in P
    BY <1>2, <1>4, <1>7
  <2>2. \A i \in 1 .. size : i - 1 \in P => i \in P
    BY <1>3, <1>4, <1>7
  <2>3. \A n \in 0 .. size : n \in P
    <3> HIDE DEF P
    <3> QED
      BY <1>2, <2>1, <2>2, UpToN, Zenon
  <2>4. DOMAIN d = 0 .. size /\ d = [n \in 0 .. size |-> d[n]]
    BY <1>6
  <2> QED
    BY <2>3, <2>4
<1> QED
  BY <1>1, <1>7, <1>8 DEF start

\* unwrap, at a time near the one before.
LEMMA UnwrapFits ==
  ASSUME NEW a \in Nat, NEW b \in Nat, NEW w \in Nat, NEW period \in Nat, NEW last \in 0 .. Wrap - 1,
         a = (w + period) * Wrap + last, Near(a, b)
  PROVE  b = ((IF (b % Wrap) + HalfWrap < last THEN w + 1 ELSE w) + period) * Wrap + (b % Wrap)
<1>1. Wrap \in Nat \ {0} /\ HalfWrap \in Nat /\ HalfWrap = Wrap \div 2
  <2>1. Wrap \in Nat \ {0}
    BY BitsAreClock
  <2> QED
    BY <2>1 DEF HalfWrap
<1>2. PICK q \in Nat : q = w + period
  OBVIOUS
<1>3. a = q * Wrap + last
  BY <1>2
<1>4. b = (IF (b % Wrap) + HalfWrap < last THEN q + 1 ELSE q) * Wrap + (b % Wrap)
  BY <1>1, <1>3, WrapsAreCounted DEF Near
<1>6. (IF (b % Wrap) + HalfWrap < last THEN w + 1 ELSE w) + period
        = IF (b % Wrap) + HalfWrap < last THEN q + 1 ELSE q
  <2> DEFINE back == (b % Wrap) + HalfWrap < last
  <2> HIDE DEF back
  <2>1. (IF back THEN w + 1 ELSE w) + period = IF back THEN q + 1 ELSE q
    BY <1>2
  <2> QED
    BY <2>1, Zenon DEF back
<1> QED
  BY <1>4, <1>6, Zenon

\* Decoded, the messages of a burst have the clock's last bits, and the count of wraps is right.
LEMMA DecodeFits ==
  ASSUME NEW boot \in Nat, NEW s, Burst(s, boot), NEW size \in 1 .. Len(s), session \in Sessions,
         NEW period \in Nat, ClockFits(session, heard.last, period * Wrap),
         session.connected, heard \in Heards,
         session.last = Unheard => s[1].t \div Wrap = period,
         session.last # Unheard => Near(heard.last.t, s[1].t),
         \A i \in 1 .. size : i > 1 => Near(s[i - 1].t, s[i].t)
  PROVE  LET d == DecodePacket(PacketOf(s), size)
         IN  \A i \in 1 .. size :
               /\ d[i].wraps \in Nat /\ d[i].last \in 0 .. Wrap - 1
               /\ s[i].t = (d[i].wraps + period) * Wrap + d[i].last
<1> DEFINE d == DecodePacket(PacketOf(s), size)
           packet == PacketOf(s)
           High(i) == (s[i].t \div Lows) % Highs
           Low(i) == s[i].t % Lows
           Raw(i) == s[i].t % Wrap
<1>1. /\ s \in Seq(Messages) /\ size \in Nat /\ DOMAIN s = 1 .. Len(s) /\ Len(s) \in Nat
      /\ \A i \in 1 .. size : i \in 1 .. Len(s) /\ s[i] \in Messages /\ s[i].t \in Nat
  <2>1. s \in Seq(Messages) /\ size \in Nat /\ DOMAIN s = 1 .. Len(s) /\ Len(s) \in Nat
    BY DEF Burst
  <2>2. \A i \in 1 .. size : i \in 1 .. Len(s) /\ s[i] \in Messages
    BY <2>1
  <2>3. \A m \in Messages : m.t \in Nat
    BY DEF Messages
  <2> QED
    BY <2>1, <2>2, <2>3
<1>2. Wrap \in Nat \ {0} /\ HalfWrap \in Nat /\ HalfWrap = Wrap \div 2 /\ Lows \in Nat \ {0}
  <2>1. Wrap \in Nat \ {0}
    BY BitsAreClock
  <2> QED
    BY <2>1, StickAssumption DEF StickAssumption, HalfWrap
<1>3. \A i \in 1 .. size : /\ High(i) * Lows + Low(i) = Raw(i) /\ High(i) \in Nat /\ Low(i) \in Nat
                           /\ Raw(i) \in 0 .. Wrap - 1
  <2> SUFFICES ASSUME NEW i \in 1 .. size
               PROVE  /\ High(i) * Lows + Low(i) = Raw(i) /\ High(i) \in Nat /\ Low(i) \in Nat
                      /\ Raw(i) \in 0 .. Wrap - 1
    OBVIOUS
  <2>1. PICK t \in Nat : t = s[i].t
    BY <1>1
  <2>2. /\ ((t \div Lows) % Highs) * Lows + (t % Lows) = t % Wrap
        /\ (t \div Lows) % Highs \in 0 .. Highs - 1 /\ t % Lows \in 0 .. Lows - 1
    BY BitsAreClock
  <2>3. t % Wrap \in 0 .. Wrap - 1
    BY <1>2, SMTT(30)
  <2>4. \A x : x \in 0 .. Highs - 1 \/ x \in 0 .. Lows - 1 => x \in Nat
    BY <1>2
  <2> QED
    BY <2>1, <2>2, <2>3, <2>4, Zenon
<1>4. packet.high = High(1) /\ packet.strikes = s /\ packet.lows = [i \in 1 .. Len(s) |-> Low(i)]
  BY <1>1 DEF PacketOf
<1>5. packet \in Packets /\ Len(packet.lows) = Len(s) /\ \A i \in 1 .. size : packet.lows[i] = Low(i)
  <2>1. ASSUME NEW i \in 1 .. Len(s) PROVE Low(i) \in Nat
    <3>1. s[i] \in Messages
      BY <1>1
    <3>2. s[i].t \in Nat
      BY <3>1 DEF Messages
    <3> QED
      BY <1>2, <3>2
  <2> HIDE DEF Low
  <2>2. packet.lows \in Seq(Nat) /\ Len(packet.lows) = Len(s) /\ \A i \in 1 .. size : packet.lows[i] = Low(i)
    BY <1>1, <1>4, <2>1
  <2>3. 1 \in 1 .. size
    BY <1>1
  <2>4. packet.high \in Nat
    BY <1>3, <1>4, <2>3
  <2>5. packet = [high |-> packet.high, lows |-> packet.lows, strikes |-> packet.strikes]
    BY DEF PacketOf
  <2> HIDE DEF packet
  <2> QED
    BY <1>1, <1>4, <2>2, <2>4, <2>5 DEF Packets
<1>6. /\ d \in [0 .. size -> Decoders]
      /\ d[0] = [high |-> packet.high, low |-> Unheard, last |-> session.last, wraps |-> session.wraps]
      /\ \A i \in 1 .. size : d[i] = DecodeOne(d[i - 1], packet.lows[i])
  <2>1. size \in 0 .. Len(packet.lows)
    BY <1>1, <1>5
  <2> HIDE DEF packet
  <2>2. d = DecodePacket(packet, size)
    BY DEF packet
  <2> HIDE DEF d
  <2> QED
    BY <1>5, <2>1, <2>2, DecodePacketSteps
<1> HIDE DEF d, packet
<1> DEFINE Right(i) == /\ d[i].low = Low(i) /\ d[i].high = High(i) /\ d[i].last = Raw(i)
                       /\ d[i].wraps \in Nat
                       /\ s[i].t = (d[i].wraps + period) * Wrap + d[i].last
           P == {n \in 0 .. size : n > 0 => Right(n)}
<1>7. ASSUME NEW i \in 1 .. size, NEW x \in Decoders, d[i - 1] = x, d[i] = DecodeOne(x, Low(i)),
             x.low # Unheard /\ Low(i) < x.low => (x.high + 1) % Highs = High(i),
             ~(x.low # Unheard /\ Low(i) < x.low) => x.high = High(i),
             LET wraps == IF x.last # Unheard /\ Raw(i) + HalfWrap < x.last THEN x.wraps + 1 ELSE x.wraps
             IN  s[i].t = (wraps + period) * Wrap + Raw(i)
      PROVE  Right(i)
  <2> DEFINE high == IF x.low # Unheard /\ Low(i) < x.low THEN (x.high + 1) % Highs ELSE x.high
             raw == high * Lows + Low(i)
             wraps == IF x.last # Unheard /\ raw + HalfWrap < x.last THEN x.wraps + 1 ELSE x.wraps
  <2>1. d[i] = [high |-> high, low |-> Low(i), last |-> raw, wraps |-> wraps]
    BY <1>7 DEF DecodeOne
  <2>2. high = High(i)
    BY <1>7
  <2> HIDE DEF high
  <2>3. raw = Raw(i)
    BY <1>3, <2>2
  <2> HIDE DEF raw
  <2>4. x.wraps \in Nat
    BY <1>7 DEF Decoders
  <2>5. wraps \in Nat /\ s[i].t = (wraps + period) * Wrap + Raw(i)
    <3>1. wraps \in Nat
      BY <2>4
    <3>2. s[i].t = (wraps + period) * Wrap + Raw(i)
      BY <1>7, <2>3, Zenon
    <3> QED
      BY <3>1, <3>2
  <2> HIDE DEF wraps
  <2>6. /\ d[i].high = high /\ d[i].low = Low(i) /\ d[i].last = raw /\ d[i].wraps = wraps
    BY <2>1
  <2> QED
    BY <2>2, <2>3, <2>5, <2>6, Zenon
<1>8. 1 \in 1 .. size /\ 1 - 1 = 0 /\ \A i \in 1 .. size : i # 1 => i - 1 \in 1 .. size /\ i > 1 /\ i - 1 < i
  BY <1>1
<1>9. Right(1)
  <2> DEFINE x == d[0]
  <2>1. /\ x.low = Unheard /\ x.high = High(1) /\ x.last = session.last /\ x.wraps = session.wraps
        /\ x \in Decoders
    <3>1. 0 \in 0 .. size
      BY <1>1
    <3> QED
      BY <1>4, <1>6, <3>1
  <2>2. d[1] = DecodeOne(x, Low(1))
    BY <1>5, <1>6, <1>8
  <2>3. session.wraps \in Nat /\ session.last \in 0 .. Wrap - 1 \cup {Unheard} /\ s[1].t \in Nat
    BY <1>1, <1>8 DEF Sessions
  <2>4. LET wraps == IF x.last # Unheard /\ Raw(1) + HalfWrap < x.last THEN x.wraps + 1 ELSE x.wraps
        IN  s[1].t = (wraps + period) * Wrap + Raw(1)
    <3>1. CASE session.last = Unheard
      <4>1. session.wraps = 0 /\ s[1].t \div Wrap = period
        BY <3>1 DEF ClockFits
      <4>2. s[1].t = period * Wrap + Raw(1)
        <5>1. PICK t \in Nat : t = s[1].t
          BY <2>3
        <5>2. \E q \in Nat : \E r \in 0 .. Wrap - 1 :
                t = q * Wrap + r /\ t \div Wrap = q /\ t % Wrap = r
          BY <1>2, Divided
        <5>3. PICK q \in Nat : \E r \in 0 .. Wrap - 1 :
                t = q * Wrap + r /\ t \div Wrap = q /\ t % Wrap = r
          BY <5>2
        <5>4. PICK r \in 0 .. Wrap - 1 : t = q * Wrap + r /\ t \div Wrap = q /\ t % Wrap = r
          BY <5>3
        <5>5. q = period /\ r = Raw(1)
          BY <4>1, <5>1, <5>4
        <5> HIDE DEF Raw
        <5> QED
          BY <5>1, <5>4, <5>5
      <4>3. 0 + period = period
        OBVIOUS
      <4> HIDE DEF x
      <4> QED
        BY <2>1, <3>1, <4>1, <4>2, <4>3, Zenon
    <3>2. CASE session.last # Unheard
      <4>1. heard.last \in Messages /\ heard.last.t = period * Wrap + (session.wraps * Wrap + session.last)
        BY <3>2 DEF ClockFits
      <4>2. PICK a \in Nat : a = heard.last.t
        BY <4>1 DEF Messages
      <4>3. PICK l \in 0 .. Wrap - 1 : l = session.last
        BY <2>3, <3>2
      <4>4. PICK w \in Nat : w = session.wraps
        BY <2>3
      <4>5. a = (w + period) * Wrap + l
        <5>1. a = period * Wrap + (w * Wrap + l)
          BY <4>1, <4>2, <4>3, <4>4, Zenon
        <5>2. l \in Nat /\ Wrap \in Nat
          BY <1>2
        <5>3. (w + period) * Wrap + l = period * Wrap + (w * Wrap + l)
          BY <5>2, PeriodsAdd
        <5> QED
          BY <5>1, <5>3, Zenon
      <4>6. PICK b \in Nat : b = s[1].t
        BY <2>3
      <4>7. Near(a, b)
        BY <3>2, <4>2, <4>6
      <4>8. b = ((IF (b % Wrap) + HalfWrap < l THEN w + 1 ELSE w) + period) * Wrap + (b % Wrap)
        BY <4>5, <4>7, UnwrapFits
      <4> HIDE DEF x
      <4> QED
        BY <2>1, <3>2, <4>3, <4>4, <4>6, <4>8, Zenon
    <3> QED
      BY <3>1, <3>2
  <2> HIDE DEF x, High, Low, Raw
  <2> QED
    BY <1>7, <1>8, <2>1, <2>2, <2>4 DEF x
<1>10. ASSUME NEW i \in 1 .. size, i # 1, Right(i - 1) PROVE Right(i)
  <2> DEFINE x == d[i - 1]
  <2>1. i - 1 \in 1 .. size /\ i > 1 /\ s[i - 1].t \in Nat /\ s[i].t \in Nat
    BY <1>1, <1>8, <1>10
  <2>2. /\ x.low = Low(i - 1) /\ x.high = High(i - 1) /\ x.last = Raw(i - 1) /\ x.wraps \in Nat
        /\ s[i - 1].t = (x.wraps + period) * Wrap + x.last
    BY <1>10
  <2>3. d[i] = DecodeOne(x, Low(i)) /\ x \in Decoders
    <3>1. i - 1 \in 0 .. size
      BY <2>1
    <3> QED
      BY <1>5, <1>6, <3>1
  <2>4. s[i - 1].t < s[i].t /\ s[i].t - s[i - 1].t < Lows
    <3>1. i - 1 \in 1 .. Len(s) /\ i \in 1 .. Len(s) /\ i - 1 < i
      BY <1>1, <1>8, <1>10, <2>1
    <3> QED
      BY <3>1 DEF Burst
  <2>5. High(i) = IF Low(i) < Low(i - 1) THEN (High(i - 1) + 1) % Highs ELSE High(i - 1)
    BY <2>1, <2>4, HighBitsMoveOn
  <2>6. x.low # Unheard /\ x.last # Unheard
    <3>1. Low(i - 1) \in Nat /\ Raw(i - 1) \in Nat /\ Unheard \notin Nat
      <4>1. Raw(i - 1) \in 0 .. Wrap - 1 /\ Low(i - 1) \in Nat
        BY <1>3, <2>1
      <4>2. \A r \in 0 .. Wrap - 1 : r \in Nat
        BY <1>2
      <4> QED
        BY <4>1, <4>2, StickAssumption DEF StickAssumption
    <3> HIDE DEF x
    <3> QED
      BY <2>2, <3>1, Zenon
  <2>7. LET wraps == IF x.last # Unheard /\ Raw(i) + HalfWrap < x.last THEN x.wraps + 1 ELSE x.wraps
        IN  s[i].t = (wraps + period) * Wrap + Raw(i)
    <3>1. PICK a \in Nat : a = s[i - 1].t
      BY <2>1
    <3>2. PICK b \in Nat : b = s[i].t
      BY <2>1
    <3>3. PICK w \in Nat : w = x.wraps
      BY <2>2
    <3>4. PICK l \in 0 .. Wrap - 1 : l = x.last
      <4>1. Raw(i - 1) \in 0 .. Wrap - 1
        BY <1>3, <2>1
      <4> HIDE DEF x, Raw
      <4> QED
        BY <2>2, <4>1
    <3>5. Near(a, b)
      BY <2>1, <3>1, <3>2
    <3>6. a = (w + period) * Wrap + l
      <4> HIDE DEF x
      <4> QED
        BY <2>2, <3>1, <3>3, <3>4, Zenon
    <3>7. b = ((IF (b % Wrap) + HalfWrap < l THEN w + 1 ELSE w) + period) * Wrap + (b % Wrap)
      BY <3>5, <3>6, UnwrapFits
    <3> HIDE DEF x
    <3> QED
      BY <2>6, <3>2, <3>3, <3>4, <3>7, Zenon
  <2> HIDE DEF x, High, Low, Raw
  <2>8. x.low # Unheard /\ Low(i) < x.low => (x.high + 1) % Highs = High(i)
    BY <2>2, <2>5
  <2>9. ~(x.low # Unheard /\ Low(i) < x.low) => x.high = High(i)
    BY <2>2, <2>5, <2>6
  <2> QED
    BY <1>7, <2>3, <2>7, <2>8, <2>9 DEF x
<1>11. \A n \in 0 .. size : n \in P
  <2>1. 0 \in P
    BY <1>1
  <2>2. \A i \in 1 .. size : i - 1 \in P => i \in P
    <3> SUFFICES ASSUME NEW i \in 1 .. size, i - 1 \in P PROVE i \in P
      OBVIOUS
    <3>1. Right(i)
      <4> HIDE DEF Right
      <4>1. i # 1 => Right(i - 1)
        BY <1>8
      <4> QED
        BY <1>9, <1>10, <4>1
    <3>2. i \in 0 .. size
      BY <1>1
    <3> HIDE DEF Right
    <3> QED
      BY <3>1, <3>2
  <2> HIDE DEF P
  <2> QED
    BY <1>1, <2>1, <2>2, UpToN, Zenon
<1>12. ASSUME NEW i \in 1 .. size PROVE Right(i)
  <2>1. i \in 0 .. size /\ i > 0
    BY <1>1
  <2> HIDE DEF Right
  <2> QED
    BY <1>11, <2>1
<1>13. ASSUME NEW i \in 1 .. size
       PROVE  /\ d[i].wraps \in Nat /\ d[i].last \in 0 .. Wrap - 1
              /\ s[i].t = (d[i].wraps + period) * Wrap + d[i].last
  <2>1. Raw(i) \in 0 .. Wrap - 1
    BY <1>3
  <2>2. /\ d[i].wraps \in Nat /\ d[i].last = Raw(i)
        /\ s[i].t = (d[i].wraps + period) * Wrap + d[i].last
    BY <1>12, Zenon
  <2> HIDE DEF Raw
  <2> QED
    BY <2>1, <2>2
<1> QED
  BY <1>13, Zenon DEF d, packet

IngestStates == [recent : Seq(Nat), hits : Seq(Hits)]

\* The session's states, from one message of a packet to the next.
HitOf(strikes, d, i) == [strike |-> strikes[i], time |-> d[i].wraps * Wrap + d[i].last, link |-> stick.boot]

IngestRuns(N, strikes, d) ==
  \E f \in [0 .. N -> IngestStates] :
    /\ IngestAll(strikes, d) = f[N]
    /\ f[0] = [recent |-> session.recent, hits |-> hits]
    /\ \A i \in 1 .. N : f[i] = IF Plays(strikes[i]) THEN IngestOne(f[i - 1], HitOf(strikes, d, i))
                                ELSE f[i - 1]

LEMMA IngestSteps ==
  ASSUME NEW N \in Nat, NEW strikes \in Seq(Messages), Len(strikes) = N, NEW d,
         session \in Sessions, hits \in Seq(Hits), stick.boot \in Nat,
         \A i \in 1 .. N : d[i].wraps * Wrap + d[i].last \in Nat
  PROVE  IngestRuns(N, strikes, d)
<1> DEFINE start == [recent |-> session.recent, hits |-> hits]
           Taking(x, i) == IF Plays(strikes[i]) THEN IngestOne(x, HitOf(strikes, d, i)) ELSE x
           Body(f) == [i \in 0 .. N |->
                         IF i = 0 THEN start
                         ELSE IF Plays(strikes[i]) THEN IngestOne(f[i - 1], HitOf(strikes, d, i)) ELSE f[i - 1]]
           s == CHOOSE f : f = Body(f)
           step == [i \in 1 .. N |-> [x \in IngestStates |-> Taking(x, i)]]
<1>1. IngestAll(strikes, d) = s[N]
  BY DEF IngestAll, HitOf
<1>2. start \in IngestStates
  BY DEF Sessions, IngestStates
<1>3. ASSUME NEW i \in 1 .. N, NEW x \in IngestStates PROVE Taking(x, i) \in IngestStates
  <2>1. HitOf(strikes, d, i) \in Hits /\ HitOf(strikes, d, i).time \in Nat
    <3>1. strikes[i] \in Messages
      OBVIOUS
    <3>2. PICK time \in Nat : time = d[i].wraps * Wrap + d[i].last
      OBVIOUS
    <3>3. HitOf(strikes, d, i) = [strike |-> strikes[i], time |-> time, link |-> stick.boot]
      BY <3>2 DEF HitOf
    <3> QED
      BY <3>1, <3>3 DEF Hits
  <2>2. PICK hit \in Hits : hit = HitOf(strikes, d, i) /\ hit.time \in Nat
    BY <2>1
  <2>3. x.recent \in Seq(Nat) /\ x.hits \in Seq(Hits)
    BY DEF IngestStates
  <2>4. Append(x.hits, hit) \in Seq(Hits) /\ Remember(x.recent, hit.time) \in Seq(Nat)
    <3>1. Append(x.hits, hit) \in Seq(Hits)
      BY <2>3
    <3>2. PICK r \in Seq(Nat) : r = x.recent
      BY <2>3
    <3>3. PICK t \in Nat : t = hit.time
      BY <2>2
    <3>4. PICK all \in Seq(Nat) : all = Append(r, t) /\ Len(all) = Len(r) + 1 /\ Len(r) \in Nat
      <4>1. Append(r, t) \in Seq(Nat)
        BY AppendProperties, Zenon
      <4>2. Len(Append(r, t)) = Len(r) + 1 /\ Len(r) \in Nat
        BY AppendProperties
      <4> QED
        BY <4>1, <4>2, Zenon
    <3>5. Tail(all) \in Seq(Nat)
      BY <3>4
    <3>6. Remember(r, t) = (IF Len(all) > Window THEN Tail(all) ELSE all)
      BY <3>4 DEF Remember
    <3> QED
      BY <3>1, <3>2, <3>3, <3>5, <3>6
  <2>5. IngestOne(x, hit) \in IngestStates
    <3>1. [recent |-> Remember(x.recent, hit.time), hits |-> Append(x.hits, hit)] \in IngestStates
      BY <2>4 DEF IngestStates
    <3> QED
      BY <3>1, Zenon DEF IngestOne
  <2> QED
    BY <2>2, <2>5, Zenon
<1>4. 0 \in 0 .. N /\ \A i \in 1 .. N : i \in 0 .. N /\ i # 0 /\ i - 1 \in 0 .. N
  OBVIOUS
<1> HIDE DEF start
<1>5. \E f : f = Body(f)
  <2>1. step \in Steps(N, IngestStates) /\ \A i \in 1 .. N, x \in IngestStates : step[i][x] = Taking(x, i)
    <3> HIDE DEF Taking
    <3> QED
      BY <1>3 DEF Steps
  <2> HIDE DEF step
  <2>2. \E f : Runs(f, start, step, N, IngestStates)
    BY <1>2, <2>1, StepsExist, Zenon
  <2>3. PICK f : Runs(f, start, step, N, IngestStates)
    BY <2>2
  <2>4. f \in [0 .. N -> IngestStates] /\ f[0] = start /\ \A i \in 1 .. N : f[i] = Taking(f[i - 1], i)
    <3>1. \A i \in 1 .. N : f[i - 1] \in IngestStates
      BY <1>4, <2>3 DEF Runs
    <3> HIDE DEF Taking
    <3> QED
      BY <2>1, <2>3, <3>1 DEF Runs
  <2>5. \A i \in 0 .. N : f[i] = IF i = 0 THEN start ELSE Taking(f[i - 1], i)
    <3>1. \A i \in 0 .. N : i = 0 \/ i \in 1 .. N
      OBVIOUS
    <3> HIDE DEF Taking
    <3> QED
      BY <1>4, <2>4, <3>1
  <2> QED
    BY <2>4, <2>5
<1>6. s = Body(s)
  <2> HIDE DEF Body
  <2> QED
    BY <1>5
<1> HIDE DEF s
<1>7. s[0] = start /\ \A i \in 1 .. N : s[i] = Taking(s[i - 1], i)
  BY <1>4, <1>6
<1>8. s \in [0 .. N -> IngestStates]
  <2> DEFINE P == {n \in 0 .. N : s[n] \in IngestStates}
  <2>1. 0 \in P
    BY <1>2, <1>4, <1>7
  <2>2. \A i \in 1 .. N : i - 1 \in P => i \in P
    <3> HIDE DEF Taking
    <3> QED
      BY <1>3, <1>4, <1>7
  <2>3. \A n \in 0 .. N : n \in P
    <3> HIDE DEF P
    <3> QED
      BY <2>1, <2>2, UpToN, Zenon
  <2>4. DOMAIN s = 0 .. N /\ s = [n \in 0 .. N |-> s[n]]
    BY <1>6
  <2> QED
    BY <2>3, <2>4
<1> QED
  BY <1>1, <1>7, <1>8 DEF start, IngestRuns

\* The times of a packet, as far as the connection lets them be told.
LEMMA PeriodIsFound ==
  ASSUME session \in Sessions, session.connected, heard \in Heards, stick.boot \in Nat,
         NEW recent, NEW M, NEW base \in Bases, HitsFit(hits, recent, M, stick.boot, base),
         ClockFits(session, heard.last, base[stick.boot]),
         session.last = Unheard => \A i \in 1 .. Len(hits) : hits[i].link # stick.boot,
         NEW t \in Nat
  PROVE  \E period \in Nat, other \in Bases :
           /\ ClockFits(session, heard.last, period * Wrap) /\ other[stick.boot] = period * Wrap
           /\ session.last = Unheard => t \div Wrap = period
           /\ HitsFit(hits, recent, M, stick.boot, other)
<1>1. CASE session.last # Unheard
  <2>1. PICK period \in Nat : base[stick.boot] = period * Wrap
    BY DEF Bases
  <2> QED
    BY <1>1, <2>1, Zenon
<1>2. CASE session.last = Unheard
  <2>1. PICK period \in Nat : period = t \div Wrap
    <3>1. Wrap \in Nat \ {0}
      BY BitsAreClock
    <3>2. \E q \in Nat : \E r \in 0 .. Wrap - 1 : t = q * Wrap + r /\ t \div Wrap = q /\ t % Wrap = r
      BY <3>1, Divided
    <3> QED
      BY <3>2
  <2>2. Wrap \in Nat
    BY BitsAreClock
  <2>3. PICK p \in Nat : p = period * Wrap
    BY <2>2
  <2> DEFINE other == [base EXCEPT ![stick.boot] = p]
  <2>4. base \in [Nat -> Nat] /\ \A k \in Nat : \E q \in Nat : base[k] = q * Wrap
    BY DEF Bases
  <2>5. other \in [Nat -> Nat] /\ other[stick.boot] = p /\ \A k \in Nat : k # stick.boot => other[k] = base[k]
    BY <2>4
  <2> HIDE DEF other
  <2>6. other \in Bases
    <3> SUFFICES ASSUME NEW k \in Nat PROVE \E q \in Nat : other[k] = q * Wrap
      BY <2>5 DEF Bases
    <3>1. CASE k = stick.boot
      BY <2>3, <2>5, <3>1
    <3>2. CASE k # stick.boot
      BY <2>4, <2>5, <3>2, ZenonT(40)
    <3> QED
      BY <3>1, <3>2
  <2>7. ASSUME NEW i \in 1 .. Len(hits) PROVE hits[i].strike.t = other[hits[i].link] + hits[i].time
    <3>1. hits \in Seq(Hits)
      BY DEF HitsFit
    <3>2. hits[i] \in Hits
      BY <3>1
    <3>3. hits[i].link \in Nat
      BY <3>2 DEF Hits
    <3>4. other[hits[i].link] = base[hits[i].link]
      BY <1>2, <2>5, <3>3
    <3>5. hits[i].strike.t = base[hits[i].link] + hits[i].time
      BY DEF HitsFit
    <3> QED
      BY <3>4, <3>5
  <2>8. HitsFit(hits, recent, M, stick.boot, other)
    BY <2>7, Zenon DEF HitsFit
  <2>9. ClockFits(session, heard.last, period * Wrap)
    BY <1>2 DEF ClockFits
  <2> QED
    BY <2>1, <2>3, <2>5, <2>6, <2>8, <2>9, Zenon
<1> QED
  BY <1>1, <1>2

\* A packet that is heard, whole or cut short, for the first time or again.
LEMMA IngestFits ==
  ASSUME misled \in BOOLEAN, stick.boot \in Nat, session.connected,
         NEW M, Apart(M), \A x \in M : x \in Messages /\ x.boot <= stick.boot,
         HeardFits(session, hits, heard, M, stick.boot),
         NEW boot \in 0 .. stick.boot, NEW s, Burst(s, boot), NEW read \in 1 .. Len(s), NEW size \in 0 .. read,
         \A i \in 1 .. Len(s) : s[i] \in M, NEW repeats \in Nat,
         Ingest(PacketOf(s), size, read, repeats), ~misled'
  PROVE  HeardFits(session', hits', heard', M, stick.boot)
<1> DEFINE part == SubSeq(s, 1, size)
           d == DecodePacket(PacketOf(s), read)
           after == IngestAll(part, d)
           before == IF session.last = Unheard THEN Unheard ELSE heard.last
           Time(i) == d[i].wraps * Wrap + d[i].last
<1>1. /\ s \in Seq(Messages) /\ size \in Nat /\ read \in Nat /\ read >= 1 /\ Len(s) \in Nat
      /\ size <= read /\ read <= Len(s)
      /\ \A i \in 1 .. read : i \in 1 .. Len(s)
      /\ \A i \in 1 .. size : i \in 1 .. read /\ i \in 1 .. Len(s)
  BY DEF Burst
<1>2. /\ part \in Seq(Messages) /\ Len(part) = size /\ DOMAIN part = 1 .. size
      /\ \A i \in 1 .. size : part[i] = s[i]
  <2>1. 1 \in 1 .. Len(s) + 1 /\ size \in 1 - 1 .. Len(s)
    BY <1>1
  <2> QED
    BY <1>1, <2>1, SubSeqProperties
<1>3. \A i \in 1 .. read : s[i] \in Messages /\ s[i] \in M /\ s[i].t \in Nat /\ s[i].boot = boot
  <2>1. \A i \in 1 .. read : s[i] \in Messages /\ s[i] \in M /\ s[i].boot = boot
    BY <1>1 DEF Burst
  <2>2. \A m \in Messages : m.t \in Nat
    BY DEF Messages
  <2> QED
    BY <2>1, <2>2
<1>4. \A i \in 1 .. read, k \in 1 .. read : k < i => s[k].t < s[i].t
  BY <1>1 DEF Burst
<1>5. Wrap \in Nat \ {0}
  BY BitsAreClock
<1>6. session \in Sessions /\ heard \in Heards
      /\ (session.last = Unheard => \A i \in 1 .. Len(hits) : hits[i].link # stick.boot)
      /\ (stick.boot = 0 => heard.strikes = {hits[i].strike : i \in 1 .. Len(hits)})
  BY DEF HeardFits
<1>7. PICK base0 \in Bases : /\ HitsFit(hits, session.recent, M, stick.boot, base0)
                             /\ ClockFits(session, heard.last, base0[stick.boot])
  BY DEF HeardFits
<1>8. 1 \in 1 .. read
  BY <1>1
<1>9. PICK period \in Nat, base \in Bases :
        /\ ClockFits(session, heard.last, period * Wrap) /\ base[stick.boot] = period * Wrap
        /\ session.last = Unheard => s[1].t \div Wrap = period
        /\ HitsFit(hits, session.recent, M, stick.boot, base)
  <2>1. PICK t \in Nat : t = s[1].t
    BY <1>3, <1>8
  <2>2. \E period \in Nat, other \in Bases :
           /\ ClockFits(session, heard.last, period * Wrap) /\ other[stick.boot] = period * Wrap
           /\ session.last = Unheard => t \div Wrap = period
           /\ HitsFit(hits, session.recent, M, stick.boot, other)
    BY <1>6, <1>7, PeriodIsFound, Zenon
  <2> QED
    BY <2>1, <2>2
<1>10. PacketOf(s).strikes = s
  BY DEF PacketOf
<1>11. /\ session' = [session EXCEPT !.last = d[read].last, !.wraps = d[read].wraps, !.recent = after.recent]
       /\ hits' = after.hits
       /\ heard' = [strikes |-> heard.strikes \cup {m \in ToSet(part) : Plays(m)},
                    last |-> IF read = 0 THEN heard.last ELSE s[read],
                    replays |-> heard.replays + read * repeats]
       /\ misled' = \/ misled
                    \/ \E i \in 1 .. read : ~Follows(IF i = 1 THEN before ELSE s[i - 1], s[i])
                    \/ \E i \in 1 .. size : Plays(part[i]) /\ ~InWindow(part[i], Len(after.hits))
  BY <1>10 DEF Ingest
<1> HIDE DEF part, d, after
<1>12. /\ \A i \in 1 .. read : Follows(IF i = 1 THEN before ELSE s[i - 1], s[i])
       /\ \A i \in 1 .. size : Plays(s[i]) => InWindow(s[i], Len(after.hits))
  <2>1. \A i \in 1 .. size : Plays(part[i]) => InWindow(part[i], Len(after.hits))
    BY <1>11, Zenon
  <2>2. \A i \in 1 .. read : Follows(IF i = 1 THEN before ELSE s[i - 1], s[i])
    BY <1>11, Zenon
  <2> QED
    BY <1>2, <2>1, <2>2, Zenon
<1>13. before \in Messages \cup {Unheard} /\ (session.last # Unheard => before = heard.last /\ heard.last \in Messages)
  BY <1>6, <1>9 DEF ClockFits
<1>14. \A i \in 1 .. read : (IF i = 1 THEN before ELSE s[i - 1]) \in Messages \cup {Unheard}
  <2>1. \A i \in 1 .. read : i # 1 => i - 1 \in 1 .. read
    BY <1>1
  <2> QED
    BY <1>3, <1>13, <2>1
<1>15. boot # stick.boot => \A i \in 1 .. read : s[i].t < Wrap
  <2> SUFFICES ASSUME boot # stick.boot, NEW i \in 1 .. read PROVE s[i].t < Wrap
    OBVIOUS
  <2>1. Follows(IF i = 1 THEN before ELSE s[i - 1], s[i])
    BY <1>3, <1>12
  <2>2. s[i] \in Messages /\ s[i].boot # stick.boot
    BY <1>3
  <2> HIDE DEF before
  <2> QED
    BY <1>14, <2>1, <2>2, FollowsIsNear
<1>16. session.last # Unheard => Near(heard.last.t, s[1].t)
  <2> SUFFICES ASSUME session.last # Unheard PROVE Near(heard.last.t, s[1].t)
    OBVIOUS
  <2>1. Follows(heard.last, s[1])
    BY <1>3, <1>8, <1>12, <1>13
  <2> QED
    BY <1>3, <1>8, <1>13, <2>1, FollowsIsNear
<1>17. \A i \in 1 .. read : i > 1 => Near(s[i - 1].t, s[i].t)
  <2> SUFFICES ASSUME NEW i \in 1 .. read, i > 1 PROVE Near(s[i - 1].t, s[i].t)
    OBVIOUS
  <2>1. i - 1 \in 1 .. read /\ i # 1
    BY <1>1
  <2>2. Follows(s[i - 1], s[i])
    BY <1>3, <1>12, <2>1
  <2> QED
    BY <1>3, <2>1, <2>2, FollowsIsNear
<1>18. \A i \in 1 .. read : /\ d[i].wraps \in Nat /\ d[i].last \in 0 .. Wrap - 1
                            /\ s[i].t = (d[i].wraps + period) * Wrap + d[i].last
  <2>1. boot \in Nat
    OBVIOUS
  <2> QED
    BY <1>6, <1>9, <1>16, <1>17, <2>1, DecodeFits, ZenonT(40) DEF d
<1>19. \A i \in 1 .. read : Time(i) \in Nat /\ s[i].t = base[stick.boot] + Time(i)
  <2> SUFFICES ASSUME NEW i \in 1 .. read PROVE Time(i) \in Nat /\ s[i].t = base[stick.boot] + Time(i)
    OBVIOUS
  <2>1. PICK w \in Nat : w = d[i].wraps
    BY <1>18
  <2>2. PICK l \in 0 .. Wrap - 1 : l = d[i].last
    BY <1>18
  <2>3. s[i].t = (w + period) * Wrap + l
    BY <1>18, <2>1, <2>2
  <2>4. w * Wrap + l \in Nat /\ (w + period) * Wrap + l = period * Wrap + (w * Wrap + l)
    <3>1. l \in Nat /\ Wrap \in Nat
      BY <1>5
    <3> QED
      BY <3>1, PeriodsAdd
  <2> QED
    BY <1>9, <2>1, <2>2, <2>3, <2>4
<1>20. PICK f \in [0 .. size -> IngestStates] :
         /\ after = f[size]
         /\ f[0] = [recent |-> session.recent, hits |-> hits]
         /\ \A i \in 1 .. size : f[i] = IF Plays(part[i]) THEN IngestOne(f[i - 1], HitOf(part, d, i)) ELSE f[i - 1]
  <2>1. \A i \in 1 .. size : d[i].wraps * Wrap + d[i].last \in Nat
    BY <1>1, <1>19, Zenon
  <2>2. hits \in Seq(Hits)
    BY <1>7 DEF HitsFit
  <2> QED
    <3>1. IngestRuns(size, part, d)
      <4>1. size \in Nat /\ part \in Seq(Messages) /\ Len(part) = size /\ session \in Sessions
        BY <1>1, <1>2, <1>6
      <4> QED
        BY <2>1, <2>2, <4>1, IngestSteps, Zenon
    <3> QED
      BY <3>1 DEF after, IngestRuns
<1>21. \A i \in 1 .. size : HitOf(part, d, i) = [strike |-> s[i], time |-> Time(i), link |-> stick.boot]
  BY <1>2 DEF HitOf
<1> HIDE DEF Time, before
<1>22. ASSUME NEW i \in 1 .. size
       PROVE  /\ f[i - 1] \in IngestStates /\ f[i] \in IngestStates
              /\ Len(f[i - 1].hits) \in Nat /\ Len(f[i].hits) \in Nat
              /\ Len(f[i - 1].hits) <= Len(f[i].hits)
  <2>1. f[i - 1] \in IngestStates /\ f[i] \in IngestStates
    <3>1. i \in 0 .. size /\ i - 1 \in 0 .. size
      BY <1>1
    <3> QED
      BY <3>1
  <2>2. PICK x \in IngestStates : x = f[i - 1]
    BY <2>1
  <2>3. PICK y \in IngestStates : y = f[i]
    BY <2>1
  <2>4. Len(x.hits) \in Nat /\ Len(y.hits) \in Nat /\ x.hits \in Seq(Hits)
    BY DEF IngestStates
  <2>5. y = x \/ y.hits = Append(x.hits, HitOf(part, d, i))
    <3>1. PICK hit : hit = HitOf(part, d, i)
      OBVIOUS
    <3>2. y = x \/ y = IngestOne(x, hit)
      BY <1>20, <2>2, <2>3, <3>1
    <3>3. CASE y = IngestOne(x, hit)
      <4>1. \/ y = x
            \/ y = [recent |-> Remember(x.recent, hit.time), hits |-> Append(x.hits, hit)]
        BY <3>3, Zenon DEF IngestOne
      <4>2. PICK longer : longer = Append(x.hits, hit)
        OBVIOUS
      <4>3. y = x \/ y.hits = longer
        BY <4>1, <4>2
      <4> QED
        BY <3>1, <4>2, <4>3, Zenon
    <3> QED
      BY <3>2, <3>3, Zenon
  <2>6. HitOf(part, d, i) \in Hits
    <3>1. i \in 1 .. read
      BY <1>1
    <3>2. s[i] \in Messages /\ Time(i) \in Nat
      BY <1>3, <1>19, <3>1
    <3> QED
      BY <1>21, <3>2 DEF Hits
  <2>7. Len(x.hits) <= Len(y.hits)
    <3>1. PICK hit \in Hits : hit = HitOf(part, d, i)
      BY <2>6
    <3>2. Len(Append(x.hits, hit)) = Len(x.hits) + 1
      BY <2>4
    <3> QED
      BY <2>4, <2>5, <3>1, <3>2
  <2> QED
    BY <2>1, <2>2, <2>3, <2>4, <2>7
<1>40. \A i \in 0 .. size : f[i] \in IngestStates /\ Len(f[i].hits) \in Nat
  BY DEF IngestStates
<1>23. \A i \in 0 .. size : Len(f[i].hits) <= Len(f[size].hits)
  <2> DEFINE P == {n \in 0 .. size : Len(f[size - n].hits) <= Len(f[size].hits)}
  <2>1. 0 \in P
    <3>1. size - 0 = size /\ 0 \in 0 .. size /\ size \in 0 .. size
      BY <1>1
    <3>2. Len(f[size].hits) \in Nat
      BY <1>40, <3>1
    <3> QED
      BY <3>1, <3>2
  <2>2. \A i \in 1 .. size : i - 1 \in P => i \in P
    <3> SUFFICES ASSUME NEW i \in 1 .. size, i - 1 \in P PROVE i \in P
      OBVIOUS
    <3>1. PICK k \in 1 .. size : k = size - i + 1 /\ size - (i - 1) = k /\ size - i = k - 1
      BY <1>1
    <3>2. size \in 1 .. size /\ i \in 0 .. size
      BY <1>1
    <3>3. Len(f[k - 1].hits) <= Len(f[k].hits) /\ Len(f[k].hits) \in Nat /\ Len(f[k - 1].hits) \in Nat
          /\ Len(f[size].hits) \in Nat
      BY <1>22, <3>2
    <3>4. Len(f[k].hits) <= Len(f[size].hits)
      BY <3>1
    <3>5. Len(f[k - 1].hits) <= Len(f[size].hits)
      BY <3>3, <3>4, SMTT(30)
    <3> QED
      BY <3>1, <3>2, <3>5
  <2>3. \A n \in 0 .. size : n \in P
    <3> HIDE DEF P
    <3> QED
      BY <1>1, <2>1, <2>2, UpToN, Zenon
  <2> SUFFICES ASSUME NEW i \in 0 .. size PROVE Len(f[i].hits) <= Len(f[size].hits)
    OBVIOUS
  <2>4. size - i \in 0 .. size /\ size - (size - i) = i
    BY <1>1
  <2> QED
    BY <2>3, <2>4
<1> DEFINE Played(i) == {m \in Messages : Plays(m) /\ \E k \in 1 .. i : s[k] = m}
           Good(i) == /\ HitsFit(f[i].hits, f[i].recent, M, stick.boot, base)
                      /\ Len(hits) <= Len(f[i].hits)
                      /\ \A j \in 1 .. Len(hits) : f[i].hits[j] = hits[j]
                      /\ \A j \in 1 .. Len(f[i].hits) : j > Len(hits) => f[i].hits[j].strike \in Played(i)
                      /\ stick.boot = 0 => Played(i) \subseteq {f[i].hits[j].strike : j \in 1 .. Len(f[i].hits)}
           P == {n \in 0 .. size : Good(n)}
<1>24. hits \in Seq(Hits) /\ Len(hits) \in Nat /\ Window \in Nat
  <2>1. hits \in Seq(Hits)
    BY <1>9 DEF HitsFit
  <2> QED
    BY <2>1, StickAssumption DEF StickAssumption
<1>25. 0 \in P
  <2>1. f[0].hits = hits /\ f[0].recent = session.recent
    BY <1>20
  <2>2. Played(0) = {}
    OBVIOUS
  <2>3. HitsFit(f[0].hits, f[0].recent, M, stick.boot, base)
    BY <1>9, <2>1
  <2>4. Good(0)
    <3> HIDE DEF Played
    <3> QED
      BY <1>24, <2>1, <2>2, <2>3
  <2>5. 0 \in 0 .. size
    BY <1>1
  <2> HIDE DEF Good
  <2> QED
    BY <2>4, <2>5
<1>26. ASSUME NEW i \in 1 .. size, i - 1 \in P PROVE i \in P
  <2>1. Good(i - 1) /\ i \in 0 .. size
    <3>1. i \in 0 .. size
      BY <1>1
    <3> HIDE DEF Good
    <3> QED
      BY <1>26, <3>1
  <2>2. \A m \in Played(i - 1) : m \in Played(i)
    <3>1. \A k \in 1 .. i - 1 : k \in 1 .. i
      OBVIOUS
    <3> QED
      BY <3>1
  <2>3. \A m \in Played(i) : m \in Played(i - 1) \/ (m = s[i] /\ Plays(s[i]))
    <3>1. \A k \in 1 .. i : k = i \/ k \in 1 .. i - 1
      OBVIOUS
    <3> QED
      BY <3>1
  <2>4. CASE ~Plays(s[i])
    <3>1. f[i] = f[i - 1]
      BY <1>2, <1>20, <2>4
    <3>2. Played(i) = Played(i - 1)
      <4> HIDE DEF Played
      <4> QED
        BY <2>2, <2>3, <2>4
    <3>3. Good(i)
      <4> HIDE DEF Played
      <4> QED
        BY <2>1, <3>1, <3>2
    <3> HIDE DEF Good
    <3> QED
      BY <2>1, <3>3
  <2>5. CASE Plays(s[i])
    <3>1. PICK x \in IngestStates : x = f[i - 1]
      BY <1>22
    <3>2. PICK y \in IngestStates : y = f[i]
      BY <1>22
    <3>3. PICK time \in Nat : time = Time(i) /\ s[i].t = base[stick.boot] + time
      BY <1>1, <1>19
    <3>4. y = IngestOne([recent |-> x.recent, hits |-> x.hits],
                        [strike |-> s[i], time |-> time, link |-> stick.boot])
      <4>1. x = [recent |-> x.recent, hits |-> x.hits]
        BY DEF IngestStates
      <4>2. f[i] = IngestOne(f[i - 1], HitOf(part, d, i))
        BY <1>2, <1>20, <2>5
      <4> QED
        BY <1>21, <3>1, <3>2, <3>3, <4>1, <4>2
    <3>5. /\ HitsFit(x.hits, x.recent, M, stick.boot, base)
          /\ Len(hits) <= Len(x.hits)
          /\ \A j \in 1 .. Len(hits) : x.hits[j] = hits[j]
          /\ \A j \in 1 .. Len(x.hits) : j > Len(hits) => x.hits[j].strike \in Played(i - 1)
          /\ stick.boot = 0 => Played(i - 1) \subseteq {x.hits[j].strike : j \in 1 .. Len(x.hits)}
      <4> HIDE DEF Played
      <4> QED
        BY <2>1, <3>1
    <3>6. Len(x.hits) \in Nat /\ Len(y.hits) \in Nat /\ x.hits \in Seq(Hits)
      BY DEF IngestStates
    <3>7. \A j \in 1 .. Len(x.hits) : x.hits[j].strike = s[i] => j > Len(x.hits) - Window
      <4> SUFFICES ASSUME NEW j \in 1 .. Len(x.hits), x.hits[j].strike = s[i] PROVE j > Len(x.hits) - Window
        OBVIOUS
      <4>1. CASE j \in 1 .. Len(hits)
        <5>1. hits[j].strike = s[i] /\ InWindow(s[i], Len(after.hits))
          BY <1>12, <2>5, <3>5, <4>1
        <5>2. DOMAIN hits = 1 .. Len(hits)
          BY <1>24
        <5>3. j > Len(after.hits) - Window
          BY <4>1, <5>1, <5>2 DEF InWindow
        <5>4. i - 1 \in 0 .. size /\ size \in 1 .. size
          BY <1>1
        <5>5. Len(x.hits) <= Len(after.hits)
          BY <1>20, <1>23, <3>1, <5>4
        <5>6. Len(after.hits) \in Nat
          BY <1>20, <1>22, <5>4
        <5> QED
          BY <1>24, <3>6, <5>3, <5>5, <5>6
      <4>2. CASE ~(j \in 1 .. Len(hits))
        <5>1. x.hits[j].strike \in Played(i - 1)
          <6>1. j > Len(hits)
            BY <1>24, <3>6, <4>2
          <6> HIDE DEF Played
          <6> QED
            BY <3>5, <6>1
        <5>2. PICK k \in 1 .. i - 1 : s[k] = s[i]
          BY <5>1
        <5>3. k \in 1 .. size /\ k < i
          BY <1>1
        <5>4. s[k].t < s[i].t /\ s[i].t \in Nat
          BY <1>1, <1>3, <1>4, <5>3
        <5> QED
          BY <5>2, <5>4
      <4> QED
        BY <4>1, <4>2
    <3>8. s[i] \in M /\ s[i].boot = boot /\ (s[i].boot # stick.boot => s[i].t < Wrap)
      BY <1>1, <1>3, <1>15
    <3>9. /\ HitsFit(y.hits, y.recent, M, stick.boot, base)
          /\ Len(y.hits) \in {Len(x.hits), Len(x.hits) + 1}
          /\ \A j \in 1 .. Len(x.hits) : y.hits[j] = x.hits[j]
          /\ \A j \in 1 .. Len(y.hits) : j > Len(x.hits) => y.hits[j].strike = s[i]
          /\ stick.boot = 0 => \E j \in 1 .. Len(y.hits) : y.hits[j].strike = s[i]
      <4>1. PICK strike \in M : strike = s[i]
        BY <3>8
      <4>2. HitsFit(x.hits, x.recent, M, stick.boot, base)
        BY <3>5
      <4>3. strike.t = base[stick.boot] + time /\ (strike.boot # stick.boot => strike.t < Wrap) /\ Plays(strike)
        BY <2>5, <3>3, <3>8, <4>1
      <4>4. \A j \in 1 .. Len(x.hits) : x.hits[j].strike = strike => j > Len(x.hits) - Window
        BY <3>7, <4>1
      <4>5. y = IngestOne([recent |-> x.recent, hits |-> x.hits],
                          [strike |-> strike, time |-> time, link |-> stick.boot])
        BY <3>4, <4>1
      <4>6. HitTaken(y, x.hits, strike, M, stick.boot, base)
        <5>1. PICK hs : hs = x.hits
          OBVIOUS
        <5>2. PICK recent : recent = x.recent
          OBVIOUS
        <5>3. /\ HitsFit(hs, recent, M, stick.boot, base)
              /\ \A j \in 1 .. Len(hs) : hs[j].strike = strike => j > Len(hs) - Window
          BY <4>2, <4>4, <5>1, <5>2, Zenon
        <5>4. HitTaken(IngestOne([recent |-> recent, hits |-> hs],
                                 [strike |-> strike, time |-> time, link |-> stick.boot]),
                       hs, strike, M, stick.boot, base)
          BY <4>3, <5>3, OneHitFits, Zenon
        <5> QED
          BY <4>5, <5>1, <5>2, <5>4, Zenon
      <4> QED
        BY <4>1, <4>6, Zenon DEF HitTaken
    <3>10. s[i] \in Played(i)
      <4>1. i \in 1 .. i
        OBVIOUS
      <4> QED
        BY <1>1, <1>3, <2>5, <4>1
    <3> HIDE DEF Played
    <3>11. \A j \in 1 .. Len(y.hits) : j > Len(hits) => y.hits[j].strike \in Played(i)
      <4> SUFFICES ASSUME NEW j \in 1 .. Len(y.hits), j > Len(hits) PROVE y.hits[j].strike \in Played(i)
        OBVIOUS
      <4>1. CASE j > Len(x.hits)
        BY <3>9, <3>10, <4>1
      <4>2. CASE ~(j > Len(x.hits))
        <5>1. j \in 1 .. Len(x.hits)
          BY <3>6, <4>2
        <5> QED
          BY <2>2, <3>5, <3>9, <5>1
      <4> QED
        BY <4>1, <4>2
    <3>12. \A j \in 1 .. Len(hits) : y.hits[j] = hits[j] /\ j \in 1 .. Len(x.hits)
      <4>1. \A j \in 1 .. Len(hits) : j \in 1 .. Len(x.hits)
        BY <1>24, <3>5, <3>6
      <4> QED
        BY <3>5, <3>9, <4>1
    <3>13. Len(hits) <= Len(y.hits) /\ \A j \in 1 .. Len(x.hits) : j \in 1 .. Len(y.hits)
      BY <1>24, <3>5, <3>6, <3>9, SMTT(30)
    <3>14. ASSUME stick.boot = 0, NEW m \in Played(i)
           PROVE  m \in {y.hits[j].strike : j \in 1 .. Len(y.hits)}
      <4>1. CASE m \in Played(i - 1)
        <5>1. PICK j \in 1 .. Len(x.hits) : x.hits[j].strike = m
          BY <3>5, <3>14, <4>1
        <5> QED
          BY <3>9, <3>13, <5>1
      <4>2. CASE m = s[i]
        BY <3>9, <3>14, <4>2
      <4> QED
        BY <2>3, <4>1, <4>2
    <3>15. Good(i)
      <4>1. HitsFit(f[i].hits, f[i].recent, M, stick.boot, base)
        BY <3>2, <3>9
      <4>2. \A j \in 1 .. Len(hits) : f[i].hits[j] = hits[j]
        BY <3>2, <3>12
      <4> QED
        BY <3>2, <3>11, <3>13, <3>14, <4>1, <4>2
    <3> HIDE DEF Good
    <3> QED
      BY <2>1, <3>15
  <2> QED
    BY <2>4, <2>5
<1>27. Good(size)
  <2>1. \A i \in 1 .. size : i - 1 \in P => i \in P
    BY <1>26
  <2> HIDE DEF P
  <2>2. \A n \in 0 .. size : n \in P
    BY <1>1, <1>25, <2>1, UpToN, Zenon
  <2>3. size \in 0 .. size
    BY <1>1
  <2> QED
    BY <2>2, <2>3 DEF P
<1> HIDE DEF P
<1>28. PICK y \in IngestStates : y = f[size] /\ y = after
  <2>1. size \in 0 .. size
    BY <1>1
  <2> QED
    BY <1>20, <1>40, <2>1
<1>29. /\ HitsFit(y.hits, y.recent, M, stick.boot, base)
       /\ Len(hits) <= Len(y.hits)
       /\ \A j \in 1 .. Len(hits) : y.hits[j] = hits[j]
       /\ \A j \in 1 .. Len(y.hits) : j > Len(hits) => y.hits[j].strike \in Played(size)
       /\ stick.boot = 0 => Played(size) \subseteq {y.hits[j].strike : j \in 1 .. Len(y.hits)}
  <2> HIDE DEF Played
  <2> QED
    BY <1>27, <1>28
<1>30. PICK l \in 0 .. Wrap - 1 : l = d[read].last
  <2>1. read \in 1 .. read
    BY <1>1
  <2> QED
    BY <1>18, <2>1
<1>31. PICK w \in Nat : w = d[read].wraps
  <2>1. read \in 1 .. read
    BY <1>1
  <2> QED
    BY <1>18, <2>1
<1>32. /\ session' \in Sessions /\ session'.connected /\ session'.last = l /\ session'.wraps = w
       /\ session'.recent = y.recent
  <2>1. session' = [session EXCEPT !.last = l, !.wraps = w, !.recent = y.recent]
    BY <1>11, <1>28, <1>30, <1>31
  <2>2. y.recent \in Seq(Nat)
    BY DEF IngestStates
  <2> QED
    BY <1>6, <2>1, <2>2 DEF Sessions
<1>33. l # Unheard
  <2>1. l \in Nat
    BY <1>5
  <2> QED
    BY <2>1, StickAssumption DEF StickAssumption
<1>34. s[read] \in Messages /\ s[read].t = (w + period) * Wrap + l /\ read # 0
  <2>1. read \in 1 .. read
    BY <1>1
  <2> QED
    BY <1>1, <1>3, <1>18, <1>30, <1>31, <2>1
<1>35. {m \in ToSet(part) : Plays(m)} = Played(size)
  <2>1. ToSet(part) = {part[i] : i \in 1 .. size}
    BY <1>2, Zenon DEF ToSet
  <2>2. \A m \in ToSet(part) : m \in Messages
    BY <1>1, <1>2, <1>3, <2>1
  <2>3. \A m : m \in ToSet(part) <=> \E k \in 1 .. size : s[k] = m
    BY <1>2, <2>1
  <2> QED
    BY <2>2, <2>3
<1>36. heard' \in Heards /\ heard'.strikes = heard.strikes \cup Played(size) /\ heard'.last = s[read]
  <2>1. read * repeats \in Nat
    BY <1>1
  <2>2. PICK n \in Nat : n = heard.replays + read * repeats
    BY <1>6, <2>1 DEF Heards
  <2>3. heard' = [strikes |-> heard.strikes \cup Played(size), last |-> s[read], replays |-> n]
    <3> HIDE DEF Played
    <3> QED
      BY <1>11, <1>34, <1>35, <2>2
  <2>4. Played(size) \subseteq Messages /\ heard.strikes \subseteq Messages
    BY <1>6 DEF Heards
  <2> HIDE DEF Played
  <2> QED
    BY <1>34, <2>3, <2>4 DEF Heards
<1>37. ClockFits(session', heard'.last, base[stick.boot])
  <2>1. PICK x \in Nat : x = s[read].t
    BY <1>34 DEF Messages
  <2>2. (w + period) * Wrap + l = period * Wrap + (w * Wrap + l)
    <3>1. l \in Nat /\ Wrap \in Nat
      BY <1>5
    <3> QED
      BY <3>1, PeriodsAdd
  <2>3. s[read].t = base[stick.boot] + (w * Wrap + l)
    BY <1>9, <1>34, <2>2
  <2> QED
    BY <1>32, <1>33, <1>34, <1>36, <2>3 DEF ClockFits
<1>38. ASSUME stick.boot = 0 PROVE heard'.strikes = {hits'[j].strike : j \in 1 .. Len(hits')}
  <2>1. hits' = y.hits
    BY <1>11, <1>28
  <2>2. heard.strikes = {hits[j].strike : j \in 1 .. Len(hits)}
    BY <1>6, <1>38
  <2>3. Len(y.hits) \in Nat
    BY DEF IngestStates
  <2> HIDE DEF Played
  <2>4. \A j \in 1 .. Len(hits) : j \in 1 .. Len(y.hits) /\ y.hits[j] = hits[j]
    BY <1>24, <1>29, <2>3
  <2>5. \A j \in 1 .. Len(y.hits) : j \in 1 .. Len(hits) \/ j > Len(hits)
    BY <1>24, <2>3
  <2>6. \A m \in heard'.strikes : m \in {y.hits[j].strike : j \in 1 .. Len(y.hits)}
    BY <1>29, <1>36, <1>38, <2>2, <2>4
  <2>7. \A j \in 1 .. Len(y.hits) : y.hits[j].strike \in heard'.strikes
    <3> SUFFICES ASSUME NEW j \in 1 .. Len(y.hits) PROVE y.hits[j].strike \in heard'.strikes
      OBVIOUS
    <3>1. CASE j \in 1 .. Len(hits)
      BY <1>36, <2>2, <2>4, <3>1
    <3>2. CASE j > Len(hits)
      BY <1>29, <1>36, <3>2
    <3> QED
      BY <2>5, <3>1, <3>2
  <2> QED
    BY <2>1, <2>6, <2>7
<1>39. HitsFit(hits', session'.recent, M, stick.boot, base)
  BY <1>11, <1>28, <1>29, <1>32
<1> HIDE DEF Played, Good
<1> QED
  BY <1>32, <1>33, <1>36, <1>37, <1>38, <1>39, Zenon DEF HeardFits

\* A burst makes a packet.
LEMMA PacketFits ==
  ASSUME NEW boot, NEW s, Burst(s, boot), s # <<>>
  PROVE  PacketOf(s) \in Packets /\ PacketOf(s).strikes = s
<1>1. s \in Seq(Messages) /\ DOMAIN s = 1 .. Len(s) /\ Len(s) \in Nat /\ 1 \in 1 .. Len(s)
  BY DEF Burst
<1>2. Lows \in Nat \ {0} /\ Highs \in Nat \ {0}
  BY StickAssumption DEF StickAssumption
<1>3. \A i \in 1 .. Len(s) : s[i].t \in Nat
  <2>1. \A i \in 1 .. Len(s) : s[i] \in Messages
    BY <1>1
  <2> QED
    BY <2>1 DEF Messages
<1>4. \A i \in 1 .. Len(s) : s[i].t % Lows \in Nat
  BY <1>2, <1>3
<1>5. (s[1].t \div Lows) % Highs \in Nat
  <2>1. PICK t \in Nat : t = s[1].t
    BY <1>1, <1>3
  <2>2. (t \div Lows) % Highs \in 0 .. Highs - 1
    BY BitsAreClock
  <2>3. \A h \in 0 .. Highs - 1 : h \in Nat
    BY <1>2
  <2> QED
    BY <2>1, <2>2, <2>3, Zenon
<1>6. PICK lows : lows = [i \in DOMAIN s |-> s[i].t % Lows]
  OBVIOUS
<1>7. lows \in Seq(Nat)
  BY <1>1, <1>4, <1>6
<1>8. PICK high \in Nat : high = (s[1].t \div Lows) % Highs
  BY <1>5
<1>9. PacketOf(s) = [high |-> high, lows |-> lows, strikes |-> s]
  BY <1>6, <1>8, Zenon DEF PacketOf
<1> QED
  BY <1>1, <1>7, <1>9 DEF Packets

\* Of a packet of which no timestamp arrives nothing is heard.
LEMMA NothingFits ==
  ASSUME misled \in BOOLEAN, stick.boot \in Nat, session.connected, NEW M,
         HeardFits(session, hits, heard, M, stick.boot),
         NEW boot, NEW s, Burst(s, boot), s # <<>>, NEW repeats \in Nat,
         Ingest(PacketOf(s), 0, 0, repeats)
  PROVE  HeardFits(session', hits', heard', M, stick.boot)
<1> DEFINE d == DecodePacket(PacketOf(s), 0)
           after == IngestAll(SubSeq(s, 1, 0), d)
<1>1. session \in Sessions /\ heard \in Heards /\ hits \in Seq(Hits)
  BY DEF HeardFits, HitsFit
<1>2. PacketOf(s) \in Packets /\ PacketOf(s).strikes = s
  BY PacketFits
<1>3. d[0].last = session.last /\ d[0].wraps = session.wraps
  <2>1. 0 \in 0 .. Len(PacketOf(s).lows)
    BY <1>2 DEF Packets
  <2>2. d[0] = [high |-> PacketOf(s).high, low |-> Unheard, last |-> session.last, wraps |-> session.wraps]
    BY <1>1, <1>2, <2>1, DecodePacketSteps, Zenon
  <2> QED
    BY <2>2
<1>4. SubSeq(s, 1, 0) \in Seq(Messages) /\ Len(SubSeq(s, 1, 0)) = 0 /\ ToSet(SubSeq(s, 1, 0)) = {}
  <2>1. s \in Seq(Messages) /\ 0 \in 1 - 1 .. Len(s) /\ 1 \in 1 .. Len(s) + 1
    BY DEF Burst
  <2>2. SubSeq(s, 1, 0) \in Seq(Messages) /\ Len(SubSeq(s, 1, 0)) = 0
    BY <2>1, SubSeqProperties
  <2> QED
    BY <2>2 DEF ToSet
<1>5. after = [recent |-> session.recent, hits |-> hits]
  <2> HIDE DEF d
  <2>1. \A i \in 1 .. 0 : d[i].wraps * Wrap + d[i].last \in Nat
    OBVIOUS
  <2>2. IngestRuns(0, SubSeq(s, 1, 0), d)
    BY <1>1, <1>4, <2>1, IngestSteps, Zenon
  <2> QED
    BY <2>2 DEF IngestRuns
<1>6. /\ session' = [session EXCEPT !.last = d[0].last, !.wraps = d[0].wraps, !.recent = after.recent]
      /\ hits' = after.hits
      /\ heard' = [strikes |-> heard.strikes \cup {m \in ToSet(SubSeq(s, 1, 0)) : Plays(m)},
                   last |-> heard.last, replays |-> heard.replays + 0 * repeats]
  BY <1>2 DEF Ingest
<1> HIDE DEF d, after
<1>7. session' = session /\ hits' = hits /\ heard' = heard
  <2>1. session' = session
    BY <1>1, <1>3, <1>5, <1>6 DEF Sessions
  <2>2. heard.replays + 0 * repeats = heard.replays
    BY <1>1 DEF Heards
  <2>3. heard' = heard
    BY <1>1, <1>4, <1>6, <2>2 DEF Heards
  <2> QED
    BY <1>5, <1>6, <2>1, <2>3
<1> QED
  BY <1>7

\* A packet that is heard, wherever it ends, for the first time or again.
LEMMA ArrivingFits ==
  ASSUME misled \in BOOLEAN, stick.boot \in Nat, session.connected,
         NEW M, Apart(M), \A x \in M : x \in Messages /\ x.boot <= stick.boot,
         HeardFits(session, hits, heard, M, stick.boot),
         NEW boot \in 0 .. stick.boot, NEW s, Burst(s, boot), s # <<>>,
         NEW size, NEW read, Arrives(size, read, Len(s)),
         \A i \in 1 .. Len(s) : s[i] \in M, NEW repeats \in Nat,
         Ingest(PacketOf(s), size, read, repeats), ~misled'
  PROVE  HeardFits(session', hits', heard', M, stick.boot)
<1>1. Len(s) \in Nat /\ size \in 0 .. read /\ ((read = 0 /\ size = 0) \/ read \in 1 .. Len(s))
  BY DEF Arrives, Burst
<1>2. CASE read = 0 /\ size = 0
  BY <1>2, NothingFits
<1>3. CASE read \in 1 .. Len(s)
  BY <1>1, <1>3, IngestFits, ZenonT(30)
<1> QED
  BY <1>1, <1>2, <1>3

\* What was sent and what waits are messages of this boot or of an earlier one.
LEMMA MessagesFit ==
  ASSUME StickFits, AirFits
  PROVE  /\ \A x \in Sent \cup Waiting : x \in Messages /\ x.boot <= stick.boot
         /\ \A n \in 1 .. Len(air) : \A i \in 1 .. Len(air[n].strikes) : air[n].strikes[i] \in Sent
         /\ \A x \in Sent : \E n \in DOMAIN air : x \in ToSet(air[n].strikes)
<1>1. stick.boot \in Nat /\ stick.pending \in Seq(Messages) /\ air \in Seq(Packets) /\ DOMAIN air = 1 .. Len(air)
  BY DEF StickFits, AirFits
<1>2. ASSUME NEW x \in Waiting PROVE x \in Messages /\ x.boot <= stick.boot
  <2>1. PICK i \in 1 .. Len(stick.pending) : x = stick.pending[i]
    BY <1>1 DEF Waiting, ToSet
  <2>2. x.boot = stick.boot
    BY <2>1 DEF StickFits, Burst
  <2> QED
    BY <1>1, <2>1, <2>2
<1>3. \A n \in 1 .. Len(air) : air[n].strikes \in Seq(Messages) /\ DOMAIN air[n].strikes = 1 .. Len(air[n].strikes)
  <2>1. \A n \in 1 .. Len(air) : air[n] \in Packets
    BY <1>1
  <2>2. \A packet \in Packets : packet.strikes \in Seq(Messages)
    BY DEF Packets
  <2> QED
    BY <2>1, <2>2
<1>4. \A x \in Sent : \E n \in DOMAIN air : x \in ToSet(air[n].strikes)
  BY DEF Sent
<1>5. ASSUME NEW x \in Sent PROVE x \in Messages /\ x.boot <= stick.boot
  <2>1. PICK n \in 1 .. Len(air) : x \in ToSet(air[n].strikes)
    BY <1>1, <1>4
  <2>2. PICK boot \in 0 .. stick.boot : Burst(air[n].strikes, boot)
    BY DEF AirFits
  <2>3. PICK i \in 1 .. Len(air[n].strikes) : x = air[n].strikes[i]
    BY <1>3, <2>1 DEF ToSet
  <2>4. x.boot = boot
    BY <2>2, <2>3 DEF Burst
  <2>5. x \in Messages
    BY <1>3, <2>3
  <2> QED
    BY <1>1, <2>4, <2>5
<1>6. \A n \in 1 .. Len(air) : \A i \in 1 .. Len(air[n].strikes) : air[n].strikes[i] \in Sent
  <2> SUFFICES ASSUME NEW n \in 1 .. Len(air), NEW i \in 1 .. Len(air[n].strikes)
               PROVE  air[n].strikes[i] \in Sent
    OBVIOUS
  <2>1. air[n].strikes[i] \in ToSet(air[n].strikes)
    BY <1>3, Zenon DEF ToSet
  <2> QED
    BY <1>1, <2>1, Zenon DEF Sent
<1> QED
  BY <1>2, <1>4, <1>5, <1>6

\* With more messages sent, what was heard still fits.
LEMMA HeardAmongMore ==
  ASSUME NEW M, NEW N, M \subseteq N, NEW boot, HeardFits(session, hits, heard, M, boot)
  PROVE  HeardFits(session, hits, heard, N, boot)
<1>1. PICK base \in Bases : HitsFit(hits, session.recent, M, boot, base) /\ ClockFits(session, heard.last, base[boot])
  BY DEF HeardFits
<1>2. HitsFit(hits, session.recent, N, boot, base)
  <2>1. \A i \in 1 .. Len(hits) : hits[i].strike \in N
    BY <1>1 DEF HitsFit
  <2> QED
    BY <1>1, <2>1, Zenon DEF HitsFit
<1> QED
  BY <1>1, <1>2, Zenon DEF HeardFits

LEMMA StickStarts ==
  ASSUME StickInit
  PROVE  StickInv
<1>1. /\ stick = [now |-> 0, boot |-> 0, pending |-> <<>>] /\ air = <<>> /\ hits = <<>> /\ misled = FALSE
      /\ session = [connected |-> FALSE, reconnects |-> 0, last |-> Unheard, wraps |-> 0, recent |-> <<>>]
      /\ heard = [strikes |-> {}, last |-> Unheard, replays |-> 0]
  BY DEF StickInit
<1>2. Wrap \in Nat \ {0} /\ Window \in Nat \ {0}
  BY BitsAreClock, StickAssumption DEF StickAssumption
<1>3. Sent \cup Waiting = {}
  BY <1>1 DEF Sent, Waiting, ToSet
<1>4. StickFits /\ AirFits
  <2>1. stick \in [now : Nat, boot : Nat, pending : Seq(Messages)] /\ stick.pending = <<>> /\ Len(stick.pending) = 0
    BY <1>1
  <2>2. Burst(stick.pending, stick.boot)
    BY <2>1 DEF Burst
  <2>3. air \in Seq(Packets) /\ Len(air) = 0
    BY <1>1
  <2> QED
    BY <2>1, <2>2, <2>3 DEF StickFits, AirFits
<1>5. HeardFits(session, hits, heard, Sent, stick.boot)
  <2> DEFINE base == [boot \in Nat |-> 0]
  <2>1. base \in Bases
    <3>1. 0 = 0 * Wrap
      BY <1>2
    <3>2. \A boot \in Nat : base[boot] = 0 /\ 0 \in Nat
      OBVIOUS
    <3>3. base \in [Nat -> Nat]
      OBVIOUS
    <3> HIDE DEF base
    <3> QED
      BY <3>1, <3>2, <3>3 DEF Bases
  <2> HIDE DEF base
  <2>2. Len(hits) = 0 /\ hits \in Seq(Hits) /\ session.recent = <<>> /\ Len(session.recent) = 0
        /\ session.recent \in Seq(Nat) /\ stick.boot = 0
    BY <1>1
  <2>3. HitsFit(hits, session.recent, Sent, stick.boot, base)
    BY <1>2, <2>2 DEF HitsFit
  <2>4. session \in Sessions /\ heard \in Heards /\ ~session.connected /\ session.wraps = 0 /\ heard.strikes = {}
    BY <1>1 DEF Sessions, Heards
  <2>5. ClockFits(session, heard.last, base[stick.boot])
    BY <2>4 DEF ClockFits
  <2> QED
    BY <2>1, <2>2, <2>3, <2>4, <2>5 DEF HeardFits
<1> QED
  BY <1>1, <1>3, <1>4, <1>5 DEF StickInv, Apart

LEMMA TickKeepsStick ==
  ASSUME StickInv, ~misled, StickTick
  PROVE  StickInv'
<1>1. StickFits /\ AirFits /\ Apart(Sent \cup Waiting) /\ HeardFits(session, hits, heard, Sent, stick.boot)
  BY DEF StickInv
<1>2. /\ UNCHANGED <<air, session, hits, heard, misled>> /\ stick' = [stick EXCEPT !.now = @ + 1]
  BY DEF StickTick
<1>3. /\ stick.now \in Nat /\ stick.boot \in Nat /\ stick.pending \in Seq(Messages)
      /\ stick' \in [now : Nat, boot : Nat, pending : Seq(Messages)]
      /\ stick'.now = stick.now + 1 /\ stick'.boot = stick.boot /\ stick'.pending = stick.pending
  BY <1>1, <1>2 DEF StickFits
<1>4. StickFits'
  <2>1. \A i \in 1 .. Len(stick.pending) : stick.pending[i].t <= stick.now + 1
    <3>1. \A i \in 1 .. Len(stick.pending) : stick.pending[i] \in Messages
      BY <1>3
    <3>2. \A m \in Messages : m.t \in Nat
      BY DEF Messages
    <3> QED
      BY <1>1, <1>3, <3>1, <3>2 DEF StickFits
  <2> QED
    BY <1>1, <1>3, <2>1 DEF StickFits
<1>5. AirFits' /\ Sent' = Sent /\ Waiting' = Waiting
  BY <1>1, <1>2, <1>3 DEF AirFits, Sent, Waiting
<1> QED
  BY <1>1, <1>2, <1>3, <1>4, <1>5 DEF StickInv

LEMMA HeadKeepsStick ==
  ASSUME StickInv, ~misled, StrikeHead
  PROVE  StickInv'
<1>1. StickFits /\ AirFits /\ Apart(Sent \cup Waiting) /\ HeardFits(session, hits, heard, Sent, stick.boot)
  BY DEF StickInv
<1>2. PICK note \in NoteKinds :
        stick' = [stick EXCEPT !.pending = Append(@, [t |-> stick.now, boot |-> stick.boot, kind |-> note])]
  BY DEF StrikeHead
<1>3. UNCHANGED <<air, session, hits, heard, misled>>
  BY DEF StrikeHead
<1>4. PICK m : m = [t |-> stick.now, boot |-> stick.boot, kind |-> note]
  OBVIOUS
<1>5. /\ stick.now \in Nat /\ stick.boot \in Nat /\ stick.pending \in Seq(Messages)
      /\ stick \in [now : Nat, boot : Nat, pending : Seq(Messages)]
  BY <1>1 DEF StickFits
<1>6. m \in Messages /\ m.t = stick.now /\ m.boot = stick.boot
  BY <1>4, <1>5 DEF Messages
<1>7. PICK old \in Seq(Messages) : old = stick.pending
  BY <1>5
<1>8. PICK n \in Nat : n = Len(old)
  OBVIOUS
<1>9. PICK new \in Seq(Messages) : new = Append(old, m)
  <2>1. Append(old, m) \in Seq(Messages)
    BY <1>6, AppendProperties, Zenon
  <2> QED
    BY <2>1, Zenon
<1>10. Len(new) = n + 1 /\ new[n + 1] = m /\ \A i \in 1 .. n : new[i] = old[i]
  BY <1>6, <1>8, <1>9
<1>11. /\ stick' \in [now : Nat, boot : Nat, pending : Seq(Messages)]
       /\ stick'.now = stick.now /\ stick'.boot = stick.boot /\ stick'.pending = new
  <2>1. stick' = [stick EXCEPT !.pending = new]
    BY <1>2, <1>4, <1>7, <1>9
  <2> QED
    BY <1>5, <2>1
<1>12. \A i \in 1 .. n : /\ old[i] \in Messages /\ old[i].t \in Nat /\ old[i].boot = stick.boot
                         /\ old[i].t < stick.now /\ stick.now - old[i].t < Lows
  <2> SUFFICES ASSUME NEW i \in 1 .. n
               PROVE  /\ old[i] \in Messages /\ old[i].t \in Nat /\ old[i].boot = stick.boot
                      /\ old[i].t < stick.now /\ stick.now - old[i].t < Lows
    OBVIOUS
  <2>1. old[i] \in Messages /\ old[i].boot = stick.boot /\ old[i].t <= stick.now
    BY <1>1, <1>7, <1>8 DEF StickFits, Burst
  <2>2. old[i] \in ToSet(stick.pending)
    BY <1>7, <1>8 DEF ToSet
  <2>3. stick.now # old[i].t /\ stick.now - old[i].t < Lows
    BY <2>2 DEF StrikeHead
  <2>4. old[i].t \in Nat
    BY <2>1 DEF Messages
  <2> QED
    BY <1>5, <2>1, <2>3, <2>4
<1>13. \A i \in 1 .. n + 1 : i = n + 1 \/ i \in 1 .. n
  OBVIOUS
<1>14. Lows \in Nat \ {0}
  BY StickAssumption DEF StickAssumption
<1>15. Burst(new, stick.boot)
  <2>1. \A i \in 1 .. n + 1 : new[i].boot = stick.boot
    BY <1>6, <1>10, <1>12, <1>13
  <2>2. ASSUME NEW i \in 1 .. n + 1, NEW j \in 1 .. n + 1
        PROVE  new[j].t - new[i].t < Lows /\ (i < j => new[i].t < new[j].t)
    <3>1. CASE i \in 1 .. n /\ j \in 1 .. n
      <4>1. old[j].t - old[i].t < Lows /\ (i < j => old[i].t < old[j].t)
        BY <1>1, <1>7, <1>8, <3>1 DEF StickFits, Burst
      <4> QED
        BY <1>10, <3>1, <4>1
    <3>2. CASE i \in 1 .. n /\ j = n + 1
      BY <1>6, <1>10, <1>12, <3>2
    <3>3. CASE i = n + 1 /\ j \in 1 .. n
      <4>1. new[i].t = stick.now /\ new[j].t \in Nat /\ new[j].t < stick.now /\ ~(i < j)
        BY <1>6, <1>10, <1>12, <3>3
      <4> QED
        BY <1>5, <1>14, <4>1, SMTT(30)
    <3>4. CASE i = n + 1 /\ j = n + 1
      <4>1. new[i].t = stick.now /\ new[j].t = stick.now /\ ~(i < j)
        BY <1>6, <1>10, <3>4
      <4> QED
        BY <1>5, <1>14, <4>1
    <3> QED
      BY <1>13, <3>1, <3>2, <3>3, <3>4
  <2> QED
    BY <1>10, <2>1, <2>2 DEF Burst
<1>16. StickFits'
  <2>1. \A i \in 1 .. n + 1 : new[i].t <= stick.now
    BY <1>5, <1>6, <1>10, <1>12, <1>13
  <2> QED
    BY <1>10, <1>11, <1>15, <2>1 DEF StickFits
<1>17. AirFits' /\ Sent' = Sent
  BY <1>1, <1>3, <1>11 DEF AirFits, Sent
<1>18. Waiting' \subseteq Waiting \cup {m}
  <2>1. \A i \in 1 .. n : old[i] \in Waiting
    BY <1>7, <1>8 DEF Waiting, ToSet
  <2>2. \A x \in Waiting' : \E i \in 1 .. n + 1 : x = new[i]
    BY <1>10, <1>11 DEF Waiting, ToSet
  <2> QED
    BY <1>10, <1>13, <2>1, <2>2
<1>19. ASSUME NEW x \in Sent \cup Waiting, x.t = m.t, x.boot = m.boot PROVE FALSE
  <2>1. CASE x \in Waiting
    <3>1. x \in ToSet(stick.pending)
      BY <2>1 DEF Waiting
    <3> QED
      BY <1>6, <1>19, <3>1 DEF StrikeHead
  <2>2. CASE x \in Sent
    <3>1. PICK k \in DOMAIN air : x \in ToSet(air[k].strikes)
      BY <1>1, <2>2, MessagesFit
    <3> QED
      BY <1>6, <1>19, <3>1 DEF StrikeHead
  <2> QED
    BY <2>1, <2>2
<1>20. Apart(Sent' \cup Waiting')
  <2> SUFFICES ASSUME NEW x \in Sent \cup Waiting \cup {m}, NEW y \in Sent \cup Waiting \cup {m},
                      x.t = y.t, x.boot = y.boot
               PROVE  x = y
    BY <1>17, <1>18 DEF Apart
  <2> QED
    BY <1>1, <1>19 DEF Apart
<1> QED
  BY <1>1, <1>3, <1>11, <1>16, <1>17, <1>20 DEF StickInv

LEMMA NotifyKeepsStick ==
  ASSUME StickInv, ~misled, NEW size, NEW read, Notify(size, read)
  PROVE  StickInv'
<1>1. StickFits /\ AirFits /\ Apart(Sent \cup Waiting) /\ HeardFits(session, hits, heard, Sent, stick.boot)
  BY DEF StickInv
<1>2. PICK s : s = stick.pending
  OBVIOUS
<1>3. /\ air' = Append(air, PacketOf(s)) /\ stick' = [stick EXCEPT !.pending = <<>>]
      /\ Ingest(PacketOf(s), size, read, 0) /\ s # <<>> /\ Arrives(size, read, Len(s))
  BY <1>2, Zenon DEF Notify, PacketOf
<1>4. /\ stick.now \in Nat /\ stick.boot \in Nat /\ Burst(s, stick.boot) /\ s \in Seq(Messages)
      /\ stick \in [now : Nat, boot : Nat, pending : Seq(Messages)] /\ s # <<>>
  BY <1>1, <1>2, <1>3 DEF StickFits
<1>5. PICK packet \in Packets : packet = PacketOf(s) /\ packet.strikes = s
  BY <1>4, PacketFits
<1>6. /\ stick' \in [now : Nat, boot : Nat, pending : Seq(Messages)]
      /\ stick'.boot = stick.boot /\ stick'.pending = <<>>
  <2>1. /\ stick'.now = stick.now /\ stick'.boot = stick.boot /\ stick'.pending = <<>>
        /\ stick' = [now |-> stick'.now, boot |-> stick'.boot, pending |-> stick'.pending]
    BY <1>3, <1>4
  <2>2. stick'.pending \in Seq(Messages)
    BY <2>1
  <2> QED
    BY <1>4, <2>1, <2>2
<1>7. StickFits'
  <2>1. Len(stick'.pending) = 0 /\ stick'.pending \in Seq(Messages)
    BY <1>6
  <2>2. Burst(stick'.pending, stick'.boot)
    BY <2>1 DEF Burst
  <2> QED
    BY <1>6, <2>1, <2>2 DEF StickFits
<1>8. /\ air' \in Seq(Packets) /\ Len(air') = Len(air) + 1 /\ Len(air) \in Nat
      /\ air'[Len(air) + 1] = packet /\ \A n \in 1 .. Len(air) : air'[n] = air[n]
  <2>1. air \in Seq(Packets)
    BY <1>1 DEF AirFits
  <2> QED
    BY <1>3, <1>5, <2>1
<1>9. \A n \in 1 .. Len(air) + 1 : n = Len(air) + 1 \/ n \in 1 .. Len(air)
  BY <1>8
<1>10. AirFits'
  <2>1. ASSUME NEW n \in 1 .. Len(air) + 1
        PROVE  /\ air'[n].strikes # <<>> /\ air'[n] = PacketOf(air'[n].strikes)
               /\ \E boot \in 0 .. stick.boot : Burst(air'[n].strikes, boot)
    <3>1. CASE n = Len(air) + 1
      <4>1. stick.boot \in 0 .. stick.boot
        BY <1>4
      <4> QED
        BY <1>4, <1>5, <1>8, <3>1, <4>1
    <3>2. CASE n \in 1 .. Len(air)
      BY <1>1, <1>8, <3>2 DEF AirFits
    <3> QED
      BY <1>9, <3>1, <3>2
  <2> QED
    BY <1>6, <1>8, <2>1 DEF AirFits
<1>11. Sent' = Sent \cup Waiting /\ Waiting' = {}
  <2>1. Waiting' = {}
    BY <1>6 DEF Waiting, ToSet
  <2>2. DOMAIN air = 1 .. Len(air) /\ DOMAIN air' = 1 .. Len(air) + 1
    BY <1>1, <1>8 DEF AirFits
  <2>3. Waiting = ToSet(packet.strikes)
    BY <1>2, <1>5 DEF Waiting
  <2>4. ASSUME NEW x \in Sent' PROVE x \in Sent \cup Waiting
    <3>1. PICK n \in 1 .. Len(air) + 1 : x \in ToSet(air'[n].strikes)
      BY <2>2 DEF Sent
    <3>2. CASE n = Len(air) + 1
      BY <1>8, <2>3, <3>1, <3>2
    <3>3. CASE n \in 1 .. Len(air)
      BY <1>8, <2>2, <3>1, <3>3 DEF Sent
    <3> QED
      BY <1>9, <3>2, <3>3
  <2>5. ASSUME NEW x \in Sent PROVE x \in Sent'
    <3>1. PICK n \in 1 .. Len(air) : x \in ToSet(air[n].strikes)
      BY <2>2 DEF Sent
    <3>2. n \in 1 .. Len(air) + 1 /\ air'[n] = air[n]
      BY <1>8
    <3> QED
      BY <2>2, <3>1, <3>2 DEF Sent
  <2>6. ASSUME NEW x \in Waiting PROVE x \in Sent'
    <3>1. Len(air) + 1 \in 1 .. Len(air) + 1
      BY <1>8
    <3> QED
      BY <1>8, <2>2, <2>3, <2>6, <3>1 DEF Sent
  <2> QED
    BY <2>1, <2>4, <2>5, <2>6
<1>12. Apart(Sent' \cup Waiting')
  BY <1>1, <1>11 DEF Apart
<1>13. HeardFits(session, hits, heard, Sent \cup Waiting, stick.boot)
  BY <1>1, HeardAmongMore
<1>14. CASE session.connected
  <2>1. misled' \in BOOLEAN
    BY <1>3, <1>14, Zenon DEF Ingest
  <2>2. ASSUME ~misled' PROVE HeardFits(session', hits', heard', Sent \cup Waiting, stick.boot)
    <3>1. \A i \in 1 .. Len(s) : s[i] \in Sent \cup Waiting
      BY <1>2, <1>4 DEF Waiting, ToSet
    <3>2. stick.boot \in 0 .. stick.boot /\ 0 \in Nat
      BY <1>4
    <3>3. PICK M : M = Sent \cup Waiting
      OBVIOUS
    <3>4. \A x \in M : x \in Messages /\ x.boot <= stick.boot
      BY <1>1, <3>3, MessagesFit
    <3>5. misled \in BOOLEAN
      BY DEF StickInv
    <3>6. Apart(M) /\ HeardFits(session, hits, heard, M, stick.boot) /\ \A i \in 1 .. Len(s) : s[i] \in M
      BY <1>1, <1>13, <3>1, <3>3
    <3>7. HeardFits(session', hits', heard', M, stick.boot)
      BY <1>3, <1>4, <1>14, <2>2, <3>2, <3>4, <3>5, <3>6, ArrivingFits, Zenon
    <3> QED
      BY <3>3, <3>7
  <2> QED
    BY <1>6, <1>7, <1>10, <1>11, <1>12, <2>1, <2>2 DEF StickInv
<1>15. CASE ~session.connected
  <2>1. UNCHANGED <<session, hits, heard, misled>>
    BY <1>3, <1>15 DEF Ingest
  <2> QED
    BY <1>6, <1>7, <1>10, <1>11, <1>12, <1>13, <2>1 DEF StickInv
<1> QED
  BY <1>14, <1>15

LEMMA ReplayKeepsStick ==
  ASSUME StickInv, ~misled, NEW n \in DOMAIN air, NEW size, NEW read, Replay(n, size, read)
  PROVE  StickInv'
<1>1. StickFits /\ AirFits /\ Apart(Sent \cup Waiting) /\ HeardFits(session, hits, heard, Sent, stick.boot)
  BY DEF StickInv
<1>2. /\ session.connected /\ UNCHANGED <<stick, air>> /\ Ingest(air[n], size, read, 1)
      /\ Arrives(size, read, Len(air[n].strikes))
  BY DEF Replay
<1>3. n \in 1 .. Len(air) /\ stick.boot \in Nat
  BY <1>1 DEF AirFits, StickFits
<1>4. PICK s : s = air[n].strikes
  OBVIOUS
<1>5. s # <<>> /\ air[n] = PacketOf(s) /\ \E boot \in 0 .. stick.boot : Burst(s, boot)
  BY <1>1, <1>3, <1>4 DEF AirFits
<1>6. PICK boot \in 0 .. stick.boot : Burst(s, boot)
  BY <1>5
<1>7. Arrives(size, read, Len(s))
  BY <1>2, <1>4
<1>8. misled' \in BOOLEAN
  BY <1>2, Zenon DEF Ingest
<1>9. ASSUME ~misled' PROVE HeardFits(session', hits', heard', Sent, stick.boot)
  <2>1. \A i \in 1 .. Len(s) : s[i] \in Sent
    BY <1>1, <1>3, <1>4, MessagesFit
  <2>2. PICK M : M = Sent
    OBVIOUS
  <2>3. Apart(M) /\ \A x \in M : x \in Messages /\ x.boot <= stick.boot
    BY <1>1, <2>2, MessagesFit DEF Apart
  <2>4. HeardFits(session, hits, heard, M, stick.boot) /\ \A i \in 1 .. Len(s) : s[i] \in M
    BY <1>1, <2>1, <2>2
  <2>5. misled \in BOOLEAN /\ 1 \in Nat
    BY DEF StickInv
  <2>6. Ingest(PacketOf(s), size, read, 1)
    BY <1>2, <1>4, <1>5, Zenon
  <2>7. HeardFits(session', hits', heard', M, stick.boot)
    BY <1>2, <1>3, <1>5, <1>6, <1>7, <1>9, <2>3, <2>4, <2>5, <2>6, ArrivingFits, Zenon
  <2> QED
    BY <2>2, <2>7
<1>10. StickFits' /\ AirFits' /\ Sent' = Sent /\ Waiting' = Waiting /\ stick'.boot = stick.boot
  BY <1>1, <1>2 DEF StickFits, AirFits, Sent, Waiting
<1> QED
  BY <1>1, <1>8, <1>9, <1>10 DEF StickInv

LEMMA ConnectKeepsStick ==
  ASSUME StickInv, ~misled, StickConnect
  PROVE  StickInv'
<1>1. StickFits /\ AirFits /\ Apart(Sent \cup Waiting) /\ HeardFits(session, hits, heard, Sent, stick.boot)
  BY DEF StickInv
<1>2. /\ ~session.connected /\ UNCHANGED <<stick, air, hits, heard, misled>>
  BY DEF StickConnect
<1>3. session \in Sessions /\ heard \in Heards /\ \A i \in 1 .. Len(hits) : hits[i].link # stick.boot
  BY <1>1, <1>2 DEF HeardFits
<1>4. PICK count \in Nat :
        session' = [session EXCEPT !.connected = TRUE, !.last = Unheard, !.wraps = 0, !.reconnects = count]
  <2>1. session.reconnects \in Nat
    BY <1>3 DEF Sessions
  <2>2. PICK count \in Nat : count = IF hits # <<>> \/ session.reconnects > 0 THEN session.reconnects + 1
                                     ELSE session.reconnects
    BY <2>1
  <2> QED
    BY <2>2 DEF StickConnect
<1>5. /\ session' \in Sessions /\ session'.connected /\ session'.last = Unheard /\ session'.wraps = 0
      /\ session'.recent = session.recent
  BY <1>3, <1>4 DEF Sessions
<1>6. PICK base \in Bases : HitsFit(hits, session.recent, Sent, stick.boot, base)
  BY <1>1 DEF HeardFits
<1>7. ClockFits(session', heard.last, base[stick.boot])
  BY <1>5 DEF ClockFits
<1>8. HeardFits(session', hits, heard, Sent, stick.boot)
  BY <1>1, <1>3, <1>5, <1>6, <1>7 DEF HeardFits
<1>9. StickFits' /\ AirFits' /\ Sent' = Sent /\ Waiting' = Waiting
  BY <1>1, <1>2 DEF StickFits, AirFits, Sent, Waiting
<1> QED
  BY <1>1, <1>2, <1>8, <1>9 DEF StickInv

LEMMA DisconnectKeepsStick ==
  ASSUME StickInv, ~misled, StickDisconnect
  PROVE  StickInv'
<1>1. StickFits /\ AirFits /\ Apart(Sent \cup Waiting) /\ HeardFits(session, hits, heard, Sent, stick.boot)
  BY DEF StickInv
<1>2. /\ session' = [session EXCEPT !.connected = FALSE] /\ UNCHANGED <<air, hits, heard, misled>>
      /\ stick' = [now |-> 0, boot |-> stick.boot + 1, pending |-> <<>>]
  BY DEF StickDisconnect
<1>3. session \in Sessions /\ heard \in Heards /\ stick.boot \in Nat
  BY <1>1 DEF HeardFits, StickFits
<1>4. PICK boot \in Nat : boot = stick.boot + 1 /\ boot # 0
  BY <1>3
<1>5. stick'.boot = boot /\ stick'.pending = <<>> /\ stick' \in [now : Nat, boot : Nat, pending : Seq(Messages)]
  BY <1>2, <1>4
<1>6. StickFits'
  <2>1. Len(stick'.pending) = 0 /\ stick'.pending \in Seq(Messages)
    BY <1>5
  <2>2. Burst(stick'.pending, stick'.boot)
    BY <2>1 DEF Burst
  <2> QED
    BY <1>5, <2>1, <2>2 DEF StickFits
<1>7. AirFits'
  <2>1. \A b \in 0 .. stick.boot : b \in 0 .. boot
    BY <1>3, <1>4
  <2>2. \A n \in 1 .. Len(air) : \E b \in 0 .. boot : Burst(air[n].strikes, b)
    BY <1>1, <2>1 DEF AirFits
  <2> QED
    BY <1>1, <1>2, <1>5, <2>2 DEF AirFits
<1>8. Sent' = Sent /\ Waiting' = {}
  BY <1>2, <1>5 DEF Sent, Waiting, ToSet
<1>9. Apart(Sent' \cup Waiting')
  BY <1>1, <1>8 DEF Apart
<1>10. /\ session' \in Sessions /\ ~session'.connected /\ session'.last = session.last
       /\ session'.wraps = session.wraps /\ session'.recent = session.recent
  BY <1>2, <1>3 DEF Sessions
<1>11. PICK base \in Bases : /\ HitsFit(hits, session.recent, Sent, stick.boot, base)
                             /\ ClockFits(session, heard.last, base[stick.boot])
  BY <1>1 DEF HeardFits
<1>12. ClockFits(session', heard.last, base[boot])
  BY <1>10, <1>11 DEF ClockFits
<1>13. \A i \in 1 .. Len(hits) : hits[i].link <= boot /\ hits[i].link # boot
  <2> SUFFICES ASSUME NEW i \in 1 .. Len(hits) PROVE hits[i].link <= boot /\ hits[i].link # boot
    OBVIOUS
  <2>1. hits[i] \in Hits /\ hits[i].link <= stick.boot
    BY <1>11 DEF HitsFit
  <2>2. hits[i].link \in Nat
    BY <2>1 DEF Hits
  <2> QED
    BY <1>3, <1>4, <2>1, <2>2
<1>14. HitsFit(hits, session.recent, Sent, boot, base)
  BY <1>11, <1>13, Zenon DEF HitsFit
<1>15. HeardFits(session', hits, heard, Sent, boot)
  BY <1>3, <1>4, <1>10, <1>12, <1>13, <1>14 DEF HeardFits
<1> QED
  BY <1>1, <1>2, <1>5, <1>6, <1>7, <1>8, <1>9, <1>15 DEF StickInv

LEMMA StickStepKeeps ==
  ASSUME StickInv, [StickNext]_stickVars
  PROVE  StickInv'
<1>1. CASE StickNext
  <2>1. ~misled
    BY <1>1 DEF StickNext
  <2> QED
    BY <1>1, <2>1, TickKeepsStick, HeadKeepsStick, ConnectKeepsStick, DisconnectKeepsStick, NotifyKeepsStick,
       ReplayKeepsStick, Zenon DEF StickNext
<1>2. CASE UNCHANGED stickVars
  BY <1>2 DEF stickVars, StickInv, StickFits, AirFits, Sent, Waiting
<1> QED
  BY <1>1, <1>2

LEMMA FitsIsOnce ==
  ASSUME StickInv
  PROVE  StrikesOnce
<1> SUFFICES ASSUME ~misled PROVE StrikesOnce
  BY DEF StrikesOnce
<1>1. stick.boot \in Nat /\ HeardFits(session, hits, heard, Sent, stick.boot)
  BY DEF StickInv, StickFits
<1>2. PICK base \in Bases : HitsFit(hits, session.recent, Sent, stick.boot, base)
  BY <1>1 DEF HeardFits
<1>3. hits \in Seq(Hits) /\ DOMAIN hits = 1 .. Len(hits)
  BY <1>2 DEF HitsFit
<1>4. \A i \in 1 .. Len(hits) : hits[i].time \in Nat /\ base[hits[i].link] \in Nat
  <2>1. \A i \in 1 .. Len(hits) : hits[i] \in Hits
    BY <1>3
  <2>2. \A h \in Hits : h.time \in Nat /\ h.link \in Nat
    BY DEF Hits
  <2> QED
    BY <2>1, <2>2, FirstPeriod
<1>5. ASSUME NEW i \in 1 .. Len(hits), NEW j \in 1 .. Len(hits)
      PROVE  /\ Plays(hits[i].strike)
             /\ hits[i].strike = hits[j].strike => i = j
             /\ hits[i].link = hits[j].link =>
                  hits[i].time - hits[j].time = hits[i].strike.t - hits[j].strike.t
  <2>1. Plays(hits[i].strike) /\ (hits[i].strike = hits[j].strike => i = j)
    BY <1>2 DEF HitsFit
  <2>2. /\ hits[i].strike.t = base[hits[i].link] + hits[i].time
        /\ hits[j].strike.t = base[hits[j].link] + hits[j].time
    BY <1>2 DEF HitsFit
  <2> QED
    BY <1>4, <2>1, <2>2
<1>6. stick.boot = 0 => heard.strikes = {hits[i].strike : i \in DOMAIN hits}
  BY <1>1, <1>3 DEF HeardFits
<1> QED
  BY <1>3, <1>5, <1>6, Zenon DEF StrikesOnce

\* A strike is emitted once, at its time, however the stick's clock wraps around or starts again and wherever a
\* packet ends, after a timestamp whose message is lost included - until the session is misled: by a pause of half
\* the clock, by a packet sent again that the window has forgotten, or by one that goes back across a wrap
\* (BleMidiStickSession.ingest, BleMidiPacketDecoder.decode).
THEOREM StrikesAlwaysOnce == StickSpec => []StrikesOnce
<1>1. StickInit => StickInv
  BY StickStarts
<1>2. StickInv /\ [StickNext]_stickVars => StickInv'
  BY StickStepKeeps
<1>3. StickInv => StrikesOnce
  BY FitsIsOnce
<1> QED
  BY <1>1, <1>2, <1>3, PTL DEF StickSpec
=============================================================================
