---------------------------- MODULE ViewerProofs ----------------------------
(***************************************************************************)
(* Proofs about the showing side: the viewer's rooms, the settings and     *)
(* links of the pages, the desktop shell, the datasets, the expression     *)
(* maps, the replay page and the wire formats.  Each section proves, for   *)
(* every value of its component's constants, what viewer.cfg checks on     *)
(* small instances.                                                        *)
(***************************************************************************)
EXTENDS ViewerRooms, DesktopShell, PageSettings, Datasets, ExpressionMaps, ReplayPage, WireFormats,
        FiniteSetTheorems, SequenceTheorems, TLAPS

-----------------------------------------------------------------------------
(***************************************************************************)
(* The viewer's rooms, bodies and poses, for any participants, any number of *)
(* loads and any (even) modulus of the frame counter.                      *)
(*                                                                         *)
(* Three invariants, each resting on the one before:                       *)
(*   OwnedInv  every participant in the room has the runtime of its present *)
(*             stay (RoomSettled), and the scene is made of what the page and *)
(*             these runtimes own (SceneMatches);                          *)
(*   ShownInv  what stands for the first participant is one body at most   *)
(*             (Dressed);                                                  *)
(*   PoseInv   what an avatar shows and what its gate compares with are one *)
(*             frame, and frames on the way carry the numbers their trackers *)
(*             gave them (Poses, FramesNumbered).                          *)
(*                                                                         *)
(* A page is a record of sixteen fields, and a handler a chain of updates of *)
(* it.  A lemma per helper says what it does to the fields (Except, Shrinks, *)
(* Joins, Installs), a lemma per handler composes these, and a lemma per   *)
(* action ends in the invariant.                                           *)
(***************************************************************************)

---------------------------------------------------------------------------
(* Induction, without an operator as a parameter: a set of naturals has a  *)
(* least member, and a finite one a greatest.                              *)

\* A set of naturals has a least member: no member of the set of intervals 0 .. n is
\* minimal otherwise.
LEMMA LeastNatural ==
  ASSUME NEW T \in SUBSET Nat, T # {}
  PROVE  \E n \in T : \A m \in T : n <= m
<1> DEFINE Below == {0 .. n : n \in T}
<1>1. Below \subseteq FiniteSubsetsOf(Nat) /\ Below # {}
  <2>1. ASSUME NEW n \in T PROVE 0 .. n \in FiniteSubsetsOf(Nat)
    <3>1. IsFiniteSet(0 .. n)
      BY FS_Interval
    <3> QED
      BY <3>1 DEF FiniteSubsetsOf
  <2> QED
    BY <2>1
<1>2. PICK X \in Below : \A Y \in Below : <<Y, X>> \notin StrictSubsetOrdering(Nat)
  <2> HIDE DEF Below
  <2> QED BY <1>1, FS_StrictSubsetOrderingWellFounded, WFMin
<1>3. PICK n \in T : X = 0 .. n
  OBVIOUS
<1>4. ASSUME NEW m \in T, m < n PROVE FALSE
  <2>1. 0 .. m \in Below /\ 0 .. m \subseteq X /\ n \in X /\ n \notin 0 .. m
    BY <1>3, <1>4
  <2> QED
    BY <1>1, <1>2, <2>1 DEF StrictSubsetOrdering, FiniteSubsetsOf
<1> QED
  BY <1>4

\* What holds of 0, and of n + 1 where it holds of n, holds of every natural.
LEMMA SetInduction ==
  ASSUME NEW S, 0 \in S, \A n \in Nat : n \in S => n + 1 \in S
  PROVE  Nat \subseteq S
<1> SUFFICES ASSUME NEW k \in Nat, k \notin S PROVE FALSE
  OBVIOUS
<1>1. PICK n \in Nat \ S : \A m \in Nat \ S : n <= m
  BY LeastNatural
<1>2. n - 1 \in Nat /\ n - 1 \in S
  BY <1>1
<1> QED
  BY <1>1, <1>2

\* The selector falls back on a participant that is in the room.
LEMMA MinIsMember ==
  ASSUME NEW S \in SUBSET Nat, S # {}
  PROVE  Min(S) \in S
BY LeastNatural DEF Min

\* The loop over the expired participants has a last one.
LEMMA MaxIsMember ==
  ASSUME NEW S \in SUBSET Nat, S # {}, IsFiniteSet(S)
  PROVE  Max(S) \in S /\ \A y \in S : y <= Max(S)
<1> DEFINE Endless == {T \in SUBSET S : \A n \in Nat : \E y \in T : y > n}
<1>1. Endless = {}
  <2> SUFFICES ASSUME Endless # {} PROVE FALSE
    OBVIOUS
  <2>1. Endless \subseteq FiniteSubsetsOf(S)
    BY FS_FiniteSubsetsOfFinite
  <2>2. PICK T \in Endless : \A U \in Endless : <<U, T>> \notin StrictSubsetOrdering(S)
    <3> HIDE DEF Endless
    <3> QED BY <2>1, FS_StrictSubsetOrderingWellFounded, WFMin
  <2>3. PICK x \in T : TRUE
    BY <2>2
  <2>4. T \ {x} \notin Endless
    BY <2>2, <2>3 DEF StrictSubsetOrdering
  <2>5. PICK n \in Nat : \A y \in T \ {x} : ~(y > n)
    BY <2>4
  <2>6. \A y \in T : ~(y > n + x) /\ n + x \in Nat
    BY <2>3, <2>5
  <2> QED
    BY <2>3, <2>6
<1>2. PICK n \in Nat : \A y \in S : ~(y > n)
  BY <1>1
<1> DEFINE Bounds == {b \in Nat : \A y \in S : y <= b}
<1>3. PICK b \in Bounds : \A c \in Bounds : b <= c
  <2>1. n \in Bounds
    BY <1>2
  <2> QED
    BY <2>1, LeastNatural
<1>4. b \in S
  <2>1. CASE b = 0
    <3>1. PICK y \in S : TRUE
      OBVIOUS
    <3>2. y <= b /\ y \in Nat
      BY <1>3, <3>1
    <3> QED
      BY <2>1, <3>1, <3>2
  <2>2. CASE b # 0 /\ b \notin S
    <3>1. b - 1 \in Bounds
      BY <2>2, <1>3
    <3> QED
      BY <3>1, <1>3
  <2> QED
    BY <2>1, <2>2
<1> QED
  BY <1>3, <1>4 DEF Max

---------------------------------------------------------------------------
\* The fields of the page.
PageFields ==
  {"participants", "generations", "primaryId", "primaryHandle", "additional", "gate",
   "primaryShown", "botVisible", "vrm", "inochi", "modelVisible", "layered", "scene",
   "listed", "selected", "requested"}

\* x is pg but for some fields.
Except(x, pg, fields) ==
  DOMAIN x = PageFields /\ \A f \in PageFields \ fields : x[f] = pg[f]

\* What the room keeps of a participant, and what a runtime holds.
Entry == [generation : Nat \ {0}, age : Nat, avatar : Nat]
Body  == [made : Nat \ {0}, lastSeq : Seqs \cup {NoSeq}, vrm : Nat]

\* The shape of the page: what its fields may hold.
PageShape(pg) ==
  /\ DOMAIN pg = PageFields
  /\ pg.participants \in [Present(pg) -> Entry]
  /\ Present(pg) \subseteq Participants /\ IsFiniteSet(Present(pg))
  /\ pg.additional \in [DOMAIN pg.additional -> Body]
  /\ DOMAIN pg.additional \subseteq Participants
  /\ pg.generations \in [Participants -> Nat]
  /\ pg.primaryId \in Participants \cup {None} /\ pg.primaryHandle \in Nat
  /\ pg.gate \in Seqs \cup {NoSeq}
  /\ pg.listed \subseteq Participants /\ pg.selected \in Participants \cup {None}
  /\ pg.vrm \in Nat /\ pg.inochi \in Nat
  /\ pg.primaryShown \in BOOLEAN /\ pg.botVisible \in BOOLEAN
  /\ pg.modelVisible \in BOOLEAN /\ pg.layered \in BOOLEAN

\* Whoever is in the room has the runtime of its present stay, and nobody else has
\* one.
RoomSettled(pg) ==
  /\ pg.primaryId = None => Present(pg) = {}
  /\ DOMAIN pg.additional = Present(pg) \ {pg.primaryId}
  /\ (pg.primaryHandle # None) <=> (pg.primaryId \in Present(pg))
  /\ \A p \in Present(pg) :
       /\ pg.participants[p].avatar = pg.participants[p].generation
       /\ pg.participants[p].generation = pg.generations[p]
       /\ IF p = pg.primaryId THEN pg.primaryHandle = pg.participants[p].generation
          ELSE pg.additional[p].made = pg.participants[p].generation

\* x is pg without the participants in `gone`, but for the selector.
Shrinks(x, pg, gone) ==
  /\ Except(x, pg, {"participants", "additional", "scene", "vrm", "inochi", "botVisible",
                    "primaryShown", "gate", "primaryHandle", "listed", "selected"})
  /\ x.participants = [q \in Present(pg) \ gone |-> pg.participants[q]]
  /\ x.additional = [q \in DOMAIN pg.additional \ gone |-> pg.additional[q]]
  /\ pg.primaryId \notin gone =>
       /\ Except(x, pg, {"participants", "additional", "scene", "listed", "selected"})
       /\ x.scene = pg.scene \ {pg.additional[q].vrm : q \in gone}
  /\ pg.primaryId \in gone =>
       /\ x.vrm = None /\ x.inochi = None /\ x.botVisible = FALSE /\ x.primaryShown = FALSE
       /\ x.gate = NoSeq /\ x.primaryHandle = None
       /\ x.scene = pg.scene \ ({pg.additional[q].vrm : q \in gone \ {pg.primaryId}}
                                  \cup {pg.vrm, pg.inochi})

\* refreshParticipantSelector touches nothing but the selector ...
LEMMA RefreshKeeps ==
  ASSUME NEW pg, DOMAIN pg = PageFields
  PROVE  Except(RefreshSelector(pg), pg, {"listed", "selected"})
BY DEF RefreshSelector, Except, PageFields

\* The selector names participants.
SelectorFits(x) == x.listed \subseteq Participants /\ x.selected \in Participants \cup {None}

\* ... and leaves it on a participant.
LEMMA RefreshFits ==
  ASSUME NEW pg, DOMAIN pg = PageFields, Present(pg) \subseteq Participants
  PROVE  SelectorFits(RefreshSelector(pg))
<1>1. Present(pg) # {} => Min(Present(pg)) \in Present(pg)
  BY MinIsMember, ViewerAssumption
<1> QED
  BY <1>1 DEF RefreshSelector, PageFields, SelectorFits

\* ... which keeps the shape of the page.
LEMMA RefreshShape ==
  ASSUME NEW pg, PageShape(pg), NEW x, x = RefreshSelector(pg)
  PROVE  PageShape(x)
<1>1. x.listed = Present(pg)
  BY DEF RefreshSelector, PageShape, PageFields
<1>2. x.selected \in Participants \cup {None}
  <2>1. Present(pg) # {} => Min(Present(pg)) \in Present(pg)
    BY MinIsMember, ViewerAssumption DEF PageShape
  <2> QED
    BY <2>1 DEF RefreshSelector, PageShape, PageFields
<1>3. /\ x.participants = pg.participants /\ x.additional = pg.additional
      /\ x.generations = pg.generations /\ x.primaryId = pg.primaryId
      /\ x.primaryHandle = pg.primaryHandle /\ x.gate = pg.gate
      /\ x.vrm = pg.vrm /\ x.inochi = pg.inochi
      /\ x.primaryShown = pg.primaryShown /\ x.botVisible = pg.botVisible
      /\ x.modelVisible = pg.modelVisible /\ x.layered = pg.layered
      /\ DOMAIN x = PageFields
  BY RefreshKeeps DEF Except, PageFields, PageShape
<1> QED
  BY <1>1, <1>2, <1>3 DEF PageShape, Present

\* disposeParticipantRuntime of the first participant takes its models and its gate.
LEMMA DisposeFirst ==
  ASSUME NEW pg, DOMAIN pg = PageFields
  PROVE  LET x == DisposeRuntime(pg, pg.primaryId) IN
         /\ x.participants = pg.participants
         /\ Except(x, pg, {"scene", "vrm", "inochi", "botVisible", "primaryShown", "gate",
                           "primaryHandle", "listed", "selected"})
         /\ x.scene = pg.scene \ {pg.vrm, pg.inochi} /\ x.vrm = None /\ x.inochi = None
         /\ x.botVisible = FALSE /\ x.primaryShown = FALSE
         /\ x.gate = NoSeq /\ x.primaryHandle = None
BY DEF RefreshSelector, Except, PageFields, DisposeRuntime

\* ... and of another one its runtime with the model in it.
LEMMA DisposeOther ==
  ASSUME NEW pg, DOMAIN pg = PageFields, NEW p, p # pg.primaryId
  PROVE  LET x == DisposeRuntime(pg, p) IN
         /\ x.participants = pg.participants
         /\ Except(x, pg, {"scene", "additional", "listed", "selected"})
         /\ x.scene = pg.scene \ {pg.additional[p].vrm}
         /\ x.additional = Without(pg.additional, p)
BY DEF RefreshSelector, Except, PageFields, DisposeRuntime

\* Either way the page keeps its shape.
LEMMA DisposeShape ==
  ASSUME NEW pg, PageShape(pg), NEW p \in Participants
  PROVE  PageShape(DisposeRuntime(pg, p))
<1>1. CASE p = pg.primaryId
  <2> DEFINE y == [pg EXCEPT !.scene = @ \ {pg.vrm, pg.inochi}, !.vrm = None, !.inochi = None,
                    !.botVisible = FALSE, !.primaryShown = FALSE,
                    !.gate = NoSeq, !.primaryHandle = None]
  <2>1. PageShape(y)
    BY DEF PageShape, PageFields, Present, None
  <2> QED
    BY <1>1, <2>1, RefreshShape DEF DisposeRuntime
<1>2. CASE p # pg.primaryId
  <2> DEFINE y == [pg EXCEPT !.scene = @ \ {pg.additional[p].vrm}, !.additional = Without(@, p)]
  <2>1. PageShape(y)
    BY DEF PageShape, PageFields, Present, None, Without
  <2> QED
    BY <1>2, <2>1, RefreshShape DEF DisposeRuntime
<1> QED
  BY <1>1, <1>2

\* One participant leaves.
LEMMA ExpireShrinks ==
  ASSUME NEW pg, PageShape(pg), RoomSettled(pg),
         NEW gone, NEW x, PageShape(x), Shrinks(x, pg, gone),
         NEW p \in Present(pg) \ gone, NEW z, z = Expire(x, p)
  PROVE  PageShape(z) /\ Shrinks(z, pg, gone \cup {p})
<1>1. /\ p \in Present(x) /\ x.participants[p] = pg.participants[p] /\ x.primaryId = pg.primaryId
      /\ x.participants[p].avatar # None /\ p \in Participants /\ DOMAIN x = PageFields
  BY DEF Shrinks, Except, PageFields, RoomSettled, PageShape, Entry, Present, None
<1>0. PICK y : y = DisposeRuntime(x, p)
  OBVIOUS
<1>2. z = [y EXCEPT !.participants = Without(@, p)]
  BY <1>0, <1>1 DEF Expire
<1>3. PageShape(y)
  BY <1>0, <1>1, DisposeShape
<1>4. y.participants = x.participants
  BY <1>1, <1>0, DisposeFirst, DisposeOther
<1>5. /\ Except(z, y, {"participants"})
      /\ z.participants = [q \in Present(pg) \ (gone \cup {p}) |-> pg.participants[q]]
  <2>1. Except(z, y, {"participants"}) /\ z.participants = Without(y.participants, p)
    BY <1>2, <1>3 DEF Except, PageShape, PageFields
  <2>2. x.participants = [q \in Present(pg) \ gone |-> pg.participants[q]]
    BY DEF Shrinks
  <2> QED
    BY <2>1, <2>2, <1>4 DEF Without, Present
<1>6. PageShape(z)
  <2>1. IsFiniteSet(Present(pg) \ (gone \cup {p}))
    BY FS_Subset DEF PageShape
  <2>2. z.participants \in [Present(z) -> Entry] /\ Present(z) = Present(pg) \ (gone \cup {p})
    BY <1>5 DEF PageShape, Present
  <2>3. /\ z.additional = y.additional /\ z.generations = y.generations
        /\ z.primaryId = y.primaryId /\ z.primaryHandle = y.primaryHandle /\ z.gate = y.gate
        /\ z.vrm = y.vrm /\ z.inochi = y.inochi /\ z.listed = y.listed
        /\ z.selected = y.selected
        /\ z.primaryShown = y.primaryShown /\ z.botVisible = y.botVisible
        /\ z.modelVisible = y.modelVisible /\ z.layered = y.layered
        /\ DOMAIN z = PageFields
    BY <1>5 DEF Except, PageFields
  <2> QED
    BY <1>3, <2>1, <2>2, <2>3 DEF PageShape
<1>7. CASE p = pg.primaryId
  <2>0. p = x.primaryId
    BY <1>1, <1>7
  <2>1. /\ Except(y, x, {"scene", "vrm", "inochi", "botVisible", "primaryShown", "gate",
                         "primaryHandle", "listed", "selected"})
        /\ y.scene = x.scene \ {x.vrm, x.inochi} /\ y.vrm = None /\ y.inochi = None
        /\ y.botVisible = FALSE /\ y.primaryShown = FALSE
        /\ y.gate = NoSeq /\ y.primaryHandle = None
    BY <1>1, <2>0, <1>0, DisposeFirst
  <2>2. pg.primaryId \notin gone
    BY <1>7
  <2>3. /\ x.additional = [q \in DOMAIN pg.additional \ gone |-> pg.additional[q]]
        /\ x.vrm = pg.vrm /\ x.inochi = pg.inochi
        /\ x.scene = pg.scene \ {pg.additional[q].vrm : q \in gone}
    BY <2>2 DEF Shrinks, Except, PageFields
  <2>4. z.additional = [q \in DOMAIN pg.additional \ (gone \cup {p}) |-> pg.additional[q]]
    BY <1>5, <1>7, <2>1, <2>3 DEF Except, PageFields, RoomSettled
  <2>5. Except(z, pg, {"participants", "additional", "scene", "vrm", "inochi", "botVisible",
                    "primaryShown", "gate", "primaryHandle", "listed", "selected"})
    BY <1>5, <2>1, <2>2 DEF Except, PageFields, Shrinks
  <2>6. /\ z.vrm = None /\ z.inochi = None /\ z.botVisible = FALSE /\ z.primaryShown = FALSE
        /\ z.gate = NoSeq /\ z.primaryHandle = None /\ z.scene = y.scene
    BY <1>5, <2>1 DEF Except, PageFields
  <2>7. z.scene = pg.scene \ ({pg.additional[q].vrm : q \in (gone \cup {p}) \ {pg.primaryId}}
                                  \cup {pg.vrm, pg.inochi})
    BY <1>7, <2>1, <2>2, <2>3, <2>6
  <2>8. pg.primaryId \in gone \cup {p}
    BY <1>7
  <2> QED
    BY <1>5, <1>6, <2>4, <2>5, <2>6, <2>7, <2>8 DEF Shrinks
<1>8. CASE p # pg.primaryId
  <2>1. /\ Except(y, x, {"scene", "additional", "listed", "selected"})
        /\ y.scene = x.scene \ {x.additional[p].vrm}
        /\ y.additional = Without(x.additional, p)
    BY <1>1, <1>8, <1>0, DisposeOther
  <2>2. /\ x.additional = [q \in DOMAIN pg.additional \ gone |-> pg.additional[q]]
        /\ p \in DOMAIN pg.additional
    BY <1>8 DEF Shrinks, RoomSettled
  <2>3. z.additional = [q \in DOMAIN pg.additional \ (gone \cup {p}) |-> pg.additional[q]]
    BY <1>5, <2>1, <2>2, SMTT(30) DEF Except, PageFields, Without
  <2>4. z.scene = x.scene \ {pg.additional[p].vrm}
    BY <1>5, <2>1, <2>2 DEF Except, PageFields
  <2>5. Except(z, pg, {"participants", "additional", "scene", "vrm", "inochi", "botVisible",
                    "primaryShown", "gate", "primaryHandle", "listed", "selected"})
    BY <1>5, <2>1 DEF Except, PageFields, Shrinks
  <2>6. CASE pg.primaryId \notin gone
    <3>1. Except(z, pg, {"participants", "additional", "scene", "listed", "selected"})
      BY <1>5, <2>1, <2>6 DEF Except, PageFields, Shrinks
    <3>2. z.scene = pg.scene \ {pg.additional[q].vrm : q \in gone \cup {p}}
      BY <2>4, <2>6 DEF Shrinks
    <3> QED
      BY <1>5, <1>6, <1>8, <2>3, <2>5, <2>6, <3>1, <3>2 DEF Shrinks
  <2>7. CASE pg.primaryId \in gone
    <3>1. /\ z.vrm = None /\ z.inochi = None /\ z.botVisible = FALSE /\ z.primaryShown = FALSE
          /\ z.gate = NoSeq /\ z.primaryHandle = None
      BY <1>5, <2>1, <2>7 DEF Except, PageFields, Shrinks
    <3>2. z.scene = pg.scene \ ({pg.additional[q].vrm : q \in (gone \cup {p}) \ {pg.primaryId}}
                                  \cup {pg.vrm, pg.inochi})
      BY <1>8, <2>4, <2>7 DEF Shrinks
    <3> QED
      BY <1>5, <1>6, <2>3, <2>5, <2>7, <3>1, <3>2 DEF Shrinks
  <2> QED
    BY <2>6, <2>7
<1> QED
  BY <1>7, <1>8

\* The loop over the expired participants has a result.
Leaving(f, pg, gone, last) ==
  [p \in 0 .. last |->
     IF p = 0 THEN pg ELSE IF p \in gone THEN Expire(f[p - 1], p) ELSE f[p - 1]]

\* It is defined, by induction over the number of the last participant.
LEMMA PruneIsDefined ==
  ASSUME NEW pg, NEW gone, NEW last \in Nat
  PROVE  \E f : f = Leaving(f, pg, gone, last)
<1> USE DEF Leaving
<1> DEFINE Done == {k \in Nat : \E f : f = Leaving(f, pg, gone, k)}
<1>1. 0 \in Done
  <2>1. [p \in 0 .. 0 |-> pg] = Leaving([p \in 0 .. 0 |-> pg], pg, gone, 0)
    OBVIOUS
  <2> QED
    BY <2>1
<1>2. ASSUME NEW k \in Nat, k \in Done PROVE k + 1 \in Done
  <2>1. PICK f : f = Leaving(f, pg, gone, k)
    BY <1>2
  <2> DEFINE next == IF k + 1 \in gone THEN Expire(f[k], k + 1) ELSE f[k]
             g == [p \in 0 .. k + 1 |-> IF p \in 0 .. k THEN f[p] ELSE next]
  <2>2. \A p \in 0 .. k : f[p] = IF p = 0 THEN pg
                  ELSE IF p \in gone THEN Expire(f[p - 1], p) ELSE f[p - 1]
    BY <2>1
  <2>3. ASSUME NEW p \in 0 .. k + 1
        PROVE  g[p] = IF p = 0 THEN pg
                      ELSE IF p \in gone THEN Expire(g[p - 1], p) ELSE g[p - 1]
    BY <2>2
  <2>4. g = Leaving(g, pg, gone, k + 1)
    BY <2>3
  <2> HIDE DEF g
  <2> QED
    BY <2>4
<1>3. last \in Done
  <2> HIDE DEF Done
  <2> QED
    BY <1>1, <1>2, SetInduction
<1> QED
  BY <1>3

\* prune takes exactly the expired participants out of the room.
LEMMA PruneShrinks ==
  ASSUME NEW pg, PageShape(pg), RoomSettled(pg)
  PROVE  PageShape(Prune(pg)) /\ Shrinks(Prune(pg), pg, Expired(pg))
<1> DEFINE gone == Expired(pg)
           last == Max({0} \cup gone)
<1>1. gone \subseteq Present(pg) /\ Present(pg) \subseteq Nat \ {0}
  BY ViewerAssumption DEF Expired, PageShape
<1>2. last \in {0} \cup gone /\ \A p \in gone : p <= last
  <2>1. IsFiniteSet({0} \cup gone)
    BY <1>1, FS_Subset, FS_Singleton, FS_Union DEF PageShape
  <2> QED
    BY <1>1, <2>1, MaxIsMember
<1>3. last \in Nat
  BY <1>1, <1>2
<1> HIDE DEF last, gone
<1>4. PICK f : /\ f[last] = Prune(pg)
               /\ \A p \in 0 .. last :
                    f[p] = IF p = 0 THEN pg
                           ELSE IF p \in gone THEN Expire(f[p - 1], p) ELSE f[p - 1]
  <2> DEFINE Upto[p \in 0 .. last] ==
               IF p = 0 THEN pg ELSE IF p \in gone THEN Expire(Upto[p - 1], p) ELSE Upto[p - 1]
  <2>1. Upto[last] = Prune(pg)
    BY DEF Prune, last, gone
  <2>2. Upto = [p \in 0 .. last |->
                  IF p = 0 THEN pg ELSE IF p \in gone THEN Expire(Upto[p - 1], p) ELSE Upto[p - 1]]
    <3>1. PICK h : h = Leaving(h, pg, gone, last)
      BY <1>3, PruneIsDefined
    <3> QED
      BY <3>1 DEF Leaving
  <2> QED
    BY <2>1, <2>2
<1> DEFINE Upto(p) == {q \in gone : q <= p}
           Good == {p \in Nat : p <= last => PageShape(f[p]) /\ Shrinks(f[p], pg, Upto(p))}
<1>5. 0 \in Good
  <2>1. f[0] = pg /\ Upto(0) = {}
    BY <1>1, <1>3, <1>4
  <2>2. Shrinks(pg, pg, {})
    BY DEF Shrinks, Except, PageShape, PageFields, Present
  <2> QED
    BY <2>1, <2>2
<1>6. ASSUME NEW p \in Nat, p \in Good PROVE p + 1 \in Good
  <2> SUFFICES ASSUME p + 1 <= last
               PROVE  PageShape(f[p + 1]) /\ Shrinks(f[p + 1], pg, Upto(p + 1))
    OBVIOUS
  <2>1. PageShape(f[p]) /\ Shrinks(f[p], pg, Upto(p))
    BY <1>3, <1>6
  <2>2. f[p + 1] = IF p + 1 \in gone THEN Expire(f[p], p + 1) ELSE f[p]
    BY <1>3, <1>4
  <2>3. CASE p + 1 \in gone
    <3>1. Upto(p + 1) = Upto(p) \cup {p + 1} /\ p + 1 \in Present(pg) \ Upto(p)
      BY <1>1, <2>3
    <3> HIDE DEF Upto
    <3> QED
      BY <2>1, <2>2, <2>3, <3>1, ExpireShrinks
  <2>4. CASE p + 1 \notin gone
    <3>1. Upto(p + 1) = Upto(p)
      BY <1>1, <2>4
    <3> HIDE DEF Upto
    <3> QED
      BY <2>1, <2>2, <2>4, <3>1
  <2> QED
    BY <2>3, <2>4
<1>7. last \in Good
  <2> HIDE DEF Good
  <2> QED
    BY <1>3, <1>5, <1>6, SetInduction
<1>8. Upto(last) = gone
  BY <1>2
<1> HIDE DEF Upto
<1> QED
  BY <1>3, <1>4, <1>7, <1>8 DEF gone

\* Those who stay keep their runtimes.
LEMMA ShrinksSettled ==
  ASSUME NEW pg, PageShape(pg), RoomSettled(pg), NEW gone, NEW x, PageShape(x),
         Shrinks(x, pg, gone)
  PROVE  RoomSettled(x) /\ Present(x) = Present(pg) \ gone
<1>1. Present(x) = Present(pg) \ gone /\ x.primaryId = pg.primaryId
      /\ x.generations = pg.generations
  BY DEF Shrinks, Present, Except, PageFields
<1>2. \A p \in Present(x) : p \in Present(pg) /\ x.participants[p] = pg.participants[p]
  BY <1>1 DEF Shrinks
<1>3. /\ DOMAIN x.additional = Present(x) \ {x.primaryId}
      /\ \A p \in DOMAIN x.additional : x.additional[p] = pg.additional[p]
  BY <1>1 DEF Shrinks, RoomSettled
<1>4. /\ pg.primaryId \in gone => x.primaryHandle = None
      /\ pg.primaryId \notin gone => x.primaryHandle = pg.primaryHandle
  BY DEF Shrinks, Except, PageFields
<1>5. CASE pg.primaryId \in gone
  BY <1>1, <1>2, <1>3, <1>4, <1>5 DEF RoomSettled
<1>6. CASE pg.primaryId \notin gone
  BY <1>1, <1>2, <1>3, <1>4, <1>6 DEF RoomSettled
<1> QED
  BY <1>5, <1>6

\* x is pg with p in the room, for a stay of its own and with a runtime.
Joins(x, pg, p) ==
  LET g == pg.generations[p] + 1 IN
  /\ Except(x, pg, {"participants", "generations", "primaryId", "primaryHandle", "additional",
                    "botVisible", "listed", "selected"})
  /\ x.participants = With(pg.participants, p, [generation |-> g, age |-> 0, avatar |-> g])
  /\ x.generations = [pg.generations EXCEPT ![p] = g]
  /\ x.primaryId = IF pg.primaryId = None THEN p ELSE pg.primaryId
  /\ p = x.primaryId =>
       /\ x.primaryHandle = g /\ x.additional = pg.additional
       /\ x.botVisible = (pg.vrm = None /\ pg.inochi = None /\ ~pg.layered)
  /\ p # x.primaryId =>
       /\ x.primaryHandle = pg.primaryHandle /\ x.botVisible = pg.botVisible
       /\ x.additional = With(pg.additional, p, [made |-> g, lastSeq |-> NoSeq, vrm |-> None])

\* A participant that is not in the room comes into it.
LEMMA IngestNew ==
  ASSUME NEW pg, DOMAIN pg = PageFields, NEW p, p \notin Present(pg)
  PROVE  LET x == Ingest(pg, p)
             g == pg.generations[p] + 1
         IN  /\ Except(x, pg, {"participants", "generations"})
             /\ x.generations = [pg.generations EXCEPT ![p] = g]
             /\ x.participants = With(pg.participants, p, [generation |-> g, age |-> 0, avatar |-> None])
             /\ p \in Present(x)
<1>1. p \notin Expired(pg)
  BY DEF Expired
<1> QED
  BY <1>1 DEF Ingest, Except, PageFields, Present, With

\* ... and one that has no avatar yet is given the runtime just made.
LEMMA AssignHere ==
  ASSUME NEW pg, DOMAIN pg = PageFields, NEW p, p \in Present(pg), NEW made, 
         NEW e, e.avatar = None, pg.participants[p] = e
  PROVE  LET x == AssignAvatar(pg, p, made)
         IN  /\ Except(x, pg, {"participants"})
             /\ x.participants = [pg.participants EXCEPT ![p] = [e EXCEPT !.avatar = made]]
BY DEF AssignAvatar, Except, PageFields, Present

\* ... or that is not in the room, which brings it there for a new stay.
LEMMA AssignNew ==
  ASSUME NEW pg, DOMAIN pg = PageFields, NEW p, p \notin Present(pg), NEW made
  PROVE  LET x == AssignAvatar(pg, p, made)
             g == pg.generations[p] + 1
         IN  /\ Except(x, pg, {"participants", "generations"})
             /\ x.generations = [pg.generations EXCEPT ![p] = g]
             /\ x.participants = With(pg.participants, p, [generation |-> g, age |-> 0, avatar |-> made])
<1> DEFINE g == pg.generations[p] + 1
<1>1. PICK h : h = Ingest(pg, p)
  OBVIOUS
<1>2. /\ Except(h, pg, {"participants", "generations"})
      /\ h.generations = [pg.generations EXCEPT ![p] = g]
      /\ h.participants = With(pg.participants, p, [generation |-> g, age |-> 0, avatar |-> None])
  BY <1>1, IngestNew
<1>3. h.participants[p] = [generation |-> g, age |-> 0, avatar |-> None] /\ p \in DOMAIN h.participants
  BY <1>2 DEF With
<1>4. AssignAvatar(pg, p, made) = [h EXCEPT !.participants[p].avatar = made]
  BY <1>1, <1>3 DEF AssignAvatar
<1>5. [h EXCEPT !.participants[p].avatar = made].participants =
        With(pg.participants, p, [generation |-> g, age |-> 0, avatar |-> made])
  <2> HIDE DEF g
  <2>1. [h EXCEPT !.participants[p].avatar = made].participants =
          [h.participants EXCEPT ![p].avatar = made]
    BY <1>2 DEF Except, PageFields
  <2>2. PICK e : e = [generation |-> g, age |-> 0, avatar |-> None]
    OBVIOUS
  <2>3. [h.participants EXCEPT ![p].avatar = made] = [h.participants EXCEPT ![p] = [e EXCEPT !.avatar = made]]
    BY <1>3, <2>2
  <2>4. [e EXCEPT !.avatar = made] = [generation |-> g, age |-> 0, avatar |-> made]
    BY <2>2
  <2> QED
    BY <1>2, <2>1, <2>3, <2>4 DEF With
<1> HIDE DEF g
<1>6. Except([h EXCEPT !.participants[p].avatar = made], pg, {"participants", "generations"})
  BY <1>2 DEF Except, PageFields
<1>7. [h EXCEPT !.participants[p].avatar = made].generations = [pg.generations EXCEPT ![p] = g]
  BY <1>2 DEF Except, PageFields
<1> QED
  BY <1>4, <1>5, <1>6, <1>7 DEF g

\* The page b at which the runtime of p is made: p has just been heard of, or a file was
\* chosen for it although it is not in the room.
LEMMA AssignJoins ==
  ASSUME NEW pg, PageShape(pg), NEW p \in Participants \ Present(pg),
         NEW g, g = pg.generations[p] + 1,
         NEW b, DOMAIN b = PageFields,
         \/ b.participants = pg.participants /\ b.generations = pg.generations
         \/ /\ b.generations = [pg.generations EXCEPT ![p] = g]
            /\ b.participants = With(pg.participants, p, [generation |-> g, age |-> 0, avatar |-> None])
  PROVE  LET x == AssignAvatar(b, p, g) IN
         /\ Except(x, b, {"participants", "generations"})
         /\ x.generations = [pg.generations EXCEPT ![p] = g]
         /\ x.participants = With(pg.participants, p, [generation |-> g, age |-> 0, avatar |-> g])
<1>1. CASE b.participants = pg.participants /\ b.generations = pg.generations
  <2>1. p \notin Present(b)
    BY <1>1 DEF Present
  <2> QED
    BY <1>1, <2>1, AssignNew
<1>2. CASE /\ b.generations = [pg.generations EXCEPT ![p] = g]
           /\ b.participants = With(pg.participants, p, [generation |-> g, age |-> 0, avatar |-> None])
  <2>1. PICK e : e = [generation |-> g, age |-> 0, avatar |-> None]
    OBVIOUS
  <2>2. b.participants[p] = e /\ p \in Present(b) /\ e.avatar = None
    BY <1>2, <2>1 DEF With, Present
  <2>3. PICK x : x = AssignAvatar(b, p, g)
    OBVIOUS
  <2>4. /\ Except(x, b, {"participants"})
        /\ x.participants = [b.participants EXCEPT ![p] = [e EXCEPT !.avatar = g]]
    BY <2>2, <2>3, AssignHere
  <2>5. [e EXCEPT !.avatar = g] = [generation |-> g, age |-> 0, avatar |-> g]
    BY <2>1
  <2>6. x.participants = With(pg.participants, p, [generation |-> g, age |-> 0, avatar |-> g])
    BY <1>2, <2>4, <2>5 DEF With
  <2>7. Except(x, b, {"participants", "generations"}) /\ x.generations = b.generations
    BY <2>4 DEF Except, PageFields
  <2> QED
    BY <1>2, <2>3, <2>6, <2>7
<1> QED
  BY <1>1, <1>2

\* A runtime made now belongs to the stay that begins.
LEMMA StayIsNext ==
  ASSUME NEW pg, PageShape(pg), NEW p \in Participants \ Present(pg),
         NEW b, b = pg \/ b = Ingest(pg, p)
  PROVE  /\ StayOf(b, p) = pg.generations[p] + 1
         /\ Except(b, pg, {"participants", "generations"})
         /\ LET g == pg.generations[p] + 1 IN
            \/ b.participants = pg.participants /\ b.generations = pg.generations
            \/ /\ b.generations = [pg.generations EXCEPT ![p] = g]
               /\ b.participants = With(pg.participants, p, [generation |-> g, age |-> 0, avatar |-> None])
<1>0. DOMAIN pg = PageFields
  BY DEF PageShape
<1>1. CASE b = pg
  BY <1>0, <1>1 DEF StayOf, Except
<1>2. CASE b = Ingest(pg, p)
  <2>1. /\ Except(b, pg, {"participants", "generations"})
        /\ b.generations = [pg.generations EXCEPT ![p] = pg.generations[p] + 1]
        /\ b.participants = With(pg.participants, p,
             [generation |-> pg.generations[p] + 1, age |-> 0, avatar |-> None])
        /\ p \in Present(b)
    BY <1>0, <1>2, IngestNew
  <2>2. StayOf(b, p) = pg.generations[p] + 1
    BY <2>1 DEF StayOf, With
  <2> QED
    BY <2>1, <2>2
<1> QED
  BY <1>1, <1>2

\* ensureParticipantRuntime of a room's first participant.
LEMMA JoinFirst ==
  ASSUME NEW pg, PageShape(pg), RoomSettled(pg),
         NEW p \in Participants \ Present(pg), pg.primaryId \in {None, p},
         NEW b, b = pg \/ b = Ingest(pg, p)
  PROVE  Joins(EnsureRuntime(b, p), pg, p) /\ SelectorFits(EnsureRuntime(b, p))
<1> DEFINE g == pg.generations[p] + 1
<1>1. /\ pg.primaryHandle = None /\ p # None
  BY ViewerAssumption DEF RoomSettled, None
<1>2. /\ StayOf(b, p) = g
      /\ Except(b, pg, {"participants", "generations"})
      /\ \/ b.participants = pg.participants /\ b.generations = pg.generations
         \/ /\ b.generations = [pg.generations EXCEPT ![p] = g]
            /\ b.participants = With(pg.participants, p, [generation |-> g, age |-> 0, avatar |-> None])
  BY StayIsNext
<1>3. b.primaryId = pg.primaryId /\ b.primaryHandle = None /\ DOMAIN b = PageFields
  BY <1>1, <1>2 DEF Except, PageFields
<1> DEFINE named == [b EXCEPT !.primaryId = IF @ = None THEN p ELSE @]
<1>4. PICK q : q = [named EXCEPT !.primaryHandle = g]
  OBVIOUS
<1>5. /\ Except(q, b, {"primaryId", "primaryHandle"}) /\ q.primaryId = p /\ q.primaryHandle = g
      /\ named.primaryId = p /\ named.primaryHandle = None
  <2>1. named.primaryId = p
    BY <1>3 DEF PageFields
  <2>2. named.primaryHandle = None
    BY <1>3 DEF PageFields
  <2> QED
    BY <1>3, <1>4, <2>1, <2>2 DEF Except, PageFields
<1>6. StayOf(named, p) = StayOf(b, p)
  BY <1>3 DEF StayOf, Present, PageFields
<1>7. PICK a : a = AssignAvatar(q, p, g)
  OBVIOUS
<1> HIDE DEF g
<1>8. /\ Except(a, q, {"participants", "generations"})
      /\ a.generations = [pg.generations EXCEPT ![p] = g]
      /\ a.participants = With(pg.participants, p, [generation |-> g, age |-> 0, avatar |-> g])
  <2>1. /\ q.participants = b.participants /\ q.generations = b.generations
        /\ DOMAIN q = PageFields
    BY <1>5 DEF Except, PageFields
  <2> QED
    BY <1>2, <1>7, <2>1, AssignJoins DEF g
<1>9. PICK bot : bot = (b.vrm = None /\ b.inochi = None /\ ~b.layered)
  OBVIOUS
<1>10. EnsureRuntime(b, p) = RefreshSelector([a EXCEPT !.botVisible = bot])
  <2>1. EnsureRuntime(b, p) =
          RefreshSelector([AssignAvatar([named EXCEPT !.primaryHandle = StayOf(b, p)], p, StayOf(b, p))
                           EXCEPT !.botVisible = (b.vrm = None /\ b.inochi = None /\ ~b.layered)])
    BY <1>5 DEF EnsureRuntime
  <2> QED
    BY <1>2, <1>4, <1>7, <1>9, <2>1 DEF g
<1>11. PICK c : c = [a EXCEPT !.botVisible = bot]
  OBVIOUS
<1>12. DOMAIN a = PageFields /\ Except(c, a, {"botVisible"}) /\ c.botVisible = bot
  BY <1>8, <1>11 DEF Except, PageFields
<1>13. PICK x : x = RefreshSelector(c)
  OBVIOUS
<1>14. Except(x, c, {"listed", "selected"})
  BY <1>12, <1>13, RefreshKeeps DEF Except
<1>15. bot = (pg.vrm = None /\ pg.inochi = None /\ ~pg.layered)
  BY <1>2, <1>9 DEF Except, PageFields
<1>16. Except(x, pg, {"participants", "generations", "primaryId", "primaryHandle", "additional",
                    "botVisible", "listed", "selected"})
  BY <1>2, <1>5, <1>8, <1>12, <1>14 DEF Except, PageFields
<1>17. /\ x.participants = a.participants /\ x.generations = a.generations
       /\ x.primaryId = p /\ x.primaryHandle = g /\ x.additional = pg.additional
       /\ x.botVisible = bot
  BY <1>2, <1>5, <1>8, <1>12, <1>14 DEF Except, PageFields
<1>18. Joins(x, pg, p)
  BY <1>1, <1>8, <1>15, <1>16, <1>17 DEF Joins, g
<1>19. Present(c) \subseteq Participants /\ DOMAIN c = PageFields
  BY <1>8, <1>12 DEF Except, PageFields, Present, With, PageShape
<1>20. SelectorFits(x)
  BY <1>13, <1>19, RefreshFits
<1> QED
  BY <1>10, <1>11, <1>13, <1>18, <1>20

\* ensureParticipantRuntime of any other participant.
LEMMA JoinOther ==
  ASSUME NEW pg, PageShape(pg), RoomSettled(pg),
         NEW p \in Participants \ Present(pg), pg.primaryId \notin {None, p},
         NEW b, b = pg \/ b = Ingest(pg, p)
  PROVE  Joins(EnsureRuntime(b, p), pg, p) /\ SelectorFits(EnsureRuntime(b, p))
<1> DEFINE g == pg.generations[p] + 1
<1>1. p \notin DOMAIN pg.additional
  BY DEF RoomSettled
<1>2. /\ StayOf(b, p) = g
      /\ Except(b, pg, {"participants", "generations"})
      /\ \/ b.participants = pg.participants /\ b.generations = pg.generations
         \/ /\ b.generations = [pg.generations EXCEPT ![p] = g]
            /\ b.participants = With(pg.participants, p, [generation |-> g, age |-> 0, avatar |-> None])
  BY StayIsNext
<1>3. b.primaryId = pg.primaryId /\ b.additional = pg.additional /\ DOMAIN b = PageFields
  BY <1>2 DEF Except, PageFields
<1> DEFINE named == [b EXCEPT !.primaryId = IF @ = None THEN p ELSE @]
           bare == [made |-> g, lastSeq |-> NoSeq, vrm |-> None]
<1>4. PICK q : q = [named EXCEPT !.additional = With(@, p, bare)]
  OBVIOUS
<1>5. /\ Except(q, b, {"additional"}) /\ q.additional = With(pg.additional, p, bare)
      /\ named.primaryId = pg.primaryId /\ named.additional = pg.additional
  <2>1. named.primaryId = pg.primaryId
    BY <1>3 DEF PageFields
  <2>2. named.additional = pg.additional
    BY <1>3 DEF PageFields
  <2>3. Except(named, b, {})
    BY <1>3 DEF Except, PageFields
  <2> QED
    BY <1>4, <2>1, <2>2, <2>3 DEF Except, PageFields
<1>7. PICK a : a = AssignAvatar(q, p, g)
  OBVIOUS
<1> HIDE DEF g
<1>8. /\ Except(a, q, {"participants", "generations"})
      /\ a.generations = [pg.generations EXCEPT ![p] = g]
      /\ a.participants = With(pg.participants, p, [generation |-> g, age |-> 0, avatar |-> g])
  <2>1. /\ q.participants = b.participants /\ q.generations = b.generations
        /\ DOMAIN q = PageFields
    BY <1>5 DEF Except, PageFields
  <2> QED
    BY <1>2, <1>7, <2>1, AssignJoins DEF g
<1>10. EnsureRuntime(b, p) = RefreshSelector(a)
  <2>1. EnsureRuntime(b, p) =
          RefreshSelector(AssignAvatar([named EXCEPT !.additional =
             With(@, p, [made |-> StayOf(b, p), lastSeq |-> NoSeq, vrm |-> None])], p, StayOf(b, p)))
    BY <1>1, <1>5 DEF EnsureRuntime
  <2> QED
    BY <1>2, <1>4, <1>7, <2>1 DEF g
<1>13. PICK x : x = RefreshSelector(a)
  OBVIOUS
<1>14. Except(x, a, {"listed", "selected"})
  BY <1>8, <1>13, RefreshKeeps DEF Except
<1>16. Except(x, pg, {"participants", "generations", "primaryId", "primaryHandle", "additional",
                    "botVisible", "listed", "selected"})
  BY <1>2, <1>5, <1>8, <1>14 DEF Except, PageFields
<1>17. /\ x.participants = a.participants /\ x.generations = a.generations
       /\ x.primaryId = pg.primaryId /\ x.primaryHandle = pg.primaryHandle
       /\ x.additional = With(pg.additional, p, bare)
       /\ x.botVisible = pg.botVisible
  BY <1>2, <1>5, <1>8, <1>14 DEF Except, PageFields
<1>18. Joins(x, pg, p)
  BY <1>8, <1>16, <1>17 DEF Joins, g
<1>19. Present(a) \subseteq Participants /\ DOMAIN a = PageFields
  BY <1>8 DEF Except, PageFields, Present, With, PageShape
<1>20. SelectorFits(x)
  BY <1>13, <1>19, RefreshFits
<1> QED
  BY <1>10, <1>13, <1>18, <1>20

\* Whoever joins has the runtime of the stay it begins.
LEMMA JoinsShape ==
  ASSUME NEW pg, PageShape(pg), RoomSettled(pg), NEW p \in Participants \ Present(pg),
         NEW x, Joins(x, pg, p), SelectorFits(x)
  PROVE  PageShape(x) /\ RoomSettled(x) /\ Present(x) = Present(pg) \cup {p}
<1> DEFINE g == pg.generations[p] + 1
<1>0. g \in Nat \ {0} /\ p # None
  BY ViewerAssumption DEF PageShape, None
<1>1. /\ x.participants = With(pg.participants, p, [generation |-> g, age |-> 0, avatar |-> g])
      /\ x.generations = [pg.generations EXCEPT ![p] = g]
      /\ x.primaryId = IF pg.primaryId = None THEN p ELSE pg.primaryId
      /\ p = x.primaryId => x.primaryHandle = g /\ x.additional = pg.additional
      /\ p # x.primaryId =>
           /\ x.primaryHandle = pg.primaryHandle
           /\ x.additional = With(pg.additional, p, [made |-> g, lastSeq |-> NoSeq, vrm |-> None])
      /\ x.botVisible \in BOOLEAN
  BY DEF Joins, PageShape
<1>2. /\ x.gate = pg.gate /\ x.vrm = pg.vrm /\ x.inochi = pg.inochi
      /\ x.primaryShown = pg.primaryShown /\ x.modelVisible = pg.modelVisible
      /\ x.layered = pg.layered /\ DOMAIN x = PageFields
  BY DEF Joins, Except, PageFields
<1> HIDE DEF g
<1>3. Present(x) = Present(pg) \cup {p}
  BY <1>1 DEF With, Present
<1>4. \A q \in Present(pg) : q # p /\ x.participants[q] = pg.participants[q]
                             /\ x.generations[q] = pg.generations[q]
  BY <1>1 DEF With, Present, PageShape
<1>5. /\ x.participants[p] = [generation |-> g, age |-> 0, avatar |-> g]
      /\ x.generations[p] = g
  BY <1>1 DEF With, Present, PageShape
<1>6. /\ DOMAIN x.additional = Present(x) \ {x.primaryId}
      /\ \A q \in DOMAIN x.additional :
           \/ q # p /\ q \in DOMAIN pg.additional /\ x.additional[q] = pg.additional[q]
           \/ q = p /\ x.additional[q] = [made |-> g, lastSeq |-> NoSeq, vrm |-> None]
  BY <1>0, <1>1, <1>3 DEF RoomSettled, With
<1>7. RoomSettled(x)
  <2>1. (x.primaryHandle # None) <=> (x.primaryId \in Present(x))
    BY <1>0, <1>1, <1>3 DEF RoomSettled, None
  <2>2. ASSUME NEW q \in Present(x)
        PROVE  /\ x.participants[q].avatar = x.participants[q].generation
               /\ x.participants[q].generation = x.generations[q]
               /\ IF q = x.primaryId THEN x.primaryHandle = x.participants[q].generation
                  ELSE x.additional[q].made = x.participants[q].generation
    <3>1. CASE q = p
      BY <1>0, <1>1, <1>5, <1>6, <2>2, <3>1
    <3>2. CASE q # p
      <4>1. q \in Present(pg)
        BY <1>3, <3>2
      <4>2. pg.primaryId # None /\ x.primaryId = pg.primaryId
        BY <1>1, <4>1 DEF RoomSettled
      <4>3. CASE q = pg.primaryId
        <5>1. x.primaryHandle = pg.primaryHandle
          BY <1>1, <3>2, <4>2, <4>3
        <5> QED
          BY <1>4, <4>1, <4>2, <4>3, <5>1 DEF RoomSettled
      <4>4. CASE q # pg.primaryId
        <5>1. x.additional[q] = pg.additional[q]
          BY <1>6, <2>2, <3>2, <4>2, <4>4
        <5> QED
          BY <1>4, <4>1, <4>2, <4>4, <5>1 DEF RoomSettled
      <4> QED
        BY <4>3, <4>4
    <3> QED
      BY <3>1, <3>2
  <2>3. x.primaryId # None
    BY <1>0, <1>1
  <2> QED
    BY <1>6, <2>1, <2>2, <2>3 DEF RoomSettled
<1>8. x.participants \in [Present(x) -> Entry]
  BY <1>0, <1>1, <1>3, <1>4, <1>5 DEF PageShape, Entry, With, Present
<1>9. x.additional \in [DOMAIN x.additional -> Body] /\ DOMAIN x.additional \subseteq Participants
  <2>1. [made |-> g, lastSeq |-> NoSeq, vrm |-> None] \in Body
    BY <1>0 DEF Body, None
  <2>2. pg.additional \in [DOMAIN pg.additional -> Body]
    BY DEF PageShape
  <2>3. DOMAIN x.additional \subseteq Participants
    BY <1>3, <1>6 DEF PageShape
  <2>4. CASE p = x.primaryId
    <3>1. x.additional = pg.additional
      BY <1>1, <2>4
    <3> QED
      BY <2>2, <2>3, <3>1
  <2>5. CASE p # x.primaryId
    <3>1. PICK e : e = [made |-> g, lastSeq |-> NoSeq, vrm |-> None]
      OBVIOUS
    <3>2. x.additional = [q \in DOMAIN pg.additional \cup {p} |-> IF q = p THEN e ELSE pg.additional[q]]
      BY <1>1, <2>5, <3>1 DEF With
    <3>3. x.additional \in [DOMAIN pg.additional \cup {p} -> Body]
      BY <2>1, <2>2, <3>1, <3>2
    <3> QED
      BY <2>3, <3>3
  <2> QED
    BY <2>4, <2>5
<1>10. IsFiniteSet(Present(x)) /\ Present(x) \subseteq Participants
  BY <1>3, FS_AddElement DEF PageShape
<1>11. /\ x.generations \in [Participants -> Nat] /\ x.primaryId \in Participants \cup {None}
       /\ x.primaryHandle \in Nat
  BY <1>0, <1>1 DEF PageShape
<1> QED
  BY <1>1, <1>2, <1>3, <1>7, <1>8, <1>9, <1>10, <1>11 DEF PageShape, SelectorFits

\* A participant that is in the room has its runtime.
LEMMA EnsureKeeps ==
  ASSUME NEW pg, PageShape(pg), RoomSettled(pg), NEW p \in Present(pg)
  PROVE  /\ Except(EnsureRuntime(pg, p), pg, {"listed", "selected"})
         /\ SelectorFits(EnsureRuntime(pg, p))
<1>1. /\ pg.primaryId # None /\ DOMAIN pg = PageFields /\ Present(pg) \subseteq Participants
      /\ p = pg.primaryId => pg.primaryHandle # None
      /\ p # pg.primaryId => p \in DOMAIN pg.additional
  BY DEF RoomSettled, PageShape
<1> DEFINE named == [pg EXCEPT !.primaryId = IF @ = None THEN p ELSE @]
<1>2. /\ Except(named, pg, {}) /\ named.primaryId = pg.primaryId
      /\ named.primaryHandle = pg.primaryHandle /\ named.additional = pg.additional
      /\ named.listed = pg.listed /\ named.selected = pg.selected
      /\ Present(named) = Present(pg)
  BY <1>1 DEF Except, PageFields, Present
<1>3. EnsureRuntime(pg, p) \in {named, RefreshSelector(named)}
  <2> HIDE DEF named
  <2>1. EnsureRuntime(pg, p) =
          (IF p = named.primaryId
      THEN RefreshSelector(
             IF named.primaryHandle # None THEN named
             ELSE [AssignAvatar([named EXCEPT !.primaryHandle = StayOf(pg, p)], p, StayOf(pg, p))
                   EXCEPT !.botVisible = (pg.vrm = None /\ pg.inochi = None /\ ~pg.layered)])
      ELSE IF p \in DOMAIN pg.additional THEN named
      ELSE RefreshSelector(
             AssignAvatar([named EXCEPT !.additional =
                             With(@, p, [made |-> StayOf(pg, p), lastSeq |-> NoSeq, vrm |-> None])],
                          p, StayOf(pg, p))))
    BY DEF EnsureRuntime, named
  <2>2. CASE p = pg.primaryId
    BY <1>1, <1>2, <2>1, <2>2
  <2>3. CASE p # pg.primaryId
    BY <1>1, <1>2, <2>1, <2>3
  <2> QED
    BY <2>2, <2>3
<1> HIDE DEF named
<1>4. CASE EnsureRuntime(pg, p) = named
  BY <1>2, <1>4 DEF Except, SelectorFits, PageShape
<1>5. CASE EnsureRuntime(pg, p) = RefreshSelector(named)
  <2>1. Except(RefreshSelector(named), named, {"listed", "selected"})
    BY <1>2, RefreshKeeps DEF Except
  <2>2. SelectorFits(RefreshSelector(named))
    BY <1>1, <1>2, RefreshFits DEF Except
  <2> QED
    BY <1>2, <1>5, <2>1, <2>2 DEF Except
<1> QED
  BY <1>3, <1>4, <1>5

---------------------------------------------------------------------------
(* The scene.                                                              *)

\* A load.
LoadRecord == [kind : {"vrm", "inochi", "layers"}, made : Nat, to : Participants \cup {None},
               rev : Nat, state : {"reading", "loading", "done", "failed", "dropped"}]

\* A model for a participant is a VRM.
LoadsShape(ls) ==
  /\ ls \in Seq(LoadRecord)
  /\ \A i \in DOMAIN ls : ls[i].to # None => ls[i].kind = "vrm"

\* The loads that have ended well.
Done(ls) == {i \in DOMAIN ls : ls[i].state = "done"}

\* Every model was loaded for the place it stands in.
ModelsFit(pg, ls) ==
  /\ pg.vrm # None => pg.vrm \in Done(ls) /\ ls[pg.vrm].to = None /\ ls[pg.vrm].kind = "vrm"
  /\ pg.inochi # None =>
       pg.inochi \in Done(ls) /\ ls[pg.inochi].to = None /\ ls[pg.inochi].kind = "inochi"
  /\ \A p \in DOMAIN pg.additional : pg.additional[p].vrm # None =>
       LET i == pg.additional[p].vrm
       IN  i \in Done(ls) /\ ls[i].to = p /\ ls[i].made = pg.additional[p].made

\* The models that the page or a runtime owns.
Models(pg) == {pg.vrm, pg.inochi} \cup {pg.additional[p].vrm : p \in DOMAIN pg.additional}

\* The scene holds them and, besides, only models that came too late.
SceneMatches(pg, ls, lt) ==
  /\ ModelsFit(pg, ls)
  /\ lt \subseteq Done(ls)
  /\ pg.scene \ lt = Models(pg) \ {None}
  /\ Models(pg) \cap lt = {}

\* A scene fits its loads as long as those that are done stay as they are.
LEMMA LoadsGrow ==
  ASSUME NEW pg, NEW ls, NEW lt, SceneMatches(pg, ls, lt), NEW more,
         DOMAIN ls \subseteq DOMAIN more, \A i \in Done(ls) : more[i] = ls[i]
  PROVE  SceneMatches(pg, more, lt)
<1>1. Done(ls) \subseteq Done(more)
  BY DEF Done
<1> QED
  BY <1>1 DEF SceneMatches, ModelsFit

\* Nothing of what the scene depends on has changed.
LEMMA SceneKept ==
  ASSUME NEW pg, NEW ls, NEW lt, SceneMatches(pg, ls, lt), NEW x,
         x.scene = pg.scene, x.vrm = pg.vrm, x.inochi = pg.inochi,
         DOMAIN x.additional = DOMAIN pg.additional,
         \A p \in DOMAIN x.additional : /\ x.additional[p].vrm = pg.additional[p].vrm
                                        /\ x.additional[p].made = pg.additional[p].made
  PROVE  SceneMatches(x, ls, lt)
<1>1. Models(x) = Models(pg)
  BY DEF Models
<1>2. ModelsFit(x, ls)
  BY DEF ModelsFit, SceneMatches
<1> QED
  BY <1>1, <1>2 DEF SceneMatches

\* The models of those who leave leave the scene.
LEMMA ShrinksScene ==
  ASSUME NEW pg, PageShape(pg), RoomSettled(pg), NEW gone \in SUBSET Present(pg),
         NEW x, Shrinks(x, pg, gone), NEW ls, LoadsShape(ls), NEW lt, SceneMatches(pg, ls, lt)
  PROVE  SceneMatches(x, ls, lt)
<1>0. Participants \subseteq Nat \ {0} /\ None = 0
  BY ViewerAssumption DEF None
<1>1. /\ DOMAIN x.additional = DOMAIN pg.additional \ gone
      /\ \A p \in DOMAIN x.additional : x.additional[p] = pg.additional[p]
      /\ DOMAIN pg.additional = Present(pg) \ {pg.primaryId}
      /\ DOMAIN pg.additional \subseteq Participants
  BY DEF Shrinks, RoomSettled, PageShape
<1>2. ASSUME NEW p \in DOMAIN pg.additional, NEW q \in DOMAIN pg.additional, p # q,
             pg.additional[p].vrm # None
      PROVE  pg.additional[p].vrm # pg.additional[q].vrm
  BY <1>2 DEF SceneMatches, ModelsFit
<1>3. ASSUME NEW p \in DOMAIN pg.additional, pg.additional[p].vrm # None
      PROVE  pg.additional[p].vrm \notin {pg.vrm, pg.inochi}
  BY <1>0, <1>1, <1>3 DEF SceneMatches, ModelsFit
<1> DEFINE leaving == {pg.additional[q].vrm : q \in gone \cap DOMAIN pg.additional}
<1>4. CASE pg.primaryId \notin gone
  <2>1. /\ x.vrm = pg.vrm /\ x.inochi = pg.inochi /\ x.scene = pg.scene \ leaving
    <3>1. gone = gone \cap DOMAIN pg.additional
      BY <1>1, <1>4
    <3>2. x.vrm = pg.vrm /\ x.inochi = pg.inochi
      BY <1>4 DEF Shrinks, Except, PageFields
    <3>3. x.scene = pg.scene \ {pg.additional[q].vrm : q \in gone}
      BY <1>4 DEF Shrinks
    <3> QED
      BY <3>1, <3>2, <3>3
  <2>2. Models(x) \ {None} = (Models(pg) \ {None}) \ leaving
    BY <1>1, <1>2, <1>3, <2>1 DEF Models
  <2>3. Models(x) \subseteq Models(pg)
    BY <1>1, <2>1 DEF Models
  <2>4. ModelsFit(x, ls)
    BY <1>1, <2>1 DEF ModelsFit, SceneMatches
  <2> HIDE DEF leaving
  <2> QED
    BY <2>1, <2>2, <2>3, <2>4 DEF SceneMatches
<1>5. CASE pg.primaryId \in gone
  <2>1. /\ x.vrm = None /\ x.inochi = None /\ x.scene = pg.scene \ (leaving \cup {pg.vrm, pg.inochi})
    <3>1. gone \ {pg.primaryId} = gone \cap DOMAIN pg.additional
      BY <1>1, <1>5
    <3> QED
      BY <3>1, <1>5 DEF Shrinks
  <2>2. Models(x) \ {None} = (Models(pg) \ {None}) \ (leaving \cup {pg.vrm, pg.inochi})
    BY <1>1, <1>2, <1>3, <2>1 DEF Models
  <2>3. Models(x) \subseteq Models(pg) \cup {None} /\ None \notin lt
    <3>2. Models(x) \subseteq Models(pg) \cup {None}
      BY <1>1, <2>1 DEF Models
    <3>3. None \notin lt
      BY <1>0 DEF SceneMatches, Done, LoadsShape
    <3> QED
      BY <3>2, <3>3
  <2>4. ModelsFit(x, ls)
    BY <1>1, <2>1 DEF ModelsFit, SceneMatches
  <2> HIDE DEF leaving
  <2> QED
    BY <2>1, <2>2, <2>3, <2>4 DEF SceneMatches
<1> QED
  BY <1>4, <1>5

\* Whoever joins has no model yet.
LEMMA JoinsScene ==
  ASSUME NEW pg, PageShape(pg), RoomSettled(pg), NEW p \in Participants \ Present(pg),
         NEW x, Joins(x, pg, p), NEW ls, LoadsShape(ls), NEW lt, SceneMatches(pg, ls, lt)
  PROVE  SceneMatches(x, ls, lt)
<1>1. x.scene = pg.scene /\ x.vrm = pg.vrm /\ x.inochi = pg.inochi
  BY DEF Joins, Except, PageFields
<1>2. CASE x.additional = pg.additional
  BY <1>1, <1>2, SceneKept
<1>3. CASE x.additional # pg.additional
  <2>1. PICK e : e = [made |-> pg.generations[p] + 1, lastSeq |-> NoSeq, vrm |-> None]
    OBVIOUS
  <2>2. /\ x.additional = [q \in DOMAIN pg.additional \cup {p} |-> IF q = p THEN e ELSE pg.additional[q]]
        /\ p \notin DOMAIN pg.additional /\ e.vrm = None
    BY <1>3, <2>1 DEF Joins, With, RoomSettled
  <2>3. /\ Models(x) \ {None} = Models(pg) \ {None}
        /\ Models(x) \subseteq Models(pg) \cup {None}
    BY <1>1, <2>2 DEF Models
  <2>4. None \notin lt
    BY DEF SceneMatches, Done, LoadsShape, None
  <2>5. ModelsFit(x, ls)
    BY <1>1, <2>2 DEF ModelsFit, SceneMatches
  <2> QED
    BY <1>1, <2>3, <2>4, <2>5 DEF SceneMatches
<1> QED
  BY <1>2, <1>3

\* What the loaders and the render loop change, nobody's stay depends on.
LEMMA SameRoom ==
  ASSUME NEW pg, PageShape(pg), RoomSettled(pg), NEW x,
         Except(x, pg, {"gate", "primaryShown", "botVisible", "vrm", "inochi", "modelVisible",
                        "layered", "scene", "listed", "selected", "requested"}),
         x.gate \in Seqs \cup {NoSeq}, SelectorFits(x), x.vrm \in Nat, x.inochi \in Nat,
         x.primaryShown \in BOOLEAN, x.botVisible \in BOOLEAN, x.modelVisible \in BOOLEAN,
         x.layered \in BOOLEAN
  PROVE  PageShape(x) /\ RoomSettled(x) /\ Present(x) = Present(pg)
<1>1. /\ x.participants = pg.participants /\ x.additional = pg.additional
      /\ x.generations = pg.generations /\ x.primaryId = pg.primaryId
      /\ x.primaryHandle = pg.primaryHandle /\ DOMAIN x = PageFields
  BY DEF Except, PageFields
<1>2. Present(x) = Present(pg)
  BY <1>1 DEF Present
<1>3. PageShape(x)
  BY <1>1, <1>2 DEF PageShape, SelectorFits
<1>4. RoomSettled(x)
  BY <1>1, <1>2 DEF RoomSettled
<1> QED
  BY <1>2, <1>3, <1>4

\* The page is in order.
Owned(pg, ls, lt) == PageShape(pg) /\ RoomSettled(pg) /\ SceneMatches(pg, ls, lt)

\* The gate goes with the runtime it was set for.
GateKept(x, pg) ==
  \/ x.gate = NoSeq
  \/ x.gate = pg.gate /\ (pg.primaryHandle # None => x.primaryHandle = pg.primaryHandle)

\* A participant joins.
LEMMA JoinsOwned ==
  ASSUME NEW ls, LoadsShape(ls), NEW lt, NEW pg, Owned(pg, ls, lt),
         NEW p \in Participants \ Present(pg), NEW x, Joins(x, pg, p), SelectorFits(x)
  PROVE  /\ Owned(x, ls, lt) /\ p \in Present(x)
         /\ x.gate = pg.gate /\ (pg.primaryHandle # None => x.primaryHandle = pg.primaryHandle)
<1>1. PageShape(pg) /\ RoomSettled(pg) /\ SceneMatches(pg, ls, lt)
  BY DEF Owned
<1>2. Owned(x, ls, lt) /\ p \in Present(x)
  BY <1>1, JoinsShape, JoinsScene DEF Owned
<1>3. x.gate = pg.gate
  BY DEF Joins, Except, PageFields
<1>4. ASSUME pg.primaryHandle # None PROVE x.primaryHandle = pg.primaryHandle
  <2>1. pg.primaryId \in Present(pg) /\ p # pg.primaryId
    BY <1>1, <1>4 DEF RoomSettled
  <2>2. x.primaryId = pg.primaryId
    BY <1>1, <2>1, ViewerAssumption DEF Joins, RoomSettled
  <2> QED
    BY <2>1, <2>2 DEF Joins
<1> QED
  BY <1>2, <1>3, <1>4

\* ensureParticipantRuntime for whoever a file was chosen for.
LEMMA EnsureOwned ==
  ASSUME NEW ls, LoadsShape(ls), NEW lt, NEW pg, Owned(pg, ls, lt), NEW p \in Participants
  PROVE  LET x == EnsureRuntime(pg, p) IN
         /\ Owned(x, ls, lt) /\ p \in Present(x)
         /\ x.gate = pg.gate /\ (pg.primaryHandle # None => x.primaryHandle = pg.primaryHandle)
<1>1. PageShape(pg) /\ RoomSettled(pg) /\ SceneMatches(pg, ls, lt)
  BY DEF Owned
<1>2. PICK x : x = EnsureRuntime(pg, p)
  OBVIOUS
<1>3. CASE p \in Present(pg)
  <2>1. Except(x, pg, {"listed", "selected"}) /\ SelectorFits(x)
    BY <1>1, <1>2, <1>3, EnsureKeeps
  <2>2. /\ x.gate = pg.gate /\ x.primaryHandle = pg.primaryHandle /\ x.scene = pg.scene
        /\ x.vrm = pg.vrm /\ x.inochi = pg.inochi /\ x.additional = pg.additional
        /\ x.primaryShown = pg.primaryShown /\ x.botVisible = pg.botVisible
        /\ x.modelVisible = pg.modelVisible /\ x.layered = pg.layered
    BY <2>1 DEF Except, PageFields
  <2>3. Except(x, pg, {"gate", "primaryShown", "botVisible", "vrm", "inochi", "modelVisible",
                        "layered", "scene", "listed", "selected", "requested"})
    BY <2>1 DEF Except
  <2>4. PageShape(x) /\ RoomSettled(x) /\ Present(x) = Present(pg)
    <3>1. /\ pg.gate \in Seqs \cup {NoSeq} /\ pg.vrm \in Nat /\ pg.inochi \in Nat
          /\ pg.primaryShown \in BOOLEAN /\ pg.botVisible \in BOOLEAN
          /\ pg.modelVisible \in BOOLEAN /\ pg.layered \in BOOLEAN
      BY <1>1 DEF PageShape
    <3> QED
      BY <1>1, <2>1, <2>2, <2>3, <3>1, SameRoom
  <2>5. SceneMatches(x, ls, lt)
    BY <1>1, <2>2, SceneKept
  <2> QED
    BY <1>2, <1>3, <2>2, <2>4, <2>5 DEF Owned
<1>4. CASE p \notin Present(pg)
  <2>1. Joins(x, pg, p) /\ SelectorFits(x)
    <3>1. CASE pg.primaryId \in {None, p}
      BY <1>1, <1>2, <1>4, <3>1, JoinFirst
    <3>2. CASE pg.primaryId \notin {None, p}
      BY <1>1, <1>2, <1>4, <3>2, JoinOther
    <3> QED
      BY <3>1, <3>2
  <2> QED
    BY <1>2, <1>4, <2>1, JoinsOwned
<1> QED
  BY <1>3, <1>4

\* One expired participant leaves.
LEMMA ExpireOwned ==
  ASSUME NEW ls, LoadsShape(ls), NEW lt, NEW pg, Owned(pg, ls, lt), NEW p \in Present(pg)
  PROVE  LET x == Expire(pg, p) IN
         Owned(x, ls, lt) /\ Present(x) = Present(pg) \ {p} /\ GateKept(x, pg)
<1>1. PageShape(pg) /\ RoomSettled(pg) /\ SceneMatches(pg, ls, lt)
  BY DEF Owned
<1>2. PICK x : x = Expire(pg, p)
  OBVIOUS
<1>3. Shrinks(pg, pg, {})
  BY <1>1 DEF Shrinks, Except, PageShape, PageFields, Present
<1>4. PageShape(x) /\ Shrinks(x, pg, {p})
  <2>1. p \in Present(pg) \ {} /\ {p} = {} \cup {p}
    OBVIOUS
  <2> QED
    BY <1>1, <1>2, <1>3, <2>1, ExpireShrinks
<1>5. RoomSettled(x) /\ Present(x) = Present(pg) \ {p}
  BY <1>1, <1>4, ShrinksSettled
<1>6. SceneMatches(x, ls, lt)
  BY <1>1, <1>4, ShrinksScene
<1>7. GateKept(x, pg)
  BY <1>4 DEF Shrinks, Except, PageFields, GateKept
<1> QED
  BY <1>2, <1>4, <1>5, <1>6, <1>7 DEF Owned

\* prune
LEMMA PruneOwned ==
  ASSUME NEW ls, LoadsShape(ls), NEW lt, NEW pg, Owned(pg, ls, lt)
  PROVE  LET x == Prune(pg) IN
         Owned(x, ls, lt) /\ Present(x) = Present(pg) \ Expired(pg) /\ GateKept(x, pg)
<1>1. PageShape(pg) /\ RoomSettled(pg) /\ SceneMatches(pg, ls, lt)
  BY DEF Owned
<1>2. PICK x : x = Prune(pg)
  OBVIOUS
<1>4. PageShape(x) /\ Shrinks(x, pg, Expired(pg))
  BY <1>1, <1>2, PruneShrinks
<1>5. RoomSettled(x) /\ Present(x) = Present(pg) \ Expired(pg)
  BY <1>1, <1>4, ShrinksSettled
<1>6. SceneMatches(x, ls, lt)
  BY <1>1, <1>4, ShrinksScene DEF Expired
<1>7. GateKept(x, pg)
  BY <1>4 DEF Shrinks, Except, PageFields, GateKept
<1> QED
  BY <1>2, <1>4, <1>5, <1>6, <1>7 DEF Owned

\* A frame of somebody in the room.
LEMMA IngestPresent ==
  ASSUME NEW ls, LoadsShape(ls), NEW lt, NEW pg, Owned(pg, ls, lt),
         NEW p \in Present(pg) \ Expired(pg)
  PROVE  LET x == Ingest(pg, p) IN
         /\ Owned(x, ls, lt) /\ p \in Present(x)
         /\ x.gate = pg.gate /\ x.primaryHandle = pg.primaryHandle
<1>1. PageShape(pg) /\ RoomSettled(pg) /\ SceneMatches(pg, ls, lt)
  BY DEF Owned
<1>2. PICK x : x = Ingest(pg, p)
  OBVIOUS
<1>3. x = [pg EXCEPT !.participants[p].age = 0]
  BY <1>2 DEF Ingest
<1>4. PICK e : e = pg.participants[p]
  OBVIOUS
<1>5. e \in Entry
  BY <1>1, <1>4 DEF PageShape
<1>6. x.participants = [pg.participants EXCEPT ![p] = [e EXCEPT !.age = 0]]
  BY <1>1, <1>3, <1>4 DEF PageShape, PageFields, Present
<1>7. PICK young : young = [e EXCEPT !.age = 0]
  OBVIOUS
<1>8. young \in Entry /\ young.generation = e.generation /\ young.avatar = e.avatar
  BY <1>5, <1>7 DEF Entry
<1>9. Except(x, pg, {"participants"})
  BY <1>1, <1>3 DEF Except, PageFields, PageShape
<1>10. /\ x.additional = pg.additional /\ x.generations = pg.generations
       /\ x.primaryId = pg.primaryId /\ x.primaryHandle = pg.primaryHandle /\ x.gate = pg.gate
       /\ x.vrm = pg.vrm /\ x.inochi = pg.inochi /\ x.scene = pg.scene
       /\ x.listed = pg.listed /\ x.selected = pg.selected
       /\ x.primaryShown = pg.primaryShown /\ x.botVisible = pg.botVisible
       /\ x.modelVisible = pg.modelVisible /\ x.layered = pg.layered /\ DOMAIN x = PageFields
  BY <1>9 DEF Except, PageFields
<1>11. /\ Present(x) = Present(pg)
       /\ \A q \in Present(x) :
            /\ x.participants[q] \in Entry
            /\ x.participants[q].generation = pg.participants[q].generation
            /\ x.participants[q].avatar = pg.participants[q].avatar
  BY <1>1, <1>4, <1>6, <1>7, <1>8 DEF Present, PageShape
<1>12. x.participants \in [Present(x) -> Entry]
  <2>1. x.participants = [q \in Present(x) |-> x.participants[q]]
    BY <1>1, <1>6, <1>11 DEF Present, PageShape
  <2> QED
    BY <1>11, <2>1
<1>13. PageShape(x)
  BY <1>1, <1>10, <1>11, <1>12 DEF PageShape
<1>14. RoomSettled(x)
  BY <1>1, <1>10, <1>11 DEF RoomSettled
<1>15. SceneMatches(x, ls, lt)
  BY <1>1, <1>10, SceneKept
<1> QED
  BY <1>2, <1>10, <1>11, <1>13, <1>14, <1>15 DEF Owned

\* The participant a frame comes from, with a runtime that was made in its present stay.
LEMMA ReceivedOwned ==
  ASSUME NEW ls, LoadsShape(ls), NEW lt, NEW pg, Owned(pg, ls, lt), NEW p \in Participants
  PROVE  LET x == EnsureRuntime(Ingest(pg, p), p) IN
         Owned(x, ls, lt) /\ p \in Present(x) /\ GateKept(x, pg)
<1>1. PageShape(pg) /\ RoomSettled(pg)
  BY DEF Owned
<1>2. PICK x : x = EnsureRuntime(Ingest(pg, p), p)
  OBVIOUS
<1>3. CASE p \in Present(pg) \ Expired(pg)
  <2>1. PICK i : i = Ingest(pg, p)
    OBVIOUS
  <2>2. Owned(i, ls, lt) /\ i.gate = pg.gate /\ i.primaryHandle = pg.primaryHandle
    BY <1>3, <2>1, IngestPresent
  <2>3. /\ Owned(x, ls, lt) /\ p \in Present(x)
        /\ x.gate = i.gate /\ (i.primaryHandle # None => x.primaryHandle = i.primaryHandle)
    BY <1>2, <2>1, <2>2, EnsureOwned
  <2> QED
    BY <1>2, <2>2, <2>3 DEF GateKept
<1>4. ASSUME NEW kept, Owned(kept, ls, lt), p \notin Present(kept), GateKept(kept, pg),
             Ingest(pg, p) = Ingest(kept, p)
      PROVE  Owned(x, ls, lt) /\ p \in Present(x) /\ GateKept(x, pg)
  <2>1. PageShape(kept) /\ RoomSettled(kept)
    BY <1>4 DEF Owned
  <2>2. Joins(x, kept, p) /\ SelectorFits(x)
    <3>1. CASE kept.primaryId \in {None, p}
      BY <1>2, <1>4, <2>1, <3>1, JoinFirst
    <3>2. CASE kept.primaryId \notin {None, p}
      BY <1>2, <1>4, <2>1, <3>2, JoinOther
    <3> QED
      BY <3>1, <3>2
  <2>3. /\ Owned(x, ls, lt) /\ p \in Present(x)
        /\ x.gate = kept.gate /\ (kept.primaryHandle # None => x.primaryHandle = kept.primaryHandle)
    BY <1>4, <2>2, JoinsOwned
  <2> QED
    BY <1>4, <2>3 DEF GateKept
<1>5. CASE p \notin Present(pg)
  <2>1. GateKept(pg, pg)
    BY DEF GateKept
  <2> QED
    BY <1>2, <1>4, <1>5, <2>1
<1>6. CASE p \in Expired(pg)
  <2>1. PICK kept : kept = Expire(pg, p)
    OBVIOUS
  <2>2. p \in Present(pg)
    BY <1>6 DEF Expired
  <2>3. Owned(kept, ls, lt) /\ Present(kept) = Present(pg) \ {p} /\ GateKept(kept, pg)
    BY <2>1, <2>2, ExpireOwned
  <2>4. p \notin Expired(kept)
    BY <2>3 DEF Expired
  <2>5. Ingest(pg, p) = Ingest(kept, p)
    BY <1>6, <2>1, <2>4 DEF Ingest
  <2> QED
    BY <1>2, <1>4, <2>3, <2>5
<1> QED
  BY <1>2, <1>3, <1>5, <1>6

\* The gate the frame has passed is set.
LEMMA SetGateOwned ==
  ASSUME NEW ls, NEW lt, NEW pg, Owned(pg, ls, lt), NEW p \in Present(pg),
         NEW seq \in Seqs \cup {NoSeq}
  PROVE  LET x == SetGate(pg, p, seq) IN
         /\ Owned(x, ls, lt) /\ x.primaryHandle = pg.primaryHandle
         /\ p # pg.primaryId => x.gate = pg.gate
<1>1. PageShape(pg) /\ RoomSettled(pg) /\ SceneMatches(pg, ls, lt)
  BY DEF Owned
<1>2. PICK x : x = SetGate(pg, p, seq)
  OBVIOUS
<1>3. CASE p = pg.primaryId
  <2>1. Except(x, pg, {"gate"}) /\ x.gate = seq
    BY <1>1, <1>2, <1>3 DEF SetGate, Except, PageFields, PageShape
  <2>2. /\ x.additional = pg.additional /\ x.primaryHandle = pg.primaryHandle
        /\ x.vrm = pg.vrm /\ x.inochi = pg.inochi /\ x.scene = pg.scene
        /\ x.listed = pg.listed /\ x.selected = pg.selected
        /\ x.primaryShown = pg.primaryShown /\ x.botVisible = pg.botVisible
        /\ x.modelVisible = pg.modelVisible /\ x.layered = pg.layered
        /\ Except(x, pg, {"gate", "primaryShown", "botVisible", "vrm", "inochi", "modelVisible",
                        "layered", "scene", "listed", "selected", "requested"})
    BY <2>1 DEF Except, PageFields
  <2>3. PageShape(x) /\ RoomSettled(x)
    <3>1. /\ pg.vrm \in Nat /\ pg.inochi \in Nat /\ SelectorFits(x)
          /\ pg.primaryShown \in BOOLEAN /\ pg.botVisible \in BOOLEAN
          /\ pg.modelVisible \in BOOLEAN /\ pg.layered \in BOOLEAN
      BY <1>1, <2>2 DEF PageShape, SelectorFits
    <3> QED
      BY <1>1, <2>1, <2>2, <3>1, SameRoom
  <2>4. SceneMatches(x, ls, lt)
    BY <1>1, <2>2, SceneKept
  <2> QED
    BY <1>2, <1>3, <2>2, <2>3, <2>4 DEF Owned
<1>4. CASE p # pg.primaryId
  <2>1. /\ p \in DOMAIN pg.additional /\ DOMAIN pg = PageFields
        /\ pg.additional \in [DOMAIN pg.additional -> Body]
    BY <1>1, <1>4 DEF RoomSettled, PageShape
  <2>2. x = [pg EXCEPT !.additional[p].lastSeq = seq]
    BY <1>2, <1>4 DEF SetGate
  <2>3. PICK e \in Body : e = pg.additional[p]
    BY <2>1
  <2>4. x.additional = [pg.additional EXCEPT ![p] = [e EXCEPT !.lastSeq = seq]]
    BY <2>1, <2>2, <2>3 DEF PageFields
  <2>5. PICK d : d = [e EXCEPT !.lastSeq = seq]
    OBVIOUS
  <2>6. d \in Body /\ d.made = e.made /\ d.vrm = e.vrm
    BY <2>5 DEF Body
  <2>7. Except(x, pg, {"additional"})
    BY <2>1, <2>2 DEF Except, PageFields
  <2>8. /\ x.participants = pg.participants /\ x.generations = pg.generations
        /\ x.primaryId = pg.primaryId /\ x.primaryHandle = pg.primaryHandle /\ x.gate = pg.gate
        /\ x.vrm = pg.vrm /\ x.inochi = pg.inochi /\ x.scene = pg.scene
        /\ x.listed = pg.listed /\ x.selected = pg.selected
        /\ x.primaryShown = pg.primaryShown /\ x.botVisible = pg.botVisible
        /\ x.modelVisible = pg.modelVisible /\ x.layered = pg.layered /\ DOMAIN x = PageFields
    BY <2>7 DEF Except, PageFields
  <2>9. /\ DOMAIN x.additional = DOMAIN pg.additional
        /\ \A q \in DOMAIN x.additional : /\ x.additional[q].made = pg.additional[q].made
                                          /\ x.additional[q].vrm = pg.additional[q].vrm
        /\ x.additional \in [DOMAIN pg.additional -> Body]
    BY <2>1, <2>3, <2>4, <2>5, <2>6
  <2>10. Present(x) = Present(pg)
    BY <2>8 DEF Present
  <2>11. PageShape(x)
    BY <1>1, <2>8, <2>9, <2>10 DEF PageShape
  <2>12. RoomSettled(x)
    BY <1>1, <2>8, <2>9, <2>10 DEF RoomSettled
  <2>13. SceneMatches(x, ls, lt)
    BY <1>1, <2>8, <2>9, SceneKept
  <2> QED
    BY <1>2, <1>4, <2>8, <2>11, <2>12, <2>13 DEF Owned
<1> QED
  BY <1>3, <1>4

---------------------------------------------------------------------------
(* The loaders.                                                            *)

\* Model i is the page's body now: a VRM or an Inochi2D model.
Installs(x, pg, i, vrm, inochi) ==
  /\ Except(x, pg, {"vrm", "inochi", "scene", "modelVisible", "botVisible", "layered",
                    "listed", "selected"})
  /\ x.scene = (pg.scene \ {pg.inochi, pg.vrm}) \cup {i} /\ x.vrm = vrm /\ x.inochi = inochi
  /\ x.modelVisible = TRUE /\ x.botVisible = FALSE /\ x.layered = FALSE
  /\ SelectorFits(x)

\* installVrm: the new model takes the place of both models of the page.
LEMMA InstallVrmDoes ==
  ASSUME NEW pg, PageShape(pg), NEW i
  PROVE  Installs(InstallVrm(pg, i), pg, i, i, None)
<1>0. DOMAIN pg = PageFields /\ Present(pg) \subseteq Participants
  BY DEF PageShape
<1>1. PICK a : a = DropVrm(DisposeInochiAvatar(pg))
  OBVIOUS
<1>2. /\ Except(a, pg, {"vrm", "inochi", "scene"}) /\ a.vrm = None /\ a.inochi = None
      /\ a.scene = pg.scene \ {pg.inochi, pg.vrm}
  BY <1>0, <1>1 DEF Except, PageFields, DropVrm, DisposeInochiAvatar
<1>3. PICK b : b = DisableLayeredAvatar(a)
  OBVIOUS
<1>4. Except(b, a, {"layered", "modelVisible"}) /\ b.layered = FALSE
  BY <1>2, <1>3 DEF Except, PageFields, DisableLayeredAvatar
<1>5. PICK c : c = [b EXCEPT !.vrm = i, !.scene = @ \cup {i}, !.modelVisible = TRUE,
                             !.botVisible = FALSE]
  OBVIOUS
<1>6. /\ Except(c, b, {"vrm", "scene", "modelVisible", "botVisible"}) /\ c.vrm = i
      /\ c.scene = b.scene \cup {i} /\ c.modelVisible = TRUE /\ c.botVisible = FALSE
  BY <1>4, <1>5 DEF Except, PageFields
<1>7. PICK x : x = RefreshSelector(c)
  OBVIOUS
<1>8. x = InstallVrm(pg, i)
  BY <1>1, <1>3, <1>5, <1>7 DEF InstallVrm
<1>9. Except(x, c, {"listed", "selected"})
  BY <1>6, <1>7, RefreshKeeps DEF Except
<1>10. SelectorFits(x)
  <2>1. Present(c) = Present(pg) /\ DOMAIN c = PageFields
    BY <1>2, <1>4, <1>6 DEF Except, PageFields, Present
  <2> QED
    BY <1>0, <1>7, <2>1, RefreshFits
<1> QED
  BY <1>2, <1>4, <1>6, <1>8, <1>9, <1>10 DEF Except, PageFields, Installs

\* installInochi, likewise.
LEMMA InstallInochiDoes ==
  ASSUME NEW pg, PageShape(pg), NEW i
  PROVE  Installs(InstallInochi(pg, i), pg, i, None, i)
<1>0. DOMAIN pg = PageFields /\ Present(pg) \subseteq Participants
  BY DEF PageShape
<1>1. PICK a : a = DropVrm(DisposeInochiAvatar(pg))
  OBVIOUS
<1>2. /\ Except(a, pg, {"vrm", "inochi", "scene"}) /\ a.vrm = None /\ a.inochi = None
      /\ a.scene = pg.scene \ {pg.inochi, pg.vrm}
  BY <1>0, <1>1 DEF Except, PageFields, DropVrm, DisposeInochiAvatar
<1>3. PICK b : b = DisableLayeredAvatar(a)
  OBVIOUS
<1>4. Except(b, a, {"layered", "modelVisible"}) /\ b.layered = FALSE
  BY <1>2, <1>3 DEF Except, PageFields, DisableLayeredAvatar
<1>5. PICK c : c = [b EXCEPT !.inochi = i, !.scene = @ \cup {i}, !.modelVisible = TRUE,
                             !.botVisible = FALSE]
  OBVIOUS
<1>6. /\ Except(c, b, {"inochi", "scene", "modelVisible", "botVisible"}) /\ c.inochi = i
      /\ c.scene = b.scene \cup {i} /\ c.modelVisible = TRUE /\ c.botVisible = FALSE
  BY <1>4, <1>5 DEF Except, PageFields
<1>7. PICK x : x = RefreshSelector(c)
  OBVIOUS
<1>8. x = InstallInochi(pg, i)
  BY <1>1, <1>3, <1>5, <1>7 DEF InstallInochi
<1>9. Except(x, c, {"listed", "selected"})
  BY <1>6, <1>7, RefreshKeeps DEF Except
<1>10. SelectorFits(x)
  <2>1. Present(c) = Present(pg) /\ DOMAIN c = PageFields
    BY <1>2, <1>4, <1>6 DEF Except, PageFields, Present
  <2> QED
    BY <1>0, <1>7, <2>1, RefreshFits
<1> QED
  BY <1>2, <1>4, <1>6, <1>8, <1>9, <1>10 DEF Except, PageFields, Installs

\* The PNG layers take the place of the Inochi2D model and of the bot.
LEMMA InstallLayersDoes ==
  ASSUME NEW pg, PageShape(pg)
  PROVE  LET x == InstallLayers(pg) IN
         /\ Except(x, pg, {"inochi", "scene", "modelVisible", "botVisible", "layered"})
         /\ x.scene = pg.scene \ {pg.inochi} /\ x.inochi = None
         /\ x.modelVisible = FALSE /\ x.botVisible = FALSE /\ x.layered = TRUE
<1>0. DOMAIN pg = PageFields
  BY DEF PageShape
<1>1. PICK a : a = DisposeInochiAvatar(pg)
  OBVIOUS
<1>2. Except(a, pg, {"inochi", "scene"}) /\ a.inochi = None /\ a.scene = pg.scene \ {pg.inochi}
  BY <1>0, <1>1 DEF Except, PageFields, DisposeInochiAvatar
<1>3. PICK b : b = DisableLayeredAvatar(a)
  OBVIOUS
<1>4. Except(b, a, {"layered", "modelVisible"})
  BY <1>2, <1>3 DEF Except, PageFields, DisableLayeredAvatar
<1>5. PICK x : x = [b EXCEPT !.layered = TRUE, !.modelVisible = FALSE, !.botVisible = FALSE]
  OBVIOUS
<1>6. /\ Except(x, b, {"layered", "modelVisible", "botVisible"})
      /\ x.modelVisible = FALSE /\ x.botVisible = FALSE /\ x.layered = TRUE
  BY <1>4, <1>5 DEF Except, PageFields
<1>7. x = InstallLayers(pg)
  BY <1>1, <1>3, <1>5 DEF InstallLayers
<1> QED
  BY <1>2, <1>4, <1>6, <1>7 DEF Except, PageFields

\* What a rendered frame shows of the first participant; a model that fails goes.
LEMMA DrawDoes ==
  ASSUME NEW pg, PageShape(pg), NEW fails \in BOOLEAN
  PROVE  LET x == Draw(pg, fails) IN
         /\ Except(x, pg, {"inochi", "scene", "botVisible", "modelVisible"})
         /\ fails => x.inochi = None /\ x.scene = pg.scene \ {pg.inochi}
         /\ ~fails => x.inochi = pg.inochi /\ x.scene = pg.scene
         /\ x.botVisible = IF pg.layered \/ x.inochi # None \/ x.vrm # None
                           THEN fails \/ pg.botVisible ELSE pg.primaryShown
         /\ x.modelVisible = IF ~pg.layered /\ (x.inochi # None \/ x.vrm # None)
                             THEN pg.primaryShown ELSE pg.modelVisible
<1>0. DOMAIN pg = PageFields /\ pg.primaryShown \in BOOLEAN
  BY DEF PageShape
<1>1. PICK d : d = IF fails THEN [DisposeInochiAvatar(pg) EXCEPT !.botVisible = TRUE] ELSE pg
  OBVIOUS
<1>2. /\ Except(d, pg, {"inochi", "scene", "botVisible"})
      /\ fails => d.inochi = None /\ d.scene = pg.scene \ {pg.inochi} /\ d.botVisible = TRUE
      /\ ~fails => d.inochi = pg.inochi /\ d.scene = pg.scene /\ d.botVisible = pg.botVisible
  <2>1. CASE fails
    <3>1. PICK e : e = DisposeInochiAvatar(pg)
      OBVIOUS
    <3>2. Except(e, pg, {"inochi", "scene"}) /\ e.inochi = None /\ e.scene = pg.scene \ {pg.inochi}
      BY <1>0, <3>1 DEF Except, PageFields, DisposeInochiAvatar
    <3>3. d = [e EXCEPT !.botVisible = TRUE]
      BY <1>1, <2>1, <3>1
    <3> QED
      BY <2>1, <3>2, <3>3 DEF Except, PageFields
  <2>2. CASE ~fails
    BY <1>0, <1>1, <2>2 DEF Except
  <2> QED
    BY <2>1, <2>2
<1>3. PICK x : x = Draw(pg, fails)
  OBVIOUS
<1>4. x = IF d.layered THEN d
          ELSE IF d.inochi # None \/ d.vrm # None THEN [d EXCEPT !.modelVisible = pg.primaryShown]
          ELSE [d EXCEPT !.botVisible = pg.primaryShown]
  BY <1>1, <1>3 DEF Draw
<1>5. /\ Except(x, d, {"botVisible", "modelVisible"})
      /\ x.inochi = d.inochi /\ x.scene = d.scene /\ x.vrm = d.vrm
      /\ d.layered = pg.layered
  BY <1>2, <1>4 DEF Except, PageFields
<1>6. x.botVisible = IF pg.layered \/ x.inochi # None \/ x.vrm # None
                           THEN d.botVisible ELSE pg.primaryShown
  BY <1>2, <1>4, <1>5 DEF Except, PageFields
<1>7. x.modelVisible = IF ~pg.layered /\ (x.inochi # None \/ x.vrm # None)
                             THEN pg.primaryShown ELSE pg.modelVisible
  BY <1>2, <1>4, <1>5 DEF Except, PageFields
<1>8. Except(x, pg, {"inochi", "scene", "botVisible", "modelVisible"})
  BY <1>2, <1>5 DEF Except, PageFields
<1>9. d.botVisible = (fails \/ pg.botVisible)
  BY <1>2 DEF PageShape
<1> HIDE <1>4
<1> QED
  BY <1>2, <1>3, <1>5, <1>6, <1>7, <1>8, <1>9

\* A model of the page gives way to another, or to none.
LEMMA PageScene ==
  ASSUME NEW ls, LoadsShape(ls), NEW lt, NEW pg, PageShape(pg), SceneMatches(pg, ls, lt),
         NEW x, x.additional = pg.additional,
         NEW new \in SUBSET Done(ls), new \cap lt = {}, NEW gone \in SUBSET {pg.vrm, pg.inochi},
         x.scene = (pg.scene \ gone) \cup new,
         {x.vrm, x.inochi} \ {None} = (({pg.vrm, pg.inochi} \ gone) \cup new) \ {None},
         ModelsFit(x, ls)
  PROVE  SceneMatches(x, ls, lt)
<1> DEFINE others == {pg.additional[p].vrm : p \in DOMAIN pg.additional}
<1>1. None \notin DOMAIN ls /\ None \notin Participants
  BY ViewerAssumption DEF None, LoadsShape
<1>2. Models(x) = {x.vrm, x.inochi} \cup others /\ Models(pg) = {pg.vrm, pg.inochi} \cup others
  BY DEF Models
<1>3. (others \ {None}) \cap gone = {}
  BY <1>1 DEF SceneMatches, ModelsFit, PageShape
<1>4. None \notin lt /\ None \notin new
  BY <1>1 DEF SceneMatches, Done
<1> HIDE DEF others
<1> QED
  BY <1>2, <1>3, <1>4 DEF SceneMatches

\* The model that has been loaded is none that stands in the scene.
Fresh(i, pg, ls, lt) == i \in Done(ls) /\ i \notin pg.scene /\ i \notin lt

\* A model just loaded becomes the page's body.
LEMMA InstallsOwned ==
  ASSUME NEW ls, LoadsShape(ls), NEW lt, NEW pg, Owned(pg, ls, lt),
         NEW i, Fresh(i, pg, ls, lt), ls[i].to = None,
         NEW x, NEW vrm, NEW inochi, Installs(x, pg, i, vrm, inochi),
         \/ vrm = i /\ inochi = None /\ ls[i].kind = "vrm"
         \/ vrm = None /\ inochi = i /\ ls[i].kind = "inochi"
  PROVE  Owned(x, ls, lt) /\ x.gate = pg.gate /\ x.primaryHandle = pg.primaryHandle
<1>0. PageShape(pg) /\ RoomSettled(pg) /\ SceneMatches(pg, ls, lt) /\ i \in Nat /\ i # None
  BY DEF Owned, Fresh, Done, LoadsShape, None
<1>1. vrm \in Nat /\ inochi \in Nat /\ {vrm, inochi} \ {None} = {i}
  BY <1>0 DEF None
<1>2. /\ Except(x, pg, {"vrm", "inochi", "scene", "modelVisible", "botVisible", "layered",
                           "listed", "selected"})
      /\ x.scene = (pg.scene \ {pg.inochi, pg.vrm}) \cup {i} /\ x.vrm = vrm /\ x.inochi = inochi
      /\ SelectorFits(x)
  BY DEF Installs
<1>3. /\ Except(x, pg, {"gate", "primaryShown", "botVisible", "vrm", "inochi", "modelVisible",
                        "layered", "scene", "listed", "selected", "requested"})
      /\ x.gate = pg.gate /\ x.primaryHandle = pg.primaryHandle
      /\ x.primaryShown = pg.primaryShown /\ x.additional = pg.additional
  BY <1>2 DEF Except, PageFields
<1>4. PageShape(x) /\ RoomSettled(x)
  <2>1. x.gate \in Seqs \cup {NoSeq} /\ x.primaryShown \in BOOLEAN
    BY <1>0, <1>3 DEF PageShape
  <2>2. x.botVisible \in BOOLEAN /\ x.modelVisible \in BOOLEAN /\ x.layered \in BOOLEAN
    BY Zenon DEF Installs
  <2> QED
    BY <1>0, <1>1, <1>2, <1>3, <2>1, <2>2, SameRoom
<1>5. SceneMatches(x, ls, lt)
  <2>1. ModelsFit(x, ls)
    BY <1>0, <1>2, <1>3 DEF ModelsFit, SceneMatches, Fresh
  <2>2. PICK new, gone : new = {i} /\ gone = {pg.vrm, pg.inochi}
    OBVIOUS
  <2>3. new \in SUBSET Done(ls) /\ new \cap lt = {} /\ gone \in SUBSET {pg.vrm, pg.inochi}
    BY <2>2 DEF Fresh
  <2>4. x.scene = (pg.scene \ gone) \cup new
    BY <1>2, <2>2
  <2>5. {x.vrm, x.inochi} \ {None} = (({pg.vrm, pg.inochi} \ gone) \cup new) \ {None}
    BY <1>0, <1>1, <1>2, <2>2
  <2> HIDE <2>2
  <2> QED
    BY <1>0, <1>3, <2>1, <2>3, <2>4, <2>5, PageScene
<1> QED
  BY <1>3, <1>4, <1>5 DEF Owned

\* The Inochi2D model goes, for layers or because it has failed.
LEMMA InochiLeaves ==
  ASSUME NEW ls, LoadsShape(ls), NEW lt, NEW pg, Owned(pg, ls, lt), NEW x,
         Except(x, pg, {"inochi", "scene", "modelVisible", "botVisible", "layered"}),
         x.modelVisible \in BOOLEAN, x.botVisible \in BOOLEAN, x.layered \in BOOLEAN,
         \/ x.inochi = None /\ x.scene = pg.scene \ {pg.inochi}
         \/ x.inochi = pg.inochi /\ x.scene = pg.scene
  PROVE  Owned(x, ls, lt) /\ x.gate = pg.gate /\ x.primaryHandle = pg.primaryHandle
<1>0. PageShape(pg) /\ RoomSettled(pg) /\ SceneMatches(pg, ls, lt)
  BY DEF Owned
<1>3. /\ Except(x, pg, {"gate", "primaryShown", "botVisible", "vrm", "inochi", "modelVisible",
                        "layered", "scene", "listed", "selected", "requested"})
      /\ x.gate = pg.gate /\ x.primaryHandle = pg.primaryHandle
      /\ x.primaryShown = pg.primaryShown /\ x.additional = pg.additional
      /\ x.vrm = pg.vrm /\ x.listed = pg.listed /\ x.selected = pg.selected
  BY DEF Except, PageFields
<1>4. PageShape(x) /\ RoomSettled(x)
  <2>1. /\ pg.gate \in Seqs \cup {NoSeq} /\ pg.primaryShown \in BOOLEAN /\ x.vrm \in Nat
        /\ x.inochi \in Nat /\ SelectorFits(x)
    BY <1>0, <1>3 DEF PageShape, SelectorFits, None
  <2> QED
    BY <1>0, <1>3, <2>1, SameRoom
<1>5. SceneMatches(x, ls, lt)
  <2>1. CASE x.inochi = None /\ x.scene = pg.scene \ {pg.inochi}
    <3>1. ModelsFit(x, ls)
      BY <1>0, <1>3, <2>1 DEF ModelsFit, SceneMatches
    <3>2. PICK new, gone : new = {} /\ gone = {pg.inochi}
      OBVIOUS
    <3>3. new \in SUBSET Done(ls) /\ new \cap lt = {} /\ gone \in SUBSET {pg.vrm, pg.inochi}
      BY <3>2
    <3>4. x.scene = (pg.scene \ gone) \cup new
      BY <2>1, <3>2
    <3>5. {x.vrm, x.inochi} \ {None} = (({pg.vrm, pg.inochi} \ gone) \cup new) \ {None}
      BY <1>0, <1>3, <2>1, <3>2 DEF ModelsFit, SceneMatches
    <3> HIDE <3>2
    <3> QED
      BY <1>0, <1>3, <3>1, <3>3, <3>4, <3>5, PageScene
  <2>2. CASE x.inochi = pg.inochi /\ x.scene = pg.scene
    BY <1>0, <1>3, <2>2, SceneKept
  <2> QED
    BY <2>1, <2>2
<1> QED
  BY <1>3, <1>4, <1>5 DEF Owned

\* What becomes of one load.
Becomes(ls, i, e) == /\ e \in LoadRecord /\ (e.to # None => e.kind = "vrm")
                     /\ ls = [loads EXCEPT ![i] = e]

\* A load that was not done changes its state.
LEMMA BecomesFits ==
  ASSUME LoadsShape(loads), NEW i \in DOMAIN loads, loads[i].state # "done",
         NEW ls, NEW e, Becomes(ls, i, e), NEW pg, NEW lt, Owned(pg, loads, lt)
  PROVE  /\ LoadsShape(ls) /\ Owned(pg, ls, lt)
         /\ DOMAIN ls = DOMAIN loads /\ ls[i] = e /\ \A m \in DOMAIN loads \ {i} : ls[m] = loads[m]
         /\ i \notin pg.scene /\ i \notin lt /\ pg.scene \subseteq DOMAIN loads
<1>1. loads \in Seq(LoadRecord) /\ e \in LoadRecord /\ ls = [loads EXCEPT ![i] = e]
  BY DEF LoadsShape, Becomes
<1>2. /\ DOMAIN ls = DOMAIN loads /\ ls[i] = e
      /\ \A m \in DOMAIN loads \ {i} : ls[m] = loads[m]
  BY <1>1
<1>3. ls \in Seq(LoadRecord)
  BY <1>1
<1>4. LoadsShape(ls)
  BY <1>2, <1>3 DEF LoadsShape, Becomes
<1>5. \A m \in Done(loads) : ls[m] = loads[m]
  BY <1>2 DEF Done
<1>6. Owned(pg, ls, lt)
  BY <1>2, <1>5, LoadsGrow DEF Owned
<1>7. pg.scene \subseteq Done(loads) /\ lt \subseteq Done(loads)
  <2>1. Models(pg) \ {None} \subseteq Done(loads)
    BY DEF Owned, SceneMatches, ModelsFit, Models
  <2> QED
    BY <2>1 DEF Owned, SceneMatches
<1> QED
  BY <1>2, <1>4, <1>6, <1>7 DEF Done

\* The state of a load is all that changes of it.
LEMMA StateOfLoad ==
  ASSUME LoadsShape(loads), NEW i \in DOMAIN loads,
         NEW state \in {"reading", "loading", "done", "failed", "dropped"}
  PROVE  LET e == [loads[i] EXCEPT !.state = state] IN
         /\ Becomes([loads EXCEPT ![i].state = state], i, e) /\ e.state = state
         /\ e.to = loads[i].to /\ e.made = loads[i].made /\ e.kind = loads[i].kind
<1>1. loads[i] \in LoadRecord /\ (loads[i].to # None => loads[i].kind = "vrm")
  BY DEF LoadsShape
<1> QED
  BY <1>1 DEF Becomes, LoadRecord

\* loadVrmForParticipant: the runtime is there, and has a new model.
LEMMA AttachServes ==
  ASSUME NEW ls, LoadsShape(ls), NEW lt, NEW pg, Owned(pg, ls, lt),
         NEW i, Fresh(i, pg, ls, lt), StillServes(pg, i),
         pg.scene \subseteq DOMAIN loads, i \in DOMAIN loads, ls[i].to # None,
         \A m \in DOMAIN loads : ls[m].to = loads[m].to /\ ls[m].made = loads[m].made
  PROVE  LET x == AttachToRuntime(pg, i) IN
         Owned(x, ls, lt) /\ x.gate = pg.gate /\ x.primaryHandle = pg.primaryHandle
<1>0. /\ PageShape(pg) /\ RoomSettled(pg) /\ SceneMatches(pg, ls, lt) /\ DOMAIN pg = PageFields
      /\ Present(pg) \subseteq Participants
  BY DEF Owned, PageShape
<1>1. PICK p : p = loads[i].to
  OBVIOUS
<1>2. /\ p \in DOMAIN pg.additional /\ pg.additional[p].made = ls[i].made /\ ls[i].to = p
      /\ p # None
  BY <1>1 DEF StillServes
<1>3. PICK former : former = {m \in pg.scene : loads[m].to = loads[i].to /\ loads[m].made = loads[i].made}
  OBVIOUS
<1>4. \A m \in pg.scene : m \in former <=> ls[m].to = p /\ ls[m].made = ls[i].made
  BY <1>1, <1>3
<1>5. PICK staged : staged = [pg EXCEPT !.scene = (@ \ former) \cup {i}]
  OBVIOUS
<1>6. Except(staged, pg, {"scene"}) /\ staged.scene = (pg.scene \ former) \cup {i}
  BY <1>0, <1>5 DEF Except, PageFields
<1>7. PICK y : y = [staged EXCEPT !.additional[loads[i].to].vrm = i]
  OBVIOUS
<1>8. PICK e : e = pg.additional[p]
  OBVIOUS
<1>9. e \in Body
  BY <1>0, <1>2, <1>8 DEF PageShape
<1>10. /\ Except(y, staged, {"additional"})
       /\ y.additional = [pg.additional EXCEPT ![p] = [e EXCEPT !.vrm = i]]
  <2>1. DOMAIN staged = PageFields /\ staged.additional = pg.additional
    BY <1>6 DEF Except, PageFields
  <2> QED
    BY <1>1, <1>2, <1>7, <1>8, <2>1 DEF Except, PageFields
<1>11. PICK d : d = [e EXCEPT !.vrm = i]
  OBVIOUS
<1>12. d \in Body /\ d.made = e.made /\ d.vrm = i
  BY <1>9, <1>11 DEF Body, Fresh, Done, LoadsShape
<1>13. PICK x : x = RefreshSelector(y)
  OBVIOUS
<1>14. x = AttachToRuntime(pg, i)
  BY <1>3, <1>5, <1>7, <1>13 DEF AttachToRuntime
<1>15. Present(y) = Present(pg) /\ DOMAIN y = PageFields
  BY <1>6, <1>10 DEF Except, PageFields, Present
<1>16. Except(x, y, {"listed", "selected"}) /\ SelectorFits(x)
  BY <1>0, <1>13, <1>15, RefreshKeeps, RefreshFits
<1>17. /\ x.participants = pg.participants /\ x.generations = pg.generations
       /\ x.primaryId = pg.primaryId /\ x.primaryHandle = pg.primaryHandle /\ x.gate = pg.gate
       /\ x.vrm = pg.vrm /\ x.inochi = pg.inochi /\ x.scene = (pg.scene \ former) \cup {i}
       /\ x.primaryShown = pg.primaryShown /\ x.botVisible = pg.botVisible
       /\ x.modelVisible = pg.modelVisible /\ x.layered = pg.layered /\ DOMAIN x = PageFields
       /\ x.additional = y.additional
  BY <1>6, <1>10, <1>16 DEF Except, PageFields
<1>18. /\ DOMAIN x.additional = DOMAIN pg.additional /\ Present(x) = Present(pg)
       /\ x.additional \in [DOMAIN pg.additional -> Body]
       /\ x.additional[p] = d
       /\ \A q \in DOMAIN pg.additional : /\ x.additional[q].made = pg.additional[q].made
                                          /\ q # p => x.additional[q] = pg.additional[q]
  <2>1. x.additional = [pg.additional EXCEPT ![p] = d]
    BY <1>10, <1>11, <1>17
  <2>2. pg.additional \in [DOMAIN pg.additional -> Body]
    BY <1>0 DEF PageShape
  <2>3. Present(x) = Present(pg)
    BY <1>17 DEF Present
  <2> QED
    BY <1>2, <1>8, <1>12, <2>1, <2>2, <2>3
<1>19. PageShape(x)
  BY <1>0, <1>16, <1>17, <1>18 DEF PageShape, SelectorFits
<1>20. RoomSettled(x)
  BY <1>0, <1>17, <1>18 DEF RoomSettled
<1>21. SceneMatches(x, ls, lt)
  <2>1. i \in Done(ls) /\ i \notin lt /\ i # None
    BY DEF Fresh, Done, LoadsShape, None
  <2>2. ModelsFit(x, ls)
    BY <1>0, <1>2, <1>8, <1>12, <1>17, <1>18, <2>1 DEF ModelsFit, SceneMatches
  <2>3. None \notin lt
    BY <1>0 DEF SceneMatches, Done, LoadsShape, None
  <2>4. \A m \in Models(x) : m = i \/ m \in Models(pg)
    BY <1>12, <1>17, <1>18 DEF Models
  <2>5. Models(x) \cap lt = {}
    BY <1>0, <2>1, <2>4 DEF SceneMatches
  <2>6. ASSUME NEW m \in x.scene \ lt PROVE m \in Models(x) \ {None}
    <3>1. CASE m = i
      <4>1. i \in Models(x)
        BY <1>2, <1>12, <1>18 DEF Models
      <4> QED
        BY <2>1, <3>1, <4>1
    <3>2. CASE m # i
      <4>1. m \in Models(pg) \ {None} /\ m \notin former /\ m \in pg.scene
        BY <1>0, <1>17, <2>6, <3>2 DEF SceneMatches
      <4>2. m # pg.additional[p].vrm
        BY <1>0, <1>2, <1>4, <4>1 DEF SceneMatches, ModelsFit
      <4> QED
        BY <1>17, <1>18, <4>1, <4>2 DEF Models
    <3> QED
      BY <3>1, <3>2
  <2>7. ASSUME NEW m \in Models(x) \ {None} PROVE m \in x.scene \ lt
    <3>1. CASE m = i
      BY <1>17, <2>1, <3>1
    <3>2. CASE m # i
      <4>1. m \in Models(pg) \ {None} /\ m \in pg.scene /\ m \notin lt
        BY <1>0, <2>4, <2>7, <3>2 DEF SceneMatches
      <4>2. ls[m].to # p
        <5>1. CASE m \in {pg.vrm, pg.inochi}
          BY <1>0, <1>2, <4>1, <5>1 DEF SceneMatches, ModelsFit
        <5>2. CASE m \notin {pg.vrm, pg.inochi}
          <6>1. PICK q \in DOMAIN pg.additional \ {p} : m = pg.additional[q].vrm
            BY <1>12, <1>17, <1>18, <2>7, <3>2, <5>2 DEF Models
          <6> QED
            BY <1>0, <4>1, <6>1 DEF SceneMatches, ModelsFit
        <5> QED
          BY <5>1, <5>2
      <4> QED
        BY <1>4, <1>17, <4>1, <4>2
    <3> QED
      BY <3>1, <3>2
  <2>8. x.scene \ lt = Models(x) \ {None}
    BY <2>6, <2>7
  <2> QED
    BY <1>0, <2>2, <2>5, <2>8 DEF SceneMatches
<1> QED
  BY <1>14, <1>17, <1>19, <1>20, <1>21 DEF Owned

\* ... or it has been disposed: the model comes too late.
LEMMA AttachIsLate ==
  ASSUME NEW ls, LoadsShape(ls), NEW lt, NEW pg, Owned(pg, ls, lt),
         NEW i, Fresh(i, pg, ls, lt), ~StillServes(pg, i), NEW after, \A m : m \in after <=> m \in lt \/ m = i,
         pg.scene \subseteq DOMAIN loads, i \in DOMAIN loads, ls[i].to # None,
         \A m \in DOMAIN loads : ls[m].to = loads[m].to /\ ls[m].made = loads[m].made
  PROVE  LET x == AttachToRuntime(pg, i) IN
         Owned(x, ls, after) /\ x.gate = pg.gate /\ x.primaryHandle = pg.primaryHandle
<1>0. /\ PageShape(pg) /\ RoomSettled(pg) /\ SceneMatches(pg, ls, lt) /\ DOMAIN pg = PageFields
      /\ Present(pg) \subseteq Participants
  BY DEF Owned, PageShape
<1>1. PICK p : p = loads[i].to
  OBVIOUS
<1>2. ls[i].to = p /\ p # None /\ (p \in DOMAIN pg.additional => pg.additional[p].made # ls[i].made)
  BY <1>1 DEF StillServes
<1>3. PICK former : former = {m \in pg.scene : loads[m].to = loads[i].to /\ loads[m].made = loads[i].made}
  OBVIOUS
<1>4. \A m \in pg.scene : m \in former <=> ls[m].to = p /\ ls[m].made = ls[i].made
  BY <1>1, <1>3
<1>5. PICK staged : staged = [pg EXCEPT !.scene = (@ \ former) \cup {i}]
  OBVIOUS
<1>6. Except(staged, pg, {"scene"}) /\ staged.scene = (pg.scene \ former) \cup {i}
  BY <1>0, <1>5 DEF Except, PageFields
<1>13. PICK x : x = RefreshSelector(staged)
  OBVIOUS
<1>14. x = AttachToRuntime(pg, i)
  BY <1>3, <1>5, <1>13 DEF AttachToRuntime
<1>15. Present(staged) = Present(pg) /\ DOMAIN staged = PageFields
  BY <1>6 DEF Except, PageFields, Present
<1>16. Except(x, staged, {"listed", "selected"}) /\ SelectorFits(x)
  BY <1>0, <1>13, <1>15, RefreshKeeps, RefreshFits
<1>17. /\ Except(x, pg, {"scene", "listed", "selected"})
       /\ x.scene = (pg.scene \ former) \cup {i}
  BY <1>6, <1>16 DEF Except, PageFields
<1>18. /\ x.primaryHandle = pg.primaryHandle /\ x.gate = pg.gate
       /\ x.vrm = pg.vrm /\ x.inochi = pg.inochi /\ x.additional = pg.additional
       /\ x.primaryShown = pg.primaryShown /\ x.botVisible = pg.botVisible
       /\ x.modelVisible = pg.modelVisible /\ x.layered = pg.layered
       /\ Except(x, pg, {"gate", "primaryShown", "botVisible", "vrm", "inochi", "modelVisible",
                         "layered", "scene", "listed", "selected", "requested"})
  BY <1>17 DEF Except, PageFields
<1>19. PageShape(x) /\ RoomSettled(x)
  <2>1. /\ pg.gate \in Seqs \cup {NoSeq} /\ pg.vrm \in Nat /\ pg.inochi \in Nat
        /\ pg.primaryShown \in BOOLEAN /\ pg.botVisible \in BOOLEAN
        /\ pg.modelVisible \in BOOLEAN /\ pg.layered \in BOOLEAN
    BY <1>0 DEF PageShape
  <2> QED
    BY <1>0, <1>16, <1>18, <2>1, SameRoom
<1>20. SceneMatches(x, ls, after)
  <2>1. i \in Done(ls) /\ i \notin lt /\ i \notin pg.scene
    BY DEF Fresh
  <2>2. ModelsFit(x, ls) /\ Models(x) = Models(pg)
    BY <1>0, <1>18 DEF ModelsFit, SceneMatches, Models
  <2>3. \A m \in Models(pg) \ {None} : m \in pg.scene /\ m \notin lt /\ m # i /\ m \notin former
    <3> SUFFICES ASSUME NEW m \in Models(pg) \ {None}, m \in former PROVE FALSE
      BY <1>0, <2>1 DEF SceneMatches
    <3>1. ls[m].to = p /\ ls[m].made = ls[i].made
      BY <1>3, <1>4
    <3>2. m \notin {pg.vrm, pg.inochi}
      BY <1>0, <1>2, <3>1 DEF SceneMatches, ModelsFit
    <3>3. PICK q \in DOMAIN pg.additional : m = pg.additional[q].vrm
      BY <3>2 DEF Models
    <3> QED
      BY <1>0, <1>2, <3>1, <3>3 DEF SceneMatches, ModelsFit
  <2>4. i \notin Models(pg)
    <3>1. i # None
      BY <2>1 DEF Done, LoadsShape, None
    <3> QED
      BY <2>3, <3>1
  <2>5. after \subseteq Done(ls)
    BY <1>0, <2>1 DEF SceneMatches
  <2>6. x.scene \ after = Models(pg) \ {None}
    BY <1>0, <1>17, <2>3 DEF SceneMatches
  <2>7. Models(pg) \cap after = {}
    BY <1>0, <2>4 DEF SceneMatches
  <2> QED
    BY <2>2, <2>5, <2>6, <2>7 DEF SceneMatches
<1> QED
  BY <1>14, <1>18, <1>19, <1>20 DEF Owned

---------------------------------------------------------------------------
(* The invariant and the steps.                                            *)

\* A gate that was set for a runtime was set for the one that is there.
GateMatches(pg, go) == go # None => go = pg.primaryHandle

\* Frames on their way are ones a tracker may have sent.
FramesFit ==
  /\ \A f \in net : f.from \in Participants /\ f.seq \in Seqs
  /\ tracker \in [Participants -> [seq : Seqs, reloads : Nat]]

\* The invariant of the rooms.
OwnedInv ==
  /\ LoadsShape(loads) /\ Owned(page, loads, late) /\ GateMatches(page, gateOf)
  /\ FramesFit

\* The page as it was loaded.
LEMMA OwnedInit == Init => OwnedInv
<1> SUFFICES ASSUME Init PROVE OwnedInv
  OBVIOUS
<1>1. page = NewPage /\ late = {} /\ gateOf = None
  BY DEF Init
<1>9. FramesFit
  <2>1. 0 \in Seqs
    BY FrameOrderAssumption DEF Seqs
  <2> QED
    BY <2>1 DEF Init, FramesFit
<1>2. LoadsShape(loads)
  <2>1. Load("vrm", None, None, 0, "loading") \in LoadRecord
    BY DEF Load, LoadRecord, None
  <2>2. loads = <<>> \/ loads = <<Load("vrm", None, None, 0, "loading")>>
    BY DEF Init
  <2>3. CASE loads = <<>>
    BY <2>3 DEF LoadsShape
  <2>4. CASE loads = <<Load("vrm", None, None, 0, "loading")>>
    <3>1. loads \in Seq(LoadRecord) /\ \A i \in DOMAIN loads : loads[i].kind = "vrm"
      BY <2>1, <2>4 DEF Load
    <3> QED
      BY <3>1 DEF LoadsShape
  <2> QED
    BY <2>2, <2>3, <2>4
<1>3. PICK pg : pg = page
  OBVIOUS
<1>4. /\ DOMAIN pg = PageFields /\ pg.participants = <<>> /\ pg.additional = <<>>
      /\ pg.generations = [p \in Participants |-> 0] /\ pg.primaryId = None
      /\ pg.primaryHandle = None /\ pg.gate = NoSeq /\ pg.vrm = None /\ pg.inochi = None
      /\ pg.scene = {} /\ pg.listed = {} /\ pg.selected = None
      /\ pg.primaryShown = TRUE /\ pg.botVisible = TRUE /\ pg.modelVisible = FALSE
      /\ pg.layered = FALSE
  BY <1>1, <1>3 DEF NewPage, PageFields
<1>5. Present(pg) = {} /\ DOMAIN pg.additional = {} /\ None \notin Participants /\ IsFiniteSet({})
  BY <1>4, FS_EmptySet, ViewerAssumption DEF Present, None
<1>6. PageShape(pg)
  <2>1. pg.participants \in [{} -> Entry] /\ pg.additional \in [{} -> Body]
    BY <1>4
  <2>2. /\ pg.primaryShown \in BOOLEAN /\ pg.botVisible \in BOOLEAN
        /\ pg.modelVisible \in BOOLEAN /\ pg.layered \in BOOLEAN
    BY <1>4, Zenon
  <2>3. /\ pg.generations \in [Participants -> Nat] /\ pg.primaryHandle \in Nat
        /\ pg.vrm \in Nat /\ pg.inochi \in Nat
    BY <1>4 DEF None
  <2> QED
    BY <1>4, <1>5, <2>1, <2>2, <2>3 DEF PageShape
<1>7. RoomSettled(pg)
  BY <1>4, <1>5 DEF RoomSettled
<1>8. SceneMatches(pg, loads, {})
  <2>1. Models(pg) = {None}
    BY <1>4, <1>5 DEF Models
  <2> QED
    BY <1>4, <1>5, <2>1 DEF SceneMatches, ModelsFit
<1> QED
  BY <1>1, <1>2, <1>3, <1>6, <1>7, <1>8, <1>9 DEF OwnedInv, FramesFit, Owned, GateMatches

\* What the selector, the gate and the layout change, nobody's models depend on.
LEMMA SameOwned ==
  ASSUME NEW ls, NEW lt, NEW pg, Owned(pg, ls, lt), NEW x,
         Except(x, pg, {"gate", "selected", "listed", "requested", "primaryShown"}),
         x.gate \in Seqs \cup {NoSeq}, SelectorFits(x), x.primaryShown \in BOOLEAN
  PROVE  Owned(x, ls, lt) /\ x.primaryHandle = pg.primaryHandle /\ Present(x) = Present(pg)
<1>0. PageShape(pg) /\ RoomSettled(pg) /\ SceneMatches(pg, ls, lt)
  BY DEF Owned
<1>1. /\ x.primaryHandle = pg.primaryHandle /\ x.additional = pg.additional
      /\ x.vrm = pg.vrm /\ x.inochi = pg.inochi /\ x.scene = pg.scene
      /\ x.botVisible = pg.botVisible
      /\ x.modelVisible = pg.modelVisible /\ x.layered = pg.layered
      /\ Except(x, pg, {"gate", "primaryShown", "botVisible", "vrm", "inochi", "modelVisible",
                        "layered", "scene", "listed", "selected", "requested"})
  BY DEF Except, PageFields
<1>2. PageShape(x) /\ RoomSettled(x) /\ Present(x) = Present(pg)
  <2>1. /\ pg.vrm \in Nat /\ pg.inochi \in Nat /\ pg.botVisible \in BOOLEAN
        /\ pg.modelVisible \in BOOLEAN /\ pg.layered \in BOOLEAN
    BY <1>0 DEF PageShape
  <2> QED
    BY <1>0, <1>1, <2>1, SameRoom
<1>3. SceneMatches(x, ls, lt)
  BY <1>0, <1>1, SceneKept
<1> QED
  BY <1>1, <1>2, <1>3 DEF Owned

\* updateRoomParticipantLayout
LEMMA LayoutOwned ==
  ASSUME NEW ls, LoadsShape(ls), NEW lt, NEW pg, Owned(pg, ls, lt)
  PROVE  LET x == Layout(pg) IN Owned(x, ls, lt) /\ GateKept(x, pg)
<1>1. PICK y : y = IF pg.primaryHandle # None /\ pg.primaryId \in LaidOut(pg) \ Expired(pg)
                   THEN [pg EXCEPT !.primaryShown = TRUE] ELSE pg
  OBVIOUS
<1>2. Layout(pg) = Prune(y)
  BY <1>1 DEF Layout
<1>3. Owned(y, ls, lt) /\ y.gate = pg.gate /\ y.primaryHandle = pg.primaryHandle
  <2>0. /\ DOMAIN pg = PageFields /\ pg.gate \in Seqs \cup {NoSeq} /\ SelectorFits(pg)
    BY DEF Owned, PageShape, SelectorFits
  <2>1. CASE y = pg
    BY <2>1
  <2>2. CASE y = [pg EXCEPT !.primaryShown = TRUE]
    <3>1. /\ Except(y, pg, {"gate", "selected", "listed", "requested", "primaryShown"})
          /\ y.gate = pg.gate /\ y.listed = pg.listed /\ y.selected = pg.selected
      BY <2>0, <2>2 DEF Except, PageFields
    <3>2. y.primaryShown \in BOOLEAN
      BY <2>0, <2>2 DEF PageFields
    <3> QED
      BY <2>0, <3>1, <3>2, SameOwned DEF SelectorFits
  <2> QED
    BY <1>1, <2>1, <2>2
<1>4. PICK x : x = Prune(y)
  OBVIOUS
<1>5. Owned(x, ls, lt) /\ GateKept(x, y)
  BY <1>3, <1>4, PruneOwned
<1> QED
  BY <1>2, <1>3, <1>4, <1>5 DEF GateKept

\* The user selects a participant.
LEMMA SelectStep ==
  ASSUME OwnedInv, NEW p \in Participants, SelectParticipant(p) PROVE OwnedInv'
<1>1. page' = [page EXCEPT !.selected = p] /\ UNCHANGED <<loads, net, tracker, gateOf, late>>
  BY DEF SelectParticipant, envVars
<1>2. PICK x : x = [page EXCEPT !.selected = p]
  OBVIOUS
<1>3. DOMAIN page = PageFields /\ page.gate \in Seqs \cup {NoSeq} /\ SelectorFits(page)
      /\ page.primaryShown \in BOOLEAN
  BY DEF OwnedInv, FramesFit, Owned, PageShape, SelectorFits
<1>4. /\ Except(x, page, {"gate", "selected", "listed", "requested", "primaryShown"})
      /\ x.gate = page.gate /\ x.listed = page.listed /\ x.selected = p
      /\ x.primaryShown = page.primaryShown
  BY <1>2, <1>3 DEF Except, PageFields
<1>5. Owned(x, loads, late) /\ x.primaryHandle = page.primaryHandle
  BY <1>3, <1>4, SameOwned DEF OwnedInv, FramesFit, SelectorFits
<1> QED
  BY <1>1, <1>2, <1>5 DEF OwnedInv, FramesFit, GateMatches

\* A replay writes the gate.
LEMMA GateSetByReplay ==
  ASSUME OwnedInv, NEW seq \in Seqs \cup {NoSeq}
  PROVE  LET x == [page EXCEPT !.gate = seq] IN
         Owned(x, loads, late) /\ x.primaryHandle = page.primaryHandle
<1>2. PICK x : x = [page EXCEPT !.gate = seq]
  OBVIOUS
<1>3. DOMAIN page = PageFields /\ SelectorFits(page) /\ page.primaryShown \in BOOLEAN
  BY DEF OwnedInv, FramesFit, Owned, PageShape, SelectorFits
<1>4. /\ Except(x, page, {"gate", "selected", "listed", "requested", "primaryShown"})
      /\ x.gate = seq /\ x.listed = page.listed /\ x.selected = page.selected
      /\ x.primaryShown = page.primaryShown
  BY <1>2, <1>3 DEF Except, PageFields
<1>5. Owned(x, loads, late) /\ x.primaryHandle = page.primaryHandle
  BY <1>3, <1>4, SameOwned DEF OwnedInv, FramesFit, SelectorFits
<1> QED
  BY <1>2, <1>5

\* connect() opens the gate.
LEMMA ConnectStep == OwnedInv /\ Connect => OwnedInv'
<1> SUFFICES ASSUME OwnedInv, Connect PROVE OwnedInv'
  OBVIOUS
<1>1. /\ page' = [page EXCEPT !.gate = NoSeq] /\ gateOf' = None /\ net' = {}
      /\ UNCHANGED <<loads, late, tracker>>
  BY DEF Connect, ResetOrderGate
<1>2. Owned([page EXCEPT !.gate = NoSeq], loads, late)
  BY GateSetByReplay
<1> QED
  BY <1>1, <1>2 DEF OwnedInv, FramesFit, GateMatches

\* A recording is started.
LEMMA StartReplayStep ==
  ASSUME OwnedInv, NEW seq \in Seqs, StartReplay(seq) PROVE OwnedInv'
<1>1. /\ page' = [page EXCEPT !.gate = seq] /\ gateOf' = None /\ net' = {}
      /\ UNCHANGED <<loads, late, tracker>>
  BY DEF StartReplay
<1>2. Owned([page EXCEPT !.gate = seq], loads, late)
  BY GateSetByReplay
<1> QED
  BY <1>1, <1>2 DEF OwnedInv, FramesFit, GateMatches

\* A recorded frame is shown.
LEMMA ReplayStepStep ==
  ASSUME OwnedInv, NEW seq \in Seqs, ReplayStep(seq) PROVE OwnedInv'
<1>1. /\ page' = [page EXCEPT !.gate = Accept(page.gate, seq)] /\ UNCHANGED <<loads, late, net, tracker>>
      /\ gateOf' = None \/ gateOf' = gateOf
  BY DEF ReplayStep, envVars
<1>2. Accept(page.gate, seq) \in Seqs \cup {NoSeq}
  BY DEF Accept, OwnedInv, FramesFit, Owned, PageShape
<1>3. PICK x : x = [page EXCEPT !.gate = Accept(page.gate, seq)]
  OBVIOUS
<1>4. Owned(x, loads, late) /\ x.primaryHandle = page.primaryHandle
  BY <1>2, <1>3, GateSetByReplay
<1> QED
  BY <1>1, <1>3, <1>4 DEF OwnedInv, FramesFit, GateMatches

\* Time passes.
LEMMA TickStep == OwnedInv /\ Tick => OwnedInv'
<1> SUFFICES ASSUME OwnedInv, Tick PROVE OwnedInv'
  OBVIOUS
<1>0. PageShape(page) /\ RoomSettled(page) /\ SceneMatches(page, loads, late)
  BY DEF OwnedInv, FramesFit, Owned
<1>5. PICK aged : aged = Aged(page.participants)
  OBVIOUS
<1>6. PICK x : x = [page EXCEPT !.participants = aged]
  OBVIOUS
<1>1. page' = x /\ UNCHANGED <<loads, late, net, tracker, gateOf>>
  BY <1>5, <1>6 DEF Tick, envVars
<1>7. Except(x, page, {"participants"}) /\ x.participants = aged
  BY <1>0, <1>6 DEF Except, PageFields, PageShape
<1>2. /\ Except(x, page, {"participants"})
      /\ x.participants = [p \in Present(page) |->
           [page.participants[p] EXCEPT !.age = IF @ < Expiry THEN @ + 1 ELSE @]]
  BY <1>5, <1>7 DEF Aged, Present
<1>3. ASSUME NEW p \in Present(page)
      PROVE  /\ x.participants[p] \in Entry
             /\ x.participants[p].generation = page.participants[p].generation
             /\ x.participants[p].avatar = page.participants[p].avatar
  <2>1. PICK e \in Entry : e = page.participants[p]
    BY <1>0 DEF PageShape
  <2>2. x.participants[p] = [e EXCEPT !.age = IF e.age < Expiry THEN e.age + 1 ELSE e.age]
    BY <1>2, <2>1
  <2>3. (IF e.age < Expiry THEN e.age + 1 ELSE e.age) \in Nat
    BY <2>1, ViewerAssumption DEF Entry
  <2> QED
    BY <2>1, <2>2, <2>3 DEF Entry
<1>4. Present(x) = Present(page) /\ x.participants \in [Present(page) -> Entry]
  <2>1. Present(x) = Present(page)
    BY <1>2 DEF Present
  <2>2. x.participants = [p \in Present(page) |-> x.participants[p]]
    BY <1>2
  <2> QED
    BY <1>3, <2>1, <2>2
<1>10. /\ x.additional = page.additional /\ x.generations = page.generations
       /\ x.primaryId = page.primaryId /\ x.primaryHandle = page.primaryHandle
       /\ x.gate = page.gate /\ x.vrm = page.vrm /\ x.inochi = page.inochi
       /\ x.scene = page.scene
       /\ x.listed = page.listed /\ x.selected = page.selected
       /\ x.primaryShown = page.primaryShown /\ x.botVisible = page.botVisible
       /\ x.modelVisible = page.modelVisible /\ x.layered = page.layered
       /\ DOMAIN x = PageFields
  BY <1>2 DEF Except, PageFields
<1>11. PageShape(x)
  BY <1>0, <1>4, <1>10 DEF PageShape
<1>12. RoomSettled(x)
  BY <1>0, <1>3, <1>4, <1>10 DEF RoomSettled
<1>13. SceneMatches(x, loads, late)
  BY <1>0, <1>10, SceneKept
<1> QED
  BY <1>1, <1>10, <1>11, <1>12, <1>13 DEF OwnedInv, FramesFit, Owned, GateMatches

\* The 'participant-frame' handler.
LEMMA ReceiveStep ==
  ASSUME OwnedInv, NEW f \in net, ReceiveFrame(f) PROVE OwnedInv'
<1>1. PICK p : p = f.from
  OBVIOUS
<1>2. p \in Participants /\ f.seq \in Seqs
  BY <1>1 DEF OwnedInv, FramesFit
<1>3. PICK joined : joined = EnsureRuntime(Ingest(page, p), p)
  OBVIOUS
<1>4. PICK gate : gate = Accept(GateFor(joined, p), f.seq)
  OBVIOUS
<1>5. PICK x : x = SetGate(joined, p, gate)
  OBVIOUS
<1>6. page' = x /\ net' = net \ {f} /\ UNCHANGED <<loads, late, tracker>>
  BY <1>1, <1>3, <1>4, <1>5 DEF ReceiveFrame
<1>7. \/ gateOf' = joined.participants[p].generation /\ p = joined.primaryId
      \/ gateOf' = GateOfAfter(joined)
  <2>1. gateOf' = IF isSeqNewer(f.seq, GateFor(joined, p)) /\ p = joined.primaryId
                  THEN joined.participants[p].generation
                  ELSE GateOfAfter(joined)
    BY <1>1, <1>3 DEF ReceiveFrame
  <2> QED
    BY <2>1
<1>8. Owned(joined, loads, late) /\ p \in Present(joined) /\ GateKept(joined, page)
  BY <1>2, <1>3, ReceivedOwned DEF OwnedInv, FramesFit
<1>9. gate \in Seqs \cup {NoSeq}
  <2>1. GateFor(joined, p) \in Seqs \cup {NoSeq}
    BY <1>8 DEF GateFor, Owned, PageShape, RoomSettled, Body
  <2> QED
    BY <1>2, <1>4, <2>1 DEF Accept
<1>10. Owned(x, loads, late) /\ x.primaryHandle = joined.primaryHandle
  BY <1>5, <1>8, <1>9, SetGateOwned
<1>11. GateMatches(joined, gateOf')
  <2>1. CASE gateOf' = joined.participants[p].generation /\ p = joined.primaryId
    BY <1>8, <2>1 DEF GateMatches, Owned, RoomSettled
  <2>2. CASE gateOf' = GateOfAfter(joined)
    BY <1>8, <2>2 DEF GateMatches, GateOfAfter, GateKept, OwnedInv, FramesFit
  <2> QED
    BY <1>7, <2>1, <2>2
<1> QED
  BY <1>6, <1>10, <1>11 DEF OwnedInv, FramesFit, GateMatches

\* A frame is rendered: prune, layout, draw.
LEMMA RenderStep ==
  ASSUME OwnedInv, NEW fails \in BOOLEAN, Render(fails) PROVE OwnedInv'
<1>1. PICK laid : laid = Layout(page)
  OBVIOUS
<1>2. PICK x : x = Draw(laid, fails)
  OBVIOUS
<1>3. page' = x /\ gateOf' = GateOfAfter(laid) /\ UNCHANGED <<loads, late, net, tracker>>
  BY <1>1, <1>2 DEF Render, envVars
<1>4. LoadsShape(loads) /\ Owned(laid, loads, late) /\ GateKept(laid, page)
  BY <1>1, LayoutOwned DEF OwnedInv, FramesFit
<1>5. PageShape(laid)
  BY <1>4 DEF Owned
<1>6. /\ Except(x, laid, {"inochi", "scene", "botVisible", "modelVisible"})
      /\ fails => x.inochi = None /\ x.scene = laid.scene \ {laid.inochi}
      /\ ~fails => x.inochi = laid.inochi /\ x.scene = laid.scene
      /\ x.botVisible = IF laid.layered \/ x.inochi # None \/ x.vrm # None
                        THEN fails \/ laid.botVisible ELSE laid.primaryShown
      /\ x.modelVisible = IF ~laid.layered /\ (x.inochi # None \/ x.vrm # None)
                          THEN laid.primaryShown ELSE laid.modelVisible
  BY <1>2, <1>5, DrawDoes
<1>7. /\ x.botVisible \in BOOLEAN /\ x.modelVisible \in BOOLEAN
      /\ x.layered \in BOOLEAN
      /\ Except(x, laid, {"inochi", "scene", "modelVisible", "botVisible", "layered"})
  <2>1. /\ laid.botVisible \in BOOLEAN /\ laid.modelVisible \in BOOLEAN
        /\ laid.layered \in BOOLEAN /\ laid.primaryShown \in BOOLEAN
    BY <1>5 DEF PageShape
  <2>2. x.layered = laid.layered
    BY <1>6 DEF Except, PageFields
  <2>3. x.botVisible \in BOOLEAN
    BY <1>6, <2>1, Zenon
  <2>4. x.modelVisible \in BOOLEAN
    BY <1>6, <2>1, Zenon
  <2>5. Except(x, laid, {"inochi", "scene", "modelVisible", "botVisible", "layered"})
    BY <1>6 DEF Except
  <2> QED
    BY <2>1, <2>2, <2>3, <2>4, <2>5
<1>8. Owned(x, loads, late) /\ x.gate = laid.gate /\ x.primaryHandle = laid.primaryHandle
  BY <1>4, <1>6, <1>7, InochiLeaves
<1>9. GateMatches(x, gateOf')
  BY <1>3, <1>4, <1>8 DEF GateMatches, GateOfAfter, GateKept, OwnedInv, FramesFit
<1> QED
  BY <1>3, <1>4, <1>8, <1>9 DEF OwnedInv, FramesFit

\* A load begins.
LEMMA AppendFits ==
  ASSUME LoadsShape(loads), NEW e \in LoadRecord, e.to # None => e.kind = "vrm",
         NEW pg, NEW lt, Owned(pg, loads, lt)
  PROVE  LoadsShape(Append(loads, e)) /\ Owned(pg, Append(loads, e), lt)
<1>1. PICK ls : ls = Append(loads, e)
  OBVIOUS
<1>2. /\ ls \in Seq(LoadRecord) /\ DOMAIN ls = DOMAIN loads \cup {Len(loads) + 1}
      /\ ls[Len(loads) + 1] = e
      /\ \A i \in DOMAIN loads : ls[i] = loads[i]
  BY <1>1 DEF LoadsShape
<1>3. LoadsShape(ls)
  BY <1>2 DEF LoadsShape
<1>4. Owned(pg, ls, lt)
  BY <1>2, LoadsGrow DEF Owned, Done
<1> QED
  BY <1>1, <1>3, <1>4

\* loadVrmFile up to its await
LEMMA VrmFileGoes ==
  ASSUME OwnedInv, NEW rev \in Nat
  PROVE  /\ Owned(PageForVrm, loads, late) /\ GateMatches(PageForVrm, gateOf)
         /\ VrmLoad(rev) \in LoadRecord /\ VrmLoad(rev).kind = "vrm"
         /\ VrmLoad(rev).state = "loading"
<1>1. PICK p : p = VrmFileTo
  OBVIOUS
<1>2. PICK x : x = PageForVrm
  OBVIOUS
<1>3. p \in Participants \cup {None}
  BY <1>1 DEF VrmFileTo, OwnedInv, FramesFit, Owned, PageShape
<1>4. CASE p = None
  <2>1. x = page
    BY <1>1, <1>2, <1>4 DEF PageForVrm
  <2>2. VrmLoad(rev) = Load("vrm", None, None, rev, "loading")
    BY <1>1, <1>4 DEF VrmLoad
  <2> QED
    BY <1>2, <2>1, <2>2 DEF OwnedInv, FramesFit, Load, LoadRecord, None
<1>5. CASE p # None
  <2>1. x = EnsureRuntime(page, p)
    BY <1>1, <1>2, <1>5 DEF PageForVrm
  <2>2. /\ Owned(x, loads, late) /\ p \in Present(x)
        /\ page.primaryHandle # None => x.primaryHandle = page.primaryHandle
    BY <1>3, <1>5, <2>1, EnsureOwned DEF OwnedInv, FramesFit
  <2>3. GateMatches(x, gateOf)
    BY <2>2 DEF OwnedInv, FramesFit, GateMatches
  <2>4. VrmLoad(rev) = IF p = x.primaryId THEN Load("vrm", None, None, rev, "loading")
                       ELSE Load("vrm", p, x.additional[p].made, rev, "loading")
    BY <1>1, <1>2, <1>5 DEF VrmLoad
  <2>5. CASE p = x.primaryId
    BY <1>2, <2>2, <2>3, <2>4, <2>5 DEF Load, LoadRecord, None
  <2>6. CASE p # x.primaryId
    <3>1. x.additional[p].made \in Nat
      BY <2>2, <2>6 DEF Owned, PageShape, RoomSettled, Body
    <3> QED
      BY <1>2, <1>3, <2>2, <2>3, <2>4, <2>6, <3>1 DEF Load, LoadRecord
  <2> QED
    BY <2>5, <2>6
<1> QED
  BY <1>4, <1>5

\* A VRM file is chosen.
LEMMA ChooseVrmStep == OwnedInv /\ ChooseVrm => OwnedInv'
<1> SUFFICES ASSUME OwnedInv, ChooseVrm PROVE OwnedInv'
  OBVIOUS
<1>1. page' = PageForVrm /\ loads' = Append(loads, VrmLoad(0)) /\ UNCHANGED <<net, tracker, gateOf, late>>
  BY DEF ChooseVrm, LoadsUnchanged, envVars
<1>2. /\ Owned(PageForVrm, loads, late) /\ GateMatches(PageForVrm, gateOf)
      /\ VrmLoad(0) \in LoadRecord /\ VrmLoad(0).kind = "vrm"
  BY VrmFileGoes
<1> QED
  BY <1>1, <1>2, AppendFits DEF OwnedInv, FramesFit

\* An Inochi2D file or PNG layers are chosen.
LEMMA ChooseModelStep ==
  ASSUME OwnedInv, NEW kind \in {"inochi", "layers"}, ChooseModel(kind) PROVE OwnedInv'
<1>1. PICK e : e = Load(kind, None, None, 0, "loading")
  OBVIOUS
<1>2. page' = page /\ loads' = Append(loads, e) /\ UNCHANGED <<net, tracker, gateOf, late>>
  BY <1>1 DEF ChooseModel, LoadsUnchanged, envVars
<1>3. e \in LoadRecord /\ e.to = None
  BY <1>1 DEF Load, LoadRecord, None
<1> QED
  BY <1>2, <1>3, AppendFits DEF OwnedInv, FramesFit

\* The page notes the revision it asks the shell for.
LEMMA RequestedOwned ==
  ASSUME OwnedInv, NEW rev
  PROVE  LET x == [page EXCEPT !.requested = rev] IN
         Owned(x, loads, late) /\ x.primaryHandle = page.primaryHandle
<1>2. PICK x : x = [page EXCEPT !.requested = rev]
  OBVIOUS
<1>3. DOMAIN page = PageFields /\ page.gate \in Seqs \cup {NoSeq} /\ SelectorFits(page)
      /\ page.primaryShown \in BOOLEAN
  BY DEF OwnedInv, FramesFit, Owned, PageShape, SelectorFits
<1>4. /\ Except(x, page, {"gate", "selected", "listed", "requested", "primaryShown"})
      /\ x.gate = page.gate /\ x.listed = page.listed /\ x.selected = page.selected
      /\ x.primaryShown = page.primaryShown
  BY <1>2, <1>3 DEF Except, PageFields
<1>5. Owned(x, loads, late) /\ x.primaryHandle = page.primaryHandle
  BY <1>3, <1>4, SameOwned DEF OwnedInv, FramesFit, SelectorFits
<1> QED
  BY <1>2, <1>5

\* The desktop shell names a file.
LEMMA SelectedStep ==
  ASSUME OwnedInv, NEW rev \in Nat, NEW kind \in {"vrm", "inochi"},
         NativeAvatarSelected(rev, kind)
  PROVE  OwnedInv'
<1>1. PICK e : e = Load(kind, None, None, rev, "reading")
  OBVIOUS
<1>2. PICK x : x = [page EXCEPT !.requested = rev]
  OBVIOUS
<1>3. page' = x /\ loads' = Append(loads, e) /\ UNCHANGED <<net, tracker, gateOf, late>>
  BY <1>1, <1>2 DEF NativeAvatarSelected, LoadsUnchanged, envVars
<1>4. e \in LoadRecord /\ e.to = None
  BY <1>1 DEF Load, LoadRecord, None
<1>5. Owned(x, loads, late) /\ x.primaryHandle = page.primaryHandle
  BY <1>2, RequestedOwned
<1> QED
  BY <1>3, <1>4, <1>5, AppendFits DEF OwnedInv, FramesFit, GateMatches

\* A load goes on, is dropped or fails.
LEMMA StateStep ==
  ASSUME OwnedInv, NEW i \in DOMAIN loads, loads[i].state # "done",
         NEW state \in {"loading", "dropped", "failed"},
         loads' = [loads EXCEPT ![i].state = state], page' = page,
         UNCHANGED <<net, tracker, gateOf, late>>
  PROVE  OwnedInv'
<1>1. PICK e : e = [loads[i] EXCEPT !.state = state]
  OBVIOUS
<1>2. Becomes(loads', i, e)
  BY <1>1, StateOfLoad DEF OwnedInv, FramesFit
<1>3. LoadsShape(loads') /\ Owned(page, loads', late)
  BY <1>2, BecomesFits DEF OwnedInv, FramesFit
<1> QED
  BY <1>3 DEF OwnedInv, FramesFit

\* The shell's file has been read: overtaken, of the wrong kind, or on its way to a
\* loader.
LEMMA ReadStep ==
  ASSUME OwnedInv, NEW i \in LoadIds, NativeAvatarRead(i) PROVE OwnedInv'
<1>0. i \in DOMAIN loads /\ loads[i].state = "reading" /\ UNCHANGED <<net, tracker, gateOf, late>>
      /\ LoadsShape(loads)
  BY DEF NativeAvatarRead, LoadIds, LoadsUnchanged, envVars, OwnedInv, FramesFit
<1>4. /\ loads[i].state # "done"
      /\ "dropped" \in {"loading", "dropped", "failed"}
      /\ "loading" \in {"loading", "dropped", "failed"}
  BY <1>0
<1>1. CASE loads' = [loads EXCEPT ![i].state = "dropped"] /\ page' = page
  BY <1>0, <1>1, <1>4, StateStep
<1>2. CASE loads' = [loads EXCEPT ![i].state = "loading"] /\ page' = page
  BY <1>0, <1>2, <1>4, StateStep
<1>3. CASE page' = PageForVrm /\ loads' = [loads EXCEPT ![i] = VrmLoad(loads[i].rev)]
  <2>1. loads[i].rev \in Nat
    <3>1. loads[i] \in LoadRecord
      BY <1>0 DEF LoadsShape
    <3> QED
      BY <3>1 DEF LoadRecord
  <2>2. PICK e : e = VrmLoad(loads[i].rev)
    OBVIOUS
  <2>3. PICK x : x = PageForVrm
    OBVIOUS
  <2>4. Owned(x, loads, late) /\ GateMatches(x, gateOf) /\ e \in LoadRecord /\ e.kind = "vrm"
    BY <2>1, <2>2, <2>3, VrmFileGoes
  <2>5. Becomes(loads', i, e)
    BY <1>3, <2>2, <2>4 DEF Becomes
  <2>6. LoadsShape(loads') /\ Owned(x, loads', late)
    BY <1>0, <2>4, <2>5, BecomesFits
  <2> QED
    BY <1>0, <1>3, <2>3, <2>4, <2>6 DEF OwnedInv, FramesFit
<1> QED
  BY <1>1, <1>2, <1>3 DEF NativeAvatarRead

\* A load fails.
LEMMA FailStep ==
  ASSUME OwnedInv, NEW i \in LoadIds, LoadFails(i) PROVE OwnedInv'
<1>0. /\ i \in DOMAIN loads /\ loads[i].state # "done" /\ UNCHANGED <<net, tracker, gateOf, late>>
      /\ loads' = [loads EXCEPT ![i].state = "failed"] /\ page' = page
  BY DEF LoadFails, LoadIds, LoadsUnchanged, envVars
<1> QED
  BY <1>0, StateStep

\* A model is there: for the page, for the participant it was chosen for, or too
\* late.
LEMMA LoadEndsStep ==
  ASSUME OwnedInv, NEW i \in LoadIds, LoadEnds(i) PROVE OwnedInv'
<1>0. /\ i \in DOMAIN loads /\ loads[i].state # "done" /\ UNCHANGED <<net, tracker, gateOf>>
      /\ loads' = [loads EXCEPT ![i].state = "done"]
      /\ LoadsShape(loads) /\ Owned(page, loads, late) /\ GateMatches(page, gateOf)
      /\ FramesFit
  BY DEF LoadEnds, LoadIds, envVars, OwnedInv, FramesFit
<1>1. PICK e : e = [loads[i] EXCEPT !.state = "done"]
  OBVIOUS
<1>2. PICK ls : ls = loads'
  OBVIOUS
<1>3. /\ Becomes(ls, i, e) /\ e.state = "done" /\ e.to = loads[i].to /\ e.made = loads[i].made
      /\ e.kind = loads[i].kind
  <2>1. "done" \in {"reading", "loading", "done", "failed", "dropped"}
    OBVIOUS
  <2> QED
    BY <1>0, <1>1, <1>2, <2>1, StateOfLoad
<1>4. /\ LoadsShape(ls) /\ Owned(page, ls, late)
      /\ DOMAIN ls = DOMAIN loads /\ ls[i] = e /\ \A m \in DOMAIN loads \ {i} : ls[m] = loads[m]
      /\ i \notin page.scene /\ i \notin late /\ page.scene \subseteq DOMAIN loads
  BY <1>0, <1>3, BecomesFits
<1>5. /\ Fresh(i, page, ls, late)
      /\ \A m \in DOMAIN loads : ls[m].to = loads[m].to /\ ls[m].made = loads[m].made
  BY <1>0, <1>3, <1>4 DEF Fresh, Done
<1>6. PageShape(page)
  BY <1>0 DEF Owned
<1>7. /\ ls[i].kind = loads[i].kind /\ ls[i].to = loads[i].to
      /\ loads[i].kind \in {"vrm", "inochi", "layers"}
      /\ loads[i].to # None => loads[i].kind = "vrm"
  <2>1. loads[i] \in LoadRecord
    BY <1>0 DEF LoadsShape
  <2> QED
    BY <1>0, <1>3, <1>4, <2>1 DEF LoadsShape, LoadRecord
<1> SUFFICES /\ Owned(page', ls, late')
             /\ page'.gate = page.gate /\ page'.primaryHandle = page.primaryHandle
  BY <1>0, <1>2, <1>4 DEF OwnedInv, FramesFit, GateMatches
<1>8. CASE loads[i].kind = "inochi"
  <2>1. page' = InstallInochi(page, i) /\ late' = late
    BY <1>7, <1>8 DEF LoadEnds
  <2>2. PICK x : x = InstallInochi(page, i)
    OBVIOUS
  <2>3. Installs(x, page, i, None, i)
    BY <1>6, <2>2, InstallInochiDoes
  <2>4. Owned(x, ls, late) /\ x.gate = page.gate /\ x.primaryHandle = page.primaryHandle
    BY <1>4, <1>5, <1>7, <1>8, <2>3, InstallsOwned
  <2> QED
    BY <2>1, <2>2, <2>4
<1>9. CASE loads[i].kind = "layers"
  <2>1. page' = InstallLayers(page) /\ late' = late
    BY <1>7, <1>9 DEF LoadEnds
  <2>2. PICK x : x = InstallLayers(page)
    OBVIOUS
  <2>3. /\ Except(x, page, {"inochi", "scene", "modelVisible", "botVisible", "layered"})
        /\ x.scene = page.scene \ {page.inochi} /\ x.inochi = None
        /\ x.modelVisible = FALSE /\ x.botVisible = FALSE /\ x.layered = TRUE
    BY <1>6, <2>2, InstallLayersDoes
  <2>4. Owned(x, ls, late) /\ x.gate = page.gate /\ x.primaryHandle = page.primaryHandle
    <3>1. x.modelVisible \in BOOLEAN /\ x.botVisible \in BOOLEAN /\ x.layered \in BOOLEAN
      BY <2>3, Zenon
    <3> QED
      BY <1>4, <2>3, <3>1, InochiLeaves
  <2> QED
    BY <2>1, <2>2, <2>4
<1>10. CASE loads[i].kind = "vrm" /\ loads[i].to = None
  <2>1. page' = InstallVrm(page, i) /\ late' = late
    BY <1>7, <1>10 DEF LoadEnds
  <2>2. PICK x : x = InstallVrm(page, i)
    OBVIOUS
  <2>3. Installs(x, page, i, i, None)
    BY <1>6, <2>2, InstallVrmDoes
  <2>4. Owned(x, ls, late) /\ x.gate = page.gate /\ x.primaryHandle = page.primaryHandle
    BY <1>4, <1>5, <1>7, <1>10, <2>3, InstallsOwned
  <2> QED
    BY <2>1, <2>2, <2>4
<1>11. CASE loads[i].kind = "vrm" /\ loads[i].to # None
  <2>1. /\ page' = AttachToRuntime(page, i)
        /\ late' = IF ~StillServes(page, i) THEN late \cup {i} ELSE late
    BY <1>7, <1>11 DEF LoadEnds
  <2>2. PICK x : x = AttachToRuntime(page, i)
    OBVIOUS
  <2>3. CASE StillServes(page, i)
    <3>1. Owned(x, ls, late) /\ x.gate = page.gate /\ x.primaryHandle = page.primaryHandle
      BY <1>0, <1>4, <1>5, <1>7, <1>11, <2>2, <2>3, AttachServes
    <3> QED
      BY <2>1, <2>2, <2>3, <3>1
  <2>4. CASE ~StillServes(page, i)
    <3>1. PICK after : after = late \cup {i}
      OBVIOUS
    <3>3. \A m : m \in after <=> m \in late \/ m = i
      BY <3>1
    <3>2. Owned(x, ls, after) /\ x.gate = page.gate /\ x.primaryHandle = page.primaryHandle
      <4>1. /\ LoadsShape(ls) /\ Owned(page, ls, late) /\ Fresh(i, page, ls, late)
            /\ page.scene \subseteq DOMAIN loads /\ i \in DOMAIN loads /\ ls[i].to # None
            /\ \A m \in DOMAIN loads : ls[m].to = loads[m].to /\ ls[m].made = loads[m].made
        BY <1>0, <1>4, <1>5, <1>7, <1>11
      <4> QED
        BY <2>2, <2>4, <3>3, <4>1, AttachIsLate
    <3> QED
      BY <2>1, <2>2, <2>4, <3>1, <3>2
  <2> QED
    BY <2>3, <2>4
<1> QED
  BY <1>7, <1>8, <1>9, <1>10, <1>11

\* PNG layers are shown.
LEMMA PngStep == OwnedInv /\ ShowPngLayers => OwnedInv'
<1> SUFFICES ASSUME OwnedInv, ShowPngLayers PROVE OwnedInv'
  OBVIOUS
<1>0. /\ LoadsShape(loads) /\ Owned(page, loads, late) /\ PageShape(page)
  BY DEF OwnedInv, FramesFit, Owned
<1>1. page' = InstallLayers(page) /\ UNCHANGED <<loads, net, tracker, gateOf, late>>
  BY DEF ShowPngLayers, LoadsUnchanged, envVars
<1>2. PICK x : x = InstallLayers(page)
  OBVIOUS
<1>3. /\ Except(x, page, {"inochi", "scene", "modelVisible", "botVisible", "layered"})
      /\ x.scene = page.scene \ {page.inochi} /\ x.inochi = None
      /\ x.modelVisible = FALSE /\ x.botVisible = FALSE /\ x.layered = TRUE
  BY <1>0, <1>2, InstallLayersDoes
<1>4. Owned(x, loads, late) /\ x.gate = page.gate /\ x.primaryHandle = page.primaryHandle
  <2>1. x.modelVisible \in BOOLEAN /\ x.botVisible \in BOOLEAN /\ x.layered \in BOOLEAN
    BY <1>3, Zenon
  <2> QED
    BY <1>0, <1>3, <2>1, InochiLeaves
<1> QED
  BY <1>1, <1>2, <1>4 DEF OwnedInv, FramesFit, GateMatches

\* Trackers publish frames and are reloaded.
LEMMA TrafficSteps ==
  ASSUME OwnedInv, NEW p \in Participants, Publish(p) \/ ReloadTracker(p)
  PROVE  OwnedInv'
<1>1. UNCHANGED <<page, loads, late, gateOf>>
  BY DEF Publish, ReloadTracker
<1>2. tracker[p].seq \in Seqs /\ tracker[p].reloads \in Nat
  BY DEF OwnedInv, FramesFit
<1>3. /\ (tracker[p].seq + 1) % SeqModulus \in Seqs /\ 0 \in Seqs
  BY <1>2, FrameOrderAssumption DEF Seqs
<1>4. ASSUME NEW f \in net', ReloadTracker(p) PROVE f.from \in Participants /\ f.seq \in Seqs
  <2>1. PICK g \in net : f = [g EXCEPT !.old = (@ \/ g.from = p)]
    BY <1>4 DEF ReloadTracker
  <2> QED
    BY <2>1 DEF OwnedInv, FramesFit
<1>5. ASSUME NEW f \in net', Publish(p) PROVE f.from \in Participants /\ f.seq \in Seqs
  <2>1. \/ f = [from |-> p, seq |-> tracker[p].seq, behind |-> 0, old |-> FALSE]
        \/ \E g \in net : f = [g EXCEPT !.behind = IF g.from = p /\ ~g.old THEN @ + 1 ELSE @]
    <3>1. f \in {[g EXCEPT !.behind = IF g.from = p /\ ~g.old THEN @ + 1 ELSE @] : g \in net}
                  \cup {[from |-> p, seq |-> tracker[p].seq, behind |-> 0, old |-> FALSE]}
      BY <1>5 DEF Publish
    <3> QED
      BY <3>1
  <2>2. CASE f = [from |-> p, seq |-> tracker[p].seq, behind |-> 0, old |-> FALSE]
    BY <1>2, <2>2
  <2>3. CASE \E g \in net : f = [g EXCEPT !.behind = IF g.from = p /\ ~g.old THEN @ + 1 ELSE @]
    <3>1. PICK g \in net : f = [g EXCEPT !.behind = IF g.from = p /\ ~g.old THEN @ + 1 ELSE @]
      BY <2>3
    <3>2. PICK b : b = IF g.from = p /\ ~g.old THEN g.behind + 1 ELSE g.behind
      OBVIOUS
    <3>3. f = [g EXCEPT !.behind = b]
      BY <3>1, <3>2
    <3>4. f.from = g.from /\ f.seq = g.seq
      BY <3>3
    <3> QED
      BY <3>4 DEF OwnedInv, FramesFit
  <2> QED
    BY <2>1, <2>2, <2>3
<1>6. \/ tracker' = [tracker EXCEPT ![p].seq = (@ + 1) % SeqModulus]
      \/ tracker' = [tracker EXCEPT ![p] = [seq |-> 0, reloads |-> @.reloads + 1]]
  BY DEF Publish, ReloadTracker
<1>7. (tracker \in [Participants -> [seq : Seqs, reloads : Nat]])'
  BY <1>2, <1>3, <1>6 DEF OwnedInv, FramesFit
<1> QED
  BY <1>1, <1>4, <1>5, <1>7 DEF OwnedInv, FramesFit

\* Frames are lost; connections begin and end.
LEMMA LinkSteps ==
  ASSUME OwnedInv,
         (\E f \in net : LoseFrame(f)) \/ ConnectEnds \/ ConnectionLost \/ UNCHANGED vars
  PROVE  OwnedInv'
<1>1. UNCHANGED <<page, loads, late, gateOf, tracker>> /\ net' \subseteq net
  BY DEF LoseFrame, ConnectEnds, ConnectionLost, vars, pageVars, envVars
<1> QED
  BY <1>1 DEF OwnedInv, FramesFit

\* Every step keeps the invariant.
LEMMA OwnedNext == OwnedInv /\ [Next]_vars => OwnedInv'
<1> SUFFICES ASSUME OwnedInv, [Next]_vars PROVE OwnedInv'
  OBVIOUS
<1>1. ASSUME NEW p \in Participants, Publish(p) \/ ReloadTracker(p) \/ SelectParticipant(p)
      PROVE  OwnedInv'
  BY <1>1, TrafficSteps, SelectStep
<1>2. ASSUME NEW f \in net, LoseFrame(f) \/ ReceiveFrame(f) PROVE OwnedInv'
  BY <1>2, LinkSteps, ReceiveStep
<1>3. ASSUME Tick \/ \E fails \in BOOLEAN : Render(fails) PROVE OwnedInv'
  BY <1>3, TickStep, RenderStep
<1>4. ASSUME Connect \/ ConnectEnds \/ ConnectionLost \/ UNCHANGED vars PROVE OwnedInv'
  BY <1>4, ConnectStep, LinkSteps
<1>5. ASSUME NEW seq \in Seqs, StartReplay(seq) \/ ReplayStep(seq) PROVE OwnedInv'
  BY <1>5, StartReplayStep, ReplayStepStep
<1>6. ASSUME ChooseVrm \/ (\E kind \in {"inochi", "layers"} : ChooseModel(kind)) \/ ShowPngLayers
      PROVE  OwnedInv'
  BY <1>6, ChooseVrmStep, ChooseModelStep, PngStep
<1>7. ASSUME NEW rev \in 1 .. limits.revisions, NEW kind \in {"vrm", "inochi"},
             NativeAvatarSelected(rev, kind)
      PROVE  OwnedInv'
  <2>1. rev \in Nat
    OBVIOUS
  <2> QED
    BY <1>7, <2>1, SelectedStep
<1>8. ASSUME NEW i \in LoadIds, NativeAvatarRead(i) \/ LoadEnds(i) \/ LoadFails(i)
      PROVE  OwnedInv'
  BY <1>8, ReadStep, LoadEndsStep, FailStep
<1> QED
  BY <1>1, <1>2, <1>3, <1>4, <1>5, <1>6, <1>7, <1>8 DEF Next

\* The invariant holds in every state.
LEMMA OwnedIsInvariant == Spec => []OwnedInv
BY OwnedInit, OwnedNext, PTL DEF Spec

\* In every state the runtime of a participant in the room belongs to its present
\* stay, the scene holds exactly the models that the page or such a runtime owns, and
\* the frame gate is the one set for this stay: a participant that left and came
\* back, or a model that arrives after its participant has left, leaves nothing
\* behind (ensureParticipantRuntime, disposeParticipantRuntime, loadVrmForParticipant
\* and prune, viewer.js).
THEOREM ViewerRoomIsOwned == Spec => []RoomIsOwned
<1>1. OwnedInv => RoomIsOwned
  <2> SUFFICES ASSUME OwnedInv PROVE RoomIsOwned
    OBVIOUS
  <2>1. PageShape(page) /\ RoomSettled(page) /\ SceneMatches(page, loads, late)
    BY DEF OwnedInv, Owned
  <2>2. RuntimesMatchRoom
    <3> SUFFICES ASSUME NEW p \in Present(page)
                 PROVE  Runtime(page, p) = page.participants[p].generation
      BY <2>1 DEF RuntimesMatchRoom, RoomSettled
    <3> QED
      BY <2>1 DEF RoomSettled, Runtime
  <2>3. SceneIsOwned
    BY <2>1 DEF SceneIsOwned, SceneMatches, Models
  <2>4. GateIsOfThisStay
    BY <2>1 DEF GateIsOfThisStay, OwnedInv, GateMatches, RoomSettled
  <2> QED
    BY <2>2, <2>3, <2>4 DEF RoomIsOwned
<1> QED
  BY <1>1, OwnedIsInvariant, PTL

---------------------------------------------------------------------------
(* The bodies.                                                             *)

\* One body at most stands for the first participant, and it is hidden once that has left.
Dressed(pg) ==
  /\ pg.layered => pg.inochi = None /\ ~pg.botVisible /\ ~pg.modelVisible
  /\ pg.vrm = None \/ pg.inochi = None
  /\ pg.vrm # None \/ pg.inochi # None => ~pg.botVisible
  /\ pg.primaryId = None => pg.primaryShown
  /\ pg.primaryId \notin Present(pg) \cup {None} => ~pg.primaryShown

\* Bodies depend on nothing that these fields hold.
LEMMA DressedSame ==
  ASSUME NEW pg, Dressed(pg), NEW x,
         Except(x, pg, {"gate", "selected", "listed", "requested", "participants", "additional",
                        "generations", "scene"}),
         Present(x) = Present(pg)
  PROVE  Dressed(x)
<1>1. /\ x.vrm = pg.vrm /\ x.inochi = pg.inochi /\ x.botVisible = pg.botVisible
      /\ x.modelVisible = pg.modelVisible /\ x.layered = pg.layered
      /\ x.primaryShown = pg.primaryShown /\ x.primaryId = pg.primaryId
  BY DEF Except, PageFields
<1> QED
  BY <1>1 DEF Dressed

\* When the first participant leaves, its body is hidden.
LEMMA DressedShrinks ==
  ASSUME NEW pg, PageShape(pg), RoomSettled(pg), Dressed(pg), NEW gone \in SUBSET Present(pg),
         NEW x, Shrinks(x, pg, gone)
  PROVE  Dressed(x)
<1>0. /\ x.modelVisible = pg.modelVisible /\ x.layered = pg.layered /\ x.primaryId = pg.primaryId
      /\ Present(x) = Present(pg) \ gone
  BY DEF Shrinks, Except, PageFields, Present
<1>1. CASE pg.primaryId \in gone
  <2>1. x.vrm = None /\ x.inochi = None /\ x.botVisible = FALSE /\ x.primaryShown = FALSE
    BY <1>1 DEF Shrinks
  <2>2. pg.primaryId # None
    BY <1>1, ViewerAssumption DEF PageShape, None
  <2> QED
    BY <1>0, <2>1, <2>2 DEF Dressed
<1>2. CASE pg.primaryId \notin gone
  <2>1. /\ x.vrm = pg.vrm /\ x.inochi = pg.inochi /\ x.botVisible = pg.botVisible
        /\ x.primaryShown = pg.primaryShown
    BY <1>2 DEF Shrinks, Except, PageFields
  <2> QED
    BY <1>0, <1>2, <2>1 DEF Dressed
<1> QED
  BY <1>1, <1>2

\* A first participant that joins finds no body hidden from it.
LEMMA DressedJoins ==
  ASSUME NEW pg, PageShape(pg), RoomSettled(pg), Dressed(pg),
         NEW p \in Participants \ Present(pg), NEW x, Joins(x, pg, p)
  PROVE  Dressed(x)
<1>0. /\ x.modelVisible = pg.modelVisible /\ x.layered = pg.layered
      /\ x.vrm = pg.vrm /\ x.inochi = pg.inochi /\ x.primaryShown = pg.primaryShown
      /\ Present(x) = Present(pg) \cup {p} /\ p # None
      /\ x.primaryId = IF pg.primaryId = None THEN p ELSE pg.primaryId
  BY ViewerAssumption DEF Joins, Except, PageFields, Present, With, None
<1>1. CASE p = x.primaryId
  <2>1. x.botVisible = (pg.vrm = None /\ pg.inochi = None /\ ~pg.layered)
    BY <1>1 DEF Joins
  <2>2. pg.layered \in BOOLEAN /\ x.primaryId \in Present(x)
    BY <1>0, <1>1 DEF PageShape
  <2>3. pg.layered => ~x.botVisible
    BY <2>1
  <2>4. pg.vrm # None \/ pg.inochi # None => ~x.botVisible
    BY <2>1
  <2> QED
    BY <1>0, <1>1, <2>2, <2>3, <2>4 DEF Dressed
<1>2. CASE p # x.primaryId
  <2>1. x.botVisible = pg.botVisible /\ x.primaryId = pg.primaryId /\ pg.primaryId # None
    BY <1>0, <1>2 DEF Joins
  <2> QED
    BY <1>0, <1>2, <2>1 DEF Dressed
<1> QED
  BY <1>1, <1>2

\* ensureParticipantRuntime, whoever it is for.
LEMMA DressedEnsure ==
  ASSUME NEW pg, PageShape(pg), RoomSettled(pg), Dressed(pg), NEW p \in Participants
  PROVE  Dressed(EnsureRuntime(pg, p))
<1>1. PICK x : x = EnsureRuntime(pg, p)
  OBVIOUS
<1>2. CASE p \in Present(pg)
  <2>1. Except(x, pg, {"listed", "selected"})
    BY <1>1, <1>2, EnsureKeeps
  <2>2. /\ Present(x) = Present(pg)
        /\ Except(x, pg, {"gate", "selected", "listed", "requested", "participants", "additional",
                          "generations", "scene"})
    BY <2>1 DEF Except, PageFields, Present
  <2> QED
    BY <1>1, <2>2, DressedSame
<1>3. CASE p \notin Present(pg)
  <2>1. Joins(x, pg, p)
    <3>1. CASE pg.primaryId \in {None, p}
      BY <1>1, <1>3, <3>1, JoinFirst
    <3>2. CASE pg.primaryId \notin {None, p}
      BY <1>1, <1>3, <3>2, JoinOther
    <3> QED
      BY <3>1, <3>2
  <2> QED
    BY <1>1, <1>3, <2>1, DressedJoins
<1> QED
  BY <1>2, <1>3

\* The 'participant-frame' handler up to the gate.
LEMMA DressedReceived ==
  ASSUME NEW ls, LoadsShape(ls), NEW lt, NEW pg, Owned(pg, ls, lt), Dressed(pg),
         NEW p \in Participants
  PROVE  Dressed(EnsureRuntime(Ingest(pg, p), p))
<1>1. PageShape(pg) /\ RoomSettled(pg)
  BY DEF Owned
<1>2. PICK x : x = EnsureRuntime(Ingest(pg, p), p)
  OBVIOUS
<1>3. CASE p \in Present(pg) \ Expired(pg)
  <2>1. PICK i : i = Ingest(pg, p)
    OBVIOUS
  <2>2. PageShape(i) /\ RoomSettled(i)
    BY <1>3, <2>1, IngestPresent DEF Owned
  <2>3. i = [pg EXCEPT !.participants[p].age = 0]
    BY <1>3, <2>1 DEF Ingest
  <2>4. /\ Except(i, pg, {"gate", "selected", "listed", "requested", "participants", "additional",
                          "generations", "scene"})
        /\ Present(i) = Present(pg)
    BY <1>1, <2>3 DEF Except, PageFields, PageShape, Present
  <2> QED
    BY <2>1, <2>2, <2>4, DressedSame, DressedEnsure
<1>4. ASSUME NEW kept, PageShape(kept), RoomSettled(kept), Dressed(kept), p \notin Present(kept),
             Ingest(pg, p) = Ingest(kept, p)
      PROVE  Dressed(x)
  <2>2. Joins(x, kept, p)
    <3>1. CASE kept.primaryId \in {None, p}
      BY <1>2, <1>4, <3>1, JoinFirst
    <3>2. CASE kept.primaryId \notin {None, p}
      BY <1>2, <1>4, <3>2, JoinOther
    <3> QED
      BY <3>1, <3>2
  <2> QED
    BY <1>4, <2>2, DressedJoins
<1>5. CASE p \notin Present(pg)
  BY <1>1, <1>2, <1>4, <1>5
<1>6. CASE p \in Expired(pg)
  <2>1. PICK kept : kept = Expire(pg, p)
    OBVIOUS
  <2>2. p \in Present(pg)
    BY <1>6 DEF Expired
  <2>3. Shrinks(kept, pg, {p})
    <3>1. Shrinks(pg, pg, {})
      BY <1>1 DEF Shrinks, Except, PageShape, PageFields, Present
    <3>2. p \in Present(pg) \ {} /\ {p} = {} \cup {p}
      BY <2>2
    <3> QED
      BY <1>1, <2>1, <3>1, <3>2, ExpireShrinks
  <2>4. PageShape(kept) /\ RoomSettled(kept) /\ Present(kept) = Present(pg) \ {p}
    BY <2>1, <2>2, ExpireOwned DEF Owned
  <2>5. Dressed(kept)
    BY <1>1, <2>2, <2>3, DressedShrinks
  <2>6. Ingest(pg, p) = Ingest(kept, p)
    BY <1>6, <2>1, <2>4 DEF Ingest, Expired
  <2> QED
    BY <1>2, <1>4, <2>4, <2>5, <2>6
<1> QED
  BY <1>2, <1>3, <1>5, <1>6

\* One model at most stands for the first participant.
LEMMA DressedInstalls ==
  ASSUME NEW pg, PageShape(pg), Dressed(pg), NEW i, NEW x, NEW vrm, NEW inochi,
         Installs(x, pg, i, vrm, inochi), vrm = None \/ inochi = None
  PROVE  Dressed(x)
<1>1. /\ x.primaryShown = pg.primaryShown /\ x.primaryId = pg.primaryId /\ Present(x) = Present(pg)
      /\ x.vrm = vrm /\ x.inochi = inochi /\ ~x.botVisible /\ ~x.layered
  BY DEF Installs, Except, PageFields, Present
<1> QED
  BY <1>1 DEF Dressed

\* Layers stand for it alone.
LEMMA DressedLayers ==
  ASSUME NEW pg, PageShape(pg), Dressed(pg)
  PROVE  Dressed(InstallLayers(pg))
<1>1. PICK x : x = InstallLayers(pg)
  OBVIOUS
<1>2. /\ Except(x, pg, {"inochi", "scene", "modelVisible", "botVisible", "layered"})
      /\ x.scene = pg.scene \ {pg.inochi} /\ x.inochi = None
      /\ x.modelVisible = FALSE /\ x.botVisible = FALSE /\ x.layered = TRUE
  BY <1>1, InstallLayersDoes
<1>3. /\ x.primaryShown = pg.primaryShown /\ x.primaryId = pg.primaryId /\ Present(x) = Present(pg)
      /\ ~x.modelVisible /\ ~x.botVisible /\ x.inochi = None
  BY <1>2 DEF Except, PageFields, Present
<1> QED
  BY <1>1, <1>3 DEF Dressed

\* A model that belongs to another participant's runtime.
LEMMA DressedAttach ==
  ASSUME NEW pg, PageShape(pg), Dressed(pg), NEW i
  PROVE  Dressed(AttachToRuntime(pg, i))
<1>1. PICK former : former = {m \in pg.scene : loads[m].to = loads[i].to /\ loads[m].made = loads[i].made}
  OBVIOUS
<1>2. PICK staged : staged = [pg EXCEPT !.scene = (@ \ former) \cup {i}]
  OBVIOUS
<1>3. PICK y : y = IF StillServes(pg, i) THEN [staged EXCEPT !.additional[loads[i].to].vrm = i]
                   ELSE staged
  OBVIOUS
<1>4. AttachToRuntime(pg, i) = RefreshSelector(y)
  BY <1>1, <1>2, <1>3 DEF AttachToRuntime
<1>5. Except(staged, pg, {"scene"})
  BY <1>2 DEF Except, PageShape, PageFields
<1>6. Except(y, pg, {"scene", "additional"})
  BY <1>3, <1>5 DEF Except, PageFields
<1>7. PICK x : x = RefreshSelector(y)
  OBVIOUS
<1>8. Except(x, y, {"listed", "selected"})
  BY <1>6, <1>7, RefreshKeeps DEF Except
<1>9. /\ Except(x, pg, {"gate", "selected", "listed", "requested", "participants", "additional",
                        "generations", "scene"})
      /\ Present(x) = Present(pg)
  BY <1>6, <1>8 DEF Except, PageFields, Present
<1> QED
  BY <1>4, <1>7, <1>9, DressedSame

\* What updateRoomParticipantLayout leaves of the first participant.
LEMMA DressedLayout ==
  ASSUME NEW pg, PageShape(pg), RoomSettled(pg), Dressed(pg)
  PROVE  LET x == Layout(pg) IN
         /\ PageShape(x) /\ Dressed(x) /\ x.primaryId = pg.primaryId
         /\ pg.primaryId \in LaidOut(pg) \cap Present(x) => x.primaryShown
<1>1. PICK y : y = IF pg.primaryHandle # None /\ pg.primaryId \in LaidOut(pg) \ Expired(pg)
                   THEN [pg EXCEPT !.primaryShown = TRUE] ELSE pg
  OBVIOUS
<1>2. Layout(pg) = Prune(y)
  BY <1>1 DEF Layout
<1>3. DOMAIN pg = PageFields /\ pg.gate \in Seqs \cup {NoSeq} /\ SelectorFits(pg)
      /\ (pg.primaryHandle # None <=> pg.primaryId \in Present(pg))
  BY DEF PageShape, SelectorFits, RoomSettled
<1>4. CASE pg.primaryId \in LaidOut(pg) \ Expired(pg)
  <2>0. pg.primaryId \in Present(pg)
    BY <1>4 DEF LaidOut
  <2>1. y = [pg EXCEPT !.primaryShown = TRUE]
    BY <1>1, <1>3, <1>4, <2>0
  <2>2. Except(y, pg, {"primaryShown"}) /\ y.primaryShown = TRUE
    BY <1>3, <2>1 DEF Except, PageFields
  <2>3. /\ y.participants = pg.participants /\ y.additional = pg.additional
        /\ y.generations = pg.generations /\ y.primaryId = pg.primaryId
        /\ y.primaryHandle = pg.primaryHandle /\ y.gate = pg.gate
        /\ y.vrm = pg.vrm /\ y.inochi = pg.inochi /\ y.listed = pg.listed
        /\ y.selected = pg.selected /\ y.botVisible = pg.botVisible
        /\ y.modelVisible = pg.modelVisible /\ y.layered = pg.layered
        /\ DOMAIN y = PageFields /\ Present(y) = Present(pg)
    BY <2>2 DEF Except, PageFields, Present
  <2>4. PageShape(y)
    <3>1. y.primaryShown \in BOOLEAN
      BY <2>2, Zenon
    <3> QED
      BY <2>3, <3>1 DEF PageShape
  <2>5. RoomSettled(y)
    BY <2>3 DEF RoomSettled
  <2>6. y.primaryShown
    BY <2>2
  <2>7. Dressed(y)
    BY <2>0, <2>3, <2>6 DEF Dressed
  <2>8. PICK x : x = Prune(y)
    OBVIOUS
  <2>9. PageShape(x) /\ Shrinks(x, y, Expired(y)) /\ Expired(y) \in SUBSET Present(y)
    BY <2>4, <2>5, <2>8, PruneShrinks DEF Expired
  <2>10. Dressed(x)
    BY <2>4, <2>5, <2>7, <2>9, DressedShrinks
  <2>11. y.primaryId \notin Expired(y)
    BY <1>4, <2>3 DEF Expired
  <2>12. x.primaryShown = y.primaryShown /\ x.primaryId = y.primaryId
    BY <2>9, <2>11 DEF Shrinks, Except, PageFields
  <2> QED
    BY <1>2, <2>3, <2>6, <2>8, <2>9, <2>10, <2>12
<1>5. CASE pg.primaryId \notin LaidOut(pg) \ Expired(pg)
  <2>1. y = pg
    BY <1>1, <1>5
  <2>8. PICK x : x = Prune(pg)
    OBVIOUS
  <2>9. PageShape(x) /\ Shrinks(x, pg, Expired(pg)) /\ Expired(pg) \in SUBSET Present(pg)
    BY <2>8, PruneShrinks DEF Expired
  <2>10. Dressed(x)
    BY <2>9, DressedShrinks
  <2>11. Present(x) = Present(pg) \ Expired(pg) /\ x.primaryId = pg.primaryId
    BY <2>9 DEF Shrinks, Except, PageFields, Present
  <2> QED
    BY <1>2, <1>5, <2>1, <2>8, <2>9, <2>10, <2>11
<1> QED
  BY <1>4, <1>5

\* The rendered frame shows exactly one body, or none for a first participant that
\* has left.
LEMMA DressedDraw ==
  ASSUME NEW pg, PageShape(pg), Dressed(pg), NEW fails \in BOOLEAN, fails => pg.inochi # None
  PROVE  LET x == Draw(pg, fails) IN
         /\ Dressed(x) /\ x.primaryId = pg.primaryId /\ Present(x) = Present(pg)
         /\ x.layered <=> pg.layered
         /\ pg.layered => Bodies(x) = {"layers"}
         /\ ~pg.layered /\ ~pg.primaryShown => Bodies(x) = {}
         /\ ~pg.layered /\ pg.primaryShown => Bodies(x) = {"model"} \/ Bodies(x) = {"bot"}
<1>1. PICK x : x = Draw(pg, fails)
  OBVIOUS
<1>2. /\ Except(x, pg, {"inochi", "scene", "botVisible", "modelVisible"})
      /\ fails => x.inochi = None /\ x.scene = pg.scene \ {pg.inochi}
      /\ ~fails => x.inochi = pg.inochi /\ x.scene = pg.scene
      /\ x.botVisible = IF pg.layered \/ x.inochi # None \/ x.vrm # None
                        THEN fails \/ pg.botVisible ELSE pg.primaryShown
      /\ x.modelVisible = IF ~pg.layered /\ (x.inochi # None \/ x.vrm # None)
                          THEN pg.primaryShown ELSE pg.modelVisible
  BY <1>1, DrawDoes
<1>3. /\ x.vrm = pg.vrm /\ x.layered = pg.layered /\ x.primaryShown = pg.primaryShown
      /\ x.primaryId = pg.primaryId /\ Present(x) = Present(pg)
  BY <1>2 DEF Except, PageFields, Present
<1>4. CASE pg.layered
  <2>1. pg.inochi = None /\ ~pg.botVisible /\ ~pg.modelVisible /\ ~fails
    BY <1>4 DEF Dressed
  <2>2. ~x.botVisible
    BY <1>2, <1>4, <2>1, Zenon
  <2>3. ~x.modelVisible
    BY <1>2, <1>4, <2>1, Zenon
  <2>4. x.inochi = None
    BY <1>2, <2>1
  <2>5. x.layered
    BY <1>3, <1>4
  <2>6. Dressed(x)
    BY <1>3, <2>2, <2>3, <2>4 DEF Dressed
  <2>7. Bodies(x) = {"layers"}
    BY <2>2, <2>3, <2>5 DEF Bodies
  <2> QED
    BY <1>1, <1>3, <1>4, <2>5, <2>6, <2>7
<1>5. CASE ~pg.layered /\ (x.inochi # None \/ x.vrm # None)
  <2>1. ~fails /\ ~pg.botVisible
    BY <1>2, <1>3, <1>5 DEF Dressed
  <2>2. ~x.botVisible
    BY <1>2, <1>5, <2>1, Zenon
  <2>3. x.modelVisible = pg.primaryShown
    BY <1>2, <1>5, Zenon
  <2>4. x.inochi = pg.inochi
    BY <1>2, <2>1
  <2>5. ~x.layered
    BY <1>3, <1>5
  <2>6. Dressed(x)
    BY <1>3, <2>2, <2>4, <2>5 DEF Dressed
  <2>7. ASSUME pg.primaryShown PROVE Bodies(x) = {"model"}
    BY <1>5, <2>2, <2>3, <2>5, <2>7 DEF Bodies
  <2>8. ASSUME ~pg.primaryShown PROVE Bodies(x) = {}
    BY <2>2, <2>3, <2>5, <2>8 DEF Bodies
  <2> QED
    BY <1>1, <1>3, <1>5, <2>5, <2>6, <2>7, <2>8
<1>6. CASE ~pg.layered /\ x.inochi = None /\ x.vrm = None
  <2>2. x.botVisible = pg.primaryShown
    BY <1>2, <1>6, Zenon
  <2>5. ~x.layered
    BY <1>3, <1>6
  <2>6. Dressed(x)
    BY <1>3, <1>6, <2>5 DEF Dressed
  <2>7. ASSUME pg.primaryShown PROVE Bodies(x) = {"bot"}
    BY <1>6, <2>2, <2>5, <2>7 DEF Bodies
  <2>8. ASSUME ~pg.primaryShown PROVE Bodies(x) = {}
    BY <1>6, <2>2, <2>5, <2>8 DEF Bodies
  <2> QED
    BY <1>1, <1>3, <1>6, <2>5, <2>6, <2>7, <2>8
<1> QED
  BY <1>4, <1>5, <1>6

\* The invariant of the bodies.
ShownInv == OwnedInv /\ Dressed(page)

\* The page as it was loaded shows the bot.
LEMMA DressedInit == Init => Dressed(page)
<1> SUFFICES ASSUME Init PROVE Dressed(page)
  OBVIOUS
<1>1. page.vrm = None /\ page.inochi = None /\ page.primaryId = None
      /\ page.primaryShown = TRUE /\ page.layered = FALSE
  BY DEF Init, NewPage
<1> QED
  BY <1>1 DEF Dressed

\* Every step keeps the bodies in order.
LEMMA DressedNext == ShownInv /\ [Next]_vars => Dressed(page')
<1> SUFFICES ASSUME ShownInv, [Next]_vars PROVE Dressed(page')
  OBVIOUS
<1>0. /\ OwnedInv /\ Dressed(page) /\ LoadsShape(loads) /\ Owned(page, loads, late)
      /\ PageShape(page) /\ RoomSettled(page) /\ DOMAIN page = PageFields
  BY DEF ShownInv, OwnedInv, Owned, PageShape
<1> DEFINE Rest == {"gate", "selected", "listed", "requested", "participants", "additional",
                    "generations", "scene"}
<1>1. ASSUME NEW p \in Participants, Publish(p) \/ ReloadTracker(p) PROVE Dressed(page')
  BY <1>0, <1>1 DEF Publish, ReloadTracker
<1>2. ASSUME NEW p \in Participants, SelectParticipant(p) PROVE Dressed(page')
  <2>1. Except(page', page, Rest) /\ Present(page') = Present(page)
    BY <1>0, <1>2 DEF SelectParticipant, Except, PageFields, Present
  <2> QED
    BY <1>0, <2>1, DressedSame
<1>3. ASSUME NEW f \in net, LoseFrame(f) PROVE Dressed(page')
  BY <1>0, <1>3 DEF LoseFrame, pageVars
<1>4. ASSUME NEW f \in net, ReceiveFrame(f) PROVE Dressed(page')
  <2>1. PICK p : p = f.from
    OBVIOUS
  <2>2. p \in Participants
    BY <1>0, <2>1 DEF OwnedInv, FramesFit
  <2>3. PICK joined : joined = EnsureRuntime(Ingest(page, p), p)
    OBVIOUS
  <2>4. Dressed(joined) /\ PageShape(joined)
    BY <1>0, <2>2, <2>3, DressedReceived, ReceivedOwned DEF Owned
  <2>5. PICK gate : gate = Accept(GateFor(joined, p), f.seq)
    OBVIOUS
  <2>6. page' = SetGate(joined, p, gate)
    BY <1>4, <2>1, <2>3, <2>5 DEF ReceiveFrame
  <2>7. Except(page', joined, Rest) /\ Present(page') = Present(joined)
    BY <2>4, <2>6 DEF SetGate, Except, PageFields, Present, PageShape
  <2> QED
    BY <2>4, <2>7, DressedSame
<1>5. ASSUME Tick PROVE Dressed(page')
  <2>1. Except(page', page, Rest) /\ Present(page') = Present(page)
    BY <1>0, <1>5 DEF Tick, Except, PageFields, Present, Aged
  <2> QED
    BY <1>0, <2>1, DressedSame
<1>6. ASSUME NEW fails \in BOOLEAN, Render(fails) PROVE Dressed(page')
  <2>1. PICK laid : laid = Layout(page)
    OBVIOUS
  <2>2. page' = Draw(laid, fails) /\ (fails => laid.inochi # None)
    BY <1>6, <2>1 DEF Render
  <2>3. PageShape(laid) /\ Dressed(laid)
    BY <1>0, <2>1, DressedLayout
  <2> QED
    BY <2>2, <2>3, DressedDraw
<1>7. ASSUME Connect \/ \E seq \in Seqs : StartReplay(seq) \/ ReplayStep(seq) PROVE Dressed(page')
  <2>1. Except(page', page, Rest) /\ Present(page') = Present(page)
    BY <1>0, <1>7 DEF Connect, ResetOrderGate, StartReplay, ReplayStep, Except, PageFields, Present
  <2> QED
    BY <1>0, <2>1, DressedSame
<1>8. ASSUME ConnectEnds \/ ConnectionLost \/ UNCHANGED vars PROVE Dressed(page')
  BY <1>0, <1>8 DEF ConnectEnds, ConnectionLost, vars, pageVars
<1>9. Dressed(PageForVrm)
  <2>1. VrmFileTo \in Participants \cup {None}
    BY <1>0 DEF VrmFileTo, PageShape
  <2> QED
    BY <1>0, <2>1, DressedEnsure DEF PageForVrm
<1>10. ASSUME ChooseVrm PROVE Dressed(page')
  BY <1>9, <1>10 DEF ChooseVrm
<1>11. ASSUME NEW kind, ChooseModel(kind) PROVE Dressed(page')
  BY <1>0, <1>11 DEF ChooseModel
<1>12. ASSUME ShowPngLayers PROVE Dressed(page')
  BY <1>0, <1>12, DressedLayers DEF ShowPngLayers
<1>13. ASSUME NEW rev, NEW kind, NativeAvatarSelected(rev, kind) PROVE Dressed(page')
  <2>1. Except(page', page, Rest) /\ Present(page') = Present(page)
    BY <1>0, <1>13 DEF NativeAvatarSelected, Except, PageFields, Present
  <2> QED
    BY <1>0, <2>1, DressedSame
<1>14. ASSUME NEW i \in LoadIds, NativeAvatarRead(i) \/ LoadFails(i) PROVE Dressed(page')
  BY <1>0, <1>9, <1>14 DEF NativeAvatarRead, LoadFails
<1>15. ASSUME NEW i \in LoadIds, LoadEnds(i) PROVE Dressed(page')
  <2>1. Dressed(InstallVrm(page, i))
    BY <1>0, InstallVrmDoes, DressedInstalls
  <2>2. Dressed(InstallInochi(page, i))
    BY <1>0, InstallInochiDoes, DressedInstalls
  <2>3. Dressed(InstallLayers(page)) /\ Dressed(AttachToRuntime(page, i))
    BY <1>0, DressedLayers, DressedAttach
  <2>4. \/ page' = InstallInochi(page, i) \/ page' = InstallLayers(page)
        \/ page' = InstallVrm(page, i) \/ page' = AttachToRuntime(page, i)
    BY <1>15 DEF LoadEnds
  <2> QED
    BY <2>1, <2>2, <2>3, <2>4
<1> HIDE DEF Rest
<1> QED
  BY <1>1, <1>2, <1>3, <1>4, <1>5, <1>6, <1>7, <1>8, <1>10, <1>11, <1>12, <1>13, <1>14, <1>15 DEF Next

\* Both invariants hold in every state.
LEMMA ShownIsInvariant == Spec => []ShownInv
<1>1. Init => ShownInv
  BY OwnedInit, DressedInit DEF ShownInv
<1>2. ShownInv /\ [Next]_vars => ShownInv'
  BY OwnedNext, DressedNext DEF ShownInv
<1> QED
  BY <1>1, <1>2, PTL DEF Spec

\* A rendered frame shows exactly one body for the first participant - bot, model or
\* layers - and none once that has left, in whatever order files are chosen, loaded,
\* fail and are overtaken (installVrm, installInochi, installLayers and the render
\* loop, viewer.js).
THEOREM ViewerShowsOneBody == Spec => RenderShowsOneBody
<1>1. ASSUME ShownInv, NEW fails \in BOOLEAN, Render(fails)
      PROVE  LET first == page'.primaryId
             IN  /\ (page'.layered \/ first = None
                      \/ first \in LaidOut(page) \cap Present(page'))
                       => Cardinality(Bodies(page')) = 1
                 /\ (first # None /\ first \notin Present(page') /\ ~page'.layered)
                       => Bodies(page') = {}
  <2>0. PageShape(page) /\ RoomSettled(page) /\ Dressed(page)
    BY <1>1 DEF ShownInv, OwnedInv, Owned
  <2>1. PICK laid : laid = Layout(page)
    OBVIOUS
  <2>2. PICK x : x = Draw(laid, fails)
    OBVIOUS
  <2>3. page' = x /\ (fails => laid.inochi # None)
    BY <1>1, <2>1, <2>2 DEF Render
  <2>4. /\ PageShape(laid) /\ Dressed(laid) /\ laid.primaryId = page.primaryId
        /\ page.primaryId \in LaidOut(page) \cap Present(laid) => laid.primaryShown
    BY <2>0, <2>1, DressedLayout
  <2>5. /\ Dressed(x) /\ x.primaryId = laid.primaryId /\ Present(x) = Present(laid)
        /\ x.layered <=> laid.layered
        /\ laid.layered => Bodies(x) = {"layers"}
        /\ ~laid.layered /\ ~laid.primaryShown => Bodies(x) = {}
        /\ ~laid.layered /\ laid.primaryShown => Bodies(x) = {"model"} \/ Bodies(x) = {"bot"}
    BY <2>2, <2>3, <2>4, DressedDraw
  <2>6. /\ Cardinality({"layers"}) = 1 /\ Cardinality({"model"}) = 1 /\ Cardinality({"bot"}) = 1
    BY FS_Singleton
  <2>7. ASSUME x.layered \/ x.primaryId = None \/ x.primaryId \in LaidOut(page) \cap Present(x)
        PROVE  Cardinality(Bodies(x)) = 1
    <3>1. x.layered \/ laid.primaryShown
      BY <2>4, <2>5, <2>7 DEF Dressed
    <3> QED
      BY <2>5, <2>6, <3>1
  <2>8. ASSUME x.primaryId # None, x.primaryId \notin Present(x), ~x.layered
        PROVE  Bodies(x) = {}
    BY <2>4, <2>5, <2>8 DEF Dressed
  <2> QED
    BY <2>3, <2>7, <2>8
<1>2. ShownInv =>
       ((\E fails \in BOOLEAN : Render(fails)) =>
       LET first == page'.primaryId
       IN  /\ (page'.layered \/ first = None
                \/ first \in LaidOut(page) \cap Present(page'))
                 => Cardinality(Bodies(page')) = 1
           /\ (first # None /\ first \notin Present(page') /\ ~page'.layered)
                 => Bodies(page') = {})
  BY <1>1
<1> QED
  BY <1>2, ShownIsInvariant, PTL DEF RenderShowsOneBody

---------------------------------------------------------------------------
(* The poses.                                                              *)

\* The number of the frame a tracker sent `back` frames before its last one.
SentAgo(t, back) == (t - 1 - back) % SeqModulus

\* A frame of the present session passes the gate only if it was not sent before
\* the one that passed last.
LEMMA PassesForward ==
  ASSUME NEW t \in Seqs, NEW b \in 0 .. HalfRange - 1, NEW s \in 0 .. SeqModulus - 1,
         Ahead(SentAgo(t, b), SentAgo(t, s)) \in 1 .. HalfRange - 1
  PROVE  b <= s
<1> DEFINE M == SeqModulus
           H == HalfRange
<1>1. M \in Nat /\ M >= 2 /\ H \in Nat /\ 2 * H = M
  BY FrameOrderAssumption DEF HalfRange
<1>2. t \in 0 .. M - 1 /\ b \in 0 .. H - 1 /\ s \in 0 .. M - 1
  BY DEF Seqs
<1> HIDE DEF M, H
<1>3. ASSUME NEW k \in 0 .. M - 1
      PROVE  (t - 1 - k) % M = IF t >= k + 1 THEN t - 1 - k ELSE t - 1 - k + M
  <2>1. CASE t >= k + 1
    <3>1. t - 1 - k \in 0 .. M - 1
      BY <1>1, <1>2, <2>1
    <3> QED
      BY <1>1, <2>1, <3>1
  <2>2. CASE t < k + 1
    <3>1. PICK a : a = t - 1 - k + M
      OBVIOUS
    <3>2. a \in 0 .. M - 1 /\ a - M = t - 1 - k
      BY <1>1, <1>2, <2>2, <3>1
    <3>3. (a - M) % M = a
      BY <1>1, <3>2
    <3>4. (t - 1 - k) % M = a
      BY <3>2, <3>3, Zenon
    <3>5. ~(t >= k + 1)
      BY <1>1, <1>2, <2>2
    <3> QED
      BY <3>1, <3>4, <3>5, Zenon
  <2> QED
    BY <1>1, <1>2, <2>1, <2>2
<1> DEFINE x == SentAgo(t, b)
           y == SentAgo(t, s)
<1>4. SentAgo(t, b) = (t - 1 - b) % M /\ SentAgo(t, s) = (t - 1 - s) % M
  BY DEF SentAgo, M
<1>5. b \in 0 .. M - 1
  BY <1>1, <1>2
<1>6. /\ x = IF t >= b + 1 THEN t - 1 - b ELSE t - 1 - b + M
      /\ y = IF t >= s + 1 THEN t - 1 - s ELSE t - 1 - s + M
  BY <1>2, <1>3, <1>4, <1>5
<1> HIDE DEF x, y
<1>7. x \in 0 .. M - 1 /\ y \in 0 .. M - 1
  BY <1>1, <1>2, <1>5, <1>6
<1>8. (x - y) % M = IF x >= y THEN x - y ELSE x - y + M
  <2>1. ASSUME NEW a \in 0 .. M - 1, NEW c \in 0 .. M - 1
        PROVE  (a - c) % M = IF a >= c THEN a - c ELSE a - c + M
    BY <1>1
  <2> QED
    BY <1>7, <2>1
<1>9. (x - y) % M \in 1 .. H - 1
  BY DEF Ahead, x, y, M, H
<1> QED
  BY <1>1, <1>2, <1>6, <1>7, <1>8, <1>9

\* One frame more has been sent.
LEMMA SentAgoShifts ==
  ASSUME NEW t \in Seqs, NEW k \in 0 .. SeqModulus - 2
  PROVE  SentAgo((t + 1) % SeqModulus, k + 1) = SentAgo(t, k)
<1> DEFINE M == SeqModulus
<1>1. M \in Nat /\ M >= 2 /\ t \in 0 .. M - 1 /\ k \in 0 .. M - 2
  BY FrameOrderAssumption DEF Seqs
<1>2. ASSUME NEW u, NEW j PROVE SentAgo(u, j) = (u - 1 - j) % M
  BY DEF SentAgo
<1>3. PICK u : u = (t + 1) % M
  OBVIOUS
<1> SUFFICES SentAgo(u, k + 1) = SentAgo(t, k)
  BY <1>3
<1> HIDE DEF M
<1>4. CASE t + 1 < M
  <2>1. u = t + 1
    BY <1>1, <1>3, <1>4
  <2>2. u - 1 - (k + 1) = t - 1 - k
    BY <1>1, <2>1
  <2> QED
    BY <1>2, <2>2
<1>5. CASE t = M - 1
  <2>1. u = 0
    BY <1>1, <1>3, <1>5
  <2>2. PICK a : a = t - 1 - k
    OBVIOUS
  <2>3. a \in 0 .. M - 1 /\ a - M = u - 1 - (k + 1)
    BY <1>1, <1>5, <2>1, <2>2
  <2>4. (a - M) % M = a /\ a % M = a
    BY <1>1, <2>3
  <2> QED
    BY <1>2, <2>2, <2>3, <2>4
<1> QED
  BY <1>1, <1>4, <1>5

\* The frame just sent.
LEMMA SentAgoZero ==
  ASSUME NEW t \in Seqs
  PROVE  SentAgo((t + 1) % SeqModulus, 0) = t
<1> DEFINE M == SeqModulus
<1>1. M \in Nat /\ M >= 2 /\ t \in 0 .. M - 1
  BY FrameOrderAssumption DEF Seqs
<1>2. ASSUME NEW u PROVE SentAgo(u, 0) = (u - 1 - 0) % M
  BY DEF SentAgo
<1>3. PICK u : u = (t + 1) % M
  OBVIOUS
<1> SUFFICES SentAgo(u, 0) = t
  BY <1>3
<1> HIDE DEF M
<1>4. CASE t + 1 < M
  <2>1. u = t + 1 /\ t % M = t
    BY <1>1, <1>3, <1>4
  <2>2. u - 1 - 0 = t
    BY <1>1, <2>1
  <2> QED
    BY <1>2, <2>1, <2>2
<1>5. CASE t = M - 1
  <2>1. u - 1 - 0 = t - M
    BY <1>1, <1>3, <1>5
  <2>2. (t - M) % M = t
    BY <1>1
  <2> QED
    BY <1>2, <2>1, <2>2
<1> QED
  BY <1>1, <1>4, <1>5

\* p has the runtime in x that it has in pg, and its gate is as it was.
Steady(x, pg, p) == Runtime(x, p) = Runtime(pg, p) /\ GateFor(x, p) = GateFor(pg, p)

\* Fields that neither a runtime nor a gate depends on.
LEMMA ExceptSteady ==
  ASSUME NEW pg, NEW x, x.primaryId = pg.primaryId, x.primaryHandle = pg.primaryHandle,
         x.additional = pg.additional, x.gate = pg.gate, NEW p
  PROVE  Steady(x, pg, p)
BY DEF Steady, Runtime, GateFor

\* Who leaves has no runtime, and who stays keeps the one it has.
LEMMA ShrinksSteady ==
  ASSUME NEW pg, PageShape(pg), RoomSettled(pg), NEW gone \in SUBSET Present(pg),
         NEW x, PageShape(x), Shrinks(x, pg, gone), NEW p \in Participants
  PROVE  IF p \in gone THEN Runtime(x, p) = None
         ELSE Runtime(pg, p) # None => Steady(x, pg, p)
<1>1. x.primaryId = pg.primaryId
  BY DEF Shrinks, Except, PageFields
<1>2. /\ DOMAIN x.additional = DOMAIN pg.additional \ gone
      /\ \A q \in DOMAIN x.additional : x.additional[q] = pg.additional[q]
  BY DEF Shrinks
<1>3. /\ pg.primaryId \in gone => x.primaryHandle = None
      /\ pg.primaryId \notin gone => x.primaryHandle = pg.primaryHandle /\ x.gate = pg.gate
  BY DEF Shrinks, Except, PageFields
<1>4. CASE p \in gone
  <2>1. Runtime(x, p) = None
    BY <1>1, <1>2, <1>3, <1>4 DEF Runtime
  <2> QED
    BY <1>4, <2>1
<1>5. CASE p \notin gone
  <2>1. Runtime(pg, p) # None => Steady(x, pg, p)
    BY <1>1, <1>2, <1>3, <1>5 DEF Runtime, Steady, GateFor
  <2> QED
    BY <1>5, <2>1
<1> QED
  BY <1>4, <1>5

\* Whoever joins does so with a runtime of a later stay; the others keep theirs.
LEMMA JoinsSteady ==
  ASSUME NEW pg, PageShape(pg), RoomSettled(pg), NEW p \in Participants \ Present(pg),
         NEW x, Joins(x, pg, p), NEW q \in Participants
  PROVE  IF q = p THEN Runtime(x, p) = pg.generations[p] + 1
         ELSE Runtime(pg, q) # None => Steady(x, pg, q)
<1> DEFINE g == pg.generations[p] + 1
<1>1. /\ x.primaryId = IF pg.primaryId = None THEN p ELSE pg.primaryId
      /\ p = x.primaryId => x.primaryHandle = g /\ x.additional = pg.additional
      /\ p # x.primaryId =>
           /\ x.primaryHandle = pg.primaryHandle
           /\ x.additional = With(pg.additional, p, [made |-> g, lastSeq |-> NoSeq, vrm |-> None])
      /\ x.gate = pg.gate
  BY DEF Joins, Except, PageFields
<1>2. CASE q = p
  <2>1. CASE p = x.primaryId
    BY <1>1, <1>2, <2>1 DEF Runtime
  <2>2. CASE p # x.primaryId
    <3>1. p \in DOMAIN x.additional /\ x.additional[p].made = g
      BY <1>1, <2>2 DEF With
    <3> QED
      BY <1>2, <2>2, <3>1 DEF Runtime
  <2> QED
    BY <2>1, <2>2
<1>3. CASE q # p
  <2>1. CASE pg.primaryId = None
    <3>1. Runtime(pg, q) = None
      BY <2>1 DEF Runtime, RoomSettled
    <3> QED
      BY <1>3, <3>1
  <2>2. CASE pg.primaryId # None
    <3>1. x.primaryId = pg.primaryId
      BY <1>1, <2>2
    <3>2. CASE q = pg.primaryId
      BY <1>1, <1>3, <3>1, <3>2 DEF Steady, Runtime, GateFor
    <3>3. CASE q # pg.primaryId
      <4>1. /\ q \in DOMAIN x.additional <=> q \in DOMAIN pg.additional
            /\ q \in DOMAIN pg.additional => x.additional[q] = pg.additional[q]
        BY <1>1, <1>3 DEF With
      <4> QED
        BY <1>3, <3>1, <3>3, <4>1 DEF Steady, Runtime, GateFor
    <3> QED
      BY <3>2, <3>3
  <2> QED
    BY <2>1, <2>2
<1> QED
  BY <1>2, <1>3

\* A participant in the room has the runtime of its present stay.
LEMMA RuntimeOfStay ==
  ASSUME NEW pg, PageShape(pg), RoomSettled(pg), NEW p \in Participants
  PROVE  /\ p \in Present(pg) => Runtime(pg, p) = pg.generations[p] /\ Runtime(pg, p) # None
         /\ p \notin Present(pg) => Runtime(pg, p) = None
<1>1. CASE p \in Present(pg)
  <2>1. pg.participants[p] \in Entry
    BY <1>1 DEF PageShape
  <2>2. pg.generations[p] \in Nat \ {0} /\ Runtime(pg, p) = pg.generations[p]
    BY <1>1, <2>1 DEF RoomSettled, Runtime, Entry
  <2> QED
    BY <1>1, <2>2 DEF None
<1>2. CASE p \notin Present(pg)
  BY <1>2 DEF RoomSettled, Runtime
<1> QED
  BY <1>1, <1>2

\* ensureParticipantRuntime
LEMMA EnsureSteady ==
  ASSUME NEW ls, LoadsShape(ls), NEW lt, NEW pg, Owned(pg, ls, lt), NEW p \in Participants,
         NEW q \in Participants, Runtime(pg, q) # None
  PROVE  Steady(EnsureRuntime(pg, p), pg, q)
<1>1. PageShape(pg) /\ RoomSettled(pg)
  BY DEF Owned
<1>2. PICK x : x = EnsureRuntime(pg, p)
  OBVIOUS
<1>3. CASE p \in Present(pg)
  <2>1. Except(x, pg, {"listed", "selected"})
    BY <1>1, <1>2, <1>3, EnsureKeeps
  <2> QED
    BY <1>2, <2>1, ExceptSteady DEF Except, PageFields
<1>4. CASE p \notin Present(pg)
  <2>1. Joins(x, pg, p)
    <3>1. CASE pg.primaryId \in {None, p}
      BY <1>1, <1>2, <1>4, <3>1, JoinFirst
    <3>2. CASE pg.primaryId \notin {None, p}
      BY <1>1, <1>2, <1>4, <3>2, JoinOther
    <3> QED
      BY <3>1, <3>2
  <2>2. q # p
    BY <1>1, <1>4, RuntimeOfStay
  <2> QED
    BY <1>1, <1>2, <1>4, <2>1, <2>2, JoinsSteady
<1> QED
  BY <1>3, <1>4

\* As far as a participant keeps its runtime it keeps its gate.
Carried(x, pg) ==
  \A q \in Participants :
    Runtime(pg, q) # None /\ Runtime(x, q) = Runtime(pg, q) => GateFor(x, q) = GateFor(pg, q)

\* The 'participant-frame' handler up to the gate.
LEMMA ReceivedCarries ==
  ASSUME NEW ls, LoadsShape(ls), NEW lt, NEW pg, Owned(pg, ls, lt), NEW p \in Participants
  PROVE  Carried(EnsureRuntime(Ingest(pg, p), p), pg)
<1>1. PageShape(pg) /\ RoomSettled(pg)
  BY DEF Owned
<1>2. PICK x : x = EnsureRuntime(Ingest(pg, p), p)
  OBVIOUS
<1> SUFFICES ASSUME NEW q \in Participants, Runtime(pg, q) # None, Runtime(x, q) = Runtime(pg, q)
             PROVE  GateFor(x, q) = GateFor(pg, q)
  BY <1>2 DEF Carried
<1>3. CASE p \in Present(pg) \ Expired(pg)
  <2>1. PICK i : i = Ingest(pg, p)
    OBVIOUS
  <2>2. Owned(i, ls, lt)
    BY <1>3, <2>1, IngestPresent
  <2>3. i = [pg EXCEPT !.participants[p].age = 0]
    BY <1>3, <2>1 DEF Ingest
  <2>4. Steady(i, pg, q)
    BY <1>1, <2>3, ExceptSteady DEF PageShape, PageFields
  <2>5. Steady(x, i, q)
    BY <1>2, <2>1, <2>2, <2>4, EnsureSteady DEF Steady
  <2> QED
    BY <2>4, <2>5 DEF Steady
<1>4. ASSUME NEW kept, Owned(kept, ls, lt), p \notin Present(kept),
             Ingest(pg, p) = Ingest(kept, p), kept.generations[p] = pg.generations[p],
             q # p => Steady(kept, pg, q)
      PROVE  GateFor(x, q) = GateFor(pg, q)
  <2>1. PageShape(kept) /\ RoomSettled(kept)
    BY <1>4 DEF Owned
  <2>2. Joins(x, kept, p)
    <3>1. CASE kept.primaryId \in {None, p}
      BY <1>2, <1>4, <2>1, <3>1, JoinFirst
    <3>2. CASE kept.primaryId \notin {None, p}
      BY <1>2, <1>4, <2>1, <3>2, JoinOther
    <3> QED
      BY <3>1, <3>2
  <2>3. q # p
    <3>1. Runtime(x, p) = kept.generations[p] + 1
      BY <1>4, <2>1, <2>2, JoinsSteady
    <3>2. pg.generations[p] \in Nat
      BY <1>1 DEF PageShape
    <3> QED
      BY <1>1, <1>4, <3>1, <3>2, RuntimeOfStay
  <2>4. Steady(kept, pg, q)
    BY <1>4, <2>3
  <2>5. Steady(x, kept, q)
    BY <1>4, <2>1, <2>2, <2>3, <2>4, JoinsSteady DEF Steady
  <2> QED
    BY <2>4, <2>5 DEF Steady
<1>5. CASE p \notin Present(pg)
  BY <1>2, <1>4, <1>5 DEF Steady
<1>6. CASE p \in Expired(pg)
  <2>1. PICK kept : kept = Expire(pg, p)
    OBVIOUS
  <2>2. p \in Present(pg)
    BY <1>6 DEF Expired
  <2>3. Owned(kept, ls, lt) /\ Present(kept) = Present(pg) \ {p}
    BY <2>1, <2>2, ExpireOwned
  <2>4. p \notin Expired(kept)
    BY <2>3 DEF Expired
  <2>5. Ingest(pg, p) = Ingest(kept, p)
    BY <1>6, <2>1, <2>4 DEF Ingest
  <2>6. PageShape(kept) /\ Shrinks(kept, pg, {p})
    <3>1. Shrinks(pg, pg, {})
      BY <1>1 DEF Shrinks, Except, PageShape, PageFields, Present
    <3>2. p \in Present(pg) \ {} /\ {p} = {} \cup {p}
      BY <2>2
    <3> QED
      BY <1>1, <2>1, <3>1, <3>2, ExpireShrinks
  <2>7. kept.generations = pg.generations
    BY <2>6 DEF Shrinks, Except, PageFields
  <2>8. q # p => Steady(kept, pg, q)
    BY <1>1, <2>2, <2>6, ShrinksSteady
  <2> QED
    BY <1>4, <2>3, <2>5, <2>7, <2>8
<1> QED
  BY <1>3, <1>5, <1>6

\* updateRoomParticipantLayout
LEMMA LayoutCarries ==
  ASSUME NEW ls, LoadsShape(ls), NEW lt, NEW pg, Owned(pg, ls, lt)
  PROVE  Carried(Layout(pg), pg)
<1>1. PICK y : y = IF pg.primaryHandle # None /\ pg.primaryId \in LaidOut(pg) \ Expired(pg)
                   THEN [pg EXCEPT !.primaryShown = TRUE] ELSE pg
  OBVIOUS
<1>2. Layout(pg) = Prune(y)
  BY <1>1 DEF Layout
<1>3. /\ DOMAIN pg = PageFields /\ pg.gate \in Seqs \cup {NoSeq} /\ SelectorFits(pg)
      /\ pg.primaryShown \in BOOLEAN
  BY DEF Owned, PageShape, SelectorFits
<1>4. /\ Except(y, pg, {"gate", "selected", "listed", "requested", "primaryShown"})
      /\ y.gate = pg.gate /\ y.listed = pg.listed /\ y.selected = pg.selected
      /\ y.primaryShown \in BOOLEAN
  <2>1. CASE y = pg
    BY <1>3, <2>1 DEF Except
  <2>2. CASE y = [pg EXCEPT !.primaryShown = TRUE]
    <3>1. y.primaryShown = TRUE
      BY <1>3, <2>2 DEF PageFields
    <3>2. y.primaryShown \in BOOLEAN
      BY <3>1, Zenon
    <3> QED
      BY <1>3, <2>2, <3>2 DEF Except, PageFields
  <2> QED
    BY <1>1, <2>1, <2>2
<1>5. Owned(y, ls, lt)
  BY <1>3, <1>4, SameOwned DEF SelectorFits
<1>6. \A q : Steady(y, pg, q)
  BY <1>4, ExceptSteady DEF Except, PageFields
<1>7. PICK x : x = Prune(y)
  OBVIOUS
<1>8. PageShape(y) /\ RoomSettled(y)
  BY <1>5 DEF Owned
<1>9. PageShape(x) /\ Shrinks(x, y, Expired(y)) /\ Expired(y) \in SUBSET Present(y)
  BY <1>7, <1>8, PruneShrinks DEF Expired
<1> SUFFICES ASSUME NEW q \in Participants, Runtime(pg, q) # None, Runtime(x, q) = Runtime(pg, q)
             PROVE  GateFor(x, q) = GateFor(pg, q)
  BY <1>2, <1>7 DEF Carried
<1>10. Runtime(y, q) = Runtime(pg, q) /\ GateFor(y, q) = GateFor(pg, q)
  BY <1>6 DEF Steady
<1> QED
  BY <1>8, <1>9, <1>10, ShrinksSteady DEF Steady

\* What a participant's avatar shows and what its gate compares with are the same
\* frame of its tracker; after a reconnect the gate is open, and then every frame
\* on its way was sent later than the one shown.
PoseOf(pg, s, t, fs, p) ==
  s # NoSeq =>
    /\ Runtime(pg, p) # None
    /\ s < SeqModulus =>
         \/ GateFor(pg, p) = SentAgo(t, s)
         \/ /\ GateFor(pg, p) = NoSeq
            /\ \A f \in fs : f.from = p /\ ~f.old => f.behind < s

\* So it is for every participant.
Poses(pg, sh, tr, fs) ==
  /\ sh \in [Participants -> 0 .. SeqModulus \cup {NoSeq}]
  /\ \A p \in Participants : PoseOf(pg, sh[p], tr[p].seq, fs, p)

\* A frame of the present session carries the number its tracker gave it.
FramesNumbered(tr, fs) ==
  \A f \in fs : /\ f \in Frames
                /\ ~f.old => f.seq = SentAgo(tr[f.from].seq, f.behind)

\* The invariant of the poses.
PoseInv ==
  /\ OwnedInv /\ limits \in LimitsType
  /\ FramesNumbered(tracker, net) /\ Poses(page, shown, tracker, net)

\* Nothing has been sent and nothing shown.
LEMMA PoseInit == Init => limits \in LimitsType /\ FramesNumbered(tracker, net)
                          /\ Poses(page, shown, tracker, net)
<1> SUFFICES ASSUME Init PROVE limits \in LimitsType /\ FramesNumbered(tracker, net)
                               /\ Poses(page, shown, tracker, net)
  OBVIOUS
<1>1. limits \in LimitsType /\ net = {} /\ shown = [p \in Participants |-> NoSeq]
  BY LimitsAssumption DEF Init
<1> QED
  BY <1>1 DEF FramesNumbered, Poses, PoseOf

\* Runtimes and gates are as they were.
LEMMA PosesSteady ==
  ASSUME NEW pg, NEW sh, NEW tr, NEW fs, Poses(pg, sh, tr, fs), NEW x, NEW gs \in SUBSET fs,
         \A p \in Participants : Runtime(pg, p) # None => Steady(x, pg, p)
  PROVE  Poses(x, sh, tr, gs)
<1> SUFFICES ASSUME NEW p \in Participants PROVE PoseOf(x, sh[p], tr[p].seq, gs, p)
  BY DEF Poses
<1>1. PoseOf(pg, sh[p], tr[p].seq, fs, p)
  BY DEF Poses
<1> QED
  BY <1>1 DEF PoseOf, Steady

\* Runtimes have been replaced, and the history of what they showed with them.
LEMMA PosesCarried ==
  ASSUME Poses(page, shown, tracker, net), NEW x, Carried(x, page), NEW gs \in SUBSET net
  PROVE  Poses(x, ShownAfter(x), tracker, gs)
<1>1. ASSUME NEW p \in Participants
      PROVE  /\ PoseOf(x, ShownAfter(x)[p], tracker[p].seq, gs, p)
             /\ ShownAfter(x)[p] \in 0 .. SeqModulus \cup {NoSeq}
  <2>1. PoseOf(page, shown[p], tracker[p].seq, net, p) /\ shown[p] \in 0 .. SeqModulus \cup {NoSeq}
    BY DEF Poses
  <2>2. CASE Runtime(x, p) = Runtime(page, p)
    <3>1. ShownAfter(x)[p] = shown[p]
      BY <2>2 DEF ShownAfter
    <3> QED
      BY <2>1, <2>2, <3>1 DEF PoseOf, Carried
  <2>3. CASE Runtime(x, p) # Runtime(page, p)
    <3>1. ShownAfter(x)[p] = NoSeq
      BY <2>3 DEF ShownAfter
    <3> QED
      BY <3>1 DEF PoseOf
  <2> QED
    BY <2>2, <2>3
<1> QED
  BY <1>1 DEF Poses, ShownAfter

\* What a received frame leaves of the runtimes and gates.
LEMMA SetGateDoes ==
  ASSUME NEW pg, PageShape(pg), RoomSettled(pg), NEW p \in Present(pg), NEW seq
  PROVE  LET x == SetGate(pg, p, seq) IN
         /\ Runtime(x, p) = Runtime(pg, p) /\ GateFor(x, p) = seq
         /\ \A q \in Participants \ {p} : Steady(x, pg, q)
<1>1. PICK x : x = SetGate(pg, p, seq)
  OBVIOUS
<1>0. DOMAIN pg = PageFields /\ DOMAIN pg.additional = Present(pg) \ {pg.primaryId}
      /\ pg.additional \in [DOMAIN pg.additional -> Body]
  BY DEF PageShape, RoomSettled
<1>2. CASE p = pg.primaryId
  <2>1. /\ x.primaryId = pg.primaryId /\ x.primaryHandle = pg.primaryHandle
        /\ x.additional = pg.additional /\ x.gate = seq
    BY <1>0, <1>1, <1>2 DEF SetGate, PageFields
  <2> QED
    BY <1>1, <1>2, <2>1 DEF Steady, Runtime, GateFor
<1>3. CASE p # pg.primaryId
  <2>0. PICK e : e = pg.additional[p]
    OBVIOUS
  <2>1. /\ x.primaryId = pg.primaryId /\ x.primaryHandle = pg.primaryHandle
        /\ x.additional = [pg.additional EXCEPT ![p] = [e EXCEPT !.lastSeq = seq]]
        /\ x.gate = pg.gate
    BY <1>0, <1>1, <1>3, <2>0 DEF SetGate, PageFields
  <2>2. p \in DOMAIN pg.additional /\ e \in Body
    BY <1>0, <1>3, <2>0
  <2>3. /\ DOMAIN x.additional = DOMAIN pg.additional
        /\ x.additional[p].made = e.made /\ x.additional[p].lastSeq = seq
        /\ \A q \in DOMAIN pg.additional \ {p} : x.additional[q] = pg.additional[q]
    BY <2>1, <2>2 DEF Body
  <2> QED
    BY <1>1, <1>3, <2>0, <2>1, <2>2, <2>3 DEF Steady, Runtime, GateFor
<1> QED
  BY <1>2, <1>3

\* The 'participant-frame' handler: the poses fit, and no avatar moves backward.
LEMMA ReceivePose ==
  ASSUME PoseInv, NEW f \in net, ReceiveFrame(f)
  PROVE  /\ Poses(page', shown', tracker', net')
         /\ \A p \in Participants :
              shown[p] # NoSeq /\ shown'[p] # NoSeq /\ Runtime(page', p) = Runtime(page, p)
              => shown'[p] <= shown[p]
<1>1. PICK p : p = f.from
  OBVIOUS
<1>2. /\ p \in Participants /\ f.seq \in Seqs /\ f.behind \in 0 .. HalfRange - 1
      /\ f.old \in BOOLEAN
      /\ ~f.old => f.seq = SentAgo(tracker[p].seq, f.behind)
      /\ tracker[p].seq \in Seqs
  BY <1>1 DEF PoseInv, OwnedInv, FramesFit, FramesNumbered, Frames
<1>3. PICK joined : joined = EnsureRuntime(Ingest(page, p), p)
  OBVIOUS
<1>4. PICK gate : gate = Accept(GateFor(joined, p), f.seq)
  OBVIOUS
<1>5. PICK x : x = SetGate(joined, p, gate)
  OBVIOUS
<1>6. page' = x /\ net' = net \ {f} /\ tracker' = tracker
  BY <1>1, <1>3, <1>4, <1>5 DEF ReceiveFrame
<1> DEFINE accepted == isSeqNewer(f.seq, GateFor(joined, p))
           drawn == ShownAfter(joined)
           seen == IF f.old THEN NoSeq ELSE f.behind
<1>7. shown' = IF accepted THEN [drawn EXCEPT ![p] = seen] ELSE drawn
  BY <1>1, <1>3 DEF ReceiveFrame
<1>8. gate = IF accepted THEN f.seq ELSE GateFor(joined, p)
  BY <1>4 DEF Accept
<1>9. PageShape(joined) /\ RoomSettled(joined) /\ p \in Present(joined)
  BY <1>2, <1>3, ReceivedOwned DEF PoseInv, OwnedInv, Owned
<1>10. Carried(joined, page)
  BY <1>2, <1>3, ReceivedCarries DEF PoseInv, OwnedInv
<1>11. Poses(joined, drawn, tracker, net')
  BY <1>6, <1>10, PosesCarried DEF PoseInv
<1>12. /\ Runtime(x, p) = Runtime(joined, p) /\ GateFor(x, p) = gate
       /\ \A q \in Participants \ {p} : Steady(x, joined, q)
  BY <1>5, <1>9, SetGateDoes
<1>13. Runtime(joined, p) # None
  BY <1>2, <1>9, RuntimeOfStay
<1>14. seen \in 0 .. SeqModulus \cup {NoSeq} /\ (seen # NoSeq => ~f.old /\ seen = f.behind)
  <2>1. CASE f.old
    BY <2>1
  <2>2. CASE ~f.old
    <3>1. 0 .. HalfRange - 1 \subseteq 0 .. SeqModulus
      BY FrameOrderAssumption DEF HalfRange
    <3> QED
      BY <1>2, <2>2, <3>1
  <2> QED
    BY <2>1, <2>2
<1>15. drawn \in [Participants -> 0 .. SeqModulus \cup {NoSeq}]
  BY <1>11 DEF Poses
<1> HIDE DEF accepted, drawn, seen
<1>16. shown' \in [Participants -> 0 .. SeqModulus \cup {NoSeq}]
  BY <1>7, <1>14, <1>15
<1>17. ASSUME NEW q \in Participants PROVE PoseOf(x, shown'[q], tracker[q].seq, net', q)
  <2>1. PoseOf(joined, drawn[q], tracker[q].seq, net', q)
    BY <1>11 DEF Poses
  <2>2. CASE q # p
    <3>1. shown'[q] = drawn[q]
      BY <1>7, <1>15, <2>2
    <3> QED
      BY <1>12, <2>1, <2>2, <3>1 DEF PoseOf, Steady
  <2>3. CASE q = p /\ ~accepted
    <3>1. shown'[q] = drawn[q] /\ gate = GateFor(joined, p)
      BY <1>7, <1>8, <2>3
    <3> QED
      BY <1>12, <2>1, <2>3, <3>1 DEF PoseOf
  <2>4. CASE q = p /\ accepted
    <3>1. shown'[q] = seen /\ gate = f.seq
      BY <1>7, <1>8, <1>15, <2>4
    <3> QED
      BY <1>2, <1>12, <1>13, <1>14, <2>4, <3>1 DEF PoseOf
  <2> QED
    BY <2>2, <2>3, <2>4
<1>18. ASSUME NEW q \in Participants, shown[q] # NoSeq, shown'[q] # NoSeq,
              Runtime(x, q) = Runtime(page, q)
       PROVE  shown'[q] <= shown[q]
  <2>1. PoseOf(page, shown[q], tracker[q].seq, net, q) /\ shown[q] \in 0 .. SeqModulus
    BY <1>18 DEF PoseInv, Poses
  <2>2. Runtime(page, q) # None
    BY <1>18, <2>1 DEF PoseOf
  <2>3. Runtime(joined, q) = Runtime(page, q)
    BY <1>12, <1>18 DEF Steady
  <2>4. drawn[q] = shown[q] /\ GateFor(joined, q) = GateFor(page, q)
    BY <1>10, <2>2, <2>3 DEF drawn, ShownAfter, Carried
  <2>5. CASE q # p \/ ~accepted
    <3>1. shown'[q] = drawn[q]
      BY <1>7, <1>15, <2>5
    <3> QED
      BY <2>1, <2>4, <3>1
  <2>6. CASE q = p /\ accepted
    <3>1. shown'[q] = seen
      BY <1>7, <1>15, <2>6
    <3>2. ~f.old /\ shown'[q] = f.behind
      BY <1>14, <1>18, <3>1
    <3>3. CASE shown[q] = SeqModulus
      BY <1>2, <3>2, <3>3, FrameOrderAssumption DEF HalfRange
    <3>4. CASE GateFor(page, q) = NoSeq /\ \A g \in net : g.from = q /\ ~g.old => g.behind < shown[q]
      <4>1. f.behind < shown[q]
        BY <1>1, <2>6, <3>2, <3>4
      <4>2. f.behind \in Int /\ shown[q] \in Int
        BY <1>2, <2>1
      <4> QED
        BY <3>2, <4>1, <4>2
    <3>5. CASE shown[q] # SeqModulus /\ GateFor(page, q) = SentAgo(tracker[q].seq, shown[q])
      <4>1. shown[q] \in 0 .. SeqModulus - 1
        BY <2>1, <3>5, FrameOrderAssumption
      <4>2. GateFor(page, q) # NoSeq
        <5>1. SentAgo(tracker[q].seq, shown[q]) \in Nat
          BY <1>2, <2>6, <4>1, FrameOrderAssumption DEF SentAgo, Seqs
        <5> QED
          BY <3>5, <5>1, FrameOrderAssumption
      <4>3. Ahead(SentAgo(tracker[p].seq, f.behind), SentAgo(tracker[p].seq, shown[q]))
              \in 1 .. HalfRange - 1
        BY <1>2, <2>4, <2>6, <3>2, <3>5, <4>2 DEF accepted, isSeqNewer
      <4> QED
        BY <1>2, <3>2, <4>1, <4>3, PassesForward
    <3>6. shown[q] # SeqModulus => shown[q] < SeqModulus
      BY <2>1, FrameOrderAssumption
    <3> QED
      BY <1>18, <2>1, <3>3, <3>4, <3>5, <3>6 DEF PoseOf
  <2> QED
    BY <2>5, <2>6
<1> QED
  BY <1>6, <1>16, <1>17, <1>18 DEF Poses

\* A rendered frame takes runtimes away with the poses they showed.
LEMMA RenderPose ==
  ASSUME PoseInv, NEW fails \in BOOLEAN, Render(fails)
  PROVE  /\ Poses(page', shown', tracker', net')
         /\ \A p \in Participants : shown'[p] = shown[p] \/ shown'[p] = NoSeq
<1>1. PICK laid : laid = Layout(page)
  OBVIOUS
<1>2. PICK x : x = Draw(laid, fails)
  OBVIOUS
<1>3. page' = x /\ shown' = ShownAfter(laid) /\ tracker' = tracker /\ net' = net
  BY <1>1, <1>2 DEF Render, envVars
<1>4. PageShape(laid)
  BY <1>1, LayoutOwned DEF PoseInv, OwnedInv, Owned
<1>5. Poses(laid, ShownAfter(laid), tracker, net)
  BY <1>1, LayoutCarries, PosesCarried DEF PoseInv, OwnedInv
<1>6. Except(x, laid, {"inochi", "scene", "botVisible", "modelVisible"})
  BY <1>2, <1>4, DrawDoes
<1>7. \A p : Steady(x, laid, p)
  BY <1>6, ExceptSteady DEF Except, PageFields
<1>8. Poses(x, ShownAfter(laid), tracker, net)
  BY <1>5, <1>7, PosesSteady
<1>9. \A p \in Participants : shown'[p] = shown[p] \/ shown'[p] = NoSeq
  BY <1>3 DEF ShownAfter
<1> QED
  BY <1>3, <1>8, <1>9

\* A frame is published: it is the last one, and every other is one further behind.
LEMMA PublishPose ==
  ASSUME PoseInv, NEW p \in Participants, Publish(p)
  PROVE  FramesNumbered(tracker', net') /\ Poses(page', shown', tracker', net')
<1> DEFINE t == tracker[p].seq
           u == (t + 1) % SeqModulus
           new == [from |-> p, seq |-> t, behind |-> 0, old |-> FALSE]
<1>1. /\ tracker \in [Participants -> [seq : Seqs, reloads : Nat]] /\ t \in Seqs /\ u \in Seqs
      /\ limits.lag \in 0 .. HalfRange - 1
      /\ HalfRange \in Nat \ {0} /\ SeqModulus = 2 * HalfRange
  <2>1. tracker \in [Participants -> [seq : Seqs, reloads : Nat]]
    BY DEF PoseInv, OwnedInv, FramesFit
  <2>2. t \in Seqs
    BY <2>1
  <2>3. u \in Seqs
    BY <2>2, FrameOrderAssumption DEF Seqs
  <2>4. limits.lag \in 0 .. HalfRange - 1
    BY DEF PoseInv, LimitsType
  <2>5. HalfRange \in Nat \ {0} /\ SeqModulus = 2 * HalfRange
    BY FrameOrderAssumption DEF HalfRange
  <2> QED
    BY <2>1, <2>2, <2>3, <2>4, <2>5
<1>2. /\ tracker' = [tracker EXCEPT ![p].seq = u] /\ page' = page
      /\ shown' = [shown EXCEPT ![p] = IF @ \in {NoSeq, SeqModulus} THEN @ ELSE @ + 1]
  BY DEF Publish
<1>3. tracker'[p].seq = u /\ \A q \in Participants \ {p} : tracker'[q] = tracker[q]
  BY <1>1, <1>2
<1> HIDE DEF t, u
<1>4. ASSUME NEW f \in net'
      PROVE  \/ f = new
             \/ \E g \in net : /\ f.from = g.from /\ f.seq = g.seq /\ f.old = g.old
                               /\ f \in [from : Participants, seq : Seqs, behind : Nat, old : BOOLEAN]
                               /\ IF g.from = p /\ ~g.old
                                  THEN g.behind < limits.lag /\ f.behind = g.behind + 1
                                  ELSE f.behind = g.behind
  <2>1. \/ f = new
        \/ \E g \in net : /\ g.from # p \/ g.old \/ g.behind < limits.lag
                          /\ f = [g EXCEPT !.behind = IF g.from = p /\ ~g.old THEN @ + 1 ELSE @]
    <3>1. f \in {[g EXCEPT !.behind = IF g.from = p /\ ~g.old THEN @ + 1 ELSE @] :
                   g \in {g \in net : g.from # p \/ g.old \/ g.behind < limits.lag}} \cup {new}
      BY <1>4 DEF Publish, t
    <3> QED
      BY <3>1
  <2>2. ASSUME NEW g \in net, g.from # p \/ g.old \/ g.behind < limits.lag,
               f = [g EXCEPT !.behind = IF g.from = p /\ ~g.old THEN @ + 1 ELSE @]
        PROVE  /\ f.from = g.from /\ f.seq = g.seq /\ f.old = g.old
               /\ f \in [from : Participants, seq : Seqs, behind : Nat, old : BOOLEAN]
               /\ IF g.from = p /\ ~g.old
                  THEN g.behind < limits.lag /\ f.behind = g.behind + 1
                  ELSE f.behind = g.behind
    <3>1. PICK b : b = IF g.from = p /\ ~g.old THEN g.behind + 1 ELSE g.behind
      OBVIOUS
    <3>2. f = [g EXCEPT !.behind = b]
      BY <2>2, <3>1
    <3>3. g \in Frames
      BY DEF PoseInv, FramesNumbered
    <3>4. f.from = g.from /\ f.seq = g.seq /\ f.old = g.old /\ f.behind = b
      BY <3>2, <3>3 DEF Frames
    <3>7. b \in Nat
      BY <1>1, <3>1, <3>3 DEF Frames
    <3>8. f \in [from : Participants, seq : Seqs, behind : Nat, old : BOOLEAN]
      BY <3>2, <3>3, <3>7 DEF Frames
    <3>5. CASE g.from = p /\ ~g.old
      BY <2>2, <3>1, <3>4, <3>5, <3>8
    <3>6. CASE ~(g.from = p /\ ~g.old)
      BY <3>1, <3>4, <3>6, <3>8
    <3> QED
      BY <3>5, <3>6
  <2> QED
    BY <2>1, <2>2
<1>5. FramesNumbered(tracker', net')
  <2> SUFFICES ASSUME NEW f \in net'
               PROVE  f \in Frames /\ (~f.old => f.seq = SentAgo(tracker'[f.from].seq, f.behind))
    BY DEF FramesNumbered
  <2>1. CASE f = new
    <3>1. f \in Frames
      BY <1>1, <2>1 DEF Frames
    <3>2. SentAgo(u, 0) = t
      BY <1>1, SentAgoZero DEF u
    <3> QED
      BY <1>3, <2>1, <3>1, <3>2
  <2>2. ASSUME NEW g \in net, f.from = g.from, f.seq = g.seq, f.old = g.old,
               f \in [from : Participants, seq : Seqs, behind : Nat, old : BOOLEAN],
               IF g.from = p /\ ~g.old
               THEN g.behind < limits.lag /\ f.behind = g.behind + 1
               ELSE f.behind = g.behind
        PROVE  f \in Frames /\ (~f.old => f.seq = SentAgo(tracker'[f.from].seq, f.behind))
    <3>1. g \in Frames /\ (~g.old => g.seq = SentAgo(tracker[g.from].seq, g.behind))
      BY DEF PoseInv, FramesNumbered
    <3>2. f.behind \in 0 .. HalfRange - 1
      <4>1. g.behind \in 0 .. HalfRange - 1
        BY <3>1 DEF Frames
      <4> QED
        BY <1>1, <2>2, <4>1
    <3>3. f \in Frames
      BY <2>2, <3>2 DEF Frames
    <3>4. CASE g.from = p /\ ~g.old
      <4>1. g.behind \in 0 .. SeqModulus - 2
        BY <1>1, <2>2, <3>1, <3>4 DEF Frames
      <4>2. SentAgo(u, g.behind + 1) = SentAgo(t, g.behind)
        BY <1>1, <4>1, SentAgoShifts DEF u
      <4>3. tracker[g.from].seq = t
        BY <3>4 DEF t
      <4> QED
        BY <1>3, <2>2, <3>1, <3>3, <3>4, <4>2, <4>3
    <3>5. CASE g.from # p
      <4>1. tracker'[f.from] = tracker[g.from]
        BY <1>3, <2>2, <3>1, <3>5 DEF Frames
      <4> QED
        BY <2>2, <3>1, <3>3, <3>5, <4>1
    <3>6. CASE g.old
      BY <2>2, <3>3, <3>6
    <3> QED
      BY <3>4, <3>5, <3>6
  <2> QED
    BY <1>4, <2>1, <2>2
<1>6. ASSUME NEW q \in Participants PROVE PoseOf(page', shown'[q], tracker'[q].seq, net', q)
  <2>1. /\ PoseOf(page, shown[q], tracker[q].seq, net, q)
        /\ shown[q] \in 0 .. SeqModulus \cup {NoSeq}
    BY DEF PoseInv, Poses
  <2>2. CASE q # p
    <3>1. shown'[q] = shown[q] /\ tracker'[q] = tracker[q]
      BY <1>2, <1>3, <2>2 DEF PoseInv, Poses
    <3>2. ASSUME NEW f \in net', f.from = q, ~f.old, \A g \in net : g.from = q /\ ~g.old => g.behind < shown[q]
          PROVE  f.behind < shown[q]
      BY <1>4, <2>2, <3>2
    <3> QED
      BY <1>2, <2>1, <3>1, <3>2 DEF PoseOf
  <2>3. CASE q = p
    <3>1. CASE shown[p] \in {NoSeq, SeqModulus}
      <4>1. shown'[p] = shown[p]
        BY <1>2, <3>1 DEF PoseInv, Poses
      <4> QED
        BY <1>1, <1>2, <2>1, <2>3, <3>1, <4>1 DEF PoseOf
    <3>2. CASE shown[p] \notin {NoSeq, SeqModulus}
      <4>1. shown'[p] = shown[p] + 1 /\ shown[p] \in 0 .. SeqModulus - 1
        BY <1>1, <1>2, <2>1, <2>3, <3>2, SMTT(30) DEF PoseInv, Poses
      <4>2. CASE shown[p] = SeqModulus - 1
        BY <1>1, <1>2, <2>1, <2>3, <3>2, <4>1, <4>2 DEF PoseOf
      <4>3. CASE shown[p] \in 0 .. SeqModulus - 2
        <5>1. SentAgo(u, shown[p] + 1) = SentAgo(t, shown[p])
          BY <1>1, <4>3, SentAgoShifts DEF u
        <5>2. Runtime(page, p) # None
          BY <2>1, <2>3, <3>2 DEF PoseOf
        <5>3. CASE GateFor(page, p) = SentAgo(t, shown[p])
          BY <1>2, <1>3, <2>3, <4>1, <5>1, <5>2, <5>3 DEF PoseOf
        <5>4. CASE GateFor(page, p) = NoSeq /\ \A g \in net : g.from = p /\ ~g.old => g.behind < shown[p]
          <6>1. ASSUME NEW f \in net', f.from = p, ~f.old PROVE f.behind < shown[p] + 1
            <7>1. CASE f = new
              BY <4>1, <7>1
            <7>2. CASE f # new
              <8>1. PICK g \in net : /\ f.from = g.from /\ f.old = g.old
                                     /\ IF g.from = p /\ ~g.old
                                        THEN g.behind < limits.lag /\ f.behind = g.behind + 1
                                        ELSE f.behind = g.behind
                BY <1>4, <7>2
              <8>2. f.behind = g.behind + 1 /\ g.from = p /\ ~g.old
                BY <6>1, <8>1
              <8>3. g.behind < shown[p] /\ g.behind \in Int
                BY <5>4, <8>2 DEF PoseInv, FramesNumbered, Frames
              <8> QED
                BY <4>1, <8>2, <8>3
            <7> QED
              BY <7>1, <7>2
          <6>2. page' = page
            BY <1>2
          <6>3. \A f \in net' : f.from = p /\ ~f.old => f.behind < shown'[p]
            BY <4>1, <6>1
          <6>4. GateFor(page', q) = NoSeq /\ Runtime(page', q) # None
            BY <2>3, <5>2, <5>4, <6>2
          <6>5. \A f \in net' : f.from = q /\ ~f.old => f.behind < shown'[q]
            BY <2>3, <6>3
          <6> QED
            BY <6>4, <6>5 DEF PoseOf
        <5>5. shown[p] < SeqModulus /\ shown[p] # NoSeq
          BY <1>1, <3>2, <4>1
        <5>6. tracker[p].seq = t
          BY DEF t
        <5> QED
          BY <2>1, <2>3, <5>3, <5>4, <5>5, <5>6 DEF PoseOf
      <4> QED
        BY <1>1, <4>1, <4>2, <4>3
    <3> QED
      BY <3>1, <3>2
  <2> QED
    BY <2>2, <2>3
<1>7. shown' \in [Participants -> 0 .. SeqModulus \cup {NoSeq}]
  <2>1. shown \in [Participants -> 0 .. SeqModulus \cup {NoSeq}]
    BY DEF PoseInv, Poses
  <2>2. PICK s : s = IF shown[p] \in {NoSeq, SeqModulus} THEN shown[p] ELSE shown[p] + 1
    OBVIOUS
  <2>3. s \in 0 .. SeqModulus \cup {NoSeq}
    BY <1>1, <2>1, <2>2
  <2>4. shown' = [shown EXCEPT ![p] = s]
    BY <1>2, <2>2
  <2> QED
    BY <2>1, <2>3, <2>4
<1> QED
  BY <1>5, <1>6, <1>7 DEF Poses

\* A tracker page is reloaded: its frames on the way are old ones.
LEMMA ReloadPose ==
  ASSUME PoseInv, NEW p \in Participants, ReloadTracker(p)
  PROVE  FramesNumbered(tracker', net') /\ Poses(page', shown', tracker', net')
<1>1. /\ tracker \in [Participants -> [seq : Seqs, reloads : Nat]]
      /\ tracker' = [tracker EXCEPT ![p] = [seq |-> 0, reloads |-> @.reloads + 1]]
      /\ page' = page /\ shown' = [shown EXCEPT ![p] = NoSeq]
      /\ net' = {[f EXCEPT !.old = (@ \/ f.from = p)] : f \in net}
  BY DEF ReloadTracker, PoseInv, OwnedInv, FramesFit
<1>2. \A q \in Participants \ {p} : tracker'[q] = tracker[q]
  BY <1>1
<1>3. ASSUME NEW f \in net'
      PROVE  \E g \in net : /\ g \in Frames /\ f \in Frames
                            /\ f.from = g.from /\ f.seq = g.seq /\ f.behind = g.behind
                            /\ ~f.old => ~g.old /\ f.from # p
  <2>1. PICK g \in net : f = [g EXCEPT !.old = (@ \/ g.from = p)]
    BY <1>1, <1>3
  <2>2. g \in Frames
    BY DEF PoseInv, FramesNumbered
  <2>3. PICK o : o = (g.old \/ g.from = p)
    OBVIOUS
  <2>4. f = [g EXCEPT !.old = o]
    BY <2>1, <2>3
  <2>5. o \in BOOLEAN
    BY <2>3, Zenon
  <2>6. f \in Frames /\ f.from = g.from /\ f.seq = g.seq /\ f.behind = g.behind /\ f.old = o
    BY <2>2, <2>4, <2>5 DEF Frames
  <2>7. ~f.old => ~g.old /\ f.from # p
    BY <2>3, <2>6
  <2> QED
    BY <2>2, <2>6, <2>7
<1>4. FramesNumbered(tracker', net')
  <2> SUFFICES ASSUME NEW f \in net'
               PROVE  f \in Frames /\ (~f.old => f.seq = SentAgo(tracker'[f.from].seq, f.behind))
    BY DEF FramesNumbered
  <2>1. PICK g \in net : /\ g \in Frames /\ f \in Frames
                         /\ f.from = g.from /\ f.seq = g.seq /\ f.behind = g.behind
                         /\ ~f.old => ~g.old /\ f.from # p
    BY <1>3
  <2>2. ~g.old => g.seq = SentAgo(tracker[g.from].seq, g.behind)
    BY DEF PoseInv, FramesNumbered
  <2>3. f.from \in Participants
    BY <2>1 DEF Frames
  <2> QED
    BY <1>2, <2>1, <2>2, <2>3
<1>5. ASSUME NEW q \in Participants
      PROVE  PoseOf(page', shown'[q], tracker'[q].seq, net', q)
  <2>1. CASE q = p
    BY <1>1, <2>1 DEF PoseOf, PoseInv, Poses
  <2>2. CASE q # p
    <3>1. shown'[q] = shown[q] /\ tracker'[q] = tracker[q]
      BY <1>1, <1>2, <2>2 DEF PoseInv, Poses
    <3>2. PoseOf(page, shown[q], tracker[q].seq, net, q)
      BY DEF PoseInv, Poses
    <3>3. ASSUME NEW f \in net', f.from = q, ~f.old, \A g \in net : g.from = q /\ ~g.old => g.behind < shown[q]
          PROVE  f.behind < shown[q]
      BY <1>3, <3>3
    <3> QED
      BY <1>1, <3>1, <3>2, <3>3 DEF PoseOf
  <2> QED
    BY <2>1, <2>2
<1>6. shown' \in [Participants -> 0 .. SeqModulus \cup {NoSeq}]
  BY <1>1 DEF PoseInv, Poses
<1> QED
  BY <1>4, <1>5, <1>6 DEF Poses

\* A replay takes the first participant's gate and avatar.
LEMMA ReplayPose ==
  ASSUME PoseInv, NEW gate, page' = [page EXCEPT !.gate = gate],
         \/ shown' = ReplayShown
         \/ shown' = shown /\ (gate = page.gate \/ (gate = NoSeq /\ net' = {})),
         net' \subseteq net
  PROVE  /\ Poses(page', shown', tracker, net')
         /\ \A p \in Participants : shown'[p] = shown[p] \/ shown'[p] = NoSeq
<1>1. DOMAIN page = PageFields
  BY DEF PoseInv, OwnedInv, Owned, PageShape
<1>2. /\ page'.primaryId = page.primaryId /\ page'.primaryHandle = page.primaryHandle
      /\ page'.additional = page.additional /\ page'.gate = gate
  BY <1>1 DEF PageFields
<1>3. ASSUME NEW p \in Participants
      PROVE  /\ PoseOf(page', shown'[p], tracker[p].seq, net', p)
             /\ shown'[p] \in 0 .. SeqModulus \cup {NoSeq}
             /\ shown'[p] = shown[p] \/ shown'[p] = NoSeq
  <2>1. /\ PoseOf(page, shown[p], tracker[p].seq, net, p)
        /\ shown[p] \in 0 .. SeqModulus \cup {NoSeq}
    BY DEF PoseInv, Poses
  <2>2. Runtime(page', p) = Runtime(page, p)
    BY <1>2 DEF Runtime
  <2>3. CASE p # page.primaryId
    <3>1. GateFor(page', p) = GateFor(page, p) /\ shown'[p] = shown[p]
      BY <1>2, <2>3 DEF GateFor, ReplayShown
    <3> QED
      BY <2>1, <2>2, <3>1 DEF PoseOf
  <2>4. CASE p = page.primaryId /\ shown' = ReplayShown
    <3>1. shown'[p] = NoSeq
      BY <2>4 DEF ReplayShown
    <3> QED
      BY <3>1 DEF PoseOf
  <2>5. CASE p = page.primaryId /\ shown' = shown
    <3>1. GateFor(page', p) = gate /\ GateFor(page, p) = page.gate
      BY <1>2, <2>5 DEF GateFor
    <3>2. CASE gate = page.gate
      BY <2>1, <2>2, <2>5, <3>1, <3>2 DEF PoseOf
    <3>3. CASE gate = NoSeq /\ net' = {}
      BY <2>1, <2>2, <2>5, <3>1, <3>3 DEF PoseOf
    <3>4. CASE shown' = ReplayShown
      BY <2>4, <2>5, <3>4
    <3> QED
      BY <3>2, <3>3, <3>4
  <2> QED
    BY <2>3, <2>4, <2>5
<1>4. DOMAIN shown' = Participants /\ shown' = [p \in Participants |-> shown'[p]]
  BY DEF ReplayShown, PoseInv, Poses
<1> QED
  BY <1>3, <1>4 DEF Poses

\* A model that is there leaves the runtimes and gates as they are.
LEMMA LoadSteady ==
  ASSUME PoseInv, NEW i \in LoadIds, LoadEnds(i), NEW p \in Participants, Runtime(page, p) # None
  PROVE  Steady(page', page, p)
<1>1. PageShape(page) /\ DOMAIN page = PageFields /\ page.additional \in [DOMAIN page.additional -> Body]
  BY DEF PoseInv, OwnedInv, Owned, PageShape
<1>2. \/ page' = InstallInochi(page, i) \/ page' = InstallLayers(page)
      \/ page' = InstallVrm(page, i) \/ page' = AttachToRuntime(page, i)
  BY DEF LoadEnds
<1>6. ASSUME NEW x, Except(x, page, PageFields \ {"primaryId", "primaryHandle", "additional", "gate"})
      PROVE  Steady(x, page, p)
  BY <1>6, ExceptSteady DEF Except, PageFields
<1>3. Steady(InstallVrm(page, i), page, p) /\ Steady(InstallInochi(page, i), page, p)
  <2>1. PICK x : x = InstallVrm(page, i)
    OBVIOUS
  <2>2. Installs(x, page, i, i, None)
    BY <1>1, <2>1, InstallVrmDoes
  <2>3. PICK y : y = InstallInochi(page, i)
    OBVIOUS
  <2>4. Installs(y, page, i, None, i)
    BY <1>1, <2>3, InstallInochiDoes
  <2> QED
    BY <1>6, <2>1, <2>2, <2>3, <2>4 DEF Installs, Except, PageFields
<1>4. Steady(InstallLayers(page), page, p)
  <2>1. PICK x : x = InstallLayers(page)
    OBVIOUS
  <2>2. Except(x, page, {"inochi", "scene", "modelVisible", "botVisible", "layered"})
    BY <1>1, <2>1, InstallLayersDoes
  <2> QED
    BY <1>6, <2>1, <2>2 DEF Except, PageFields
<1>5. Steady(AttachToRuntime(page, i), page, p)
  <2>1. PICK scene : scene =
          (page.scene \ {m \in page.scene : loads[m].to = loads[i].to /\ loads[m].made = loads[i].made})
            \cup {i}
    OBVIOUS
  <2>2. PICK y : y = [page EXCEPT !.scene = scene]
    OBVIOUS
  <2>3. PICK z : z = IF StillServes(page, i) THEN [y EXCEPT !.additional[loads[i].to].vrm = i] ELSE y
    OBVIOUS
  <2>4. AttachToRuntime(page, i) = RefreshSelector(z)
    BY <2>1, <2>2, <2>3 DEF AttachToRuntime
  <2>5. /\ Except(y, page, {"scene"}) /\ y.additional = page.additional
        /\ y.primaryId = page.primaryId /\ y.primaryHandle = page.primaryHandle /\ y.gate = page.gate
    BY <1>1, <2>2 DEF Except, PageFields
  <2>6. /\ DOMAIN z = PageFields
        /\ z.primaryId = page.primaryId /\ z.primaryHandle = page.primaryHandle /\ z.gate = page.gate
        /\ DOMAIN z.additional = DOMAIN page.additional
        /\ \A q \in DOMAIN page.additional : /\ z.additional[q].made = page.additional[q].made
                                             /\ z.additional[q].lastSeq = page.additional[q].lastSeq
    <3>1. CASE ~StillServes(page, i)
      BY <2>3, <2>5, <3>1 DEF Except
    <3>2. CASE StillServes(page, i)
      <4>1. PICK to : to = loads[i].to
        OBVIOUS
      <4>2. to \in DOMAIN page.additional
        BY <3>2, <4>1 DEF StillServes
      <4>3. PICK e : e = page.additional[to]
        OBVIOUS
      <4>4. e \in Body
        BY <1>1, <4>2, <4>3
      <4>5. z = [y EXCEPT !.additional[to].vrm = i]
        BY <2>3, <3>2, <4>1
      <4>6. z.additional = [page.additional EXCEPT ![to] = [e EXCEPT !.vrm = i]]
        BY <2>5, <4>3, <4>5 DEF Except, PageFields
      <4>7. [e EXCEPT !.vrm = i].made = e.made /\ [e EXCEPT !.vrm = i].lastSeq = e.lastSeq
        BY <4>4 DEF Body
      <4>8. /\ DOMAIN z = PageFields
            /\ z.primaryId = page.primaryId /\ z.primaryHandle = page.primaryHandle /\ z.gate = page.gate
        BY <2>5, <4>5 DEF Except, PageFields
      <4>9. ASSUME NEW q \in DOMAIN page.additional
            PROVE  /\ z.additional[q].made = page.additional[q].made
                   /\ z.additional[q].lastSeq = page.additional[q].lastSeq
        BY <4>2, <4>3, <4>6, <4>7
      <4> QED
        BY <4>6, <4>8, <4>9
    <3> QED
      BY <3>1, <3>2
  <2>7. Steady(z, page, p)
    <3>1. CASE p = page.primaryId
      BY <2>6, <3>1 DEF Steady, Runtime, GateFor
    <3>2. CASE p # page.primaryId /\ p \in DOMAIN page.additional
      BY <2>6, <3>2 DEF Steady, Runtime, GateFor
    <3>3. p = page.primaryId \/ p \in DOMAIN page.additional
      BY DEF Runtime
    <3> QED
      BY <3>1, <3>2, <3>3
  <2>8. PICK w : w = RefreshSelector(z)
    OBVIOUS
  <2>9. Except(w, z, {"listed", "selected"})
    BY <2>6, <2>8, RefreshKeeps
  <2>10. Steady(w, z, p)
    BY <2>9, ExceptSteady DEF Except, PageFields
  <2> QED
    BY <2>4, <2>7, <2>8, <2>10 DEF Steady
<1> QED
  BY <1>2, <1>3, <1>4, <1>5

\* An action that leaves the trackers alone, and so does to what is shown no more
\* than the poses allow, moves no avatar backward.
StepFits == /\ FramesNumbered(tracker', net') /\ Poses(page', shown', tracker', net')
            /\ \A p \in Participants :
                 (/\ shown[p] # NoSeq /\ shown'[p] # NoSeq /\ tracker' = tracker
                  /\ Runtime(page', p) = Runtime(page, p))
                 => shown'[p] <= shown[p]

\* The history is unchanged or cleared.
LEMMA KeptFits ==
  ASSUME PoseInv, tracker' = tracker, net' \subseteq net,
         Poses(page', shown', tracker', net'),
         \A p \in Participants : shown'[p] = shown[p] \/ shown'[p] = NoSeq
  PROVE  StepFits
<1>1. FramesNumbered(tracker', net')
  BY DEF PoseInv, FramesNumbered
<1>2. ASSUME NEW p \in Participants, shown[p] # NoSeq, shown'[p] # NoSeq
      PROVE  shown'[p] <= shown[p]
  <2>1. shown[p] \in 0 .. SeqModulus /\ shown'[p] = shown[p]
    BY <1>2 DEF PoseInv, Poses
  <2> QED
    BY <2>1
<1> QED
  BY <1>1, <1>2 DEF StepFits

\* Runtimes and gates are as they were.
LEMMA SteadyFits ==
  ASSUME PoseInv, tracker' = tracker, net' \subseteq net, shown' = shown,
         \A p \in Participants : Runtime(page, p) # None => Steady(page', page, p)
  PROVE  StepFits
<1>1. Poses(page', shown', tracker', net')
  BY PosesSteady DEF PoseInv
<1> QED
  BY <1>1, KeptFits

\* Every step keeps the poses in order and moves none backward.
LEMMA PoseStep == PoseInv /\ [Next]_vars => StepFits
<1> SUFFICES ASSUME PoseInv, [Next]_vars PROVE StepFits
  OBVIOUS
<1>0. /\ OwnedInv /\ LoadsShape(loads) /\ Owned(page, loads, late)
      /\ PageShape(page) /\ RoomSettled(page) /\ DOMAIN page = PageFields
  BY DEF PoseInv, OwnedInv, Owned, PageShape
<1>1. ASSUME NEW p \in Participants, Publish(p) PROVE StepFits
  <2>1. tracker' # tracker
    <3>1. /\ tracker \in [Participants -> [seq : Seqs, reloads : Nat]]
          /\ tracker' = [tracker EXCEPT ![p].seq = (@ + 1) % SeqModulus]
      BY <1>0, <1>1 DEF Publish, OwnedInv, FramesFit
    <3>2. PICK t : t = tracker[p].seq
      OBVIOUS
    <3>3. t \in Seqs /\ tracker'[p].seq = (t + 1) % SeqModulus
      BY <3>1, <3>2
    <3>4. (t + 1) % SeqModulus # t
      <4>1. PICK m \in Nat : m = SeqModulus
        BY FrameOrderAssumption
      <4>2. m >= 2 /\ t \in 0 .. m - 1
        BY <3>3, <4>1, FrameOrderAssumption DEF Seqs
      <4>3. CASE t + 1 < m
        BY <4>1, <4>2, <4>3
      <4>4. CASE t = m - 1
        BY <4>1, <4>2, <4>4
      <4> QED
        BY <4>2, <4>3, <4>4
    <3> QED
      BY <3>2, <3>3, <3>4
  <2> QED
    BY <1>1, <2>1, PublishPose DEF StepFits
<1>2. ASSUME NEW p \in Participants, ReloadTracker(p) PROVE StepFits
  <2>1. tracker' # tracker
    <3>1. /\ tracker \in [Participants -> [seq : Seqs, reloads : Nat]]
          /\ tracker' = [tracker EXCEPT ![p] = [seq |-> 0, reloads |-> @.reloads + 1]]
      BY <1>0, <1>2 DEF ReloadTracker, OwnedInv, FramesFit
    <3>2. tracker'[p].reloads = tracker[p].reloads + 1 /\ tracker[p].reloads \in Nat
      BY <3>1
    <3> QED
      BY <3>2
  <2> QED
    BY <1>2, <2>1, ReloadPose DEF StepFits
<1>3. ASSUME NEW p \in Participants, SelectParticipant(p) PROVE StepFits
  <2>1. \A q : Steady(page', page, q)
    BY <1>0, <1>3, ExceptSteady DEF SelectParticipant, PageFields
  <2> QED
    BY <1>3, <2>1, SteadyFits DEF SelectParticipant, envVars
<1>4. ASSUME (\E f \in net : LoseFrame(f)) \/ ConnectEnds \/ ConnectionLost \/ UNCHANGED vars
      PROVE  StepFits
  <2>1. page' = page /\ shown' = shown /\ tracker' = tracker /\ net' \subseteq net
    BY <1>4 DEF LoseFrame, ConnectEnds, ConnectionLost, vars, pageVars, envVars
  <2> QED
    BY <2>1, SteadyFits DEF Steady
<1>5. ASSUME NEW f \in net, ReceiveFrame(f) PROVE StepFits
  <2>1. tracker' = tracker /\ net' \subseteq net
    BY <1>5 DEF ReceiveFrame
  <2>2. FramesNumbered(tracker', net')
    BY <2>1 DEF PoseInv, FramesNumbered
  <2> QED
    BY <1>5, <2>2, ReceivePose DEF StepFits
<1>6. ASSUME Tick PROVE StepFits
  <2>1. \A q : Steady(page', page, q)
    BY <1>0, <1>6, ExceptSteady DEF Tick, PageFields
  <2> QED
    BY <1>6, <2>1, SteadyFits DEF Tick, envVars
<1>7. ASSUME NEW fails \in BOOLEAN, Render(fails) PROVE StepFits
  BY <1>7, RenderPose, KeptFits DEF Render, envVars
<1>8. ASSUME Connect PROVE StepFits
  <2>1. page' = [page EXCEPT !.gate = NoSeq] /\ shown' = shown /\ net' = {} /\ tracker' = tracker
    BY <1>8 DEF Connect, ResetOrderGate
  <2> QED
    BY <2>1, ReplayPose, KeptFits
<1>9. ASSUME NEW seq \in Seqs, StartReplay(seq) PROVE StepFits
  <2>1. page' = [page EXCEPT !.gate = seq] /\ shown' = ReplayShown /\ net' = {} /\ tracker' = tracker
    BY <1>9 DEF StartReplay
  <2> QED
    BY <2>1, ReplayPose, KeptFits
<1>10. ASSUME NEW seq \in Seqs, ReplayStep(seq) PROVE StepFits
  <2>1. PICK gate : gate = Accept(page.gate, seq)
    OBVIOUS
  <2>2. page' = [page EXCEPT !.gate = gate] /\ net' = net /\ tracker' = tracker
    BY <1>10, <2>1 DEF ReplayStep, envVars
  <2>3. \/ shown' = ReplayShown
        \/ shown' = shown /\ gate = page.gate
    BY <1>10, <2>1 DEF ReplayStep, Accept
  <2> QED
    BY <2>2, <2>3, ReplayPose, KeptFits
<1>11. \A q \in Participants : Runtime(page, q) # None => Steady(PageForVrm, page, q)
  <2>1. VrmFileTo \in Participants \cup {None}
    BY <1>0 DEF VrmFileTo, PageShape
  <2>2. CASE VrmFileTo = None
    BY <2>2 DEF PageForVrm, Steady
  <2>3. CASE VrmFileTo # None
    BY <1>0, <2>1, <2>3, EnsureSteady DEF PageForVrm
  <2> QED
    BY <2>2, <2>3
<1>12. ASSUME LoadsUnchanged, page' = page \/ page' = PageForVrm PROVE StepFits
  <2>1. shown' = shown /\ tracker' = tracker /\ net' = net
    BY <1>12 DEF LoadsUnchanged, envVars
  <2>2. CASE page' = page
    BY <2>1, <2>2, SteadyFits DEF Steady
  <2>3. CASE page' = PageForVrm
    BY <1>11, <2>1, <2>3, SteadyFits
  <2> QED
    BY <1>12, <2>2, <2>3
<1>13. ASSUME NEW kind, ChooseVrm \/ ChooseModel(kind) PROVE StepFits
  BY <1>12, <1>13 DEF ChooseVrm, ChooseModel
<1>14. ASSUME ShowPngLayers PROVE StepFits
  <2>1. PICK x : x = InstallLayers(page)
    OBVIOUS
  <2>2. Except(x, page, {"inochi", "scene", "modelVisible", "botVisible", "layered"})
    BY <1>0, <2>1, InstallLayersDoes
  <2>3. \A q : Steady(x, page, q)
    BY <2>2, ExceptSteady DEF Except, PageFields
  <2> QED
    BY <1>14, <2>1, <2>3, SteadyFits DEF ShowPngLayers, LoadsUnchanged, envVars
<1>15. ASSUME NEW rev, NEW kind, NativeAvatarSelected(rev, kind) PROVE StepFits
  <2>1. \A q : Steady(page', page, q)
    BY <1>0, <1>15, ExceptSteady DEF NativeAvatarSelected, PageFields
  <2> QED
    BY <1>15, <2>1, SteadyFits DEF NativeAvatarSelected, LoadsUnchanged, envVars
<1>16. ASSUME NEW i \in LoadIds, NativeAvatarRead(i) \/ LoadFails(i) PROVE StepFits
  BY <1>12, <1>16 DEF NativeAvatarRead, LoadFails
<1>17. ASSUME NEW i \in LoadIds, LoadEnds(i) PROVE StepFits
  BY <1>17, LoadSteady, SteadyFits DEF LoadEnds, envVars
<1> QED
  BY <1>1, <1>2, <1>3, <1>4, <1>5, <1>6, <1>7, <1>8, <1>9, <1>10, <1>13, <1>14, <1>15, <1>16,
     <1>17 DEF Next

\* The strengthened invariant is inductive.
LEMMA PoseNext == PoseInv /\ [Next]_vars => PoseInv'
<1> SUFFICES ASSUME PoseInv, [Next]_vars PROVE PoseInv'
  OBVIOUS
<1>1. OwnedInv'
  BY OwnedNext DEF PoseInv
<1>2. limits' = limits
  BY DEF Next, vars, Publish, ReloadTracker, SelectParticipant, LoseFrame, ReceiveFrame, Tick,
         Render, Connect, ConnectEnds, ConnectionLost, StartReplay, ReplayStep, ChooseVrm,
         ChooseModel, ShowPngLayers, NativeAvatarSelected, NativeAvatarRead, LoadEnds, LoadFails,
         LoadsUnchanged
<1>3. FramesNumbered(tracker', net') /\ Poses(page', shown', tracker', net')
  BY PoseStep DEF StepFits
<1> QED
  BY <1>1, <1>2, <1>3 DEF PoseInv

\* It holds in every state.
LEMMA PoseIsInvariant == Spec => []PoseInv
<1>1. Init => PoseInv
  BY OwnedInit, PoseInit DEF PoseInv
<1> QED
  BY <1>1, PoseNext, PTL DEF Spec

\* While a participant keeps its runtime and its tracker page its session, its avatar
\* is never set to an earlier frame than it shows: the gate's modular comparison
\* holds against frames that are late, duplicated or overtaken, wherever the 16-bit
\* number wraps (isSeqNewer, FrameOrderGate and the 'participant-frame' handler,
\* viewer.js).
THEOREM ViewerPoseNeverGoesBack == Spec => PoseNeverGoesBack
<1>1. PoseInv /\ [Next]_vars =>
        [\A p \in Participants :
       (/\ shown[p] # NoSeq /\ shown'[p] # NoSeq /\ tracker' = tracker
        /\ Runtime(page', p) = Runtime(page, p))
       => shown'[p] <= shown[p]]_vars
  BY PoseStep DEF StepFits
<1> QED
  BY <1>1, PoseIsInvariant, PTL DEF PoseNeverGoesBack, Spec

-----------------------------------------------------------------------------
(***************************************************************************)
(* The settings and links of the pages, for any rooms, tokens and acts.    *)
(*                                                                         *)
(* A token reaches localStorage only in a page that was given it by hand   *)
(* (TokenInv).  A link shows what it was made to show because what it says *)
(* (Says), read by a page with whatever that page had stored, is what it   *)
(* means, until the user changes a control.                                *)
(***************************************************************************)

RoomFields == RoomNames \cup {"situation"}
Fields(p) ==
  RoomFields \cup IF p = "tracker" THEN {"mirror"}
                  ELSE {"scene", "colour", "transparent", "bloom", "drum"}

\* What Over does to one setting.
LEMMA OverAt ==
  ASSUME NEW s, NEW q, NEW names
  PROVE  LET x == Over(s, q, names) IN
         /\ DOMAIN x = DOMAIN s
         /\ \A n \in DOMAIN s : x[n] = IF n \in DOMAIN q /\ n \in names THEN q[n] ELSE s[n]
BY DEF Over, Only, Restrict, Onto

\* A situation or a scene preset lays its look over the settings ...
LEMMA LookAt ==
  ASSUME NEW s, NEW id
  PROVE  /\ LET x == ApplySituationToSettings(s, id) IN
            /\ DOMAIN x = DOMAIN s
            /\ \A n \in DOMAIN s \ LookNames : x[n] = s[n]
         /\ LET x == ApplyScenePresetDefaults(s, id) IN
            /\ DOMAIN x = DOMAIN s
            /\ \A n \in DOMAIN s \ LookNames : x[n] = s[n]
BY OverAt DEF ApplySituationToSettings, ApplyScenePresetDefaults

\* ... so a situation laid over settings that have the field is theirs.
LEMMA SituationAt ==
  ASSUME NEW s, NEW id \in DOMAIN SituationLook, "situation" \in DOMAIN s
  PROVE  ApplySituationToSettings(s, id)["situation"] = id
<1> DEFINE q == Onto(SituationLook[id], [situation |-> id])
<1>1. "situation" \in DOMAIN q /\ q["situation"] = id
  BY DEF SituationLook, Onto
<1>2. "situation" \in LookNames
  BY DEF LookNames
<1> QED
  BY <1>1, <1>2, OverAt DEF ApplySituationToSettings

\* ... and so is a scene.
LEMMA SceneAt ==
  ASSUME NEW s, NEW name \in DOMAIN ScenePresets, "scene" \in DOMAIN s
  PROVE  /\ ApplyScenePresetDefaults(s, name)["scene"] = name
         /\ \A n \in DOMAIN s \ {"scene", "colour", "bloom"} :
              ApplyScenePresetDefaults(s, name)[n] = s[n]
<1> DEFINE q == Onto(ScenePresets[name], [scene |-> name])
<1>1. DOMAIN q = {"scene", "colour", "bloom"} /\ q["scene"] = name
  BY DEF ScenePresets, Onto
<1>2. "scene" \in LookNames
  BY DEF LookNames
<1> QED
  BY <1>1, <1>2, OverAt DEF ApplyScenePresetDefaults

---------------------------------------------------------------------------
(* A token that came by link.                                              *)

\* A page's token, in its settings and as it is stored, is one its user typed, none,
\* or the one it came by, which is not stored.
TokenInv ==
  /\ DOMAIN settings = Pages /\ DOMAIN stored = Pages /\ DOMAIN typed = Pages
  /\ DOMAIN address = Pages /\ DOMAIN transient = Pages
  /\ \A p \in Pages :
       /\ "token" \in DOMAIN settings[p] /\ "token" \in DOMAIN stored[p]
       /\ stored[p].token \in typed[p] \cup {NoText}
       /\ settings[p].token \in typed[p] \cup {NoText, transient[p]}
       /\ "token" \notin DOMAIN address[p]

\* The pages as they are opened first: no token is stored, none was typed.
LEMMA TokenInit == SettingsInit => TokenInv
<1> SUFFICES ASSUME SettingsInit PROVE TokenInv
  OBVIOUS
<1>1. /\ DOMAIN DefaultSettings = Pages
      /\ \A p \in Pages : "token" \in DOMAIN DefaultSettings[p] /\ DefaultSettings[p].token = NoText
  BY DEF DefaultSettings, Pages, Onto
<1> QED
  BY <1>1 DEF SettingsInit, TokenInv

\* Loading a page takes a token from the query alone, or from what is stored.
LEMMA LoadedToken ==
  ASSUME NEW p \in Pages, NEW q, "token" \in DOMAIN stored[p]
  PROVE  /\ "token" \in DOMAIN Loaded(p, q)
         /\ Loaded(p, q).token = IF "token" \in DOMAIN q THEN q.token ELSE stored[p].token
<1> DEFINE s == stored[p]
<1>1. CASE p = "tracker"
  <2> DEFINE r == TrackerSettingsFromPairingQuery(q)
  <2>1. ("token" \in DOMAIN r <=> "token" \in DOMAIN q) /\ ("token" \in DOMAIN q => r.token = q.token)
    BY DEF TrackerSettingsFromPairingQuery, Drop, Restrict
  <2>2. Loaded(p, q) = Over(s, r, RoomNames \cup {"mirror"})
    BY <1>1 DEF Loaded, LoadTracker
  <2> QED
    BY <2>1, <2>2, OverAt DEF RoomNames
<1>2. CASE p # "tracker"
  <2> DEFINE placed == IF "situation" \in DOMAIN q THEN ApplySituationToSettings(s, q.situation) ELSE s
             cut    == IF "preset" \in DOMAIN q THEN [placed EXCEPT !.transparent = TRUE] ELSE placed
             lit    == IF "scene" \in DOMAIN q THEN ApplyScenePresetDefaults(cut, q.scene) ELSE cut
             roomed == QueryRoom(lit, q)
             ground == QueryBackground(roomed, q)
  <2>1. "token" \in DOMAIN placed /\ placed.token = s.token
    BY LookAt DEF LookNames
  <2>2. "token" \in DOMAIN cut /\ cut.token = s.token
    BY <2>1
  <2>3. "token" \in DOMAIN lit /\ lit.token = s.token
    <3> HIDE DEF cut
    <3> QED
      BY <2>2, LookAt DEF LookNames
  <2>4. /\ "token" \in DOMAIN roomed
        /\ roomed.token = IF "token" \in DOMAIN q THEN q.token ELSE s.token
    <3> HIDE DEF lit
    <3> QED
      BY <2>3, OverAt DEF QueryRoom, RoomNames
  <2>5. "token" \in DOMAIN ground /\ ground.token = roomed.token
    <3> HIDE DEF roomed
    <3> QED
      BY <2>4 DEF QueryBackground
  <2>6. Loaded(p, q) = Over(ground, q, {"bloom"})
    BY <1>2 DEF Loaded, ApplyQuerySettings
  <2> HIDE DEF ground, roomed
  <2> QED
    BY <2>4, <2>5, <2>6, OverAt
<1> QED
  BY <1>1, <1>2

\* loadPage stores no token: it reads localStorage and the query, and writes neither.
LEMMA LoadPageToken ==
  ASSUME TokenInv, NEW p \in Pages, NEW q, LoadPage(p, q)
  PROVE  TokenInv'
<1>1. /\ settings' = [settings EXCEPT ![p] = Loaded(p, q)]
      /\ transient' = [transient EXCEPT ![p] = IF "token" \in DOMAIN q THEN q.token ELSE NoText]
      /\ address' = [address EXCEPT ![p] = Drop(q, {"token"})]
      /\ stored' = stored /\ typed' = typed
  BY DEF LoadPage
<1>2. /\ "token" \in DOMAIN Loaded(p, q)
      /\ Loaded(p, q).token = IF "token" \in DOMAIN q THEN q.token ELSE stored[p].token
  BY LoadedToken DEF TokenInv
<1>3. "token" \notin DOMAIN Drop(q, {"token"})
  BY DEF Drop, Restrict
<1> QED
  BY <1>1, <1>2, <1>3 DEF TokenInv

\* An edit that leaves the token alone, or types one.
LEMMA PersistToken ==
  ASSUME TokenInv, NEW p \in Pages, NEW s, NEW lasting, Persist(p, s, lasting),
         "token" \in DOMAIN s, address' = address, DOMAIN typed' = Pages,
         \A q \in Pages : typed[q] \subseteq typed'[q],
         \/ s.token = settings[p].token /\ lasting = transient[p]
         \/ s.token \in typed'[p] \cup {NoText}
  PROVE  TokenInv'
<1>1. /\ settings' = [settings EXCEPT ![p] = s]
      /\ transient' = [transient EXCEPT ![p] = lasting]
      /\ stored' = [stored EXCEPT ![p] = ToStore(p, s, lasting)]
  BY DEF Persist
<1>2. s.token \in typed'[p] \cup {NoText, lasting}
  BY DEF TokenInv
<1>3. "token" \in DOMAIN ToStore(p, s, lasting) /\ ToStore(p, s, lasting).token \in typed'[p] \cup {NoText}
  BY <1>2 DEF ToStore
<1> QED
  BY <1>1, <1>2, <1>3 DEF TokenInv

\* Every edit but TypeToken leaves the token alone.
LEMMA EditToken ==
  ASSUME TokenInv, NEW p \in Pages, NEW s, Edit(p, s), "token" \in DOMAIN s,
         s.token = settings[p].token
  PROVE  TokenInv'
<1>1. Persist(p, s, transient[p]) /\ address' = address /\ typed' = typed
  BY DEF Edit
<1> QED
  BY <1>1, PersistToken DEF TokenInv

\* No act of the user stores a token.
LEMMA TokenNext == TokenInv /\ [SettingsNext]_settingVars => TokenInv'
<1> SUFFICES ASSUME TokenInv, [SettingsNext]_settingVars PROVE TokenInv'
  OBVIOUS
<1>1. CASE OpenLink
  BY <1>1, LoadPageToken DEF OpenLink
<1>2. ASSUME NEW p \in Pages, ReloadPage(p) PROVE TokenInv'
  BY <1>2, LoadPageToken DEF ReloadPage
<1>3. ASSUME NEW p \in Pages, TypeToken(p) PROVE TokenInv'
  <2>1. PICK t : /\ Persist(p, [settings[p] EXCEPT !.token = t], NoText)
                 /\ typed' = [typed EXCEPT ![p] = @ \cup {t}] /\ address' = address
    BY <1>3 DEF TypeToken
  <2>2. "token" \in DOMAIN [settings[p] EXCEPT !.token = t] /\ [settings[p] EXCEPT !.token = t].token = t
    BY DEF TokenInv
  <2>3. DOMAIN typed' = Pages /\ t \in typed'[p] /\ \A q \in Pages : typed[q] \subseteq typed'[q]
    BY <2>1 DEF TokenInv
  <2> QED
    BY <2>1, <2>2, <2>3, PersistToken
<1>4. ASSUME NEW p \in Pages, EditRoom(p) PROVE TokenInv'
  <2>1. PICK s : Edit(p, s) /\ "token" \in DOMAIN s /\ s.token = settings[p].token
    <3>1. CASE \E m \in {"local", "ws", "wt"} : Edit(p, [settings[p] EXCEPT !.mode = m])
      BY <3>1 DEF TokenInv
    <3>2. CASE \E r \in Rooms :
                 Edit(p, [settings[p] EXCEPT !.room = IF r = NoText THEN DefaultRoom ELSE r])
      <4>1. PICK r : Edit(p, [settings[p] EXCEPT !.room = r])
        BY <3>2
      <4> QED
        BY <4>1 DEF TokenInv
    <3>3. CASE \E u \in {NoText, "relay"} : Edit(p, [settings[p] EXCEPT !.ws = u])
      BY <3>3 DEF TokenInv
    <3>4. CASE \E u \in {NoText, "relay"} : Edit(p, [settings[p] EXCEPT !.wt = u])
      BY <3>4 DEF TokenInv
    <3> QED
      BY <1>4, <3>1, <3>2, <3>3, <3>4 DEF EditRoom
  <2> QED
    BY <2>1, EditToken
<1>5. ASSUME NEW p \in Pages, ChooseSituation(p) PROVE TokenInv'
  <2>1. PICK id : Edit(p, ApplySituationToSettings(settings[p], id))
    BY <1>5 DEF ChooseSituation
  <2>2. /\ "token" \in DOMAIN ApplySituationToSettings(settings[p], id)
        /\ ApplySituationToSettings(settings[p], id).token = settings[p].token
    BY LookAt DEF TokenInv, LookNames
  <2> QED
    BY <2>1, <2>2, EditToken
<1>6. CASE EditScene
  <2> DEFINE s == settings["viewer"]
  <2>0. "viewer" \in Pages
    BY DEF Pages
  <2>1. "token" \in DOMAIN s
    BY <2>0 DEF TokenInv
  <2>2. PICK x : Edit("viewer", x) /\ "token" \in DOMAIN x /\ x.token = s.token
    <3>1. ASSUME NEW name, Edit("viewer", ApplyScenePresetDefaults(s, name))
          PROVE  \E x : Edit("viewer", x) /\ "token" \in DOMAIN x /\ x.token = s.token
      <4>1. /\ "token" \in DOMAIN ApplyScenePresetDefaults(s, name)
            /\ ApplyScenePresetDefaults(s, name).token = s.token
        BY <2>1, LookAt DEF LookNames
      <4> QED
        BY <3>1, <4>1
    <3>2. CASE Edit("viewer", [s EXCEPT !.colour = "own", !.transparent = FALSE])
      <4> DEFINE x == [s EXCEPT !.colour = "own", !.transparent = FALSE]
      <4>1. "token" \in DOMAIN x /\ x.token = s.token
        BY <2>1
      <4>2. Edit("viewer", x)
        BY <3>2
      <4> HIDE DEF x
      <4> QED
        BY <4>1, <4>2
    <3>3. ASSUME NEW n \in {"transparent", "bloom", "drum"}, Edit("viewer", [s EXCEPT ![n] = ~@])
          PROVE  \E x : Edit("viewer", x) /\ "token" \in DOMAIN x /\ x.token = s.token
      BY <2>1, <3>3
    <3> QED
      BY <1>6, <3>1, <3>2, <3>3 DEF EditScene
  <2> QED
    BY <2>0, <2>2, EditToken
<1>7. CASE PanelLink \/ CopySceneUrl
  <2>1. UNCHANGED <<stored, settings, transient, address, typed>>
    BY <1>7, ZenonT(40) DEF PanelLink, CopySceneUrl, Same, Copy
  <2> QED
    BY <2>1 DEF TokenInv
<1>8. CASE TrackerLink
  <2>1. /\ Persist("tracker", settings["tracker"], transient["tracker"])
        /\ address' = address /\ typed' = typed
    BY <1>8 DEF TrackerLink, Copy
  <2>2. "tracker" \in Pages
    BY DEF Pages
  <2> QED
    BY <2>1, <2>2, PersistToken DEF TokenInv
<1>9. CASE UNCHANGED settingVars
  BY <1>9 DEF settingVars, TokenInv
<1> QED
  BY <1>1, <1>2, <1>3, <1>4, <1>5, <1>6, <1>7, <1>8, <1>9 DEF SettingsNext

\* A pairing token is never written to localStorage unless its user typed it into that page,
\* whatever links are followed and settings saved (persistSettings, saveJson).
THEOREM PairingTokenNeverStored == SettingsSpec => []PairingTokenIsNotStored
<1>1. TokenInv => PairingTokenIsNotStored
  BY DEF TokenInv, PairingTokenIsNotStored
<1> QED
  BY <1>1, TokenInit, TokenNext, PTL DEF SettingsSpec

---------------------------------------------------------------------------
(* What a link means.                                                      *)

\* The situation and the scene that settings or a query name are among those there are.
Offered(s) ==
  /\ "situation" \in DOMAIN s => s.situation \in DOMAIN SituationLook
  /\ "scene" \in DOMAIN s => s.scene \in DOMAIN ScenePresets

\* The parameters that set one setting of a page.
Carriers(p) ==
  RoomNames \cup IF p = "tracker" THEN {"mirror"}
                 ELSE {"situation", "scene", "colour", "bloom", "drum"}

\* The query names all that the link is meant to show, and no colour that would
\* make a transparent scene solid.
Says(p, q, m) ==
  /\ \A n \in DOMAIN m \ {"transparent"} : n \in Carriers(p) /\ n \in DOMAIN q /\ q[n] = m[n]
  /\ "transparent" \in DOMAIN m =>
       /\ p = "viewer" /\ m.transparent = TRUE
       /\ "colour" \notin DOMAIN q /\ "bg" \in DOMAIN q /\ q.bg = "transparent"
  /\ p = "tracker" /\ "room" \in DOMAIN q => q.room \in GoodRooms

PagesFit ==
  /\ DOMAIN settings = Pages /\ DOMAIN stored = Pages /\ DOMAIN address = Pages
  /\ DOMAIN meant = Pages /\ DOMAIN transient = Pages
  /\ \A p \in Pages : /\ DOMAIN settings[p] = Fields(p) /\ Offered(settings[p])
                      /\ DOMAIN stored[p] = Fields(p) /\ Offered(stored[p])
                      /\ Offered(address[p])

LinkInv ==
  /\ PagesFit
  /\ clipboard.to \in Pages =>
       Offered(clipboard.query) /\ Says(clipboard.to, clipboard.query, clipboard.meant)
  /\ LinkKeepsItsMeaning

\* A situation or a scene preset that there is names a scene that there is.
LEMMA SituationOffered ==
  ASSUME NEW s, Offered(s), NEW id \in DOMAIN SituationLook
  PROVE  Offered(ApplySituationToSettings(s, id))
<1> DEFINE q == Onto(SituationLook[id], [situation |-> id])
<1>1. /\ DOMAIN q = LookNames \ {"colour"}
      /\ q["situation"] = id /\ q["scene"] \in DOMAIN ScenePresets
  BY DEF SituationLook, ScenePresets, Onto, LookNames
<1>2. PICK x : x = ApplySituationToSettings(s, id)
  OBVIOUS
<1>3. /\ DOMAIN x = DOMAIN s
      /\ \A n \in DOMAIN s : x[n] = IF n \in DOMAIN q /\ n \in LookNames THEN q[n] ELSE s[n]
  BY <1>2, OverAt DEF ApplySituationToSettings
<1>4. "situation" \in LookNames \ {"colour"} /\ "scene" \in LookNames \ {"colour"}
  BY DEF LookNames
<1>5. Offered(x)
  <2> HIDE DEF q
  <2> QED
    BY <1>1, <1>3, <1>4 DEF Offered
<1> QED
  BY <1>2, <1>5

\* ... and so is a scene preset's look.
LEMMA SceneOffered ==
  ASSUME NEW s, Offered(s), NEW name \in DOMAIN ScenePresets
  PROVE  Offered(ApplyScenePresetDefaults(s, name))
<1>1. PICK x : x = ApplyScenePresetDefaults(s, name)
  OBVIOUS
<1>2. /\ DOMAIN x = DOMAIN s /\ ("scene" \in DOMAIN s => x["scene"] = name)
  BY <1>1, LookAt, SceneAt
<1>3. "situation" \in DOMAIN s => x["situation"] = s["situation"]
  <2>1. DOMAIN Onto(ScenePresets[name], [scene |-> name]) = {"scene", "colour", "bloom"}
    BY DEF ScenePresets, Onto
  <2> QED
    BY <1>1, <2>1, OverAt DEF ApplyScenePresetDefaults
<1>4. Offered(x)
  BY <1>2, <1>3 DEF Offered
<1> QED
  BY <1>1, <1>4

\* What loading a viewer page makes of each setting, and of every page's shape.
LEMMA ViewerLoaded ==
  ASSUME NEW p, p # "tracker", NEW q, Offered(q),
         DOMAIN stored[p] = Fields("viewer"), Offered(stored[p])
  PROVE  LET x == Loaded(p, q) IN
         /\ DOMAIN x = Fields("viewer") /\ Offered(x)
         /\ \A n \in RoomNames \cup {"drum", "bloom", "colour", "scene", "situation"} :
              n \in DOMAIN q => x[n] = q[n]
         /\ "bg" \in DOMAIN q /\ "colour" \notin DOMAIN q =>
              x["transparent"] = (q["bg"] = "transparent")
<1> DEFINE s == stored[p]
           placed == IF "situation" \in DOMAIN q THEN ApplySituationToSettings(s, q.situation) ELSE s
           cut    == IF "preset" \in DOMAIN q THEN [placed EXCEPT !.transparent = TRUE] ELSE placed
           lit    == IF "scene" \in DOMAIN q THEN ApplyScenePresetDefaults(cut, q.scene) ELSE cut
           roomed == QueryRoom(lit, q)
           ground == QueryBackground(roomed, q)
           x      == Over(ground, q, {"bloom"})
           V      == Fields("viewer")
<1>0. Loaded(p, q) = x
  BY DEF Loaded, ApplyQuerySettings
<1>1. /\ {"scene", "situation", "transparent", "colour", "bloom", "drum"} \subseteq V
      /\ RoomNames \subseteq V
      /\ \A n \in RoomNames : n \notin {"drum", "bloom", "colour", "scene", "situation", "transparent"}
      /\ "bloom" \in V /\ "colour" \in V /\ "transparent" \in V
  BY DEF Fields, RoomFields, RoomNames
<1> HIDE DEF V
<1>2. DOMAIN s = V
  BY DEF V
<1> HIDE DEF s
<1>3. /\ DOMAIN placed = V /\ Offered(placed)
      /\ "situation" \in DOMAIN q => placed["situation"] = q["situation"]
  <2>1. CASE "situation" \in DOMAIN q
    <3>1. q.situation \in DOMAIN SituationLook
      BY <2>1 DEF Offered
    <3>2. placed = ApplySituationToSettings(s, q.situation)
      BY <2>1
    <3>3. Offered(s)
      BY DEF s
    <3> QED
      BY <1>1, <1>2, <3>1, <3>2, <3>3, LookAt, SituationAt, SituationOffered
  <2>2. CASE "situation" \notin DOMAIN q
    BY <1>2, <2>2 DEF s
  <2> QED
    BY <2>1, <2>2
<1> HIDE DEF placed
<1>4. /\ DOMAIN cut = V /\ cut["situation"] = placed["situation"] /\ cut["scene"] = placed["scene"]
  BY <1>1, <1>3
<1>5. Offered(cut)
  BY <1>1, <1>3, <1>4 DEF Offered
<1> HIDE DEF cut
<1>6. /\ DOMAIN lit = V /\ Offered(lit) /\ lit["situation"] = cut["situation"]
      /\ "scene" \in DOMAIN q => lit["scene"] = q["scene"]
  <2>1. CASE "scene" \in DOMAIN q
    <3>1. q.scene \in DOMAIN ScenePresets
      BY <2>1 DEF Offered
    <3>2. lit = ApplyScenePresetDefaults(cut, q.scene)
      BY <2>1
    <3> QED
      BY <1>1, <1>4, <1>5, <3>1, <3>2, LookAt, SceneAt, SceneOffered
  <2>2. CASE "scene" \notin DOMAIN q
    BY <1>4, <1>5, <2>2
  <2> QED
    BY <2>1, <2>2
<1> HIDE DEF lit
<1>7. /\ DOMAIN roomed = V
      /\ \A n \in V : roomed[n] = IF n \in DOMAIN q /\ n \in RoomNames \cup {"drum"}
                                  THEN q[n] ELSE lit[n]
  BY <1>6, OverAt DEF QueryRoom
<1> HIDE DEF roomed
<1>8. /\ DOMAIN ground = V
      /\ \A n \in V \ {"transparent", "colour"} : ground[n] = roomed[n]
      /\ "colour" \in DOMAIN q => ground["colour"] = q["colour"]
      /\ "bg" \in DOMAIN q /\ "colour" \notin DOMAIN q =>
           ground["transparent"] = (q["bg"] = "transparent")
  <2>1. /\ DOMAIN ground = V /\ \A n \in V \ {"transparent", "colour"} : ground[n] = roomed[n]
    BY <1>1, <1>7 DEF QueryBackground
  <2>2. "colour" \in DOMAIN q => ground["colour"] = q["colour"]
    BY <1>1, <1>7 DEF QueryBackground
  <2>3. ASSUME "bg" \in DOMAIN q, "colour" \notin DOMAIN q
        PROVE  ground["transparent"] = (q["bg"] = "transparent")
    <3> DEFINE clear == /\ "colour" \notin DOMAIN q
                        /\ IF "bg" \in DOMAIN q THEN q.bg = "transparent" ELSE roomed.transparent
               shade == IF "colour" \in DOMAIN q THEN q.colour ELSE roomed.colour
    <3>1. ground = [roomed EXCEPT !.transparent = clear, !.colour = shade]
      BY DEF QueryBackground
    <3>2. clear = (q["bg"] = "transparent")
      BY <2>3
    <3> HIDE DEF clear, shade, ground
    <3>3. ground["transparent"] = clear
      BY <1>1, <1>7, <3>1
    <3> QED
      BY <3>2, <3>3, Zenon
  <2> QED
    BY <2>1, <2>2, <2>3
<1> HIDE DEF ground
<1>9. /\ DOMAIN x = V
      /\ \A n \in V : x[n] = IF n \in DOMAIN q /\ n = "bloom" THEN q[n] ELSE ground[n]
  BY <1>8, OverAt
<1> HIDE DEF x
<1>10. ASSUME NEW n \in RoomNames \cup {"drum", "bloom", "colour", "scene", "situation"},
              n \in DOMAIN q
       PROVE  x[n] = q[n]
  <2>1. CASE n \in RoomNames \cup {"drum"}
    BY <1>1, <1>7, <1>8, <1>9, <1>10, <2>1
  <2>2. CASE n = "bloom"
    BY <1>1, <1>9, <1>10, <2>2
  <2>3. CASE n = "colour"
    BY <1>1, <1>8, <1>9, <1>10, <2>3
  <2>4. CASE n = "scene"
    BY <1>1, <1>6, <1>7, <1>8, <1>9, <1>10, <2>4
  <2>5. CASE n = "situation"
    BY <1>1, <1>3, <1>4, <1>6, <1>7, <1>8, <1>9, <1>10, <2>5
  <2> QED
    BY <1>10, <2>1, <2>2, <2>3, <2>4, <2>5
<1>11. Offered(x)
  <2>1. x["situation"] = lit["situation"] /\ x["scene"] = lit["scene"]
    BY <1>1, <1>7, <1>8, <1>9
  <2> QED
    BY <1>1, <1>6, <1>9, <2>1 DEF Offered
<1>12. "bg" \in DOMAIN q /\ "colour" \notin DOMAIN q => x["transparent"] = (q["bg"] = "transparent")
  <2>1. x["transparent"] = ground["transparent"]
    BY <1>1, <1>9
  <2> QED
    BY <1>8, <2>1, Zenon
<1> QED
  BY <1>0, <1>9, <1>10, <1>11, <1>12, Zenon DEF V

\* A tracker page takes the room's settings and the device's from its query, and no
\* room that the pairing pattern forbids.
LEMMA TrackerLoaded ==
  ASSUME NEW q, DOMAIN stored["tracker"] = Fields("tracker"), Offered(stored["tracker"])
  PROVE  LET x == Loaded("tracker", q) IN
         /\ DOMAIN x = Fields("tracker") /\ Offered(x)
         /\ "room" \in DOMAIN q /\ q.room \in GoodRooms =>
              \A n \in Carriers("tracker") : n \in DOMAIN q => x[n] = q[n]
         /\ "room" \notin DOMAIN q =>
              \A n \in Carriers("tracker") : n \in DOMAIN q => x[n] = q[n]
<1> DEFINE s == stored["tracker"]
           r == TrackerSettingsFromPairingQuery(q)
           x == Over(s, r, RoomNames \cup {"mirror"})
<1>1. Loaded("tracker", q) = x
  BY DEF Loaded, LoadTracker
<1>2. /\ DOMAIN x = DOMAIN s
      /\ \A n \in DOMAIN s : x[n] = IF n \in DOMAIN r /\ n \in RoomNames \cup {"mirror"}
                                    THEN r[n] ELSE s[n]
  BY OverAt
<1>3. /\ Carriers("tracker") \subseteq DOMAIN s /\ Carriers("tracker") = RoomNames \cup {"mirror"}
      /\ "situation" \in DOMAIN s /\ "situation" \notin RoomNames \cup {"mirror"}
      /\ "scene" \notin DOMAIN s
  BY DEF Carriers, Fields, RoomFields, RoomNames
<1>4. "room" \notin DOMAIN q \/ q.room \in GoodRooms => r = q
  BY DEF TrackerSettingsFromPairingQuery
<1> HIDE DEF s, r
<1>5. Offered(x)
  BY <1>2, <1>3 DEF Offered, s
<1> HIDE DEF x
<1> QED
  BY <1>1, <1>2, <1>3, <1>4, <1>5 DEF s

\* A page opened by a query that says it all shows all that it says.
LEMMA LoadedSays ==
  ASSUME NEW p \in Pages, DOMAIN stored[p] = Fields(p), Offered(stored[p]),
         NEW q, Offered(q), NEW m, Says(p, q, m)
  PROVE  \A n \in DOMAIN m : Loaded(p, q)[n] = m[n]
<1>1. CASE p = "tracker"
  <2>1. "transparent" \notin DOMAIN m /\ ("room" \in DOMAIN q => q.room \in GoodRooms)
    BY <1>1 DEF Says
  <2> QED
    BY <1>1, <2>1, TrackerLoaded DEF Says
<1>2. CASE p = "viewer"
  <2>0. p # "tracker"
    BY <1>2
  <2>1. PICK x : x = Loaded(p, q)
    OBVIOUS
  <2>2. /\ \A n \in RoomNames \cup {"drum", "bloom", "colour", "scene", "situation"} :
             n \in DOMAIN q => x[n] = q[n]
        /\ "bg" \in DOMAIN q /\ "colour" \notin DOMAIN q =>
             x["transparent"] = (q["bg"] = "transparent")
    BY <1>2, <2>0, <2>1, ViewerLoaded
  <2>3. ASSUME NEW n \in DOMAIN m, n # "transparent" PROVE x[n] = m[n]
    <3>1. n \in Carriers(p) /\ n \in DOMAIN q /\ q[n] = m[n]
      BY <2>3 DEF Says
    <3> QED
      BY <1>2, <2>2, <3>1 DEF Carriers
  <2>4. ASSUME "transparent" \in DOMAIN m PROVE x["transparent"] = m["transparent"]
    <3>1. /\ m["transparent"] = TRUE /\ "colour" \notin DOMAIN q /\ "bg" \in DOMAIN q
          /\ q["bg"] = "transparent"
      BY <2>4 DEF Says
    <3>2. x["transparent"] = (q["bg"] = "transparent")
      BY <2>2, <3>1, Zenon
    <3> QED
      BY <3>1, <3>2, Zenon
  <2> QED
    BY <2>1, <2>3, <2>4
<1> QED
  BY <1>1, <1>2 DEF Pages

\* ... so a page just loaded fits what its link was made to show.
LEMMA LoadedFits ==
  ASSUME NEW p \in Pages, DOMAIN stored[p] = Fields(p), Offered(stored[p]), NEW q, Offered(q)
  PROVE  DOMAIN Loaded(p, q) = Fields(p) /\ Offered(Loaded(p, q))
<1>1. CASE p = "tracker"
  BY <1>1, TrackerLoaded
<1>2. CASE p = "viewer"
  <2>1. p # "tracker"
    BY <1>2
  <2> QED
    BY <1>2, <2>1, ViewerLoaded
<1> QED
  BY <1>1, <1>2 DEF Pages

\* The pages as they are opened first show what no link meant otherwise.
LEMMA LinkInit == SettingsInit => LinkInv
<1> SUFFICES ASSUME SettingsInit PROVE LinkInv
  OBVIOUS
<1>1. DOMAIN DefaultSettings = Pages
  BY DEF DefaultSettings, Pages
<1>2. ASSUME NEW p \in Pages PROVE DOMAIN DefaultSettings[p] = Fields(p) /\ Offered(DefaultSettings[p])
  <2>1. CASE p = "tracker"
    BY <2>1 DEF DefaultSettings, Onto, Fields, RoomFields, RoomNames, Offered, SituationLook
  <2>2. CASE p = "viewer"
    BY <2>2 DEF DefaultSettings, Onto, Fields, RoomFields, RoomNames, Offered, SituationLook, ScenePresets
  <2> QED
    BY <2>1, <2>2 DEF Pages
<1>3. clipboard.to \notin Pages
  BY DEF SettingsInit, NoLink, Pages
<1>4. /\ \A p \in Pages : DOMAIN address[p] = {} /\ DOMAIN meant[p] = {}
      /\ DOMAIN address = Pages /\ DOMAIN meant = Pages /\ DOMAIN transient = Pages
  BY DEF SettingsInit
<1>5. PagesFit
  BY <1>1, <1>2, <1>4 DEF SettingsInit, PagesFit, Offered
<1> QED
  BY <1>3, <1>4, <1>5 DEF LinkInv, LinkKeepsItsMeaning

\* A reload, or a link followed, leaves pages that fit.
LEMMA LoadPageFits ==
  ASSUME PagesFit, NEW p \in Pages, NEW q, Offered(q), LoadPage(p, q), DOMAIN meant' = Pages
  PROVE  PagesFit'
<1>1. /\ settings' = [settings EXCEPT ![p] = Loaded(p, q)]
      /\ DOMAIN transient' = DOMAIN transient
      /\ address' = [address EXCEPT ![p] = Drop(q, {"token"})]
      /\ stored' = stored
  BY DEF LoadPage
<1>2. DOMAIN Loaded(p, q) = Fields(p) /\ Offered(Loaded(p, q))
  BY LoadedFits DEF PagesFit
<1>3. Offered(Drop(q, {"token"}))
  BY DEF Drop, Restrict, Offered
<1> QED
  BY <1>1, <1>2, <1>3 DEF PagesFit

\* Saving the settings leaves the settings in force as they are.
LEMMA PersistFits ==
  ASSUME PagesFit, NEW p \in Pages, NEW s, NEW lasting, Persist(p, s, lasting),
         DOMAIN s = Fields(p), Offered(s), address' = address, DOMAIN meant' = Pages
  PROVE  PagesFit'
<1>1. /\ settings' = [settings EXCEPT ![p] = s]
      /\ DOMAIN transient' = DOMAIN transient
      /\ stored' = [stored EXCEPT ![p] = ToStore(p, s, lasting)]
  BY DEF Persist
<1>2. DOMAIN ToStore(p, s, lasting) = Fields(p) /\ Offered(ToStore(p, s, lasting))
  BY DEF ToStore, Offered
<1> QED
  BY <1>1, <1>2 DEF PagesFit

\* An edit: what the page was opened to show is forgotten.
LEMMA EditLink ==
  ASSUME LinkInv, NEW p \in Pages, NEW s, NEW lasting, Persist(p, s, lasting),
         DOMAIN s = Fields(p), Offered(s),
         address' = address, clipboard' = clipboard, meant' = [meant EXCEPT ![p] = <<>>]
  PROVE  LinkInv'
<1>1. PagesFit'
  BY PersistFits DEF LinkInv, PagesFit
<1>2. settings' = [settings EXCEPT ![p] = s]
  BY DEF Persist
<1>3. LinkKeepsItsMeaning'
  BY <1>2 DEF LinkInv, LinkKeepsItsMeaning, PagesFit
<1> QED
  BY <1>1, <1>3 DEF LinkInv

\* A link names what is given, and so does its meaning.
LEMMA GivenAt ==
  ASSUME NEW s, NEW names
  PROVE  LET x == Given(Only(s, names)) IN
         /\ \A n : n \in DOMAIN x <=> n \in DOMAIN s /\ n \in names /\ s[n] # NoText
         /\ \A n \in DOMAIN x : x[n] = s[n]
BY DEF Given, Only, Restrict

\* ... of each name, if the settings have it.
LEMMA GivenOf ==
  ASSUME NEW s
  PROVE  LET x == Given(s) IN
         /\ \A n : n \in DOMAIN x <=> n \in DOMAIN s /\ s[n] # NoText
         /\ \A n \in DOMAIN x : x[n] = s[n]
BY DEF Given, Restrict

\* What Onto does to one name.
LEMMA OntoAt ==
  ASSUME NEW f, NEW g
  PROVE  LET x == Onto(f, g) IN
         /\ \A n : n \in DOMAIN x <=> n \in DOMAIN f \/ n \in DOMAIN g
         /\ \A n \in DOMAIN f : x[n] = f[n]
         /\ \A n \in DOMAIN g : n \notin DOMAIN f => x[n] = g[n]
BY DEF Onto

\* A link has been made.
LEMMA CopyLink ==
  ASSUME LinkInv, PagesFit', NEW to \in Pages, NEW q, NEW what, Copy(to, q, what),
         settings' = settings, Offered(q), Says(to, q, Given(what))
  PROVE  LinkInv'
<1>1. clipboard'.to = to /\ clipboard'.query = q /\ clipboard'.meant = Given(what) /\ meant' = meant
  BY DEF Copy
<1>2. LinkKeepsItsMeaning'
  BY <1>1 DEF LinkInv, LinkKeepsItsMeaning
<1>3. Offered(clipboard'.query) /\ Says(clipboard'.to, clipboard'.query, clipboard'.meant)
  BY <1>1
<1> QED
  BY <1>2, <1>3 DEF LinkInv

\* The panel's links.
LEMMA PanelSays ==
  ASSUME NEW s, DOMAIN s = RoomNames \cup {"mirror"}, s.room \in GoodRooms
  PROVE  /\ LET q == BuildPhoneTrackerUrl(s) IN Offered(q) /\ Says("tracker", q, Given(s))
         /\ LET q == BuildViewerPairingUrl(s)
            IN  Offered(q) /\ Says("viewer", q, Given(Drop(s, {"mirror"})))
<1>1. /\ "situation" \notin RoomNames \cup {"mirror"} /\ "scene" \notin RoomNames \cup {"mirror"}
      /\ "transparent" \notin RoomNames \cup {"mirror"} /\ "mirror" \notin RoomNames
      /\ "room" \in RoomNames
  BY DEF RoomNames
<1>2. PICK q : q = BuildPhoneTrackerUrl(s)
  OBVIOUS
<1>3. /\ \A n : n \in DOMAIN q <=> n \in RoomNames \cup {"mirror"} /\ s[n] # NoText
      /\ \A n \in DOMAIN q : q[n] = s[n]
  BY <1>2, GivenAt DEF BuildPhoneTrackerUrl
<1>4. Offered(q) /\ Says("tracker", q, Given(s))
  <2>1. PICK m : m = Given(s)
    OBVIOUS
  <2>2. /\ \A n : n \in DOMAIN m <=> n \in RoomNames \cup {"mirror"} /\ s[n] # NoText
        /\ \A n \in DOMAIN m : m[n] = s[n]
    BY <2>1, GivenOf
  <2>3. Says("tracker", q, m)
    BY <1>1, <1>3, <2>2 DEF Says, Carriers
  <2> QED
    BY <1>1, <1>3, <2>1, <2>3 DEF Offered
<1>5. PICK v : v = BuildViewerPairingUrl(s)
  OBVIOUS
<1>6. /\ \A n : n \in DOMAIN v <=> n \in RoomNames /\ s[n] # NoText
      /\ \A n \in DOMAIN v : v[n] = s[n]
  BY <1>5, GivenAt DEF BuildViewerPairingUrl
<1>7. Offered(v) /\ Says("viewer", v, Given(Drop(s, {"mirror"})))
  <2>1. PICK m : m = Given(Drop(s, {"mirror"}))
    OBVIOUS
  <2>2. /\ \A n : n \in DOMAIN m <=> n \in RoomNames /\ s[n] # NoText
        /\ \A n \in DOMAIN m : m[n] = s[n]
    BY <1>1, <2>1, GivenOf DEF Drop, Restrict
  <2>3. Says("viewer", v, m)
    BY <1>1, <1>6, <2>2 DEF Says, Carriers
  <2> QED
    BY <1>1, <1>6, <2>1, <2>3 DEF Offered
<1> QED
  BY <1>2, <1>4, <1>5, <1>7

\* The tracker's link to its viewer ...
LEMMA TrackerSays ==
  ASSUME NEW s, DOMAIN s = Fields("tracker")
  PROVE  LET q == BuildViewerPairingUrl(s)
         IN  Offered(q) /\ Says("viewer", q, Given(Only(s, RoomNames)))
<1>1. /\ "situation" \notin RoomNames /\ "scene" \notin RoomNames /\ "transparent" \notin RoomNames
      /\ RoomNames \subseteq DOMAIN s
  BY DEF RoomNames, Fields, RoomFields
<1>2. PICK q : q = BuildViewerPairingUrl(s)
  OBVIOUS
<1>3. /\ \A n : n \in DOMAIN q <=> n \in RoomNames /\ s[n] # NoText
      /\ \A n \in DOMAIN q : q[n] = s[n] /\ q = Given(Only(s, RoomNames))
  BY <1>1, <1>2, GivenAt DEF BuildViewerPairingUrl
<1>4. Offered(q) /\ Says("viewer", q, q)
  BY <1>1, <1>3 DEF Says, Carriers, Offered
<1> QED
  BY <1>2, <1>4 DEF BuildViewerPairingUrl

\* ... the one it copies for the drums, over a transparent scene ...
LEMMA DrumSays ==
  ASSUME NEW s, DOMAIN s = Fields("tracker")
  PROVE  LET q == DrumObsUrl(s)
             what == Onto(Only(s, RoomNames), [transparent |-> TRUE, drum |-> TRUE])
         IN  Offered(q) /\ Says("viewer", q, Given(what))
<1>1. /\ \A n \in RoomNames : n \notin {"situation", "scene", "transparent", "colour", "drum", "bg"}
      /\ RoomNames \subseteq DOMAIN s
  BY DEF RoomNames, Fields, RoomFields
<1>2. PICK q : q = DrumObsUrl(s)
  OBVIOUS
<1>3. PICK r : r = BuildViewerPairingUrl(s)
  OBVIOUS
<1>4. /\ \A n : n \in DOMAIN r <=> n \in RoomNames /\ s[n] # NoText
      /\ \A n \in DOMAIN r : r[n] = s[n]
  BY <1>1, <1>3, GivenAt DEF BuildViewerPairingUrl
<1>5. /\ \A n : n \in DOMAIN q <=> n \in DOMAIN r \/ n \in {"preset", "bg", "drum"}
      /\ \A n \in DOMAIN r : q[n] = r[n]
      /\ q["bg"] = "transparent" /\ q["drum"] = TRUE
  <2> DEFINE g == [preset |-> "obs", bg |-> "transparent", drum |-> TRUE]
  <2>1. DOMAIN g = {"preset", "bg", "drum"} /\ g["bg"] = "transparent" /\ g["drum"] = TRUE
    OBVIOUS
  <2>2. q = Onto(r, g)
    BY <1>2, <1>3 DEF DrumObsUrl
  <2> HIDE DEF g
  <2>3. "bg" \notin DOMAIN r /\ "drum" \notin DOMAIN r
    BY <1>1, <1>4
  <2> QED
    BY <2>1, <2>2, <2>3, OntoAt
<1>6. PICK w : w = Onto(Only(s, RoomNames), [transparent |-> TRUE, drum |-> TRUE])
  OBVIOUS
<1>7. /\ \A n : n \in DOMAIN w <=> n \in RoomNames \/ n \in {"transparent", "drum"}
      /\ \A n \in RoomNames : w[n] = s[n]
      /\ w["transparent"] = TRUE /\ w["drum"] = TRUE
  BY <1>1, <1>6 DEF Onto, Only, Restrict
<1>8. PICK m : m = Given(w)
  OBVIOUS
<1>9. /\ \A n : n \in DOMAIN m <=> n \in DOMAIN w /\ w[n] # NoText
      /\ \A n \in DOMAIN m : m[n] = w[n]
  BY <1>8, GivenOf
<1>10. Offered(q)
  BY <1>1, <1>4, <1>5 DEF Offered
<1>11. Says("viewer", q, m)
  <2>1. ASSUME NEW n \in DOMAIN m, n # "transparent"
        PROVE  n \in Carriers("viewer") /\ n \in DOMAIN q /\ q[n] = m[n]
    <3>1. CASE n \in RoomNames
      BY <1>4, <1>5, <1>7, <1>9, <3>1 DEF Carriers
    <3>2. CASE n = "drum"
      BY <1>5, <1>7, <1>9, <3>2 DEF Carriers
    <3> QED
      BY <1>7, <1>9, <2>1, <3>1, <3>2
  <2>2. "transparent" \in DOMAIN m => m["transparent"] = TRUE
    BY <1>7, <1>9
  <2>3. "colour" \notin DOMAIN q /\ "bg" \in DOMAIN q /\ q["bg"] = "transparent"
    BY <1>1, <1>4, <1>5
  <2> QED
    BY <2>1, <2>2, <2>3 DEF Says
<1> QED
  BY <1>2, <1>6, <1>8, <1>10, <1>11

\* ... and the one for its situation, with the situation's look.
LEMMA SituationSays ==
  ASSUME NEW s, DOMAIN s = Fields("tracker"), Offered(s)
  PROVE  LET q == SituationViewerUrl(s)
             kept == IF s.mode = "wt" THEN RoomNames ELSE RoomNames \ {"wt"}
             what == Onto(Only(s, kept), SituationLook[s.situation])
         IN  Offered(q) /\ Says("viewer", q, Given(what))
<1> DEFINE kept == IF s.mode = "wt" THEN RoomNames ELSE RoomNames \ {"wt"}
           look == SituationLook[s.situation]
           g == [preset |-> "obs", situation |-> s.situation, scene |-> look.scene,
                 bg |-> "transparent", bloom |-> look.bloom, drum |-> look.drum]
<1>1. /\ \A n \in kept : n \notin {"situation", "scene", "transparent", "colour", "drum", "bg",
                                   "bloom", "preset"}
      /\ kept \subseteq DOMAIN s /\ kept \subseteq RoomNames
  BY DEF RoomNames, Fields, RoomFields
<1>2. s.situation \in DOMAIN SituationLook
  BY DEF Offered, Fields, RoomFields
<1>3. /\ DOMAIN look = {"scene", "transparent", "bloom", "drum"}
      /\ look["transparent"] = TRUE /\ look["scene"] \in DOMAIN ScenePresets
  BY <1>2 DEF SituationLook, ScenePresets
<1>4. /\ DOMAIN g = {"preset", "situation", "scene", "bg", "bloom", "drum"}
      /\ g["situation"] = s.situation /\ g["scene"] = look["scene"] /\ g["bg"] = "transparent"
      /\ g["bloom"] = look["bloom"] /\ g["drum"] = look["drum"]
  OBVIOUS
<1>5. PICK r : r = Given(Only(s, kept))
  OBVIOUS
<1>6. /\ \A n : n \in DOMAIN r <=> n \in kept /\ s[n] # NoText
      /\ \A n \in DOMAIN r : r[n] = s[n]
  BY <1>1, <1>5, GivenAt
<1>7. PICK q : q = Onto(r, g)
  OBVIOUS
<1>8. SituationViewerUrl(s) = q
  BY <1>5, <1>7 DEF SituationViewerUrl
<1>9. PICK w : w = Onto(Only(s, kept), look)
  OBVIOUS
<1> HIDE DEF kept, look, g
<1>10. /\ \A n : n \in DOMAIN q <=> n \in DOMAIN r \/ n \in DOMAIN g
       /\ \A n \in DOMAIN r : q[n] = r[n]
       /\ \A n \in DOMAIN g : q[n] = g[n]
  <2>1. \A n \in DOMAIN g : n \notin DOMAIN r
    BY <1>1, <1>4, <1>6
  <2> QED
    BY <1>7, <2>1, OntoAt
<1>11. /\ \A n : n \in DOMAIN w <=> n \in kept \/ n \in DOMAIN look
       /\ \A n \in kept : w[n] = s[n]
       /\ \A n \in DOMAIN look : w[n] = look[n]
  <2>1. PICK o : o = Only(s, kept)
    OBVIOUS
  <2>2. DOMAIN o = kept /\ \A n \in kept : o[n] = s[n]
    BY <1>1, <2>1 DEF Only, Restrict
  <2>3. \A n \in DOMAIN look : n \notin DOMAIN o
    BY <1>1, <1>3, <2>2
  <2> QED
    BY <1>9, <2>1, <2>2, <2>3, OntoAt
<1>12. PICK m : m = Given(w)
  OBVIOUS
<1>13. /\ \A n : n \in DOMAIN m <=> n \in DOMAIN w /\ w[n] # NoText
       /\ \A n \in DOMAIN m : m[n] = w[n]
  BY <1>12, GivenOf
<1>14. Offered(q)
  <2>1. q["situation"] = s.situation /\ q["scene"] = look["scene"]
    BY <1>4, <1>10
  <2> QED
    BY <1>2, <1>3, <2>1 DEF Offered
<1>15. Says("viewer", q, m)
  <2>1. ASSUME NEW n \in DOMAIN m, n # "transparent"
        PROVE  n \in Carriers("viewer") /\ n \in DOMAIN q /\ q[n] = m[n]
    <3>1. CASE n \in kept
      <4>1. n \in DOMAIN r /\ m[n] = s[n]
        BY <1>6, <1>11, <1>13, <3>1
      <4> QED
        BY <1>1, <1>6, <1>10, <3>1, <4>1 DEF Carriers
    <3>2. CASE n \in DOMAIN look
      <4>1. n \in {"scene", "bloom", "drum"}
        BY <1>3, <2>1, <3>2
      <4>2. n \in DOMAIN g /\ g[n] = look[n] /\ m[n] = look[n]
        BY <1>4, <1>11, <1>13, <3>2, <4>1
      <4> QED
        BY <1>10, <4>1, <4>2 DEF Carriers
    <3> QED
      BY <1>11, <1>13, <2>1, <3>1, <3>2
  <2>2. "transparent" \in DOMAIN m => m["transparent"] = TRUE
    BY <1>3, <1>11, <1>13
  <2>3. "colour" \notin DOMAIN q /\ "bg" \in DOMAIN q /\ q["bg"] = "transparent"
    BY <1>1, <1>4, <1>6, <1>10
  <2> QED
    BY <2>1, <2>2, <2>3 DEF Says
<1> QED
  BY <1>8, <1>9, <1>12, <1>14, <1>15 DEF kept, look

\* The scene URL.
LEMMA SceneSays ==
  ASSUME NEW s, DOMAIN s = Fields("viewer"), Offered(s), NEW a, Offered(a)
  PROVE  LET q == SerializeViewerSceneUrl(s, a)
         IN  Offered(q) /\ Says("viewer", q, Given(Drop(s, {"transparent"})))
<1> DEFINE names == RoomNames \cup {"situation", "scene", "colour", "bloom", "drum"}
           bg    == [bg |-> IF s.transparent THEN "transparent" ELSE "solid"]
           rest  == Drop(a, {"token", "ws"})
           tail  == Onto(bg, rest)
<1>1. DOMAIN s = names \cup {"transparent"} /\ "transparent" \notin names /\ "bg" \notin names
  BY DEF Fields, RoomFields, RoomNames
<1>2. PICK r : r = Given(Only(s, names))
  OBVIOUS
<1>3. /\ \A n : n \in DOMAIN r <=> n \in names /\ s[n] # NoText
      /\ \A n \in DOMAIN r : r[n] = s[n]
  BY <1>1, <1>2, GivenAt
<1>4. PICK q : q = Onto(r, tail)
  OBVIOUS
<1>5. SerializeViewerSceneUrl(s, a) = q
  BY <1>2, <1>4 DEF SerializeViewerSceneUrl
<1>6. Offered(tail)
  <2>1. Offered(rest)
    BY DEF Drop, Restrict, Offered
  <2>2. DOMAIN bg = {"bg"}
    OBVIOUS
  <2> HIDE DEF rest, bg
  <2> QED
    BY <2>1, <2>2, OntoAt DEF Offered
<1> HIDE DEF tail
<1>7. /\ \A n : n \in DOMAIN q <=> n \in DOMAIN r \/ n \in DOMAIN tail
      /\ \A n \in DOMAIN r : q[n] = r[n]
      /\ \A n \in DOMAIN tail : n \notin DOMAIN r => q[n] = tail[n]
  BY <1>4, OntoAt
<1>8. PICK m : m = Given(Drop(s, {"transparent"}))
  OBVIOUS
<1>9. /\ \A n : n \in DOMAIN m <=> n \in names /\ s[n] # NoText
      /\ \A n \in DOMAIN m : m[n] = s[n]
  BY <1>1, <1>8, GivenOf DEF Drop, Restrict
<1>10. Offered(q)
  BY <1>1, <1>3, <1>6, <1>7 DEF Offered
<1>11. Says("viewer", q, m)
  BY <1>1, <1>3, <1>7, <1>9 DEF Says, Carriers
<1> QED
  BY <1>5, <1>8, <1>10, <1>11

\* No act of the user changes what a link was made to show.
LEMMA LinkNext == LinkInv /\ [SettingsNext]_settingVars => LinkInv'
<1> SUFFICES ASSUME LinkInv, [SettingsNext]_settingVars PROVE LinkInv'
  OBVIOUS
<1>0. /\ PagesFit /\ "tracker" \in Pages /\ "viewer" \in Pages
      /\ \A p \in Pages : DOMAIN settings[p] = Fields(p) /\ Offered(settings[p])
                          /\ Offered(address[p])
  BY DEF LinkInv, PagesFit, Pages
<1>1. CASE OpenLink
  <2>1. PICK p \in Pages : p = clipboard.to
    BY <1>1 DEF OpenLink
  <2>2. /\ LoadPage(p, clipboard.query) /\ meant' = [meant EXCEPT ![p] = clipboard.meant]
        /\ Offered(clipboard.query) /\ Says(p, clipboard.query, clipboard.meant)
        /\ clipboard' = clipboard
    BY <1>1, <2>1 DEF OpenLink, LinkInv, LoadPage
  <2>3. PagesFit'
    BY <1>0, <2>2, LoadPageFits DEF PagesFit
  <2>4. \A n \in DOMAIN clipboard.meant : Loaded(p, clipboard.query)[n] = clipboard.meant[n]
    BY <1>0, <2>2, LoadedSays DEF PagesFit
  <2>5. settings' = [settings EXCEPT ![p] = Loaded(p, clipboard.query)]
    BY <2>2 DEF LoadPage
  <2>6. LinkKeepsItsMeaning'
    <3> SUFFICES ASSUME NEW r \in Pages, NEW n \in DOMAIN meant'[r]
                 PROVE  settings'[r][n] = meant'[r][n]
      BY DEF LinkKeepsItsMeaning
    <3>1. CASE r = p
      BY <1>0, <2>2, <2>4, <2>5, <3>1 DEF PagesFit
    <3>2. CASE r # p
      BY <1>0, <2>2, <2>5, <3>2 DEF PagesFit, LinkInv, LinkKeepsItsMeaning
    <3> QED
      BY <3>1, <3>2
  <2> QED
    BY <2>2, <2>3, <2>6 DEF LinkInv
<1>2. ASSUME NEW p \in Pages, ReloadPage(p) PROVE LinkInv'
  <2>1. /\ LoadPage(p, address[p]) /\ meant' = [meant EXCEPT ![p] = <<>>] /\ clipboard' = clipboard
    BY <1>2 DEF ReloadPage, LoadPage
  <2>2. PagesFit'
    BY <1>0, <2>1, LoadPageFits DEF PagesFit
  <2>3. settings' = [settings EXCEPT ![p] = Loaded(p, address[p])]
    BY <2>1 DEF LoadPage
  <2>4. LinkKeepsItsMeaning'
    BY <1>0, <2>1, <2>3 DEF PagesFit, LinkInv, LinkKeepsItsMeaning
  <2> QED
    BY <2>1, <2>2, <2>4 DEF LinkInv
<1>3. ASSUME NEW p \in Pages, NEW s, Edit(p, s), DOMAIN s = Fields(p), Offered(s) PROVE LinkInv'
  BY <1>3, EditLink DEF Edit
<1>4. ASSUME NEW p \in Pages, TypeToken(p) PROVE LinkInv'
  <2>1. PICK t : /\ Persist(p, [settings[p] EXCEPT !.token = t], NoText)
                 /\ meant' = [meant EXCEPT ![p] = <<>>] /\ UNCHANGED <<address, clipboard>>
    BY <1>4 DEF TypeToken
  <2>2. PICK s : s = [settings[p] EXCEPT !.token = t]
    OBVIOUS
  <2>3. DOMAIN s = Fields(p) /\ Offered(s)
    BY <1>0, <2>2 DEF Offered
  <2> QED
    BY <2>1, <2>2, <2>3, EditLink
<1>5. ASSUME NEW p \in Pages, EditRoom(p) PROVE LinkInv'
  <2>1. ASSUME NEW n \in {"mode", "room", "ws", "wt"}, NEW v, Edit(p, [settings[p] EXCEPT ![n] = v])
        PROVE  LinkInv'
    <3>1. PICK s : s = [settings[p] EXCEPT ![n] = v]
      OBVIOUS
    <3>2. DOMAIN s = Fields(p) /\ Offered(s)
      BY <1>0, <3>1 DEF Offered
    <3> QED
      BY <1>3, <2>1, <3>1, <3>2
  <2>2. \/ \E v : Edit(p, [settings[p] EXCEPT !["mode"] = v])
        \/ \E v : Edit(p, [settings[p] EXCEPT !["room"] = v])
        \/ \E v : Edit(p, [settings[p] EXCEPT !["ws"] = v])
        \/ \E v : Edit(p, [settings[p] EXCEPT !["wt"] = v])
    BY <1>5 DEF EditRoom
  <2> QED
    BY <2>1, <2>2
<1>6. ASSUME NEW p \in Pages, ChooseSituation(p) PROVE LinkInv'
  <2>1. PICK id \in DOMAIN SituationLook : Edit(p, ApplySituationToSettings(settings[p], id))
    BY <1>6 DEF ChooseSituation
  <2>2. DOMAIN ApplySituationToSettings(settings[p], id) = Fields(p) /\ Offered(ApplySituationToSettings(settings[p], id))
    BY <1>0, LookAt, SituationOffered
  <2> QED
    BY <1>3, <2>1, <2>2
<1>7. CASE EditScene
  <2> DEFINE s == settings["viewer"]
  <2>0. DOMAIN s = Fields("viewer") /\ Offered(s)
    BY <1>0
  <2> HIDE DEF s
  <2>1. ASSUME NEW name \in DOMAIN ScenePresets, Edit("viewer", ApplyScenePresetDefaults(s, name))
        PROVE  LinkInv'
    BY <1>0, <1>3, <2>0, <2>1, LookAt, SceneOffered
  <2>2. CASE Edit("viewer", [s EXCEPT !.colour = "own", !.transparent = FALSE])
    <3>1. PICK x : x = [s EXCEPT !.colour = "own", !.transparent = FALSE]
      OBVIOUS
    <3>2. DOMAIN x = Fields("viewer") /\ Offered(x)
      BY <2>0, <3>1 DEF Offered
    <3> QED
      BY <1>0, <1>3, <2>2, <3>1, <3>2
  <2>3. ASSUME NEW n \in {"transparent", "bloom", "drum"}, Edit("viewer", [s EXCEPT ![n] = ~@])
        PROVE  LinkInv'
    <3>1. PICK x : x = [s EXCEPT ![n] = ~@]
      OBVIOUS
    <3>2. DOMAIN x = Fields("viewer") /\ Offered(x)
      BY <2>0, <3>1 DEF Offered
    <3> QED
      BY <1>0, <1>3, <2>3, <3>1, <3>2
  <2> QED
    BY <1>7, <2>1, <2>2, <2>3 DEF EditScene, s
<1>8. CASE PanelLink
  <2>1. PICK s : /\ DOMAIN s = RoomNames \cup {"mirror"} /\ s.room \in GoodRooms /\ Same
                 /\ \/ Copy("tracker", BuildPhoneTrackerUrl(s), s)
                    \/ Copy("viewer", BuildViewerPairingUrl(s), Drop(s, {"mirror"}))
    <3>1. PICK r \in GoodRooms \ {NoText}, t \in Tokens, preferWt, mirror \in BOOLEAN :
            LET s == [mode |-> IF preferWt THEN "wt" ELSE "ws", room |-> r, token |-> t,
                      ws |-> "relay", wt |-> IF preferWt THEN "relay" ELSE NoText,
                      mirror |-> mirror]
            IN  /\ Act /\ Same
                /\ \/ Copy("tracker", BuildPhoneTrackerUrl(s), s)
                   \/ Copy("viewer", BuildViewerPairingUrl(s), Drop(s, {"mirror"}))
      BY <1>8, Zenon DEF PanelLink
    <3> DEFINE s == [mode |-> IF preferWt THEN "wt" ELSE "ws", room |-> r, token |-> t,
                     ws |-> "relay", wt |-> IF preferWt THEN "relay" ELSE NoText,
                     mirror |-> mirror]
    <3>2. DOMAIN s = RoomNames \cup {"mirror"} /\ s.room \in GoodRooms
      BY DEF RoomNames
    <3>3. /\ Same
          /\ \/ Copy("tracker", BuildPhoneTrackerUrl(s), s)
             \/ Copy("viewer", BuildViewerPairingUrl(s), Drop(s, {"mirror"}))
      BY <3>1
    <3> HIDE DEF s
    <3> QED
      BY <3>2, <3>3
  <2>2. settings' = settings /\ PagesFit'
    BY <1>0, <2>1 DEF Same, Copy, PagesFit
  <2> QED
    BY <1>0, <2>1, <2>2, PanelSays, CopyLink
<1>9. CASE TrackerLink
  <2> DEFINE s == settings["tracker"]
             kept == IF s.mode = "wt" THEN RoomNames ELSE RoomNames \ {"wt"}
  <2>1. DOMAIN s = Fields("tracker") /\ Offered(s)
    BY <1>0
  <2>2. Persist("tracker", s, transient["tracker"]) /\ address' = address /\ meant' = meant
    BY <1>9 DEF TrackerLink, Copy
  <2>3. PagesFit'
    BY <1>0, <2>1, <2>2, PersistFits DEF PagesFit
  <2>4. settings' = [settings EXCEPT !["tracker"] = s]
    BY <2>2 DEF Persist
  <2>5. PICK q, what : Copy("viewer", q, what) /\ Offered(q) /\ Says("viewer", q, Given(what))
    <3>1. CASE Copy("viewer", BuildViewerPairingUrl(s), Only(s, RoomNames))
      BY <2>1, <3>1, TrackerSays
    <3>2. CASE Copy("viewer", DrumObsUrl(s),
                    Onto(Only(s, RoomNames), [transparent |-> TRUE, drum |-> TRUE]))
      BY <2>1, <3>2, DrumSays
    <3>3. CASE Copy("viewer", SituationViewerUrl(s), Onto(Only(s, kept), SituationLook[s.situation]))
      BY <2>1, <3>3, SituationSays
    <3> QED
      BY <1>9, <3>1, <3>2, <3>3 DEF TrackerLink
  <2>6. clipboard'.to = "viewer" /\ clipboard'.query = q /\ clipboard'.meant = Given(what)
    BY <2>5 DEF Copy
  <2>7. LinkKeepsItsMeaning'
    BY <1>0, <2>2, <2>4 DEF LinkInv, LinkKeepsItsMeaning, PagesFit
  <2>8. Offered(clipboard'.query) /\ Says(clipboard'.to, clipboard'.query, clipboard'.meant)
    BY <2>5, <2>6
  <2> QED
    BY <2>3, <2>7, <2>8 DEF LinkInv
<1>10. CASE CopySceneUrl
  <2>1. /\ Same /\ Copy("viewer", SerializeViewerSceneUrl(settings["viewer"], address["viewer"]),
                        Drop(settings["viewer"], {"transparent"}))
    BY <1>10 DEF CopySceneUrl
  <2>2. settings' = settings /\ PagesFit'
    BY <1>0, <2>1 DEF Same, Copy, PagesFit
  <2> QED
    BY <1>0, <2>1, <2>2, SceneSays, CopyLink
<1>11. CASE UNCHANGED settingVars
  BY <1>11 DEF settingVars, LinkInv, LinkKeepsItsMeaning, PagesFit
<1> QED
  BY <1>1, <1>2, <1>4, <1>5, <1>6, <1>7, <1>8, <1>9, <1>10, <1>11 DEF SettingsNext

\* A page opened by a link shows what the link was made to show until its user changes a
\* control, whatever the page had stored (applyQuerySettings, buildViewerUrl).
THEOREM LinkMeaningKept == SettingsSpec => []LinkKeepsItsMeaning
<1>1. LinkInv => LinkKeepsItsMeaning
  BY DEF LinkInv
<1> QED
  BY <1>1, LinkInit, LinkNext, PTL DEF SettingsSpec

-----------------------------------------------------------------------------
(***************************************************************************)
(* The desktop shell: the file picked last reaches the viewer, for any number *)
(* of files and page loads.                                                *)
(*                                                                         *)
(* PickedFileArrives speaks of a settled page only.  The invariant says why a *)
(* settled page has been told: from the answer to its own question on, the *)
(* page either has asked for the newest file or is about to hear of it (Told), *)
(* unless the shell is between storing a file and announcing it; and what it *)
(* has asked for is being read, parsed, shown or has failed (Asked).       *)
(* LoadedOnce says that a revision is in one place only.                   *)
(***************************************************************************)

ShellTypeOK ==
  /\ store \in Nat
  /\ picking \in {"idle", "stored", "building", "opened"} /\ (picking # "idle" => store > 0)
  /\ window \in BOOLEAN
  /\ viewer \in [phase : {"booting", "listening", "asked"}, requested : Nat]
  /\ inbox \subseteq [kind : {"event", "answer"}, rev : Nat \ {0}]
  /\ reads \subseteq [rev : Nat \ {0}, state : {"asked", "bytes", "error"}]
  /\ parsing \subseteq Nat
  /\ served \in [shown : Seq(Nat), failed : SUBSET Nat]

ShownRevs == {served.shown[i] : i \in DOMAIN served.shown}
ReadRevs  == {job.rev : job \in reads}

\* Nothing is younger than the store's revision, nothing loaded than the page's request.
Ordered ==
  /\ viewer.requested <= store
  /\ \A m \in inbox : m.rev <= store
  /\ \A rev \in ReadRevs \cup parsing \cup ShownRevs : rev <= viewer.requested

\* A window found missing when the viewer was opened holds, if there is one by now, a
\* page that started after the file was stored.
Told ==
  window /\ viewer.phase = "asked" /\ store > 0 /\ picking \in {"idle", "building"} =>
    viewer.requested = store \/ \E m \in inbox : m.rev = store

Asked ==
  viewer.requested > 0 =>
    viewer.requested \in ReadRevs \cup parsing \cup served.failed \cup ShownRevs

LoadedOnce ==
  /\ \A r1, r2 \in reads : r1.rev = r2.rev => r1 = r2
  /\ ReadRevs \cap (parsing \cup ShownRevs) = {}
  /\ parsing \cap ShownRevs = {}
  /\ \A i, j \in DOMAIN served.shown : served.shown[i] = served.shown[j] => i = j

ShellInv == ShellTypeOK /\ Ordered /\ Told /\ Asked /\ LoadedOnce

\* A settled page has been told of the newest file, and so shows it or has failed to.
LEMMA ShellInvArrives == ShellInv => PickedFileArrives
<1> SUFFICES ASSUME ShellInv PROVE PickedFileArrives
  OBVIOUS
<1>1. ASSUME Settled, store > 0
      PROVE  store \in served.failed \cup {served.shown[i] : i \in DOMAIN served.shown}
  <2>1. viewer.requested = store
    BY <1>1 DEF Settled, ShellInv, Told
  <2> QED
    BY <1>1, <2>1 DEF Settled, ShellInv, Asked, ReadRevs, ShownRevs
<1> QED
  BY <1>1 DEF PickedFileArrives, ShellInv, LoadedOnce

\* A page that has just loaded.
LEMMA FreshInv ==
  ASSUME FreshPage, store \in Nat, store' = store, window' \in BOOLEAN,
         picking' \in {"idle", "stored", "building", "opened"}, picking' # "idle" => store > 0
  PROVE  ShellInv'
<1>1. /\ viewer' = [phase |-> "booting", requested |-> 0]
      /\ inbox' = {} /\ reads' = {} /\ parsing' = {} /\ served' = [shown |-> <<>>, failed |-> {}]
  BY DEF FreshPage
<1>2. DOMAIN served'.shown = {} /\ ShownRevs' = {} /\ ReadRevs' = {}
  BY <1>1 DEF ShownRevs, ReadRevs
<1> QED
  BY <1>1, <1>2 DEF ShellInv, ShellTypeOK, Ordered, Told, Asked, LoadedOnce

\* No file has been picked.
LEMMA ShellInitInv == ShellInit => ShellInv
<1> SUFFICES ASSUME ShellInit PROVE ShellInv
  OBVIOUS
<1>1. /\ viewer = [phase |-> "booting", requested |-> 0] /\ store = 0
      /\ inbox = {} /\ reads = {} /\ parsing = {} /\ served = [shown |-> <<>>, failed |-> {}]
      /\ picking = "idle" /\ window = FALSE
  BY DEF ShellInit
<1>2. DOMAIN served.shown = {} /\ ShownRevs = {} /\ ReadRevs = {}
  BY <1>1 DEF ShownRevs, ReadRevs
<1>3. ShellTypeOK /\ Ordered
  <2>1. viewer \in [phase : {"booting", "listening", "asked"}, requested : Nat]
    BY <1>1
  <2>2. served \in [shown : Seq(Nat), failed : SUBSET Nat]
    BY <1>1
  <2>3. window \in BOOLEAN /\ picking = "idle" /\ store \in Nat
    BY <1>1
  <2>4. ShellTypeOK
    BY <1>1, <2>1, <2>2, <2>3 DEF ShellTypeOK
  <2>5. Ordered
    BY <1>1, <1>2 DEF Ordered
  <2> QED
    BY <2>4, <2>5
<1>4. Told /\ Asked /\ LoadedOnce
  BY <1>1, <1>2 DEF Told, Asked, LoadedOnce
<1> QED
  BY <1>3, <1>4 DEF ShellInv

\* What the page has asked for, parses and shows does not change.
LEMMA PageKept ==
  ASSUME ShellInv, UNCHANGED <<reads, parsing, served>>, viewer'.requested = viewer.requested
  PROVE  /\ Asked' /\ LoadedOnce' /\ ShownRevs' = ShownRevs /\ ReadRevs' = ReadRevs
BY DEF ShellInv, Asked, LoadedOnce, ShownRevs, ReadRevs

\* The shell's steps: a file is stored, the window sought, the file announced.
LEMMA ShellSteps ==
  ASSUME ShellInv, Pick \/ OpenViewer \/ Emit \/ NativeAvatarInfo \/ Listen
  PROVE  ShellInv'
<1>1. /\ UNCHANGED <<reads, parsing, served>> /\ viewer'.requested = viewer.requested
      /\ ShellTypeOK'
  <2>1. CASE Pick
    BY <2>1 DEF ShellInv, ShellTypeOK, Pick, viewerVars
  <2>2. CASE OpenViewer
    BY <2>2 DEF ShellInv, ShellTypeOK, OpenViewer, viewerVars
  <2>3. CASE Emit
    <3>1. [kind |-> "event", rev |-> store] \in [kind : {"event", "answer"}, rev : Nat \ {0}]
      BY <2>3 DEF ShellInv, ShellTypeOK, Emit
    <3> QED
      BY <2>3, <3>1 DEF ShellInv, ShellTypeOK, Emit
  <2>4. CASE NativeAvatarInfo
    BY <2>4 DEF ShellInv, ShellTypeOK, NativeAvatarInfo
  <2>5. CASE Listen
    BY <2>5 DEF ShellInv, ShellTypeOK, Listen
  <2> QED
    BY <2>1, <2>2, <2>3, <2>4, <2>5
<1>2. Asked' /\ LoadedOnce' /\ ShownRevs' = ShownRevs /\ ReadRevs' = ReadRevs
  BY <1>1, PageKept
<1>3. store <= store' /\ store \in Nat /\ store' \in Nat /\ viewer.requested \in Nat
  BY <1>1 DEF ShellInv, ShellTypeOK, Pick, OpenViewer, Emit, NativeAvatarInfo, Listen
<1>4. \A m \in inbox' : m.rev <= store'
  <2>1. \A m \in inbox : m.rev <= store'
    BY <1>3 DEF ShellInv, ShellTypeOK, Ordered
  <2> QED
    BY <1>3, <2>1 DEF Pick, OpenViewer, Emit, NativeAvatarInfo, Listen, viewerVars
<1>5. Ordered'
  BY <1>1, <1>2, <1>3, <1>4 DEF ShellInv, Ordered
<1>6. Told'
  <2>1. CASE Pick
    BY <2>1 DEF Told, Pick
  <2>2. CASE OpenViewer
    BY <2>2 DEF ShellInv, Told, OpenViewer
  <2>3. CASE Emit
    <3>1. ASSUME window, viewer.phase = "asked"
          PROVE  \E m \in inbox' : m.rev = store
      <4> DEFINE event == [kind |-> "event", rev |-> store]
      <4>1. event \in inbox'
        BY <2>3, <3>1 DEF Emit
      <4>2. event.rev = store
        OBVIOUS
      <4> QED
        BY <4>1, <4>2
    <3>2. UNCHANGED <<store, window, viewer>>
      BY <2>3 DEF Emit
    <3> QED
      BY <3>1, <3>2 DEF Told
  <2>4. CASE NativeAvatarInfo
    <3>1. ASSUME store > 0 PROVE \E m \in inbox' : m.rev = store
      <4> DEFINE answer == [kind |-> "answer", rev |-> store]
      <4>1. answer \in inbox'
        BY <2>4, <3>1, <1>3 DEF NativeAvatarInfo
      <4>2. answer.rev = store
        OBVIOUS
      <4> QED
        BY <4>1, <4>2
    <3>2. store' = store
      BY <2>4 DEF NativeAvatarInfo
    <3> QED
      BY <3>1, <3>2 DEF Told
  <2>5. CASE Listen
    BY <2>5 DEF Told, Listen
  <2> QED
    BY <2>1, <2>2, <2>3, <2>4, <2>5
<1> QED
  BY <1>1, <1>2, <1>5, <1>6 DEF ShellInv

\* A page is loaded or goes.
LEMMA PageSteps ==
  ASSUME ShellInv, OpenedElsewhere \/ Reload \/ CloseWindow
  PROVE  ShellInv'
BY FreshInv DEF OpenedElsewhere, Reload, CloseWindow, ShellInv, ShellTypeOK

\* The window that was missing is built, and holds a page that starts.
LEMMA BuildStep ==
  ASSUME ShellInv, Build
  PROVE  ShellInv'
<1>1. CASE window
  <2>1. /\ picking' = "idle" /\ store' = store
        /\ UNCHANGED <<window, viewer, inbox, reads, parsing, served>>
    BY <1>1 DEF Build, viewerVars
  <2>2. ShellTypeOK' /\ Ordered' /\ Told'
    BY <2>1 DEF ShellInv, ShellTypeOK, Ordered, Told, Build, ReadRevs, ShownRevs
  <2> QED
    BY <2>1, <2>2, PageKept DEF ShellInv
<1>2. CASE ~window
  BY <1>2, FreshInv DEF Build, ShellInv, ShellTypeOK
<1> QED
  BY <1>1, <1>2

\* The file is read: the answer to a call takes its place.
LEMMA AnswerReadStep ==
  ASSUME ShellInv, NEW rev, NEW readable \in BOOLEAN, ReadNativeAvatar(rev, readable)
  PROVE  ShellInv'
<1> DEFINE call == [rev |-> rev, state |-> "asked"]
           state == IF store = rev /\ readable THEN "bytes" ELSE "error"
           answer == [rev |-> rev, state |-> state]
<1>1. /\ call \in reads /\ reads' = (reads \ {call}) \cup {answer}
      /\ UNCHANGED <<store, picking, window, viewer, inbox, parsing, served>>
  BY DEF ReadNativeAvatar
<1>2. rev \in Nat \ {0} /\ state \in {"asked", "bytes", "error"}
  BY <1>1 DEF ShellInv, ShellTypeOK
<1>3. answer.rev = rev /\ call.rev = rev
  OBVIOUS
<1> HIDE DEF call, state, answer
<1>4. ReadRevs' = ReadRevs /\ ShownRevs' = ShownRevs
  BY <1>1, <1>3 DEF ReadRevs, ShownRevs
<1>5. ShellTypeOK'
  <2>1. answer \in [rev : Nat \ {0}, state : {"asked", "bytes", "error"}]
    BY <1>2 DEF answer
  <2> QED
    BY <1>1, <2>1 DEF ShellInv, ShellTypeOK
<1>6. LoadedOnce'
  <2>1. ASSUME NEW r1 \in reads', NEW r2 \in reads', r1.rev = r2.rev PROVE r1 = r2
    BY <1>1, <1>3, <2>1 DEF ShellInv, LoadedOnce
  <2> QED
    BY <1>1, <1>4, <2>1 DEF ShellInv, LoadedOnce
<1> QED
  BY <1>1, <1>4, <1>5, <1>6 DEF ShellInv, Ordered, Told, Asked

\* The page hears of a file.
LEMMA LoadStep ==
  ASSUME ShellInv, NEW message \in inbox, LoadNativeAvatar(message)
  PROVE  ShellInv'
<1> DEFINE call == [rev |-> message.rev, state |-> "asked"]
<1>1. /\ inbox' = inbox \ {message} /\ message.rev \in Nat \ {0} /\ message.rev <= store
      /\ UNCHANGED <<store, picking, window, parsing, served>> /\ ShownRevs' = ShownRevs
      /\ viewer.requested \in Nat /\ store \in Nat
  BY DEF LoadNativeAvatar, ShellInv, ShellTypeOK, Ordered, ShownRevs
<1>2. CASE ~IsNews(message.rev)
  <2>1. UNCHANGED <<viewer, reads>> /\ message.rev <= viewer.requested
    BY <1>1, <1>2 DEF LoadNativeAvatar, IsNews
  <2>2. Told'
    BY <1>1, <2>1 DEF ShellInv, Told, Ordered
  <2>3. ShellTypeOK' /\ Ordered'
    BY <1>1, <2>1 DEF ShellInv, ShellTypeOK, Ordered, ReadRevs
  <2> QED
    BY <1>1, <2>1, <2>2, <2>3, PageKept DEF ShellInv
<1>3. CASE IsNews(message.rev)
  <2>1. /\ viewer' = [viewer EXCEPT !.requested = message.rev] /\ reads' = reads \cup {call}
        /\ message.rev > viewer.requested
    BY <1>1, <1>3 DEF LoadNativeAvatar, IsNews
  <2>2. /\ viewer' \in [phase : {"booting", "listening", "asked"}, requested : Nat]
        /\ viewer'.requested = message.rev /\ viewer'.phase = viewer.phase
    BY <1>1, <2>1 DEF ShellInv, ShellTypeOK
  <2>3. ReadRevs' = ReadRevs \cup {message.rev}
    <3>1. call.rev = message.rev
      OBVIOUS
    <3> HIDE DEF call
    <3> QED
      BY <2>1, <3>1 DEF ReadRevs
  <2>4. /\ message.rev \notin ReadRevs \cup parsing \cup ShownRevs
        /\ \A rev \in ReadRevs \cup parsing \cup ShownRevs : rev <= message.rev
    <3>1. \A rev \in ReadRevs \cup parsing \cup ShownRevs : rev \in Nat /\ rev <= viewer.requested
      <4>1. ReadRevs \subseteq Nat /\ parsing \subseteq Nat
        BY DEF ShellInv, ShellTypeOK, ReadRevs
      <4>2. ShownRevs \subseteq Nat
        BY DEF ShellInv, ShellTypeOK, ShownRevs
      <4> QED
        BY <4>1, <4>2 DEF ShellInv, Ordered
    <3> QED
      BY <1>1, <2>1, <3>1
  <2>5. ShellTypeOK'
    BY <1>1, <2>1, <2>2 DEF ShellInv, ShellTypeOK
  <2>6. Ordered'
    BY <1>1, <2>2, <2>3, <2>4 DEF ShellInv, Ordered
  <2>7. Told'
    <3>1. SUFFICES ASSUME window, viewer.phase = "asked", store > 0,
                          picking \in {"idle", "building"}
                   PROVE  message.rev = store \/ \E m \in inbox' : m.rev = store
      BY <1>1, <2>2 DEF Told
    <3>2. PICK m \in inbox : m.rev = store
      <4>1. viewer.requested # store
        BY <1>1, <2>1
      <4> QED
        BY <3>1, <4>1 DEF ShellInv, Told
    <3> QED
      BY <1>1, <3>2
  <2>8. Asked'
    BY <2>2, <2>3 DEF Asked
  <2>9. LoadedOnce'
    <3>1. ASSUME NEW r1 \in reads', NEW r2 \in reads', r1.rev = r2.rev PROVE r1 = r2
      <4>1. \A r \in reads : r.rev # message.rev
        BY <2>4 DEF ReadRevs
      <4> QED
        BY <2>1, <3>1, <4>1 DEF ShellInv, LoadedOnce
    <3> QED
      BY <1>1, <2>3, <2>4, <3>1 DEF ShellInv, LoadedOnce
  <2> QED
    BY <2>5, <2>6, <2>7, <2>8, <2>9 DEF ShellInv
<1> QED
  BY <1>2, <1>3

\* A read is answered: its file is parsed, unless it was overtaken.
LEMMA ArrivesStep ==
  ASSUME ShellInv, NEW job \in reads, ReadArrives(job)
  PROVE  ShellInv'
<1>1. /\ reads' = reads \ {job} /\ job.state \in {"bytes", "error"} /\ job.rev \in Nat
      /\ UNCHANGED <<store, picking, window, viewer, inbox>>
  BY DEF ReadArrives, ShellInv, ShellTypeOK
<1>2. served'.shown = served.shown /\ ShownRevs' = ShownRevs
  BY DEF ReadArrives, ShellInv, ShellTypeOK, ShownRevs
<1>3. ReadRevs' = ReadRevs \ {job.rev} /\ job.rev \in ReadRevs
  BY <1>1 DEF ShellInv, LoadedOnce, ReadRevs
<1>4. /\ parsing' \in {parsing, parsing \cup {job.rev}}
      /\ served' \in [shown : Seq(Nat), failed : SUBSET Nat] /\ served.failed \subseteq served'.failed
  BY <1>1 DEF ReadArrives, ShellInv, ShellTypeOK
<1>5. job.rev = viewer.requested => job.rev \in parsing' \cup served'.failed
  BY <1>1 DEF ReadArrives, ShellInv, ShellTypeOK
<1>6. ShellTypeOK'
  BY <1>1, <1>4 DEF ShellInv, ShellTypeOK
<1>7. Ordered'
  BY <1>1, <1>2, <1>3, <1>4 DEF ShellInv, Ordered
<1>8. Told'
  BY <1>1 DEF ShellInv, Told
<1>9. Asked'
  BY <1>1, <1>2, <1>3, <1>4, <1>5 DEF ShellInv, Asked
<1>10. LoadedOnce'
  BY <1>1, <1>2, <1>3, <1>4 DEF ShellInv, LoadedOnce
<1> QED
  BY <1>6, <1>7, <1>8, <1>9, <1>10 DEF ShellInv

\* A file is parsed, and is shown if it is still the one asked for.
LEMMA ParsedStep ==
  ASSUME ShellInv, NEW rev \in parsing, Parsed(rev)
  PROVE  ShellInv'
<1> DEFINE n == Len(served.shown)
<1>1. /\ parsing' = parsing \ {rev} /\ rev \in Nat /\ n \in Nat
      /\ served'.shown = Append(served.shown, rev) /\ served'.failed = served.failed
      /\ UNCHANGED <<store, picking, window, viewer, inbox, reads>>
      /\ served.shown \in Seq(Nat) /\ served' \in [shown : Seq(Nat), failed : SUBSET Nat]
  <2>1. /\ parsing' = parsing \ {rev} /\ rev \in Nat
        /\ UNCHANGED <<store, picking, window, viewer, inbox, reads>>
        /\ served' = [served EXCEPT !.shown = Append(served.shown, rev)]
    BY DEF Parsed, ShellInv, ShellTypeOK
  <2>2. served \in [shown : Seq(Nat), failed : SUBSET Nat]
    BY DEF ShellInv, ShellTypeOK
  <2>3. Append(served.shown, rev) \in Seq(Nat) /\ n \in Nat /\ served.shown \in Seq(Nat)
    BY <2>1, <2>2
  <2> QED
    BY <2>1, <2>2, <2>3
<1>2. /\ DOMAIN served.shown = 1..n /\ DOMAIN served'.shown = 1..(n + 1)
      /\ served'.shown[n + 1] = rev
      /\ \A i \in 1..n : served'.shown[i] = served.shown[i]
  BY <1>1
<1>3. ShownRevs' = ShownRevs \cup {rev} /\ ReadRevs' = ReadRevs
  <2>1. 1..(n + 1) = 1..n \cup {n + 1}
    BY <1>1
  <2> QED
    BY <1>1, <1>2, <2>1 DEF ShownRevs, ReadRevs
<1>4. rev \notin ShownRevs /\ rev \notin ReadRevs
  BY DEF ShellInv, LoadedOnce
<1>5. ASSUME NEW i \in DOMAIN served'.shown, NEW j \in DOMAIN served'.shown,
             served'.shown[i] = served'.shown[j]
      PROVE  i = j
  <2>1. \A k \in 1..n : served.shown[k] # rev
    BY <1>2, <1>4 DEF ShownRevs
  <2> QED
    <3>1. CASE i \in 1..n /\ j \in 1..n
      BY <1>2, <1>5, <3>1 DEF ShellInv, LoadedOnce
    <3>2. CASE i \in 1..n /\ j = n + 1
      BY <1>2, <1>5, <2>1, <3>2
    <3>3. CASE i = n + 1 /\ j \in 1..n
      BY <1>2, <1>5, <2>1, <3>3
    <3>4. 1..(n + 1) = 1..n \cup {n + 1}
      BY <1>1, SMTT(30)
    <3>5. (i \in 1..n \/ i = n + 1) /\ (j \in 1..n \/ j = n + 1)
      BY <1>2, <1>5, <3>4
    <3> QED
      BY <3>1, <3>2, <3>3, <3>5
<1>6. ShellTypeOK'
  BY <1>1 DEF ShellInv, ShellTypeOK
<1>7. Ordered'
  BY <1>1, <1>3 DEF ShellInv, Ordered
<1>8. Told'
  BY <1>1 DEF ShellInv, Told
<1>9. Asked'
  BY <1>1, <1>3 DEF ShellInv, Asked
<1>10. LoadedOnce'
  <2>1. ReadRevs' \cap (parsing' \cup ShownRevs') = {} /\ parsing' \cap ShownRevs' = {}
    BY <1>1, <1>3, <1>4 DEF ShellInv, LoadedOnce
  <2>2. \A r1, r2 \in reads' : r1.rev = r2.rev => r1 = r2
    BY <1>1 DEF ShellInv, LoadedOnce
  <2> QED
    BY <1>5, <2>1, <2>2 DEF LoadedOnce
<1> QED
  BY <1>6, <1>7, <1>8, <1>9, <1>10 DEF ShellInv

\* Every step of the shell and of the page keeps the invariant.
LEMMA ShellNextInv == ShellInv /\ [ShellNext]_shellVars => ShellInv'
<1> SUFFICES ASSUME ShellInv, [ShellNext]_shellVars PROVE ShellInv'
  OBVIOUS
<1>1. CASE Pick \/ OpenViewer \/ Emit \/ NativeAvatarInfo \/ Listen
  BY <1>1, ShellSteps
<1>2. CASE OpenedElsewhere \/ Reload \/ CloseWindow
  BY <1>2, PageSteps
<1>3. CASE Build
  BY <1>3, BuildStep
<1>4. ASSUME NEW rev \in Revisions, NEW readable \in BOOLEAN, ReadNativeAvatar(rev, readable)
      PROVE  ShellInv'
  BY <1>4, AnswerReadStep
<1>5. ASSUME NEW message \in inbox, LoadNativeAvatar(message) PROVE ShellInv'
  BY <1>5, LoadStep
<1>6. ASSUME NEW job \in reads, ReadArrives(job) PROVE ShellInv'
  BY <1>6, ArrivesStep
<1>7. ASSUME NEW rev \in parsing, Parsed(rev) PROVE ShellInv'
  BY <1>7, ParsedStep
<1>8. CASE UNCHANGED shellVars
  <2>1. UNCHANGED <<store, picking, window, viewer, inbox, reads, parsing, served>>
    BY <1>8 DEF shellVars
  <2>2. ShellTypeOK' /\ Ordered' /\ Told'
    BY <2>1 DEF ShellInv, ShellTypeOK, Ordered, Told, ReadRevs, ShownRevs
  <2> QED
    BY <2>1, <2>2, PageKept DEF ShellInv
<1> QED
  BY <1>1, <1>2, <1>3, <1>4, <1>5, <1>6, <1>7, <1>8 DEF ShellNext

\* However events, answers, reads, reloads and windows overtake each other, a
\* settled page has shown the file picked last, or could not read it, and loads no
\* file twice (pick_native_avatar, lib.rs 152-190; loadNativeAvatar, viewer.js).
THEOREM ArrivesAlways == ShellSpec => []PickedFileArrives
<1>1. ShellSpec => []ShellInv
  BY ShellInitInv, ShellNextInv, PTL DEF ShellSpec
<1> QED
  BY <1>1, ShellInvArrives, PTL

-----------------------------------------------------------------------------
(***************************************************************************)
(* The pose dataset, for any cap on its samples, any labels and any order  *)
(* of captures by hand and by the timer, exports and clears.               *)
(*                                                                         *)
(* SamplesInv adds that the numbers of the samples kept run up to the last *)
(* number given, so the cap only ever drops the oldest.                    *)
(***************************************************************************)

Samples ==
  [schema : {"sample"}, createdAt : Nat, seq : Nat, by : {"auto", "manual"}, license : {"0BSD"},
   localOnly : {TRUE}, rawMedia : {FALSE}, weight : {0, 1}]

CaptureType ==
  /\ capture \in [enabled : BOOLEAN, records : Seq(Samples), seq : Nat, last : Int]
  /\ instant \in Nat /\ captured \in [all : Nat, kept : Nat]

\* The numbers of the samples end with the last one given, in a row.
Numbered ==
  /\ capture.seq = captured.kept
  /\ Len(capture.records) = Min({MaxRecords, captured.kept})
  /\ \A i \in 1 .. Len(capture.records) :
       capture.records[i].seq = captured.kept - Len(capture.records) + i - 1

\* The box of a stick label holds the label and lies in the picture.
Boxed(label) ==
  LET box == StickBox(label) IN
  label.kind = "stick" /\ box # Invalid =>
    \A j \in 1 .. 2, axis \in {"x", "y"} :
      /\ label.points[j][axis] \in box.low[axis] .. box.high[axis]
      /\ box.low[axis] >= 0 /\ box.high[axis] <= 100

LabelsBoxed ==
  annotation.kind = "reviewed" /\ annotation.made # Invalid =>
    \A i \in DOMAIN annotation.made.labels : Boxed(annotation.made.labels[i])

SamplesInv == CaptureType /\ Numbered /\ LabelsBoxed

\* The lesser of two numbers ...
LEMMA MinOfTwo ==
  ASSUME NEW a \in Int, NEW b \in Int
  PROVE  Min({a, b}) = IF a <= b THEN a ELSE b
BY DEF Min

\* ... and the greater.
LEMMA MaxOfTwo ==
  ASSUME NEW a \in Int, NEW b \in Int
  PROVE  Max({a, b}) = IF a <= b THEN b ELSE a
BY DEF Max

\* A sample captured gets the next number; the oldest goes when there are too many.
LEMMA CaptureNumbers ==
  ASSUME CaptureType, Numbered, NEW by \in {"auto", "manual"}, NEW weight \in {1, Invalid},
         capture' = CaptureSample(by, weight), CountCapture
  PROVE  CaptureType' /\ Numbered'
<1> DEFINE record == CreateDatasetRecord(capture.seq, by, weight)
           all == Append(capture.records, record)
           n == Len(capture.records)
<1> USE DatasetsAssumption DEF DatasetsAssumption
<1>1. record \in Samples /\ ValidateDatasetRecord(record) /\ record.seq = captured.kept
  BY DEF CaptureType, Numbered, Samples, CreateDatasetRecord, ValidateDatasetRecord
<1>2. capture' = [enabled |-> capture.enabled, seq |-> capture.seq + 1,
                  last |-> IF by = "auto" THEN instant ELSE capture.last,
                  records |-> IF Len(all) > MaxRecords THEN Tail(all) ELSE all]
  BY <1>1 DEF CaptureType, CaptureSample
<1>3. n \in Nat /\ all \in Seq(Samples) /\ Len(all) = n + 1 /\ all[n + 1] = record
       /\ \A i \in 1 .. n : all[i] = capture.records[i]
  BY <1>1 DEF CaptureType
<1>4. n = IF MaxRecords <= captured.kept THEN MaxRecords ELSE captured.kept
  BY MinOfTwo DEF Numbered, CaptureType
<1>5. captured' = [all |-> captured.all + 1, kept |-> captured.kept + 1] /\ instant' = instant
  BY DEF CountCapture
<1>6. \A i \in 1 .. n + 1 : all[i].seq = captured.kept - n + i - 1
  <2>1. all[n + 1].seq = captured.kept - n + (n + 1) - 1
    BY <1>1, <1>3, <1>4 DEF CaptureType
  <2>2. \A i \in 1 .. n : all[i].seq = captured.kept - n + i - 1
    BY <1>3 DEF Numbered
  <2>3. n \in Nat
    BY <1>3
  <2> HIDE DEF record, all, n
  <2> SUFFICES ASSUME NEW i \in 1 .. n + 1 PROVE all[i].seq = captured.kept - n + i - 1
    OBVIOUS
  <2>4. CASE i = n + 1
    BY <2>1, <2>4
  <2>5. CASE i \in 1 .. n
    BY <2>2, <2>5
  <2> QED
    BY <2>3, <2>4, <2>5
<1>7. Min({MaxRecords, captured.kept + 1})
        = IF MaxRecords <= captured.kept + 1 THEN MaxRecords ELSE captured.kept + 1
  BY MinOfTwo DEF CaptureType
<1> HIDE DEF record, all, n
<1>8. CASE Len(all) > MaxRecords
  <2>1. n = MaxRecords /\ capture'.records = Tail(all)
    BY <1>2, <1>3, <1>4, <1>8 DEF CaptureType
  <2>2. Tail(all) \in Seq(Samples) /\ Len(Tail(all)) = n /\ \A i \in 1 .. n : Tail(all)[i] = all[i + 1]
    BY <1>3
  <2>3. ASSUME NEW i \in 1 .. n PROVE Tail(all)[i].seq = captured.kept + 1 - n + i - 1
    <3>1. n \in Nat /\ captured.kept \in Nat /\ i + 1 \in 1 .. n + 1
      BY <1>3 DEF CaptureType
    <3>2. all[i + 1].seq = captured.kept - n + (i + 1) - 1
      BY <1>6, <3>1
    <3>3. captured.kept - n + (i + 1) - 1 = captured.kept + 1 - n + i - 1
      BY <3>1
    <3>4. Tail(all)[i] = all[i + 1]
      BY <2>2
    <3> QED
      BY <3>2, <3>3, <3>4
  <2>4. CaptureType'
    BY <1>2, <1>5, <2>1, <2>2 DEF CaptureType
  <2>5. Len(capture'.records) = n /\ captured'.kept = captured.kept + 1 /\ n <= captured.kept + 1
    BY <1>4, <1>5, <2>1, <2>2 DEF CaptureType
  <2>6. Len(capture'.records) = Min({MaxRecords, captured'.kept})
    BY <1>4, <1>5, <1>7, <2>1, <2>5 DEF CaptureType
  <2>7. capture'.seq = captured'.kept /\ n \in Nat /\ captured.kept \in Nat
    BY <1>2, <1>3, <2>5 DEF CaptureType, Numbered
  <2>8. \A i \in 1 .. n : capture'.records[i].seq = captured'.kept - n + i - 1
    BY <2>1, <2>3, <2>5, <2>7
  <2>9. Numbered'
    BY <2>5, <2>6, <2>7, <2>8 DEF Numbered
  <2> QED
    BY <2>4, <2>9
<1>9. CASE ~(Len(all) > MaxRecords)
  <2>1. n + 1 <= MaxRecords /\ n = captured.kept /\ capture'.records = all
    BY <1>2, <1>3, <1>4, <1>9 DEF CaptureType
  <2> QED
    BY <1>2, <1>3, <1>5, <1>6, <1>7, <2>1 DEF CaptureType, Numbered
<1> QED
  BY <1>8, <1>9

\* What LabelValid asks of the points of a stick is what its box needs.
LEMMA ValidLabelIsBoxed ==
  ASSUME NEW label \in StickLabels \cup OtherLabels, LabelValid(label)
  PROVE  Boxed(label)
<1> SUFFICES ASSUME label.kind = "stick", StickBox(label) # Invalid
             PROVE  \A j \in 1 .. 2, axis \in {"x", "y"} :
                      /\ label.points[j][axis] \in StickBox(label).low[axis] .. StickBox(label).high[axis]
                      /\ StickBox(label).low[axis] >= 0 /\ StickBox(label).high[axis] <= 100
  BY DEF Boxed
<1>1. label \in StickLabels
  BY DEF OtherLabels
<1>2. PICK p \in Points, q \in Points : label.points = <<p>> \/ label.points = <<p, q>>
  BY <1>1 DEF StickLabels
<1>3. Len(label.points) # 1
  BY DEF StickBox
<1>4. label.points = <<p, q>>
  BY <1>2, <1>3
<1>5. p.x \in 0 .. 100 /\ p.y \in 0 .. 100 /\ q.x \in 0 .. 100 /\ q.y \in 0 .. 100
  BY <1>4 DEF LabelValid, PointsValid
<1>6. {label.points[i]["x"] : i \in 1 .. 2} = {p.x, q.x} /\ {label.points[i]["y"] : i \in 1 .. 2} = {p.y, q.y}
  <2>1. 1 .. 2 = {1, 2}
    OBVIOUS
  <2> QED
    BY <1>4, <2>1
<1> DEFINE Clip01(x) == Max({0, Min({100, x})})
<1>7. ASSUME NEW a \in 0 .. 100, NEW b \in 0 .. 100,
             NEW low, low = Clip01(Min({a, b}) - BoxPadding),
             NEW high, high = Clip01(Max({a, b}) + BoxPadding)
      PROVE  /\ low \in Int /\ high \in Int /\ 0 <= low /\ high <= 100
             /\ low <= a /\ low <= b /\ a <= high /\ b <= high
  <2>1. ASSUME NEW x \in Int
        PROVE  Clip01(x) = IF x < 0 THEN 0 ELSE IF x > 100 THEN 100 ELSE x
    BY MinOfTwo, MaxOfTwo
  <2>2. Min({a, b}) = (IF a <= b THEN a ELSE b) /\ Max({a, b}) = (IF a <= b THEN b ELSE a)
    BY MinOfTwo, MaxOfTwo
  <2> HIDE DEF Clip01
  <2> QED
    BY <1>7, <2>1, <2>2, DatasetsAssumption DEF DatasetsAssumption
<1> DEFINE lx == Clip01(Min({p.x, q.x}) - BoxPadding)
           ly == Clip01(Min({p.y, q.y}) - BoxPadding)
           hx == Clip01(Max({p.x, q.x}) + BoxPadding)
           hy == Clip01(Max({p.y, q.y}) + BoxPadding)
<1>8. StickBox(label) = [low |-> [x |-> lx, y |-> ly], high |-> [x |-> hx, y |-> hy]]
  BY <1>3, <1>6 DEF StickBox
<1> HIDE DEF Clip01
<1> USE DatasetsAssumption DEF DatasetsAssumption
<1>9. lx \in Int /\ hx \in Int /\ p.x \in lx .. hx /\ q.x \in lx .. hx /\ lx >= 0 /\ hx <= 100
  <2>1. /\ lx \in Int /\ hx \in Int /\ 0 <= lx /\ hx <= 100
        /\ lx <= p.x /\ lx <= q.x /\ p.x <= hx /\ q.x <= hx
    BY <1>5, <1>7
  <2> HIDE DEF lx, hx
  <2> QED
    BY <1>5, <2>1
<1>10. ly \in Int /\ hy \in Int /\ p.y \in ly .. hy /\ q.y \in ly .. hy /\ ly >= 0 /\ hy <= 100
  <2>1. /\ ly \in Int /\ hy \in Int /\ 0 <= ly /\ hy <= 100
        /\ ly <= p.y /\ ly <= q.y /\ p.y <= hy /\ q.y <= hy
    BY <1>5, <1>7
  <2> HIDE DEF ly, hy
  <2> QED
    BY <1>5, <2>1
<1> HIDE DEF lx, ly, hx, hy
<1>11. label.points[1] = p /\ label.points[2] = q /\ 1 .. 2 = {1, 2}
  BY <1>4
<1> QED
  BY <1>8, <1>9, <1>10, <1>11

\* Every step keeps the numbering, and a reviewed label is boxed.
LEMMA SamplesInvStep == SamplesInv /\ [DataNext]_dataVars => SamplesInv'
<1> SUFFICES ASSUME SamplesInv, [DataNext]_dataVars PROVE SamplesInv'
  OBVIOUS
<1> USE DatasetsAssumption DEF DatasetsAssumption
<1>0. Long \in Int
  BY DEF Long
<1>1. ASSUME NEW by \in {"auto", "manual"}, NEW weight \in {1, Invalid},
             capture' = CaptureSample(by, weight), CountCapture
      PROVE  SamplesInv'
  <2>1. CaptureType' /\ Numbered'
    BY <1>1, CaptureNumbers DEF SamplesInv
  <2> QED
    BY <1>1, <2>1 DEF SamplesInv, LabelsBoxed, CountCapture
<1>2. CASE SwitchCapture
  <2>1. CaptureType'
    BY <1>0, <1>2 DEF SwitchCapture, SamplesInv, CaptureType
  <2>2. Numbered'
    BY <1>2, MinOfTwo DEF SwitchCapture, SamplesInv, CaptureType, Numbered
  <2>3. LabelsBoxed'
    BY <1>2 DEF SwitchCapture, SamplesInv, LabelsBoxed
  <2> QED
    BY <2>1, <2>2, <2>3 DEF SamplesInv
<1>3. CASE ClearDataset
  <2>0. /\ capture' = [enabled |-> capture.enabled, records |-> <<>>, seq |-> 0, last |-> Long]
        /\ captured' = [all |-> captured.all, kept |-> 0] /\ instant' = instant
    BY <1>3 DEF ClearDataset, SamplesInv, CaptureType
  <2>1. CaptureType'
    <3>1. <<>> \in Seq(Samples)
      OBVIOUS
    <3> QED
      BY <1>0, <2>0, <3>1 DEF SamplesInv, CaptureType
  <2>2. Numbered'
    <3>1. /\ capture'.records = <<>> /\ capture'.seq = 0 /\ captured'.kept = 0
          /\ Min({MaxRecords, 0}) = 0
      BY <2>0, MinOfTwo
    <3> QED
      BY <3>1 DEF Numbered
  <2>3. LabelsBoxed'
    BY <1>3 DEF ClearDataset, SamplesInv, LabelsBoxed
  <2> QED
    BY <2>1, <2>2, <2>3 DEF SamplesInv
<1>4. CASE PassInstant
  <2>1. CaptureType'
    BY <1>4 DEF PassInstant, SamplesInv, CaptureType
  <2>2. Numbered'
    BY <1>4 DEF PassInstant, SamplesInv, Numbered
  <2>3. LabelsBoxed'
    BY <1>4 DEF PassInstant, SamplesInv, LabelsBoxed
  <2> QED
    BY <2>1, <2>2, <2>3 DEF SamplesInv
<1>5. ASSUME NEW sample, NEW labels, \A i \in DOMAIN labels : labels[i] \in StickLabels \cup OtherLabels,
             Annotate(sample, labels)
      PROVE  SamplesInv'
  <2>1. annotation'.made = CreateAnnotation(sample, labels)
    BY <1>5 DEF Annotate
  <2>2. ASSUME annotation'.made # Invalid, NEW i \in DOMAIN annotation'.made.labels
        PROVE  Boxed(annotation'.made.labels[i])
    <3>1. annotation'.made.labels = labels /\ LabelValid(labels[i])
      BY <2>1, <2>2 DEF CreateAnnotation
    <3> QED
      BY <1>5, <2>2, <3>1, ValidLabelIsBoxed
  <2> QED
    BY <1>5, <2>2 DEF Annotate, SamplesInv, CaptureType, Numbered, LabelsBoxed
<1>6. ASSUME UNCHANGED <<capture, instant, captured, annotation>> PROVE SamplesInv'
  BY <1>6 DEF SamplesInv, CaptureType, Numbered, LabelsBoxed
<1>7. CASE DataNext
  <2>1. CASE \E weight \in {1, Invalid} : AutoCapture(weight) \/ ManualCapture(weight)
    BY <1>1, <2>1 DEF AutoCapture, ManualCapture
  <2>2. ASSUME NEW sample, NEW l \in StickLabels \cup OtherLabels, Annotate(sample, <<l>>)
        PROVE  SamplesInv'
    BY <1>5, <2>2
  <2>3. ASSUME NEW sample, NEW l \in OtherLabels, NEW m \in OtherLabels, Annotate(sample, <<l, m>>)
        PROVE  SamplesInv'
    BY <1>5, <2>3
  <2>4. CASE (\E line \in {Motion, Metadata} \cup OtherLines : WriteLine(line)) \/ ReadRecording
    BY <1>6, <2>4 DEF WriteLine, ReadRecording
  <2> QED
    BY <1>2, <1>3, <1>4, <1>7, <2>1, <2>2, <2>3, <2>4 DEF DataNext
<1>8. CASE UNCHANGED dataVars
  BY <1>6, <1>8 DEF dataVars
<1> QED
  BY <1>7, <1>8

\* For any cap, any number of captures, switches, clears and labels, the samples kept are
\* the last ones captured with their numbers in a row, and the box of an accepted stick
\* label holds the label and lies in the picture (captureDatasetSample, deriveStickLabelBox).
THEOREM SamplesAlwaysKept == DataSpec => []SamplesAreKept
<1>1. DataInit => SamplesInv
  <2>1. Min({MaxRecords, 0}) = 0
    BY MinOfTwo, DatasetsAssumption DEF DatasetsAssumption
  <2> QED
    BY <2>1, DatasetsAssumption
    DEF DatasetsAssumption, DataInit, SamplesInv, CaptureType, Numbered, LabelsBoxed, NoAnnotation, Long
<1>2. SamplesInv => SamplesAreKept
  BY DEF SamplesInv, Numbered, LabelsBoxed, SamplesAreKept, Boxed
<1> QED
  BY <1>1, <1>2, SamplesInvStep, PTL DEF DataSpec

-----------------------------------------------------------------------------
(***************************************************************************)
(* The recordings, for any lines in any order and any limit of the viewer. *)
(*                                                                         *)
(* RecordingInv says that a line's place is its position and that the two  *)
(* readers read the lines there are; the rest is about the two readers:    *)
(* both go through the lines in order (PlacesAreFound), and without errors *)
(* and odd frames the lines they take are the same.                        *)
(***************************************************************************)

\* The lines of a recording, each at any place.
Lines == {[line EXCEPT !.at = n] : line \in {Motion, Metadata} \cup OtherLines, n \in Nat}

\* Until they are read, the lines are all there is; then there is what the readers make of them.
RecordingInv ==
  /\ recording.lines \in Seq(Lines)
  /\ \A k \in DOMAIN recording.lines : recording.lines[k].at = k
  /\ recording.read \in BOOLEAN
  /\ ~recording.read => recording = [lines |-> recording.lines, read |-> FALSE]
  /\ recording.read => /\ recording.replay = ParseRecordingJsonl(recording.lines)
                       /\ recording.viewer = ParseMotionJsonl(recording.lines)

\* The places found among the first lines: each of them, once, from the first to the last.
FoundUpTo(s, places, m) ==
  /\ s \in Seq(Nat)
  /\ \A j \in 1 .. Len(s) : s[j] \in places /\ s[j] \in 1 .. m
  /\ \A j, k \in 1 .. Len(s) : j < k => s[j] < s[k]
  /\ \A p \in 1 .. m : p \in places => \E j \in 1 .. Len(s) : s[j] = p

LEMMA FoundNext ==
  ASSUME NEW places, NEW s, NEW m \in Nat, FoundUpTo(s, places, m)
  PROVE  FoundUpTo(IF m + 1 \in places THEN Append(s, m + 1) ELSE s, places, m + 1)
<1>1. /\ s \in Seq(Nat) /\ Len(s) \in Nat
      /\ \A j \in 1 .. Len(s) : s[j] \in places /\ s[j] \in 1 .. m
      /\ \A j, k \in 1 .. Len(s) : j < k => s[j] < s[k]
      /\ \A p \in 1 .. m : p \in places => \E j \in 1 .. Len(s) : s[j] = p
  BY DEF FoundUpTo
<1>2. CASE m + 1 \notin places
  <2>1. \A p \in 1 .. m + 1 : p \in places => p \in 1 .. m
    BY <1>2
  <2>2. 1 .. m \subseteq 1 .. m + 1
    OBVIOUS
  <2> QED
    BY <1>1, <1>2, <2>1, <2>2 DEF FoundUpTo
<1>3. CASE m + 1 \in places
  <2> DEFINE t == Append(s, m + 1)
  <2>1. /\ t \in Seq(Nat) /\ Len(t) = Len(s) + 1
        /\ \A j \in 1 .. Len(s) : t[j] = s[j]
        /\ t[Len(s) + 1] = m + 1
    BY <1>1, AppendProperties
  <2> HIDE DEF t
  <2>2. ASSUME NEW j \in 1 .. Len(t) PROVE t[j] \in places /\ t[j] \in 1 .. m + 1
    <3>1. CASE j = Len(s) + 1
      BY <1>3, <2>1, <3>1
    <3>2. CASE j \in 1 .. Len(s)
      <4>1. t[j] = s[j] /\ s[j] \in places /\ s[j] \in 1 .. m
        BY <1>1, <2>1, <3>2
      <4> QED
        BY <4>1
    <3>3. j = Len(s) + 1 \/ j \in 1 .. Len(s)
      BY <1>1, <2>1
    <3> QED
      BY <3>1, <3>2, <3>3
  <2>3. ASSUME NEW j \in 1 .. Len(t), NEW k \in 1 .. Len(t), j < k PROVE t[j] < t[k]
    <3>0. j \in 1 .. Len(s)
      <4>1. Len(s) \in Nat /\ Len(t) = Len(s) + 1
        BY <1>1, <2>1
      <4> QED
        BY <2>3, <4>1
    <3>1. j \in 1 .. Len(s) /\ t[j] = s[j] /\ s[j] \in 1 .. m
      BY <1>1, <2>1, <3>0
    <3>2. CASE k = Len(s) + 1
      BY <2>1, <3>1, <3>2
    <3>3. CASE k \in 1 .. Len(s)
      <4>1. t[k] = s[k] /\ s[j] < s[k]
        BY <1>1, <2>1, <2>3, <3>1, <3>3
      <4> QED
        BY <3>1, <4>1
    <3>4. k = Len(s) + 1 \/ k \in 1 .. Len(s)
      BY <1>1, <2>1
    <3> QED
      BY <3>2, <3>3, <3>4
  <2>4. ASSUME NEW p \in 1 .. m + 1, p \in places PROVE \E j \in 1 .. Len(t) : t[j] = p
    <3>1. CASE p = m + 1
      <4>1. Len(s) + 1 \in 1 .. Len(t)
        BY <1>1, <2>1
      <4> QED
        BY <2>1, <3>1, <4>1
    <3>2. CASE p \in 1 .. m
      <4>1. PICK j \in 1 .. Len(s) : s[j] = p
        BY <1>1, <2>4, <3>2
      <4>2. j \in 1 .. Len(t) /\ t[j] = p
        BY <1>1, <2>1, <4>1
      <4> QED
        BY <4>2
    <3> QED
      BY <2>4, <3>1, <3>2
  <2>5. FoundUpTo(t, places, m + 1)
    BY <2>1, <2>2, <2>3, <2>4 DEF FoundUpTo
  <2> QED
    BY <1>3, <2>5 DEF t
<1> QED
  BY <1>2, <1>3

\* Places are found line by line.
LEMMA PlacesAreFound ==
  ASSUME NEW places, NEW lines \in Seq(Lines)
  PROVE  FoundUpTo(PlacesOf(places, lines), places, Len(lines))
<1> DEFINE Built(f, m) == f = [n \in 0 .. m |->
                                 IF n = 0 THEN <<>> ELSE IF n \in places THEN Append(f[n - 1], n) ELSE f[n - 1]]
           built == {m \in Nat : \E f : Built(f, m)}
<1>1. 0 \in built
  <2> DEFINE f == [n \in 0 .. 0 |-> <<>>]
  <2>1. \A n \in 0 .. 0 : n = 0
    OBVIOUS
  <2>2. Built(f, 0) /\ f[0] = <<>>
    BY <2>1
  <2> QED
    BY <2>2
<1>2. ASSUME NEW m \in Nat, m \in built PROVE m + 1 \in built
  <2>1. PICK f : Built(f, m)
    BY <1>2
  <2> DEFINE g == [n \in 0 .. m + 1 |->
                     IF n = m + 1 THEN IF n \in places THEN Append(f[m], m + 1) ELSE f[m] ELSE f[n]]
  <2>2. ASSUME NEW n \in 0 .. m + 1
        PROVE  g[n] = IF n = 0 THEN <<>> ELSE IF n \in places THEN Append(g[n - 1], n) ELSE g[n - 1]
    <3>1. CASE n = m + 1
      <4>1. g[n] = IF n \in places THEN Append(f[m], n) ELSE f[m]
        BY <3>1
      <4>2. g[m] = f[m] /\ n # 0 /\ n - 1 = m
        BY <3>1
      <4> QED
        BY <4>1, <4>2
    <3>2. CASE n = 0
      <4>1. g[0] = f[0] /\ 0 \in 0 .. m
        OBVIOUS
      <4>2. f[0] = <<>>
        BY <2>1, <4>1
      <4> QED
        BY <3>2, <4>1, <4>2
    <3>3. CASE n # 0 /\ n # m + 1
      <4>1. n \in 0 .. m /\ n - 1 \in 0 .. m + 1 /\ n - 1 # m + 1
        BY <2>2, <3>3
      <4>2. g[n] = f[n] /\ g[n - 1] = f[n - 1]
        BY <3>3, <4>1
      <4>3. f[n] = IF n \in places THEN Append(f[n - 1], n) ELSE f[n - 1]
        BY <2>1, <3>3, <4>1
      <4> QED
        BY <3>3, <4>2, <4>3
    <3> QED
      BY <3>1, <3>2, <3>3
  <2>3. g = [n \in 0 .. m + 1 |-> g[n]]
    OBVIOUS
  <2> HIDE DEF g
  <2>4. Built(g, m + 1)
    BY <2>2, <2>3
  <2>5. m + 1 \in Nat
    OBVIOUS
  <2> QED
    BY <2>4, <2>5
<1>3. Len(lines) \in built
  <2>1. Len(lines) \in Nat
    OBVIOUS
  <2> HIDE DEF built
  <2>2. \A n \in Nat : n \in built => n + 1 \in built
    BY <1>2
  <2> QED
    BY <1>1, <2>1, <2>2, SetInduction
<1> DEFINE found == CHOOSE f : Built(f, Len(lines))
           kept == {m \in Nat : m <= Len(lines) => FoundUpTo(found[m], places, m)}
<1>4. PlacesOf(places, lines) = found[Len(lines)]
  BY DEF PlacesOf
<1>5. Built(found, Len(lines))
  <2>1. \E f : Built(f, Len(lines))
    BY <1>3
  <2> HIDE DEF Built
  <2> QED
    BY <2>1
<1> HIDE DEF found
<1>6. Len(lines) \in Nat /\ 0 \in 0 .. Len(lines)
  OBVIOUS
<1>7. 0 \in kept
  <2>1. found[0] = <<>>
    BY <1>5, <1>6
  <2>2. FoundUpTo(<<>>, places, 0)
    BY DEF FoundUpTo
  <2> QED
    BY <2>1, <2>2
<1>8. ASSUME NEW m \in Nat, m \in kept PROVE m + 1 \in kept
  <2> SUFFICES ASSUME m + 1 <= Len(lines) PROVE FoundUpTo(found[m + 1], places, m + 1)
    OBVIOUS
  <2>1. FoundUpTo(found[m], places, m)
    BY <1>6, <1>8
  <2>2. m + 1 \in 0 .. Len(lines) /\ m + 1 # 0 /\ (m + 1) - 1 = m
    BY <1>6
  <2>3. found[m + 1] = IF m + 1 \in places THEN Append(found[m], m + 1) ELSE found[m]
    BY <1>5, <2>2
  <2> QED
    BY <2>1, <2>3, FoundNext
<1>9. Len(lines) \in kept
  <2> HIDE DEF kept
  <2>1. \A n \in Nat : n \in kept => n + 1 \in kept
    BY <1>8
  <2> QED
    BY <1>6, <1>7, <2>1, SetInduction
<1> QED
  BY <1>4, <1>6, <1>9

\* The lines of which the replay page makes a frame, and those the viewer tries.
FilledLines(lines) == {i \in DOMAIN lines : lines[i].text # "blank"}
ValidLines(lines) == {i \in FilledLines(lines) : lines[i].text = "json" /\ ValidateRecordingRecord(lines[i])}
FaceLines(lines) == {i \in ValidLines(lines) : lines[i].schema = "motion" /\ lines[i].face # "none"}
TriedLines(lines) ==
  {i \in DOMAIN lines : lines[i].text # "blank" /\ (lines[i].text = "json" => lines[i].schema # "metadata")}
FrameOf(l) == [face |-> l.face, pose |-> l.pose, at |-> l.at]

\* What the replay page makes of a line with a face.
LEMMA FaceIsWhole ==
  ASSUME NEW lines, NEW p \in FaceLines(lines)
  PROVE  /\ p \in TriedLines(lines) /\ lines[p].text = "json" /\ lines[p].schema = "motion"
         /\ lines[p].t = "number" /\ lines[p].seq = "number"
         /\ lines[p].face = "whole" /\ lines[p].pose \in {"none", "empty", "whole"}
BY DEF FaceLines, ValidLines, FilledLines, TriedLines, ValidateRecordingRecord, ValidArray

\* The viewer makes the same of it, if it can read it.
LEMMA SameFrame ==
  ASSUME NEW lines \in Seq(Lines), \A k \in DOMAIN lines : lines[k].at = k, NEW p \in FaceLines(lines)
  PROVE  /\ lines[p].pose # "empty" =>
              ParseMotionRecord(lines[p]) = FrameOf(lines[p]) /\ FrameOf(lines[p]) # Invalid
         /\ lines[p].pose = "empty" => ParseMotionRecord(lines[p]) = Invalid
<1>1. /\ lines[p].schema = "motion" /\ lines[p].t = "number" /\ lines[p].seq = "number"
      /\ lines[p].face = "whole" /\ lines[p].pose \in {"none", "empty", "whole"}
  BY FaceIsWhole
<1>2. lines[p].at \in Nat
  <2>1. p \in DOMAIN lines
    BY DEF FaceLines, ValidLines, FilledLines
  <2>2. p \in Nat
    BY <2>1
  <2> QED
    BY <2>1, <2>2
<1>3. Invalid \notin {"whole", "none"}
  BY DatasetsAssumption DEF DatasetsAssumption
<1>4. ReadArray(lines[p].face) = "whole"
  BY <1>1 DEF ReadArray
<1>5. CASE lines[p].pose # "empty"
  <2>1. (IF lines[p].pose = "none" THEN "none" ELSE ReadArray(lines[p].pose)) = lines[p].pose
    BY <1>1, <1>5 DEF ReadArray
  <2>2. ParseMotionRecord(lines[p]) = FrameOf(lines[p])
    BY <1>1, <1>3, <1>4, <1>5, <2>1 DEF ParseMotionRecord, FrameOf
  <2>3. FrameOf(lines[p]) \in [face : {"whole"}, pose : {"whole", "none"}, at : Nat]
    BY <1>1, <1>2, <1>5 DEF FrameOf
  <2>4. FrameOf(lines[p]) # Invalid
    BY <2>3, DatasetsAssumption DEF DatasetsAssumption
  <2> QED
    BY <1>5, <2>2, <2>4
<1>6. CASE lines[p].pose = "empty"
  BY <1>1, <1>3, <1>4, <1>6 DEF ParseMotionRecord, ReadArray
<1> QED
  BY <1>5, <1>6

\* What the replay page reads, ...
LEMMA ReplayReads ==
  ASSUME NEW lines \in Seq(Lines)
  PROVE  LET faced == PlacesOf(FaceLines(lines), lines)
             answer == ParseRecordingJsonl(lines)
         IN  /\ answer.errors = Cardinality(FilledLines(lines)) - Cardinality(ValidLines(lines))
             /\ answer.frames = [j \in 1 .. Len(faced) |-> FrameOf(lines[faced[j]])]
<1>1. DOMAIN PlacesOf(FaceLines(lines), lines) = 1 .. Len(PlacesOf(FaceLines(lines), lines))
  BY PlacesAreFound DEF FoundUpTo
<1> QED
  BY <1>1 DEF ParseRecordingJsonl, FilledLines, ValidLines, FaceLines, FrameOf

\* ... and what the viewer reads.
ViewerFrames(lines) ==
  LET tried == PlacesOf(TriedLines(lines), lines)
  IN  [j \in 1 .. Min({MaxMotionFrames, Len(tried)}) |->
         IF lines[tried[j]].text = "torn" THEN Invalid ELSE ParseMotionRecord(lines[tried[j]])]

LEMMA ViewerReads ==
  ASSUME NEW lines
  PROVE  ParseMotionJsonl(lines) =
           IF PlacesOf(TriedLines(lines), lines) = <<>> \/ Invalid \in Range(ViewerFrames(lines))
           THEN Invalid ELSE ViewerFrames(lines)
BY DEF ParseMotionJsonl, TriedLines, ViewerFrames

\* A file without errors and without odd frames is read alike.
LEMMA CleanFileAlike ==
  ASSUME NEW lines \in Seq(Lines), \A k \in DOMAIN lines : lines[k].at = k,
         ParseRecordingJsonl(lines).errors = 0,
         \A i \in DOMAIN lines : lines[i].schema = "motion" => lines[i].face # "none" /\ lines[i].pose # "empty"
  PROVE  LET replayed == ParseRecordingJsonl(lines).frames
         IN  ParseMotionJsonl(lines) = IF replayed = <<>> THEN Invalid
                                       ELSE SubSeq(replayed, 1, Min({MaxMotionFrames, Len(replayed)}))
<1> DEFINE faced == PlacesOf(FaceLines(lines), lines)
           n == Min({MaxMotionFrames, Len(faced)})
           replayed == ParseRecordingJsonl(lines).frames
<1>1. FilledLines(lines) = ValidLines(lines)
  <2>1. IsFiniteSet(FilledLines(lines))
    <3>1. DOMAIN lines = 1 .. Len(lines) /\ Len(lines) \in Int
      OBVIOUS
    <3>2. IsFiniteSet(1 .. Len(lines))
      BY <3>1, FS_Interval
    <3>3. FilledLines(lines) \subseteq 1 .. Len(lines)
      BY <3>1 DEF FilledLines
    <3> QED
      BY <3>2, <3>3, FS_Subset
  <2>2. ValidLines(lines) \subseteq FilledLines(lines)
    BY DEF ValidLines
  <2>3. /\ IsFiniteSet(ValidLines(lines))
        /\ Cardinality(FilledLines(lines)) = Cardinality(ValidLines(lines)) =>
             FilledLines(lines) = ValidLines(lines)
    BY <2>1, <2>2, FS_Subset
  <2>4. Cardinality(FilledLines(lines)) \in Nat /\ Cardinality(ValidLines(lines)) \in Nat
    BY <2>1, <2>3, FS_CardinalityType
  <2>5. Cardinality(FilledLines(lines)) - Cardinality(ValidLines(lines)) = 0
    BY ReplayReads
  <2> QED
    BY <2>3, <2>4, <2>5
<1>2. TriedLines(lines) = FaceLines(lines)
  <2>1. ASSUME NEW i \in TriedLines(lines) PROVE i \in FaceLines(lines)
    <3>1. i \in DOMAIN lines /\ i \in ValidLines(lines)
      <4>1. i \in DOMAIN lines /\ lines[i].text # "blank"
        BY <2>1 DEF TriedLines
      <4>2. i \in FilledLines(lines)
        BY <4>1 DEF FilledLines
      <4> QED
        BY <1>1, <4>1, <4>2
    <3>2. lines[i].text = "json" /\ lines[i].schema \in {"metadata", "motion"}
      BY <3>1 DEF ValidLines, ValidateRecordingRecord
    <3>3. lines[i].schema = "motion"
      BY <2>1, <3>2 DEF TriedLines
    <3> QED
      BY <3>1, <3>3 DEF FaceLines
  <2>2. \A i \in FaceLines(lines) : i \in TriedLines(lines)
    BY FaceIsWhole
  <2> QED
    BY <2>1, <2>2
<1>3. /\ faced \in Seq(Nat) /\ Len(faced) \in Nat
      /\ \A j \in 1 .. Len(faced) : faced[j] \in FaceLines(lines)
  BY PlacesAreFound DEF FoundUpTo
<1> HIDE DEF faced
<1>4. /\ n \in Nat /\ n <= Len(faced) /\ 1 .. n \subseteq 1 .. Len(faced)
      /\ faced # <<>> => n >= 1
  <2>1. MaxMotionFrames \in Nat \ {0}
    BY DatasetsAssumption DEF DatasetsAssumption
  <2>2. n = IF MaxMotionFrames <= Len(faced) THEN MaxMotionFrames ELSE Len(faced)
    <3>1. MaxMotionFrames \in Int /\ Len(faced) \in Int
      BY <1>3, <2>1
    <3> QED
      BY <3>1, MinOfTwo
  <2>3. faced # <<>> => Len(faced) # 0
    BY <1>3
  <2> HIDE DEF n
  <2> QED
    BY <1>3, <2>1, <2>2, <2>3
<1>5. ASSUME NEW j \in 1 .. Len(faced)
      PROVE  /\ lines[faced[j]].text # "torn"
             /\ ParseMotionRecord(lines[faced[j]]) = FrameOf(lines[faced[j]])
             /\ FrameOf(lines[faced[j]]) # Invalid
  <2>1. faced[j] \in FaceLines(lines)
    BY <1>3
  <2>2. lines[faced[j]].text = "json" /\ lines[faced[j]].schema = "motion"
    BY <2>1, FaceIsWhole
  <2>3. faced[j] \in DOMAIN lines
    BY <2>1 DEF FaceLines, ValidLines, FilledLines
  <2>4. lines[faced[j]].pose # "empty"
    BY <2>2, <2>3
  <2> QED
    BY <2>1, <2>2, <2>4, SameFrame
<1>6. replayed = [j \in 1 .. Len(faced) |-> FrameOf(lines[faced[j]])]
  BY ReplayReads DEF faced
<1>7. ViewerFrames(lines) = [j \in 1 .. n |-> FrameOf(lines[faced[j]])]
  <2>1. ViewerFrames(lines) = [j \in 1 .. n |-> IF lines[faced[j]].text = "torn" THEN Invalid
                                                ELSE ParseMotionRecord(lines[faced[j]])]
    BY <1>2 DEF ViewerFrames, faced
  <2>2. \A j \in 1 .. n : j \in 1 .. Len(faced)
    BY <1>4
  <2> HIDE DEF n
  <2> QED
    BY <1>5, <2>1, <2>2
<1>8. Invalid \notin Range(ViewerFrames(lines))
  <2>1. \A j \in 1 .. n : j \in 1 .. Len(faced)
    BY <1>4
  <2> HIDE DEF n
  <2> QED
    BY <1>5, <1>7, <2>1 DEF Range
<1>9. CASE faced = <<>>
  <2>1. replayed = <<>>
    BY <1>6, <1>9
  <2>2. ParseMotionJsonl(lines) = Invalid
    BY <1>2, <1>9, ViewerReads DEF faced
  <2> QED
    BY <2>1, <2>2
<1>10. CASE faced # <<>>
  <2> HIDE DEF replayed
  <2>1. Len(replayed) = Len(faced) /\ replayed # <<>>
    <3>1. Len(faced) # 0
      BY <1>3, <1>10
    <3> QED
      BY <1>3, <1>6, <3>1
  <2>2. SubSeq(replayed, 1, n) = [j \in 1 .. n |-> replayed[j]]
    BY <1>4 
  <2>3. SubSeq(replayed, 1, n) = ViewerFrames(lines)
    <3>1. \A j \in 1 .. n : replayed[j] = FrameOf(lines[faced[j]])
      BY <1>4, <1>6
    <3> HIDE DEF n
    <3> QED
      BY <1>7, <2>2, <3>1
  <2>4. ParseMotionJsonl(lines) = ViewerFrames(lines)
    BY <1>2, <1>8, <1>10, ViewerReads DEF faced
  <2> QED
    BY <2>1, <2>3, <2>4 DEF replayed
<1> QED
  BY <1>9, <1>10

\* What the viewer plays of a file holds what the replay page plays up to its last line.
LEMMA ViewerPlaysAll ==
  ASSUME NEW lines \in Seq(Lines), \A k \in DOMAIN lines : lines[k].at = k,
         ParseMotionJsonl(lines) # Invalid,
         NEW i \in DOMAIN ParseRecordingJsonl(lines).frames,
         ParseRecordingJsonl(lines).frames[i].at <= Last(ParseMotionJsonl(lines)).at
  PROVE  ParseRecordingJsonl(lines).frames[i] \in Range(ParseMotionJsonl(lines))
<1> DEFINE faced == PlacesOf(FaceLines(lines), lines)
           tried == PlacesOf(TriedLines(lines), lines)
           n == Min({MaxMotionFrames, Len(tried)})
           played == ViewerFrames(lines)
           p == faced[i]
<1>1. /\ ParseMotionJsonl(lines) = played /\ tried # <<>> /\ Invalid \notin Range(played)
  BY ViewerReads
<1>2. ParseRecordingJsonl(lines).frames = [j \in 1 .. Len(faced) |-> FrameOf(lines[faced[j]])]
  BY ReplayReads
<1>3. i \in 1 .. Len(faced) /\ ParseRecordingJsonl(lines).frames[i] = FrameOf(lines[p])
  BY <1>2
<1>4. p \in FaceLines(lines) /\ p \in DOMAIN lines /\ p \in Nat /\ p \in 1 .. Len(lines)
  <2>1. FoundUpTo(faced, FaceLines(lines), Len(lines))
    BY PlacesAreFound
  <2> HIDE DEF faced
  <2>2. p \in FaceLines(lines) /\ p \in 1 .. Len(lines)
    BY <1>3, <2>1 DEF FoundUpTo
  <2> QED
    BY <2>2
<1>5. FrameOf(lines[p]).at = p /\ p <= Last(played).at
  <2>1. FrameOf(lines[p]).at = p
    BY <1>4 DEF FrameOf
  <2> QED
    BY <1>1, <1>3, <2>1
<1>6. p \in TriedLines(lines) /\ lines[p].text = "json"
  BY <1>4, FaceIsWhole
<1> HIDE DEF faced, p, played
<1>7. /\ tried \in Seq(Nat) /\ Len(tried) \in Nat
      /\ \A j \in 1 .. Len(tried) : tried[j] \in DOMAIN lines /\ tried[j] \in Nat
      /\ \A j, k \in 1 .. Len(tried) : j < k => tried[j] < tried[k]
      /\ \E j \in 1 .. Len(tried) : tried[j] = p
  <2>1. FoundUpTo(tried, TriedLines(lines), Len(lines))
    BY PlacesAreFound
  <2> HIDE DEF tried
  <2>2. tried \in Seq(Nat) /\ Len(tried) \in Nat
    BY <2>1 DEF FoundUpTo
  <2>3. \A j \in 1 .. Len(tried) : tried[j] \in 1 .. Len(lines)
    BY <2>1 DEF FoundUpTo
  <2>4. \A j \in 1 .. Len(tried) : tried[j] \in DOMAIN lines /\ tried[j] \in Nat
    BY <2>3
  <2>5. /\ \A j, k \in 1 .. Len(tried) : j < k => tried[j] < tried[k]
        /\ \E j \in 1 .. Len(tried) : tried[j] = p
    BY <1>4, <1>6, <2>1 DEF FoundUpTo
  <2> QED
    BY <2>2, <2>4, <2>5
<1>8. PICK j \in 1 .. Len(tried) : tried[j] = p
  BY <1>7
<1>9. played = [k \in 1 .. n |-> IF lines[tried[k]].text = "torn" THEN Invalid
                                  ELSE ParseMotionRecord(lines[tried[k]])]
  BY DEF played, ViewerFrames
<1> HIDE DEF tried
<1>10. n \in Nat \ {0} /\ n <= Len(tried)
  <2>1. MaxMotionFrames \in Nat \ {0}
    BY DatasetsAssumption DEF DatasetsAssumption
  <2>2. n = IF MaxMotionFrames <= Len(tried) THEN MaxMotionFrames ELSE Len(tried)
    <3>1. MaxMotionFrames \in Int /\ Len(tried) \in Int
      BY <1>7, <2>1
    <3> QED
      BY <3>1, MinOfTwo
  <2> HIDE DEF n
  <2>3. Len(tried) # 0
    BY <1>1, <1>7
  <2> QED
    BY <1>7, <2>1, <2>2, <2>3
<1> HIDE DEF n
<1>11. ASSUME NEW k \in 1 .. n PROVE played[k] = ParseMotionRecord(lines[tried[k]]) /\ played[k] # Invalid
  BY <1>1, <1>9 DEF Range
<1>12. Last(played).at = tried[n]
  <2>1. n \in 1 .. n /\ n \in 1 .. Len(tried)
    BY <1>7, <1>10
  <2>2. Len(played) = n
    BY <1>9, <1>10
  <2>3. Last(played) = ParseMotionRecord(lines[tried[n]]) /\ ParseMotionRecord(lines[tried[n]]) # Invalid
    BY <1>11, <2>1, <2>2 DEF Last
  <2>4. ParseMotionRecord(lines[tried[n]]).at = lines[tried[n]].at
    BY <2>3 DEF ParseMotionRecord
  <2> QED
    BY <1>7, <2>1, <2>3, <2>4
<1>13. j \in 1 .. n
  <2>1. n \in 1 .. Len(tried)
    BY <1>7, <1>10
  <2>2. CASE n < j
    <3>1. tried[n] < tried[j]
      BY <1>7, <1>8, <2>1, <2>2
    <3>2. tried[n] \in Nat /\ p \in Nat
      BY <1>4, <1>7, <2>1
    <3> QED
      BY <1>5, <1>8, <1>12, <3>1, <3>2
  <2> QED
    BY <1>7, <1>8, <1>10, <2>2
<1>14. played[j] = FrameOf(lines[p])
  <2>1. played[j] = ParseMotionRecord(lines[p]) /\ played[j] # Invalid
    BY <1>8, <1>11, <1>13
  <2> QED
    BY <1>4, <2>1, SameFrame
<1> QED
  BY <1>1, <1>3, <1>9, <1>13, <1>14 DEF Range

LEMMA RecordingInvAgree == RecordingInv => ReadersAgree
<1> SUFFICES ASSUME RecordingInv, recording.read PROVE ReadersAgree
  BY DEF ReadersAgree
<1> DEFINE lines == recording.lines
           odd == \E i \in DOMAIN lines :
                    lines[i].schema = "motion" /\ (lines[i].face = "none" \/ lines[i].pose = "empty")
<1>1. /\ lines \in Seq(Lines) /\ \A k \in DOMAIN lines : lines[k].at = k
      /\ recording.replay = ParseRecordingJsonl(lines)
      /\ recording.viewer = ParseMotionJsonl(lines)
  BY DEF RecordingInv
<1>2. recording.replay.errors = 0 /\ ~odd =>
        recording.viewer = IF recording.replay.frames = <<>> THEN Invalid
                           ELSE SubSeq(recording.replay.frames, 1,
                                       Min({MaxMotionFrames, Len(recording.replay.frames)}))
  <2> HIDE DEF lines
  <2> QED
    BY <1>1, CleanFileAlike
<1>3. recording.viewer # Invalid =>
        \A i \in DOMAIN recording.replay.frames :
          recording.replay.frames[i].at <= Last(recording.viewer).at =>
            recording.replay.frames[i] \in Range(recording.viewer)
  <2> HIDE DEF lines
  <2> QED
    BY <1>1, ViewerPlaysAll
<1> QED
  BY <1>2, <1>3 DEF ReadersAgree

\* A line is written at its place, whatever it holds.
LEMMA WrittenLine ==
  ASSUME NEW line \in {Motion, Metadata} \cup OtherLines, NEW n \in Nat
  PROVE  [line EXCEPT !.at = n] \in Lines /\ [line EXCEPT !.at = n].at = n
<1>1. line = [x \in DOMAIN line |-> line[x]] /\ "at" \in DOMAIN line
  BY DEF Metadata, OtherLines, Motion
<1>2. [line EXCEPT !.at = n].at = n
  BY <1>1
<1> QED
  BY <1>2 DEF Lines

LEMMA RecordingInvStep == RecordingInv /\ [DataNext]_dataVars => RecordingInv'
<1> SUFFICES ASSUME RecordingInv, [DataNext]_dataVars PROVE RecordingInv'
  OBVIOUS
<1>1. ASSUME NEW line \in {Motion, Metadata} \cup OtherLines, WriteLine(line) PROVE RecordingInv'
  <2> DEFINE lines == recording.lines
             added == [line EXCEPT !.at = Len(lines) + 1]
  <2>1. lines \in Seq(Lines) /\ Len(lines) \in Nat /\ \A k \in DOMAIN lines : lines[k].at = k
    BY DEF RecordingInv
  <2>2. added \in Lines /\ added.at = Len(lines) + 1
    <3>1. Len(lines) + 1 \in Nat
      BY <2>1
    <3> HIDE DEF lines
    <3> QED
      BY <1>1, <3>1, WrittenLine
  <2>3. recording' = [lines |-> Append(lines, added), read |-> FALSE]
    BY <1>1 DEF WriteLine, RecordingInv
  <2> HIDE DEF lines, added
  <2>4. /\ Append(lines, added) \in Seq(Lines) /\ Len(Append(lines, added)) = Len(lines) + 1
        /\ \A k \in 1 .. Len(lines) : Append(lines, added)[k] = lines[k]
        /\ Append(lines, added)[Len(lines) + 1] = added
    BY <2>1, <2>2, AppendProperties
  <2>5. ASSUME NEW k \in DOMAIN Append(lines, added) PROVE Append(lines, added)[k].at = k
    <3>1. k = Len(lines) + 1 \/ (k \in 1 .. Len(lines) /\ k \in DOMAIN lines)
      BY <2>1, <2>4
    <3> QED
      BY <2>1, <2>2, <2>4, <3>1
  <2> QED
    BY <2>3, <2>4, <2>5 DEF RecordingInv
<1>2. CASE ReadRecording
  BY <1>2 DEF ReadRecording, RecordingInv
<1>3. ASSUME UNCHANGED recording PROVE RecordingInv'
  BY <1>3 DEF RecordingInv
<1>4. CASE DataNext
  <2>1. CASE \/ \E weight \in {1, Invalid} : AutoCapture(weight) \/ ManualCapture(weight)
             \/ SwitchCapture \/ ClearDataset \/ PassInstant
    BY <1>3, <2>1 DEF AutoCapture, ManualCapture, CountCapture, SwitchCapture, ClearDataset, PassInstant
  <2>2. CASE \/ \E label \in StickLabels \cup OtherLabels : Annotate(capture.records[1], <<label>>)
             \/ \E label \in OtherLabels :
                  Annotate([capture.records[1] EXCEPT !.rawMedia = TRUE], <<label>>)
             \/ \E l, m \in OtherLabels : Annotate(capture.records[1], <<l, m>>)
    BY <1>3, <2>2 DEF Annotate
  <2>3. CASE (\E line \in {Motion, Metadata} \cup OtherLines : WriteLine(line)) \/ ReadRecording
    BY <1>1, <1>2, <2>3
  <2> QED
    BY <1>4, <2>1, <2>2, <2>3 DEF DataNext
<1>5. CASE UNCHANGED dataVars
  BY <1>3, <1>5 DEF dataVars
<1> QED
  BY <1>4, <1>5

\* For any lines in any order and any limit, the replay page and the viewer show the same of a
\* recording: of a clean one the same frames up to the viewer's limit, and of another the
\* viewer, if it takes it, leaves out none of the replay page's (parseRecordingJsonl,
\* parseMotionJsonl).
THEOREM ReadersAlwaysAgree == DataSpec => []ReadersAgree
<1>1. DataInit => RecordingInv
  BY DEF DataInit, RecordingInv
<1> QED
  BY <1>1, RecordingInvAgree, RecordingInvStep, PTL DEF DataSpec

-----------------------------------------------------------------------------
(***************************************************************************)
(* The expression maps, for any avatars, any maps of the user and any      *)
(* order of avatars shown, edits, timers, imports and resets.              *)
(*                                                                         *)
(* MapInv adds what is in the editor: as long as the user has given no map *)
(* of their own, the text is the map in force, so a timer that is still    *)
(* waiting when another avatar is shown applies that avatar's map again.   *)
(***************************************************************************)

\* The least of a set of naturals is one of them.
LEMMA MinOfNaturals ==
  ASSUME NEW S \in SUBSET Nat, S # {}
  PROVE  Min(S) \in S /\ \A m \in S : Min(S) <= m
<1>1. PICK n \in S : \A m \in S : n <= m
  BY LeastNatural
<1> QED
  BY <1>1 DEF Min

Single(map) == \A t, u \in map : t.out = u.out => t = u
Fitting(map, names) == IsFiniteSet(map) /\ Outs(map) \subseteq names /\ Single(map)

MapInv ==
  /\ body \in {"bot", "vrm", "inochi"}
  /\ ~own => editor = expressions /\ Normalize(expressions) = expressions
  /\ body # "bot" /\ ~own /\ (body = "vrm" => available # {}) => Fitting(expressions, available)

\* Normalising drops targets, and nothing twice.
LEMMA NormalMap ==
  ASSUME NEW map
  PROVE  /\ Normalize(Normalize(map)) = Normalize(map)
         /\ \A names : Fitting(map, names) => Fitting(Normalize(map), names)
<1>1. Normalize(map) \subseteq map /\ Normalize(Normalize(map)) = Normalize(map)
  BY DEF Normalize
<1>2. IsFiniteSet(map) => IsFiniteSet(Normalize(map))
  BY <1>1, FS_Subset
<1> QED
  BY <1>1, <1>2 DEF Fitting, Outs, Single

\* Five targets are finitely many.
LEMMA FiveAreFinite ==
  ASSUME NEW a, NEW b, NEW c, NEW d, NEW e
  PROVE  IsFiniteSet({a, b, c, d, e})
<1>1. IsFiniteSet({} \cup {a})
  BY FS_EmptySet, FS_AddElement
<1>2. IsFiniteSet({} \cup {a} \cup {b})
  BY <1>1, FS_AddElement
<1>3. IsFiniteSet({} \cup {a} \cup {b} \cup {c})
  BY <1>2, FS_AddElement
<1>4. IsFiniteSet({} \cup {a} \cup {b} \cup {c} \cup {d})
  BY <1>3, FS_AddElement
<1>5. IsFiniteSet({} \cup {a} \cup {b} \cup {c} \cup {d} \cup {e})
  BY <1>4, FS_AddElement
<1>6. {} \cup {a} \cup {b} \cup {c} \cup {d} \cup {e} = {a, b, c, d, e}
  OBVIOUS
<1> QED
  BY <1>5, <1>6

\* The map made for a VRM avatar that has expressions fits it.
LEMMA VrmMapFits ==
  ASSUME NEW names, names # {}
  PROVE  Fitting(VrmMap(names), names)
<1>1. Fitting(CreatePerfectSyncMap(names), names)
  <2> DEFINE every == {Target(<<"jawOpen">>, {<<"jawOpen">>}),
                       Target(<<"eyeBlinkLeft">>, {<<"eyeBlinkLeft">>}),
                       Target(<<"eyeBlinkRight">>, {<<"eyeBlinkRight">>}),
                       Target(<<"mouthSmileLeft">>, {<<"mouthSmileLeft">>}),
                       Target(<<"mouthSmileLeft">>, {<<"mouthSmileLeft">>})}
  <2>1. CreatePerfectSyncMap(names) \subseteq every
    BY DEF CreatePerfectSyncMap, Channels
  <2>2. IsFiniteSet(every)
    BY FiveAreFinite
  <2>3. IsFiniteSet(CreatePerfectSyncMap(names))
    <3> HIDE DEF every
    <3> QED
      BY <2>1, <2>2, FS_Subset
  <2>4. \A t \in CreatePerfectSyncMap(names) : t.out \in names /\ t = Target(t.out, {t.out})
    BY DEF CreatePerfectSyncMap, Target
  <2> QED
    BY <2>3, <2>4 DEF Fitting, Outs, Single
<1>2. Fitting(CreateDefaultVrmMap(names), names)
  <2> DEFINE left == Target(<<"blinkLeft">>, {Eyes.left})
             right == Target(<<"blinkRight">>, {Eyes.right})
             mouth == Target(<<"aa">>, {<<"jawOpen">>})
             happy == Target(<<"happy">>, {<<"mouthSmileLeft">>})
             blink == Target(<<"blink">>, {Eyes.left, Eyes.right})
             every == {left, right, mouth, happy, blink}
  <2>1. CreateDefaultVrmMap(names) \subseteq every
    BY DEF CreateDefaultVrmMap
  <2>2. IsFiniteSet(every)
    BY FiveAreFinite
  <2>3. Single(every)
    BY DEF Single, Target
  <2>4. \A t \in CreateDefaultVrmMap(names) : t.out \in names
    BY DEF CreateDefaultVrmMap
  <2> HIDE DEF every
  <2>5. IsFiniteSet(CreateDefaultVrmMap(names))
    BY <2>1, <2>2, FS_Subset
  <2> QED
    BY <2>1, <2>3, <2>4, <2>5 DEF Fitting, Outs, Single
<1> QED
  BY <1>1, <1>2 DEF VrmMap

\* What FirstFitting finds is a free name.
LEMMA FoundIsFree ==
  ASSUME NEW names, DOMAIN names \subseteq Nat, NEW aliases, DOMAIN aliases \subseteq Nat, NEW used
  PROVE  FindMappedParameter(names, aliases, used) # <<>> =>
           FindMappedParameter(names, aliases, used) \in ToSet(names) \ used
<1>1. FirstFitting(names, aliases, used, Named) \in (ToSet(names) \ used) \cup {<<>>}
  <2> DEFINE Fit(alias) == {i \in DOMAIN names : names[i] \notin used /\ Named(names[i], alias)}
             met == {a \in DOMAIN aliases : Fit(aliases[a]) # {}}
  <2>1. CASE met = {}
    BY <2>1 DEF FirstFitting
  <2>2. CASE met # {}
    <3>1. Min(met) \in met
      <4>1. met \subseteq Nat
        OBVIOUS
      <4> HIDE DEF met
      <4> QED
        BY <2>2, <4>1, MinOfNaturals
    <3>2. PICK found : found = Fit(aliases[Min(met)])
      OBVIOUS
    <3>3. found # {} /\ found \subseteq Nat /\ found \subseteq DOMAIN names
          /\ \A i \in found : names[i] \notin used
      BY <3>1, <3>2
    <3>4. Min(found) \in found
      BY <3>3, MinOfNaturals
    <3>5. names[Min(found)] \in ToSet(names) \ used
      BY <3>3, <3>4 DEF ToSet
    <3>6. FirstFitting(names, aliases, used, Named) = names[Min(found)]
      BY <2>2, <3>2 DEF FirstFitting
    <3> QED
      BY <3>5, <3>6
  <2> QED
    BY <2>1, <2>2
<1>2. FirstFitting(names, aliases, used, Alike) \in (ToSet(names) \ used) \cup {<<>>}
  <2> DEFINE Fit(alias) == {i \in DOMAIN names : names[i] \notin used /\ Alike(names[i], alias)}
             met == {a \in DOMAIN aliases : Fit(aliases[a]) # {}}
  <2>1. CASE met = {}
    BY <2>1 DEF FirstFitting
  <2>2. CASE met # {}
    <3>1. Min(met) \in met
      <4>1. met \subseteq Nat
        OBVIOUS
      <4> HIDE DEF met
      <4> QED
        BY <2>2, <4>1, MinOfNaturals
    <3>2. PICK found : found = Fit(aliases[Min(met)])
      OBVIOUS
    <3>3. found # {} /\ found \subseteq Nat /\ found \subseteq DOMAIN names
          /\ \A i \in found : names[i] \notin used
      BY <3>1, <3>2
    <3>4. Min(found) \in found
      BY <3>3, MinOfNaturals
    <3>5. names[Min(found)] \in ToSet(names) \ used
      BY <3>3, <3>4 DEF ToSet
    <3>6. FirstFitting(names, aliases, used, Alike) = names[Min(found)]
      BY <2>2, <3>2 DEF FirstFitting
    <3> QED
      BY <3>5, <3>6
  <2> QED
    BY <2>1, <2>2
<1> QED
  BY <1>1, <1>2 DEF FindMappedParameter

\* A target placed on a map that fits leaves one that fits.
LEMMA PlacedFits ==
  ASSUME NEW names, DOMAIN names \subseteq Nat, NEW map, Fitting(map, ToSet(names)), NEW n \in 1 .. 5
  PROVE  Fitting(Place(names, map, n), ToSet(names))
<1> DEFINE aliases == InochiTargets[n].aliases
           out == FindMappedParameter(names, aliases, Outs(map))
           target == Target(out, InochiTargets[n].sources)
<1>1. DOMAIN aliases \subseteq Nat
  BY DEF InochiTargets
<1>2. CASE out = <<>>
  BY <1>2 DEF Place
<1>3. CASE out # <<>>
  <2>1. out \in ToSet(names) /\ out \notin Outs(map)
    BY <1>1, <1>3, FoundIsFree
  <2>2. Place(names, map, n) = map \cup {target}
    BY <1>3 DEF Place
  <2>3. target.out = out
    BY DEF Target
  <2> HIDE DEF target, out
  <2>4. IsFiniteSet(map \cup {target})
    BY FS_AddElement DEF Fitting
  <2> QED
    BY <2>1, <2>2, <2>3, <2>4 DEF Fitting, Outs, Single
<1> QED
  BY <1>2, <1>3

\* So the map made for an Inochi2D avatar fits it.
LEMMA InochiMapFits ==
  ASSUME NEW names \in InochiAvatars
  PROVE  Fitting(CreateInochiMap(names), ToSet(names))
<1>1. DOMAIN names \subseteq Nat
  BY MapAssumption DEF MapAssumption
<1>2. Fitting({}, ToSet(names))
  BY FS_EmptySet DEF Fitting, Outs, Single
<1>3. PICK a : a = Place(names, {}, 1)
  OBVIOUS
<1>4. PICK b : b = Place(names, a, 2)
  OBVIOUS
<1>5. PICK c : c = Place(names, b, 3)
  OBVIOUS
<1>6. PICK d : d = Place(names, c, 4)
  OBVIOUS
<1>7. Fitting(a, ToSet(names))
  BY <1>1, <1>2, <1>3, PlacedFits
<1>8. Fitting(b, ToSet(names))
  BY <1>1, <1>4, <1>7, PlacedFits
<1>9. Fitting(c, ToSet(names))
  BY <1>1, <1>5, <1>8, PlacedFits
<1>10. Fitting(d, ToSet(names))
  BY <1>1, <1>6, <1>9, PlacedFits
<1>11. CreateInochiMap(names) = Place(names, d, 5)
  BY <1>3, <1>4, <1>5, <1>6 DEF CreateInochiMap
<1> QED
  BY <1>1, <1>10, <1>11, PlacedFits

LEMMA MapInvStep == MapInv /\ [MapNext]_mapVars => MapInv'
<1> SUFFICES ASSUME MapInv, [MapNext]_mapVars PROVE MapInv'
  OBVIOUS
<1> USE DEF MapInv
<1>1. CASE ShowVrm
  <2>1. PICK names \in VrmAvatars : Show("vrm", names, VrmMap(names))
    BY <1>1 DEF ShowVrm
  <2>2. /\ body' = "vrm" /\ available' = names /\ own' = FALSE
        /\ expressions' = Normalize(VrmMap(names)) /\ editor' = expressions'
    BY <2>1 DEF Show, InForce
  <2> QED
    BY <2>2, VrmMapFits, NormalMap
<1>2. CASE ShowInochi
  <2>1. PICK names \in InochiAvatars : Show("inochi", ToSet(names), CreateInochiMap(names))
    BY <1>2 DEF ShowInochi
  <2>2. /\ body' = "inochi" /\ available' = ToSet(names) /\ own' = FALSE
        /\ expressions' = Normalize(CreateInochiMap(names)) /\ editor' = expressions'
    BY <2>1 DEF Show, InForce
  <2> QED
    BY <2>2, InochiMapFits, NormalMap
<1>3. CASE ResetMap
  <2>1. CASE body # "inochi" /\ InForce(Normalize(VrmMap(available)))
    <3>1. /\ body' = body /\ available' = available /\ own' = FALSE
          /\ expressions' = Normalize(VrmMap(available)) /\ editor' = expressions'
      BY <1>3, <2>1 DEF ResetMap, InForce
    <3> QED
      BY <2>1, <3>1, VrmMapFits, NormalMap
  <2>2. CASE body = "inochi"
    <3>1. PICK names \in InochiAvatars :
            ToSet(names) = available /\ InForce(Normalize(CreateInochiMap(names)))
      BY <1>3, <2>2 DEF ResetMap
    <3>2. /\ body' = body /\ available' = available /\ own' = FALSE
          /\ expressions' = Normalize(CreateInochiMap(names)) /\ editor' = expressions'
      BY <1>3, <3>1 DEF ResetMap, InForce
    <3> QED
      BY <3>1, <3>2, InochiMapFits, NormalMap
  <2> QED
    BY <1>3, <2>1, <2>2 DEF ResetMap
<1>4. ASSUME NEW pending, ApplyText(pending) PROVE MapInv'
  <2>1. UNCHANGED <<body, available, editor, importing, own>>
        /\ expressions' = IF editor = Broken THEN expressions ELSE Normalize(editor)
    BY <1>4 DEF ApplyText
  <2>2. ~own => expressions' = expressions
    BY <2>1
  <2> QED
    BY <2>1, <2>2
<1>5. CASE EditTimer \/ PressApply
  BY <1>4, <1>5 DEF EditTimer, PressApply
<1>6. CASE DropAvatar \/ TypeText \/ StartImport
  BY <1>6 DEF DropAvatar, TypeText, StartImport
<1>7. CASE FinishImport
  BY <1>7 DEF FinishImport, InForce
<1>8. CASE UNCHANGED mapVars
  BY <1>8 DEF mapVars
<1> QED
  BY <1>1, <1>2, <1>3, <1>5, <1>6, <1>7, <1>8 DEF MapNext

\* A map with one target for each of its outs has as many outs as targets.
LEMMA SingleCounts ==
  ASSUME NEW map, IsFiniteSet(map), Single(map)
  PROVE  Cardinality(Outs(map)) = Cardinality(map)
<1> DEFINE f == [t \in map |-> t.out]
<1>1. f \in [map -> Outs(map)]
  BY DEF Outs
<1>2. \A t, u \in map : f[t] = f[u] => t = u
  BY DEF Single
<1>3. \A out \in Outs(map) : \E t \in map : f[t] = out
  BY DEF Outs
<1>4. f \in Bijection(map, Outs(map))
  <2> HIDE DEF f
  <2> QED
    BY <1>1, <1>2, <1>3 DEF Bijection, Injection, Surjection, IsInjective
<1> QED
  BY <1>4, FS_Bijection DEF ExistsBijection

\* For any avatars and any order of avatars shown, texts typed, timers fired, maps applied,
\* imported and reset, the map of an avatar whose user gave none drives expressions that
\* the avatar has, each from one target.
THEOREM MapAlwaysFits == MapSpec => []MapFitsAvatar
<1>1. MapInit => MapInv
  <2>1. \A t \in CreateDefaultVrmMap({}) :
          \/ t = [out |-> <<"blinkLeft">>, sources |-> {Eyes.left}]
          \/ t = [out |-> <<"blinkRight">>, sources |-> {Eyes.right}]
          \/ t = [out |-> <<"aa">>, sources |-> {<<"jawOpen">>}]
          \/ t = [out |-> <<"happy">>, sources |-> {<<"mouthSmileLeft">>}]
          \/ t = [out |-> <<"blink">>, sources |-> {Eyes.left, Eyes.right}]
    BY DEF CreateDefaultVrmMap, Target
  <2>2. ASSUME NEW t \in CreateDefaultVrmMap({}) PROVE t.out # <<>> /\ t.sources # {}
    <3>1. PICK word, sources : t = [out |-> <<word>>, sources |-> sources] /\ sources # {}
      BY <2>1
    <3>2. <<word>> # <<>> /\ t.out = <<word>> /\ t.sources = sources
      BY <3>1
    <3> QED
      BY <3>1, <3>2
  <2> QED
    BY <2>2 DEF MapInit, MapInv, Normalize
<1>2. MapInv => MapFitsAvatar
  BY SingleCounts DEF MapInv, MapFitsAvatar, Fitting
<1> QED
  BY <1>1, <1>2, MapInvStep, PTL DEF MapSpec

-----------------------------------------------------------------------------
(***************************************************************************)
(* The replay page, for any recordings, marks and clock, and any order of  *)
(* plays, pauses, resets, files and late ticks.                            *)
(*                                                                         *)
(* ReplayInv says what is sent and from when playback counts: as long as   *)
(* no other recording came in, startedAt is where the frame that Play      *)
(* began with was due when it was pressed.                                 *)
(***************************************************************************)

Records == [t : Nat, face : BOOLEAN]
Monotone(fs) == \A i, j \in DOMAIN fs : i <= j => fs[i].t <= fs[j].t
Sent == [frame : Nat, at : Nat]
Marked == {i \in Faces : trim.start <= Offset(i) /\ Offset(i) <= trim.end}

ReplayType ==
  /\ frames \in Seq(Records) /\ Monotone(frames) /\ errors \in BOOLEAN
  /\ cursor \in Nat /\ cursor <= Len(frames)
  /\ playing \in BOOLEAN /\ startedAt \in Int /\ time \in Nat /\ swapped \in BOOLEAN
  /\ trim.start \in Nat /\ trim.end \in Nat
  /\ \A file \in reading : file.recording \in Recordings
  /\ sent \in Seq(Sent) /\ Len(sent) = cursor
  /\ resumed.at \in Nat /\ resumed.frame \in Nat

\* What is sent is the recording up to the cursor.
SentInOrder == \A i \in 1 .. cursor : sent[i].frame = i

\* Playback counts from where Play began, and sends nothing too soon.
OnTime ==
  ~swapped =>
    /\ playing => startedAt = resumed.at - Offset(resumed.frame)
    /\ \A i \in 1 .. cursor :
         sent[i].at >= resumed.at /\ i >= resumed.frame
           => sent[i].at - resumed.at >= Offset(i) - Offset(resumed.frame)

ButtonsRight ==
  /\ timer = playing /\ (channel => playing)
  /\ buttons \cap {"play", "export"} # {} => CanReplay(frames, errors)
  /\ playing /\ ~swapped => ~errors

\* Untyped marks are those of the recording.
MarksRight ==
  ~trim.typed /\ frames # <<>> => trim.start = 0 /\ trim.end = DefaultEnd(Offset(Len(frames)))

ClipRight == clip = NoClip \/ (clip = Exported /\ CanReplay(frames, errors))

ReplayInv == ReplayType /\ SentInOrder /\ OnTime /\ ButtonsRight /\ MarksRight /\ ClipRight

\* InOrder counts all the places off, by their times.
LEMMA OrderIsByTime ==
  ASSUME NEW records, NEW places \in SUBSET Nat, IsFiniteSet(places),
         \A i \in places : records[i].t \in Nat
  PROVE  LET order == InOrder(records, places)
             N == Cardinality(places)
         IN  /\ N \in Nat
             /\ order \in [1 .. N -> places]
             /\ \A i \in places : \E n \in 1 .. N : order[n] = i
             /\ \A n, m \in 1 .. N : n < m =>
                  \/ records[order[n]].t < records[order[m]].t
                  \/ (records[order[n]].t = records[order[m]].t /\ order[n] < order[m])
<1> DEFINE N == Cardinality(places)
           Lt(j, i) == records[j].t < records[i].t \/ (records[j].t = records[i].t /\ j < i)
           Before(i) == {j \in places : \/ records[j].t < records[i].t
                                        \/ (records[j].t = records[i].t /\ j <= i)}
           Rank(i) == Cardinality(Before(i))
           rank == [i \in places |-> Rank(i)]
           order == InOrder(records, places)
<1>1. N \in Nat
  BY FS_CardinalityType
<1>2. ASSUME NEW i \in places
      PROVE  IsFiniteSet(Before(i)) /\ i \in Before(i) /\ Rank(i) \in 1 .. N
  <2>1. Before(i) \in SUBSET places /\ i \in Before(i)
    <3>1. i <= i
      BY <1>2
    <3>2. Before(i) \in SUBSET places
      OBVIOUS
    <3>3. i \in Before(i)
      BY <1>2, <3>1
    <3> QED
      BY <3>2, <3>3
  <2> HIDE DEF Before
  <2>2. IsFiniteSet(Before(i)) /\ Rank(i) <= N
    BY <2>1, FS_Subset
  <2>3. Rank(i) \in Nat /\ Rank(i) # 0
    BY <2>1, <2>2, FS_CardinalityType, FS_EmptySet
  <2> QED
    BY <1>1, <2>1, <2>2, <2>3
<1>3. ASSUME NEW i \in places, NEW j \in places, Lt(i, j) PROVE Rank(i) < Rank(j)
  <2>1. records[i].t \in Nat /\ records[j].t \in Nat /\ i \in Nat /\ j \in Nat
    OBVIOUS
  <2>2. Before(i) \subseteq Before(j)
    <3> SUFFICES ASSUME NEW k \in Before(i) PROVE k \in Before(j)
      OBVIOUS
    <3>1. k \in places /\ records[k].t \in Nat /\ k \in Nat
      OBVIOUS
    <3> QED
      BY <1>3, <2>1, <3>1
  <2>3. j \notin Before(i)
    BY <1>3, <2>1
  <2>4. j \in Before(j) /\ IsFiniteSet(Before(j)) /\ Rank(i) \in 1 .. N /\ Rank(j) \in 1 .. N
    BY <1>2
  <2> HIDE DEF Before
  <2>5. Rank(i) <= Rank(j) /\ Rank(i) # Rank(j)
    BY <2>2, <2>3, <2>4, FS_Subset
  <2> QED
    BY <1>1, <2>4, <2>5
<1>4. \A i, j \in places : i = j \/ Lt(i, j) \/ Lt(j, i)
  <2> SUFFICES ASSUME NEW i \in places, NEW j \in places PROVE i = j \/ Lt(i, j) \/ Lt(j, i)
    OBVIOUS
  <2>1. records[i].t \in Nat /\ records[j].t \in Nat /\ i \in Nat /\ j \in Nat
    OBVIOUS
  <2> QED
    BY <2>1
<1>5. InOrder(records, places) = [n \in 1 .. N |-> CHOOSE i \in places : Rank(i) = n]
  BY DEF InOrder
<1> HIDE DEF Rank, Lt, Before
<1>6. ASSUME NEW i \in places, NEW j \in places, Rank(i) = Rank(j) PROVE i = j
  <2>1. Rank(i) \in 1 .. N /\ Rank(j) \in 1 .. N
    BY <1>2
  <2>2. ~Lt(i, j) /\ ~Lt(j, i)
    <3>1. ~(Rank(i) < Rank(j)) /\ ~(Rank(j) < Rank(i))
      BY <1>1, <1>6, <2>1
    <3> QED
      BY <1>3, <3>1
  <2> QED
    BY <1>4, <2>2
<1>7. rank \in Surjection(places, 1 .. N)
  <2>1. rank \in Injection(places, 1 .. N)
    BY <1>2, <1>6 DEF Injection, IsInjective
  <2>2. IsFiniteSet(1 .. N) /\ Cardinality(1 .. N) = N
    BY <1>1, FS_Interval
  <2> HIDE DEF rank
  <2> QED
    BY <2>1, <2>2, FS_Injection
<1>8. \A n \in 1 .. N : \E i \in places : Rank(i) = n
  BY <1>7 DEF Surjection
<1>9. ASSUME NEW n \in 1 .. N PROVE order[n] \in places /\ Rank(order[n]) = n
  <2>1. order[n] = CHOOSE i \in places : Rank(i) = n
    BY <1>5
  <2> HIDE DEF order
  <2> QED
    BY <1>8, <2>1
<1>10. order \in [1 .. N -> places]
  <2>1. order = [n \in 1 .. N |-> order[n]]
    BY <1>5
  <2> HIDE DEF order
  <2> QED
    BY <1>9, <2>1
<1>11. \A i \in places : \E n \in 1 .. N : order[n] = i
  <2> HIDE DEF order
  <2> QED
    BY <1>2, <1>6, <1>9
<1>12. ASSUME NEW n \in 1 .. N, NEW m \in 1 .. N, n < m PROVE Lt(order[n], order[m])
  <2>1. /\ order[n] \in places /\ order[m] \in places
        /\ Rank(order[n]) = n /\ Rank(order[m]) = m
    BY <1>9
  <2> HIDE DEF order
  <2>2. order[n] # order[m] /\ ~(Rank(order[m]) < Rank(order[n]))
    BY <1>1, <1>12, <2>1
  <2> QED
    BY <1>3, <1>4, <2>1, <2>2
<1> QED
  <2> HIDE DEF order, N
  <2>1. \A n, m \in 1 .. N : n < m =>
                  \/ records[order[n]].t < records[order[m]].t
                  \/ (records[order[n]].t = records[order[m]].t /\ order[n] < order[m])
    BY <1>12 DEF Lt
  <2> QED
    BY <1>1, <1>10, <1>11, <2>1 DEF order, N

\* The records of a file, sorted, are in the order of their times.
LEMMA SortedIsMonotone ==
  ASSUME NEW records \in Seq(Records)
  PROVE  Sorted(records) \in Seq(Records) /\ Monotone(Sorted(records))
         /\ Len(Sorted(records)) = Len(records)
<1> DEFINE places == 1 .. Len(records)
           order == InOrder(records, places)
<1>1. /\ Len(records) \in Nat /\ DOMAIN records = places /\ \A i \in places : records[i] \in Records
      /\ places \in SUBSET Nat
  OBVIOUS
<1>2. IsFiniteSet(places) /\ Cardinality(places) = Len(records)
  <2>1. IsFiniteSet(1 .. Len(records)) /\ Cardinality(1 .. Len(records)) = Len(records)
    BY <1>1, FS_Interval
  <2> QED
    BY <2>1
<1>3. \A i \in places : records[i].t \in Nat
  BY <1>1 DEF Records
<1>4. /\ order \in [places -> places]
      /\ \A n, m \in places : n < m =>
           \/ records[order[n]].t < records[order[m]].t
           \/ (records[order[n]].t = records[order[m]].t /\ order[n] < order[m])
  <2> HIDE DEF places
  <2>1. /\ order \in [1 .. Cardinality(places) -> places]
        /\ \A n, m \in 1 .. Cardinality(places) : n < m =>
             \/ records[order[n]].t < records[order[m]].t
             \/ (records[order[n]].t = records[order[m]].t /\ order[n] < order[m])
    <3>1. places \in SUBSET Nat /\ IsFiniteSet(places) /\ \A i \in places : records[i].t \in Nat
      BY <1>1, <1>2, <1>3
    <3> QED
      BY ONLY <3>1, OrderIsByTime
  <2>2. 1 .. Cardinality(places) = places
    BY <1>2 DEF places
  <2> QED
    BY <2>1, <2>2
<1>5. Sorted(records) = [n \in places |-> records[order[n]]]
  BY <1>1 DEF Sorted
<1> HIDE DEF order
<1>6. Sorted(records) \in [1 .. Len(records) -> Records]
  BY <1>1, <1>4, <1>5
<1>7. Sorted(records) \in Seq(Records) /\ Len(Sorted(records)) = Len(records)
      /\ DOMAIN Sorted(records) = places
  BY <1>1, <1>6
<1>8. Monotone(Sorted(records))
  <2> SUFFICES ASSUME NEW i \in places, NEW j \in places, i <= j
               PROVE  Sorted(records)[i].t <= Sorted(records)[j].t
    BY <1>7 DEF Monotone
  <2>1. Sorted(records)[i] = records[order[i]] /\ Sorted(records)[j] = records[order[j]]
    BY <1>5
  <2>2. records[order[i]].t \in Nat /\ records[order[j]].t \in Nat
    BY <1>3, <1>4
  <2>3. i \in Nat /\ j \in Nat
    OBVIOUS
  <2>4. CASE i = j
    BY <2>1, <2>2, <2>4
  <2>5. CASE i < j
    BY <1>4, <2>1, <2>2, <2>5
  <2> QED
    BY <2>3, <2>4, <2>5
<1> QED
  BY <1>7, <1>8

\* Times are counted from the first frame's.
LEMMA OffsetIsNumber ==
  ASSUME ReplayType
  PROVE  \A n : Offset(n) \in Int
<1>1. \A n \in DOMAIN frames : frames[n] \in Records
  BY DEF ReplayType
<1>2. \A n \in DOMAIN frames : frames[n].t \in Nat
  BY <1>1 DEF Records
<1>3. \A n \in DOMAIN frames : 1 \in DOMAIN frames
  BY DEF ReplayType
<1> QED
  BY <1>2, <1>3 DEF Offset

\* A tick sends what follows the cursor up to the first frame that is not due.
LEMMA TickSendsWhatIsDue ==
  ASSUME ReplayType, NEW begun \in Int, TickAt(begun)
  PROVE  /\ cursor' \in Nat /\ cursor <= cursor' /\ cursor' <= Len(frames)
         /\ sent' \in Seq(Sent) /\ Len(sent') = cursor'
         /\ \A i \in 1 .. cursor : sent'[i] = sent[i]
         /\ \A i \in cursor + 1 .. cursor' :
              sent'[i].frame = i /\ sent'[i].at = time /\ Offset(i) <= time - begun
         /\ playing' \in BOOLEAN /\ timer' = playing' /\ (channel' => playing')
         /\ buttons' \cap {"play", "export"} # {} =>
              buttons \cap {"play", "export"} # {} \/ CanReplay(frames, errors)
<1> DEFINE due == {i \in DOMAIN frames : i > cursor /\ Offset(i) <= time - begun}
           Stops(n) == (\A i \in cursor + 1 .. n : i \in due) /\ n + 1 \notin due
           upTo == CHOOSE n \in cursor .. Len(frames) : Stops(n)
           more == [i \in 1 .. upTo - cursor |-> [frame |-> cursor + i, at |-> time]]
<1>1. /\ cursor \in Nat /\ Len(frames) \in Nat /\ cursor <= Len(frames)
      /\ DOMAIN frames = 1 .. Len(frames) /\ time \in Nat
      /\ sent \in Seq(Sent) /\ Len(sent) = cursor
  BY DEF ReplayType
<1>2. \E n \in cursor .. Len(frames) : Stops(n)
  <2> DEFINE ends == {n \in Nat : cursor <= n /\ n + 1 \notin due}
  <2>1. Len(frames) \in ends
    BY <1>1
  <2>2. PICK n \in ends : \A m \in ends : n <= m
    <3> HIDE DEF due
    <3> QED
      BY <2>1, LeastNatural
  <2>3. ASSUME NEW i \in cursor + 1 .. n PROVE i \in due
    <3>1. i - 1 \in Nat /\ cursor <= i - 1 /\ i - 1 < n /\ (i - 1) + 1 = i
      BY <1>1, <2>2
    <3> HIDE DEF due
    <3>2. i - 1 \notin ends
      BY <2>2, <3>1
    <3> QED
      BY <3>1, <3>2
  <2>4. n \in cursor .. Len(frames)
    BY <1>1, <2>1, <2>2
  <2> HIDE DEF due
  <2> QED
    BY <2>2, <2>3, <2>4
<1>3. upTo \in cursor .. Len(frames) /\ Stops(upTo)
  <2> HIDE DEF Stops
  <2> QED
    BY <1>2
<1>4. /\ cursor' = upTo /\ sent' = sent \o more
      /\ IF upTo >= Len(frames)
         THEN PauseNow
         ELSE /\ playing' = TRUE /\ timer' = TRUE
              /\ channel' = (channel \/ upTo > cursor)
              /\ buttons' = (buttons \ {"play"}) \cup {"pause"}
  BY DEF TickAt
<1>5. \A i \in cursor + 1 .. upTo : Offset(i) <= time - begun
  BY <1>3
<1> HIDE DEF upTo
<1>6. upTo - cursor \in Nat /\ upTo \in Nat /\ cursor <= upTo /\ upTo <= Len(frames)
  BY <1>1, <1>3
<1>7. /\ more \in Seq(Sent) /\ Len(more) = upTo - cursor
      /\ \A k \in 1 .. upTo - cursor : more[k].frame = cursor + k /\ more[k].at = time
  <2>1. \A k \in 1 .. upTo - cursor : [frame |-> cursor + k, at |-> time] \in Sent
    BY <1>1, <1>6 DEF Sent
  <2>2. more \in [1 .. upTo - cursor -> Sent]
    BY <2>1
  <2> QED
    BY <1>6, <2>2, SMTT(30)
<1> HIDE DEF more
<1>8. sent' \in Seq(Sent) /\ Len(sent') = upTo
      /\ (\A i \in 1 .. cursor : sent'[i] = sent[i])
      /\ (\A i \in cursor + 1 .. upTo : sent'[i] = more[i - cursor])
  <2>1. sent' = sent \o more /\ Len(sent) = cursor /\ Len(more) = upTo - cursor
        /\ sent \in Seq(Sent) /\ more \in Seq(Sent)
    BY <1>1, <1>4, <1>7
  <2>2. sent' \in Seq(Sent) /\ Len(sent') = upTo
    <3>1. sent \o more \in Seq(Sent) /\ Len(sent \o more) = Len(sent) + Len(more)
      BY <2>1, ConcatProperties
    <3> QED
      BY <1>1, <1>6, <2>1, <3>1
  <2>3. \A i \in 1 .. upTo : sent'[i] = IF i <= cursor THEN sent[i] ELSE more[i - cursor]
    <3>1. \A i \in 1 .. Len(sent) + Len(more) :
            (sent \o more)[i] = IF i <= Len(sent) THEN sent[i] ELSE more[i - Len(sent)]
      BY <2>1, ConcatProperties
    <3> QED
      BY <1>1, <1>6, <2>1, <3>1
  <2>4. ASSUME NEW i \in 1 .. cursor PROVE sent'[i] = sent[i]
    <3>1. i \in 1 .. upTo /\ i <= cursor
      BY <1>1, <1>6
    <3> QED
      BY <2>3, <3>1
  <2>5. ASSUME NEW i \in cursor + 1 .. upTo PROVE sent'[i] = more[i - cursor]
    <3>1. i \in 1 .. upTo /\ ~(i <= cursor)
      BY <1>1, <1>6
    <3> QED
      BY <2>3, <3>1
  <2> QED
    BY <2>2, <2>4, <2>5
<1>9. \A i \in cursor + 1 .. upTo : sent'[i].frame = i /\ sent'[i].at = time
  <2> SUFFICES ASSUME NEW i \in cursor + 1 .. upTo PROVE sent'[i].frame = i /\ sent'[i].at = time
    OBVIOUS
  <2>1. i - cursor \in 1 .. upTo - cursor /\ cursor + (i - cursor) = i
    BY <1>1, <1>6
  <2> QED
    BY <1>7, <1>8, <2>1
<1>10. /\ playing' \in BOOLEAN /\ timer' = playing' /\ (channel' => playing')
       /\ buttons' \cap {"play", "export"} # {} =>
              buttons \cap {"play", "export"} # {} \/ CanReplay(frames, errors)
  <2>1. CASE upTo >= Len(frames)
    BY <1>4, <2>1 DEF PauseNow
  <2>2. CASE ~(upTo >= Len(frames))
    BY <1>4, <2>2
  <2> QED
    BY <2>1, <2>2
<1> QED
  BY <1>4, <1>5, <1>6, <1>8, <1>9, <1>10

\* The end mark of a recording is past 0 and no more than Hundredth before its end.
LEMMA EndMarkNearEnd ==
  ASSUME NEW d \in Nat
  PROVE  DefaultEnd(d) \in Nat /\ DefaultEnd(d) > 0 /\ DefaultEnd(d) >= d - Hundredth
<1>1. /\ Hundredth \in Nat /\ Hundredth > 0 /\ Shortest \in Nat /\ 2 * Shortest >= Hundredth
  BY ReplayAssumption DEF ReplayAssumption
<1>2. PICK x \in Nat : x = Max({d, Shortest}) + Hundredth \div 2
  <2>1. Max({d, Shortest}) \in {d, Shortest}
    <3>1. \E n \in {d, Shortest} : \A m \in {d, Shortest} : n >= m
      BY <1>1
    <3> QED
      BY <3>1 DEF Max
  <2> QED
    BY <1>1, <2>1
<1>3. x >= d /\ x >= Hundredth
  <2>1. PICK n \in {d, Shortest} : (\A m \in {d, Shortest} : n >= m) /\ n = Max({d, Shortest})
    <3>1. \E n \in {d, Shortest} : \A m \in {d, Shortest} : n >= m
      BY <1>1
    <3> QED
      BY <3>1 DEF Max
  <2>2. n \in Nat /\ n >= d /\ n >= Shortest
    BY <1>1, <2>1
  <2>3. Hundredth \div 2 \in Nat /\ 2 * (Hundredth \div 2) + 1 >= Hundredth
    BY <1>1
  <2>4. x = n + Hundredth \div 2
    BY <1>2, <2>1
  <2> QED
    BY <1>1, <2>2, <2>3, <2>4
<1>4. \A y, h \in Nat : h > 0 => y - h < h * (y \div h) /\ y \div h \in Nat
  OBVIOUS
<1>5. PICK p \in Int : p = Hundredth * (x \div Hundredth)
  BY <1>1, <1>4
<1>6. x - Hundredth < p
  BY <1>1, <1>4, <1>5
<1>7. DefaultEnd(d) = p
  <2>1. DefaultEnd(d) = (x \div Hundredth) * Hundredth
    BY <1>2 DEF DefaultEnd
  <2>2. PICK q \in Nat : q = x \div Hundredth
    BY <1>1, <1>4
  <2>3. q * Hundredth = Hundredth * q
    BY <1>1, <2>2
  <2> QED
    BY <1>5, <2>1, <2>2, <2>3
<1>8. p > 0 /\ p >= d - Hundredth
  BY <1>1, <1>3, <1>6
<1> QED
  BY <1>7, <1>8

\* What is exported of a recording that begins with a face is the part between the marks.
LEMMA ExportedIsMarked ==
  ASSUME ReplayType, MarksRight, CanReplay(frames, errors), frames[1].face, clip = Exported
  PROVE  ClipIsMarkedPart
<1> DEFINE base == frames[Min(Faces)].t
           keys == InOrder(frames, InTrim)
           N == Cardinality(InTrim)
<1>1. /\ Len(frames) \in Nat /\ Len(frames) > 0 /\ DOMAIN frames = 1 .. Len(frames)
      /\ \A i \in DOMAIN frames : frames[i].t \in Nat
      /\ \A i, j \in DOMAIN frames : i <= j => frames[i].t <= frames[j].t
      /\ trim.start \in Nat /\ trim.end \in Nat
  <2>1. frames \in Seq(Records) /\ frames # <<>>
    BY DEF ReplayType, CanReplay
  <2>2. \A i \in DOMAIN frames : frames[i] \in Records
    BY <2>1
  <2> QED
    BY <2>1, <2>2 DEF ReplayType, Records, Monotone
<1>2. Faces \subseteq DOMAIN frames /\ 1 \in Faces /\ Min(Faces) = 1
  <2>1. Faces \subseteq DOMAIN frames /\ 1 \in Faces
    BY <1>1 DEF Faces
  <2>2. Faces \subseteq Nat /\ \A m \in Faces : 1 <= m
    BY <1>1, <2>1
  <2>3. Min(Faces) \in Faces /\ \A m \in Faces : Min(Faces) <= m
    BY <2>1, <2>2 DEF Min
  <2>4. Min(Faces) <= 1 /\ 1 <= Min(Faces) /\ Min(Faces) \in Nat
    BY <2>1, <2>2, <2>3
  <2> QED
    BY <2>1, <2>4
<1>3. \A i \in DOMAIN frames : Offset(i) = frames[i].t - frames[1].t /\ Offset(i) \in Nat
  BY <1>1 DEF Offset
<1>4. InTrim = Marked /\ InTrim \subseteq DOMAIN frames
  <2>1. \A i \in Faces : base + trim.start <= frames[i].t /\ frames[i].t <= base + trim.end
                           <=> trim.start <= Offset(i) /\ Offset(i) <= trim.end
    BY <1>1, <1>2, <1>3
  <2> QED
    BY <1>2, <2>1 DEF InTrim, Marked
<1>5. IsFiniteSet(InTrim) /\ InTrim \in SUBSET Nat
  <2>1. IsFiniteSet(1 .. Len(frames))
    BY <1>1, FS_Interval
  <2>2. InTrim \subseteq 1 .. Len(frames)
    BY <1>1, <1>4
  <2>3. IsFiniteSet(InTrim)
    BY <2>1, <2>2, FS_Subset
  <2> QED
    BY <1>1, <2>2, <2>3
<1>6. /\ N \in Nat /\ keys \in [1 .. N -> InTrim]
      /\ \A i \in InTrim : \E n \in 1 .. N : keys[n] = i
      /\ \A n, m \in 1 .. N : n < m =>
           \/ frames[keys[n]].t < frames[keys[m]].t
           \/ (frames[keys[n]].t = frames[keys[m]].t /\ keys[n] < keys[m])
  <2>1. \A i \in InTrim : frames[i].t \in Nat
    BY <1>1, <1>4
  <2> QED
    BY ONLY <1>5, <2>1, OrderIsByTime
<1> HIDE DEF keys, N, base
<1>7. \A n, m \in 1 .. N : n < m => keys[n] < keys[m]
  <2> SUFFICES ASSUME NEW n \in 1 .. N, NEW m \in 1 .. N, n < m PROVE keys[n] < keys[m]
    OBVIOUS
  <2>1. keys[n] \in DOMAIN frames /\ keys[m] \in DOMAIN frames
    BY <1>4, <1>6
  <2>2. \/ frames[keys[n]].t < frames[keys[m]].t
        \/ (frames[keys[n]].t = frames[keys[m]].t /\ keys[n] < keys[m])
    BY <1>6
  <2>3. /\ keys[n] \in Nat /\ keys[m] \in Nat
        /\ frames[keys[n]].t \in Nat /\ frames[keys[m]].t \in Nat
        /\ (keys[m] <= keys[n] => frames[keys[m]].t <= frames[keys[n]].t)
    BY <1>1, <2>1
  <2> QED
    BY <2>2, <2>3
<1>8. ASSUME clip.made = "file"
      PROVE  /\ clip.keys = Animation /\ DOMAIN clip.keys = 1 .. N /\ InTrim # {} /\ N > 0
             /\ \A n \in 1 .. N :
                  /\ clip.keys[n].frame = keys[n]
                  /\ clip.keys[n].at = frames[keys[n]].t - frames[keys[1]].t
  <2>1. InTrim # {} /\ clip = [made |-> "file", keys |-> Animation]
    BY <1>8 DEF Exported
  <2>2. N > 0
    BY <1>6, <2>1
  <2>3. DOMAIN keys = 1 .. N
    BY <1>6
  <2>4. Animation = [n \in 1 .. N |-> [frame |-> keys[n], at |-> frames[keys[n]].t - frames[keys[1]].t]]
    BY <2>3 DEF Animation, keys
  <2> QED
    BY <2>1, <2>2, <2>4
<1>9. clip.made = "file" =>
        /\ {clip.keys[n].frame : n \in DOMAIN clip.keys} = Marked
        /\ \A n, m \in DOMAIN clip.keys :
             /\ n < m => clip.keys[n].frame < clip.keys[m].frame
             /\ clip.keys[m].at - clip.keys[n].at
                  = Offset(clip.keys[m].frame) - Offset(clip.keys[n].frame)
        /\ clip.keys[1].at = 0
  <2> SUFFICES ASSUME clip.made = "file"
               PROVE  /\ {clip.keys[n].frame : n \in DOMAIN clip.keys} = Marked
                      /\ \A n, m \in DOMAIN clip.keys :
                           /\ n < m => clip.keys[n].frame < clip.keys[m].frame
                           /\ clip.keys[m].at - clip.keys[n].at
                                = Offset(clip.keys[m].frame) - Offset(clip.keys[n].frame)
                      /\ clip.keys[1].at = 0
    OBVIOUS
  <2>1. {clip.keys[n].frame : n \in 1 .. N} = {keys[n] : n \in 1 .. N}
    BY <1>8
  <2>2. {keys[n] : n \in 1 .. N} = Marked
    BY <1>4, <1>6
  <2>3. ASSUME NEW n \in 1 .. N, NEW m \in 1 .. N
        PROVE  /\ n < m => clip.keys[n].frame < clip.keys[m].frame
               /\ clip.keys[m].at - clip.keys[n].at
                    = Offset(clip.keys[m].frame) - Offset(clip.keys[n].frame)
    <3>1. keys[n] \in DOMAIN frames /\ keys[m] \in DOMAIN frames /\ keys[1] \in DOMAIN frames
      BY <1>4, <1>6, <1>8
    <3>2. Offset(keys[m]) - Offset(keys[n])
            = (frames[keys[m]].t - frames[keys[1]].t) - (frames[keys[n]].t - frames[keys[1]].t)
      <4>1. PICK a \in Nat, b \in Nat, c \in Nat, o \in Nat :
              /\ a = frames[keys[n]].t /\ b = frames[keys[m]].t
              /\ c = frames[keys[1]].t /\ o = frames[1].t
        <5>1. /\ frames[keys[n]].t \in Nat /\ frames[keys[m]].t \in Nat
              /\ frames[keys[1]].t \in Nat /\ frames[1].t \in Nat
          BY <1>1, <3>1, SMTT(30)
        <5> QED
          BY <5>1
      <4>2. Offset(keys[n]) = a - o /\ Offset(keys[m]) = b - o
        BY <1>3, <3>1, <4>1
      <4>3. (b - o) - (a - o) = (b - c) - (a - c)
        OBVIOUS
      <4> QED
        BY <4>1, <4>2, <4>3
    <3> QED
      BY <1>7, <1>8, <3>2
  <2>4. clip.keys[1].at = 0
    <3>1. 1 \in 1 .. N /\ keys[1] \in DOMAIN frames
      BY <1>4, <1>6, <1>8
    <3> QED
      BY <1>1, <1>8, <3>1
  <2> QED
    BY <1>8, <2>1, <2>2, <2>3, <2>4, ZenonT(40)
<1>10. clip.made = "error" => Marked = {} \/ trim.end <= trim.start
  <2>1. "error" # "file"
    OBVIOUS
  <2> QED
    BY <1>2, <1>4, <2>1 DEF Exported
<1>11. ASSUME ~trim.typed
       PROVE  /\ clip.made = "file"
              /\ \A i \in Faces : Offset(i) <= Offset(Len(frames)) - Hundredth => i \in Marked
  <2>1. trim.start = 0 /\ trim.end = DefaultEnd(Offset(Len(frames)))
    BY <1>11 DEF MarksRight, CanReplay
  <2>2. Offset(Len(frames)) \in Nat
    BY <1>1, <1>3
  <2>3. trim.end > 0 /\ trim.end >= Offset(Len(frames)) - Hundredth /\ Hundredth \in Nat
    BY <2>1, <2>2, EndMarkNearEnd, ReplayAssumption DEF ReplayAssumption
  <2>4. \A i \in Faces : Offset(i) <= Offset(Len(frames)) - Hundredth => i \in Marked
    <3> SUFFICES ASSUME NEW i \in Faces, Offset(i) <= Offset(Len(frames)) - Hundredth
                 PROVE  trim.start <= Offset(i) /\ Offset(i) <= trim.end
      BY DEF Marked
    <3>1. Offset(i) \in Nat
      BY <1>2, <1>3
    <3> QED
      BY <1>1, <2>1, <2>2, <2>3, <3>1
  <2>5. 1 \in InTrim
    <3>1. Offset(1) = 0
      BY <1>1 DEF Offset
    <3> QED
      BY <1>1, <1>2, <1>4, <2>1, <3>1 DEF Marked
  <2>6. clip.made = "file"
    BY <1>1, <1>2, <2>1, <2>3, <2>5 DEF Exported
  <2> QED
    BY <2>4, <2>6
<1> QED
  BY <1>9, <1>10, <1>11 DEF ClipIsMarkedPart, Marked

\* Steps that leave the recording, the cursor, the playback and what was sent alone.
LEMMA QuietStepKeepsReplayInv ==
  ASSUME ReplayInv, UNCHANGED <<frames, errors, cursor, startedAt, sent, resumed, swapped>>,
         playing' \in {playing, FALSE}, timer' = playing', channel' => playing',
         buttons' \cap {"play", "export"} # {} =>
           buttons \cap {"play", "export"} # {} \/ CanReplay(frames, errors),
         time' \in Nat, trim'.start \in Nat, trim'.end \in Nat, trim' = trim \/ trim'.typed,
         \A file \in reading' : file.recording \in Recordings, clip' = NoClip
  PROVE  ReplayInv'
<1>1. ReplayType'
  BY DEF ReplayInv, ReplayType
<1>2. SentInOrder'
  BY DEF ReplayInv, SentInOrder
<1>3. OnTime'
  BY DEF ReplayInv, OnTime, ReplayType, Offset
<1>4. ButtonsRight'
  <2>1. playing' => playing
    BY DEF ReplayInv, ReplayType
  <2> QED
    BY <2>1 DEF ReplayInv, ButtonsRight, CanReplay
<1>5. MarksRight'
  BY DEF ReplayInv, MarksRight, DefaultEnd, Offset
<1>6. ClipRight'
  BY DEF ClipRight, NoClip
<1> QED
  BY <1>1, <1>2, <1>3, <1>4, <1>5, <1>6 DEF ReplayInv

LEMMA ReplayInvStep == ReplayInv /\ [ReplayNext]_replayVars => ReplayInv'
<1> SUFFICES ASSUME ReplayInv, [ReplayNext]_replayVars PROVE ReplayInv'
  OBVIOUS
<1>0. /\ ReplayType /\ SentInOrder /\ OnTime /\ ButtonsRight /\ MarksRight /\ ClipRight
      /\ cursor \in Nat /\ time \in Nat /\ playing \in BOOLEAN /\ trim.start \in Nat /\ trim.end \in Nat
      /\ \A file \in reading : file.recording \in Recordings
      /\ timer = playing /\ (channel => playing)
  BY DEF ReplayInv, ReplayType, ButtonsRight
<1>1. CASE ExportVrma
  <2>1. /\ UNCHANGED <<frames, errors, trim, cursor, playing, timer, startedAt, buttons, channel,
                       reading, time, files, plays, sent, resumed, swapped>>
        /\ CanReplay(frames, errors) /\ clip' = Exported
    BY <1>1 DEF ExportVrma
  <2>2. ReplayType' /\ SentInOrder'
    BY <1>0, <2>1 DEF ReplayType, SentInOrder
  <2>3. OnTime' /\ ButtonsRight' /\ MarksRight'
    BY <1>0, <2>1 DEF OnTime, ButtonsRight, MarksRight, Offset, CanReplay, DefaultEnd
  <2>4. Exported' = Exported
    <3>1. Faces' = Faces
      BY <2>1 DEF Faces
    <3>2. InTrim' = InTrim
      BY <2>1, <3>1 DEF InTrim
    <3>3. Animation' = Animation
      BY <2>1, <3>2 DEF Animation
    <3> QED
      BY <2>1, <3>1, <3>2, <3>3 DEF Exported
  <2>5. ClipRight'
    BY <2>1, <2>4 DEF ClipRight, CanReplay
  <2> QED
    BY <2>2, <2>3, <2>5 DEF ReplayInv
<1>2. ASSUME NEW begun \in Int, TickAt(begun), clip' = NoClip, startedAt' = begun, swapped' \in BOOLEAN,
             UNCHANGED <<frames, errors, trim, reading, time>>,
             resumed'.at \in Nat, resumed'.frame \in Nat,
             ~swapped' => ~errors /\ begun = resumed'.at - Offset(resumed'.frame),
             ~swapped' => \A i \in 1 .. cursor :
               sent[i].at >= resumed'.at /\ i >= resumed'.frame
                 => sent[i].at - resumed'.at >= Offset(i) - Offset(resumed'.frame)
      PROVE  ReplayInv'
  <2>1. /\ cursor' \in Nat /\ cursor <= cursor' /\ cursor' <= Len(frames)
        /\ sent' \in Seq(Sent) /\ Len(sent') = cursor'
        /\ \A i \in 1 .. cursor : sent'[i] = sent[i]
        /\ \A i \in cursor + 1 .. cursor' :
             sent'[i].frame = i /\ sent'[i].at = time /\ Offset(i) <= time - begun
        /\ playing' \in BOOLEAN /\ timer' = playing' /\ (channel' => playing')
        /\ buttons' \cap {"play", "export"} # {} =>
             buttons \cap {"play", "export"} # {} \/ CanReplay(frames, errors)
    BY <1>0, <1>2, TickSendsWhatIsDue
  <2>2. ReplayType'
    BY <1>0, <1>2, <2>1 DEF ReplayType
  <2>3. \A i \in 1 .. cursor' : i \in 1 .. cursor \/ i \in cursor + 1 .. cursor'
    BY <1>0, <2>1
  <2>4. SentInOrder'
    BY <1>0, <2>1, <2>3 DEF SentInOrder
  <2>5. OnTime'
    <3> SUFFICES ASSUME ~swapped'
                 PROVE  /\ startedAt' = resumed'.at - Offset(resumed'.frame)
                        /\ \A i \in 1 .. cursor' :
                             sent'[i].at >= resumed'.at /\ i >= resumed'.frame
                               => sent'[i].at - resumed'.at >= Offset(i) - Offset(resumed'.frame)
      BY <1>2 DEF OnTime, Offset
    <3> SUFFICES ASSUME NEW i \in 1 .. cursor', sent'[i].at >= resumed'.at, i >= resumed'.frame
                 PROVE  sent'[i].at - resumed'.at >= Offset(i) - Offset(resumed'.frame)
      BY <1>2
    <3>1. CASE i \in 1 .. cursor
      BY <1>2, <2>1, <3>1
    <3>2. CASE i \in cursor + 1 .. cursor'
      <4>1. \A n \in Nat : Offset(n) \in Int
        BY <1>0, OffsetIsNumber
      <4>2. PICK o \in Int, f \in Int, at \in Nat :
              o = Offset(i) /\ f = Offset(resumed'.frame) /\ at = resumed'.at
        BY <1>2, <2>1, <4>1
      <4>3. sent'[i].at = time /\ o <= time - begun /\ begun = at - f
        BY <1>2, <2>1, <3>2, <4>2
      <4> QED
        BY <1>0, <1>2, <4>2, <4>3
    <3> QED
      BY <2>3, <3>1, <3>2
  <2>6. ButtonsRight' /\ MarksRight' /\ ClipRight'
    BY <1>0, <1>2, <2>1 DEF ButtonsRight, MarksRight, ClipRight, NoClip, Offset, CanReplay, DefaultEnd
  <2> QED
    BY <2>2, <2>4, <2>5, <2>6 DEF ReplayInv
<1>3. CASE Play /\ clip' = NoClip
  <2>1. /\ "play" \in buttons /\ ~playing /\ startedAt' = Started /\ TickAt(startedAt')
        /\ resumed' = [at |-> time, frame |-> cursor + 1] /\ swapped' = FALSE
        /\ UNCHANGED <<frames, errors, trim, reading, time>>
    BY <1>3 DEF Play
  <2>2. ~errors
    BY <1>0, <2>1 DEF ButtonsRight, CanReplay
  <2>3. Started \in Int
    <3>2. Offset(cursor + 1) \in Int
      BY <1>0, OffsetIsNumber
    <3> QED
      BY <1>0, <3>2 DEF Started
  <2>4. /\ resumed'.at = time /\ resumed'.frame = cursor + 1 /\ cursor + 1 \in Nat
        /\ \A i \in 1 .. cursor : ~(i >= cursor + 1)
    BY <1>0, <2>1
  <2>5. startedAt' = resumed'.at - Offset(resumed'.frame)
    BY <2>1, <2>4 DEF Started
  <2> QED
    BY <1>0, <1>2, <1>3, <2>1, <2>2, <2>3, <2>4, <2>5
<1>4. CASE PlaybackTick /\ clip' = NoClip
  <2>1. /\ timer /\ TickAt(startedAt)
        /\ UNCHANGED <<frames, errors, trim, startedAt, reading, time, files, plays, resumed, swapped>>
    BY <1>4 DEF PlaybackTick
  <2>2. /\ startedAt \in Int /\ swapped \in BOOLEAN /\ resumed.at \in Nat /\ resumed.frame \in Nat
        /\ (~swapped => ~errors)
    BY <1>0, <2>1 DEF ReplayType, ButtonsRight
  <2>3. ~swapped =>
          /\ startedAt = resumed.at - Offset(resumed.frame)
          /\ \A i \in 1 .. cursor :
               sent[i].at >= resumed.at /\ i >= resumed.frame
                 => sent[i].at - resumed.at >= Offset(i) - Offset(resumed.frame)
    BY <1>0, <2>1 DEF OnTime
  <2> QED
    BY <1>2, <1>4, <2>1, <2>2, <2>3
<1>5. CASE Pause /\ clip' = NoClip
  BY <1>0, <1>5, QuietStepKeepsReplayInv DEF Pause, PauseNow
<1>6. ASSUME clip' = NoClip, cursor' = 0, sent' = <<>>, timer' = playing', channel' => playing',
             playing' = TRUE => swapped', playing' \in BOOLEAN, swapped' \in BOOLEAN,
             UNCHANGED <<startedAt, time, resumed>>,
             frames' \in Seq(Records), Monotone(frames'), errors' \in BOOLEAN,
             trim'.start \in Nat, trim'.end \in Nat, MarksRight',
             \A file \in reading' : file.recording \in Recordings,
             buttons' \cap {"play", "export"} # {} => CanReplay(frames', errors')
      PROVE  ReplayInv'
  <2>1. <<>> \in Seq(Sent) /\ Len(<<>>) = 0
    OBVIOUS
  <2>2. Len(frames') \in Nat
    BY <1>6
  <2>3. ReplayType'
    BY <1>0, <1>6, <2>1, <2>2 DEF ReplayType
  <2>4. SentInOrder' /\ OnTime' /\ ButtonsRight' /\ ClipRight'
    BY <1>6 DEF SentInOrder, OnTime, ButtonsRight, ClipRight, NoClip
  <2> QED
    BY <1>6, <2>3, <2>4 DEF ReplayInv
<1>7. CASE Reset /\ clip' = NoClip
  <2>1. /\ PauseNow /\ cursor' = 0 /\ sent' = <<>> /\ swapped' = FALSE
        /\ UNCHANGED <<frames, errors, trim, startedAt, reading, time, files, plays, resumed>>
    BY <1>7 DEF Reset
  <2>2. /\ playing' = FALSE /\ timer' = FALSE /\ channel' = FALSE
        /\ (buttons' \cap {"play", "export"} # {} => CanReplay(frames, errors))
    BY <1>0, <2>1 DEF PauseNow, ButtonsRight
  <2>3. frames' \in Seq(Records) /\ Monotone(frames') /\ errors' \in BOOLEAN
    BY <1>0, <2>1 DEF ReplayType
  <2>4. MarksRight'
    BY <1>0, <2>1 DEF MarksRight, DefaultEnd, Offset
  <2>5. CanReplay(frames, errors) = CanReplay(frames', errors')
    BY <2>1
  <2> QED
    BY <1>0, <1>6, <1>7, <2>1, <2>2, <2>3, <2>4, <2>5
<1>8. ASSUME NEW opened \in Recordings, ChooseFile(opened), clip' = NoClip
      PROVE  ReplayInv'
  <2>1. \A file \in reading' : file.recording \in Recordings
    BY <1>0, <1>8 DEF ChooseFile
  <2> QED
    BY <1>0, <1>8, <2>1, QuietStepKeepsReplayInv DEF ChooseFile
<1>9. ASSUME NEW file \in reading, FileRead(file), clip' = NoClip
      PROVE  ReplayInv'
  <2>1. file.recording \in Recordings /\ file.recording.records \in Seq(Records)
        /\ file.recording.errors \in BOOLEAN
    BY <1>0, ReplayAssumption DEF ReplayAssumption, Records
  <2>2. PICK fs \in Seq(Records) : fs = frames' /\ Monotone(fs)
    BY <1>9, <2>1, SortedIsMonotone DEF FileRead
  <2> DEFINE d == IF fs = <<>> THEN 0 ELSE Last(fs).t - fs[1].t
  <2>3. d \in Nat /\ (fs # <<>> => d = fs[Len(fs)].t - fs[1].t /\ Len(fs) \in DOMAIN fs)
    <3>1. CASE fs # <<>>
      <4>1. /\ 1 \in DOMAIN fs /\ Len(fs) \in DOMAIN fs /\ 1 <= Len(fs)
            /\ fs[1].t \in Nat /\ fs[Len(fs)].t \in Nat
        <5>1. 1 \in DOMAIN fs /\ Len(fs) \in DOMAIN fs /\ 1 <= Len(fs)
          BY <3>1
        <5>2. fs[1] \in Records /\ fs[Len(fs)] \in Records
          BY <5>1
        <5> QED
          BY <5>1, <5>2 DEF Records
      <4>2. fs[1].t <= fs[Len(fs)].t
        BY <2>2, <4>1 DEF Monotone
      <4> QED
        BY <3>1, <4>1, <4>2 DEF Last
    <3> QED
      BY <3>1
  <2>4. trim' = [start |-> 0, end |-> DefaultEnd(d), typed |-> FALSE]
    BY <1>9, <2>2 DEF FileRead
  <2> HIDE DEF d
  <2>5. trim'.start \in Nat /\ trim'.end \in Nat
    BY <2>3, <2>4, EndMarkNearEnd
  <2>6. MarksRight'
    <3>1. fs # <<>> => Offset(Len(frames))' = d
      BY <2>2, <2>3 DEF Offset
    <3>2. DefaultEnd(d) = DefaultEnd(d)'
      OBVIOUS
    <3> QED
      BY <2>2, <2>4, <3>1 DEF MarksRight, DefaultEnd
  <2>7. /\ reading' = reading \ {file} /\ errors' = file.recording.errors /\ cursor' = 0
        /\ sent' = <<>> /\ swapped' = playing
        /\ UNCHANGED <<playing, timer, startedAt, channel, time, files, plays, resumed>>
        /\ buttons' = IF CanReplay(frames', errors') THEN {"play", "reset", "export"} ELSE {}
    BY <1>9 DEF FileRead
  <2>8. buttons' \cap {"play", "export"} # {} => CanReplay(frames', errors')
    BY <2>7
  <2> QED
    BY <1>0, <1>6, <1>9, <2>1, <2>2, <2>5, <2>6, <2>7, <2>8
<1>10. ASSUME NEW marks \in TrimMarks, TypeMarks(marks), clip' = NoClip
       PROVE  ReplayInv'
  <2>1. marks.start \in Nat /\ marks.end \in Nat
    BY ReplayAssumption DEF ReplayAssumption
  <2> QED
    BY <1>0, <1>10, <2>1, QuietStepKeepsReplayInv DEF TypeMarks
<1>11. CASE Wait /\ clip' = NoClip
  BY <1>0, <1>11, QuietStepKeepsReplayInv DEF Wait
<1>12. CASE UNCHANGED replayVars
  <2>1. UNCHANGED <<frames, errors, trim, cursor, playing, timer, startedAt, buttons, channel,
                    reading, time, files, plays, sent, resumed, swapped, clip>>
    BY <1>12 DEF replayVars
  <2>2. ReplayType' /\ SentInOrder'
    BY <1>0, <2>1 DEF ReplayType, SentInOrder
  <2>3. OnTime' /\ ButtonsRight' /\ MarksRight'
    BY <1>0, <2>1 DEF OnTime, ButtonsRight, MarksRight, Offset, CanReplay, DefaultEnd
  <2>4. ClipRight'
    <3>1. Faces' = Faces
      BY <2>1 DEF Faces
    <3>2. InTrim' = InTrim
      BY <2>1, <3>1 DEF InTrim
    <3>3. Animation' = Animation
      BY <2>1, <3>2 DEF Animation
    <3>4. Exported' = Exported
      BY <2>1, <3>1, <3>2, <3>3 DEF Exported
    <3> QED
      BY <1>0, <2>1, <3>4 DEF ClipRight, CanReplay, NoClip
  <2> QED
    BY <2>2, <2>3, <2>4 DEF ReplayInv
<1> QED
  BY <1>1, <1>3, <1>4, <1>5, <1>7, <1>8, <1>9, <1>10, <1>11, <1>12 DEF ReplayNext

\* For any recordings and any order of plays, pauses, resets, files chosen and read, marks
\* typed, exports and late ticks, playback sends every frame once, in order and never
\* sooner than the recording has it, and what is exported is the marked part.
THEOREM RecordingAlwaysReplayed == ReplaySpec => []RecordingIsReplayed
<1>1. ReplayInit => ReplayInv
  <2> SUFFICES ASSUME ReplayInit PROVE ReplayInv
    OBVIOUS
  <2>1. <<>> \in Seq(Records) /\ <<>> \in Seq(Sent) /\ Len(<<>>) = 0 /\ DOMAIN <<>> = {}
    OBVIOUS
  <2>2. ReplayType
    <3>1. frames = <<>> /\ sent = <<>> /\ cursor = 0 /\ reading = {}
      BY DEF ReplayInit
    <3>2. frames \in Seq(Records) /\ Monotone(frames) /\ cursor <= Len(frames)
          /\ sent \in Seq(Sent) /\ Len(sent) = cursor /\ \A file \in reading : file.recording \in Recordings
      BY <2>1, <3>1 DEF Monotone
    <3>3. errors \in BOOLEAN /\ playing \in BOOLEAN /\ swapped \in BOOLEAN
      BY DEF ReplayInit
    <3>4. /\ trim.start \in Nat /\ trim.end \in Nat /\ resumed.at \in Nat /\ resumed.frame \in Nat
          /\ startedAt \in Int /\ time \in Nat /\ cursor \in Nat
      BY DEF ReplayInit
    <3> QED
      BY <3>2, <3>3, <3>4 DEF ReplayType
  <2>3. SentInOrder /\ OnTime /\ ButtonsRight /\ MarksRight /\ ClipRight
    <3>1. cursor = 0 /\ 1 .. cursor = {} /\ playing = FALSE /\ timer = FALSE /\ channel = FALSE
          /\ buttons = {} /\ frames = <<>> /\ clip = NoClip
      BY DEF ReplayInit
    <3>2. SentInOrder /\ OnTime
      BY <3>1 DEF SentInOrder, OnTime
    <3>3. ButtonsRight
      BY <3>1 DEF ButtonsRight
    <3>4. MarksRight /\ ClipRight
      BY <3>1 DEF MarksRight, ClipRight
    <3> QED
      BY <3>2, <3>3, <3>4
  <2> QED
    BY <2>2, <2>3 DEF ReplayInv
<1>2. ReplayInv => RecordingIsReplayed
  <2> SUFFICES ASSUME ReplayInv PROVE RecordingIsReplayed
    OBVIOUS
  <2>1. DOMAIN sent = 1 .. cursor
    BY DEF ReplayInv, ReplayType
  <2>2. [i \in DOMAIN sent |-> sent[i].frame] = [i \in 1 .. cursor |-> i]
    BY <2>1 DEF ReplayInv, SentInOrder
  <2>3. /\ timer = playing /\ (channel => playing)
        /\ ~swapped => /\ playing => ~errors
                       /\ \A i \in DOMAIN sent :
                            sent[i].at >= resumed.at /\ i >= resumed.frame
                              => sent[i].at - resumed.at >= Offset(i) - Offset(resumed.frame)
    BY <2>1 DEF ReplayInv, ButtonsRight, OnTime
  <2>4. (clip # NoClip /\ frames[1].face) => ClipIsMarkedPart
    BY ExportedIsMarked DEF ReplayInv, ClipRight
  <2> QED
    BY <2>2, <2>3, <2>4 DEF RecordingIsReplayed
<1> QED
  BY <1>1, <1>2, ReplayInvStep, PTL DEF ReplaySpec

-----------------------------------------------------------------------------
(***************************************************************************)
(* The wire formats, for any frames, containers and cuts, and for a room   *)
(* with any envelopes in any order.                                        *)
(*                                                                         *)
(* WireInv says what a carrier can have made of a packet: it is of another *)
(* layout, or it is what the writer made but for the number of its bytes.  *)
(***************************************************************************)

Blocks == {"face", "pose", "hands"}
FaceNumbers == Int \cup {NoBlock}
FramesWritten == [kind : {"frame"}, face : FaceValues \cup {NoBlock}, pose : FaceValues \cup {NoBlock},
           seq : Nat, hands : {[i \in 1 .. n |-> i] : n \in Nat}]
Packets == [kind : {"frame"}, magic : {"KG", "other"}, version : {1, 2},
            blocks : SUBSET (Blocks \cup {"voice"}), seq : Nat, face : FaceNumbers, pose : FaceNumbers,
            points : {"all", "fewer"}, count : Nat, hands : Seq(Int), bytes : Nat]

\* A packet that decodeFrame does not know.
Foreign(packet) ==
  \/ packet.magic # "KG" \/ packet.version # 1 \/ "voice" \in packet.blocks
  \/ "pose" \in packet.blocks /\ packet.points # "all"
  \/ "hands" \in packet.blocks /\ packet.count > 2

ContainersWritten == [kind : {"container"}, writer : Languages, major : 0 .. 2, payload : Nat]
Containers == [kind : {"container"}, magic : {"KGM1", "other"}, major : 0 .. 2, payloadLen : Nat, bytes : Nat]
Envelopes == [who : SenderIds, sentAt : SentTimes]

FrameOnWire ==
  /\ written \in FramesWritten /\ carried \in Packets
  /\ Foreign(carried) \/ [carried EXCEPT !.bytes = SizeOf(written)] = EncodeFrame(written)
  /\ read \in {<<>>, [r \in {"js"} |-> DecodeFrame(carried)]}

ContainerOnWire ==
  /\ written \in ContainersWritten /\ carried \in Containers
  /\ \/ carried.magic = "other" \/ carried.major \notin SupportedMajors
     \/ carried.major = written.major /\ carried.payloadLen = written.payload
  /\ read \in {<<>>, [js |-> DecodeJs(carried), rust |-> DecodeRust(carried),
                      python |-> DecodePython(carried)]}

RoomOnWire ==
  /\ written = [kind |-> "room"] /\ carried.kind = "room"
  /\ carried.envelopes \in Seq(Envelopes) /\ read = <<>>

WireInv ==
  \/ written = Nothing /\ carried = Nothing /\ read = <<>>
  \/ FrameOnWire \/ ContainerOnWire \/ RoomOnWire

\* A packet has at most two hands, and as many as there are.
LEMMA HandsFit ==
  ASSUME NEW hands \in Seq(Int)
  PROVE  /\ HandsToWrite(hands) \in Seq(Int) /\ Min({2, Len(hands)}) \in 0 .. 2
         /\ Len(HandsToWrite(hands)) = Min({2, Len(hands)})
         /\ Min({2, Len(hands)}) <= Len(hands)
         /\ \A i \in 1 .. Len(HandsToWrite(hands)) : HandsToWrite(hands)[i] = hands[i]
<1>1. Min({2, Len(hands)}) = IF 2 <= Len(hands) THEN 2 ELSE Len(hands)
  BY MinOfTwo
<1>2. PICK m \in 0 .. 2 : m = Min({2, Len(hands)}) /\ m <= Len(hands)
  BY <1>1
<1>3. HandsToWrite(hands) = SubSeq(hands, 1, m)
  BY <1>2 DEF HandsToWrite
<1>4. SubSeq(hands, 1, m) \in Seq(Int) /\ Len(SubSeq(hands, 1, m)) = m
      /\ \A i \in 1 .. m : SubSeq(hands, 1, m)[i] = hands[i]
  <2>1. m \in 0 .. Len(hands) /\ 1 \in 1 .. Len(hands) + 1 /\ m \in 1 - 1 .. Len(hands) /\ Len(hands) \in Nat
    BY <1>2
  <2> QED
    BY <2>1, SubSeqProperties
<1> QED
  BY <1>2, <1>3, <1>4

LEMMA EncodeHandsFit ==
  ASSUME NEW hands \in Seq(Int)
  PROVE  /\ EncodeHands(hands) \in Seq(Int) /\ Len(EncodeHands(hands)) = Min({2, Len(hands)})
         /\ \A i \in 1 .. Len(EncodeHands(hands)) : EncodeHands(hands)[i] = ClampU8(hands[i])
<1>1. PICK m \in 0 .. 2 : m = Min({2, Len(hands)}) /\ m <= Len(hands)
  BY HandsFit
<1>2. DOMAIN HandsToWrite(hands) = 1 .. m
      /\ \A i \in 1 .. m : HandsToWrite(hands)[i] = hands[i] /\ hands[i] \in Int
  BY <1>1, HandsFit
<1>3. \A x \in Int : ClampU8(x) \in Int
  BY WireAssumption DEF WireAssumption, ClampU8, Clip, Rounded
<1>4. EncodeHands(hands) = [i \in 1 .. m |-> ClampU8(HandsToWrite(hands)[i])]
      \/ EncodeHands(hands) = [i \in 1 .. m |-> ClampU8(hands[i])]
  BY <1>2 DEF EncodeHands
<1>5. EncodeHands(hands) \in [1 .. m -> Int] /\ \A i \in 1 .. m : EncodeHands(hands)[i] = ClampU8(hands[i])
  BY <1>2, <1>3, <1>4
<1>6. EncodeHands(hands) \in Seq(Int) /\ Len(EncodeHands(hands)) = m
  <2>1. m \in Nat
    OBVIOUS
  <2> HIDE DEF EncodeHands
  <2> QED
    BY <1>5, <2>1
<1> QED
  BY <1>1, <1>5, <1>6

LEMMA FrameEncoded ==
  ASSUME NEW frame \in FramesWritten
  PROVE  /\ EncodeFrame(frame) \in Packets /\ ~Foreign(EncodeFrame(frame))
         /\ EncodeFrame(frame).bytes = SizeOf(frame) /\ SizeOf(frame) \in Nat
         /\ frame.hands \in Seq(Int) /\ \A i \in 1 .. Len(frame.hands) : frame.hands[i] = i
<1>1. frame.hands \in Seq(Int) /\ \A i \in 1 .. Len(frame.hands) : frame.hands[i] = i
  <2>1. PICK n \in Nat : frame.hands = [i \in 1 .. n |-> i]
    BY DEF FramesWritten
  <2>2. frame.hands \in [1 .. n -> Int]
    BY <2>1
  <2> QED
    BY <2>1, <2>2
<1>2. PICK m \in 0 .. 2 : m = Min({2, Len(frame.hands)}) /\ m = Len(HandsToWrite(frame.hands))
  BY <1>1, HandsFit
<1>3. SizeOf(frame) \in Nat
  BY <1>2 DEF SizeOf, HeaderBytes, FaceBytes, PoseBytes, HandBytes
<1>4. EncodeFace(frame.face) \in FaceNumbers /\ EncodePose(frame.pose) \in FaceNumbers
  <2>1. \A x \in Int : ClampI16(x) \in Int
    BY WireAssumption DEF WireAssumption, ClampI16, Clip, Rounded
  <2>2. frame.face \in Int \cup {NoBlock} /\ frame.pose \in Int \cup {NoBlock}
    BY WireAssumption DEF WireAssumption, FramesWritten
  <2> QED
    BY <2>1, <2>2 DEF EncodeFace, EncodePose, FaceNumbers
<1>5. frame.seq % SeqRange \in Nat
  BY WireAssumption DEF WireAssumption, FramesWritten
<1>6. BlocksOf(frame) \subseteq Blocks
  BY DEF BlocksOf, Blocks
<1>7. EncodeHands(frame.hands) \in Seq(Int)
  BY <1>1, EncodeHandsFit
<1>8. EncodeFrame(frame) \in Packets
  BY <1>2, <1>3, <1>4, <1>5, <1>6, <1>7 DEF EncodeFrame, Packets
<1>9. ~Foreign(EncodeFrame(frame))
  <2>1. "voice" \notin BlocksOf(frame)
    BY <1>6 DEF Blocks
  <2> QED
    BY <1>2, <2>1 DEF Foreign, EncodeFrame
<1> QED
  BY <1>1, <1>3, <1>8, <1>9 DEF EncodeFrame

\* A number comes back within half a step, clamped.
LEMMA NumbersKept ==
  ASSUME NEW x \in Int
  PROVE  /\ 2 * ClampI16(x) - Clip(x, -2 * MaxI16 - 2, 2 * MaxI16) \in {0, 1}
         /\ x \in 1 .. 2 => 2 * ClampU8(x) - Clip(x, -2 * MaxI16 - 2, 2 * MaxI16) \in {0, 1}
<1>1. MaxI16 \in Nat /\ MaxI16 >= 1 /\ MaxU8 \in Nat /\ MaxU8 >= 1
  BY WireAssumption DEF WireAssumption
<1>2. PICK r \in Int : r = (x + 1) \div 2 /\ (2 * r = x \/ 2 * r = x + 1)
  OBVIOUS
<1>3. 2 * ClampI16(x) - Clip(x, -2 * MaxI16 - 2, 2 * MaxI16) \in {0, 1}
  BY <1>1, <1>2 DEF ClampI16, Clip, Rounded
<1>4. x \in 1 .. 2 => 2 * ClampU8(x) - Clip(x, -2 * MaxI16 - 2, 2 * MaxI16) \in {0, 1}
  BY <1>1, <1>2 DEF ClampU8, Clip, Rounded
<1> QED
  BY <1>3, <1>4

\* What decodeFrame makes of a packet: nothing of a foreign or a cut one.
LEMMA FrameDecoded ==
  ASSUME NEW frame \in FramesWritten, NEW packet \in Packets
  PROVE  /\ Foreign(packet) => DecodeFrame(packet) = Refused
         /\ ([packet EXCEPT !.bytes = SizeOf(frame)] = EncodeFrame(frame)) =>
              IF packet.bytes < SizeOf(frame) THEN DecodeFrame(packet) = Refused
              ELSE /\ DecodeFrame(packet) # Refused
                   /\ DecodeFrame(packet).seq = frame.seq % SeqRange
                   /\ DecodeFrame(packet).face = EncodeFace(frame.face)
                   /\ DecodeFrame(packet).pose = EncodePose(frame.pose)
                   /\ DecodeFrame(packet).hands = EncodeHands(frame.hands)
<1>1. Foreign(packet) => DecodeFrame(packet) = Refused
  BY DEF Foreign, DecodeFrame
<1> SUFFICES ASSUME [packet EXCEPT !.bytes = SizeOf(frame)] = EncodeFrame(frame)
             PROVE  IF packet.bytes < SizeOf(frame) THEN DecodeFrame(packet) = Refused
                    ELSE /\ DecodeFrame(packet) # Refused
                         /\ DecodeFrame(packet).seq = frame.seq % SeqRange
                         /\ DecodeFrame(packet).face = EncodeFace(frame.face)
                         /\ DecodeFrame(packet).pose = EncodePose(frame.pose)
                         /\ DecodeFrame(packet).hands = EncodeHands(frame.hands)
  BY <1>1
<1>2. PICK whole \in Packets : whole = EncodeFrame(frame) /\ ~Foreign(whole)
  BY FrameEncoded
<1>3. /\ packet.magic = whole.magic /\ packet.version = whole.version /\ packet.blocks = whole.blocks
      /\ packet.seq = whole.seq /\ packet.face = whole.face /\ packet.pose = whole.pose
      /\ packet.points = whole.points /\ packet.count = whole.count /\ packet.hands = whole.hands
  <2>1. [packet EXCEPT !.bytes = SizeOf(frame)] = whole
    BY <1>2
  <2> QED
    BY <2>1 DEF Packets
<1>4. /\ packet.blocks = BlocksOf(frame) /\ packet.seq = frame.seq % SeqRange
      /\ packet.face = EncodeFace(frame.face) /\ packet.pose = EncodePose(frame.pose)
      /\ packet.hands = EncodeHands(frame.hands) /\ packet.count = Len(HandsToWrite(frame.hands))
  BY <1>2, <1>3 DEF EncodeFrame
<1>5. PICK m \in 0 .. 2 : m = Min({2, Len(frame.hands)}) /\ m = packet.count
  BY <1>4, FrameEncoded, HandsFit
<1>6. packet.bytes \in Nat /\ SizeOf(frame) \in Nat
  BY FrameEncoded DEF Packets
<1>7. /\ "face" \in packet.blocks <=> frame.face # NoBlock
      /\ "pose" \in packet.blocks <=> frame.pose # NoBlock
      /\ "hands" \in packet.blocks <=> frame.hands # <<>>
      /\ packet.blocks \subseteq {"face", "pose", "hands"}
  BY <1>4 DEF BlocksOf
<1>8. EndOf(packet, "face") = HeaderBytes + (IF frame.face # NoBlock THEN FaceBytes ELSE 0)
      /\ EndOf(packet, "pose") = HeaderBytes + (IF frame.face # NoBlock THEN FaceBytes ELSE 0)
                                   + (IF frame.pose # NoBlock THEN PoseBytes ELSE 0)
      /\ EndOf(packet, "hands") = HeaderBytes + (IF frame.face # NoBlock THEN FaceBytes ELSE 0)
                                   + (IF frame.pose # NoBlock THEN PoseBytes ELSE 0) + 1 + m * HandBytes
  BY <1>5, <1>7 DEF EndOf
<1>9. SizeOf(frame) = HeaderBytes + (IF frame.face # NoBlock THEN FaceBytes ELSE 0)
                        + (IF frame.pose # NoBlock THEN PoseBytes ELSE 0)
                        + (IF frame.hands # <<>> THEN 1 + m * HandBytes ELSE 0)
  BY <1>5 DEF SizeOf
<1> DEFINE Cut == packet.bytes < HeaderBytes \/ \E b \in packet.blocks : packet.bytes < EndOf(packet, b)
<1>10. Cut <=> packet.bytes < SizeOf(frame)
  BY <1>6, <1>7, <1>8, <1>9, SMTT(30) DEF HeaderBytes, FaceBytes, PoseBytes, HandBytes
<1>11. CASE Cut
  BY <1>10, <1>11 DEF DecodeFrame
<1>12. CASE ~Cut
  <2>1. DecodeFrame(packet) = [seq |-> packet.seq, face |-> packet.face, pose |-> packet.pose,
                               hands |-> packet.hands]
    <3>1. packet.magic = "KG" /\ packet.version = 1
          /\ ~("pose" \in packet.blocks /\ packet.points # "all")
          /\ ~("hands" \in packet.blocks /\ packet.count > 2)
      BY <1>2, <1>3 DEF Foreign
    <3> QED
      BY <1>7, <1>12, <3>1 DEF DecodeFrame
  <2>2. DecodeFrame(packet) \in
          [seq : Nat, face : Int \cup {NoBlock}, pose : Int \cup {NoBlock}, hands : Seq(Int)]
    BY <2>1 DEF Packets, FaceNumbers
  <2>3. DecodeFrame(packet) # Refused
    BY <2>2, WireAssumption DEF WireAssumption
  <2> QED
    BY <1>4, <1>10, <1>12, <2>1, <2>3
<1> QED
  BY <1>11, <1>12

\* What the readers of a container make of it.
LEMMA ContainerDecoded ==
  ASSUME NEW packet \in Containers, NEW decoded \in {DecodeJs(packet), DecodeRust(packet), DecodePython(packet)}
  PROVE  IF packet.bytes < ContainerBytes \/ packet.magic # "KGM1" \/ packet.major \notin SupportedMajors
            \/ packet.bytes < ContainerBytes + packet.payloadLen
         THEN decoded = Refused
         ELSE decoded # Refused /\ decoded.header.major = packet.major
              /\ decoded.payload = packet.payloadLen
<1> DEFINE header == [major |-> packet.major, payloadLen |-> packet.payloadLen]
           made == [header |-> header, payload |-> packet.payloadLen]
           Bad == packet.bytes < ContainerBytes \/ packet.magic # "KGM1" \/ packet.major \notin SupportedMajors
<1>1. packet.bytes \in Nat /\ packet.payloadLen \in Nat /\ packet.major \in 0 .. 2
  BY DEF Containers
<1>2. header \in [major : 0 .. 2, payloadLen : Nat] /\ header # Refused
  BY <1>1, WireAssumption DEF WireAssumption
<1>3. made \in [header : [major : 0 .. 2, payloadLen : Nat], payload : Nat] /\ made # Refused
  BY <1>1, <1>2, WireAssumption DEF WireAssumption
<1>4. /\ DecodeHeaderJs(packet) = IF Bad THEN Refused ELSE header
      /\ DecodeHeaderRust(packet) = IF Bad THEN Refused ELSE header
      /\ DecodeHeaderPython(packet) = IF Bad THEN Refused ELSE header
  BY <1>1 DEF DecodeHeaderJs, DecodeHeaderRust, DecodeHeaderPython, ContainerBytes
<1> HIDE DEF header
<1>5. ASSUME NEW h, h = IF Bad THEN Refused ELSE header
      PROVE  WithEnd(packet, h) = IF Bad \/ packet.bytes < ContainerBytes + packet.payloadLen THEN Refused ELSE made
  <2>1. header.payloadLen = packet.payloadLen
    BY DEF header
  <2> QED
    BY <1>2, <1>5, <2>1 DEF WithEnd
<1>6. decoded = IF Bad \/ packet.bytes < ContainerBytes + packet.payloadLen THEN Refused ELSE made
  <2> HIDE DEF Bad, made
  <2> QED
    BY <1>4, <1>5 DEF DecodeJs, DecodeRust, DecodePython
<1>7. made.header.major = packet.major /\ made.payload = packet.payloadLen
  BY DEF header
<1> HIDE DEF made
<1> QED
  BY <1>3, <1>6, <1>7

\* The three writers write one packet.
LEMMA ContainerEncoded ==
  ASSUME NEW writer \in Languages, NEW major \in 0 .. 2, NEW payload \in Nat
  PROVE  LET packet == EncodeContainer(writer, major, payload)
         IN  /\ packet \in Containers /\ packet.major = major /\ packet.payloadLen = payload
             /\ packet.bytes = ContainerBytes + payload /\ packet.magic = "KGM1"
<1> DEFINE header == [kind |-> "container", magic |-> "", major |-> major, payloadLen |-> 1, bytes |-> 0]
           Headers == [kind : {"container"}, magic : {"", "KGM1"}, major : 0 .. 2, payloadLen : Nat, bytes : Nat]
<1>1. header \in Headers /\ header.major = major
  OBVIOUS
<1> HIDE DEF header
<1> DEFINE sized == [header EXCEPT !.payloadLen = payload]
<1>2. sized \in Headers /\ sized.major = major /\ sized.payloadLen = payload
  BY <1>1
<1> HIDE DEF sized
<1> DEFINE signed == [sized EXCEPT !.magic = "KGM1", !.bytes = ContainerBytes]
<1>3. signed \in Headers /\ signed.major = major /\ signed.payloadLen = payload
      /\ signed.magic = "KGM1" /\ signed.bytes = ContainerBytes
  BY <1>2 DEF ContainerBytes
<1> HIDE DEF signed
<1> DEFINE whole == [signed EXCEPT !.bytes = @ + payload]
<1>4. whole \in Headers /\ whole.major = major /\ whole.payloadLen = payload
      /\ whole.magic = "KGM1" /\ whole.bytes = ContainerBytes + payload
  <2>1. PICK n \in Nat : n = signed.bytes + payload /\ n = ContainerBytes + payload
    <3>1. signed.bytes = 40 /\ ContainerBytes = 40
      BY <1>3 DEF ContainerBytes
    <3>2. 40 + payload \in Nat
      OBVIOUS
    <3> QED
      BY <3>1, <3>2
  <2>2. whole = [signed EXCEPT !.bytes = n]
    BY <2>1
  <2> HIDE DEF whole
  <2> QED
    BY <1>3, <2>1, <2>2
<1>5. EncodeContainer(writer, major, payload) = whole
  <2>1. EncodeJs(header, payload) = whole /\ EncodeRust(header, payload) = whole
        /\ EncodePython(header, payload) = whole
    BY DEF EncodeJs, EncodeRust, EncodePython, WithPayload, HeaderJs, HeaderRust, HeaderPython,
           whole, signed, sized
  <2> QED
    BY <2>1 DEF EncodeContainer, header, Languages
<1> HIDE DEF whole
<1>6. whole \in Containers
  BY <1>4 DEF Containers
<1> QED
  BY <1>4, <1>5, <1>6

\* The readers make nothing of a packet that was cut or is of another layout, and what was
\* written of any other.
LEMMA WireKeepsInOrder ==
  ASSUME WireInv, carried.kind # "room"
  PROVE  WireKeepsFrames
<1>1. CASE written = Nothing /\ carried = Nothing /\ read = <<>>
  <2>1. DOMAIN read = {}
    BY <1>1
  <2> QED
    BY <2>1 DEF WireKeepsFrames
<1>2. CASE FrameOnWire
  <2>1. written \in FramesWritten /\ carried \in Packets /\ carried.kind = "frame"
    BY <1>2 DEF FrameOnWire, Packets
  <2>2. CASE read = <<>>
    <3>1. DOMAIN read = {}
      BY <2>2
    <3> QED
      BY <3>1 DEF WireKeepsFrames
  <2>3. CASE read = [r \in {"js"} |-> DecodeFrame(carried)]
    <3> DEFINE whole == EncodeFrame(written)
               size == SizeOf(written)
               known == [carried EXCEPT !.bytes = size] = whole /\ carried.magic = "KG"
    <3>1. whole \in Packets /\ ~Foreign(whole) /\ size \in Nat
      BY <2>1, FrameEncoded
    <3>2. Foreign(carried) => ~known
      <4> SUFFICES ASSUME [carried EXCEPT !.bytes = size] = whole, Foreign(carried) PROVE FALSE
        OBVIOUS
      <4> HIDE DEF whole, size
      <4>1. /\ carried.magic = whole.magic /\ carried.version = whole.version
            /\ carried.blocks = whole.blocks /\ carried.points = whole.points /\ carried.count = whole.count
        BY <2>1, <3>1 DEF Packets
      <4> QED
        BY <3>1, <4>1 DEF Foreign
    <3>3. ~Foreign(carried) => known
      BY <1>2 DEF FrameOnWire, Foreign
    <3>4. DOMAIN read = {"js"} /\ read["js"] = DecodeFrame(carried)
      BY <2>3
    <3>5. IF ~known \/ carried.bytes < size THEN read["js"] = Refused
          ELSE /\ read["js"] # Refused
               /\ read["js"].seq = written.seq % SeqRange
               /\ read["js"].face = EncodeFace(written.face) /\ read["js"].pose = EncodePose(written.pose)
               /\ read["js"].hands = EncodeHands(written.hands)
      BY <2>1, <3>2, <3>3, <3>4, FrameDecoded
    <3> DEFINE Kept(x, y) == IF x = NoBlock THEN y = NoBlock
                             ELSE 2 * y - Clip(x, -2 * MaxI16 - 2, 2 * MaxI16) \in {0, 1}
    <3>6. Kept(written.face, EncodeFace(written.face)) /\ Kept(written.pose, EncodePose(written.pose))
      <4>1. /\ written.face \in FaceValues \cup {NoBlock} /\ written.pose \in FaceValues \cup {NoBlock}
            /\ FaceValues \subseteq Int
        BY <2>1, WireAssumption DEF WireAssumption, FramesWritten
      <4> QED
        BY <4>1, NumbersKept DEF EncodeFace, EncodePose
    <3>7. /\ Len(EncodeHands(written.hands)) = Min({2, Len(written.hands)})
          /\ \A i \in DOMAIN EncodeHands(written.hands) : Kept(written.hands[i], EncodeHands(written.hands)[i])
      <4>1. written.hands \in Seq(Int) /\ \A i \in 1 .. Len(written.hands) : written.hands[i] = i
        BY <2>1, FrameEncoded
      <4>2. PICK m \in 0 .. 2 : m = Min({2, Len(written.hands)}) /\ m <= Len(written.hands)
        BY <4>1, HandsFit
      <4>3. /\ DOMAIN EncodeHands(written.hands) = 1 .. m /\ Len(EncodeHands(written.hands)) = m
            /\ \A i \in 1 .. m : EncodeHands(written.hands)[i] = ClampU8(written.hands[i])
        <5>1. /\ EncodeHands(written.hands) \in Seq(Int) /\ Len(EncodeHands(written.hands)) = m
              /\ \A i \in 1 .. Len(EncodeHands(written.hands)) :
                   EncodeHands(written.hands)[i] = ClampU8(written.hands[i])
          BY <4>1, <4>2, EncodeHandsFit
        <5> QED
          BY <5>1
      <4>4. \A i \in 1 .. m : written.hands[i] = i /\ i \in 1 .. 2 /\ i \in Int /\ i # NoBlock
        BY <4>1, <4>2, WireAssumption DEF WireAssumption
      <4> QED
        BY <4>2, <4>3, <4>4, NumbersKept
    <3> HIDE DEF known, size, Kept
    <3>8. \A r \in DOMAIN read :
            IF ~known \/ carried.bytes < size THEN read[r] = Refused
            ELSE /\ read[r] # Refused
                 /\ read[r].seq = written.seq % SeqRange
                 /\ Kept(written.face, read[r].face) /\ Kept(written.pose, read[r].pose)
                 /\ Len(read[r].hands) = Min({2, Len(written.hands)})
                 /\ \A i \in DOMAIN read[r].hands : Kept(written.hands[i], read[r].hands[i])
      BY <3>4, <3>5, <3>6, <3>7
    <3> QED
      BY <2>1, <3>8 DEF WireKeepsFrames, known, size, Kept
  <2> QED
    BY <1>2, <2>2, <2>3 DEF FrameOnWire
<1>3. CASE ContainerOnWire
  <2>1. written \in ContainersWritten /\ carried \in Containers /\ carried.kind = "container"
    BY <1>3 DEF ContainerOnWire, Containers
  <2>2. CASE read = <<>>
    <3>1. DOMAIN read = {}
      BY <2>2
    <3> QED
      BY <3>1 DEF WireKeepsFrames
  <2>3. CASE read = [js |-> DecodeJs(carried), rust |-> DecodeRust(carried), python |-> DecodePython(carried)]
    <3>1. \A r \in DOMAIN read : read[r] \in {DecodeJs(carried), DecodeRust(carried), DecodePython(carried)}
      BY <2>3
    <3> DEFINE known == carried.magic = "KGM1" /\ carried.major \in SupportedMajors
               size == ContainerBytes + written.payload
    <3>2. /\ carried.bytes \in Nat /\ carried.payloadLen \in Nat /\ written.payload \in Nat
          /\ carried.magic \in {"KGM1", "other"}
      BY <2>1 DEF Containers, ContainersWritten
    <3>3. known => carried.major = written.major /\ carried.payloadLen = written.payload
      BY <1>3 DEF ContainerOnWire
    <3>4. ASSUME NEW r \in DOMAIN read
          PROVE  IF ~known \/ carried.bytes < size THEN read[r] = Refused
                 ELSE read[r] # Refused /\ read[r].header.major = written.major /\ read[r].payload = written.payload
      <4>1. PICK decoded \in {DecodeJs(carried), DecodeRust(carried), DecodePython(carried)} : decoded = read[r]
        BY <3>1
      <4>2. IF carried.bytes < ContainerBytes \/ carried.magic # "KGM1" \/ carried.major \notin SupportedMajors
               \/ carried.bytes < ContainerBytes + carried.payloadLen
            THEN decoded = Refused
            ELSE decoded # Refused /\ decoded.header.major = carried.major
                 /\ decoded.payload = carried.payloadLen
        BY <2>1, ContainerDecoded
      <4> QED
        BY <3>2, <3>3, <4>1, <4>2 DEF ContainerBytes
    <3> HIDE DEF known, size
    <3> QED
      BY <2>1, <3>4 DEF WireKeepsFrames, known, size
  <2> QED
    BY <1>3, <2>2, <2>3 DEF ContainerOnWire
<1>4. CASE RoomOnWire
  BY <1>4 DEF RoomOnWire
<1> QED
  BY <1>1, <1>2, <1>3, <1>4 DEF WireInv

\* A sequence that is built step by step exists; After(latest, e) is what Heard makes of it.
LEMMA LatestIsBuilt ==
  ASSUME NEW envelopes \in Seq(Envelopes)
  PROVE  \E latest : /\ latest = [n \in 0 .. Len(envelopes) |->
                                    IF n = 0 THEN <<>> ELSE Heard(latest[n - 1], envelopes[n])]
                     /\ LatestFrameByParticipant(envelopes) = latest[Len(envelopes)]
<1> DEFINE Built(f, m) == f = [n \in 0 .. m |-> IF n = 0 THEN <<>> ELSE Heard(f[n - 1], envelopes[n])]
           unbuilt == {m \in Nat : ~\E f : Built(f, m)}
<1>1. unbuilt = {}
  <2> SUFFICES ASSUME unbuilt # {} PROVE FALSE
    OBVIOUS
  <2>1. PICK m \in unbuilt : \A k \in unbuilt : m <= k
    <3>1. unbuilt \subseteq Nat
      OBVIOUS
    <3> HIDE DEF unbuilt
    <3> QED
      BY <3>1, LeastNatural
  <2>2. CASE m = 0
    <3> DEFINE f == [n \in 0 .. 0 |-> <<>>]
    <3>1. \A n \in 0 .. 0 : n = 0
      OBVIOUS
    <3>2. Built(f, 0)
      BY <3>1
    <3> QED
      BY <2>1, <2>2, <3>2
  <2>3. CASE m > 0
    <3>1. m - 1 \in Nat /\ m - 1 \notin unbuilt
      <4>1. m - 1 \in Nat /\ ~(m <= m - 1)
        BY <2>1, <2>3
      <4> HIDE DEF unbuilt
      <4> QED
        BY <2>1, <4>1
    <3>2. PICK f : Built(f, m - 1)
      BY <3>1
    <3> DEFINE g == [n \in 0 .. m |-> IF n = m THEN Heard(f[m - 1], envelopes[m]) ELSE f[n]]
    <3>3. ASSUME NEW n \in 0 .. m
          PROVE  g[n] = IF n = 0 THEN <<>> ELSE Heard(g[n - 1], envelopes[n])
      <4>1. CASE n = m
        <5>1. g[n] = Heard(f[m - 1], envelopes[m]) /\ m - 1 \in 0 .. m /\ m - 1 # m /\ n # 0
          BY <2>1, <2>3, <3>1, <4>1
        <5>2. g[m - 1] = f[m - 1]
          BY <5>1
        <5> QED
          BY <4>1, <5>1, <5>2
      <4>2. CASE n = 0
        <5>1. g[0] = f[0] /\ 0 \in 0 .. m - 1
          BY <2>3, <3>1, <4>2
        <5>2. f[0] = <<>>
          BY <3>2, <5>1
        <5> QED
          BY <4>2, <5>1, <5>2
      <4>3. CASE n # 0 /\ n # m
        <5>1. n \in 0 .. m - 1 /\ n - 1 \in 0 .. m - 1 /\ n - 1 \in 0 .. m /\ n - 1 # m
          BY <2>1, <3>1, <4>3
        <5>2. g[n] = f[n] /\ g[n - 1] = f[n - 1]
          BY <4>3, <5>1
        <5>3. f[n] = Heard(f[n - 1], envelopes[n])
          BY <3>2, <4>3, <5>1
        <5> QED
          BY <4>3, <5>2, <5>3
      <4> QED
        BY <4>1, <4>2, <4>3
    <3>4. g = [n \in 0 .. m |-> g[n]]
      OBVIOUS
    <3> HIDE DEF g
    <3>5. Built(g, m)
      BY <3>3, <3>4
    <3> QED
      BY <2>1, <3>5
  <2> QED
    BY <2>1, <2>2, <2>3
<1>2. Len(envelopes) \in Nat
  OBVIOUS
<1>3. \E f : Built(f, Len(envelopes))
  BY <1>1, <1>2
<1> DEFINE latest == CHOOSE f : Built(f, Len(envelopes))
<1>4. LatestFrameByParticipant(envelopes) = latest[Len(envelopes)]
  BY DEF LatestFrameByParticipant
<1>5. Built(latest, Len(envelopes))
  <2> HIDE DEF Built
  <2> QED
    BY <1>3
<1> HIDE DEF latest
<1> QED
  BY <1>4, <1>5

\* What is known of the senders after the first envelopes: of each the last time it sent at.
Latest(latest, envelopes, m) ==
  /\ latest = [w \in DOMAIN latest |-> latest[w]]
  /\ DOMAIN latest = {envelopes[i].who : i \in 1 .. m}
  /\ \A i \in 1 .. m : latest[envelopes[i].who] \in SentTimes /\ envelopes[i].sentAt <= latest[envelopes[i].who]
  /\ \A w \in DOMAIN latest : \E i \in 1 .. m : envelopes[i].who = w /\ envelopes[i].sentAt = latest[w]

LEMMA LatestIsLatest ==
  ASSUME NEW envelopes \in Seq(Envelopes)
  PROVE  Latest(LatestFrameByParticipant(envelopes), envelopes, Len(envelopes))
<1> DEFINE N == Len(envelopes)
<1>1. PICK latest : /\ latest = [n \in 0 .. N |-> IF n = 0 THEN <<>> ELSE Heard(latest[n - 1], envelopes[n])]
                    /\ LatestFrameByParticipant(envelopes) = latest[N]
  BY LatestIsBuilt
<1>2. /\ N \in Nat
      /\ \A n \in 0 .. N : latest[n] = IF n = 0 THEN <<>> ELSE Heard(latest[n - 1], envelopes[n])
      /\ \A i \in 1 .. N : envelopes[i] \in Envelopes
  <2>1. N \in Nat /\ \A i \in 1 .. N : envelopes[i] \in Envelopes
    OBVIOUS
  <2> HIDE DEF N
  <2> QED
    BY <1>1, <2>1
<1> HIDE DEF N
<1>3. \A i \in 1 .. N : envelopes[i].sentAt \in SentTimes /\ envelopes[i].sentAt \in Nat
  BY <1>2, WireAssumption DEF WireAssumption, Envelopes
<1> DEFINE wrong == {n \in Nat : n <= N /\ ~Latest(latest[n], envelopes, n)}
<1>4. wrong = {}
  <2> SUFFICES ASSUME wrong # {} PROVE FALSE
    OBVIOUS
  <2>1. PICK n \in wrong : \A k \in wrong : n <= k
    <3>1. wrong \subseteq Nat
      OBVIOUS
    <3> HIDE DEF wrong
    <3> QED
      BY <3>1, LeastNatural
  <2>2. CASE n = 0
    <3>1. latest[0] = <<>> /\ DOMAIN latest[0] = {} /\ 1 .. 0 = {}
      BY <1>2, <2>1, <2>2
    <3>2. <<>> = [w \in {} |-> <<>>[w]]
      OBVIOUS
    <3>3. Latest(latest[0], envelopes, 0)
      BY <3>1, <3>2 DEF Latest
    <3> QED
      BY <2>1, <2>2, <3>3
  <2>3. CASE n > 0
    <3>1. n - 1 \in Nat /\ n - 1 <= N /\ n - 1 \notin wrong /\ n \in 1 .. N /\ n \in Nat
      BY <1>2, <2>1, <2>3
    <3>2. Latest(latest[n - 1], envelopes, n - 1)
      BY <3>1
    <3>3. PICK before, e : before = latest[n - 1] /\ e = envelopes[n]
      OBVIOUS
    <3>4. latest[n] = Heard(before, e)
      BY <1>2, <2>3, <3>1, <3>3
    <3>5. e \in Envelopes /\ e.sentAt \in Nat /\ e.sentAt \in SentTimes
      BY <1>2, <1>3, <3>1, <3>3
    <3>6. 1 .. n = (1 .. n - 1) \cup {n} /\ 1 .. n - 1 \subseteq 1 .. N
      <4>1. 1 .. n = (1 .. n - 1) \cup {n}
        BY <3>1
      <4>2. 1 .. n - 1 \subseteq 1 .. N
        BY <1>2, <3>1
      <4> QED
        BY <4>1, <4>2
    <3>7. /\ before = [w \in DOMAIN before |-> before[w]]
          /\ DOMAIN before = {envelopes[i].who : i \in 1 .. n - 1}
          /\ \A i \in 1 .. n - 1 : before[envelopes[i].who] \in SentTimes
                                   /\ envelopes[i].sentAt <= before[envelopes[i].who]
          /\ \A w \in DOMAIN before :
               \E i \in 1 .. n - 1 : envelopes[i].who = w /\ envelopes[i].sentAt = before[w]
      BY <3>2, <3>3 DEF Latest
    <3>8. CASE e.who \in DOMAIN before /\ e.sentAt < before[e.who]
      <4>1. latest[n] = before
        BY <3>4, <3>8 DEF Heard
      <4>2. {envelopes[i].who : i \in 1 .. n} = DOMAIN before
        BY <3>3, <3>6, <3>7, <3>8
      <4>3. \A i \in 1 .. n : before[envelopes[i].who] \in SentTimes
                              /\ envelopes[i].sentAt <= before[envelopes[i].who]
        <5>1. PICK j \in 1 .. n - 1 : envelopes[j].who = e.who /\ envelopes[j].sentAt = before[e.who]
          BY <3>7, <3>8
        <5>2. before[e.who] \in Nat /\ before[e.who] \in SentTimes /\ e.sentAt <= before[e.who]
          BY <1>3, <3>5, <3>6, <3>8, <5>1
        <5> QED
          BY <3>3, <3>6, <3>7, <5>2
      <4>4. \A w \in DOMAIN before : \E i \in 1 .. n : envelopes[i].who = w /\ envelopes[i].sentAt = before[w]
        BY <3>6, <3>7
      <4>5. Latest(before, envelopes, n)
        BY <3>7, <4>2, <4>3, <4>4 DEF Latest
      <4> QED
        BY <2>1, <4>1, <4>5
    <3>9. CASE ~(e.who \in DOMAIN before /\ e.sentAt < before[e.who])
      <4> DEFINE now == [w \in DOMAIN before \cup {e.who} |-> IF w = e.who THEN e.sentAt ELSE before[w]]
      <4>1. latest[n] = now
        BY <3>4, <3>9 DEF Heard
      <4>2. DOMAIN now = {envelopes[i].who : i \in 1 .. n}
        BY <3>3, <3>6, <3>7
      <4>3. now[e.who] = e.sentAt /\ \A w \in DOMAIN before : w # e.who => now[w] = before[w]
        OBVIOUS
      <4>4. now = [w \in DOMAIN now |-> now[w]]
        OBVIOUS
      <4> HIDE DEF now
      <4>5. ASSUME NEW i \in 1 .. n
            PROVE  now[envelopes[i].who] \in SentTimes /\ envelopes[i].sentAt <= now[envelopes[i].who]
        <5>1. CASE i = n
          BY <3>3, <3>5, <4>3, <5>1
        <5>2. CASE i \in 1 .. n - 1 /\ envelopes[i].who # e.who
          BY <3>7, <4>3, <5>2
        <5>3. CASE i \in 1 .. n - 1 /\ envelopes[i].who = e.who
          <6>1. e.who \in DOMAIN before /\ envelopes[i].sentAt <= before[e.who]
            BY <3>7, <5>3
          <6>2. PICK j \in 1 .. n - 1 : envelopes[j].sentAt = before[e.who]
            BY <3>7, <6>1
          <6>3. before[e.who] \in Nat /\ envelopes[i].sentAt \in Nat
            BY <1>3, <3>6, <5>3, <6>2
          <6>4. envelopes[i].sentAt <= e.sentAt
            BY <3>5, <3>9, <6>1, <6>3
          <6> QED
            BY <3>5, <4>3, <5>3, <6>4
        <5> QED
          BY <3>6, <5>1, <5>2, <5>3
      <4>6. ASSUME NEW w \in DOMAIN now
            PROVE  \E i \in 1 .. n : envelopes[i].who = w /\ envelopes[i].sentAt = now[w]
        <5>1. CASE w = e.who
          BY <3>3, <3>6, <4>3, <5>1
        <5>2. CASE w # e.who
          <6>1. w \in DOMAIN before
            BY <5>2 DEF now
          <6> QED
            BY <3>6, <3>7, <4>3, <5>2, <6>1, ZenonT(40)
        <5> QED
          BY <5>1, <5>2
      <4>7. Latest(now, envelopes, n)
        BY <4>2, <4>4, <4>5, <4>6 DEF Latest
      <4> QED
        BY <2>1, <4>1, <4>7
    <3> QED
      BY <3>8, <3>9
  <2> QED
    BY <2>1, <2>2, <2>3
<1>5. Latest(latest[N], envelopes, N)
  BY <1>2, <1>4
<1> QED
  BY <1>1, <1>5 DEF N

\* The order of the envelopes does not matter to what is known of the senders.
LEMMA LatestOfReverse ==
  ASSUME NEW envelopes \in Seq(Envelopes)
  PROVE  LatestFrameByParticipant(Reverse(envelopes)) = LatestFrameByParticipant(envelopes)
<1> DEFINE N == Len(envelopes)
           back == Reverse(envelopes)
           one == LatestFrameByParticipant(envelopes)
           two == LatestFrameByParticipant(back)
<1>1. N \in Nat /\ \A i \in 1 .. N : envelopes[i] \in Envelopes
  OBVIOUS
<1>2. \A i \in 1 .. N : N - i + 1 \in 1 .. N /\ N - (N - i + 1) + 1 = i
  BY <1>1
<1>3. back \in Seq(Envelopes) /\ Len(back) = N
      /\ \A i \in 1 .. N : back[i] = envelopes[N - i + 1] /\ back[N - i + 1] = envelopes[i]
  <2>1. back = [i \in 1 .. N |-> envelopes[N - i + 1]]
    BY DEF Reverse
  <2> HIDE DEF N
  <2>2. back \in [1 .. N -> Envelopes]
    BY <1>1, <1>2, <2>1
  <2> HIDE DEF back
  <2>3. back \in Seq(Envelopes) /\ Len(back) = N
    BY <1>1, <2>2
  <2> QED
    BY <1>2, <2>1, <2>3
<1>4. Latest(one, envelopes, N) /\ Latest(two, back, N)
  <2> HIDE DEF back
  <2> QED
    BY <1>3, LatestIsLatest
<1> HIDE DEF N, back, one, two
<1>5. DOMAIN one = DOMAIN two
  <2>1. DOMAIN one = {envelopes[i].who : i \in 1 .. N} /\ DOMAIN two = {back[i].who : i \in 1 .. N}
    BY <1>4 DEF Latest
  <2>2. ASSUME NEW i \in 1 .. N PROVE envelopes[i].who \in DOMAIN two /\ back[i].who \in DOMAIN one
    <3>1. N - i + 1 \in 1 .. N
      BY <1>2
    <3>2. envelopes[i].who = back[N - i + 1].who /\ back[i].who = envelopes[N - i + 1].who
      BY <1>3
    <3> QED
      BY <2>1, <3>1, <3>2
  <2> QED
    BY <2>1, <2>2
<1>6. ASSUME NEW w \in DOMAIN one PROVE one[w] = two[w]
  <2>1. PICK i \in 1 .. N : envelopes[i].who = w /\ envelopes[i].sentAt = one[w]
    BY <1>4 DEF Latest
  <2>2. PICK j \in 1 .. N : back[j].who = w /\ back[j].sentAt = two[w]
    BY <1>4, <1>5 DEF Latest
  <2>3. back[N - i + 1].who = w /\ back[N - i + 1].sentAt = one[w] /\ N - i + 1 \in 1 .. N
    BY <1>2, <1>3, <2>1
  <2>4. envelopes[N - j + 1].who = w /\ envelopes[N - j + 1].sentAt = two[w] /\ N - j + 1 \in 1 .. N
    BY <1>2, <1>3, <2>2
  <2>5. one[w] <= two[w]
    BY <1>4, <2>3 DEF Latest
  <2>6. two[w] <= one[w]
    BY <1>4, <2>4 DEF Latest
  <2>7. one[w] \in Nat /\ two[w] \in Nat
    BY <1>1, <2>1, <2>4, WireAssumption DEF WireAssumption, Envelopes
  <2> QED
    BY <2>5, <2>6, <2>7
<1>7. one = [w \in DOMAIN one |-> one[w]] /\ two = [w \in DOMAIN two |-> two[w]]
  BY <1>4 DEF Latest
<1>8. one = two
  BY <1>5, <1>6, <1>7
<1> QED
  BY <1>8 DEF one, two, back

\* A room shows of each participant the latest frame, whatever order they came in.
LEMMA RoomKeepsLatest ==
  ASSUME RoomOnWire
  PROVE  WireKeepsFrames
<1> DEFINE envelopes == carried.envelopes
           N == Len(envelopes)
           latest == LatestFrameByParticipant(envelopes)
           Times(w) == {envelopes[i].sentAt : i \in {i \in DOMAIN envelopes : envelopes[i].who = w}}
<1>1. envelopes \in Seq(Envelopes) /\ N \in Nat /\ DOMAIN envelopes = 1 .. N
      /\ \A i \in 1 .. N : envelopes[i].sentAt \in Nat
  <2>1. envelopes \in Seq(Envelopes)
    BY DEF RoomOnWire
  <2> HIDE DEF envelopes
  <2>2. \A i \in 1 .. N : envelopes[i] \in Envelopes
    BY <2>1
  <2>3. \A e \in Envelopes : e.sentAt \in SentTimes
    BY DEF Envelopes
  <2>4. SentTimes \subseteq Nat
    BY WireAssumption DEF WireAssumption
  <2>5. N \in Nat /\ DOMAIN envelopes = 1 .. N
    BY <2>1
  <2> QED
    BY <2>1, <2>2, <2>3, <2>4, <2>5
<1>2. Latest(latest, envelopes, N)
  <2> HIDE DEF envelopes
  <2> QED
    BY <1>1, LatestIsLatest
<1>3. LatestFrameByParticipant(Reverse(envelopes)) = latest
  <2> HIDE DEF envelopes
  <2> QED
    BY <1>1, LatestOfReverse
<1> HIDE DEF envelopes, latest, N
<1>4. ASSUME NEW w \in DOMAIN latest PROVE latest[w] = Max(Times(w))
  <2>1. latest[w] \in Times(w)
    BY <1>1, <1>2 DEF Latest
  <2>2. ASSUME NEW t \in Times(w) PROVE t \in Nat /\ t <= latest[w]
    <3>1. PICK i \in 1 .. N : envelopes[i].who = w /\ t = envelopes[i].sentAt
      BY <1>1
    <3> QED
      BY <1>1, <1>2, <3>1 DEF Latest
  <2> HIDE DEF Times
  <2>3. Max(Times(w)) \in Times(w) /\ \A t \in Times(w) : Max(Times(w)) >= t
    BY <2>1, <2>2 DEF Max
  <2>4. PICK a \in Nat, b \in Nat : a = latest[w] /\ b = Max(Times(w)) /\ a <= b /\ b <= a
    BY <2>1, <2>2, <2>3
  <2> QED
    BY <2>4
<1>5. DOMAIN read = {}
  BY DEF RoomOnWire
<1> QED
  BY <1>3, <1>4, <1>5 DEF WireKeepsFrames, envelopes, latest

LEMMA WireInvStep == WireInv /\ [WireNext]_wireVars => WireInv'
<1> SUFFICES ASSUME WireInv, [WireNext]_wireVars PROVE WireInv'
  OBVIOUS
<1>0. /\ written.kind = "none" => carried = Nothing /\ read = <<>>
      /\ written = Nothing => carried = Nothing
      /\ written.kind = "frame" => FrameOnWire
      /\ written.kind = "container" => ContainerOnWire
      /\ written.kind = "room" => RoomOnWire
      /\ carried = Nothing => written = Nothing
      /\ carried.kind = "frame" => FrameOnWire
      /\ carried.kind = "container" => ContainerOnWire
      /\ written.kind \in {"none", "frame", "container", "room"}
      /\ carried # Nothing /\ carried.kind # "room" => carried.kind \in {"frame", "container"}
  <2>1. CASE written = Nothing /\ carried = Nothing /\ read = <<>>
    BY <2>1 DEF Nothing
  <2>2. CASE FrameOnWire
    <3>1. written.kind = "frame" /\ carried.kind = "frame"
      BY <2>2 DEF FrameOnWire, FramesWritten, Packets
    <3> QED
      BY <2>2, <3>1 DEF Nothing
  <2>3. CASE ContainerOnWire
    <3>1. written.kind = "container" /\ carried.kind = "container"
      BY <2>3 DEF ContainerOnWire, ContainersWritten, Containers
    <3> QED
      BY <2>3, <3>1 DEF Nothing
  <2>4. CASE RoomOnWire
    <3>1. written.kind = "room" /\ carried.kind = "room"
      BY <2>4 DEF RoomOnWire
    <3> QED
      BY <2>4, <3>1 DEF Nothing
  <2> QED
    BY <2>1, <2>2, <2>3, <2>4 DEF WireInv
<1>1. ASSUME NEW face \in FaceValues \cup {NoBlock}, NEW pose \in FaceValues \cup {NoBlock},
             NEW hands \in HandCounts, NEW seq \in FrameSeqs, WriteFrame(face, pose, hands, seq)
      PROVE  WireInv'
  <2> DEFINE frame == [kind |-> "frame", face |-> face, pose |-> pose, seq |-> seq,
                       hands |-> [i \in 1 .. hands |-> i]]
  <2>1. hands \in Nat /\ seq \in Nat
    BY WireAssumption DEF WireAssumption
  <2>2. frame \in FramesWritten
    BY <2>1 DEF FramesWritten
  <2>3. written' = frame /\ carried' = EncodeFrame(frame) /\ read' = <<>>
    BY <1>1 DEF WriteFrame
  <2> HIDE DEF frame
  <2> DEFINE whole == EncodeFrame(frame)
  <2>4. whole \in Packets /\ whole.bytes = SizeOf(frame)
    BY <2>2, FrameEncoded
  <2>5. [whole EXCEPT !.bytes = SizeOf(frame)] = whole
    <3> HIDE DEF whole
    <3> QED
      BY <2>4 DEF Packets
  <2>6. FrameOnWire'
    BY <2>2, <2>3, <2>4, <2>5 DEF FrameOnWire
  <2> QED
    BY <2>6 DEF WireInv
<1>2. ASSUME NEW writer \in Languages, NEW major \in 0 .. 2, NEW payload \in Payloads,
             WriteContainer(writer, major, payload)
      PROVE  WireInv'
  <2>1. payload \in Nat
    BY WireAssumption DEF WireAssumption
  <2>2. written' = [kind |-> "container", writer |-> writer, major |-> major, payload |-> payload]
        /\ carried' = EncodeContainer(writer, major, payload) /\ read' = <<>>
    BY <1>2 DEF WriteContainer
  <2>3. carried' \in Containers /\ carried'.major = major /\ carried'.payloadLen = payload
    BY <2>1, <2>2, ContainerEncoded
  <2>4. written' \in ContainersWritten /\ written'.major = major /\ written'.payload = payload
    BY <2>1, <2>2 DEF ContainersWritten
  <2>5. ContainerOnWire'
    BY <2>2, <2>3, <2>4 DEF ContainerOnWire
  <2> QED
    BY <2>5 DEF WireInv
<1>3. ASSUME NEW bytes \in Nat, Carry(bytes)
      PROVE  WireInv'
  <2>1. carried' = [carried EXCEPT !.bytes = bytes] /\ written' = written /\ read' = read /\ read = <<>>
        /\ written.kind \in {"frame", "container"}
    BY <1>3 DEF Carry, Intact
  <2>2. CASE written.kind = "frame"
    <3>1. written \in FramesWritten /\ carried \in Packets
          /\ (Foreign(carried) \/ [carried EXCEPT !.bytes = SizeOf(written)] = EncodeFrame(written))
      BY <1>0, <2>2 DEF FrameOnWire
    <3>2. carried' \in Packets /\ (Foreign(carried) => Foreign(carried'))
      BY <2>1, <3>1 DEF Packets, Foreign
    <3>3. SizeOf(written) \in Nat
      BY <3>1, FrameEncoded
    <3>4. [carried' EXCEPT !.bytes = SizeOf(written)] = [carried EXCEPT !.bytes = SizeOf(written)]
      BY <2>1, <3>1, <3>3 DEF Packets
    <3>5. SizeOf(written)' = SizeOf(written) /\ EncodeFrame(written)' = EncodeFrame(written)
          /\ (written \in FramesWritten)' = (written \in FramesWritten)
      BY <2>1
    <3>6. FrameOnWire'
      BY <2>1, <3>1, <3>2, <3>4, <3>5 DEF FrameOnWire
    <3> QED
      BY <3>6 DEF WireInv
  <2>3. CASE written.kind = "container"
    <3>1. ContainerOnWire
      BY <1>0, <2>3
    <3>2. carried' \in Containers /\ carried'.magic = carried.magic /\ carried'.major = carried.major
          /\ carried'.payloadLen = carried.payloadLen
      BY <2>1, <3>1 DEF ContainerOnWire, Containers
    <3>3. ContainerOnWire'
      BY <2>1, <3>1, <3>2 DEF ContainerOnWire
    <3> QED
      BY <3>3 DEF WireInv
  <2> QED
    BY <2>1, <2>2, <2>3
<1>4. CASE CarryForeign
  <2>1. written' = written /\ read' = read /\ read = <<>> /\ written.kind \in {"frame", "container"}
        /\ \/ carried' = [carried EXCEPT !.magic = "other"]
           \/ carried.kind = "frame" /\ \/ carried' = [carried EXCEPT !.version = 2]
                                        \/ carried' = [carried EXCEPT !.blocks = @ \cup {"voice"}]
                                        \/ "pose" \in carried.blocks /\ carried' = [carried EXCEPT !.points = "fewer"]
                                        \/ "hands" \in carried.blocks /\ carried' = [carried EXCEPT !.count = 3]
           \/ carried.kind = "container" /\ carried' = [carried EXCEPT !.major = 2]
    BY <1>4 DEF CarryForeign, Intact
  <2>2. CASE written.kind = "frame"
    <3>1. written \in FramesWritten /\ carried \in Packets /\ carried.kind = "frame"
      BY <1>0, <2>2 DEF FrameOnWire, Packets
    <3>2. CASE carried' = [carried EXCEPT !.magic = "other"]
      BY <2>1, <3>1, <3>2 DEF Packets, Foreign, FrameOnWire, WireInv
    <3>3. CASE carried' = [carried EXCEPT !.version = 2]
      <4>1. carried' \in Packets /\ carried'.version # 1
        BY <3>1, <3>3, SMTT(30) DEF Packets
      <4> QED
        BY <2>1, <3>1, <4>1 DEF Foreign, FrameOnWire, WireInv
    <3>4. CASE carried' = [carried EXCEPT !.blocks = @ \cup {"voice"}]
      <4>1. PICK blocks \in SUBSET (Blocks \cup {"voice"}) : blocks = carried.blocks \cup {"voice"}
        BY <3>1 DEF Packets
      <4>2. carried' = [carried EXCEPT !.blocks = blocks]
        BY <3>4, <4>1
      <4>3. carried' \in Packets /\ "voice" \in carried'.blocks
        BY <3>1, <4>1, <4>2 DEF Packets
      <4> QED
        BY <2>1, <3>1, <4>3 DEF Foreign, FrameOnWire, WireInv
    <3>5. CASE "pose" \in carried.blocks /\ carried' = [carried EXCEPT !.points = "fewer"]
      BY <2>1, <3>1, <3>5 DEF Packets, Foreign, FrameOnWire, WireInv
    <3>6. CASE "hands" \in carried.blocks /\ carried' = [carried EXCEPT !.count = 3]
      BY <2>1, <3>1, <3>6 DEF Packets, Foreign, FrameOnWire, WireInv
    <3> QED
      BY <2>1, <3>1, <3>2, <3>3, <3>4, <3>5, <3>6
  <2>3. CASE written.kind = "container"
    <3>1. written \in ContainersWritten /\ carried \in Containers /\ carried.kind = "container"
      BY <1>0, <2>3 DEF ContainerOnWire, Containers
    <3>2. CASE carried' = [carried EXCEPT !.magic = "other"]
      BY <2>1, <3>1, <3>2 DEF Containers, ContainerOnWire, WireInv
    <3>3. CASE carried' = [carried EXCEPT !.major = 2]
      BY <2>1, <3>1, <3>3 DEF Containers, ContainerOnWire, WireInv, SupportedMajors
    <3> QED
      BY <2>1, <3>1, <3>2, <3>3
  <2> QED
    BY <2>1, <2>2, <2>3
<1>5. CASE ReadPacket
  <2>1. /\ carried # Nothing /\ carried.kind # "room" /\ written' = written /\ carried' = carried
        /\ read' = IF carried.kind = "frame" THEN [r \in {"js"} |-> DecodeFrame(carried)]
                   ELSE [js |-> DecodeJs(carried), rust |-> DecodeRust(carried), python |-> DecodePython(carried)]
    BY <1>5 DEF ReadPacket
  <2>2. CASE carried.kind = "frame"
    <3>1. FrameOnWire /\ read' = [r \in {"js"} |-> DecodeFrame(carried)]
      BY <1>0, <2>1, <2>2
    <3>2. FrameOnWire'
      BY <2>1, <3>1 DEF FrameOnWire
    <3> QED
      BY <3>2 DEF WireInv
  <2>3. CASE carried.kind = "container"
    <3>1. ContainerOnWire /\ read' = [js |-> DecodeJs(carried), rust |-> DecodeRust(carried), python |-> DecodePython(carried)]
      BY <1>0, <2>1, <2>3
    <3>2. ContainerOnWire'
      BY <2>1, <3>1 DEF ContainerOnWire
    <3> QED
      BY <3>2 DEF WireInv
  <2> QED
    BY <1>0, <2>1, <2>2, <2>3
<1>6. ASSUME NEW who \in SenderIds, NEW sentAt \in SentTimes, WrapForRoom(who, sentAt)
      PROVE  WireInv'
  <2> DEFINE before == IF written.kind = "room" THEN carried.envelopes ELSE <<>>
             e == [who |-> who, sentAt |-> sentAt]
  <2>1. /\ written.kind \in {"none", "room"} /\ written' = [kind |-> "room"] /\ read' = read
        /\ carried' = [kind |-> "room", envelopes |-> Append(before, e)]
    BY <1>6 DEF WrapForRoom
  <2>2. before \in Seq(Envelopes) /\ e \in Envelopes /\ read = <<>>
    BY <1>0, <2>1 DEF RoomOnWire, Envelopes
  <2> HIDE DEF before, e
  <2>3. Append(before, e) \in Seq(Envelopes)
    BY <2>2
  <2>4. RoomOnWire'
    BY <2>1, <2>2, <2>3 DEF RoomOnWire
  <2> QED
    BY <2>4 DEF WireInv
<1>7. CASE UNCHANGED wireVars
  BY <1>7 DEF wireVars, WireInv, FrameOnWire, ContainerOnWire, RoomOnWire
<1>8. \A bytes \in 0 .. HeaderBytes + FaceBytes + PoseBytes + 2 * HandBytes + 2 : bytes \in Nat
  OBVIOUS
<1> QED
  BY <1>1, <1>2, <1>3, <1>4, <1>5, <1>6, <1>7, <1>8 DEF WireNext

\* For any numbers, hands, payloads, cuts, layouts and orders of envelopes, a packet is read
\* as it was written, alike in every language, or refused as a whole, and a room shows the
\* latest frame of each participant.
THEOREM WireAlwaysKeepsFrames == WireSpec => []WireKeepsFrames
<1>1. WireInit => WireInv
  BY DEF WireInit, WireInv
<1>2. WireInv => WireKeepsFrames
  <2>1. CASE carried.kind # "room"
    BY <2>1, WireKeepsInOrder
  <2>2. ASSUME carried.kind = "room", WireInv PROVE RoomOnWire
    BY <2>2 DEF WireInv, FrameOnWire, ContainerOnWire, Packets, Containers, Nothing
  <2> QED
    BY <2>1, <2>2, RoomKeepsLatest
<1> QED
  BY <1>1, <1>2, WireInvStep, PTL DEF WireSpec
=============================================================================
