--------------------------- MODULE ExpressionMaps ---------------------------
(***************************************************************************)
(* How the viewer drives an avatar's own expressions from the face         *)
(* channels: the map made for an avatar when it is shown, the editor that  *)
(* shows the map as text, the timer that applies an edit a quarter of a    *)
(* second later, and the import of a map from a file.                      *)
(*                                                                         *)
(* A name is the sequence of its words.  A target of a map is              *)
(* [out |-> name, sources |-> set of channels]; curves, weights and clamps *)
(* are left out.                                                           *)
(***************************************************************************)
EXTENDS Integers, Sequences, SequencesExt, FiniteSets, FiniteSetsExt

CONSTANTS
  VrmAvatars,        \* sets of expression names, as listVrmExpressionNames finds them
  InochiAvatars,     \* sequences of parameter names
  PerfectSyncMin,    \* PERFECT_SYNC_MIN_MATCHES
  OtherScript,       \* words that are not in Latin letters
  UserMaps,          \* maps a user types or has in a file
  Broken,            \* a text that is no map
  Idle

ASSUME MapAssumption ==
  \A names \in InochiAvatars : Len(names) \in Nat /\ DOMAIN names = 1 .. Len(names)

VARIABLES
  body,        \* "bot", "vrm", "inochi": what the face drives
  available,   \* availableExpressionNames
  expressions, \* expressionMap
  editor,      \* what the text area holds: a map, or Broken text
  edited,      \* mappingEditTimer is set
  importing,     \* the map of the file being read, or Idle
  own          \* the user has given a map since the avatar was shown or reset

mapVars == <<body, available, expressions, editor, edited, importing, own>>

---------------------------------------------------------------------------
(* The maps made for an avatar.                                            *)

Channels == {<<"jawOpen">>, <<"eyeBlinkLeft">>, <<"eyeBlinkRight">>, <<"mouthSmileLeft">>}
Eyes == [left |-> <<"eyeBlinkLeft">>, right |-> <<"eyeBlinkRight">>]

Target(out, sources) == [out |-> out, sources |-> sources]
Outs(map) == {t.out : t \in map}

DetectPerfectSync(names) == Cardinality(names \cap Channels) >= PerfectSyncMin

CreatePerfectSyncMap(names) == {Target(name, {name}) : name \in names \cap Channels}

CreateDefaultVrmMap(names) ==
  LET Has(name) == names = {} \/ name \in names
      oneEyed == {Target(<<"blinkLeft">>, {Eyes.left}), Target(<<"blinkRight">>, {Eyes.right})}
      face == {Target(<<"aa">>, {<<"jawOpen">>}), Target(<<"happy">>, {<<"mouthSmileLeft">>})}
      blink == Target(<<"blink">>, {Eyes.left, Eyes.right})
      wanted == face \cup oneEyed \cup IF \E t \in oneEyed : Has(t.out) THEN {} ELSE {blink}
  IN  {t \in wanted : Has(t.out)}

VrmMap(names) ==
  IF DetectPerfectSync(names) THEN CreatePerfectSyncMap(names) ELSE CreateDefaultVrmMap(names)

\* The targets in their order, with the aliases tried in theirs.
InochiTargets ==
  << [aliases |-> << <<"eye", "left", "blink">>, <<"left", "eye", "blink">>, <<"blink", "left">> >>,
      sources |-> {Eyes.left}],
     [aliases |-> << <<"eye", "right", "blink">>, <<"right", "eye", "blink">>, <<"blink", "right">> >>,
      sources |-> {Eyes.right}],
     [aliases |-> << <<"eye", "blink">>, <<"blink">> >>, sources |-> {Eyes.left, Eyes.right}],
     [aliases |-> << <<"mouth", "open">>, <<"jaw", "open">>, <<"mouth", "shape">> >>,
      sources |-> {<<"jawOpen">>}],
     [aliases |-> << <<"mouth", "smile">>, <<"smile">>, <<"mouth", "width">> >>,
      sources |-> {<<"mouthSmileLeft">>}] >>

Includes(text, part) ==
  \E i \in 0 .. Len(text) - Len(part) : SubSeq(text, i + 1, i + Len(part)) = part
\* normalizeMappingName keeps the Latin letters and the digits.
NormalizeName(name) == SelectSeq(name, LAMBDA word : word \notin OtherScript)
Named(name, alias) == NormalizeName(name) = alias
Alike(name, alias) == Includes(NormalizeName(name), alias) \/ Includes(alias, NormalizeName(name))

\* The first alias that a free name fits, and the first such name.
FirstFitting(names, aliases, used, Fits(_, _)) ==
  LET Fitting(alias) == {i \in DOMAIN names : names[i] \notin used /\ Fits(names[i], alias)}
      met == {a \in DOMAIN aliases : Fitting(aliases[a]) # {}}
  IN  IF met = {} THEN <<>> ELSE names[Min(Fitting(aliases[Min(met)]))]

\* A name that is an alias, else one that is like an alias, else none.
FindMappedParameter(names, aliases, used) ==
  LET exact == FirstFitting(names, aliases, used, Named)
  IN  IF exact # <<>> THEN exact ELSE FirstFitting(names, aliases, used, Alike)

\* The n-th target takes a name that no earlier one has, if it finds one.
Place(names, map, n) ==
  LET out == FindMappedParameter(names, InochiTargets[n].aliases, Outs(map))
  IN  IF out = <<>> THEN map ELSE map \cup {Target(out, InochiTargets[n].sources)}

CreateInochiMap(names) ==
  Place(names, Place(names, Place(names, Place(names, Place(names, {}, 1), 2), 3), 4), 5)

\* normalizeTarget drops a target without a name or without a source.
Normalize(map) == {t \in map : t.out # <<>> /\ t.sources # {}}

---------------------------------------------------------------------------
(* The viewer.                                                             *)

\* refreshExpressionMapEditor is the second conjunct.
InForce(map) == expressions' = map /\ editor' = map

\* Mutant: the avatar's map is not written to the editor.
ShowKeepsText(kind, names, map) ==
  /\ body' = kind /\ available' = names /\ own' = FALSE
  /\ expressions' = Normalize(map)
  /\ UNCHANGED <<editor, edited, importing>>

\* configureExpressionMapping, configureInochiExpressionMapping
Show(kind, names, map) ==
  /\ body' = kind /\ available' = names /\ own' = FALSE
  /\ InForce(Normalize(map))
  /\ UNCHANGED <<edited, importing>>

ShowVrm == \E names \in VrmAvatars : Show("vrm", names, VrmMap(names))
ShowInochi == \E names \in InochiAvatars : Show("inochi", ToSet(names), CreateInochiMap(names))

\* The participant leaves, or a layered avatar takes the place.
DropAvatar ==
  /\ body' = "bot"
  /\ UNCHANGED <<available, expressions, editor, edited, importing, own>>

TypeText ==
  \E text \in UserMaps \cup {Broken} :
    /\ editor' = text /\ edited' = TRUE /\ own' = TRUE
    /\ UNCHANGED <<body, available, expressions, importing>>

ApplyText(pending) ==
  /\ edited' = pending
  /\ expressions' = IF editor = Broken THEN expressions ELSE Normalize(editor)
  /\ UNCHANGED <<body, available, editor, importing, own>>

EditTimer  == edited /\ ApplyText(FALSE)
PressApply == ApplyText(edited)

StartImport ==
  /\ importing = Idle
  /\ importing' \in UserMaps \cup {Broken}
  /\ UNCHANGED <<body, available, expressions, editor, edited, own>>

FinishImport ==
  /\ importing # Idle /\ importing' = Idle
  /\ IF importing = Broken THEN UNCHANGED <<expressions, editor, own>>
     ELSE InForce(Normalize(importing)) /\ own' = TRUE
  /\ UNCHANGED <<body, available, edited>>

\* The Inochi2D names are in the order of some avatar's list.
ResetMap ==
  /\ \/ /\ body # "inochi"
        /\ InForce(Normalize(VrmMap(available)))
     \/ /\ body = "inochi"
        /\ \E names \in InochiAvatars :
             ToSet(names) = available /\ InForce(Normalize(CreateInochiMap(names)))
  /\ own' = FALSE
  /\ UNCHANGED <<body, available, edited, importing>>

MapInit ==
  /\ body = "bot" /\ available = {} /\ own = FALSE
  /\ expressions = CreateDefaultVrmMap({}) /\ editor = CreateDefaultVrmMap({})
  /\ edited = FALSE /\ importing = Idle

MapNext ==
  \/ ShowVrm \/ ShowInochi \/ DropAvatar
  \/ TypeText \/ EditTimer \/ PressApply
  \/ StartImport \/ FinishImport
  \/ ResetMap

MapSpec == MapInit /\ [][MapNext]_mapVars
---------------------------------------------------------------------------
\* The map in force for an avatar drives expressions that the avatar has, and
\* each from one target, until the user gives a map of their own: an edit that
\* still waits for its timer when another avatar is shown, and a reset, cannot
\* bring back the map of an avatar that is gone (queueExpressionMapApply,
\* configureExpressionMapping, btnResetMapping).  For a VRM avatar without any
\* expression the default map is made as if it had them all.
MapFitsAvatar ==
  body # "bot" /\ ~own /\ (body = "vrm" => available # {}) =>
    /\ Outs(expressions) \subseteq available
    /\ Cardinality(Outs(expressions)) = Cardinality(expressions)
=============================================================================
