-------------------------------- MODULE Kgm2 --------------------------------
(***************************************************************************)
(* The KGM2 delta codec over an unreliable channel (shared/kgm2.js):       *)
(* frames are encoded against the last keyframe, named by its id; packets  *)
(* are lost, duplicated and reordered; the decoder keeps a few keyframes.  *)
(*                                                                         *)
(* A face is one weight and one coordinate of its position; rotations are  *)
(* sent whole.                                                             *)
(***************************************************************************)
EXTENDS Integers, Sequences, FiniteSets, SequencesExt

CONSTANTS
  Weights,       \* values of a quantised weight
  Positions,     \* values of a coordinate, in mm
  Reach,         \* 128: deltas are -Reach .. Reach - 1
  Interval,      \* 30 frames to a keyframe
  IdModulus,     \* 2^16 keyframe ids
  MaxKeyframes,  \* 64 keyframes kept by the decoder
  MaxFrames,     \* bound: frames encoded
  MaxRestarts,   \* bound: encoders after the first one
  NoFrame        \* null

ASSUME Kgm2Assumption ==
  /\ Weights \subseteq Nat /\ Positions \subseteq Int
  /\ Reach \in Nat \ {0} /\ Interval \in Nat \ {0} /\ IdModulus \in Nat \ {0}
  /\ MaxKeyframes \in Nat \ {0} /\ MaxFrames \in Nat /\ MaxRestarts \in Nat
  /\ NoFrame \notin [w : Int, p : Int]

VARIABLES
  encoder,    \* [seq, key, restarts]: key is lastKeyframe, or NoFrame
  sent,       \* the packets on the channel, each with the frame it was made of
  keyframes,  \* the decoder's keyframes, in the order of its map
  decoded     \* the packet last decoded and what came of it

kgm2Vars == <<encoder, sent, keyframes, decoded>>

Kgm2Init ==
  /\ encoder = [seq |-> 0, key |-> NoFrame, restarts |-> 0]
  /\ sent = <<>> /\ keyframes = <<>> /\ decoded = NoFrame
-----------------------------------------------------------------------------
InReach(delta) == -Reach <= delta /\ delta < Reach

Clamped(delta) ==
  IF delta < -Reach THEN -Reach ELSE IF delta >= Reach THEN Reach - 1 ELSE delta

\* A packet: n is its place on the channel, of the frame it was made of, and base the
\* keyframe it was made against.
Packet(type, id, w, p, of, base) ==
  [n |-> Len(sent) + 1, type |-> type, id |-> id, w |-> w, p |-> p, of |-> of, base |-> base]

KeyId == (encoder.seq \div Interval) % IdModulus

\* encodeKeyframe: the frame becomes the base of the deltas to come.
EncodeKeyframe(frame) ==
  /\ sent' = Append(sent, Packet("keyframe", KeyId, frame.w, frame.p, frame, Len(sent) + 1))
  /\ encoder' = [encoder EXCEPT !.seq = @ + 1,
                                !.key = [n |-> Len(sent) + 1, w |-> frame.w, p |-> frame.p]]

\* Mutant: the base moves on with every delta.
EncodeDeltaToPrevious(frame) ==
  LET key == encoder.key IN
  /\ sent' = Append(sent, Packet("delta", KeyId, frame.w - key.w, Clamped(frame.p - key.p),
                                 frame, key.n))
  /\ encoder' = [encoder EXCEPT !.seq = @ + 1, !.key = [@ EXCEPT !.w = frame.w, !.p = frame.p]]

\* encodeDelta, once every weight is in reach; a position out of reach is clamped.
EncodeDelta(frame) ==
  LET key == encoder.key IN
  /\ sent' = Append(sent, Packet("delta", KeyId, frame.w - key.w, Clamped(frame.p - key.p),
                                 frame, key.n))
  /\ encoder' = [encoder EXCEPT !.seq = @ + 1]

\* Kgm2FaceEncoder.encode
Encode(frame) ==
  /\ Len(sent) < MaxFrames
  /\ IF \/ encoder.key = NoFrame
        \/ encoder.seq % Interval = 0
        \/ ~InReach(frame.w - encoder.key.w)
     THEN EncodeKeyframe(frame)
     ELSE EncodeDelta(frame)
  /\ UNCHANGED <<keyframes, decoded>>

\* A frame whose face is lost is not encoded, though it has its number (a bound: up to the
\* keyframe that uses the first id again).
Skip ==
  /\ encoder.seq < Interval * IdModulus
  /\ encoder' = [encoder EXCEPT !.seq = @ + 1]
  /\ UNCHANGED <<sent, keyframes, decoded>>

\* The sender reloads its page.
Restart ==
  /\ encoder.restarts < MaxRestarts
  /\ encoder' = [seq |-> 0, key |-> NoFrame, restarts |-> encoder.restarts + 1]
  /\ UNCHANGED <<sent, keyframes, decoded>>

\* The decoder's keyframe of an id: there is at most one.
HeldUnder(id) == {i \in DOMAIN keyframes : keyframes[i].id = id}

\* The keyframes once one more has come: a reused id moves to the newest end, the oldest
\* are dropped.
Refreshed(key) ==
  LET others == IF HeldUnder(key.id) = {} THEN keyframes
                ELSE RemoveAt(keyframes, CHOOSE i \in HeldUnder(key.id) : TRUE)
      all == Append(others, key)
  IN  IF Len(all) > MaxKeyframes THEN Tail(all) ELSE all

\* What a packet is read as.
ReadPacket(packet) ==
  IF packet.type = "keyframe" THEN [w |-> packet.w, p |-> packet.p]
  ELSE IF HeldUnder(packet.id) = {} THEN NoFrame
  ELSE LET base == keyframes[CHOOSE i \in HeldUnder(packet.id) : TRUE]
       IN  [w |-> base.w + packet.w, p |-> base.p + packet.p]

\* Kgm2FaceDecoder.decode, of any packet on the channel, again or for the first time.
Decode(n) ==
  LET packet == sent[n]
  IN  /\ keyframes' = IF packet.type = "delta" THEN keyframes
                      ELSE Refreshed([id |-> packet.id, n |-> n, w |-> packet.w, p |-> packet.p])
      /\ decoded' = [packet |-> packet, frame |-> ReadPacket(packet)]
      /\ UNCHANGED <<encoder, sent>>

Kgm2Next ==
  \/ \E w \in Weights, p \in Positions : Encode([w |-> w, p |-> p])
  \/ Skip \/ Restart
  \/ \E n \in DOMAIN sent : Decode(n)

Kgm2Spec == Kgm2Init /\ [][Kgm2Next]_kgm2Vars
-----------------------------------------------------------------------------
\* The keyframes that were sent under an id.
SentUnder(id) == {n \in DOMAIN sent : sent[n].type = "keyframe" /\ sent[n].id = id}

\* A delta is never applied to the wrong base: whatever was lost, repeated, reordered,
\* forgotten or skipped, a decoded delta is the frame that was encoded - its position
\* too, unless the head moved out of reach - as long as its id named one keyframe only;
\* and it is decoded whenever the decoder still has the keyframe it was made against
\* under the id the delta carries (Kgm2FaceEncoder, Kgm2FaceDecoder).
DeltaOnItsBase ==
  (decoded # NoFrame /\ decoded.packet.type = "delta") =>
    LET packet == decoded.packet
        base == sent[packet.base]
    IN  /\ (decoded.frame # NoFrame /\ SentUnder(packet.id) = {packet.base}) =>
             /\ decoded.frame.w = packet.of.w
             /\ InReach(packet.of.p - base.p) => decoded.frame.p = packet.of.p
        /\ (base.id = packet.id /\ \E k \in ToSet(keyframes) : k.n = packet.base)
             => decoded.frame # NoFrame
=============================================================================
