---------------------------- MODULE FrameOrder ----------------------------
(***************************************************************************)
(* isSeqNewer and FrameOrderGate (shared/runtime.js): the 16-bit sequence  *)
(* numbers of motion frames, compared within half of their range.          *)
(***************************************************************************)
EXTENDS Integers

CONSTANTS
  SeqModulus,   \* 0x10000: how many sequence numbers there are
  NoSeq     \* null: the gate has accepted nothing yet

ASSUME FrameOrderAssumption ==
  /\ SeqModulus \in Nat /\ SeqModulus >= 2 /\ SeqModulus % 2 = 0
  /\ NoSeq \notin Nat

Seqs == 0 .. SeqModulus - 1
HalfRange == SeqModulus \div 2

\* The distance from `from` up to `to` on the circle of sequence numbers.
Ahead(to, from) == (to - from) % SeqModulus

\* Mutant: any other number counts as newer.
isSeqDifferent(seq, current) == seq # current

isSeqNewer(seq, current) ==
  \/ current = NoSeq
  \/ Ahead(seq, current) \in 1 .. HalfRange - 1

\* FrameOrderGate.accept, reduced to lastSeq (its counters feed the statistics).
Accept(lastSeq, seq) == IF isSeqNewer(seq, lastSeq) THEN seq ELSE lastSeq
=============================================================================
