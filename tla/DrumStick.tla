----------------------------- MODULE DrumStick -----------------------------
(***************************************************************************)
(* A BLE-MIDI drum stick (src/core/bleMidiStick.ts): strikes are stamped   *)
(* with a clock of 13 bits and sent in packets; the session unwraps the    *)
(* clock and emits a hit for a strike unless it has lately emitted one     *)
(* with the same time.  The stick drops out, comes back with its clock     *)
(* reset and sends packets again; a packet may be cut short, and the       *)
(* timestamp of the message it is cut in moves the clock all the same.     *)
(*                                                                         *)
(* The stick is external.  Its messages are strikes, note-offs in either   *)
(* spelling, and strikes of a note that has no zone; all strikes that have *)
(* one fall on one drum, and how hard they are is left out.                *)
(***************************************************************************)
EXTENDS Integers, Sequences, SequencesExt, FiniteSets

CONSTANTS
  Lows,        \* 2^7 low values of the clock, one per timestamp byte
  Highs,       \* 2^6 high values, one per packet
  Window,      \* duplicateWindow
  NoteKinds,   \* what the stick sends: "on", "off", "unmapped"
  MaxOthers,   \* bound: messages that are not played, in the air
  MaxNow,      \* bound: ticks of the stick's clock
  MaxPackets,  \* bound: packets sent
  MaxReplays,  \* bound: strikes sent again
  MaxBoots,    \* bound: resets of the stick
  Unheard      \* no timestamp yet

ASSUME StickAssumption ==
  /\ Lows \in Nat \ {0} /\ Highs \in Nat \ {0} /\ Window \in Nat \ {0}
  /\ MaxNow \in Nat /\ MaxPackets \in Nat /\ MaxReplays \in Nat /\ MaxBoots \in Nat /\ MaxOthers \in Nat
  /\ NoteKinds \subseteq {"on", "off", "unmapped"}
  /\ Unheard \notin Nat \cup [t : Nat, boot : Nat, kind : NoteKinds]

VARIABLES
  stick,     \* [now, boot, pending]: a message is [t, boot, kind]
  air,       \* the packets sent: [high, lows, strikes]
  session,   \* [connected, reconnects, last, wraps, recent]
  hits,      \* the hits emitted: [strike, time, link]; link is history, the boot it was heard in
  heard,     \* history: [strikes, last, replays], the strikes decoded and the message
             \* whose timestamp was read last
  misled     \* history: a message was unwrapped to another time than its own, or a
             \* strike came again when the window had forgotten it

stickVars == <<stick, air, session, hits, heard, misled>>

Wrap == Lows * Highs
HalfWrap == Wrap \div 2

StickInit ==
  /\ stick = [now |-> 0, boot |-> 0, pending |-> <<>>] /\ air = <<>>
  /\ session = [connected |-> FALSE, reconnects |-> 0, last |-> Unheard, wraps |-> 0,
                recent |-> <<>>]
  /\ hits = <<>> /\ misled = FALSE
  /\ heard = [strikes |-> {}, last |-> Unheard, replays |-> 0]
-----------------------------------------------------------------------------
\* BleMidiPacketDecoder.decode: the high bits move on when the low ones fall back within
\* the packet; unwrap counts a wrap when the clock falls back by more than half.
DecodeOne(d, low) ==
  LET high == IF d.low # Unheard /\ low < d.low THEN (d.high + 1) % Highs ELSE d.high
      raw == high * Lows + low
      wraps == IF d.last # Unheard /\ raw + HalfWrap < d.last THEN d.wraps + 1 ELSE d.wraps
  IN  [high |-> high, low |-> low, last |-> raw, wraps |-> wraps]

\* The decoder after each message of a packet.  Timestamps are unwrapped as they are met,
\* before readMessage finds that the message is cut short: `read` of them arrive.
DecodePacket(packet, read) ==
  LET d[i \in 0 .. read] ==
        IF i = 0 THEN [high |-> packet.high, low |-> Unheard, last |-> session.last, wraps |-> session.wraps]
        ELSE DecodeOne(d[i - 1], packet.lows[i])
  IN  d

\* A note-on without velocity is a note-off.
IsStrike(message) == message.kind \in {"on", "unmapped"}
\* stickStrikeToDrumHit makes nothing of a note it has no zone for.
Plays(message) == IsStrike(message) /\ message.kind # "unmapped"

\* remember
Remember(recent, time) ==
  LET all == Append(recent, time) IN IF Len(all) > Window THEN Tail(all) ELSE all

\* One strike of ingest.
IngestOne(s, hit) ==
  IF hit.time \in ToSet(s.recent) THEN s
  ELSE [recent |-> Remember(s.recent, hit.time), hits |-> Append(s.hits, hit)]

\* The session after the messages that arrive whole, the decoder's states being d.
IngestAll(strikes, d) ==
  LET s[i \in 0 .. Len(strikes)] ==
        IF i = 0 THEN [recent |-> session.recent, hits |-> hits]
        ELSE IF Plays(strikes[i])
        THEN IngestOne(s[i - 1], [strike |-> strikes[i], time |-> d[i].wraps * Wrap + d[i].last,
                                  link |-> stick.boot])
        ELSE s[i - 1]
  IN  s[Len(strikes)]

\* What a message decoded after message `a` asks of the clock: it is less than half a
\* wrap later, or no more than that earlier in the same period; one of an earlier boot is
\* of the first period and comes in the first.
Follows(a, b) ==
  IF b.boot # stick.boot THEN
    b.t < Wrap /\ (a # Unheard => a.t < Wrap /\ a.t - b.t <= HalfWrap)
  ELSE IF a = Unheard THEN TRUE
  ELSE IF b.t >= a.t THEN b.t - a.t < HalfWrap
  ELSE b.t \div Wrap = a.t \div Wrap /\ a.t - b.t <= HalfWrap

\* A strike emitted before is still in the window once there are `count` hits.
InWindow(b, count) ==
  \A i \in DOMAIN hits : hits[i].strike = b => i > count - Window

\* A packet of `sent` messages may end anywhere: `size` messages arrive whole and the
\* timestamps of `read`, the last of them perhaps that of the message it is cut in.
Arrives(size, read, sent) ==
  size \in 0 .. sent /\ read \in size .. (size + 1) /\ read <= sent

\* ingest; `repeats` is 1 for a packet sent again.
Ingest(packet, size, read, repeats) ==
  LET d == DecodePacket(packet, read)
      strikes == SubSeq(packet.strikes, 1, size)
      after == IngestAll(strikes, d)
      before == IF session.last = Unheard THEN Unheard ELSE heard.last
  IN  IF ~session.connected THEN UNCHANGED <<session, hits, heard, misled>>
      ELSE /\ session' = [session EXCEPT !.last = d[read].last, !.wraps = d[read].wraps,
                                         !.recent = after.recent]
           /\ hits' = after.hits
           /\ heard' = [strikes |-> heard.strikes \cup {m \in ToSet(strikes) : Plays(m)},
                        last |-> IF read = 0 THEN heard.last ELSE packet.strikes[read],
                        replays |-> heard.replays + read * repeats]
           /\ misled' = \/ misled
                        \/ \E i \in 1 .. read :
                             ~Follows(IF i = 1 THEN before ELSE packet.strikes[i - 1],
                                      packet.strikes[i])
                        \/ \E i \in 1 .. size :
                             Plays(strikes[i]) /\ ~InWindow(strikes[i], Len(after.hits))
-----------------------------------------------------------------------------
StickTick ==
  /\ stick.now < MaxNow
  /\ stick' = [stick EXCEPT !.now = @ + 1]
  /\ UNCHANGED <<air, session, hits, heard, misled>>

Others ==
  {m \in ToSet(stick.pending) \cup UNION {ToSet(air[n].strikes) : n \in DOMAIN air} : ~Plays(m)}

\* One message a millisecond; those of one packet lie less than a round of the low bits apart.
StrikeHead ==
  /\ Len(air) < MaxPackets
  /\ \A other \in ToSet(stick.pending) : stick.now # other.t /\ stick.now - other.t < Lows
  /\ \A n \in DOMAIN air : \A other \in ToSet(air[n].strikes) :
       other.boot = stick.boot => other.t # stick.now
  /\ \E kind \in NoteKinds :
       /\ kind # "on" => Cardinality(Others) < MaxOthers
       /\ stick' = [stick EXCEPT !.pending =
                      Append(@, [t |-> stick.now, boot |-> stick.boot, kind |-> kind])]
  /\ UNCHANGED <<air, session, hits, heard, misled>>

\* The stick notifies what it has; the packet may be cut short.
Notify(size, read) ==
  LET strikes == stick.pending
      packet == [high |-> (strikes[1].t \div Lows) % Highs,
                 lows |-> [i \in DOMAIN strikes |-> strikes[i].t % Lows],
                 strikes |-> strikes]
  IN  /\ strikes # <<>> /\ Arrives(size, read, Len(strikes))
      /\ air' = Append(air, packet)
      /\ stick' = [stick EXCEPT !.pending = <<>>]
      /\ Ingest(packet, size, read, 0)

\* The stick sends a packet again.
Replay(n, size, read) ==
  /\ session.connected /\ heard.replays < MaxReplays
  /\ Arrives(size, read, Len(air[n].strikes))
  /\ Ingest(air[n], size, read, 1)
  /\ UNCHANGED <<stick, air>>

\* Mutant: a connection starts with nothing remembered.
StickConnectForgets ==
  /\ ~session.connected
  /\ session' = [session EXCEPT !.connected = TRUE, !.last = Unheard, !.wraps = 0, !.recent = <<>>,
       !.reconnects = IF hits # <<>> \/ @ > 0 THEN @ + 1 ELSE @]
  /\ UNCHANGED <<stick, air, hits, heard, misled>>

\* connect
StickConnect ==
  /\ ~session.connected
  /\ session' = [session EXCEPT !.connected = TRUE, !.last = Unheard, !.wraps = 0,
       !.reconnects = IF hits # <<>> \/ @ > 0 THEN @ + 1 ELSE @]
  /\ UNCHANGED <<stick, air, hits, heard, misled>>

\* disconnect; the stick's clock will start again at zero.
StickDisconnect ==
  /\ session.connected /\ stick.boot < MaxBoots
  /\ session' = [session EXCEPT !.connected = FALSE]
  /\ stick' = [now |-> 0, boot |-> stick.boot + 1, pending |-> <<>>]
  /\ UNCHANGED <<air, hits, heard, misled>>

\* Nothing is claimed of a session once it has been misled: its behaviours end (a bound).
StickNext ==
  /\ ~misled
  /\ \/ StickTick \/ StrikeHead \/ StickConnect \/ StickDisconnect
     \/ \E read \in 0 .. Len(stick.pending) : \E size \in 0 .. read : Notify(size, read)
     \/ \E n \in DOMAIN air : \E read \in 0 .. Len(air[n].strikes) : \E size \in 0 .. read :
          Replay(n, size, read)

StickSpec == StickInit /\ [][StickNext]_stickVars
-----------------------------------------------------------------------------
\* A strike is played once and nothing else is played: whatever is sent again or cut
\* short, no strike is emitted twice; hits of one connection are as far apart as their
\* strikes; and before the first reset every strike decoded is emitted.  It holds until
\* the session is misled: after a pause of half the 13-bit clock; after a packet is sent
\* again that the window of duplicates has forgotten; or after one that goes back across a
\* wrap of the clock, be it a wrap that only the timestamp of a message cut short has
\* counted: its strikes are emitted a second time, a period later (BleMidiStickSession).
StrikesOnce ==
  ~misled =>
    /\ \A i, j \in DOMAIN hits :
         /\ Plays(hits[i].strike)
         /\ hits[i].strike = hits[j].strike => i = j
         /\ hits[i].link = hits[j].link =>
              hits[i].time - hits[j].time = hits[i].strike.t - hits[j].strike.t
    /\ stick.boot = 0 => heard.strikes = {hits[i].strike : i \in DOMAIN hits}
=============================================================================
