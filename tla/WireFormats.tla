---------------------------- MODULE WireFormats ----------------------------
(***************************************************************************)
(* The three layouts called KGM1: the datagram of the pages                *)
(* (shared/codec.js), the container written and read in JavaScript, Rust   *)
(* and Python (shared/kgm1b.js, crates/kgm1-codec, packages/kgm1-codec-py) *)
(* and the room envelopes of the typed core (src/core/kgm1.ts).            *)
(*                                                                         *)
(* A packet is its fields and how many of its bytes arrive: a carrier may  *)
(* cut it, lengthen it, or hand over one of another version.  Of the many  *)
(* numbers of a block one stands for all; it is given in half steps of its *)
(* quantisation.                                                           *)
(***************************************************************************)
EXTENDS Integers, Sequences, FiniteSets, SequencesExt, FiniteSetsExt

CONSTANTS
  FaceValues,      \* numbers of a face block, in half steps
  HandCounts,      \* how many hands a caller passes
  MaxI16, MaxU8,   \* 32767, 255
  SeqRange,        \* 2^16
  FrameSeqs,       \* sequence numbers callers pass
  Payloads,        \* payload lengths of a container
  SenderIds,       \* participants of a room, numbers for the order of their ids
  SentTimes,       \* when they send
  FadeTime, Slots, \* fadeMs, maxSlots
  NoBlock, Refused \* null

ASSUME WireAssumption ==
  /\ FaceValues \subseteq Int /\ HandCounts \subseteq Nat /\ Payloads \subseteq Nat
  /\ MaxI16 \in Nat \ {0} /\ MaxU8 \in Nat \ {0} /\ SeqRange \in Nat \ {0} /\ FrameSeqs \subseteq Nat
  /\ SenderIds \subseteq Nat /\ SentTimes \subseteq Nat /\ FadeTime \in Nat /\ Slots \in Nat
  /\ NoBlock \notin Int
  /\ Refused \notin [seq : Nat, face : Int \cup {NoBlock}, pose : Int \cup {NoBlock}, hands : Seq(Int)]
  /\ Refused \notin [major : 0 .. 2, payloadLen : Nat]
  /\ Refused \notin [header : [major : 0 .. 2, payloadLen : Nat], payload : Nat]

VARIABLES
  written,     \* what the writer was given: [kind, ...]
  carried,  \* the packet as it arrives
  read      \* what the readers make of it: a function of the readers

wireVars == <<written, carried, read>>

Nothing == [kind |-> "none"]
WireInit == written = Nothing /\ carried = Nothing /\ read = <<>>

Clip(x, low, high) == IF x < low THEN low ELSE IF x > high THEN high ELSE x
\* Math.round of half steps.
Rounded(x) == (x + 1) \div 2
-----------------------------------------------------------------------------
\* KGM1-WIRE

HeaderBytes == 10
FaceBytes   == 66
PoseBytes   == 43
HandBytes   == 16

\* clampI16, clampU8
ClampI16(x) == Clip(Rounded(x), -MaxI16 - 1, MaxI16)
ClampU8(x)  == Clip(Rounded(x), 0, MaxU8)

BlocksOf(frame) ==
  {b \in {"face", "pose"} : frame[b] # NoBlock} \cup (IF frame.hands = <<>> THEN {} ELSE {"hands"})

\* Mutant: every hand is counted, the size is that of two.
HandsToWriteAll(hands) == hands

\* A packet has room for two hands.
HandsToWrite(hands) == SubSeq(hands, 1, Min({2, Len(hands)}))

SizeOf(frame) ==
  HeaderBytes + (IF frame.face # NoBlock THEN FaceBytes ELSE 0)
    + (IF frame.pose # NoBlock THEN PoseBytes ELSE 0)
    + (IF frame.hands # <<>> THEN 1 + Min({2, Len(frame.hands)}) * HandBytes ELSE 0)

EncodeFace(face) == IF face = NoBlock THEN NoBlock ELSE ClampI16(face)
EncodePose(pose) == IF pose = NoBlock THEN NoBlock ELSE ClampI16(pose)
EncodeHands(hands) == [i \in DOMAIN HandsToWrite(hands) |-> ClampU8(hands[i])]

EncodeFrame(frame) ==
  [kind |-> "frame", magic |-> "KG", version |-> 1, blocks |-> BlocksOf(frame),
   seq |-> frame.seq % SeqRange, face |-> EncodeFace(frame.face), pose |-> EncodePose(frame.pose),
   points |-> "all", count |-> Len(HandsToWrite(frame.hands)), hands |-> EncodeHands(frame.hands),
   bytes |-> SizeOf(frame)]

\* The bytes up to the end of each block the header announces.
EndOf(packet, block) ==
  LET face == HeaderBytes + (IF "face" \in packet.blocks THEN FaceBytes ELSE 0)
      pose == face + (IF "pose" \in packet.blocks THEN PoseBytes ELSE 0)
  IN  CASE block = "face" -> face [] block = "pose" -> pose
        [] block = "hands" -> pose + 1 + packet.count * HandBytes

\* decodeFrame: null, or the frame; what follows the last block is not looked at.
DecodeFrame(packet) ==
  IF \/ packet.bytes < HeaderBytes
     \/ packet.magic # "KG" \/ packet.version # 1
     \/ ~ packet.blocks \subseteq {"face", "pose", "hands"}
     \/ \E b \in packet.blocks : packet.bytes < EndOf(packet, b)
     \/ "pose" \in packet.blocks /\ packet.points # "all"
     \/ "hands" \in packet.blocks /\ packet.count > 2
  THEN Refused
  ELSE [seq |-> packet.seq, face |-> packet.face, pose |-> packet.pose, hands |-> packet.hands]

\* The page writes a frame ...
WriteFrame(face, pose, hands, seq) ==
  /\ written = Nothing
  /\ LET frame == [kind |-> "frame", face |-> face, pose |-> pose, seq |-> seq,
                   hands |-> [i \in 1 .. hands |-> i]]
     IN  written' = frame /\ carried' = EncodeFrame(frame)
  /\ read' = <<>>
-----------------------------------------------------------------------------
\* KGM1B: the same forty bytes in three languages.

ContainerBytes == 40
SupportedMajors == {0, 1}

\* encodeKgm1bHeader, Kgm1Header::encode, encode_header: the magic, the fields, the length.
HeaderJs(header)     == [header EXCEPT !.magic = "KGM1", !.bytes = ContainerBytes]
HeaderRust(header)   == [header EXCEPT !.magic = "KGM1", !.bytes = ContainerBytes]
HeaderPython(header) == [header EXCEPT !.magic = "KGM1", !.bytes = ContainerBytes]

WithPayload(header, payload) == [header EXCEPT !.bytes = @ + payload]

\* encodeKgm1bPacket, Kgm1Packet::encode, encode_packet: the length in the header is the
\* payload's, whatever the caller's header said.
EncodeJs(header, payload)     == WithPayload(HeaderJs([header EXCEPT !.payloadLen = payload]), payload)
EncodeRust(header, payload)   == WithPayload(HeaderRust([header EXCEPT !.payloadLen = payload]), payload)
EncodePython(header, payload) == WithPayload(HeaderPython([header EXCEPT !.payloadLen = payload]), payload)

\* decodeKgm1bHeader, Kgm1Header::decode, decode_header: null, an error, an exception.
DecodeHeaderJs(packet) ==
  IF packet.bytes < ContainerBytes \/ packet.magic # "KGM1" \/ packet.major \notin SupportedMajors
  THEN Refused ELSE [major |-> packet.major, payloadLen |-> packet.payloadLen]
DecodeHeaderRust(packet) ==
  IF packet.bytes >= ContainerBytes /\ packet.magic = "KGM1" /\ packet.major \in SupportedMajors
  THEN [major |-> packet.major, payloadLen |-> packet.payloadLen] ELSE Refused
DecodeHeaderPython(packet) ==
  IF packet.bytes < ContainerBytes THEN Refused
  ELSE IF packet.magic # "KGM1" \/ packet.major \notin SupportedMajors THEN Refused
  ELSE [major |-> packet.major, payloadLen |-> packet.payloadLen]

\* The payload ends where the header says, and what is behind it is left out.
WithEnd(packet, header) ==
  IF header = Refused \/ packet.bytes < ContainerBytes + header.payloadLen THEN Refused
  ELSE [header |-> header, payload |-> header.payloadLen]
DecodeJs(packet)     == WithEnd(packet, DecodeHeaderJs(packet))
DecodeRust(packet)   == WithEnd(packet, DecodeHeaderRust(packet))
DecodePython(packet) == WithEnd(packet, DecodeHeaderPython(packet))

\* A caller's header has a length of its own.
EncodeContainer(writer, major, payload) ==
  LET header == [kind |-> "container", magic |-> "", major |-> major, payloadLen |-> 1, bytes |-> 0]
  IN  CASE writer = "js" -> EncodeJs(header, payload)
        [] writer = "rust" -> EncodeRust(header, payload)
        [] writer = "python" -> EncodePython(header, payload)

Languages == {"js", "rust", "python"}
WriteContainer(writer, major, payload) ==
  /\ written = Nothing
  /\ written' = [kind |-> "container", writer |-> writer, major |-> major, payload |-> payload]
  /\ carried' = EncodeContainer(writer, major, payload)
  /\ read' = <<>>
-----------------------------------------------------------------------------
\* The carrier: a packet is cut anywhere, or has bytes of something else behind it.
Intact ==
  /\ read = <<>>
  /\ \/ written.kind = "frame" /\ carried = EncodeFrame(written)
     \/ written.kind = "container" /\ carried = EncodeContainer(written.writer, written.major, written.payload)

Carry(bytes) ==
  /\ Intact /\ bytes <= carried.bytes + 1
  /\ carried' = [carried EXCEPT !.bytes = bytes]
  /\ UNCHANGED <<written, read>>

\* A packet of a layout of tomorrow comes instead, or one that is none of ours.
CarryForeign ==
  /\ Intact
  /\ \/ carried' = [carried EXCEPT !.magic = "other"]
     \/ carried.kind = "frame" /\ \/ carried' = [carried EXCEPT !.version = 2]
                                  \/ carried' = [carried EXCEPT !.blocks = @ \cup {"voice"}]
                                  \/ "pose" \in carried.blocks /\ carried' = [carried EXCEPT !.points = "fewer"]
                                  \/ "hands" \in carried.blocks /\ carried' = [carried EXCEPT !.count = 3]
     \/ carried.kind = "container" /\ carried' = [carried EXCEPT !.major = 2]
  /\ UNCHANGED <<written, read>>

ReadPacket ==
  /\ carried # Nothing /\ carried.kind # "room" /\ read = <<>>
  /\ read' = IF carried.kind = "frame" THEN [r \in {"js"} |-> DecodeFrame(carried)]
             ELSE [js |-> DecodeJs(carried), rust |-> DecodeRust(carried), python |-> DecodePython(carried)]
  /\ UNCHANGED <<written, carried>>
-----------------------------------------------------------------------------
\* KGM1-JSON: envelopes of a room arrive in any order, some twice.

\* latestFrameByParticipant: of two sent at once the later arrival.
Heard(latest, e) ==
  IF e.who \in DOMAIN latest /\ e.sentAt < latest[e.who] THEN latest
  ELSE [w \in DOMAIN latest \cup {e.who} |-> IF w = e.who THEN e.sentAt ELSE latest[w]]

LatestFrameByParticipant(envelopes) ==
  LET latest[n \in 0 .. Len(envelopes)] ==
        IF n = 0 THEN <<>> ELSE Heard(latest[n - 1], envelopes[n])
  IN  latest[Len(envelopes)]

\* assignRoomLayoutSlots: those that have not faded, by their ids, while there are slots.
AssignRoomLayoutSlots(latest) ==
  LET now == Max({latest[w] : w \in DOMAIN latest} \cup {0})
      shown == SetToSortSeq({w \in DOMAIN latest : now - latest[w] < FadeTime}, LAMBDA v, w : v < w)
  IN  SubSeq(shown, 1, Min({Slots, Len(shown)}))

WrapForRoom(who, sentAt) ==
  /\ written.kind \in {"none", "room"}
  /\ written.kind = "room" => Len(carried.envelopes) < 3
  /\ LET before == IF written.kind = "room" THEN carried.envelopes ELSE <<>>
     IN  carried' = [kind |-> "room", envelopes |-> Append(before, [who |-> who, sentAt |-> sentAt])]
  /\ written' = [kind |-> "room"]
  /\ UNCHANGED read

WireNext ==
  \/ \E face, pose \in FaceValues \cup {NoBlock}, hands \in HandCounts, seq \in FrameSeqs :
       WriteFrame(face, pose, hands, seq)
  \/ \E writer \in Languages, major \in 0 .. 2, payload \in Payloads : WriteContainer(writer, major, payload)
  \/ \E bytes \in 0 .. HeaderBytes + FaceBytes + PoseBytes + 2 * HandBytes + 2 : Carry(bytes)
  \/ CarryForeign \/ ReadPacket
  \/ \E who \in SenderIds, sentAt \in SentTimes : WrapForRoom(who, sentAt)

WireSpec == WireInit /\ [][WireNext]_wireVars
-----------------------------------------------------------------------------
\* What arrives is what was written, or nothing: a packet that came whole and of a known
\* version is read by every reader, within half a step, clamped to its range, with its
\* first two hands, and the readers of all languages agree; one that was cut anywhere or
\* is of another layout is refused as a whole, never read in part.  And a room shows the
\* same participants, each at its latest frame, in whatever order the envelopes came
\* (docs/PROTOCOL.md; encodeFrame, decodeFrame and the six container functions).
WireKeepsFrames ==
  /\ \A r \in DOMAIN read :
       LET frame == carried.kind = "frame"
           size == IF frame THEN SizeOf(written) ELSE ContainerBytes + written.payload
           known == IF frame
                    THEN [carried EXCEPT !.bytes = size] = EncodeFrame(written) /\ carried.magic = "KG"
                    ELSE carried.magic = "KGM1" /\ carried.major \in SupportedMajors
           Kept(x, y) == IF x = NoBlock THEN y = NoBlock
                         ELSE 2 * y - Clip(x, -2 * MaxI16 - 2, 2 * MaxI16) \in {0, 1}
       IN  IF ~known \/ carried.bytes < size THEN read[r] = Refused
           ELSE /\ read[r] # Refused
                /\ frame => /\ read[r].seq = written.seq % SeqRange
                            /\ Kept(written.face, read[r].face) /\ Kept(written.pose, read[r].pose)
                            /\ Len(read[r].hands) = Min({2, Len(written.hands)})
                            /\ \A i \in DOMAIN read[r].hands : Kept(written.hands[i], read[r].hands[i])
                /\ ~frame => read[r].header.major = written.major /\ read[r].payload = written.payload
  /\ carried.kind = "room" =>
       LET latest == LatestFrameByParticipant(carried.envelopes)
           Times(w) == {carried.envelopes[i].sentAt :
                          i \in {i \in DOMAIN carried.envelopes : carried.envelopes[i].who = w}}
           reversed == LatestFrameByParticipant(Reverse(carried.envelopes))
       IN  /\ \A w \in DOMAIN latest : latest[w] = Max(Times(w))
           /\ AssignRoomLayoutSlots(latest) = AssignRoomLayoutSlots(reversed)
=============================================================================
