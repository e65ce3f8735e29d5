---------------------------- MODULE PacketCodec -----------------------------
(***************************************************************************)
(* The bytes of one connection.  A client sends a stream of packets, which *)
(* the reads of the broker cut anywhere.  VersionCodec looks at the first  *)
(* bytes without taking them, the codec of the version replaces it, and    *)
(* from then on headers and frames are taken off the buffer in turn.  A    *)
(* packet of the stream is                                                 *)
(*   first  its first byte              head  the first bytes of its body  *)
(*   len    the length of its body      ok    whether the body decodes     *)
(*   max    the maximum packet size that a CONNECT of version 5 asks for,  *)
(*          or 0                                                           *)
(***************************************************************************)
EXTENDS Naturals, Sequences, SequencesExt

CONSTANTS Streams,    \* what clients may send
          MaxSize,    \* max_packet_size of the listener, 0 for no limit
          Contents    \* encoded sizes of the packets that the broker sends

VARIABLES stream,     \* what this client sends
          arrived,    \* bytes of it that have been read into the buffer
          consumed,   \* bytes of it that have been taken off the buffer
          readable,   \* Framed: decode has not asked for more bytes yet
          codec,      \* MqttCodec: version, v3 or v5
          frame,      \* DecodeState: NoFrame is FrameHeader
          maxOut,     \* max_out_size of the codec of version 5
          decoded,    \* the packets that were decoded
          written,    \* size of the last packet written, header included
          status      \* open, ended by the client, cut inside a packet, timeout, failed

vars == <<stream, arrived, consumed, readable, codec, frame, maxOut, decoded, written, status>>

NoFrame == [first |-> 0, len |-> 0, state |-> "FrameHeader"]
Frame(first, len) == [first |-> first, len |-> len, state |-> "Frame"]

CONNECT == 16
MQTT == <<77, 81, 84, 84>>
MQISDP == <<77, 81, 73, 115, 100, 112>>
MAX_PACKET_SIZE == 268435455

-----------------------------------------------------------------------------
(* Variable-length integers, least significant seven bits first.           *)

WriteVariableLength(n) ==
    CASE n <= 127 -> <<n>>
      [] n \in 128..16383 -> <<(n % 128) + 128, n \div 128>>
      [] n \in 16384..2097151 ->
             <<(n % 128) + 128, ((n \div 128) % 128) + 128, n \div 16384>>
      [] n \in 2097152..MAX_PACKET_SIZE ->
             <<(n % 128) + 128, ((n \div 128) % 128) + 128, ((n \div 16384) % 128) + 128,
               n \div 2097152>>

\* decode_variable_length: the length and the bytes it took, or what is wrong
DecodeVariableLength(bytes) ==
    LET last == {i \in 1..4 : i <= Len(bytes) /\ bytes[i] < 128}
        used == CHOOSE i \in last : \A j \in last : i <= j
        digit(i) == IF i <= used THEN (bytes[i] % 128) * 128^(i - 1) ELSE 0
    IN CASE last # {} -> [is |-> "length", used |-> used,
                          len |-> digit(1) + digit(2) + digit(3) + digit(4)]
         [] last = {} /\ Len(bytes) < 4 -> [is |-> "incomplete"]
         [] last = {} /\ Len(bytes) >= 4 -> [is |-> "invalid"]

-----------------------------------------------------------------------------
(* The stream as bytes.  Nothing reads the rest of a body at this level,   *)
(* so one byte stands for all of it.                                       *)

Header(p) == <<p.first>> \o WriteVariableLength(p.len)
Filler == 200

\* The offset at which packet i begins
Offset(i) == FoldLeft(LAMBDA n, p : n + Len(Header(p)) + p.len, 0, SubSeq(stream, 1, i - 1))
Total == Offset(Len(stream) + 1)
BodyOffset(i) == Offset(i) + Len(Header(stream[i]))

Byte(k) ==
    LET i == CHOOSE i \in 1..Len(stream) : Offset(i) < k /\ k <= Offset(i + 1)
        known == Header(stream[i]) \o stream[i].head
    IN IF k - Offset(i) <= Len(known) THEN known[k - Offset(i)] ELSE Filler

\* What is in the buffer, and at most its first n bytes
Buffered == arrived - consumed
Peek(n) == [k \in 1..(IF n <= Buffered THEN n ELSE Buffered) |-> Byte(consumed + k)]

-----------------------------------------------------------------------------
Init ==
    /\ stream \in Streams
    /\ arrived = 0 /\ consumed = 0 /\ readable = FALSE
    /\ codec = "version" /\ frame = NoFrame /\ maxOut = 0
    /\ decoded = <<>> /\ written = 0 /\ status = "open"

\* Reads end at any byte of a header and of the head of a body, and at the
\* last two bytes of a body.
Cuts ==
    LET near(i) == 1..(Len(Header(stream[i])) + Len(stream[i].head) + 1)
    IN {k \in UNION {{Offset(i) + d : d \in near(i)} \cup {Offset(i + 1) - 1, Offset(i + 1)} :
                     i \in 1..Len(stream)} : k <= Total}

\* Framed reads only when decode has asked for more
Read(k) ==
    /\ status = "open" /\ ~readable /\ k > arrived
    /\ arrived' = k /\ readable' = TRUE
    /\ UNCHANGED <<stream, consumed, codec, frame, maxOut, decoded, written, status>>

\* The client closes: an empty buffer is the end of the stream, even behind a
\* header, and anything else an error
ReadEof ==
    /\ status = "open" /\ ~readable
    /\ status' = IF Buffered = 0 THEN "ended" ELSE "cut"
    /\ UNCHANGED <<stream, arrived, consumed, readable, codec, frame, maxOut, decoded, written>>

\* recv_connect has waited for the CONNECT for handshake_timeout; the probe
\* before it waits without a limit
HandshakeTimeout ==
    /\ status = "open" /\ ~readable /\ codec # "version" /\ decoded = <<>>
    /\ status' = "timeout"
    /\ UNCHANGED <<stream, arrived, consumed, readable, codec, frame, maxOut, decoded, written>>

\* decode returns None, and decode returns an error
NeedMore ==
    readable' = FALSE
    /\ UNCHANGED <<stream, arrived, consumed, codec, frame, maxOut, decoded, written, status>>
Fail ==
    status' = "failed"
    /\ UNCHANGED <<stream, arrived, consumed, readable, codec, frame, maxOut, decoded, written>>

-----------------------------------------------------------------------------
(* The version.                                                            *)

\* The length behind the first byte, in what has been read
BufferedLength(bytes) ==
    IF Buffered < 2 THEN [is |-> "incomplete"] ELSE DecodeVariableLength(Tail(bytes))

\* The version, or "more", or "invalid", of a header of at bytes before a
\* protocol name of the given length
Version(bytes, at, name) ==
    LET named(text) == name = Len(text) /\ SubSeq(bytes, at + 3, at + 2 + name) = text
        level == bytes[at + 3 + name]
    IN IF Buffered <= at + 6 \/ (name = 6 /\ Buffered <= at + 8) THEN "more"
       ELSE IF ~(named(MQTT) \/ named(MQISDP)) THEN "invalid"
       ELSE IF level \in {3, 4} THEN "v3"
       ELSE IF level = 5 THEN "v5" ELSE "invalid"

\* VersionCodec::decode
Probed(bytes, length) ==
    IF length.is # "length" THEN (IF length.is = "incomplete" THEN "more" ELSE "invalid")
    ELSE IF bytes[1] # CONNECT THEN "invalid"
    ELSE Version(bytes, length.used + 1, 256 * bytes[length.used + 2] + bytes[length.used + 3])

\* A plausible slip: replacing the codec drops the knowledge that the buffer
\* still holds bytes, and the next packet waits for a read.
ReplaceBlocking(version) ==
    /\ codec' = version
    /\ readable' = FALSE
    /\ maxOut' = IF version = "v5" THEN MaxSize ELSE 0
    /\ UNCHANGED <<stream, arrived, consumed, frame, decoded, written, status>>

\* The codec is replaced and the buffer is left as it is
Replace(version) ==
    /\ codec' = version
    /\ maxOut' = IF version = "v5" THEN MaxSize ELSE 0
    /\ UNCHANGED <<stream, arrived, consumed, readable, frame, decoded, written, status>>

\* probe_version
Probe ==
    /\ status = "open" /\ readable /\ codec = "version"
    /\ \E version \in {Probed(Peek(14), BufferedLength(Peek(14)))} :
           \/ version = "more" /\ NeedMore
           \/ version = "invalid" /\ Fail
           \/ version \in {"v3", "v5"} /\ Replace(version)

-----------------------------------------------------------------------------
(* Headers and frames, in the codecs of both versions.                     *)

Exceeds(n) == MaxSize # 0 /\ MaxSize < n

\* decode in the state FrameHeader
DecodeHeader ==
    /\ status = "open" /\ readable /\ codec # "version" /\ frame = NoFrame
    /\ \E length \in {BufferedLength(Peek(5))} :
          \/ length.is = "incomplete" /\ NeedMore
          \/ (length.is = "invalid" \/ (length.is = "length" /\ Exceeds(length.len))) /\ Fail
          \/ /\ length.is = "length" /\ ~Exceeds(length.len)
             /\ consumed' = consumed + length.used + 1
             /\ frame' = Frame(Byte(consumed + 1), length.len)
             /\ UNCHANGED <<stream, arrived, readable, codec, maxOut, decoded, written, status>>

\* A plausible slip: no room is made for the header.
SetMaxOutboundBare(size) == size

\* set_max_outbound_size makes room for the longest header
SetMaxOutbound(size) == IF size > 5 THEN size - 5 ELSE size

\* decode_packet: whether the body that starts at the front of the buffer decodes
BodyDecodes ==
    \A i \in 1..Len(stream) :
        BodyOffset(i) = consumed /\ stream[i].len = frame.len => stream[i].ok

\* decode in the state Frame.  The first packet is the CONNECT that handshake
\* waits for, which sets the limit for what is sent to a client of version 5.
DecodeFrame ==
    /\ status = "open" /\ readable /\ frame # NoFrame
    /\ \/ Buffered < frame.len /\ NeedMore
       \/ Buffered >= frame.len /\ ~BodyDecodes /\ Fail
       \/ /\ Buffered >= frame.len /\ BodyDecodes
          /\ consumed' = consumed + frame.len
          /\ frame' = NoFrame
          /\ decoded' = Append(decoded, [first |-> frame.first, from |-> consumed, len |-> frame.len])
          /\ maxOut' = IF decoded = <<>> /\ codec = "v5" /\ stream[1].max # 0
                       THEN SetMaxOutbound(stream[1].max) ELSE maxOut
          /\ UNCHANGED <<stream, arrived, readable, codec, written, status>>

-----------------------------------------------------------------------------
(* What is sent.                                                           *)

\* Codec::encode of either version; a packet above the limit of version 5 is
\* refused and nothing is written
Send(content) ==
    /\ status = "open" /\ decoded # <<>>
    /\ codec = "v5" => content <= (IF maxOut # 0 THEN maxOut ELSE MAX_PACKET_SIZE)
    /\ written' = 1 + Len(WriteVariableLength(content)) + content
    /\ UNCHANGED <<stream, arrived, consumed, readable, codec, frame, maxOut, decoded, status>>

Next ==
    \/ \E k \in Cuts : Read(k)
    \/ ReadEof \/ HandshakeTimeout
    \/ Probe \/ DecodeHeader \/ DecodeFrame
    \/ \E c \in Contents : Send(c)

Spec == Init /\ [][Next]_vars

-----------------------------------------------------------------------------
\* The buffer lies within the stream, and a header is taken off only by the
\* codec of a version.
TypeOK ==
    /\ stream \in Streams
    /\ consumed \in 0..arrived /\ arrived \in 0..Total
    /\ readable \in BOOLEAN /\ status \in {"open", "ended", "cut", "timeout", "failed"}
    /\ codec \in {"version", "v3", "v5"}
    /\ frame # NoFrame \/ decoded # <<>> => codec # "version"
    /\ maxOut \in Nat /\ written \in Nat

\* Wherever the reads cut the stream, and although the version was looked at
\* first by another codec, what is decoded is what was sent: the same packets,
\* whole, in order, none twice and none left out.
WholeInOrder ==
    /\ Len(decoded) <= Len(stream)
    /\ \A i \in 1..Len(decoded) :
           decoded[i] = [first |-> stream[i].first, from |-> BodyOffset(i), len |-> stream[i].len]

\* A CONNECT of a version the broker knows, and packets that decode and are
\* within its limit
Legal ==
    /\ stream[1].first = CONNECT
    /\ stream[1].head \in {<<0, 4>> \o MQTT \o <<4>>, <<0, 6>> \o MQISDP \o <<3>>,
                           <<0, 4>> \o MQTT \o <<5>>}
    /\ \A i \in 1..Len(stream) : stream[i].ok /\ (MaxSize # 0 => stream[i].len <= MaxSize)

\* What arrived in full is neither refused nor left in the buffer.  A client that
\* keeps to the protocol and to the limit of the listener is never refused by
\* the codecs; and when the broker waits for bytes it has decoded every packet
\* that arrived in full, instead of doing so when the client happens to send
\* more.  (A CONNECT of fewer than 10 bytes, which no version allows, may wait.)
NothingHeldBack ==
    /\ Legal => status # "failed"
    /\ status = "open" /\ ~readable /\ stream[1].len >= 10 =>
           \A i \in 1..Len(stream) : Offset(i + 1) <= arrived => Len(decoded) >= i

\* While the broker waits for bytes, what it has buffered is short of a packet
\* of the greatest size the listener allows: a packet above it is refused on
\* its header, before its body is waited for.
BufferBounded ==
    status = "open" /\ ~readable /\ MaxSize # 0 =>
        Buffered <= IF codec = "version" THEN 13 ELSE IF MaxSize <= 4 THEN 4 ELSE MaxSize - 1

\* Nothing that is sent to a client of version 5 is longer, header included,
\* than the maximum packet size its CONNECT asked for (from 6 bytes on: a lower
\* maximum is compared with the length of the body only).
OutboundFits ==
    codec = "v5" /\ status = "open" /\ stream[1].max > 5 => written <= stream[1].max
=============================================================================
