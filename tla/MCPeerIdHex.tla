---------------------------- MODULE MCPeerIdHex ----------------------------
(* Inputs for PeerIdHex: every 2-byte PeerId, and every string of up to   *)
(* 2 * IdLen + 1 characters over hex digits of both cases, the signs, a  *)
(* non-hex ASCII letter and "MB", a two-byte character.  TransportCodec's *)
(* property is stated here over the first byte of each input id.          *)
EXTENDS PeerIdHex, TransportCodec

MCIdLen == 2
MCIds == [1..MCIdLen -> Bytes]
Alphabet == {"0", "a", "F", "+", "-", "g", "MB"}
MCStrings == UNION {[1..n -> Alphabet] : n \in 0..(2 * MCIdLen + 1)}

\* Spec 8 boundary test: TransportType's byte encoding round-trips for
\* {QUIC, TCP, RTP, UDT} and only for them: from_byte of the first byte of
\* the input (every u8 over the run) is the inverse of to_byte on its range
\* and an error elsewhere, byte 4 included; and from_str(to_str(t)) = t.
TransportCodecs == ByteCodecOK(input[1]) /\ NameCodecOK
=============================================================================
