--------------------------- MODULE TransportCodec ---------------------------
(***************************************************************************)
(* TransportType's conversions (src/types/src/types.rs 85-131) as pure     *)
(* operators: from_str / to_str between a kind and its lowercase name,    *)
(* from_byte / to_byte between a kind and its u8 tag.  A kind is named by *)
(* its variant; a name is a string, one of the four or any other.         *)
(***************************************************************************)
EXTENDS Naturals, Functions, TLC

TransportTypes == {"QUIC", "TCP", "RTP", "UDT"}
U8 == 0..255
\* new_io_error("transport bytes failure.")
TransportErr == [r |-> "err"]
TransportOk(t) == [r |-> "ok", v |-> t]

\* from_str: the four lowercase names; any other string is QUIC.
FromStr(s) ==
    CASE s = "quic" -> "QUIC"
      [] s = "tcp"  -> "TCP"
      [] s = "rtp"  -> "RTP"
      [] s = "udt"  -> "UDT"
      [] OTHER      -> "QUIC"

ToStr(t) == [QUIC |-> "quic", TCP |-> "tcp", RTP |-> "rtp", UDT |-> "udt"][t]

ToByte(t) == [QUIC |-> 0, TCP |-> 1, RTP |-> 2, UDT |-> 3][t]

\* The arms of from_byte's match.
FromByteArms == (0 :> "QUIC") @@ (1 :> "TCP") @@ (2 :> "RTP") @@ (3 :> "UDT")

\* Mutant of FromByte: the tag is masked to two bits (b & 3) instead of
\* matched, so no byte is refused.
FromByteMasked(b) == TransportOk(FromByteArms[b % 4])

\* from_byte: Ok for the four tags, Err for every other byte.
FromByte(b) ==
    IF b \in DOMAIN FromByteArms THEN TransportOk(FromByteArms[b]) ELSE TransportErr

-----------------------------------------------------------------------------

\* The reference for from_byte on byte b: the inverse of to_byte on its
\* range, an error elsewhere.  MCPeerIdHex states the property over its inputs.
ByteCodecOK(b) ==
    LET enc == [t \in TransportTypes |-> ToByte(t)] IN
    FromByte(b) = IF b \in Range(enc)
                  THEN TransportOk(CHOOSE t \in TransportTypes : enc[t] = b)
                  ELSE TransportErr

NameCodecOK == \A t \in TransportTypes : FromStr(ToStr(t)) = t

=============================================================================
