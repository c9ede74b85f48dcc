----------------------------- MODULE PeerIdHex -----------------------------
(***************************************************************************)
(* PeerId::to_hex and PeerId::from_hex (src/types/src/types.rs) as pure   *)
(* operators.  A string is a sequence of characters; a character has the *)
(* width of its UTF-8 encoding, since from_hex measures and slices the   *)
(* string in bytes.  IdLen is the length of a PeerId in bytes (32 in the  *)
(* code; the hex string is 2 * IdLen bytes long).                        *)
(***************************************************************************)
EXTENDS Naturals, Sequences, SequencesExt

CONSTANTS
    IdLen,     \* PEER_ID_LENGTH
    Inputs     \* the inputs a run enumerates: ids, or strings to parse

VARIABLE input

Bytes == 0..255
Ids == [1..IdLen -> Bytes]

LowerDigits == <<"0","1","2","3","4","5","6","7","8","9","a","b","c","d","e","f">>
UpperDigits == <<"0","1","2","3","4","5","6","7","8","9","A","B","C","D","E","F">>
HexChars == {LowerDigits[i] : i \in 1..16} \cup {UpperDigits[i] : i \in 1..16}
HexValue(c) == CHOOSE v \in 0..15 : LowerDigits[v + 1] = c \/ UpperDigits[v + 1] = c

\* Bytes of a character's UTF-8 encoding: "MB" stands for any non-ASCII one.
Width(c) == IF c = "MB" THEN 2 ELSE 1
ByteLen(s) == FoldLeft(LAMBDA n, c : n + Width(c), 0, s)
\* Byte offset at which the k-th character starts.
Offset(s, k) == ByteLen(SubSeq(s, 1, k - 1))
IsCharBoundary(s, b) == b = ByteLen(s) \/ \E k \in 1..Len(s) : Offset(s, k) = b
\* &s[lo..hi], for char boundaries lo and hi.
Slice(s, lo, hi) ==
    LET ks == {k \in 1..Len(s) : lo <= Offset(s, k) /\ Offset(s, k) < hi}
    IN IF ks = {} THEN <<>> ELSE SubSeq(s, Min(ks), Max(ks))

Err == [r |-> "err"]
Panic == [r |-> "panic"]

\* u8::from_str_radix(chunk, 16): an optional '+' sign, then at least one
\* hex digit of either case.
FromStrRadix16(chunk) ==
    LET digits == IF chunk # <<>> /\ Head(chunk) = "+" THEN Tail(chunk) ELSE chunk
    IN IF digits = <<>> \/ \E k \in 1..Len(digits) : digits[k] \notin HexChars
       THEN Err
       ELSE [r |-> "ok", v |-> FoldLeft(LAMBDA n, c : 16 * n + HexValue(c), 0, digits)]

\* Mutant of ToHex: bytes printed with {:x}, without the zero padding.
ToHexUnpadded(id) ==
    FoldLeft(LAMBDA acc, b : acc \o (IF b < 16 THEN <<LowerDigits[b + 1]>>
                                     ELSE <<LowerDigits[b \div 16 + 1], LowerDigits[(b % 16) + 1]>>),
             <<>>, id)

\* to_hex: every byte as two lowercase hex digits ({:02x?}).
ToHex(id) ==
    FoldLeft(LAMBDA acc, b : acc \o <<LowerDigits[b \div 16 + 1], LowerDigits[(b % 16) + 1]>>,
             <<>>, id)

\* The loop of from_hex from chunk i on: slice two bytes (a slice off a
\* char boundary panics), parse them, return at the first error.
RECURSIVE ParseChunks(_, _, _)
ParseChunks(s, i, acc) ==
    IF i = IdLen THEN [r |-> "ok", id |-> acc]
    ELSE IF ~IsCharBoundary(s, 2 * i) \/ ~IsCharBoundary(s, 2 * i + 2) THEN Panic
    ELSE LET byte == FromStrRadix16(Slice(s, 2 * i, 2 * i + 2))
         IN IF byte.r = "err" THEN Err ELSE ParseChunks(s, i + 1, Append(acc, byte.v))

\* from_hex: the length check counts bytes, then the chunks are parsed.
FromHex(s) == IF ByteLen(s) # 2 * IdLen THEN Err ELSE ParseChunks(s, 0, <<>>)

-----------------------------------------------------------------------------

Init == input \in Inputs
Next == UNCHANGED input
Spec == Init /\ [][Next]_input

\* Spec P6: from_hex(to_hex(id)) == id for every PeerId.
RoundTrip == FromHex(ToHex(input)) = [r |-> "ok", id |-> input]

\* Spec 8 boundary test: from_hex rejects (returns an error for) a string
\* of the wrong length or with a non-hex character; it never panics.
FromHexNeverPanics == FromHex(input).r # "panic"

=============================================================================
