---------------------------- MODULE ModifiedUTF7 ----------------------------
(***************************************************************************)
(* EncodeUTF7 and DecodeUTF7 of utf7.go.                                   *)
(*                                                                         *)
(* One behaviour either encodes a name and decodes the result, or decodes  *)
(* what came from elsewhere.  A step is one iteration of one of the four   *)
(* loops.  A rune is its code point; what is encoded is a sequence of      *)
(* ASCII codes.                                                            *)
(***************************************************************************)
EXTENDS Integers, SequencesExt     \* FlattenSeq

CONSTANTS
  Names,      \* the names to encode, sequences of code points
  Foreign,    \* encoded names from elsewhere, sequences of ASCII codes
  AccValues   \* how many values the accumulator has, 2^32 in the code

\* The halves of a surrogate pair are no code points.
IsHigh(u) == u >= 55296 /\ u < 56320
IsLow(u)  == u >= 56320 /\ u < 57344
Rune      == {r \in Nat : r <= 1114111 /\ ~ IsHigh(r) /\ ~ IsLow(r)}
Byte      == 0..255
Ascii     == 0..127

ASSUME InputAssumption == Names \subseteq Seq(Rune) /\ Foreign \subseteq Seq(Ascii)

\* A byte and a sextet fit the accumulator together.
ASSUME WidthAssumption == AccValues \in Nat \ {0} /\ AccValues % 2^14 = 0

VARIABLES
  name,     \* the string given to EncodeUTF7, <<>> when decoding from elsewhere
  own,      \* the string decoded is the one encoded from name
  pc,       \* the running loop: "encode", "shift", "decode", "unshift" or "done"
  i,        \* index of the next rune of name, or of the next byte of encoded
  block,    \* the bytes of the run, or the payload of the block, still to be read
  acc,      \* the accumulator
  bits,     \* how many of its low bits are pending
  encoded,  \* the modified UTF-7
  bytes,    \* the bytes decoded from the block so far
  decoded   \* the code points DecodeUTF7 has written

vars == <<name, own, pc, i, block, acc, bits, encoded, bytes, decoded>>

-----------------------------------------------------------------------------
Amp   == 38
Minus == 45
Printable(r) == r \in 32..126

\* utf7Alphabet: A-Z, a-z, 0-9, "+" and ",".
Alphabet ==
  [v \in 0..63 |->
     CASE v <= 25          -> 65 + v
       [] v \in 26..51     -> 97 + v - 26
       [] v \in 52..61     -> 48 + v - 52
       [] v = 62           -> 43
       [] v = 63           -> 44]
InAlphabet(c) == \E v \in 0..63 : Alphabet[v] = c
Value(c)      == CHOOSE v \in 0..63 : Alphabet[v] = c

\* Unsigned arithmetic: acc<<k|x with the width of acc, and x>>k.
ShiftIn(x, k)  == (acc * 2^k + x) % AccValues
Shifted(x, k)  == x \div 2^k

\* UTF-16BE of a run of code points, and back.
Units(r) ==
  IF r < 65536 THEN <<r>>
  ELSE <<55296 + (r - 65536) \div 1024, 56320 + ((r - 65536) % 1024)>>

BytesOf(run) ==
  LET u == FlattenSeq([k \in 1..Len(run) |-> Units(run[k])])
  IN  [m \in 1 .. 2 * Len(u) |->
         IF m % 2 = 1 THEN u[(m+1) \div 2] \div 256 ELSE u[m \div 2] % 256]

\* An odd last byte is dropped.
UnitsOf(bs) == [k \in 1 .. Len(bs) \div 2 |-> bs[2*k-1] * 256 + bs[2*k]]

\* utf16.Decode: a lone surrogate becomes U+FFFD.
IsPair(u, k) ==
  k \in 1 .. Len(u) - 1 /\ IsHigh(u[k]) /\ IsLow(u[k+1])
CodePoints(u) ==
  FlattenSeq([k \in 1..Len(u) |->
    IF IsPair(u, k) THEN <<65536 + (u[k] - 55296) * 1024 + u[k+1] - 56320>>
    ELSE IF IsPair(u, k-1) THEN <<>>
    ELSE IF IsHigh(u[k]) \/ IsLow(u[k]) THEN <<65533>>
    ELSE <<u[k]>>])

-----------------------------------------------------------------------------
Init ==
  /\ i = 1
  /\ block = <<>> /\ acc = 0 /\ bits = 0
  /\ bytes = <<>> /\ decoded = <<>>
  /\ \/ name \in Names /\ own = TRUE /\ encoded = <<>> /\ pc = "encode"
     \/ name = <<>> /\ own = FALSE /\ encoded \in Foreign /\ pc = "decode"

(* EncodeUTF7 *)

EncodeOne ==
  /\ pc = "encode"
  /\ i <= Len(name)
  /\ Printable(name[i])
  /\ encoded' = encoded \o (IF name[i] = Amp THEN <<Amp, Minus>> ELSE <<name[i]>>)
  /\ i' = i + 1
  /\ UNCHANGED <<name, own, pc, block, acc, bits, bytes, decoded>>

\* The index just after the maximal run that begins at i; a defect to be
\* caught ends it after one rune.
RunEndAtOnce == i + 1
RunEnd ==
  CHOOSE j \in i .. Len(name) + 1 :
    /\ \A k \in i .. j-1 : ~ Printable(name[k])
    /\ j <= Len(name) => Printable(name[j])

BeginRun ==
  /\ pc = "encode"
  /\ i <= Len(name)
  /\ ~ Printable(name[i])
  /\ encoded' = Append(encoded, Amp)
  /\ block' = BytesOf(SubSeq(name, i, RunEnd - 1))
  /\ acc' = 0 /\ bits' = 0
  /\ i' = RunEnd
  /\ pc' = "shift"
  /\ UNCHANGED <<name, own, bytes, decoded>>

\* encodeModBase64: one byte in, one or two sextets out.
EncodeByte ==
  /\ pc = "shift"
  /\ block # <<>>
  /\ acc' = ShiftIn(Head(block), 8)
  /\ bits' = (bits + 8) % 6
  /\ encoded' = encoded \o [k \in 1 .. (bits + 8) \div 6 |->
                              Alphabet[Shifted(acc', bits + 8 - 6 * k) % 64]]
  /\ block' = Tail(block)
  /\ UNCHANGED <<name, own, pc, i, bytes, decoded>>

\* A defect to be caught: the pending bits are not written.
EndRunWithoutFlush ==
  /\ pc = "shift"
  /\ block = <<>>
  /\ encoded' = Append(encoded, Minus)
  /\ pc' = "encode"
  /\ UNCHANGED <<name, own, i, block, acc, bits, bytes, decoded>>

\* The pending bits are padded with zeros; the "-" ends the block.
EndRun ==
  /\ pc = "shift"
  /\ block = <<>>
  /\ encoded' = encoded \o (IF bits > 0 THEN <<Alphabet[(acc * 2^(6 - bits)) % 64]>> ELSE <<>>)
                        \o <<Minus>>
  /\ pc' = "encode"
  /\ UNCHANGED <<name, own, i, block, acc, bits, bytes, decoded>>

EndEncode ==
  /\ pc = "encode"
  /\ i > Len(name)
  /\ pc' = "decode"
  /\ i' = 1
  /\ UNCHANGED <<name, own, block, acc, bits, encoded, bytes, decoded>>

(* DecodeUTF7 *)

DecodeOne ==
  /\ pc = "decode"
  /\ i <= Len(encoded)
  /\ encoded[i] # Amp
  /\ decoded' = Append(decoded, encoded[i])
  /\ i' = i + 1
  /\ UNCHANGED <<name, own, pc, block, acc, bits, encoded, bytes>>

\* The index of the "-" that ends the block begun at i, or of the end.
BlockEnd ==
  CHOOSE j \in i+1 .. Len(encoded) + 1 :
    /\ \A k \in i+1 .. j-1 : encoded[k] # Minus
    /\ j <= Len(encoded) => encoded[j] = Minus

\* The index after the block; a defect to be caught has an unfinished block
\* run one past the end.
AfterBlockPastEnd == BlockEnd + 1
AfterBlock == IF BlockEnd > Len(encoded) THEN BlockEnd ELSE BlockEnd + 1

DecodeAmp ==
  /\ pc = "decode"
  /\ i <= Len(encoded)
  /\ encoded[i] = Amp
  /\ i' = AfterBlock
  /\ \/ /\ BlockEnd = i + 1
        /\ decoded' = Append(decoded, Amp)
        /\ UNCHANGED <<pc, block, acc, bits, bytes>>
     \/ /\ BlockEnd > i + 1
        /\ block' = SubSeq(encoded, i + 1, BlockEnd - 1)
        /\ acc' = 0 /\ bits' = 0
        /\ bytes' = <<>>
        /\ pc' = "unshift"
        /\ UNCHANGED decoded
  /\ UNCHANGED <<name, own, encoded>>

\* decodeModBase64: one character in, a byte out when there are enough bits.
DecodeSextet ==
  /\ pc = "unshift"
  /\ block # <<>>
  /\ InAlphabet(Head(block))
  /\ acc' = ShiftIn(Value(Head(block)), 6)
  /\ bits' = IF bits + 6 >= 8 THEN bits - 2 ELSE bits + 6
  /\ bytes' = IF bits + 6 >= 8 THEN Append(bytes, Shifted(acc', bits') % 256) ELSE bytes
  /\ block' = Tail(block)
  /\ UNCHANGED <<name, own, pc, i, encoded, decoded>>

\* A defect to be caught: the loop stays at a character it cannot decode.
SkipCharacterStuck ==
  /\ pc = "unshift"
  /\ block # <<>>
  /\ ~ InAlphabet(Head(block))
  /\ UNCHANGED vars

SkipCharacter ==
  /\ pc = "unshift"
  /\ block # <<>>
  /\ ~ InAlphabet(Head(block))
  /\ block' = Tail(block)
  /\ UNCHANGED <<name, own, pc, i, acc, bits, encoded, bytes, decoded>>

EndBlock ==
  /\ pc = "unshift"
  /\ block = <<>>
  /\ decoded' = decoded \o CodePoints(UnitsOf(bytes))
  /\ pc' = "decode"
  /\ UNCHANGED <<name, own, i, block, acc, bits, encoded, bytes>>

EndDecode ==
  /\ pc = "decode"
  /\ i > Len(encoded)
  /\ pc' = "done"
  /\ UNCHANGED <<name, own, i, block, acc, bits, encoded, bytes, decoded>>

Terminated == pc = "done" /\ UNCHANGED vars

Next ==
  \/ EncodeOne \/ BeginRun \/ EncodeByte \/ EndRun \/ EndEncode
  \/ DecodeOne \/ DecodeAmp \/ DecodeSextet \/ SkipCharacter \/ EndBlock \/ EndDecode
  \/ Terminated

Spec == Init /\ [][Next]_vars
FairSpec == Spec /\ WF_vars(Next)

-----------------------------------------------------------------------------
TypeOK ==
  /\ name \in Seq(Rune)
  /\ own \in BOOLEAN
  /\ pc \in {"encode", "shift", "decode", "unshift", "done"}
  /\ i \in 1 .. (IF pc \in {"encode", "shift"} THEN Len(name) ELSE Len(encoded)) + 1
  /\ block \in Seq(Byte)
  /\ acc \in 0 .. AccValues - 1
  /\ bits \in 0..7
  /\ encoded \in Seq(Ascii)
  /\ bytes \in Seq(Byte)
  /\ decoded \in Seq(Rune)

\* A name survives the way to the server and back, whatever the mix of runs,
\* surrogate pairs, "&" and "-" and however wide the accumulator is beyond the
\* pending bits (utf7.go EncodeUTF7 and DecodeUTF7).
RoundTrip == pc = "done" /\ own => decoded = name

\* The blocks of encoded, as intervals from "&" to "-".
Blocks ==
  {b \in (1..Len(encoded)) \X (1..Len(encoded)) :
     /\ b[1] < b[2]
     /\ encoded[b[1]] = Amp /\ encoded[b[2]] = Minus
     /\ \A k \in b[1]+1 .. b[2]-1 : encoded[k] # Minus}

\* An encoded name is printable ASCII, every "&" opens a block that a "-"
\* closes, and no block of base64 directly follows another (RFC 3501 5.1.3
\* forbids superfluous shifts, which would make two names of one mailbox).
WellFormed ==
  pc \in {"decode", "done"} /\ own =>
    /\ \A k \in 1..Len(encoded) : Printable(encoded[k])
    /\ \A k \in 1..Len(encoded) : encoded[k] = Amp =>
         \E b \in Blocks : b[1] = k /\ \A m \in k+1 .. b[2]-1 : InAlphabet(encoded[m])
    /\ \A b, c \in Blocks : c[1] = b[2] + 1 => b[2] = b[1] + 1 \/ c[2] = c[1] + 1

\* Both functions end, also on a block that is never closed (utf7.go
\* DecodeUTF7: "or run off the end harmlessly").
Terminates == <>(pc = "done")
=============================================================================
