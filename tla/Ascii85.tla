------------------------------ MODULE Ascii85 ------------------------------
(***************************************************************************)
(* ps_ascii85_encode: the data of an image, four bytes to five digits, and *)
(* the filter of the PostScript interpreter that makes bytes of them       *)
(* again.  The filter reads each group as it is written.                   *)
(*                                                                         *)
(* A byte has Byte values and a digit Base, 256 and 85 in the source.      *)
(***************************************************************************)
EXTENDS Integers, Sequences

CONSTANTS
  Byte, Base,
  Inputs          \* the data that is encoded

ASSUME SizesAssumption ==
  /\ Byte \in Nat /\ Base \in Nat /\ 2 <= Base /\ Base <= Byte
  /\ Byte * Byte * Byte * Byte <= Base * Base * Base * Base * Base
ASSUME InputsAssumption == Inputs \subseteq Seq(0..Byte - 1)

VARIABLES
  data,
  count,          \* the bytes of data encoded so far
  read,           \* what the filter has made of what was written
  phase           \* "groups", "end", or "beyond": reading behind the data

vars == <<data, count, read, phase>>

len == Len(data)

----------------------------------------------------------------------------
(* Writing.                                                                *)

pow85 == [i \in 0..4 |->
  CASE i = 0 -> 1 [] i = 1 -> Base [] i = 2 -> Base * Base
    [] i = 3 -> Base * Base * Base [] i = 4 -> Base * Base * Base * Base]

\* The weights of the bytes of a group, from the last one on.
Shift == [i \in 0..4 |->
  CASE i = 0 -> 1 [] i = 1 -> Byte [] i = 2 -> Byte * Byte
    [] i = 3 -> Byte * Byte * Byte [] i = 4 -> Byte * Byte * Byte * Byte]

BytesValue(b) == b[1] * Shift[3] + b[2] * Shift[2] + b[3] * Shift[1] + b[4]

\* data is of the type char: in the tail its sign is extended.
Signed(c) == IF c < Byte - c THEN c ELSE c - Byte

\* The buffer for a tail of n bytes: they are shifted in and to the top, and
\* the higher bits of the long are not used.
TailValue(b) ==
  (CASE Len(b) = 1 -> Signed(b[1]) * Shift[3]
     [] Len(b) = 2 -> Signed(b[1]) * Shift[3] + Signed(b[2]) * Shift[2]
     [] Len(b) = 3 -> Signed(b[1]) * Shift[3] + Signed(b[2]) * Shift[2]
                        + Signed(b[3]) * Shift[1]) % Shift[4]

\* What is left of the buffer when digit i - 1 is written.
Digits(buffer) ==
  LET r4 == buffer % pow85[4]
      r3 == r4 % pow85[3]
      r2 == r3 % pow85[2]
      r1 == r2 % pow85[1]
  IN  <<buffer \div pow85[4], r4 \div pow85[3], r3 \div pow85[2], r2 \div pow85[1], r1>>

----------------------------------------------------------------------------
(* Reading: the filter ASCII85Decode.                                      *)

DigitsValue(d) == d[1] * pow85[4] + d[2] * pow85[3] + d[3] * pow85[2] + d[4] * pow85[1] + d[5]

\* The bytes of a number, and something else if it has more than four.
NoBytes == <<>>

BytesOf(v) ==
  LET bytes == {b \in [1..4 -> 0..Byte - 1] : BytesValue(b) = v}
  IN  IF bytes = {} THEN NoBytes ELSE CHOOSE b \in bytes : TRUE

\* A group of fewer digits is filled up with the highest one and stands for
\* one byte less than it has digits.
Filled(d) == [i \in 1..5 |-> IF i <= Len(d) THEN d[i] ELSE Base - 1]

Decode(d) ==
  LET b == BytesOf(DigitsValue(Filled(d)))
  IN  IF b = NoBytes THEN NoBytes ELSE SubSeq(b, 1, Len(d) - 1)

----------------------------------------------------------------------------
(* The loop and what follows it.                                           *)

Init ==
  /\ data \in Inputs
  /\ count = 0 /\ read = <<>>
  /\ phase = IF len < 4 THEN "beyond" ELSE "groups"    \* len - 4 wraps around

\* Four bytes; zero is written as a letter of its own.
PutGroup ==
  /\ phase = "groups" /\ count <= len - 4
  /\ LET buffer == BytesValue([i \in 1..4 |-> data[count + i]])
     IN  read' = read \o IF buffer = 0 THEN <<0, 0, 0, 0>> ELSE Decode(Digits(buffer))
  /\ count' = count + 4
  /\ UNCHANGED <<data, phase>>

\* Mutant: one digit less.
TailDigitsShort(n) == n

\* The number of digits written for n bytes.
TailDigits(n) == n + 1

PutTail ==
  /\ phase = "groups" /\ count > len - 4
  /\ read' = read \o
       IF count = len THEN <<>>
       ELSE Decode(SubSeq(Digits(TailValue(SubSeq(data, count + 1, len))),
                          1, TailDigits(len - count)))
  /\ count' = len
  /\ phase' = "end"
  /\ UNCHANGED data

Next == PutGroup \/ PutTail

Spec == Init /\ [][Next]_vars

----------------------------------------------------------------------------
(* Properties.                                                             *)

\* No byte of the tail but its first has its highest bit set.
LowTail == \A i \in 1..len : i > len - (len % 4) + 1 => Signed(data[i]) = data[i]

\* The filter gives back the data: groups, zeros, and a tail of each length,
\* of which the encoder leaves out digits that the filter fills up differently.
DecodesBack ==
  LowTail => /\ read = SubSeq(data, 1, count)
             /\ phase = "end" => read = data
=============================================================================
