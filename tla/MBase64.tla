------------------------------ MODULE MBase64 ------------------------------
(***************************************************************************)
(* mbase64_encode and mbase64_decode of mbase64.c.  A character of the     *)
(* alphabet is its index in b64_alphabet, so that Pad, the '=', is 64; an  *)
(* octet is an unsigned char.  The loops fill their output from left to    *)
(* right, each element from one block of the input, and are written as     *)
(* functions of the index.  Bits that are or-ed never overlap: | is +.     *)
(***************************************************************************)
EXTENDS Integers, Sequences

Octets == 0 .. 255
Pad == 64
NoData == "NULL"

\* Every other character, '=' too, counts as 0.
b64_alphabet_reverse(c) == IF c < 64 THEN c ELSE 0

\* Three octets as four numbers of six bits.
convert_to_b64(one, two, three) ==
    <<(one \div 4) % 64,
      (one * 16 + (two \div 16)) % 64,
      (two * 4 + (three \div 64)) % 64,
      three % 64>>

\* And back; what is shifted out of an unsigned char is lost.
convert_from_b64(one, two, three, four) ==
    <<((one * 4) % 256) + (two \div 16),
      ((two * 16) % 256) + (three \div 4),
      ((three * 64) % 256) + four>>

-----------------------------------------------------------------------------
OctetAt(data, n) == IF n <= Len(data) THEN data[n] ELSE 0

\* Block b of the output, counted from 0.
EncodedBlock(data, b) ==
    convert_to_b64(OctetAt(data, 3 * b + 1), OctetAt(data, 3 * b + 2), OctetAt(data, 3 * b + 3))

\* Character j of block b, with the padding of the last block.
EncodedChar(data, b, j) ==
    IF 3 * b + j > Len(data) + 1 THEN Pad ELSE EncodedBlock(data, b)[j]

mbase64_encode(data) ==
    [k \in 1 .. 4 * ((Len(data) + 2) \div 3) |->
        EncodedChar(data, (k - 1) \div 4, ((k - 1) % 4) + 1)]

\* Mutant: only the last character is looked at.
Padding_One(b64string) ==
    IF Len(b64string) > 3 /\ b64string[Len(b64string)] = Pad THEN 1 ELSE 0

\* How many of the last two characters are '='.
Padding(b64string) ==
    LET n == Len(b64string)
    IN  IF n <= 3 THEN 0
        ELSE (IF b64string[n] = Pad THEN 1 ELSE 0) + (IF b64string[n - 1] = Pad THEN 1 ELSE 0)

DecodedBlock(b64string, b) ==
    convert_from_b64(b64_alphabet_reverse(b64string[4 * b + 1]),
                     b64_alphabet_reverse(b64string[4 * b + 2]),
                     b64_alphabet_reverse(b64string[4 * b + 3]),
                     b64_alphabet_reverse(b64string[4 * b + 4]))

\* The first output_size octets of the output, all that is meant to be read.
mbase64_decode(b64string) ==
    IF Len(b64string) % 4 # 0 THEN NoData
    ELSE [k \in 1 .. 3 * (Len(b64string) \div 4) - Padding(b64string) |->
             DecodedBlock(b64string, (k - 1) \div 3)[((k - 1) % 3) + 1]]
=============================================================================
