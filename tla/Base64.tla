------------------------------- MODULE Base64 --------------------------------
(***************************************************************************)
(* base64_encode (analytics.cpp), which the authorization header needs.    *)
(* Bytes are 0..255, digits of the alphabet 0..63, and Pad is '='.  The    *)
(* accumulator is an int of IntValues values; what is shifted out on the   *)
(* left is lost (with 2^32 the code's, by what compilers do of the         *)
(* overflow).  C++ gives an int at least 16 bits.                          *)
(***************************************************************************)
EXTENDS Integers, Sequences

CONSTANT IntValues

ASSUME IntAssumption == IntValues \in Nat \ {0} /\ IntValues % 65536 = 0

Byte == 0..255
Pad  == 64

-----------------------------------------------------------------------------
(* A plausible mistake, used by no definition of the model. *)
LastDigitUnshifted(s) == IF s.valb > -6 THEN Append(s.out, s.val % 64) ELSE s.out

-----------------------------------------------------------------------------
PowersOf2 == <<1, 2, 4, 8, 16, 32, 64>>

\* (val >> by) & 0x3F
Digit(val, by) == (val \div PowersOf2[by + 1]) % 64

\* One byte, and the inner loop: a digit for every six bits there are.
EncodeByte(s, c) ==
  LET val    == (s.val * 256 + c) % IntValues
      valb   == s.valb + 8
      digits == valb \div 6 + 1
  IN  [val  |-> val,
       valb |-> valb - 6 * digits,
       out  |-> s.out \o [i \in 1..digits |-> Digit(val, valb - 6 * (i - 1))]]

\* The accumulator and the digits after each byte.
Loop(bytes) ==
  LET run[n \in 0..Len(bytes)] ==
        IF n = 0 THEN [val |-> 0, valb |-> -6, out |-> <<>>]
        ELSE EncodeByte(run[n - 1], bytes[n])
  IN  run

\* What is left of the last byte, with zeros for the missing bits.
LastDigit(s) ==
  IF s.valb > -6 THEN Append(s.out, Digit((s.val * 256) % IntValues, s.valb + 8))
  ELSE s.out

Padded(out) == out \o [i \in 1..((4 - (Len(out) % 4)) % 4) |-> Pad]

base64_encode(bytes) == Padded(LastDigit(Loop(bytes)[Len(bytes)]))

-----------------------------------------------------------------------------
(* RFC 4648 read backwards, for reference.  Byte i has its bits in two     *)
(* digits, and is there if the second of them is no Pad.                   *)

FirstDigit(i) == i + (i - 1) \div 3

Decoded(digits) ==
  LET ByteAt(i) ==
        LET d == digits[FirstDigit(i)]
            e == digits[FirstDigit(i) + 1]
        IN  CASE i % 3 = 1 -> d * 4 + e \div 16
              [] i % 3 = 2 -> (d % 16) * 16 + e \div 4
              [] i % 3 = 0 -> (d % 4) * 64 + e
      places == 1..(3 * (Len(digits) \div 4))
  IN  [i \in {i \in places : digits[FirstDigit(i) + 1] # Pad} |-> ByteAt(i)]

=============================================================================
