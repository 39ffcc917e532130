---------------------------- MODULE Base64Proofs -----------------------------
(***************************************************************************)
(* Proofs, for byte sequences of every length, that what base64_encode     *)
(* makes of them decodes to them (Base64.tla).                             *)
(***************************************************************************)
EXTENDS Base64, WellFoundedInduction, TLAPS

-----------------------------------------------------------------------------
(* Induction on a number, for a set in place of a predicate.               *)

LEMMA Induction ==
  ASSUME NEW S, 0 \in S, \A n \in Nat : n \in S => n + 1 \in S
  PROVE  Nat \subseteq S
<1> DEFINE R == OpToRel(<, Nat)
           T == Nat \ S
<1>1. \A m, n \in Nat : m < n => <<m, n>> \in R
  BY DEF OpToRel
<1>2. IsWellFoundedOn(R, Nat)
  BY NatLessThanWellFounded
<1> HIDE DEF R
<1>3. SUFFICES ASSUME T # {} PROVE FALSE
  OBVIOUS
<1>4. PICK x \in T : \A y \in T : ~ (<<y, x>> \in R)
  <2>1. T \subseteq Nat
    OBVIOUS
  <2>. HIDE DEF T
  <2>. QED BY <1>2, <1>3, <2>1, WFMin
<1>5. x \in Nat /\ x \notin S /\ x # 0
  OBVIOUS
<1>6. x - 1 \in Nat /\ x - 1 < x /\ (x - 1) + 1 = x
  BY <1>5
<1>7. x - 1 \in T
  <2>1. x - 1 \in S => (x - 1) + 1 \in S
    BY <1>6
  <2>. QED BY <2>1, <1>5, <1>6
<1>8. <<x - 1, x>> \in R
  BY <1>1, <1>5, <1>6
<1>. QED BY <1>4, <1>7, <1>8

-----------------------------------------------------------------------------
(* The loop over the bytes.                                                *)

\* The recursive function is there, and is what its definition says.
LEMMA LoopSteps ==
  ASSUME NEW bytes \in Seq(Byte)
  PROVE  /\ Loop(bytes)[0] = [val |-> 0, valb |-> -6, out |-> <<>>]
         /\ \A n \in 1..Len(bytes) :
              Loop(bytes)[n] = EncodeByte(Loop(bytes)[n - 1], bytes[n])
<1> DEFINE start == [val |-> 0, valb |-> -6, out |-> <<>>]
           Runs(r, n) ==
             r = [m \in 0..n |-> IF m = 0 THEN start ELSE EncodeByte(r[m - 1], bytes[m])]
           S == {n \in Nat : \E r : Runs(r, n)}
<1>1. 0 \in S
  <2> DEFINE r == [m \in 0..0 |-> start]
  <2>1. Runs(r, 0)
    OBVIOUS
  <2>. QED BY <2>1
<1>2. ASSUME NEW n \in S PROVE n + 1 \in S
  <2>1. PICK r : Runs(r, n)
    OBVIOUS
  <2> DEFINE more == [m \in 0..(n + 1) |-> IF m <= n THEN r[m] ELSE EncodeByte(r[n], bytes[n + 1])]
  <2>2. Runs(more, n + 1)
    <3> HIDE DEF start
    <3>1. n \in Nat
      OBVIOUS
    <3>2. /\ r[0] = start
          /\ \A m \in 1..n : r[m] = EncodeByte(r[m - 1], bytes[m])
      BY <2>1, <3>1
    <3>3. /\ \A m \in 0..n : more[m] = r[m]
          /\ more[n + 1] = EncodeByte(r[n], bytes[n + 1])
      BY <3>1
    <3>4. more = [m \in 0..(n + 1) |-> more[m]]
      OBVIOUS
    <3> HIDE DEF more
    <3>5. ASSUME NEW m \in 0..(n + 1)
          PROVE  more[m] = IF m = 0 THEN start ELSE EncodeByte(more[m - 1], bytes[m])
      <4>1. CASE m = 0
        BY <3>1, <3>2, <3>3, <4>1
      <4>2. CASE m \in 1..n
        <5>1. more[m - 1] = r[m - 1] /\ more[m] = r[m] /\ m # 0
          BY <3>1, <3>3, <4>2
        <5>. QED BY <3>2, <4>2, <5>1
      <4>3. CASE m = n + 1
        <5>1. more[m - 1] = r[n] /\ m # 0
          BY <3>1, <3>3, <4>3
        <5>. QED BY <3>3, <4>3, <5>1
      <4>. QED BY <3>1, <4>1, <4>2, <4>3
    <3>. QED BY <3>4, <3>5
  <2>3. n + 1 \in Nat
    OBVIOUS
  <2>. HIDE DEF more, Runs
  <2>. QED BY <2>2, <2>3
<1>3. \E r : Runs(r, Len(bytes))
  <2>1. Len(bytes) \in S
    <3>. HIDE DEF S
    <3>1. \A n \in Nat : n \in S => n + 1 \in S
      BY <1>2
    <3>2. Nat \subseteq S
      BY <1>1, <3>1, Induction
    <3>. QED BY <3>2
  <2>. QED BY <2>1
<1>4. Runs(Loop(bytes), Len(bytes))
  BY <1>3 DEF Loop
<1>. QED BY <1>4

-----------------------------------------------------------------------------
(* The accumulator.                                                        *)

\* What an int keeps of a value includes its last 16 bits.
LEMMA Wrapped ==
  ASSUME NEW x \in Nat
  PROVE  x % IntValues \in Nat /\ (x % IntValues) % 65536 = x % 65536
<1>1. PICK k \in Nat : IntValues = 65536 * k
  <2> DEFINE m == IntValues \div 65536
  <2>1. IntValues = 65536 * m /\ m \in Nat
    BY IntAssumption
  <2> HIDE DEF m
  <2>. QED BY <2>1
<1>2. PICK q \in Nat, r \in Nat : x = IntValues * q + r /\ r = x % IntValues
  <2>1. x = IntValues * (x \div IntValues) + (x % IntValues)
    BY IntAssumption
  <2>2. x \div IntValues \in Nat /\ x % IntValues \in Nat
    BY IntAssumption
  <2>. QED BY <2>1, <2>2
<1>3. PICK h \in Nat : IntValues * q = 65536 * h
  <2>1. IntValues * q = 65536 * (k * q) /\ k * q \in Nat
    BY <1>1
  <2>. QED BY <2>1
<1>4. x % 65536 = r % 65536
  BY <1>2, <1>3
<1>. QED BY <1>2, <1>4

\* w ends in byte b and then c.
EndsIn(w, b, c) == w % 65536 = b * 256 + c

\* The accumulator ends in the last byte, and before it the byte before.
LEMMA Accumulated ==
  ASSUME NEW v \in Nat, NEW c \in Byte, NEW w, w = (v * 256 + c) % IntValues
  PROVE  w \in Nat /\ w % 256 = c /\ EndsIn(w, v % 256, c)
<1>1. v * 256 + c \in Nat
  BY DEF Byte
<1>2. w \in Nat /\ w % 65536 = (v * 256 + c) % 65536
  BY <1>1, Wrapped
<1>3. (v * 256 + c) % 65536 = (v % 256) * 256 + c
  BY DEF Byte
<1>. QED BY <1>2, <1>3 DEF Byte, EndsIn

LEMMA LastByte == ASSUME NEW v \in Nat PROVE v % 256 \in Byte
BY DEF Byte

LEMMA Digits ==
  ASSUME NEW b \in Byte, NEW c \in Byte, NEW w \in Nat, EndsIn(w, b, c)
  PROVE  /\ Digit(w, 0) = c % 64
         /\ Digit(w, 2) = c \div 4
         /\ Digit(w, 4) = (b % 4) * 16 + c \div 16
         /\ Digit(w, 6) = (b % 16) * 4 + c \div 64
         /\ \A by \in {0, 2, 4, 6} : Digit(w, by) \in 0..63
<1>1. PICK h \in Nat : w = 65536 * h + b * 256 + c
  <2>1. w = 65536 * (w \div 65536) + (w % 65536) /\ w \div 65536 \in Nat
    OBVIOUS
  <2>. QED BY <2>1 DEF Byte, EndsIn
<1>2. /\ Digit(w, 0) = (w \div 1) % 64
      /\ Digit(w, 2) = (w \div 4) % 64
      /\ Digit(w, 4) = (w \div 16) % 64
      /\ Digit(w, 6) = (w \div 64) % 64
  BY DEF Digit, PowersOf2
<1>3. (w \div 1) % 64 = c % 64
  BY <1>1 DEF Byte
<1>4. (w \div 4) % 64 = c \div 4
  BY <1>1 DEF Byte
<1>5. (w \div 16) % 64 = (b % 4) * 16 + c \div 16
  BY <1>1 DEF Byte
<1>6. (w \div 64) % 64 = (b % 16) * 4 + c \div 64
  <2>1. PICK b1 \in Nat, b0 \in 0..15 : b = 16 * b1 + b0 /\ b0 = b % 16
    <3>1. b = 16 * (b \div 16) + (b % 16) /\ b \div 16 \in Nat /\ b % 16 \in 0..15
      BY DEF Byte
    <3>. QED BY <3>1
  <2>2. PICK c1 \in 0..3, c0 \in 0..63 : c = 64 * c1 + c0 /\ c1 = c \div 64
    <3>1. c = 64 * (c \div 64) + (c % 64) /\ c \div 64 \in 0..3 /\ c % 64 \in 0..63
      BY DEF Byte
    <3>. QED BY <3>1
  <2>3. w = 64 * (1024 * h + 64 * b1 + 4 * b0 + c1) + c0
    BY <1>1, <2>1, <2>2
  <2>4. w \div 64 = 64 * (16 * h + b1) + (4 * b0 + c1)
    BY <2>3
  <2>. QED BY <2>1, <2>2, <2>4
<1>7. /\ c % 64 \in 0..63 /\ c \div 4 \in 0..63
      /\ (b % 4) * 16 + c \div 16 \in 0..63 /\ (b % 16) * 4 + c \div 64 \in 0..63
  BY DEF Byte
<1>. QED BY <1>2, <1>3, <1>4, <1>5, <1>6, <1>7

-----------------------------------------------------------------------------
(* The digits, each from the bytes it has its bits of (RFC 4648).          *)

ByteOrZero(bytes, i) == IF i \in 1..Len(bytes) THEN bytes[i] ELSE 0

Sextet(bytes, k) ==
  LET b(j) == ByteOrZero(bytes, 3 * ((k - 1) \div 4) + j)
  IN  CASE k % 4 = 1 -> b(1) \div 4
        [] k % 4 = 2 -> (b(1) % 4) * 16 + b(2) \div 16
        [] k % 4 = 3 -> (b(2) % 16) * 4 + b(3) \div 64
        [] k % 4 = 0 -> b(3) % 64

\* The loop after n bytes.
LoopInv(bytes, n, s) ==
  /\ s.val \in Nat
  /\ n > 0 => s.val % 256 = bytes[n]
  /\ s.valb = 2 * (n % 3) - 6
  /\ s.out \in Seq(0..63)
  /\ Len(s.out) = n + n \div 3
  /\ \A k \in 1..Len(s.out) : s.out[k] = Sextet(bytes, k)

LEMMA ByteThere ==
  ASSUME NEW bytes \in Seq(Byte)
  PROVE  /\ \A i \in 1..Len(bytes) : bytes[i] \in Byte
         /\ \A i : ByteOrZero(bytes, i) \in Byte
<1>1. \A i \in 1..Len(bytes) : bytes[i] \in Byte
  OBVIOUS
<1>2. 0 \in Byte
  BY DEF Byte
<1>. QED BY <1>1, <1>2 DEF ByteOrZero

LEMMA Appended ==
  ASSUME NEW D, NEW s \in Seq(D), NEW m \in Nat, NEW f \in [1..m -> D]
  PROVE  /\ s \o f \in Seq(D) /\ Len(s \o f) = Len(s) + m
         /\ \A k \in 1..Len(s) : (s \o f)[k] = s[k]
         /\ \A k \in 1..m : (s \o f)[Len(s) + k] = f[k]
<1>1. f \in Seq(D) /\ Len(f) = m
  OBVIOUS
<1>. QED BY <1>1

LEMMA PushLast ==
  ASSUME NEW D, NEW s \in Seq(D), NEW d \in D
  PROVE  /\ Append(s, d) \in Seq(D) /\ Len(Append(s, d)) = Len(s) + 1
         /\ Append(s, d)[Len(s) + 1] = d
         /\ \A k \in 1..Len(s) : Append(s, d)[k] = s[k]
OBVIOUS

\* The first digit that n bytes do not complete.
NextDigit(n, at) == at = n + n \div 3 + 1

\* Byte n + 1 completes it, and every third byte another.
LEMMA SextetAt ==
  ASSUME NEW bytes, NEW n \in Nat, NEW at, NextDigit(n, at),
         NEW b, b = ByteOrZero(bytes, n), NEW c, c = ByteOrZero(bytes, n + 1)
  PROVE  /\ n % 3 = 0 => Sextet(bytes, at) = c \div 4
         /\ n % 3 = 1 => Sextet(bytes, at) = (b % 4) * 16 + c \div 16
         /\ n % 3 = 2 => Sextet(bytes, at) = (b % 16) * 4 + c \div 64
         /\ n % 3 = 2 => Sextet(bytes, at + 1) = c % 64
<1>0. at = n + n \div 3 + 1
  BY DEF NextDigit
<1>1. PICK q \in Nat : n = 3 * q + (n % 3) /\ q = n \div 3
  OBVIOUS
<1>2. CASE n % 3 = 0
  <2>1. at % 4 = 1 /\ 3 * ((at - 1) \div 4) = n
    BY <1>0, <1>1, <1>2
  <2>. QED BY <1>2, <2>1 DEF Sextet
<1>3. CASE n % 3 = 1
  <2>1. at % 4 = 2 /\ 3 * ((at - 1) \div 4) + 1 = n /\ 3 * ((at - 1) \div 4) + 2 = n + 1
    BY <1>0, <1>1, <1>3
  <2>. QED BY <1>3, <2>1 DEF Sextet
<1>4. CASE n % 3 = 2
  <2>1. at % 4 = 3 /\ 3 * ((at - 1) \div 4) + 2 = n /\ 3 * ((at - 1) \div 4) + 3 = n + 1
    BY <1>0, <1>1, <1>4
  <2>2. (at + 1) % 4 = 0 /\ 3 * (((at + 1) - 1) \div 4) + 3 = n + 1
    BY <1>0, <1>1, <1>4
  <2>. QED BY <1>4, <2>1, <2>2 DEF Sextet
<1>. QED BY <1>2, <1>3, <1>4

LEMMA LoopStarts ==
  ASSUME NEW bytes \in Seq(Byte)
  PROVE  LoopInv(bytes, 0, [val |-> 0, valb |-> -6, out |-> <<>>])
BY DEF LoopInv

\* What the inner loop adds is the digits that byte n + 1 completes.
LEMMA LoopGoesOn ==
  ASSUME NEW bytes \in Seq(Byte), NEW n \in Nat, n + 1 <= Len(bytes),
         NEW s, LoopInv(bytes, n, s)
  PROVE  LoopInv(bytes, n + 1, EncodeByte(s, bytes[n + 1]))
<1> DEFINE c  == bytes[n + 1]
           b  == ByteOrZero(bytes, n)
           t  == EncodeByte(s, c)
           m  == n + 1
           at == Len(s.out) + 1
<1>0. /\ s.val \in Nat /\ (n > 0 => s.val % 256 = bytes[n])
      /\ s.valb = 2 * (n % 3) - 6
      /\ s.out \in Seq(0..63) /\ Len(s.out) = n + n \div 3
      /\ \A k \in 1..Len(s.out) : s.out[k] = Sextet(bytes, k)
  BY DEF LoopInv
<1>1. c \in Byte /\ c = ByteOrZero(bytes, n + 1) /\ b \in Byte /\ b = ByteOrZero(bytes, n)
  <2>1. n + 1 \in 1..Len(bytes)
    OBVIOUS
  <2>. QED BY <2>1, ByteThere DEF ByteOrZero
<1>2. /\ t.val \in Nat /\ t.val % 256 = c
      /\ EndsIn(t.val, s.val % 256, c)
      /\ t.val = (s.val * 256 + c) % IntValues
  BY <1>1, Accumulated DEF LoopInv, EncodeByte
<1>3. PICK p \in Byte : EndsIn(t.val, p, c) /\ (n > 0 => p = b)
  <2>1. n > 0 => n \in 1..Len(bytes)
    OBVIOUS
  <2>2. n > 0 => s.val % 256 = b
    BY <1>0, <2>1 DEF ByteOrZero
  <2>3. s.val % 256 \in Byte
    <3>1. s.val \in Nat
      BY <1>0
    <3>. QED BY <3>1, LastByte
  <2>. QED BY <1>2, <2>2, <2>3
<1>4. at = n + n \div 3 + 1 /\ at \in Nat
  BY <1>0
<1>5. t.valb = 2 * ((n + 1) % 3) - 6
  BY DEF LoopInv, EncodeByte
<1> DEFINE valb   == s.valb + 8
           digits == valb \div 6 + 1
           more   == [i \in 1..digits |-> Digit(t.val, valb - 6 * (i - 1))]
<1>6. t.out = s.out \o more
  <2> DEFINE v == (s.val * 256 + c) % IntValues
  <2>1. t = [val |-> v, valb |-> valb - 6 * digits,
             out |-> s.out \o [i \in 1..digits |-> Digit(v, valb - 6 * (i - 1))]]
    BY DEF EncodeByte
  <2> HIDE DEF t, v
  <2>2. t.val = v
    BY <2>1
  <2>. QED BY <2>1, <2>2
<1>7. /\ n % 3 \in {0, 1} => digits = 1
      /\ n % 3 = 2 => digits = 2
      /\ digits \in {1, 2}
  BY <1>0
<1>8. \A i \in 1..digits : more[i] = Digit(t.val, valb - 6 * (i - 1))
  OBVIOUS
<1>9. more = [i \in 1..digits |-> more[i]]
  OBVIOUS
<1>10. valb = 2 * (n % 3) + 2
  BY <1>0
<1> HIDE DEF more, digits, valb, t, c, b, at
<1>11. /\ Digit(t.val, 0) = c % 64
       /\ Digit(t.val, 2) = c \div 4
       /\ Digit(t.val, 4) = (p % 4) * 16 + c \div 16
       /\ Digit(t.val, 6) = (p % 16) * 4 + c \div 64
       /\ \A by \in {0, 2, 4, 6} : Digit(t.val, by) \in 0..63
  <2>1. t.val \in Nat /\ EndsIn(t.val, p, c) /\ c \in Byte
    BY <1>1, <1>2, <1>3
  <2>. QED BY <2>1, Digits
<1>12. /\ at - 1 + 1 = at /\ at - 1 + 2 = at + 1 /\ at - 1 = Len(s.out)
       /\ n % 3 = 0 => Sextet(bytes, at) = c \div 4
       /\ n % 3 = 1 => Sextet(bytes, at) = (b % 4) * 16 + c \div 16
       /\ n % 3 = 2 => Sextet(bytes, at) = (b % 16) * 4 + c \div 64
       /\ n % 3 = 2 => Sextet(bytes, at + 1) = c % 64
  <2>1. at - 1 + 1 = at /\ at - 1 + 2 = at + 1 /\ at - 1 = Len(s.out)
    <3>1. Len(s.out) \in Nat
      BY <1>0
    <3>. QED BY <3>1 DEF at
  <2>2. /\ n % 3 = 0 => Sextet(bytes, at) = c \div 4
        /\ n % 3 = 1 => Sextet(bytes, at) = (b % 4) * 16 + c \div 16
        /\ n % 3 = 2 => Sextet(bytes, at) = (b % 16) * 4 + c \div 64
        /\ n % 3 = 2 => Sextet(bytes, at + 1) = c % 64
    <3>1. NextDigit(n, at) /\ b = ByteOrZero(bytes, n) /\ c = ByteOrZero(bytes, n + 1)
      BY <1>1, <1>4 DEF NextDigit
    <3>. QED BY <3>1, SextetAt
  <2>. QED BY <2>1, <2>2
<1>13. \A i \in 1..digits : more[i] = Sextet(bytes, at - 1 + i) /\ more[i] \in 0..63
  <2>1. CASE n % 3 = 0
    <3>1. digits = 1 /\ more[1] = Digit(t.val, 2)
      BY <1>7, <1>8, <1>10, <2>1
    <3>2. more[1] = Sextet(bytes, at) /\ more[1] \in 0..63
      BY <1>11, <1>12, <2>1, <3>1
    <3>. QED BY <1>12, <3>1, <3>2
  <2>2. CASE n % 3 = 1
    <3>1. digits = 1 /\ more[1] = Digit(t.val, 4)
      BY <1>7, <1>8, <1>10, <2>2
    <3>2. p = b
      BY <1>3, <2>2
    <3>3. more[1] = Sextet(bytes, at) /\ more[1] \in 0..63
      BY <1>11, <1>12, <2>2, <3>1, <3>2
    <3>. QED BY <1>12, <3>1, <3>3
  <2>3. CASE n % 3 = 2
    <3>1. digits = 2 /\ more[1] = Digit(t.val, 6) /\ more[2] = Digit(t.val, 0)
      BY <1>7, <1>8, <1>10, <2>3
    <3>2. p = b
      BY <1>3, <2>3
    <3>3. more[1] = Sextet(bytes, at) /\ more[1] \in 0..63
      BY <1>11, <1>12, <2>3, <3>1, <3>2
    <3>4. more[2] = Sextet(bytes, at + 1) /\ more[2] \in 0..63
      BY <1>11, <1>12, <2>3, <3>1
    <3>5. \A i \in 1..digits : i = 1 \/ i = 2
      BY <3>1
    <3>. QED BY <1>12, <3>3, <3>4, <3>5
  <2>. QED BY <2>1, <2>2, <2>3
<1>14. /\ t.out \in Seq(0..63) /\ Len(t.out) = Len(s.out) + digits
       /\ \A k \in 1..Len(s.out) : t.out[k] = s.out[k]
       /\ \A k \in 1..digits : t.out[Len(s.out) + k] = more[k]
  <2>1. more \in [1..digits -> 0..63]
    BY <1>9, <1>13
  <2>2. s.out \in Seq(0..63) /\ digits \in Nat
    BY <1>0, <1>7
  <2> DEFINE D == 0..63
             o == s.out
  <2>3. o \in Seq(D) /\ more \in [1..digits -> D] /\ digits \in Nat
    BY <2>1, <2>2
  <2> HIDE DEF D, o
  <2>4. /\ o \o more \in Seq(D) /\ Len(o \o more) = Len(o) + digits
        /\ \A k \in 1..Len(o) : (o \o more)[k] = o[k]
        /\ \A k \in 1..digits : (o \o more)[Len(o) + k] = more[k]
    BY <2>3, Appended
  <2>. QED BY <1>6, <2>4, Zenon DEF D, o
<1>15. Len(t.out) = (n + 1) + (n + 1) \div 3
  BY <1>0, <1>7, <1>14
<1>16. ASSUME NEW k \in 1..Len(t.out) PROVE t.out[k] = Sextet(bytes, k)
  <2>1. CASE k \in 1..Len(s.out)
    BY <1>0, <1>14, <2>1
  <2>2. CASE k \notin 1..Len(s.out)
    <3>1. PICK i \in 1..digits : k = Len(s.out) + i
      <4>1. Len(s.out) \in Nat /\ digits \in Nat
        BY <1>0, <1>4, <1>7
      <4>2. k - Len(s.out) \in 1..digits
        BY <1>14, <2>2, <4>1
      <4>3. k \in Nat
        BY <1>14, <4>1
      <4>4. k = Len(s.out) + (k - Len(s.out))
        BY <4>1, <4>3
      <4>. QED BY <4>2, <4>4
    <3>2. t.out[k] = more[i] /\ more[i] = Sextet(bytes, at - 1 + i)
      BY <1>13, <1>14, <3>1
    <3>. QED BY <1>12, <3>1, <3>2
  <2>. QED BY <2>1, <2>2
<1>17. t.val % 256 = bytes[n + 1] /\ n + 1 \in Nat
  BY <1>2 DEF c
<1>. QED BY <1>2, <1>5, <1>14, <1>15, <1>16, <1>17 DEF LoopInv, t, c

LEMMA LoopKeepsInv ==
  ASSUME NEW bytes \in Seq(Byte)
  PROVE  LoopInv(bytes, Len(bytes), Loop(bytes)[Len(bytes)])
<1> DEFINE S == {n \in Nat : n <= Len(bytes) => LoopInv(bytes, n, Loop(bytes)[n])}
<1>1. 0 \in S
  BY LoopStarts, LoopSteps
<1>2. ASSUME NEW n \in Nat, n \in S PROVE n + 1 \in S
  <2>1. CASE n + 1 <= Len(bytes)
    <3>1. LoopInv(bytes, n, Loop(bytes)[n])
      BY <1>2, <2>1
    <3>2. Loop(bytes)[n + 1] = EncodeByte(Loop(bytes)[n], bytes[n + 1])
      <4>1. n + 1 \in 1..Len(bytes) /\ (n + 1) - 1 = n
        BY <2>1
      <4>. QED BY <4>1, LoopSteps
    <3>. QED BY <2>1, <3>1, <3>2, LoopGoesOn
  <2>. QED BY <2>1
<1> HIDE DEF S
<1>3. Nat \subseteq S
  BY <1>1, <1>2, Induction
<1>. QED BY <1>3 DEF S

-----------------------------------------------------------------------------
(* What is encoded.                                                        *)

\* The last digit is another of the same, of bytes that go on with zeros.
LEMMA AllSextets ==
  ASSUME NEW bytes \in Seq(Byte), NEW n, n = Len(bytes), NEW o, o = LastDigit(Loop(bytes)[n])
  PROVE  /\ o \in Seq(0..63) /\ Len(o) = n + (n + 2) \div 3
         /\ \A k \in 1..Len(o) : o[k] = Sextet(bytes, k)
<1> DEFINE s == Loop(bytes)[n]
           w == (s.val * 256) % IntValues
           b == ByteOrZero(bytes, n)
           at == n + n \div 3 + 1
<1>0. /\ s.val \in Nat /\ (n > 0 => s.val % 256 = bytes[n])
      /\ s.valb = 2 * (n % 3) - 6
      /\ s.out \in Seq(0..63) /\ Len(s.out) = n + n \div 3
      /\ \A k \in 1..Len(s.out) : s.out[k] = Sextet(bytes, k)
  BY LoopKeepsInv DEF LoopInv
<1> HIDE DEF s
<1>1. n \in Nat /\ o = LastDigit(s)
  BY DEF s
<1>2. CASE n % 3 = 0
  <2>1. o = s.out /\ n \div 3 = (n + 2) \div 3
    <3>1. ~(s.valb > -6)
      BY <1>0, <1>2
    <3>2. n \div 3 = (n + 2) \div 3
      BY <1>1, <1>2
    <3>. QED BY <1>1, <3>1, <3>2 DEF LastDigit
  <2>. QED BY <1>0, <2>1
<1>3. CASE n % 3 # 0
  <2>1. o = Append(s.out, Digit(w, s.valb + 8))
    <3>1. s.valb > -6
      BY <1>0, <1>1, <1>3
    <3>. QED BY <1>1, <3>1 DEF LastDigit
  <2>2. w \in Nat /\ EndsIn(w, b, 0) /\ b \in Byte /\ 0 \in Byte
    <3>1. n \in 1..Len(bytes) /\ n > 0
      BY <1>1, <1>3
    <3>2. b = s.val % 256 /\ b \in Byte
      BY <1>0, <3>1, ByteThere DEF ByteOrZero
    <3>3. 0 \in Byte /\ s.val * 256 = s.val * 256 + 0
      BY <1>0 DEF Byte
    <3>. QED BY <1>0, <3>2, <3>3, Accumulated
  <2> HIDE DEF w, b
  <2>3. 0 = ByteOrZero(bytes, n + 1) /\ b = ByteOrZero(bytes, n)
    BY <1>1 DEF ByteOrZero, b
  <2>4. /\ n % 3 = 1 => Sextet(bytes, at) = (b % 4) * 16 + 0 \div 16
        /\ n % 3 = 2 => Sextet(bytes, at) = (b % 16) * 4 + 0 \div 64
    <3>1. NextDigit(n, at)
      BY DEF NextDigit
    <3> HIDE DEF at
    <3>. QED BY <1>1, <2>3, <3>1, SextetAt
  <2>5. /\ Digit(w, 4) = (b % 4) * 16 + 0 \div 16 /\ Digit(w, 4) \in 0..63
        /\ Digit(w, 6) = (b % 16) * 4 + 0 \div 64 /\ Digit(w, 6) \in 0..63
    BY <2>2, Digits
  <2>6. /\ n % 3 = 1 => s.valb + 8 = 4
        /\ n % 3 = 2 => s.valb + 8 = 6
        /\ n % 3 \in {1, 2}
    BY <1>0, <1>1, <1>3
  <2> DEFINE d == Digit(w, s.valb + 8)
  <2>7. d = Sextet(bytes, at) /\ d \in 0..63
    BY <2>4, <2>5, <2>6
  <2>8. at = Len(s.out) + 1 /\ at = n + (n + 2) \div 3 /\ at \in Nat
    BY <1>0, <1>1, <1>3
  <2> HIDE DEF d, at
  <2>9. /\ o \in Seq(0..63) /\ Len(o) = at /\ o[at] = d
        /\ \A k \in 1..Len(s.out) : o[k] = s.out[k]
    <3>1. o = Append(s.out, d)
      BY <2>1 DEF d
    <3>2. s.out \in Seq(0..63) /\ Len(s.out) \in Nat
      BY <1>0
    <3>3. /\ Append(s.out, d) \in Seq(0..63) /\ Len(Append(s.out, d)) = Len(s.out) + 1
          /\ Append(s.out, d)[Len(s.out) + 1] = d
          /\ \A k \in 1..Len(s.out) : Append(s.out, d)[k] = s.out[k]
      BY <2>7, <3>2, PushLast
    <3>. QED BY <2>8, <3>1, <3>3, Zenon
  <2>10. ASSUME NEW k \in 1..Len(o) PROVE o[k] = Sextet(bytes, k)
    <3>1. k = at \/ k \in 1..Len(s.out)
      BY <2>8, <2>9
    <3>. QED BY <1>0, <2>7, <2>9, <3>1
  <2>. QED BY <2>8, <2>9, <2>10
<1>. QED BY <1>2, <1>3

LEMMA Encoded ==
  ASSUME NEW bytes \in Seq(Byte), NEW n, n = Len(bytes), NEW d, d = base64_encode(bytes)
  PROVE  /\ Len(d) = 4 * ((n + 2) \div 3)
         /\ \A k \in 1..Len(d) :
              d[k] = IF k <= n + (n + 2) \div 3 THEN Sextet(bytes, k) ELSE Pad
<1> DEFINE o == LastDigit(Loop(bytes)[n])
           m == (4 - (Len(o) % 4)) % 4
           pads == [i \in 1..m |-> Pad]
           D == 0..64
<1>1. /\ o \in Seq(0..63) /\ Len(o) = n + (n + 2) \div 3
      /\ \A k \in 1..Len(o) : o[k] = Sextet(bytes, k)
  BY AllSextets
<1>2. d = o \o pads
  BY DEF base64_encode, Padded
<1> HIDE DEF o
<1>3. n \in Nat /\ m \in Nat /\ Len(o) + m = 4 * ((n + 2) \div 3)
  <2>1. n \in Nat
    OBVIOUS
  <2>2. PICK q \in Nat : q = (n + 2) \div 3 /\ n \in {3 * q, 3 * q - 1, 3 * q - 2}
    BY <2>1
  <2>3. Len(o) = n + q
    BY <1>1, <2>2
  <2>. QED BY <2>1, <2>2, <2>3
<1>4. o \in Seq(D) /\ pads \in [1..m -> D] /\ \A i \in 1..m : pads[i] = Pad
  BY <1>1 DEF Pad
<1> HIDE DEF m, pads, D
<1>5. /\ Len(d) = Len(o) + m
      /\ \A k \in 1..Len(o) : d[k] = o[k]
      /\ \A k \in 1..m : d[Len(o) + k] = Pad
  BY <1>2, <1>3, <1>4, Appended
<1>6. ASSUME NEW k \in 1..Len(d)
      PROVE  d[k] = IF k <= n + (n + 2) \div 3 THEN Sextet(bytes, k) ELSE Pad
  <2>1. CASE k <= Len(o)
    BY <1>1, <1>5, <2>1
  <2>2. CASE k > Len(o)
    <3>1. k - Len(o) \in 1..m /\ Len(o) + (k - Len(o)) = k
      BY <1>3, <1>5, <2>2
    <3>2. d[k] = Pad
      BY <1>5, <3>1
    <3>. QED BY <1>1, <2>2, <3>2
  <2>. QED BY <1>1, <2>1, <2>2
<1>. QED BY <1>3, <1>5, <1>6

-----------------------------------------------------------------------------
(* What is decoded.                                                        *)

LEMMA Rejoined ==
  ASSUME NEW x \in Byte, NEW y \in Byte, NEW z \in Byte
  PROVE  /\ (y \div 4) * 4 + ((y % 4) * 16 + z \div 16) \div 16 = y
         /\ (((x % 4) * 16 + y \div 16) % 16) * 16 + ((y % 16) * 4 + z \div 64) \div 4 = y
         /\ (((x % 16) * 4 + y \div 64) % 4) * 64 + (y % 64) = y
         /\ (y % 4) * 16 + z \div 16 \in 0..63
         /\ (y % 16) * 4 + z \div 64 \in 0..63
         /\ y % 64 \in 0..63
<1> USE DEF Byte
<1>1. (y \div 4) * 4 + ((y % 4) * 16 + z \div 16) \div 16 = y
  OBVIOUS
<1>2. (((x % 4) * 16 + y \div 16) % 16) * 16 + ((y % 16) * 4 + z \div 64) \div 4 = y
  OBVIOUS
<1>3. (((x % 16) * 4 + y \div 64) % 4) * 64 + (y % 64) = y
  OBVIOUS
<1>4. /\ (y % 4) * 16 + z \div 16 \in 0..63
      /\ (y % 16) * 4 + z \div 64 \in 0..63
      /\ y % 64 \in 0..63
  OBVIOUS
<1>. QED BY <1>1, <1>2, <1>3, <1>4

\* Byte i, from the two sextets that have its bits.
LEMMA ByteOfSextets ==
  ASSUME NEW bytes \in Seq(Byte), NEW i \in 1..Len(bytes),
         NEW k, k = FirstDigit(i),
         NEW d, d = Sextet(bytes, k), NEW e, e = Sextet(bytes, k + 1)
  PROVE  /\ i % 3 = 1 => bytes[i] = d * 4 + e \div 16
         /\ i % 3 = 2 => bytes[i] = (d % 16) * 16 + e \div 4
         /\ i % 3 = 0 => bytes[i] = (d % 4) * 64 + e
         /\ e \in 0..63
<1>1. PICK x, y, z : x = ByteOrZero(bytes, i - 1) /\ y = ByteOrZero(bytes, i) /\
        z = ByteOrZero(bytes, i + 1)
  OBVIOUS
<1>2. x \in Byte /\ y \in Byte /\ z \in Byte /\ bytes[i] = y /\ i \in Nat \ {0}
  <2>1. x \in Byte /\ y \in Byte /\ z \in Byte
    BY <1>1, ByteThere
  <2>2. bytes[i] = y /\ i \in Nat \ {0}
    BY <1>1 DEF ByteOrZero
  <2>. QED BY <2>1, <2>2
<1>3. PICK m \in Nat : m = i - 1 /\ m + 1 = i
  BY <1>2
<1>4. /\ m % 3 = 0 => d = y \div 4
      /\ m % 3 = 1 => d = (x % 4) * 16 + y \div 16
      /\ m % 3 = 2 => d = (x % 16) * 4 + y \div 64
      /\ m % 3 = 2 => e = y % 64
  <2>1. NextDigit(m, k)
    BY <1>3 DEF NextDigit, FirstDigit
  <2>2. x = ByteOrZero(bytes, m) /\ y = ByteOrZero(bytes, m + 1)
    BY <1>1, <1>3
  <2>3. /\ m % 3 = 0 => Sextet(bytes, k) = y \div 4
        /\ m % 3 = 1 => Sextet(bytes, k) = (x % 4) * 16 + y \div 16
        /\ m % 3 = 2 => Sextet(bytes, k) = (x % 16) * 4 + y \div 64
        /\ m % 3 = 2 => Sextet(bytes, k + 1) = y % 64
    BY <2>1, <2>2, SextetAt
  <2>. QED BY <2>3, Zenon
<1>5. /\ i % 3 = 1 => e = (y % 4) * 16 + z \div 16
      /\ i % 3 = 2 => e = (y % 16) * 4 + z \div 64
  <2>1. CASE i % 3 = 0
    BY <2>1
  <2>2. CASE i % 3 # 0
    <3>1. NextDigit(i, k + 1)
      BY <1>2, <2>2 DEF NextDigit, FirstDigit
    <3>. QED BY <1>1, <1>2, <3>1, SextetAt
  <2>. QED BY <2>1, <2>2
<1>6. /\ i % 3 = 1 <=> m % 3 = 0
      /\ i % 3 = 2 <=> m % 3 = 1
      /\ i % 3 = 0 <=> m % 3 = 2
      /\ i % 3 \in {0, 1, 2}
  BY <1>3
<1>7. /\ (y \div 4) * 4 + ((y % 4) * 16 + z \div 16) \div 16 = y
      /\ (((x % 4) * 16 + y \div 16) % 16) * 16 + ((y % 16) * 4 + z \div 64) \div 4 = y
      /\ (((x % 16) * 4 + y \div 64) % 4) * 64 + (y % 64) = y
      /\ (y % 4) * 16 + z \div 16 \in 0..63
      /\ (y % 16) * 4 + z \div 64 \in 0..63
      /\ y % 64 \in 0..63
  BY <1>2, Rejoined
<1>8. CASE i % 3 = 1
  <2>1. d = y \div 4 /\ e = (y % 4) * 16 + z \div 16
    BY <1>4, <1>5, <1>6, <1>8
  <2>2. bytes[i] = d * 4 + e \div 16 /\ e \in 0..63
    BY <1>2, <1>7, <2>1, Zenon
  <2>. QED BY <1>8, <2>2
<1>9. CASE i % 3 = 2
  <2>1. d = (x % 4) * 16 + y \div 16 /\ e = (y % 16) * 4 + z \div 64
    BY <1>4, <1>5, <1>6, <1>9
  <2>2. bytes[i] = (d % 16) * 16 + e \div 4 /\ e \in 0..63
    BY <1>2, <1>7, <2>1, Zenon
  <2>. QED BY <1>9, <2>2
<1>10. CASE i % 3 = 0
  <2>1. d = (x % 16) * 4 + y \div 64 /\ e = y % 64
    BY <1>4, <1>6, <1>10
  <2>2. bytes[i] = (d % 4) * 64 + e /\ e \in 0..63
    BY <1>2, <1>7, <2>1, Zenon
  <2>. QED BY <1>10, <2>2
<1>. QED BY <1>6, <1>8, <1>9, <1>10

(* base64_encode loses nothing of any sequence of bytes, though its        *)
(* accumulator overflows on all but the shortest: what decodes base64      *)
(* finds the bytes again.                                                  *)
THEOREM EncodedDecodes ==
  ASSUME NEW bytes \in Seq(Byte)
  PROVE  Decoded(base64_encode(bytes)) = bytes
<1> DEFINE digits == base64_encode(bytes)
           n == Len(bytes)
           q == (n + 2) \div 3
           ByteAt(i) ==
             LET d == digits[FirstDigit(i)]
                 e == digits[FirstDigit(i) + 1]
             IN  CASE i % 3 = 1 -> d * 4 + e \div 16
                   [] i % 3 = 2 -> (d % 16) * 16 + e \div 4
                   [] i % 3 = 0 -> (d % 4) * 64 + e
           there == {i \in 1..(3 * (Len(digits) \div 4)) : digits[FirstDigit(i) + 1] # Pad}
<1>1. Decoded(digits) = [i \in there |-> ByteAt(i)]
  BY DEF Decoded
<1>2. /\ Len(digits) = 4 * q
      /\ \A k \in 1..Len(digits) : digits[k] = IF k <= n + q THEN Sextet(bytes, k) ELSE Pad
  BY Encoded
<1> HIDE DEF digits
<1>3. n \in Nat /\ q \in Nat /\ n <= 3 * q /\ 3 * (Len(digits) \div 4) = 3 * q
  BY <1>2
<1>4. ASSUME NEW i \in 1..(3 * q)
      PROVE  /\ FirstDigit(i) \in 1..Len(digits) /\ FirstDigit(i) + 1 \in 1..Len(digits)
             /\ i <= n <=> FirstDigit(i) + 1 <= n + q
             /\ i <= n => FirstDigit(i) <= n + q
  BY <1>2, <1>3 DEF FirstDigit
<1>5. ASSUME NEW i \in 1..n
      PROVE  i \in there /\ ByteAt(i) = bytes[i]
  <2>1. i \in 1..(3 * q) /\ i <= n
    BY <1>3
  <2>2. digits[FirstDigit(i)] = Sextet(bytes, FirstDigit(i)) /\
          digits[FirstDigit(i) + 1] = Sextet(bytes, FirstDigit(i) + 1)
    BY <1>2, <1>4, <2>1
  <2>3. /\ i % 3 = 1 => bytes[i] = digits[FirstDigit(i)] * 4 + digits[FirstDigit(i) + 1] \div 16
        /\ i % 3 = 2 => bytes[i] = (digits[FirstDigit(i)] % 16) * 16 + digits[FirstDigit(i) + 1] \div 4
        /\ i % 3 = 0 => bytes[i] = (digits[FirstDigit(i)] % 4) * 64 + digits[FirstDigit(i) + 1]
        /\ digits[FirstDigit(i) + 1] \in 0..63
    <3> DEFINE k == FirstDigit(i)
    <3>1. digits[k] = Sextet(bytes, k) /\ digits[k + 1] = Sextet(bytes, k + 1)
          /\ k = FirstDigit(i)
      BY <2>2
    <3> HIDE DEF k
    <3>2. /\ i % 3 = 1 => bytes[i] = digits[k] * 4 + digits[k + 1] \div 16
          /\ i % 3 = 2 => bytes[i] = (digits[k] % 16) * 16 + digits[k + 1] \div 4
          /\ i % 3 = 0 => bytes[i] = (digits[k] % 4) * 64 + digits[k + 1]
          /\ digits[k + 1] \in 0..63
      BY <3>1, ByteOfSextets
    <3>. QED BY <3>2 DEF k
  <2>4. i % 3 \in {0, 1, 2}
    BY <2>1
  <2>5. ByteAt(i) = bytes[i]
    BY <2>3, <2>4
  <2>6. digits[FirstDigit(i) + 1] # Pad
    <3> DEFINE e == digits[FirstDigit(i) + 1]
    <3>1. e \in 0..63
      BY <2>3
    <3> HIDE DEF e
    <3>2. e # 64
      BY <3>1
    <3>. QED BY <3>2 DEF Pad, e
  <2>. QED BY <1>3, <2>1, <2>5, <2>6
<1>6. ASSUME NEW i \in there PROVE i \in 1..n
  <2>1. i \in 1..(3 * q) /\ digits[FirstDigit(i) + 1] # Pad
    BY <1>3
  <2>2. FirstDigit(i) + 1 <= n + q
    BY <1>2, <1>4, <2>1
  <2>. QED BY <1>4, <2>1, <2>2
<1> HIDE DEF there, ByteAt
<1>7. there = 1..n
  BY <1>5, <1>6
<1>8. bytes = [i \in 1..n |-> bytes[i]]
  OBVIOUS
<1>9. Decoded(digits) = [i \in 1..n |-> bytes[i]]
  BY <1>1, <1>5, <1>7
<1>. QED BY <1>8, <1>9 DEF digits

=============================================================================
