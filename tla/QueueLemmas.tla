----------------------------- MODULE QueueLemmas -----------------------------
(***************************************************************************)
(* What appending to a queue, popping its front and cutting it do to the   *)
(* set of its elements, and to their being distinct.                       *)
(***************************************************************************)
EXTENDS Naturals, Sequences, SequencesExt, SequenceTheorems, TLAPS

Distinct(s) == \A i, j \in 1..Len(s) : s[i] = s[j] => i = j

LEMMA ToSetIndexed ==
  ASSUME NEW S, NEW s \in Seq(S)
  PROVE  /\ ToSet(s) = {s[i] : i \in 1..Len(s)}
         /\ ToSet(s) \subseteq S
         /\ \A x : x \in ToSet(s) <=> \E i \in 1..Len(s) : s[i] = x
BY LenProperties, ElementOfSeq DEF ToSet

LEMMA ToSetEmpty == ToSet(<<>>) = {}
BY EmptySeq DEF ToSet

LEMMA EmptyToSet ==
  ASSUME NEW S, NEW s \in Seq(S)
  PROVE  ToSet(s) = {} <=> s = <<>>
<1>1. CASE s = <<>>
  BY <1>1, ToSetEmpty
<1>2. CASE s # <<>>
  <2>1. 1 \in 1..Len(s)
    BY <1>2, EmptySeq, SMT
  <2>. QED BY <1>2, <2>1, ToSetIndexed
<1>. QED BY <1>1, <1>2

LEMMA AppendToSet ==
  ASSUME NEW S, NEW s \in Seq(S), NEW x \in S
  PROVE  /\ ToSet(Append(s, x)) = ToSet(s) \union {x}
         /\ Distinct(s) /\ x \notin ToSet(s) => Distinct(Append(s, x))
<1> DEFINE a == Append(s, x)
<1>1. /\ a \in Seq(S) /\ Len(s) \in Nat /\ Len(a) = Len(s) + 1
      /\ \A i \in 1..Len(s) : a[i] = s[i]
      /\ a[Len(s) + 1] = x
  BY AppendProperties, LenProperties
<1> HIDE DEF a
<1>2. \A y : y \in ToSet(a) <=> y \in ToSet(s) \/ y = x
  <2> TAKE y
  <2>1. y \in ToSet(a) <=> \E i \in 1..Len(a) : a[i] = y
    BY <1>1, ToSetIndexed
  <2>2. y \in ToSet(s) <=> \E i \in 1..Len(s) : s[i] = y
    BY ToSetIndexed
  <2>. QED BY <1>1, <2>1, <2>2, SMT
<1>3. ASSUME Distinct(s), x \notin ToSet(s) PROVE Distinct(a)
  <2>1. \A i \in 1..Len(s) : s[i] # x
    BY <1>3, ToSetIndexed
  <2>. QED BY <1>1, <1>3, <2>1, SMT DEF Distinct
<1>. QED BY <1>2, <1>3 DEF a

LEMMA TailToSet ==
  ASSUME NEW S, NEW s \in Seq(S), s # <<>>
  PROVE  /\ ToSet(s) = {Head(s)} \union ToSet(Tail(s))
         /\ Distinct(s) => Distinct(Tail(s)) /\ Head(s) \notin ToSet(Tail(s))
<1> DEFINE r == Tail(s)
<1>1. /\ r \in Seq(S) /\ Len(s) \in Nat \ {0} /\ Len(r) = Len(s) - 1
      /\ \A i \in 1..Len(r) : r[i] = s[i + 1]
      /\ Head(s) = s[1]
  BY HeadTailProperties, EmptySeq
<1> HIDE DEF r
<1>2. \A y : y \in ToSet(r) <=> \E i \in 1..Len(r) : s[i + 1] = y
  BY <1>1, ToSetIndexed
<1>3. \A y : y \in ToSet(s) <=> y = s[1] \/ y \in ToSet(r)
  <2> TAKE y
  <2>1. y \in ToSet(s) <=> \E i \in 1..Len(s) : s[i] = y
    BY ToSetIndexed
  <2>2. ASSUME NEW i \in 1..Len(s), s[i] = y PROVE y = s[1] \/ y \in ToSet(r)
    <3>1. CASE i = 1
      BY <2>2, <3>1
    <3>2. CASE i # 1
      <4>1. i - 1 \in 1..Len(r) /\ (i - 1) + 1 = i
        BY <1>1, <3>2, SMT
      <4>. QED BY <1>2, <2>2, <4>1
    <3>. QED BY <3>1, <3>2
  <2>3. \A i \in 1..Len(r) : i + 1 \in 1..Len(s)
    BY <1>1, SMT
  <2>4. 1 \in 1..Len(s)
    BY <1>1, SMT
  <2>. QED BY <1>2, <2>1, <2>2, <2>3, <2>4
<1>4. ASSUME Distinct(s) PROVE Distinct(r) /\ s[1] \notin ToSet(r)
  BY <1>1, <1>2, <1>4, SMT DEF Distinct
<1>. QED BY <1>1, <1>3, <1>4 DEF r

LEMMA CutToSet ==
  ASSUME NEW S, NEW s \in Seq(S), NEW k \in 0..Len(s)
  PROVE  LET front == SubSeq(s, 1, k)
             back  == SubSeq(s, k + 1, Len(s))
         IN  /\ front \in Seq(S) /\ back \in Seq(S)
             /\ ToSet(s) = ToSet(front) \union ToSet(back)
             /\ Distinct(s) => Distinct(front) /\ ToSet(front) \intersect ToSet(back) = {}
<1> DEFINE front == SubSeq(s, 1, k)
           back  == SubSeq(s, k + 1, Len(s))
<1>1. Len(s) \in Nat /\ k \in Nat /\ k <= Len(s) /\ \A i \in 1..Len(s) : s[i] \in S
  BY LenProperties, ElementOfSeq, SMT
<1>2. front \in Seq(S) /\ Len(front) = k /\ \A i \in 1..k : front[i] = s[i]
  <2>1. \A i \in 1..k : s[i] \in S
    BY <1>1, SMT
  <2>. QED BY <1>1, <2>1, SubSeqProperties, SMT
<1>3. /\ back \in Seq(S) /\ Len(back) = Len(s) - k
      /\ \A i \in 1..(Len(s) - k) : back[i] = s[k + i]
  <2>1. \A i \in (k + 1)..Len(s) : s[i] \in S
    BY <1>1, SMT
  <2>2. k + 1 \in Int /\ Len(s) \in Int
    BY <1>1, SMT
  <2>3. /\ back \in Seq(S)
        /\ Len(back) = IF k + 1 <= Len(s) THEN Len(s) - (k + 1) + 1 ELSE 0
        /\ \A i \in 1..(Len(s) - (k + 1) + 1) : back[i] = s[(k + 1) + i - 1]
    BY <2>1, <2>2, SubSeqProperties
  <2>. QED BY <1>1, <2>3, SMT
<1> HIDE DEF front, back
<1>4. \A y : y \in ToSet(front) <=> \E i \in 1..k : s[i] = y
  BY <1>1, <1>2, ToSetIndexed
<1>5. \A y : y \in ToSet(back) <=> \E i \in 1..(Len(s) - k) : s[k + i] = y
  <2> TAKE y
  <2>1. y \in ToSet(back) <=> \E i \in 1..Len(back) : back[i] = y
    BY <1>3, ToSetIndexed
  <2>. QED BY <1>3, <2>1
<1>6. \A y : y \in ToSet(s) <=> \E i \in 1..Len(s) : s[i] = y
  BY ToSetIndexed
<1>7. \A i \in 1..Len(s) : i \in 1..k \/ (i - k \in 1..(Len(s) - k) /\ k + (i - k) = i)
  BY <1>1, SMT
<1>8. \A i \in 1..(Len(s) - k) : k + i \in 1..Len(s) /\ k + i \notin 1..k
  BY <1>1, SMT
<1>9. 1..k \subseteq 1..Len(s)
  BY <1>1, SMT
<1>10. ToSet(s) = ToSet(front) \union ToSet(back)
  BY <1>4, <1>5, <1>6, <1>7, <1>8, <1>9
<1>11. ASSUME Distinct(s)
       PROVE  Distinct(front) /\ ToSet(front) \intersect ToSet(back) = {}
  <2>1. Distinct(front)
    BY <1>2, <1>9, <1>11 DEF Distinct
  <2>. QED BY <1>4, <1>5, <1>8, <1>9, <1>11, <2>1 DEF Distinct
<1>. QED BY <1>2, <1>3, <1>10, <1>11 DEF front, back

LEMMA ConcatToSet ==
  ASSUME NEW S, NEW s \in Seq(S), NEW t \in Seq(S)
  PROVE  /\ s \o t \in Seq(S)
         /\ ToSet(s \o t) = ToSet(s) \union ToSet(t)
         /\ Distinct(s \o t) => Distinct(s) /\ Distinct(t) /\ ToSet(s) \intersect ToSet(t) = {}
<1> DEFINE c == s \o t
<1>1. /\ c \in Seq(S) /\ Len(s) \in Nat /\ Len(t) \in Nat /\ Len(c) = Len(s) + Len(t)
      /\ \A i \in 1..Len(c) : c[i] = IF i <= Len(s) THEN s[i] ELSE t[i - Len(s)]
  BY ConcatProperties, LenProperties, SMT
<1> HIDE DEF c
<1>2. \A i \in 1..Len(s) : i \in 1..Len(c) /\ c[i] = s[i]
  BY <1>1, SMT
<1>3. \A i \in 1..Len(t) : Len(s) + i \in 1..Len(c) /\ Len(s) + i \notin 1..Len(s)
                           /\ c[Len(s) + i] = t[i]
  BY <1>1, SMT
<1>4. \A i \in 1..Len(c) : \/ i \in 1..Len(s) /\ c[i] = s[i]
                           \/ i - Len(s) \in 1..Len(t) /\ c[i] = t[i - Len(s)]
  BY <1>1, SMT
<1>5. /\ \A y : y \in ToSet(s) <=> \E i \in 1..Len(s) : s[i] = y
      /\ \A y : y \in ToSet(t) <=> \E i \in 1..Len(t) : t[i] = y
      /\ \A y : y \in ToSet(c) <=> \E i \in 1..Len(c) : c[i] = y
  BY <1>1, ToSetIndexed
<1>6. ToSet(c) = ToSet(s) \union ToSet(t)
  BY <1>2, <1>3, <1>4, <1>5
<1>7. ASSUME Distinct(c)
      PROVE  Distinct(s) /\ Distinct(t) /\ ToSet(s) \intersect ToSet(t) = {}
  <2>1. Distinct(s)
    BY <1>2, <1>7 DEF Distinct
  <2>2. Distinct(t)
    BY <1>1, <1>3, <1>7, SMT DEF Distinct
  <2>3. ToSet(s) \intersect ToSet(t) = {}
    BY <1>2, <1>3, <1>5, <1>7 DEF Distinct
  <2>. QED BY <2>1, <2>2, <2>3
<1>. QED BY <1>1, <1>6, <1>7 DEF c

=============================================================================
