--------------------------- MODULE SequenceFacts ----------------------------
(***************************************************************************)
(* Facts about finite sequences that the proofs of other modules rest on:  *)
(* induction over them, cutting and inserting, folding by an operator Op,  *)
(* and selecting elements.                                                 *)
(*                                                                         *)
(* The induction is over membership in a set, and the operator that is     *)
(* folded is a parameter of this module: a module that folds instantiates  *)
(* it with its own, and shows that its fold is Folded of the instance.     *)
(***************************************************************************)
EXTENDS Integers, Selection, SequenceTheorems, WellFoundedInduction, TLAPS

CONSTANT Op(_, _)   \* what is folded

-----------------------------------------------------------------------------
(* Induction.                                                              *)

\* Induction over the natural numbers, for a set.
LEMMA Induction ==
  ASSUME NEW S, 0 \in S, \A n \in Nat : n \in S => n + 1 \in S
  PROVE  \A n \in Nat : n \in S
<1> DEFINE T == Nat \ S
           R == OpToRel(<, Nat)
<1> SUFFICES ASSUME T # {} PROVE FALSE
  OBVIOUS
<1>1. T \subseteq Nat
  OBVIOUS
<1>2. PICK m \in T : \A k \in T : <<k, m>> \notin R
  <2>1. IsWellFoundedOn(R, Nat)
    BY NatLessThanWellFounded
  <2> HIDE DEF R, T
  <2> QED
    BY <1>1, <2>1, WFMin
<1>3. m # 0 /\ m - 1 \in Nat
  OBVIOUS
<1>4. <<m - 1, m>> \in R
  BY <1>3 DEF OpToRel
<1>5. m - 1 \notin T
  BY <1>2, <1>4
<1> QED
  BY <1>3, <1>5

\* A set of numbers up to n has a largest one, unless it is empty.
LEMMA LargestExists ==
  \A n \in Nat : \A K \in SUBSET (1..n) : K # {} => \E m \in K : \A k \in K : k <= m
<1> DEFINE P == {n \in Nat : \A K \in SUBSET (1..n) : K # {} => \E m \in K : \A k \in K : k <= m}
<1>1. 0 \in P
  <2>1. 1..0 = {}
    OBVIOUS
  <2> QED
    BY <2>1
<1>2. ASSUME NEW n \in Nat, n \in P PROVE n + 1 \in P
  <2> SUFFICES ASSUME NEW K \in SUBSET (1..n + 1), K # {}
               PROVE  \E m \in K : \A k \in K : k <= m
    OBVIOUS
  <2>1. CASE n + 1 \in K
    BY <2>1
  <2>2. CASE n + 1 \notin K
    <3>1. K \in SUBSET (1..n)
      BY <2>2
    <3> QED
      BY <1>2, <3>1
  <2> QED
    BY <2>1, <2>2
<1> HIDE DEF P
<1>3. \A n \in Nat : n \in P
  BY <1>1, <1>2, Induction
<1> QED
  BY <1>3 DEF P

-----------------------------------------------------------------------------
(* Cutting.                                                                *)

\* The elements of a part of a sequence.
LEMMA CutIs ==
  ASSUME NEW S, NEW s \in Seq(S), NEW m \in Nat \ {0}, NEW n \in Nat, n <= Len(s)
  PROVE  /\ SubSeq(s, m, n) \in Seq(S)
         /\ m <= n + 1 => Len(SubSeq(s, m, n)) = n + 1 - m
         /\ \A k \in 1..n + 1 - m : SubSeq(s, m, n)[k] = s[m + k - 1]
<1>1. m \in Int /\ n \in Int /\ Len(s) \in Nat /\ \A k \in m..n : s[k] \in S
  OBVIOUS
<1>2. /\ SubSeq(s, m, n) \in Seq(S)
      /\ Len(SubSeq(s, m, n)) = IF m <= n THEN n - m + 1 ELSE 0
      /\ \A k \in 1..n - m + 1 : SubSeq(s, m, n)[k] = s[m + k - 1]
  BY <1>1, SubSeqProperties
<1>3. n - m + 1 = n + 1 - m
  OBVIOUS
<1> QED
  BY <1>2, <1>3

\* A sequence around one of its elements.
LEMMA Around ==
  ASSUME NEW S, NEW s \in Seq(S), NEW i \in 1..Len(s)
  PROVE  /\ SubSeq(s, 1, i - 1) \in Seq(S) /\ Len(SubSeq(s, 1, i - 1)) = i - 1
         /\ SubSeq(s, i + 1, Len(s)) \in Seq(S) /\ Len(SubSeq(s, i + 1, Len(s))) = Len(s) - i
         /\ \A k \in 1..i - 1 : SubSeq(s, 1, i - 1)[k] = s[k]
         /\ \A k \in 1..Len(s) - i : SubSeq(s, i + 1, Len(s))[k] = s[i + k]
         /\ s = Append(SubSeq(s, 1, i - 1), s[i]) \o SubSeq(s, i + 1, Len(s))
<1> DEFINE a == SubSeq(s, 1, i - 1)
           b == SubSeq(s, i + 1, Len(s))
<1>1. a \in Seq(S) /\ Len(a) = i - 1 /\ \A k \in 1..i - 1 : a[k] = s[k]
  <2>1. i - 1 \in Nat /\ i - 1 <= Len(s)
    OBVIOUS
  <2> QED
    BY <2>1, CutIs
<1>2. b \in Seq(S) /\ Len(b) = Len(s) - i /\ \A k \in 1..Len(s) - i : b[k] = s[i + k]
  <2>1. i + 1 \in Nat \ {0} /\ Len(s) \in Nat
    OBVIOUS
  <2> QED
    BY <2>1, CutIs
<1>3. s[i] \in S /\ Len(s) \in Nat
  OBVIOUS
<1> HIDE DEF a, b
<1>4. s = Append(a, s[i]) \o b
  <2> DEFINE c == Append(a, s[i])
  <2>1. c \in Seq(S) /\ Len(c) = i /\ \A k \in 1..i : c[k] = s[k]
    BY <1>1, <1>3
  <2> HIDE DEF c
  <2>2. c \o b \in Seq(S) /\ Len(c \o b) = Len(s)
    <3>1. c \o b \in Seq(S) /\ Len(c \o b) = Len(c) + Len(b)
      BY <1>2, <2>1, ConcatProperties
    <3>2. i + (Len(s) - i) = Len(s)
      BY <1>3
    <3> QED
      BY <1>2, <2>1, <3>1, <3>2
  <2>3. ASSUME NEW k \in 1..Len(s) PROVE (c \o b)[k] = s[k]
    <3>1. CASE k \in 1..i
      BY <1>2, <1>3, <2>1, <3>1
    <3>2. CASE k \notin 1..i
      <4>1. k - i \in 1..Len(s) - i /\ k = i + (k - i)
        BY <3>2
      <4>2. (c \o b)[k] = b[k - i]
        BY <1>2, <1>3, <2>1, <3>2, <4>1
      <4> QED
        BY <1>2, <4>1, <4>2
    <3> QED
      BY <3>1, <3>2
  <2>4. s = c \o b
    BY <2>2, <2>3, SeqEqual
  <2> QED
    BY <2>4 DEF c
<1> QED
  BY <1>1, <1>2, <1>4 DEF a, b

\* Sequences of the same elements around the same place are cut alike.
LEMMA SameCut ==
  ASSUME NEW S, NEW s \in Seq(S), NEW t \in Seq(S), NEW m \in Nat \ {0}, NEW n \in Nat,
         n <= Len(s), n <= Len(t), \A k \in m..n : s[k] = t[k]
  PROVE  SubSeq(s, m, n) = SubSeq(t, m, n)
<1>1. CASE n < m
  BY <1>1, SubSeqEmpty
<1>2. CASE m <= n
  <2>1. /\ SubSeq(s, m, n) \in Seq(S) /\ Len(SubSeq(s, m, n)) = n + 1 - m
        /\ SubSeq(t, m, n) \in Seq(S) /\ Len(SubSeq(t, m, n)) = n + 1 - m
    BY <1>2, CutIs
  <2>2. \A k \in 1..n + 1 - m : m + k - 1 \in m..n
    BY <1>2
  <2>3. \A k \in 1..n + 1 - m : SubSeq(s, m, n)[k] = SubSeq(t, m, n)[k]
    BY <2>2, CutIs
  <2> QED
    BY <2>1, <2>3, SeqEqual
<1> QED
  BY <1>1, <1>2

\* What stands in a concatenation of three.
LEMMA CutThree ==
  ASSUME NEW S, NEW a \in Seq(S), NEW x \in Seq(S), NEW b \in Seq(S)
  PROVE  LET row == a \o x \o b IN
         /\ row \in Seq(S) /\ Len(row) = Len(a) + Len(x) + Len(b)
         /\ SubSeq(row, 1, Len(a)) = a
         /\ SubSeq(row, Len(a) + Len(x) + 1, Len(row)) = b
         /\ SubSeq(row, Len(a) + 1, Len(a) + Len(x)) = x
<1> DEFINE row == a \o x \o b
<1>1. /\ row \in Seq(S) /\ Len(row) = Len(a) + Len(x) + Len(b)
      /\ Len(a) \in Nat /\ Len(x) \in Nat /\ Len(b) \in Nat
      /\ \A n \in 1..Len(a) : row[n] = a[n]
      /\ \A n \in 1..Len(x) : row[Len(a) + n] = x[n]
      /\ \A n \in 1..Len(b) : row[Len(a) + Len(x) + n] = b[n]
  OBVIOUS
<1> HIDE DEF row
<1>2. SubSeq(row, 1, Len(a)) = a
  <2>1. /\ SubSeq(row, 1, Len(a)) \in Seq(S) /\ Len(SubSeq(row, 1, Len(a))) = Len(a)
        /\ \A k \in 1..Len(a) : SubSeq(row, 1, Len(a))[k] = row[1 + k - 1]
    <3>1. Len(a) <= Len(row) /\ Len(a) + 1 - 1 = Len(a) /\ 1 <= Len(a) + 1
      BY <1>1
    <3> QED
      BY <1>1, <3>1, CutIs
  <2> QED
    BY <1>1, <2>1, SeqEqual
<1>3. SubSeq(row, Len(a) + Len(x) + 1, Len(row)) = b
  <2>1. /\ Len(a) + Len(x) + 1 \in Nat \ {0} /\ Len(row) \in Nat
        /\ Len(row) + 1 - (Len(a) + Len(x) + 1) = Len(b)
        /\ Len(a) + Len(x) + 1 <= Len(row) + 1
    BY <1>1
  <2>2. /\ SubSeq(row, Len(a) + Len(x) + 1, Len(row)) \in Seq(S)
        /\ Len(SubSeq(row, Len(a) + Len(x) + 1, Len(row))) = Len(b)
        /\ \A k \in 1..Len(b) :
             SubSeq(row, Len(a) + Len(x) + 1, Len(row))[k] = row[(Len(a) + Len(x) + 1) + k - 1]
    BY <1>1, <2>1, CutIs
  <2>3. \A k \in 1..Len(b) : (Len(a) + Len(x) + 1) + k - 1 = Len(a) + Len(x) + k
    BY <1>1
  <2>4. \A k \in 1..Len(b) : SubSeq(row, Len(a) + Len(x) + 1, Len(row))[k] = b[k]
    BY <1>1, <2>2, <2>3
  <2> QED
    BY <2>2, <2>4, SeqEqual
<1>4. SubSeq(row, Len(a) + 1, Len(a) + Len(x)) = x
  <2>1. /\ Len(a) + 1 \in Nat \ {0} /\ Len(a) + Len(x) \in Nat /\ Len(a) + Len(x) <= Len(row)
        /\ (Len(a) + Len(x)) + 1 - (Len(a) + 1) = Len(x)
        /\ Len(a) + 1 <= (Len(a) + Len(x)) + 1
    BY <1>1
  <2>2. /\ SubSeq(row, Len(a) + 1, Len(a) + Len(x)) \in Seq(S)
        /\ Len(SubSeq(row, Len(a) + 1, Len(a) + Len(x))) = Len(x)
        /\ \A k \in 1..Len(x) :
             SubSeq(row, Len(a) + 1, Len(a) + Len(x))[k] = row[(Len(a) + 1) + k - 1]
    BY <1>1, <2>1, CutIs
  <2>3. \A k \in 1..Len(x) : (Len(a) + 1) + k - 1 = Len(a) + k
    BY <1>1
  <2>4. \A k \in 1..Len(x) : SubSeq(row, Len(a) + 1, Len(a) + Len(x))[k] = x[k]
    BY <1>1, <2>2, <2>3
  <2> QED
    BY <2>2, <2>4, SeqEqual
<1> QED
  BY <1>1, <1>2, <1>3, <1>4 DEF row

\* A sequence cut in two before place i, and its first part one element on.
LEMMA CutTwo ==
  ASSUME NEW S, NEW s \in Seq(S), NEW i \in 1..Len(s) + 1
  PROVE  /\ SubSeq(s, 1, i - 1) \in Seq(S) /\ Len(SubSeq(s, 1, i - 1)) = i - 1
         /\ SubSeq(s, i, Len(s)) \in Seq(S)
         /\ s = SubSeq(s, 1, i - 1) \o SubSeq(s, i, Len(s))
         /\ i <= Len(s) => SubSeq(s, 1, i) = Append(SubSeq(s, 1, i - 1), s[i])
<1> DEFINE a == SubSeq(s, 1, i - 1)
           b == SubSeq(s, i, Len(s))
           c == a \o b
<1>1. i \in Nat \ {0} /\ Len(s) \in Nat /\ i <= Len(s) + 1 /\ i - 1 \in Nat
  OBVIOUS
<1>2. a \in Seq(S) /\ Len(a) = i - 1 /\ \A k \in 1..i - 1 : a[k] = s[k]
  <2>1. /\ i - 1 <= Len(s) /\ 1 \in Nat \ {0} /\ (i - 1) + 1 - 1 = i - 1 /\ 1 <= (i - 1) + 1
    BY <1>1
  <2>2. /\ a \in Seq(S) /\ Len(a) = (i - 1) + 1 - 1
        /\ \A k \in 1..(i - 1) + 1 - 1 : a[k] = s[1 + k - 1]
    BY <1>1, <2>1, CutIs
  <2> QED
    BY <1>1, <2>1, <2>2
<1>3. /\ b \in Seq(S) /\ Len(b) = Len(s) + 1 - i
      /\ \A k \in 1..Len(s) + 1 - i : b[k] = s[i + k - 1]
  BY <1>1, CutIs
<1> HIDE DEF a, b
<1>4. c \in Seq(S) /\ Len(c) = Len(s)
  BY <1>1, <1>2, <1>3
<1>5. ASSUME NEW k \in 1..Len(s) PROVE c[k] = s[k]
  <2>1. CASE k <= i - 1
    BY <1>1, <1>2, <1>3, <2>1
  <2>2. CASE k > i - 1
    <3>1. k - (i - 1) \in 1..Len(s) + 1 - i /\ i + (k - (i - 1)) - 1 = k
      BY <1>1, <2>2
    <3>2. c[k] = b[k - (i - 1)]
      BY <1>1, <1>2, <1>3, <2>2
    <3>3. b[k - (i - 1)] = s[i + (k - (i - 1)) - 1]
      BY <1>3, <3>1
    <3> QED
      BY <3>1, <3>2, <3>3
  <2> HIDE DEF c
  <2> QED
    BY <1>1, <2>1, <2>2
<1> HIDE DEF c
<1>6. s = c
  BY <1>4, <1>5, SeqEqual
<1>7. ASSUME i <= Len(s) PROVE SubSeq(s, 1, i) = Append(a, s[i])
  <2> DEFINE d == SubSeq(s, 1, i)
             e == Append(a, s[i])
  <2>1. d \in Seq(S) /\ Len(d) = i /\ \A k \in 1..i : d[k] = s[k]
    <3>1. d \in Seq(S) /\ Len(d) = i + 1 - 1 /\ \A k \in 1..i + 1 - 1 : d[k] = s[1 + k - 1]
      BY <1>1, <1>7, CutIs
    <3> QED
      BY <1>1, <3>1
  <2>2. e \in Seq(S) /\ Len(e) = i /\ \A k \in 1..i : e[k] = s[k]
    <3>1. s[i] \in S
      BY <1>1, <1>7
    <3> QED
      BY <1>1, <1>2, <3>1
  <2> HIDE DEF d, e
  <2>3. d = e
    BY <2>1, <2>2, SeqEqual
  <2> QED
    BY <2>3 DEF d, e
<1> QED
  BY <1>2, <1>3, <1>6, <1>7 DEF a, b, c

\* An element put before place k.
PutAt(s, k, x) == SubSeq(s, 1, k - 1) \o <<x>> \o SubSeq(s, k, Len(s))

\* What the row is then.
LEMMA Inserted ==
  ASSUME NEW S, NEW s \in Seq(S), NEW k \in 1..Len(s) + 1, NEW x \in S
  PROVE  LET t == PutAt(s, k, x) IN
         /\ t \in Seq(S) /\ Len(t) = Len(s) + 1
         /\ \A n \in 1..k - 1 : t[n] = s[n]
         /\ t[k] = x
         /\ \A n \in k..Len(s) : t[n + 1] = s[n]
<1> DEFINE a == SubSeq(s, 1, k - 1)
           b == SubSeq(s, k, Len(s))
           t == a \o <<x>> \o b
<1>1. a \in Seq(S) /\ Len(a) = k - 1 /\ \A n \in 1..k - 1 : a[n] = s[n]
  <2>1. k - 1 \in Nat /\ k - 1 <= Len(s) /\ 1 \in Nat \ {0} /\ (k - 1) + 1 - 1 = k - 1 /\ 1 <= (k - 1) + 1
    OBVIOUS
  <2>2. /\ a \in Seq(S) /\ Len(a) = (k - 1) + 1 - 1
        /\ \A n \in 1..(k - 1) + 1 - 1 : a[n] = s[1 + n - 1]
    BY <2>1, CutIs
  <2> QED
    BY <2>1, <2>2
<1>2. b \in Seq(S) /\ Len(b) = Len(s) + 1 - k /\ \A n \in 1..Len(s) + 1 - k : b[n] = s[k + n - 1]
  <2>1. k \in Nat \ {0} /\ Len(s) \in Nat /\ k <= Len(s) + 1
    OBVIOUS
  <2> QED
    BY <2>1, CutIs
<1>3. k \in Nat /\ Len(s) \in Nat /\ k >= 1 /\ k <= Len(s) + 1
  OBVIOUS
<1> HIDE DEF a, b
<1>4. /\ t \in Seq(S) /\ Len(t) = Len(s) + 1
      /\ \A n \in 1..k - 1 : t[n] = a[n]
      /\ t[k] = x
  BY <1>1, <1>2, <1>3
<1>5. ASSUME NEW n \in k..Len(s) PROVE t[n + 1] = s[n]
  <2>1. n + 1 - k \in 1..Len(s) + 1 - k /\ k + (n + 1 - k) - 1 = n
    BY <1>3
  <2>2. t[n + 1] = b[n + 1 - k]
    BY <1>1, <1>2, <1>3, <2>1
  <2>3. b[n + 1 - k] = s[k + (n + 1 - k) - 1]
    BY <1>2, <2>1
  <2> QED
    BY <2>1, <2>2, <2>3
<1> QED
  BY <1>1, <1>4, <1>5 DEF PutAt, a, b

-----------------------------------------------------------------------------

\* The largest of a set of numbers: the place a fold over a sequence takes next.
Largest(S) == CHOOSE x \in S : \A y \in S : x >= y

\* What FoldLeft iterates, over the first n places of s.
Iterates(base, s, n, g) ==
  g = [t \in SUBSET (1..n) |-> IF t = {} THEN base ELSE Op(g[t \ {Largest(t)}], s[Largest(t)])]

\* The last of the first n + 1 places.
LEMMA MaxOfPrefix ==
  ASSUME NEW n \in Nat
  PROVE  /\ \A t \in SUBSET (1..n + 1) : n + 1 \in t => Largest(t) = n + 1
         /\ Largest(1..n + 1) = n + 1
         /\ (1..n + 1) \ {n + 1} = 1..n
         /\ 1..n + 1 # {}
<1>1. ASSUME NEW t \in SUBSET (1..n + 1), n + 1 \in t PROVE Largest(t) = n + 1
  <2>1. \A y \in t : n + 1 >= y
    OBVIOUS
  <2>2. \A x \in t : (\A y \in t : x >= y) => x = n + 1
    BY <1>1
  <2> QED
    BY <1>1, <2>1, <2>2 DEF Largest
<1>2. n + 1 \in 1..n + 1 /\ (1..n + 1) \ {n + 1} = 1..n
  OBVIOUS
<1> QED
  BY <1>1, <1>2

\* There is such a function.
LEMMA Exists ==
  ASSUME NEW base, NEW s
  PROVE  \A n \in Nat : \E g : Iterates(base, s, n, g)
<1> DEFINE S == {n \in Nat : \E g : Iterates(base, s, n, g)}
<1>1. 0 \in S
  <2> DEFINE g == [t \in {{}} |-> base]
  <2>1. Iterates(base, s, 0, g)
    BY DEF Iterates
  <2> QED
    BY <2>1
<1>2. ASSUME NEW n \in Nat, n \in S PROVE n + 1 \in S
  <2>1. PICK g : Iterates(base, s, n, g)
    BY <1>2
  <2> DEFINE h == [t \in SUBSET (1..n + 1) |->
                     IF n + 1 \in t THEN Op(g[t \ {n + 1}], s[n + 1]) ELSE g[t]]
  <2>2. ASSUME NEW t \in SUBSET (1..n + 1)
        PROVE  h[t] = IF t = {} THEN base ELSE Op(h[t \ {Largest(t)}], s[Largest(t)])
    <3>1. CASE n + 1 \in t
      <4>1. Largest(t) = n + 1
        BY <3>1, MaxOfPrefix
      <4>2. t \ {n + 1} \in SUBSET (1..n + 1) /\ n + 1 \notin t \ {n + 1}
        OBVIOUS
      <4>3. h[t \ {n + 1}] = g[t \ {n + 1}]
        BY <4>2
      <4> QED
        BY <3>1, <4>1, <4>3
    <3>2. CASE n + 1 \notin t
      <4>1. t \in SUBSET (1..n)
        BY <3>2
      <4>2. h[t] = g[t]
        BY <3>2
      <4>3. g[t] = IF t = {} THEN base ELSE Op(g[t \ {Largest(t)}], s[Largest(t)])
        BY <2>1, <4>1 DEF Iterates
      <4>4. t \ {Largest(t)} \in SUBSET (1..n + 1) /\ n + 1 \notin t \ {Largest(t)}
        BY <3>2
      <4>5. h[t \ {Largest(t)}] = g[t \ {Largest(t)}]
        BY <4>4
      <4> HIDE DEF h
      <4> QED
        BY <4>2, <4>3, <4>5
    <3> QED
      BY <3>1, <3>2
  <2>3. Iterates(base, s, n + 1, h)
    <3>1. h = [t \in SUBSET (1..n + 1) |-> h[t]]
      OBVIOUS
    <3> HIDE DEF h
    <3> QED
      BY <2>2, <3>1 DEF Iterates
  <2> QED
    BY <2>3
<1> HIDE DEF S
<1>3. \A n \in Nat : n \in S
  BY <1>1, <1>2, Induction
<1> QED
  BY <1>3 DEF S

\* Folded(base, s).
Folded(base, s) ==
  (CHOOSE g : g = [t \in SUBSET (DOMAIN s) |->
                     IF t = {} THEN base ELSE Op(g[t \ {Largest(t)}], s[Largest(t)])])[DOMAIN s]

\* A fold is its last value.
LEMMA FoldIterates ==
  ASSUME NEW base, NEW s, NEW n \in Nat, DOMAIN s = 1..n
  PROVE  \E g : Iterates(base, s, n, g) /\ Folded(base, s) = g[1..n]
<1> DEFINE f == CHOOSE g : Iterates(base, s, n, g)
<1>1. Iterates(base, s, n, f)
  BY Exists
<1>2. Folded(base, s) = f[1..n]
  BY DEF Folded, Iterates
<1> QED
  BY <1>1, <1>2

\* Folding over no element gives the base.
LEMMA FoldEmpty ==
  ASSUME NEW base
  PROVE Folded(base, <<>>) = base
<1>1. PICK g : Iterates(base, <<>>, 0, g) /\ Folded(base, <<>>) = g[1..0]
  <2>1. DOMAIN <<>> = 1..0 /\ 0 \in Nat
    OBVIOUS
  <2> QED
    BY <2>1, FoldIterates
<1> QED
  BY <1>1 DEF Iterates

\* Folding goes on with the element that is appended.
LEMMA FoldAppend ==
  ASSUME NEW S, NEW s \in Seq(S), NEW x \in S, NEW base
  PROVE  Folded(base, Append(s, x)) = Op(Folded(base, s), x)
<1> DEFINE n == Len(s)
           r == Append(s, x)
<1>1. n \in Nat /\ DOMAIN s = 1..n /\ DOMAIN r = 1..n + 1 /\ r[n + 1] = x /\ n + 1 \in Nat
      /\ \A k \in 1..n : r[k] = s[k]
  OBVIOUS
<1> HIDE DEF n, r
<1>2. PICK g : Iterates(base, s, n, g) /\ Folded(base, s) = g[1..n]
  BY <1>1, FoldIterates
<1>3. PICK h : Iterates(base, r, n + 1, h) /\ Folded(base, r) = h[1..n + 1]
  BY <1>1, FoldIterates
<1>4. h[1..n + 1] = Op(h[1..n], x)
  <2>1. Largest(1..n + 1) = n + 1 /\ (1..n + 1) \ {n + 1} = 1..n /\ 1..n + 1 # {}
    BY <1>1, MaxOfPrefix
  <2> QED
    BY <1>1, <1>3, <2>1 DEF Iterates
<1>5. \A k \in Nat : k <= n => h[1..k] = g[1..k]
  <2> DEFINE T == {k \in Nat : k <= n => h[1..k] = g[1..k]}
  <2>1. 0 \in T
    BY <1>1, <1>2, <1>3 DEF Iterates
  <2>2. ASSUME NEW k \in Nat, k \in T PROVE k + 1 \in T
    <3> SUFFICES ASSUME k + 1 <= n PROVE h[1..k + 1] = g[1..k + 1]
      OBVIOUS
    <3>1. Largest(1..k + 1) = k + 1 /\ (1..k + 1) \ {k + 1} = 1..k /\ 1..k + 1 # {}
      BY MaxOfPrefix
    <3>4. 1..k + 1 \in SUBSET (1..n + 1) /\ 1..k + 1 \in SUBSET (1..n)
      BY <1>1
    <3>2. h[1..k + 1] = Op(h[1..k], r[k + 1])
      BY <3>1, <3>4, <1>3 DEF Iterates
    <3>3. g[1..k + 1] = Op(g[1..k], s[k + 1])
      BY <3>1, <3>4, <1>2 DEF Iterates
    <3> QED
      BY <2>2, <3>2, <3>3, <1>1
  <2> HIDE DEF T
  <2>3. \A k \in Nat : k \in T
    BY <2>1, <2>2, Induction
  <2> QED
    BY <2>3 DEF T
<1> QED
  BY <1>1, <1>2, <1>3, <1>4, <1>5 DEF r

-----------------------------------------------------------------------------

\* Induction over sequences, for a set of them.
LEMMA SeqInduction ==
  ASSUME NEW S, NEW P, <<>> \in P,
         \A s \in Seq(S), x \in S : s \in P => Append(s, x) \in P
  PROVE  \A s \in Seq(S) : s \in P
<1> DEFINE N == {n \in Nat : \A s \in Seq(S) : Len(s) = n => s \in P}
<1>1. 0 \in N
  <2>1. \A s \in Seq(S) : Len(s) = 0 => s = <<>>
    OBVIOUS
  <2> QED
    BY <2>1
<1>2. ASSUME NEW n \in Nat, n \in N PROVE n + 1 \in N
  <2> SUFFICES ASSUME NEW s \in Seq(S), Len(s) = n + 1 PROVE s \in P
    OBVIOUS
  <2> DEFINE r == SubSeq(s, 1, n)
  <2>1. r \in Seq(S) /\ Len(r) = n /\ s[n + 1] \in S
    OBVIOUS
  <2>2. s = Append(r, s[n + 1])
    OBVIOUS
  <2>3. r \in P
    BY <1>2, <2>1
  <2> HIDE DEF r
  <2> QED
    BY <2>1, <2>2, <2>3
<1> HIDE DEF N
<1>3. \A n \in Nat : n \in N
  BY <1>1, <1>2, Induction
<1> QED
  BY <1>3 DEF N

\* The function Select defines, over the first n places.
Selects(s, T, n, f) ==
  f = [k \in 0..n |-> IF k = 0 THEN <<>>
                      ELSE IF s[k] \in T THEN Append(f[k - 1], s[k]) ELSE f[k - 1]]

\* Selecting place by place.
LEMMA SelectsStep ==
  ASSUME NEW s, NEW T, NEW n \in Nat, NEW f, Selects(s, T, n, f), NEW k \in 1..n
  PROVE  f[k] = IF s[k] \in T THEN Append(f[k - 1], s[k]) ELSE f[k - 1]
<1>1. k \in 0..n /\ k # 0
  OBVIOUS
<1> DEFINE body(j) == IF j = 0 THEN <<>>
                      ELSE IF s[j] \in T THEN Append(f[j - 1], s[j]) ELSE f[j - 1]
<1>2. f = [j \in 0..n |-> body(j)]
  BY DEF Selects
<1> HIDE DEF body
<1>3. f[k] = body(k)
  BY <1>1, <1>2
<1> QED
  BY <1>1, <1>3, Zenon DEF body

\* There is such a function.
LEMMA SelectsExists ==
  ASSUME NEW s, NEW T
  PROVE  \A n \in Nat : \E f : Selects(s, T, n, f)
<1> DEFINE N == {n \in Nat : \E f : Selects(s, T, n, f)}
<1>1. 0 \in N
  <2> DEFINE f == [k \in 0..0 |-> <<>>]
  <2>1. Selects(s, T, 0, f)
    BY DEF Selects
  <2> QED
    BY <2>1
<1>2. ASSUME NEW n \in Nat, n \in N PROVE n + 1 \in N
  <2>1. PICK f : Selects(s, T, n, f)
    BY <1>2
  <2> DEFINE g == [k \in 0..n + 1 |->
                     IF k # n + 1 THEN f[k]
                     ELSE IF s[k] \in T THEN Append(f[n], s[k]) ELSE f[n]]
  <2>2. ASSUME NEW k \in 0..n + 1
        PROVE  g[k] = IF k = 0 THEN <<>>
                      ELSE IF s[k] \in T THEN Append(g[k - 1], s[k]) ELSE g[k - 1]
    <3>1. CASE k = n + 1
      BY <3>1
    <3>2. CASE k = 0
      BY <3>2, <2>1 DEF Selects
    <3>3. CASE k \in 1..n
      <4>1. g[k] = f[k] /\ g[k - 1] = f[k - 1]
        BY <3>3
      <4>2. f[k] = IF s[k] \in T THEN Append(f[k - 1], s[k]) ELSE f[k - 1]
        BY <3>3, <2>1, SelectsStep
      <4> QED
        BY <3>3, <4>1, <4>2
    <3> QED
      BY <3>1, <3>2, <3>3
  <2>3. Selects(s, T, n + 1, g)
    <3>1. g = [k \in 0..n + 1 |-> g[k]]
      OBVIOUS
    <3> HIDE DEF g
    <3> QED
      BY <2>2, <3>1 DEF Selects
  <2> QED
    BY <2>3
<1> HIDE DEF N
<1>3. \A n \in Nat : n \in N
  BY <1>1, <1>2, Induction
<1> QED
  BY <1>3 DEF N

\* Select is its last value.
LEMMA SelectIs ==
  ASSUME NEW s, NEW T, Len(s) \in Nat
  PROVE  \E f : Selects(s, T, Len(s), f) /\ Select(s, T) = f[Len(s)]
<1> DEFINE h == CHOOSE f : Selects(s, T, Len(s), f)
<1>1. Selects(s, T, Len(s), h)
  BY SelectsExists
<1>2. Select(s, T) = h[Len(s)]
  BY DEF Select, Selects
<1> QED
  BY <1>1, <1>2

\* Nothing is selected of nothing.
LEMMA SelectEmpty ==
  ASSUME NEW T
  PROVE  Select(<<>>, T) = <<>>
<1>1. Len(<<>>) = 0
  OBVIOUS
<1>2. PICK f : Selects(<<>>, T, 0, f) /\ Select(<<>>, T) = f[0]
  BY <1>1, SelectIs
<1> QED
  BY <1>2 DEF Selects

\* Selecting element by element.
LEMMA SelectAppend ==
  ASSUME NEW S, NEW s \in Seq(S), NEW x \in S, NEW T
  PROVE  Select(Append(s, x), T) = IF x \in T THEN Append(Select(s, T), x) ELSE Select(s, T)
<1> DEFINE n == Len(s)
           r == Append(s, x)
<1>1. /\ n \in Nat /\ Len(r) = n + 1 /\ r[n + 1] = x /\ n + 1 \in Nat
      /\ \A k \in 1..n : r[k] = s[k]
  OBVIOUS
<1>2. PICK f : Selects(s, T, n, f) /\ Select(s, T) = f[n]
  BY <1>1, SelectIs
<1>3. PICK g : Selects(r, T, n + 1, g) /\ Select(r, T) = g[n + 1]
  <2> HIDE DEF r
  <2> QED
    BY <1>1, SelectIs
<1> HIDE DEF n, r
<1>4. g[n + 1] = IF x \in T THEN Append(g[n], x) ELSE g[n]
  <2>1. n + 1 \in 1..n + 1 /\ (n + 1) - 1 = n
    BY <1>1
  <2> QED
    BY <1>1, <1>3, <2>1, SelectsStep
<1>5. g[n] = f[n]
  <2> DEFINE N == {k \in Nat : k <= n => g[k] = f[k]}
  <2>1. 0 \in N
    BY <1>1, <1>2, <1>3 DEF Selects
  <2>2. ASSUME NEW k \in Nat, k \in N PROVE k + 1 \in N
    <3> SUFFICES ASSUME k + 1 <= n PROVE g[k + 1] = f[k + 1]
      OBVIOUS
    <3>1. k + 1 \in 1..n + 1 /\ k + 1 \in 1..n /\ (k + 1) - 1 = k
      BY <1>1
    <3>2. g[k + 1] = IF r[k + 1] \in T THEN Append(g[k], r[k + 1]) ELSE g[k]
      BY <3>1, <1>1, <1>3, SelectsStep
    <3>3. f[k + 1] = IF s[k + 1] \in T THEN Append(f[(k + 1) - 1], s[k + 1]) ELSE f[(k + 1) - 1]
      <4>1. \A j \in 1..n : f[j] = IF s[j] \in T THEN Append(f[j - 1], s[j]) ELSE f[j - 1]
        BY <1>1, <1>2, SelectsStep
      <4>2. k + 1 \in 1..n
        BY <3>1
      <4> QED
        BY <4>1, <4>2, Zenon
    <3>4. f[k + 1] = IF s[k + 1] \in T THEN Append(f[k], s[k + 1]) ELSE f[k]
      BY <3>1, <3>3
    <3> QED
      BY <2>2, <3>1, <3>2, <3>4, <1>1
  <2> HIDE DEF N
  <2>3. \A k \in Nat : k \in N
    BY <2>1, <2>2, Induction
  <2> QED
    BY <2>3, <1>1 DEF N
<1> QED
  BY <1>2, <1>3, <1>4, <1>5 DEF r

\* What is selected is of the sequence and of the set.
LEMMA SelectType ==
  ASSUME NEW S, NEW s \in Seq(S), NEW T
  PROVE  Select(s, T) \in Seq(S \cap T)
<1> DEFINE P == {r \in Seq(S) : Select(r, T) \in Seq(S \cap T)}
<1>1. <<>> \in P
  <2>1. <<>> \in Seq(S) /\ <<>> \in Seq(S \cap T)
    OBVIOUS
  <2> QED
    BY <2>1, SelectEmpty, Zenon
<1>2. ASSUME NEW r \in Seq(S), NEW x \in S, r \in P PROVE Append(r, x) \in P
  <2>1. Select(r, T) \in Seq(S \cap T)
    BY <1>2
  <2>2. x \in T => Append(Select(r, T), x) \in Seq(S \cap T)
    BY <2>1
  <2>3. Append(r, x) \in Seq(S)
    OBVIOUS
  <2> QED
    BY <2>1, <2>2, <2>3, SelectAppend
<1> HIDE DEF P
<1>3. s \in P
  BY <1>1, <1>2, SeqInduction
<1> QED
  BY <1>3 DEF P

\* Two sets that agree on S select alike.
LEMMA SelectSame ==
  ASSUME NEW S, NEW s \in Seq(S), NEW T, NEW U, \A x \in S : x \in T <=> x \in U
  PROVE  Select(s, T) = Select(s, U)
<1> DEFINE P == {r \in Seq(S) : Select(r, T) = Select(r, U)}
<1>1. <<>> \in P
  BY SelectEmpty
<1>2. ASSUME NEW r \in Seq(S), NEW x \in S, r \in P PROVE Append(r, x) \in P
  <2>1. Append(r, x) \in Seq(S)
    OBVIOUS
  <2>2. Select(Append(r, x), T) = IF x \in T THEN Append(Select(r, T), x) ELSE Select(r, T)
    BY SelectAppend
  <2>3. Select(Append(r, x), U) = IF x \in U THEN Append(Select(r, U), x) ELSE Select(r, U)
    BY SelectAppend
  <2>4. Select(r, T) = Select(r, U) /\ (x \in T <=> x \in U)
    BY <1>2
  <2>5. Select(Append(r, x), T) = Select(Append(r, x), U)
    BY <2>2, <2>3, <2>4
  <2> QED
    BY <2>1, <2>5
<1> HIDE DEF P
<1>3. s \in P
  BY <1>1, <1>2, SeqInduction
<1> QED
  BY <1>3 DEF P

\* Everything is selected by a set that has it all.
LEMMA SelectAll ==
  ASSUME NEW S, NEW s \in Seq(S), NEW T, S \subseteq T
  PROVE  Select(s, T) = s
<1> DEFINE P == {r \in Seq(S) : Select(r, T) = r}
<1>1. <<>> \in P
  BY SelectEmpty
<1>2. ASSUME NEW r \in Seq(S), NEW x \in S, r \in P PROVE Append(r, x) \in P
  <2>1. Append(r, x) \in Seq(S) /\ x \in T
    OBVIOUS
  <2> QED
    BY <1>2, <2>1, SelectAppend
<1> HIDE DEF P
<1>3. s \in P
  BY <1>1, <1>2, SeqInduction
<1> QED
  BY <1>3 DEF P

\* An element outside the set is missing.
LEMMA SelectShorter ==
  ASSUME NEW S, NEW s \in Seq(S), NEW T
  PROVE  /\ Len(Select(s, T)) \in Nat /\ Len(Select(s, T)) <= Len(s)
         /\ \A n \in 1..Len(s) : s[n] \notin T => Len(Select(s, T)) < Len(s)
<1> DEFINE Good(r, t) == /\ Len(t) \in Nat /\ Len(t) <= Len(r)
                         /\ \A n \in 1..Len(r) : r[n] \notin T => Len(t) < Len(r)
           P == {r \in Seq(S) : Good(r, Select(r, T))}
<1>1. <<>> \in P
  <2>1. Select(<<>>, T) = <<>>
    BY SelectEmpty
  <2>2. Good(<<>>, <<>>)
    OBVIOUS
  <2> QED
    BY <2>1, <2>2
<1>2. ASSUME NEW r \in Seq(S), NEW x \in S, r \in P PROVE Append(r, x) \in P
  <2> DEFINE q == Append(r, x)
             t == Select(r, T)
             u == Select(q, T)
  <2>1. /\ q \in Seq(S) /\ Len(q) = Len(r) + 1 /\ Len(r) \in Nat /\ q[Len(r) + 1] = x
        /\ \A n \in 1..Len(r) : q[n] = r[n]
    OBVIOUS
  <2>2. u = IF x \in T THEN Append(t, x) ELSE t
    BY SelectAppend
  <2>3. t \in Seq(S \cap T)
    BY SelectType
  <2>4. Good(r, t)
    BY <1>2
  <2> HIDE DEF q, t, u, P
  <2>5. Len(u) = IF x \in T THEN Len(t) + 1 ELSE Len(t)
    <3>1. CASE x \in T
      <4>1. u = Append(t, x) /\ x \in S \cap T
        BY <2>2, <3>1
      <4>2. Len(Append(t, x)) = Len(t) + 1
        BY <2>3, <4>1
      <4> QED
        BY <3>1, <4>1, <4>2
    <3>2. CASE x \notin T
      BY <2>2, <3>2
    <3> QED
      BY <3>1, <3>2
  <2>6. ASSUME NEW n \in 1..Len(q), q[n] \notin T PROVE Len(u) < Len(q)
    <3>1. CASE n \in 1..Len(r)
      BY <2>1, <2>4, <2>5, <2>6, <3>1
    <3>2. CASE n = Len(r) + 1
      BY <2>1, <2>4, <2>5, <2>6, <3>2
    <3> QED
      BY <2>1, <3>1, <3>2
  <2>7. Good(q, u)
    BY <2>1, <2>4, <2>5, <2>6
  <2> QED
    BY <2>1, <2>7 DEF P, q, u
<1> HIDE DEF P
<1>3. s \in P
  BY <1>1, <1>2, SeqInduction
<1> QED
  BY <1>3 DEF P

\* Selecting twice is selecting by both sets.
LEMMA SelectSelect ==
  ASSUME NEW S, NEW s \in Seq(S), NEW T, NEW U
  PROVE  Select(Select(s, T), U) = Select(s, T \cap U)
<1> DEFINE P == {r \in Seq(S) : Select(Select(r, T), U) = Select(r, T \cap U)}
<1>1. <<>> \in P
  BY SelectEmpty
<1>2. ASSUME NEW r \in Seq(S), NEW x \in S, r \in P PROVE Append(r, x) \in P
  <2>1. Append(r, x) \in Seq(S)
    OBVIOUS
  <2>2. Select(Append(r, x), T) = IF x \in T THEN Append(Select(r, T), x) ELSE Select(r, T)
    BY SelectAppend
  <2>3. Select(Append(r, x), T \cap U)
          = IF x \in T \cap U THEN Append(Select(r, T \cap U), x) ELSE Select(r, T \cap U)
    BY SelectAppend
  <2>4. Select(r, T) \in Seq(S \cap T) /\ S \cap T \subseteq S
    BY SelectType
  <2>5. Select(r, T) \in Seq(S)
    BY <2>4
  <2>6. Select(Append(Select(r, T), x), U)
          = IF x \in U THEN Append(Select(Select(r, T), U), x) ELSE Select(Select(r, T), U)
    BY <2>5, SelectAppend
  <2>7. Select(Select(r, T), U) = Select(r, T \cap U)
    BY <1>2
  <2>8. Select(Select(Append(r, x), T), U) = Select(Append(r, x), T \cap U)
    <3>1. CASE x \in T
      <4>1. x \in T \cap U <=> x \in U
        BY <3>1
      <4>2. Select(Append(r, x), T) = Append(Select(r, T), x)
        BY <3>1, <2>2, Zenon
      <4>3. Select(Append(r, x), T \cap U)
              = IF x \in U THEN Append(Select(r, T \cap U), x) ELSE Select(r, T \cap U)
        BY <4>1, <2>3, Zenon
      <4>4. CASE x \in U
        <5>1. Select(Append(Select(r, T), x), U) = Append(Select(Select(r, T), U), x)
          BY <4>4, <2>6, Zenon
        <5>2. Select(Append(r, x), T \cap U) = Append(Select(r, T \cap U), x)
          BY <4>3, <4>4, Zenon
        <5> QED
          BY <4>2, <5>1, <5>2, <2>7, Zenon
      <4>5. CASE x \notin U
        BY <4>2, <4>3, <4>5, <2>6, <2>7, Zenon
      <4> QED
        BY <4>4, <4>5
    <3>2. CASE x \notin T
      BY <3>2, <2>2, <2>3, <2>7
    <3> QED
      BY <3>1, <3>2
  <2> QED
    BY <2>1, <2>8
<1> HIDE DEF P
<1>3. s \in P
  BY <1>1, <1>2, SeqInduction
<1> QED
  BY <1>3 DEF P

=============================================================================
