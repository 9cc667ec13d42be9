------------------------- MODULE CleanMessageProofs -------------------------
(***************************************************************************)
(* Proofs about clean_message, for any messages, rules and configurations: *)
(* no part has two replacements; each is queued exactly when it is due;    *)
(* spliced from the last to the first, they leave every part where it was, *)
(* cleaned once or as it came; and so the links of what is delivered are   *)
(* what the unsubscribe list, the block-list, the carve-outs and the       *)
(* protection of sensitive senders promise.  What was counted on the way   *)
(* is what the delivered message differs by from the one that came.        *)
(***************************************************************************)
EXTENDS CleanMessage, SequenceTheorems, FiniteSetTheorems, TLAPS

-----------------------------------------------------------------------------
(* Laying out parts.                                                       *)

\* Laying out, splicing and sorting as folds.
Laying == INSTANCE SequenceFacts WITH Op <- LAMBDA row, piece : row \o piece \o <<Boundary>>

Rows   == Seq(Cells \cup {Boundary})
\* The contents of some parts.
Pieces == Seq(Seq(Cells))

\* What laying out adds to a row.
Rest(pieces) == Laying!Folded(<<>>, pieces)

\* Laying out is a fold.
LEMMA LaidIsFolded == \A pieces : Laid(pieces) = Laying!Folded(<<Boundary>>, pieces)
  BY DEF Laid, FoldLeft, MapThenFoldSet, Max, Laying!Folded, Laying!Largest

\* Laying out piece by piece.
LEMMA LaidAppend ==
  ASSUME NEW p \in Pieces, NEW x \in Seq(Cells)
  PROVE  /\ Laid(<<>>) = <<Boundary>> /\ Rest(<<>>) = <<>>
         /\ Laid(Append(p, x)) = Laid(p) \o x \o <<Boundary>>
         /\ Rest(Append(p, x)) = Rest(p) \o x \o <<Boundary>>
<1>1. Laid(<<>>) = <<Boundary>> /\ Rest(<<>>) = <<>>
  BY LaidIsFolded, Laying!FoldEmpty DEF Rest
<1>2. p \in Seq(Seq(Cells))
  BY DEF Pieces
<1>3. \A base : Laying!Folded(base, Append(p, x)) = Laying!Folded(base, p) \o x \o <<Boundary>>
  BY <1>2, Laying!FoldAppend
<1> QED
  BY <1>1, <1>3, LaidIsFolded DEF Rest

\* A row starts with a boundary.
LEMMA LaidType ==
  ASSUME NEW p \in Pieces
  PROVE  Laid(p) \in Rows /\ Rest(p) \in Rows /\ Laid(p) = <<Boundary>> \o Rest(p)
<1> DEFINE P == {q \in Pieces : Laid(q) \in Rows /\ Rest(q) \in Rows
                                /\ Laid(q) = <<Boundary>> \o Rest(q)}
<1>0. \A x \in Seq(Cells) : x \in Rows
  BY DEF Rows
<1>1. <<>> \in P
  <2>1. <<>> \in Pieces /\ <<>> \in Rows /\ <<Boundary>> \in Rows /\ <<>> \in Seq(Cells)
        /\ <<Boundary>> \o <<>> = <<Boundary>>
    BY DEF Pieces, Rows
  <2> QED
    BY <2>1, LaidAppend
<1>2. ASSUME NEW q \in Seq(Seq(Cells)), NEW x \in Seq(Cells), q \in P PROVE Append(q, x) \in P
  <2>1. Append(q, x) \in Pieces /\ x \in Rows /\ <<Boundary>> \in Rows /\ q \in Pieces
    BY <1>0, <1>2 DEF Pieces, Rows
  <2>2. \A r, s \in Rows : r \o s \in Rows
    BY DEF Rows
  <2>3. \A r, s, t \in Rows : (r \o s) \o t = r \o (s \o t)
    BY ConcatAssociative DEF Rows
  <2>4. /\ Laid(Append(q, x)) = Laid(q) \o x \o <<Boundary>>
        /\ Rest(Append(q, x)) = Rest(q) \o x \o <<Boundary>>
    BY <2>1, LaidAppend
  <2>5. Laid(q) \in Rows /\ Rest(q) \in Rows /\ Laid(q) = <<Boundary>> \o Rest(q)
    BY <1>2
  <2>6. (<<Boundary>> \o Rest(q)) \o x \o <<Boundary>> = <<Boundary>> \o (Rest(q) \o x \o <<Boundary>>)
    BY <2>1, <2>2, <2>3, <2>5
  <2> HIDE DEF P
  <2>7. Laid(Append(q, x)) \in Rows /\ Rest(Append(q, x)) \in Rows
    BY <2>1, <2>2, <2>4, <2>5
  <2>8. Laid(Append(q, x)) = <<Boundary>> \o Rest(Append(q, x))
    BY <2>4, <2>5, <2>6
  <2> QED
    BY <2>1, <2>7, <2>8 DEF P
<1> HIDE DEF P
<1>3. p \in P
  BY <1>1, <1>2, Laying!SeqInduction DEF Pieces
<1> QED
  BY <1>3 DEF P

\* What comes later is laid out behind what comes first.
LEMMA LaidConcat ==
  ASSUME NEW p \in Pieces, NEW s \in Pieces
  PROVE  Laid(p \o s) = Laid(p) \o Rest(s)
<1> DEFINE P == {q \in Pieces : Laid(p \o q) = Laid(p) \o Rest(q)}
<1>1. <<>> \in P
  <2>1. <<>> \in Pieces /\ p \o <<>> = p /\ <<>> \in Seq(Cells)
    BY DEF Pieces
  <2>2. Laid(p) \in Rows /\ Rest(<<>>) = <<>>
    BY <2>1, LaidType, LaidAppend
  <2>3. Laid(p) \o <<>> = Laid(p)
    BY <2>2 DEF Rows
  <2> QED
    BY <2>1, <2>2, <2>3
<1>2. ASSUME NEW q \in Seq(Seq(Cells)), NEW x \in Seq(Cells), q \in P PROVE Append(q, x) \in P
  <2>1. /\ Append(q, x) \in Pieces /\ p \o q \in Pieces /\ q \in Pieces
        /\ p \o Append(q, x) = Append(p \o q, x)
    BY DEF Pieces
  <2>2. x \in Rows /\ <<Boundary>> \in Rows
    BY DEF Rows
  <2>3. \A r, s1 \in Rows : r \o s1 \in Rows
    BY DEF Rows
  <2>4. \A r, s1, t \in Rows : (r \o s1) \o t = r \o (s1 \o t)
    BY ConcatAssociative DEF Rows
  <2>5. Laid(p) \in Rows /\ Rest(q) \in Rows
    BY <2>1, LaidType
  <2>6. /\ Laid(Append(p \o q, x)) = Laid(p \o q) \o x \o <<Boundary>>
        /\ Rest(Append(q, x)) = Rest(q) \o x \o <<Boundary>>
    BY <2>1, LaidAppend
  <2>7. Laid(p \o q) = Laid(p) \o Rest(q)
    BY <1>2
  <2> HIDE DEF P
  <2>8. (Laid(p) \o Rest(q)) \o x \o <<Boundary>> = Laid(p) \o (Rest(q) \o x \o <<Boundary>>)
    <3>1. (Laid(p) \o Rest(q)) \o x = Laid(p) \o (Rest(q) \o x)
      BY <2>2, <2>4, <2>5
    <3>2. Rest(q) \o x \in Rows
      BY <2>2, <2>3, <2>5
    <3>3. (Laid(p) \o (Rest(q) \o x)) \o <<Boundary>> = Laid(p) \o ((Rest(q) \o x) \o <<Boundary>>)
      BY <2>2, <2>4, <2>5, <3>2
    <3> QED
      BY <3>1, <3>3
  <2>9. Laid(p \o Append(q, x)) = Laid(p) \o Rest(Append(q, x))
    BY <2>1, <2>6, <2>7, <2>8
  <2> QED
    BY <2>1, <2>9 DEF P
<1> HIDE DEF P
<1>3. s \in P
  BY <1>1, <1>2, Laying!SeqInduction DEF Pieces
<1> QED
  BY <1>3 DEF P

\* Rows around one part.
LEMMA LaidAround ==
  ASSUME NEW p \in Pieces, NEW i \in 1..Len(p)
  PROVE  /\ p[i] \in Seq(Cells) /\ p[i] \in Rows
         /\ SubSeq(p, 1, i - 1) \in Pieces /\ SubSeq(p, i + 1, Len(p)) \in Pieces
         /\ Laid(p) = Laid(SubSeq(p, 1, i - 1)) \o p[i] \o Laid(SubSeq(p, i + 1, Len(p)))
<1> DEFINE a == SubSeq(p, 1, i - 1)
           b == SubSeq(p, i + 1, Len(p))
<1>1. /\ a \in Pieces /\ b \in Pieces /\ p[i] \in Seq(Cells)
      /\ p = Append(a, p[i]) \o b
  <2>1. p \in Seq(Seq(Cells)) /\ p[i] \in Seq(Cells)
    BY DEF Pieces
  <2>2. a \in Seq(Seq(Cells)) /\ b \in Seq(Seq(Cells)) /\ p = Append(a, p[i]) \o b
    BY <2>1, Laying!Around
  <2> QED
    BY <2>1, <2>2 DEF Pieces
<1> HIDE DEF a, b
<1>2. Laid(p) = Laid(Append(a, p[i])) \o Rest(b)
  <2>1. Append(a, p[i]) \in Pieces
    BY <1>1 DEF Pieces
  <2> QED
    BY <1>1, <2>1, LaidConcat
<1>3. Laid(Append(a, p[i])) = Laid(a) \o p[i] \o <<Boundary>>
  BY <1>1, LaidAppend
<1>4. Laid(b) = <<Boundary>> \o Rest(b) /\ Laid(a) \in Rows /\ Rest(b) \in Rows
  BY <1>1, LaidType
<1>5. p[i] \in Rows /\ <<Boundary>> \in Rows
  BY <1>1 DEF Rows
<1>6. Laid(a) \o p[i] \in Rows
  BY <1>4, <1>5 DEF Rows
<1>7. ((Laid(a) \o p[i]) \o <<Boundary>>) \o Rest(b) = (Laid(a) \o p[i]) \o (<<Boundary>> \o Rest(b))
  <2>1. \A r, s, t \in Rows : (r \o s) \o t = r \o (s \o t)
    BY ConcatAssociative DEF Rows
  <2> QED
    BY <1>4, <1>5, <1>6, <2>1
<1> QED
  BY <1>1, <1>2, <1>3, <1>4, <1>5, <1>7 DEF a, b

\* Where part i of a message of these pieces starts, or would if it had one more.
Offset(p, i) == Len(Laid(SubSeq(p, 1, i - 1)))

\* A part ends before the next one starts.
LEMMA OffsetsRise ==
  ASSUME NEW p \in Pieces, NEW i \in 1..Len(p), NEW j \in 1..Len(p) + 1, i < j
  PROVE  /\ Offset(p, i) \in Nat /\ Offset(p, j) \in Nat /\ Len(p[i]) \in Nat
         /\ Offset(p, i) + Len(p[i]) < Offset(p, j)
<1> DEFINE q == SubSeq(p, 1, j - 1)
<1>1. q \in Pieces /\ Len(q) = j - 1 /\ \A k \in 1..j - 1 : q[k] = p[k]
  <2>1. p \in Seq(Seq(Cells)) /\ j - 1 \in Nat /\ j - 1 <= Len(p) /\ 1 \in Nat \ {0}
        /\ 1 <= (j - 1) + 1 /\ (j - 1) + 1 - 1 = j - 1
    BY DEF Pieces
  <2>2. /\ q \in Seq(Seq(Cells)) /\ Len(q) = (j - 1) + 1 - 1
        /\ \A k \in 1..(j - 1) + 1 - 1 : q[k] = p[1 + k - 1]
    BY <2>1, Laying!CutIs
  <2> QED
    BY <2>1, <2>2 DEF Pieces
<1>2. i \in 1..Len(q) /\ q[i] = p[i] /\ SubSeq(q, 1, i - 1) = SubSeq(p, 1, i - 1)
  <2>1. i \in 1..Len(q) /\ q[i] = p[i]
    BY <1>1
  <2>2. /\ q \in Seq(Seq(Cells)) /\ p \in Seq(Seq(Cells)) /\ i - 1 \in Nat /\ 1 \in Nat \ {0}
        /\ i - 1 <= Len(q) /\ i - 1 <= Len(p) /\ \A k \in 1..i - 1 : q[k] = p[k]
    BY <1>1 DEF Pieces
  <2> HIDE DEF q
  <2>3. SubSeq(q, 1, i - 1) = SubSeq(p, 1, i - 1)
    BY <2>2, Laying!SameCut
  <2> QED
    BY <2>1, <2>3
<1> DEFINE a == SubSeq(p, 1, i - 1)
           b == SubSeq(q, i + 1, Len(q))
<1> HIDE DEF q
<1>3. a \in Pieces /\ b \in Pieces /\ p[i] \in Rows /\ Laid(q) = Laid(a) \o p[i] \o Laid(b)
  BY <1>1, <1>2, LaidAround
<1> HIDE DEF a, b
<1>4. Laid(a) \in Rows /\ Laid(b) \in Rows /\ Len(Laid(b)) > 0
  <2>1. Laid(a) \in Rows /\ Laid(b) \in Rows /\ Rest(b) \in Rows /\ Laid(b) = <<Boundary>> \o Rest(b)
    BY <1>3, LaidType
  <2>2. Len(<<Boundary>> \o Rest(b)) = 1 + Len(Rest(b)) /\ Len(Rest(b)) \in Nat
    BY <2>1 DEF Rows
  <2> QED
    BY <2>1, <2>2
<1>5. Len(Laid(q)) = Len(Laid(a)) + Len(p[i]) + Len(Laid(b))
  BY <1>3, <1>4, Laying!CutThree DEF Rows
<1>6. Len(Laid(a)) \in Nat /\ Len(p[i]) \in Nat /\ Len(Laid(b)) \in Nat
  BY <1>3, <1>4 DEF Rows
<1>7. Offset(p, i) = Len(Laid(a)) /\ Offset(p, j) = Len(Laid(q))
  BY DEF Offset, a, q
<1> QED
  BY <1>4, <1>5, <1>6, <1>7

\* What stands where in a row of three.
LEMMA RowAround ==
  ASSUME NEW a \in Rows, NEW x \in Rows, NEW b \in Rows
  PROVE  /\ SubSeq(a \o x \o b, 1, Len(a)) = a
         /\ SubSeq(a \o x \o b, Len(a) + 1, Len(a) + Len(x)) = x
         /\ SubSeq(a \o x \o b, Len(a) + Len(x) + 1, Len(a \o x \o b)) = b
         /\ Len(a \o x \o b) = Len(a) + Len(x) + Len(b)
  BY Laying!CutThree DEF Rows

\* What is before, in and behind a part.
LEMMA LaidCut ==
  ASSUME NEW p \in Pieces, NEW i \in 1..Len(p)
  PROVE  LET from == Offset(p, i)  to == Offset(p, i) + Len(p[i])  row == Laid(p) IN
         /\ SubSeq(row, 1, from) = Laid(SubSeq(p, 1, i - 1))
         /\ SubSeq(row, from + 1, to) = p[i]
         /\ SubSeq(row, to + 1, Len(row)) = Laid(SubSeq(p, i + 1, Len(p)))
<1>1. p[i] \in Rows /\ SubSeq(p, 1, i - 1) \in Pieces /\ SubSeq(p, i + 1, Len(p)) \in Pieces
  BY LaidAround
<1>2. Laid(SubSeq(p, 1, i - 1)) \in Rows /\ Laid(SubSeq(p, i + 1, Len(p))) \in Rows
  BY <1>1, LaidType
<1>3. Laid(p) = Laid(SubSeq(p, 1, i - 1)) \o p[i] \o Laid(SubSeq(p, i + 1, Len(p)))
  BY LaidAround
<1>4. PICK a, x, b, row : /\ a = Laid(SubSeq(p, 1, i - 1)) /\ x = p[i]
                          /\ b = Laid(SubSeq(p, i + 1, Len(p))) /\ row = Laid(p)
  OBVIOUS
<1>5. a \in Rows /\ x \in Rows /\ b \in Rows
  BY <1>1, <1>2, <1>4
<1>6. SubSeq(a \o x \o b, 1, Len(a)) = a
  BY <1>5, RowAround
<1>7. SubSeq(a \o x \o b, Len(a) + 1, Len(a) + Len(x)) = x
  BY <1>5, RowAround
<1>8. SubSeq(a \o x \o b, Len(a) + Len(x) + 1, Len(a \o x \o b)) = b
  BY <1>5, RowAround
<1>9. row = a \o x \o b
  BY <1>3, <1>4
<1>10. /\ SubSeq(row, 1, Len(a)) = a
       /\ SubSeq(row, Len(a) + 1, Len(a) + Len(x)) = x
       /\ SubSeq(row, Len(a) + Len(x) + 1, Len(row)) = b
  BY <1>6, <1>7, <1>8, <1>9
<1> QED
  BY <1>4, <1>10 DEF Offset

\* A replacement of one part, spliced where that part is.
LEMMA SpliceOne ==
  ASSUME NEW p \in Pieces, NEW i \in 1..Len(p), NEW x \in Seq(Cells), NEW r,
         r.start = Offset(p, i), r.end = Offset(p, i) + Len(p[i]), r.cells = x
  PROVE  Splice(Laid(p), r) = Laid([p EXCEPT ![i] = x])
<1> DEFINE q == [p EXCEPT ![i] = x]
           front == SubSeq(p, 1, i - 1)
           back == SubSeq(p, i + 1, Len(p))
<1>1. q \in Pieces /\ Len(q) = Len(p) /\ q[i] = x /\ \A k \in 1..Len(p) : k # i => q[k] = p[k]
  BY ExceptSeq DEF Pieces
<1>2. SubSeq(q, 1, i - 1) = front /\ SubSeq(q, i + 1, Len(q)) = back
  <2>1. /\ p \in Seq(Seq(Cells)) /\ q \in Seq(Seq(Cells)) /\ i - 1 \in Nat /\ i - 1 <= Len(p)
        /\ i + 1 \in Nat \ {0} /\ Len(p) \in Nat /\ 1 \in Nat \ {0}
        /\ \A k \in 1..i - 1 : q[k] = p[k] /\ \A m \in i + 1..Len(p) : q[m] = p[m]
    BY <1>1 DEF Pieces
  <2> HIDE DEF q
  <2>2. SubSeq(q, 1, i - 1) = SubSeq(p, 1, i - 1)
    BY <1>1, <2>1, Laying!SameCut
  <2>3. SubSeq(q, i + 1, Len(p)) = SubSeq(p, i + 1, Len(p))
    BY <1>1, <2>1, Laying!SameCut
  <2> QED
    BY <1>1, <2>2, <2>3
<1>3. /\ front \in Pieces /\ back \in Pieces /\ p[i] \in Rows
      /\ Laid(p) = Laid(front) \o p[i] \o Laid(back)
  BY LaidAround
<1>4. Laid(q) = Laid(front) \o x \o Laid(back)
  <2> HIDE DEF q, front, back
  <2> QED
    BY <1>1, <1>2, LaidAround
<1> HIDE DEF front, back, q
<1>7. SubSeq(Laid(p), 1, r.start) = Laid(front) /\ SubSeq(Laid(p), r.end + 1, Len(Laid(p))) = Laid(back)
  BY LaidCut DEF front, back
<1> QED
  BY <1>4, <1>7 DEF Splice, q

-----------------------------------------------------------------------------
(* Splicing replacements.                                                  *)

Splicing == INSTANCE SequenceFacts WITH Op <- Splice
Sorting == INSTANCE SequenceFacts WITH
  Op <- LAMBDA s, r : InsertAt(s, CHOOSE k \in 1..(Len(s) + 1) :
                                    \A n \in DOMAIN s : n < k <=> s[n].start >= r.start, r)

\* Splicing one by one is a fold.
LEMMA SplicedIsFolded == \A row, d : FoldLeft(Splice, row, d) = Splicing!Folded(row, d)
  BY DEF FoldLeft, MapThenFoldSet, Max, Splicing!Folded, Splicing!Largest

\* So is sorting by insertion.
LEMMA SortedIsFolded == \A queue : Sorted(queue) = Sorting!Folded(<<>>, queue)
  BY DEF Sorted, FoldLeft, MapThenFoldSet, Max, Sorting!Folded, Sorting!Largest

\* Replacing part i of p by that of new.
Repl(p, new, i) ==
  [start |-> Offset(p, i), end |-> Offset(p, i) + Len(p[i]), cells |-> new[i]]

\* The replacements there may be.
Repls(p, new) == {Repl(p, new, i) : i \in 1..Len(p)}

\* Which parts some replacements replace.
Indices(p, new, d) == {i \in 1..Len(p) : \E n \in DOMAIN d : d[n] = Repl(p, new, i)}

\* The pieces with some of them replaced.
Mix(p, new, I) == [i \in 1..Len(p) |-> IF i \in I THEN new[i] ELSE p[i]]

\* From the last to the first.
Falling(d) == \A m, n \in DOMAIN d : m < n => d[n].start < d[m].start

\* Replacing some parts leaves as many pieces, the others as they were.
LEMMA MixIs ==
  ASSUME NEW p \in Pieces, NEW new \in Pieces, Len(new) = Len(p), NEW I
  PROVE  /\ Mix(p, new, I) \in Pieces /\ Len(Mix(p, new, I)) = Len(p)
         /\ \A i \in 1..Len(p) : Mix(p, new, I)[i] = IF i \in I THEN new[i] ELSE p[i]
<1>1. Len(p) \in Nat /\ \A i \in 1..Len(p) : p[i] \in Seq(Cells) /\ new[i] \in Seq(Cells)
  BY DEF Pieces
<1> DEFINE m == Mix(p, new, I)
<1>2. m \in [1..Len(p) -> Seq(Cells)]
  BY <1>1 DEF Mix
<1>3. DOMAIN m = 1..Len(p) /\ \A i \in 1..Len(p) : m[i] = IF i \in I THEN new[i] ELSE p[i]
  BY DEF Mix
<1> HIDE DEF m
<1>4. m \in Seq(Seq(Cells))
  <2>1. m \in UNION {[1..n -> Seq(Cells)] : n \in Nat}
    BY <1>1, <1>2
  <2> QED
    BY <2>1, SeqDef, Zenon
<1>5. Len(m) = Len(p)
  BY <1>1, <1>3, <1>4
<1> QED
  BY <1>3, <1>4, <1>5 DEF m, Pieces

\* Starts tell parts apart.
LEMMA ReplStart ==
  ASSUME NEW p \in Pieces, NEW new, NEW i \in 1..Len(p), NEW j \in 1..Len(p)
  PROVE  /\ Repl(p, new, i).start = Offset(p, i) /\ Offset(p, i) \in Nat
         /\ Offset(p, i) < Offset(p, j) <=> i < j
         /\ Repl(p, new, i) = Repl(p, new, j) <=> i = j
<1>1. Len(p) \in Nat
  BY DEF Pieces
<1>2. \A a, b \in 1..Len(p) : a < b => Offset(p, a) < Offset(p, b) /\ Offset(p, a) \in Nat /\ Offset(p, b) \in Nat
  <2> SUFFICES ASSUME NEW a \in 1..Len(p), NEW b \in 1..Len(p), a < b
               PROVE  Offset(p, a) < Offset(p, b) /\ Offset(p, a) \in Nat /\ Offset(p, b) \in Nat
    OBVIOUS
  <2>1. b \in 1..Len(p) + 1
    BY <1>1
  <2>2. /\ Offset(p, a) \in Nat /\ Offset(p, b) \in Nat /\ Len(p[a]) \in Nat
        /\ Offset(p, a) + Len(p[a]) < Offset(p, b)
    BY <2>1, OffsetsRise
  <2> QED
    BY <2>2
<1>3. Offset(p, i) \in Nat
  <2>1. i < Len(p) + 1 /\ Len(p) + 1 \in 1..Len(p) + 1
    BY <1>1
  <2> QED
    BY <2>1, OffsetsRise
<1>4. Offset(p, i) < Offset(p, j) <=> i < j
  <2>1. i < j \/ i = j \/ j < i
    BY <1>1
  <2> QED
    BY <1>2, <1>3, <2>1
<1>5. Repl(p, new, i).start = Offset(p, i) /\ Repl(p, new, j).start = Offset(p, j)
  BY DEF Repl
<1>6. Offset(p, i) = Offset(p, j) => i = j
  <2>1. i < j \/ i = j \/ j < i
    BY <1>1
  <2> QED
    BY <1>2, <1>3, <2>1
<1> QED
  BY <1>3, <1>4, <1>5, <1>6

\* The last to the first: every splice finds its part where it was.
LEMMA SpliceAll ==
  ASSUME NEW p \in Pieces, NEW new \in Pieces, Len(new) = Len(p),
         NEW e \in Seq(Repls(p, new)), Falling(e)
  PROVE  FoldLeft(Splice, Laid(p), e) = Laid(Mix(p, new, Indices(p, new, e)))
<1> DEFINE P == {d \in Seq(Repls(p, new)) :
                   Falling(d) => Splicing!Folded(Laid(p), d) = Laid(Mix(p, new, Indices(p, new, d)))}
<1>1. <<>> \in P
  <2>1. Indices(p, new, <<>>) = {} /\ <<>> \in Seq(Repls(p, new))
    BY DEF Indices
  <2>2. Mix(p, new, {}) = p
    <3>1. Mix(p, new, {}) \in Seq(Seq(Cells)) /\ p \in Seq(Seq(Cells))
      BY MixIs DEF Pieces
    <3>2. Len(Mix(p, new, {})) = Len(p) /\ \A i \in 1..Len(p) : Mix(p, new, {})[i] = p[i]
      BY MixIs
    <3> QED
      BY <3>1, <3>2, SeqEqual
  <2>3. Splicing!Folded(Laid(p), <<>>) = Laid(p)
    BY Splicing!FoldEmpty
  <2> QED
    BY <2>1, <2>2, <2>3
<1>2. ASSUME NEW d \in Seq(Repls(p, new)), NEW r \in Repls(p, new), d \in P
      PROVE  Append(d, r) \in P
  <2> DEFINE f == Append(d, r)
  <2>1. /\ f \in Seq(Repls(p, new)) /\ Len(d) \in Nat /\ DOMAIN d = 1..Len(d)
        /\ DOMAIN f = 1..Len(d) + 1 /\ f[Len(d) + 1] = r
        /\ \A n \in 1..Len(d) : f[n] = d[n]
    OBVIOUS
  <2> SUFFICES ASSUME Falling(f)
               PROVE  Splicing!Folded(Laid(p), f) = Laid(Mix(p, new, Indices(p, new, f)))
    BY <2>1
  <2> HIDE DEF f
  <2>2. Falling(d) /\ \A n \in 1..Len(d) : r.start < d[n].start
    <3>1. \A n \in 1..Len(d) : n \in DOMAIN f /\ Len(d) + 1 \in DOMAIN f /\ n < Len(d) + 1
      BY <2>1
    <3>2. \A m, n \in 1..Len(d) : m < n => d[n].start < d[m].start
      BY <2>1, <3>1 DEF Falling
    <3>3. \A n \in 1..Len(d) : f[Len(d) + 1].start < f[n].start
      BY <3>1 DEF Falling
    <3> QED
      BY <2>1, <3>2, <3>3 DEF Falling
  <2>3. PICK k \in 1..Len(p) : r = Repl(p, new, k)
    BY DEF Repls
  <2> DEFINE I == Indices(p, new, d)
             q == Mix(p, new, I)
  <2>4. /\ q \in Pieces /\ Len(q) = Len(p) /\ Len(p) \in Nat
        /\ \A i \in 1..Len(p) : q[i] = IF i \in I THEN new[i] ELSE p[i]
    BY MixIs DEF Pieces
  <2>5. \A i \in I : k < i
    <3> SUFFICES ASSUME NEW i \in I PROVE k < i
      OBVIOUS
    <3>1. i \in 1..Len(p) /\ \E n \in DOMAIN d : d[n] = Repl(p, new, i)
      BY DEF Indices
    <3>2. Offset(p, k) < Offset(p, i)
      BY <2>1, <2>2, <2>3, <3>1, ReplStart
    <3> QED
      BY <3>1, <3>2, ReplStart
  <2>6. Splicing!Folded(Laid(p), f) = Splice(Laid(q), r)
    <3>1. Splicing!Folded(Laid(p), d) = Laid(q)
      BY <1>2, <2>2
    <3>2. Splicing!Folded(Laid(p), f) = Splice(Splicing!Folded(Laid(p), d), r)
      BY Splicing!FoldAppend DEF f
    <3> QED
      BY <3>1, <3>2
  <2> HIDE DEF I, q, P
  <2>7. q[k] = p[k] /\ SubSeq(q, 1, k - 1) = SubSeq(p, 1, k - 1)
    <3>1. \A i \in 1..k : i \in 1..Len(p) /\ i \notin I
      BY <2>4, <2>5
    <3>2. \A i \in 1..k : q[i] = p[i]
      BY <2>4, <3>1
    <3>3. /\ p \in Seq(Seq(Cells)) /\ q \in Seq(Seq(Cells)) /\ 1 \in Nat \ {0}
          /\ k - 1 \in Nat /\ k - 1 <= Len(p) /\ k - 1 <= Len(q) /\ k \in 1..k
          /\ \A i \in 1..k - 1 : q[i] = p[i]
      BY <2>4, <3>2 DEF Pieces
    <3>4. SubSeq(q, 1, k - 1) = SubSeq(p, 1, k - 1)
      BY <3>3, Laying!SameCut
    <3> QED
      BY <3>2, <3>3, <3>4
  <2>8. Offset(q, k) = Offset(p, k) /\ new[k] \in Seq(Cells) /\ k \in 1..Len(q)
    <3>1. Offset(q, k) = Offset(p, k)
      BY <2>7 DEF Offset
    <3>2. new[k] \in Seq(Cells)
      BY DEF Pieces
    <3> QED
      BY <2>4, <3>1, <3>2
  <2>9. Splice(Laid(q), r) = Laid([q EXCEPT ![k] = new[k]])
    <3>1. r.start = Offset(q, k) /\ r.end = Offset(q, k) + Len(q[k]) /\ r.cells = new[k]
      BY <2>3, <2>7, <2>8 DEF Repl
    <3> QED
      BY <2>4, <2>8, <3>1, SpliceOne
  <2>10. Indices(p, new, f) = I \cup {k}
    <3>1. ASSUME NEW i \in 1..Len(p)
          PROVE  (\E n \in DOMAIN f : f[n] = Repl(p, new, i))
                   <=> (\E n \in DOMAIN d : d[n] = Repl(p, new, i)) \/ i = k
      <4>1. r = Repl(p, new, i) <=> i = k
        BY <2>3, ReplStart
      <4>2. DOMAIN f = DOMAIN d \cup {Len(d) + 1}
        BY <2>1
      <4>3. \A n \in DOMAIN d : f[n] = d[n]
        BY <2>1
      <4>4. f[Len(d) + 1] = Repl(p, new, i) <=> i = k
        BY <2>1, <4>1
      <4> QED
        BY <4>2, <4>3, <4>4, Zenon
    <3> QED
      BY <3>1 DEF Indices, I
  <2>11. [q EXCEPT ![k] = new[k]] = Mix(p, new, I \cup {k})
    <3>1. q = [i \in 1..Len(p) |-> IF i \in I THEN new[i] ELSE p[i]]
      BY DEF q, Mix
    <3>2. [q EXCEPT ![k] = new[k]] = [i \in 1..Len(p) |-> IF i = k THEN new[k] ELSE q[i]]
      BY <3>1
    <3>3. \A i \in 1..Len(p) : (IF i = k THEN new[k] ELSE q[i])
                                 = IF i \in I \cup {k} THEN new[i] ELSE p[i]
      BY <2>4
    <3> QED
      BY <3>2, <3>3 DEF Mix
  <2> QED
    BY <2>6, <2>9, <2>10, <2>11
<1> HIDE DEF P
<1>3. e \in P
  BY <1>1, <1>2, Splicing!SeqInduction
<1> QED
  BY <1>3, SplicedIsFolded DEF P

-----------------------------------------------------------------------------
(* Sorting replacements.                                                   *)

\* Where the stable insertion puts a replacement.
Place(s, r) == CHOOSE k \in 1..(Len(s) + 1) : \A n \in DOMAIN s : n < k <=> s[n].start >= r.start

\* There is such a place in what is sorted so far.
LEMMA PlaceExists ==
  ASSUME NEW S, \A x \in S : x.start \in Nat, NEW s \in Seq(S), Falling(s), NEW r \in S
  PROVE  /\ Place(s, r) \in 1..Len(s) + 1
         /\ \A n \in 1..Len(s) : n < Place(s, r) <=> s[n].start >= r.start
<1>1. Len(s) \in Nat /\ DOMAIN s = 1..Len(s) /\ r.start \in Nat /\ \A n \in 1..Len(s) : s[n].start \in Nat
  OBVIOUS
<1>2. \E k \in 1..Len(s) + 1 : \A n \in 1..Len(s) : n < k <=> s[n].start >= r.start
  <2> SUFFICES ASSUME ~ \E k \in 1..Len(s) + 1 : \A n \in 1..Len(s) : n < k <=> s[n].start >= r.start
               PROVE  FALSE
    OBVIOUS
  <2> DEFINE N == {m \in Nat : m <= Len(s) => \A n \in 1..m : s[n].start >= r.start}
  <2>1. 0 \in N
    OBVIOUS
  <2>2. ASSUME NEW m \in Nat, m \in N PROVE m + 1 \in N
    <3> SUFFICES ASSUME m + 1 <= Len(s) PROVE \A n \in 1..m + 1 : s[n].start >= r.start
      OBVIOUS
    <3>1. \A n \in 1..m : s[n].start >= r.start
      BY <1>1, <2>2
    <3>2. s[m + 1].start >= r.start
      <4> SUFFICES ASSUME ~(s[m + 1].start >= r.start) PROVE FALSE
        OBVIOUS
      <4>1. m + 1 \in 1..Len(s) + 1 /\ m + 1 \in 1..Len(s)
        BY <1>1
      <4>2. \A n \in 1..Len(s) : n > m + 1 => s[n].start < s[m + 1].start
        BY <1>1, <4>1 DEF Falling
      <4>3. ASSUME NEW n \in 1..Len(s) PROVE n < m + 1 <=> s[n].start >= r.start
        <5>1. n \in 1..m \/ n = m + 1 \/ n > m + 1
          BY <1>1
        <5> QED
          BY <1>1, <3>1, <4>1, <4>2, <5>1
      <4> QED
        BY <4>1, <4>3
    <3> QED
      BY <3>1, <3>2
  <2> HIDE DEF N
  <2>3. \A m \in Nat : m \in N
    BY <2>1, <2>2, Laying!Induction
  <2>4. \A n \in 1..Len(s) : s[n].start >= r.start
    BY <1>1, <2>3 DEF N
  <2>5. Len(s) + 1 \in 1..Len(s) + 1 /\ \A n \in 1..Len(s) : n < Len(s) + 1
    BY <1>1
  <2> QED
    BY <2>4, <2>5
<1> QED
  BY <1>1, <1>2 DEF Place

\* Sorting loses nothing, and starts that differ come out falling.
LEMMA SortedFalls ==
  ASSUME NEW S, \A x \in S : x.start \in Nat, NEW e \in Seq(S),
         \A m, n \in DOMAIN e : e[m].start = e[n].start => m = n
  PROVE  /\ Sorted(e) \in Seq(S) /\ Falling(Sorted(e))
         /\ \A x : (\E n \in DOMAIN e : e[n] = x) <=> (\E n \in DOMAIN Sorted(e) : Sorted(e)[n] = x)
<1> DEFINE Same(d, s) == \A x : (\E n \in DOMAIN d : d[n] = x) <=> (\E n \in DOMAIN s : s[n] = x)
           Apart(d) == \A m, n \in DOMAIN d : d[m].start = d[n].start => m = n
           Good(d, s) == s \in Seq(S) /\ Falling(s) /\ Same(d, s)
           P == {d \in Seq(S) : Apart(d) => Good(d, Sorting!Folded(<<>>, d))}
<1>1. <<>> \in P
  <2>1. Sorting!Folded(<<>>, <<>>) = <<>>
    BY Sorting!FoldEmpty
  <2>2. Good(<<>>, <<>>)
    BY DEF Falling
  <2> QED
    BY <2>1, <2>2
<1>2. ASSUME NEW d \in Seq(S), NEW r \in S, d \in P PROVE Append(d, r) \in P
  <2> DEFINE f == Append(d, r)
             s == Sorting!Folded(<<>>, d)
             t == Sorting!Folded(<<>>, f)
             k == Place(s, r)
  <2>1. /\ f \in Seq(S) /\ Len(d) \in Nat /\ DOMAIN d = 1..Len(d)
        /\ DOMAIN f = 1..Len(d) + 1 /\ f[Len(d) + 1] = r
        /\ \A n \in 1..Len(d) : f[n] = d[n]
    OBVIOUS
  <2> SUFFICES ASSUME Apart(f) PROVE Good(f, t)
    BY <2>1
  <2>2. t = Laying!PutAt(s, k, r)
    <3>1. t = InsertAt(s, k, r)
      BY Sorting!FoldAppend DEF Place
    <3> HIDE DEF s, t, k
    <3> QED
      BY <3>1 DEF InsertAt, Laying!PutAt
  <2>3. Apart(d) /\ \A n \in DOMAIN d : d[n].start # r.start
    <3> HIDE DEF f
    <3>1. \A m \in DOMAIN d : m \in DOMAIN f /\ Len(d) + 1 \in DOMAIN f /\ m # Len(d) + 1
      BY <2>1
    <3>2. \A m \in DOMAIN d : f[m] = d[m]
      BY <2>1
    <3> QED
      BY <2>1, <3>1, <3>2
  <2>4. Good(d, s)
    BY <1>2, <2>3
  <2> HIDE DEF f, s, t, P
  <2>5. s \in Seq(S) /\ Falling(s) /\ Same(d, s)
    BY <2>4
  <2>6. /\ k \in 1..Len(s) + 1 /\ Len(s) \in Nat
        /\ \A n \in 1..Len(s) : n < k <=> s[n].start >= r.start
    BY <2>5, PlaceExists
  <2> HIDE DEF k
  <2>7. /\ t \in Seq(S) /\ Len(t) = Len(s) + 1
        /\ \A n \in 1..k - 1 : t[n] = s[n]
        /\ t[k] = r
        /\ \A n \in k..Len(s) : t[n + 1] = s[n]
    <3>1. s \in Seq(S) /\ k \in 1..Len(s) + 1 /\ r \in S
      BY <2>5, <2>6
    <3> QED
      BY <2>2, <3>1, Laying!Inserted
  <2>8. \A n \in 1..Len(s) : s[n].start \in Nat /\ s[n].start # r.start
    <3>1. ASSUME NEW n \in 1..Len(s) PROVE s[n].start \in Nat /\ s[n].start # r.start
      <4>1. s[n] \in S /\ n \in DOMAIN s
        BY <2>5
      <4>2. \E m \in DOMAIN d : d[m] = s[n]
        BY <2>5, <4>1
      <4> QED
        BY <2>3, <4>1, <4>2
    <3> QED
      BY <3>1
  <2>9. Falling(t)
    <3> SUFFICES ASSUME NEW m \in DOMAIN t, NEW n \in DOMAIN t, m < n
                 PROVE  t[n].start < t[m].start
      BY DEF Falling
    <3>1. m \in 1..Len(s) + 1 /\ n \in 1..Len(s) + 1 /\ r.start \in Nat
      BY <2>7
    <3>2. \A a, b \in 1..Len(s) : a < b => s[b].start < s[a].start
      BY <2>5 DEF Falling
    <3>3. \A a \in 1..Len(s) : IF a < k THEN r.start < s[a].start ELSE s[a].start < r.start
      BY <2>6, <2>8, <3>1
    <3>4. CASE n < k
      BY <2>6, <2>7, <3>1, <3>2, <3>4
    <3>5. CASE n = k
      <4>1. m \in 1..k - 1 /\ m \in 1..Len(s)
        BY <2>6, <3>1, <3>5
      <4> QED
        BY <2>7, <3>3, <3>5, <4>1
    <3>6. CASE n > k
      <4>1. n - 1 \in k..Len(s) /\ n - 1 \in 1..Len(s) /\ n = (n - 1) + 1
        BY <2>6, <3>1, <3>6
      <4>2. t[n] = s[n - 1]
        BY <2>7, <4>1
      <4>3. CASE m < k
        <5>1. m \in 1..k - 1 /\ m \in 1..Len(s) /\ m < n - 1
          BY <2>6, <3>1, <3>6, <4>3
        <5> QED
          BY <2>7, <3>2, <4>1, <4>2, <5>1
      <4>4. CASE m = k
        BY <2>6, <2>7, <3>3, <4>1, <4>2, <4>4
      <4>5. CASE m > k
        <5>1. m - 1 \in k..Len(s) /\ m - 1 \in 1..Len(s) /\ m = (m - 1) + 1 /\ m - 1 < n - 1
          BY <2>6, <3>1, <4>5
        <5>2. t[m] = s[m - 1]
          BY <2>7, <5>1
        <5> QED
          BY <3>2, <4>1, <4>2, <5>1, <5>2
      <4> QED
        BY <2>6, <3>1, <4>3, <4>4, <4>5
    <3> QED
      BY <2>6, <3>1, <3>4, <3>5, <3>6
  <2>10. Same(f, t)
    <3> SUFFICES ASSUME NEW x
                 PROVE  (\E n \in DOMAIN f : f[n] = x) <=> (\E n \in DOMAIN t : t[n] = x)
      OBVIOUS
    <3>1. (\E n \in DOMAIN f : f[n] = x) <=> (\E n \in DOMAIN d : d[n] = x) \/ x = r
      <4>1. DOMAIN f = DOMAIN d \cup {Len(d) + 1} /\ \A n \in DOMAIN d : f[n] = d[n]
        BY <2>1
      <4> QED
        BY <2>1, <4>1, Zenon
    <3>2. (\E n \in DOMAIN d : d[n] = x) <=> (\E n \in DOMAIN s : s[n] = x)
      BY <2>5
    <3>3. (\E n \in DOMAIN t : t[n] = x) <=> (\E n \in DOMAIN s : s[n] = x) \/ x = r
      <4>1. DOMAIN t = 1..Len(s) + 1 /\ DOMAIN s = 1..Len(s)
        BY <2>5, <2>7
      <4>2. ASSUME NEW n \in DOMAIN t PROVE t[n] = r \/ \E m \in DOMAIN s : s[m] = t[n]
        <5>1. CASE n < k
          BY <2>6, <2>7, <4>1, <5>1
        <5>2. CASE n = k
          BY <2>7, <5>2
        <5>3. CASE n > k
          <6>1. n - 1 \in k..Len(s) /\ n - 1 \in DOMAIN s /\ n = (n - 1) + 1
            BY <2>6, <4>1, <5>3
          <6> QED
            BY <2>7, <6>1
        <5> QED
          BY <2>6, <4>1, <5>1, <5>2, <5>3
      <4>3. ASSUME NEW m \in DOMAIN s PROVE \E n \in DOMAIN t : t[n] = s[m]
        <5>1. CASE m < k
          BY <2>6, <2>7, <4>1, <5>1
        <5>2. CASE m >= k
          <6>1. m \in k..Len(s) /\ m + 1 \in DOMAIN t
            BY <2>6, <4>1, <5>2
          <6> QED
            BY <2>7, <6>1
        <5> QED
          BY <2>6, <4>1, <5>1, <5>2
      <4>4. k \in DOMAIN t /\ t[k] = r
        BY <2>6, <2>7, <4>1
      <4> QED
        BY <4>2, <4>3, <4>4
    <3> QED
      BY <3>1, <3>2, <3>3
  <2> QED
    BY <2>7, <2>9, <2>10
<1> HIDE DEF P
<1>3. e \in P
  BY <1>1, <1>2, Sorting!SeqInduction
<1> QED
  BY <1>3, SortedIsFolded DEF P

-----------------------------------------------------------------------------
(* Finding parts again.                                                    *)

\* The boundaries among the first n cells.
Boundaries(row, n) == {m \in 1..n : row[m] = Boundary}

\* A row ends with a boundary, and has one more of them than pieces.
LEMMA CountBoundaries ==
  ASSUME NEW p \in Pieces
  PROVE  LET n == Len(Laid(p)) IN
         /\ n \in Nat \ {0} /\ Laid(p)[n] = Boundary
         /\ IsFiniteSet(Boundaries(Laid(p), n)) /\ Cardinality(Boundaries(Laid(p), n)) = Len(p) + 1
<1> DEFINE Good(q, row) == /\ Len(row) \in Nat \ {0} /\ row[Len(row)] = Boundary
                           /\ IsFiniteSet(Boundaries(row, Len(row)))
                           /\ Cardinality(Boundaries(row, Len(row))) = Len(q) + 1
           P == {q \in Pieces : Good(q, Laid(q))}
<1>1. <<>> \in P
  <2>1. <<>> \in Pieces /\ <<>> \in Seq(Cells)
    BY DEF Pieces
  <2>2. Laid(<<>>) = <<Boundary>>
    BY <2>1, LaidAppend
  <2>3. Boundaries(<<Boundary>>, 1) = {1}
    BY DEF Boundaries
  <2>4. Cardinality({1}) = 1 /\ IsFiniteSet({1})
    BY FS_Singleton
  <2>5. Len(<<Boundary>>) = 1 /\ <<Boundary>>[1] = Boundary /\ Len(<<>>) + 1 = 1
    OBVIOUS
  <2>6. Good(<<>>, <<Boundary>>)
    BY <2>3, <2>4, <2>5
  <2> QED
    BY <2>1, <2>2, <2>6
<1>2. ASSUME NEW q \in Seq(Seq(Cells)), NEW x \in Seq(Cells), q \in P PROVE Append(q, x) \in P
  <2> DEFINE row == Laid(q)
             new == Laid(Append(q, x))
             n == Len(row)
             k == Len(row) + Len(x) + 1
  <2>1. q \in Pieces /\ Append(q, x) \in Pieces /\ Len(Append(q, x)) = Len(q) + 1 /\ Len(q) \in Nat
    BY DEF Pieces
  <2>2. row \in Rows /\ new = row \o x \o <<Boundary>>
    BY <2>1, LaidType, LaidAppend
  <2>3. Good(q, row)
    BY <1>2
  <2> HIDE DEF row, new, P
  <2>4. x \in Rows /\ \A m \in 1..Len(x) : x[m] # Boundary
    <3>1. Boundary \notin Cells
      BY DEF Boundary, Cells, Anchors, Cell
    <3>2. \A m \in 1..Len(x) : x[m] \in Cells
      OBVIOUS
    <3> QED
      BY <3>1, <3>2 DEF Rows
  <2>5. /\ Len(new) = k /\ new[k] = Boundary
        /\ \A m \in 1..n : new[m] = row[m]
        /\ \A m \in 1..Len(x) : new[n + m] = x[m]
    BY <2>2, <2>4 DEF Rows
  <2>6. Len(x) \in Nat /\ n \in Nat \ {0}
    BY <2>3
  <2>7. Boundaries(new, k) = Boundaries(row, n) \cup {k}
    <3>1. ASSUME NEW m \in 1..k PROVE new[m] = Boundary <=> (m \in 1..n /\ row[m] = Boundary) \/ m = k
      <4>1. CASE m \in 1..n
        BY <2>5, <2>6, <4>1
      <4>2. CASE m = k
        BY <2>5, <4>2
      <4>3. CASE m > n /\ m < k
        <5>1. m - n \in 1..Len(x) /\ m = n + (m - n)
          BY <2>6, <4>3
        <5>2. new[m] = x[m - n]
          BY <2>5, <5>1
        <5> QED
          BY <2>4, <2>6, <4>3, <5>1, <5>2
      <4> QED
        BY <2>6, <4>1, <4>2, <4>3
    <3>2. 1..n \subseteq 1..k /\ k \in 1..k
      BY <2>6
    <3> QED
      BY <3>1, <3>2 DEF Boundaries
  <2>8. k \notin Boundaries(row, n)
    BY <2>6 DEF Boundaries
  <2>9. IsFiniteSet(Boundaries(row, n)) /\ Cardinality(Boundaries(row, n)) = Len(q) + 1
    BY <2>3
  <2>10. /\ IsFiniteSet(Boundaries(row, n) \cup {k})
         /\ Cardinality(Boundaries(row, n) \cup {k}) = Cardinality(Boundaries(row, n)) + 1
    BY <2>8, <2>9, FS_AddElement
  <2>11. Good(Append(q, x), new)
    <3>1. Len(new) \in Nat \ {0} /\ new[Len(new)] = Boundary
      BY <2>5, <2>6
    <3>2. Boundaries(new, Len(new)) = Boundaries(row, n) \cup {k}
      BY <2>5, <2>7
    <3> HIDE DEF n, k
    <3> QED
      BY <2>1, <2>9, <2>10, <3>1, <3>2
  <2> QED
    BY <2>1, <2>11 DEF P, new
<1> HIDE DEF P
<1>3. p \in P
  BY <1>1, <1>2, Laying!SeqInduction DEF Pieces
<1> QED
  BY <1>3 DEF P

\* One boundary lies between two pieces.
LEMMA OffsetNext ==
  ASSUME NEW p \in Pieces, NEW i \in 1..Len(p)
  PROVE  Offset(p, i + 1) = Offset(p, i) + Len(p[i]) + 1
<1>1. p \in Seq(Seq(Cells)) /\ Len(p) \in Nat /\ p[i] \in Seq(Cells) /\ i \in Nat \ {0}
  BY DEF Pieces
<1>2. SubSeq(p, 1, i - 1) \in Pieces
  BY LaidAround
<1>3. SubSeq(p, 1, i) = Append(SubSeq(p, 1, i - 1), p[i])
  <2>1. i \in 1..Len(p) + 1 /\ i <= Len(p)
    BY <1>1
  <2> QED
    BY <1>1, <2>1, Laying!CutTwo
<1>4. Laid(SubSeq(p, 1, i)) = Laid(SubSeq(p, 1, i - 1)) \o p[i] \o <<Boundary>>
  BY <1>1, <1>2, <1>3, LaidAppend
<1>5. Laid(SubSeq(p, 1, i - 1)) \in Rows
  BY <1>2, LaidType
<1>6. \A row \in Rows, x \in Seq(Cells) : Len(row \o x \o <<Boundary>>) = Len(row) + Len(x) + 1
  BY DEF Rows
<1>7. Len(Laid(SubSeq(p, 1, i))) = Len(Laid(SubSeq(p, 1, i - 1))) + Len(p[i]) + 1
  BY <1>1, <1>4, <1>5, <1>6
<1>8. i + 1 - 1 = i
  BY <1>1
<1>9. /\ Offset(p, i + 1) = Len(Laid(SubSeq(p, 1, i + 1 - 1)))
      /\ Offset(p, i) = Len(Laid(SubSeq(p, 1, i - 1)))
  BY DEF Offset
<1> QED
  BY <1>7, <1>8, <1>9, Zenon

\* The i-th boundary is where part i starts, and no other place is.
LEMMA BoundaryIs ==
  ASSUME NEW p \in Pieces, NEW i \in 1..Len(p) + 1
  PROVE  /\ Offset(p, i) \in DOMAIN Laid(p) /\ Laid(p)[Offset(p, i)] = Boundary
         /\ Cardinality(Boundaries(Laid(p), Offset(p, i))) = i
         /\ \A n \in DOMAIN Laid(p) :
              Laid(p)[n] = Boundary /\ Cardinality(Boundaries(Laid(p), n)) = i => n = Offset(p, i)
<1> DEFINE a == SubSeq(p, 1, i - 1)
           b == SubSeq(p, i, Len(p))
           row == Laid(p)
           n == Offset(p, i)
<1>1. p \in Seq(Seq(Cells)) /\ Len(p) \in Nat /\ i \in Nat \ {0}
  BY DEF Pieces
<1>2. a \in Pieces /\ b \in Pieces /\ Len(a) = i - 1 /\ p = a \o b
  BY <1>1, Laying!CutTwo DEF Pieces
<1>3. n = Len(Laid(a))
  BY DEF Offset
<1> HIDE DEF a, b, n
<1>4. row = Laid(a) \o Rest(b) /\ Laid(a) \in Rows /\ Rest(b) \in Rows
  BY <1>2, LaidConcat, LaidType
<1>5. /\ n \in Nat \ {0} /\ Laid(a)[n] = Boundary
      /\ IsFiniteSet(Boundaries(Laid(a), n)) /\ Cardinality(Boundaries(Laid(a), n)) = Len(a) + 1
  BY <1>2, <1>3, CountBoundaries
<1> HIDE DEF row
<1>6. n \in DOMAIN row /\ \A m \in 1..n : row[m] = Laid(a)[m]
  BY <1>3, <1>4, <1>5 DEF Rows
<1>7. Boundaries(row, n) = Boundaries(Laid(a), n)
  BY <1>6 DEF Boundaries
<1>8. row[n] = Boundary /\ IsFiniteSet(Boundaries(row, n)) /\ Cardinality(Boundaries(row, n)) = i
  BY <1>1, <1>2, <1>5, <1>6, <1>7
<1>9. ASSUME NEW m \in DOMAIN row, row[m] = Boundary, Cardinality(Boundaries(row, m)) = i
      PROVE  m = n
  <2>1. m \in Nat \ {0} /\ IsFiniteSet(Boundaries(row, m))
    <3>1. m \in Nat \ {0}
      BY <1>4 DEF Rows
    <3>2. IsFiniteSet(1..m) /\ Boundaries(row, m) \subseteq 1..m
      BY <3>1, FS_Interval DEF Boundaries
    <3> QED
      BY <3>1, <3>2, FS_Subset
  <2>2. CASE m < n
    <3>1. Boundaries(row, m) \subseteq Boundaries(row, n)
      BY <2>1, <1>5, <2>2 DEF Boundaries
    <3>2. n \in Boundaries(row, n) /\ n \notin Boundaries(row, m)
      BY <1>5, <1>8, <2>1, <2>2 DEF Boundaries
    <3>3. Boundaries(row, m) = Boundaries(row, n)
      BY <1>8, <1>9, <3>1, FS_Subset
    <3> QED
      BY <3>2, <3>3
  <2>3. CASE n < m
    <3>1. Boundaries(row, n) \subseteq Boundaries(row, m)
      BY <2>1, <1>5, <2>3 DEF Boundaries
    <3>2. m \in Boundaries(row, m) /\ m \notin Boundaries(row, n)
      BY <1>5, <1>9, <2>1, <2>3 DEF Boundaries
    <3>3. Boundaries(row, n) = Boundaries(row, m)
      BY <1>8, <1>9, <2>1, <3>1, FS_Subset
    <3> QED
      BY <3>2, <3>3
  <2> QED
    BY <1>5, <2>1, <2>2, <2>3
<1> QED
  BY <1>6, <1>8, <1>9 DEF row, n

\* A part is found again between its boundaries.
LEMMA SegmentIs ==
  ASSUME NEW p \in Pieces, NEW i \in 1..Len(p)
  PROVE  Segment(Laid(p), i) = p[i]
<1> DEFINE row == Laid(p)
           At(k) == CHOOSE n \in DOMAIN row :
             row[n] = Boundary /\ Cardinality({m \in 1..n : row[m] = Boundary}) = k
<1>1. Len(p) \in Nat /\ i \in 1..Len(p) + 1 /\ i + 1 \in 1..Len(p) + 1
  BY DEF Pieces
<1>2. ASSUME NEW k \in 1..Len(p) + 1 PROVE At(k) = Offset(p, k)
  <2>1. /\ Offset(p, k) \in DOMAIN row /\ row[Offset(p, k)] = Boundary
        /\ Cardinality({m \in 1..Offset(p, k) : row[m] = Boundary}) = k
        /\ \A n \in DOMAIN row :
             row[n] = Boundary /\ Cardinality({m \in 1..n : row[m] = Boundary}) = k => n = Offset(p, k)
    BY BoundaryIs DEF Boundaries
  <2> HIDE DEF row
  <2> QED
    BY <2>1
<1>3. Segment(row, i) = SubSeq(row, At(i) + 1, At(i + 1) - 1)
  BY DEF Segment
<1> HIDE DEF At, row
<1>4. At(i) = Offset(p, i) /\ At(i + 1) = Offset(p, i) + Len(p[i]) + 1
  BY <1>1, <1>2, OffsetNext
<1>5. Offset(p, i) \in Nat /\ Len(p[i]) \in Nat
  BY <1>1, OffsetsRise
<1>6. At(i + 1) - 1 = Offset(p, i) + Len(p[i])
  BY <1>4, <1>5
<1>7. SubSeq(row, Offset(p, i) + 1, Offset(p, i) + Len(p[i])) = p[i]
  BY LaidCut DEF row
<1> QED
  BY <1>3, <1>4, <1>6, <1>7 DEF row

-----------------------------------------------------------------------------
(* The queue.                                                              *)

\* The replacement of part i after either way of cleaning it.
HtmlOf(i) ==
  [start |-> Start(Parts, i), end |-> End(Parts, i),
   cells |-> CleanHtml(Parts[i].cells, eff, message.unsubscribe)]

TextOf(i) ==
  [start |-> Start(Parts, i), end |-> End(Parts, i), cells |-> CleanText(Parts[i].cells, eff)]

Candidates == {HtmlOf(i) : i \in 1..Len(Parts)} \cup {TextOf(i) : i \in 1..Len(Parts)}

Became(r, i) ==
  \/ eff.clean_html /\ r = HtmlOf(i)
  \/ eff.clean_text_plain /\ r = TextOf(i)

\* Replacements are those of different parts, each of them processed.
Assigned(from) ==
  /\ from \in [DOMAIN replacements -> processed]
  /\ \A m, n \in DOMAIN replacements : from[m] = from[n] => m = n
  /\ \A n \in DOMAIN replacements : Became(replacements[n], from[n])

\* The three loops of clean_message, in whatever order they reach the parts,
\* queue one replacement at most for each, of its whole range and nothing else
\* (mime.rs:112-116, 150, 172, 229): splices never overlap by being repeated.
OncePerPart == \E from \in [DOMAIN replacements -> 1..Len(Parts)] : Assigned(from)

Unresolved == stage \in {"html", "recover", "plain", "splice", "failed"}

Inv ==
  /\ config \in Configs
  /\ stage \in Stages /\ next \in Nat \ {0}
  /\ replacements \in Seq(Candidates)
  /\ processed \subseteq 1..Len(Parts)
  /\ stage = "html" => \A i \in processed : i < next
  /\ replacements # <<>> => eff.mode = "Enforce"
  /\ Unresolved => ~result.modified
  /\ stage = "done" => result.modified = (replacements # <<>>)
  /\ OncePerPart

-----------------------------------------------------------------------------
(* One step.                                                               *)

\* Nothing is queued at first.
LEMMA InitInv == Init => Inv
<1> SUFFICES ASSUME Init PROVE Inv
  OBVIOUS
<1>1. replacements = <<>> /\ replacements \in Seq(Candidates) /\ DOMAIN replacements = {}
  BY DEF Init
<1>2. OncePerPart
  <2>1. \A f \in [{} -> processed] : Assigned(f)
    BY <1>1 DEF Assigned
  <2>2. [n \in {} |-> 1] \in [{} -> processed] /\ [n \in {} |-> 1] \in [{} -> 1..Len(Parts)]
    OBVIOUS
  <2> QED
    BY <1>1, <2>1, <2>2 DEF OncePerPart
<1> QED
  BY <1>1, <1>2 DEF Init, Inv, Stages, Unresolved, NoResult

\* While the message and its configuration stay, so does what a part becomes.
LEMMA SameCleaning ==
  ASSUME config' = config, message' = message
  PROVE  /\ eff' = eff /\ Parts' = Parts
         /\ \A i : HtmlOf(i)' = HtmlOf(i) /\ TextOf(i)' = TextOf(i)
         /\ Candidates' = Candidates
         /\ \A r, i : Became(r, i)' <=> Became(r, i)
<1>1. eff' = eff /\ Parts' = Parts
  BY DEF eff, Parts
<1>2. \A i : HtmlOf(i)' = HtmlOf(i) /\ TextOf(i)' = TextOf(i)
  BY <1>1 DEF HtmlOf, TextOf
<1> QED
  BY <1>1, <1>2 DEF Candidates, Became

\* A step that queues nothing keeps what is known of the queue.
LEMMA QueueKept ==
  ASSUME Inv, config' = config, message' = message,
         replacements' = replacements, processed' = processed
  PROVE  OncePerPart'
<1>1. PICK from \in [DOMAIN replacements -> 1..Len(Parts)] : Assigned(from)
  BY DEF Inv, OncePerPart
<1>2. Assigned(from)'
  BY <1>1, SameCleaning DEF Assigned
<1> QED
  BY <1>1, <1>2, SameCleaning DEF OncePerPart

\* A part that was not processed can be queued.
LEMMA QueueOne ==
  ASSUME Inv, config' = config, message' = message, next \in 1..Len(Parts), next \notin processed,
         NEW r \in Candidates, Became(r, next),
         replacements' = Append(replacements, r), processed' = processed \cup {next}
  PROVE  OncePerPart' /\ replacements' \in Seq(Candidates)'
<1> DEFINE k == Len(replacements)
<1>1. PICK from \in [DOMAIN replacements -> 1..Len(Parts)] : Assigned(from)
  BY DEF Inv, OncePerPart
<1>2. /\ k \in Nat /\ DOMAIN replacements = 1..k /\ DOMAIN replacements' = 1..k + 1
      /\ \A n \in 1..k : replacements'[n] = replacements[n]
      /\ replacements'[k + 1] = r
      /\ replacements' \in Seq(Candidates)
  BY DEF Inv
<1>3. PICK to : to = [n \in 1..k + 1 |-> IF n = k + 1 THEN next ELSE from[n]]
  OBVIOUS
<1>4. \A n \in 1..k : from[n] \in processed
  BY <1>1, <1>2 DEF Assigned
<1>5. /\ to[k + 1] = next /\ \A n \in 1..k : to[n] = from[n]
      /\ to \in [1..k + 1 -> 1..Len(Parts)] /\ to \in [1..k + 1 -> processed']
  BY <1>1, <1>2, <1>4, <1>3
<1>6. ASSUME NEW m \in 1..k + 1, NEW n \in 1..k + 1, to[m] = to[n] PROVE m = n
  <2>1. m = k + 1 \/ m \in 1..k
    BY <1>2
  <2>2. n = k + 1 \/ n \in 1..k
    BY <1>2
  <2> QED
    BY <1>1, <1>2, <1>4, <1>5, <1>6, <2>1, <2>2 DEF Assigned
<1>7. ASSUME NEW n \in 1..k + 1
      PROVE  Became(replacements'[n], to[n])
  <2>1. CASE n = k + 1
    BY <2>1, <1>2, <1>5
  <2>2. CASE n \in 1..k
    BY <2>2, <1>1, <1>2, <1>5 DEF Assigned
  <2> QED
    BY <2>1, <2>2, <1>2
<1>8. Assigned(to)'
  BY <1>2, <1>5, <1>6, <1>7, SameCleaning DEF Assigned
<1>9. Parts' = Parts
  BY SameCleaning
<1> QED
  BY <1>2, <1>5, <1>8, <1>9, SameCleaning DEF OncePerPart

-----------------------------------------------------------------------------

\* What both kinds of cleaning a part come to.
LEMMA QueueInv ==
  ASSUME Inv, Visit, next \in 1..Len(Parts), next \notin processed, NEW cells, NEW changed,
         Became([start |-> Start(Parts, next), end |-> End(Parts, next), cells |-> cells], next),
         Queue(next, cells, changed)
  PROVE  Inv'
<1> DEFINE r == [start |-> Start(Parts, next), end |-> End(Parts, next), cells |-> cells]
<1>1. /\ config' = config /\ message' = message /\ stage' = stage /\ result' = result
      /\ next' = next + 1 /\ next' \in Nat \ {0} /\ next < next'
  BY DEF Visit, Inv
<1>2. stage' # "done" /\ stage' \in Stages
  BY <1>1 DEF Visit, Stages
<1>3. r \in Candidates /\ Became(r, next)
  BY DEF Candidates, Became
<1> HIDE DEF r
<1>4. CASE eff.mode = "Enforce" /\ replacements' = Append(replacements, r)
             /\ processed' = processed \cup {next}
  <2>1. OncePerPart' /\ replacements' \in Seq(Candidates)'
    BY <1>1, <1>3, <1>4, QueueOne
  <2>2. processed' \subseteq 1..Len(Parts') /\ \A i \in processed' : stage = "html" => i < next'
    BY <1>1, <1>4, SameCleaning DEF Inv
  <2>3. eff'.mode = "Enforce"
    BY <1>1, <1>4, SameCleaning
  <2> QED
    BY <1>1, <1>2, <2>1, <2>2, <2>3 DEF Inv, Unresolved
<1>5. CASE replacements' = replacements /\ processed' = processed
  <2>1. OncePerPart'
    BY <1>1, <1>5, QueueKept
  <2>2. eff' = eff /\ Parts' = Parts /\ Candidates' = Candidates
    BY <1>1, SameCleaning
  <2> QED
    BY <1>1, <1>2, <1>5, <2>1, <2>2 DEF Inv, Unresolved
<1> QED
  BY <1>4, <1>5 DEF Queue, r

\* A part is queued once at most, by every step.
LEMMA NextInv == Inv /\ [Next]_vars => Inv'
<1> SUFFICES ASSUME Inv, [Next]_vars PROVE Inv'
  OBVIOUS
<1>1. CASE /\ config' = config /\ message' = message /\ result' = result
           /\ replacements' = replacements /\ processed' = processed
           /\ stage' \in Stages \ {"done"} \/ stage' = stage
           /\ next' \in Nat \ {0}
           /\ stage' = "html" => stage = "html" /\ next <= next'
           /\ ~result.modified \/ stage' = stage
  <2>1. OncePerPart'
    BY <1>1, QueueKept
  <2>2. eff' = eff /\ Parts' = Parts /\ Candidates' = Candidates
    BY <1>1, SameCleaning
  <2>3. stage' = "html" => \A i \in processed' : i < next'
    BY <1>1 DEF Inv
  <2>4. stage' \in Stages /\ (stage' = "done" => stage = "done")
    BY <1>1 DEF Inv
  <2> QED
    BY <1>1, <2>1, <2>2, <2>3, <2>4 DEF Inv, Unresolved
<1>2. CASE PassOver \/ SkipOversized
  BY <1>1, <1>2 DEF PassOver, SkipOversized, Visit, Inv, Unresolved, Stages
<1>3. CASE CleanHtmlPart
  <2>1. Visit /\ stage \in {"html", "recover"} /\ Takes(next) /\ next \in 1..Len(Parts)
    BY <1>3 DEF CleanHtmlPart, Visit, Inv
  <2>2. next \notin processed /\ eff.clean_html
    <3>1. CASE stage = "html"
      BY <3>1, <2>1 DEF Inv, Takes, IsHtmlBody
    <3>2. CASE stage = "recover"
      BY <3>2, <2>1 DEF Takes, IsUndecodedHtml
    <3> QED
      BY <2>1, <3>1, <3>2
  <2> QED
    BY <1>3, <2>1, <2>2, QueueInv DEF CleanHtmlPart, HtmlOf, Became
<1>4. CASE CleanPlainPart
  <2>1. Visit /\ stage = "plain" /\ Takes(next) /\ next \in 1..Len(Parts)
    BY <1>4 DEF CleanPlainPart, Visit, Inv
  <2>2. next \notin processed /\ eff.clean_text_plain
    BY <2>1 DEF Takes, IsPlainText
  <2> QED
    BY <1>4, <2>1, <2>2, QueueInv DEF CleanPlainPart, TextOf, Became
<1>5. CASE RewriterFails
  BY <1>1, <1>5 DEF RewriterFails, Inv, Unresolved, Stages
<1>6. CASE EndStage
  BY <1>1, <1>6 DEF EndStage, Inv, Unresolved, Stages
<1>7. CASE Finish
  <2>1. /\ config' = config /\ message' = message /\ replacements' = replacements
        /\ processed' = processed /\ next' = next
        /\ stage' = "done" /\ result'.modified = (replacements' # <<>>)
    BY <1>7 DEF Finish, Modified
  <2>2. OncePerPart'
    BY <2>1, QueueKept
  <2>3. eff' = eff /\ Parts' = Parts /\ Candidates' = Candidates
    BY <2>1, SameCleaning
  <2> QED
    BY <2>1, <2>2, <2>3 DEF Inv, Unresolved, Stages
<1>8. CASE UNCHANGED vars
  BY <1>1, <1>8 DEF vars, Inv, Unresolved, Stages
<1> QED
  BY <1>2, <1>3, <1>4, <1>5, <1>6, <1>7, <1>8 DEF Next

\* No part has two replacements in any state.
LEMMA Invariance == Spec => []Inv
  BY InitInv, NextInv, PTL DEF Spec

\* One replacement at most for each part, and of that part.
THEOREM QueueFromParts == Spec => []OncePerPart
<1>1. Inv => OncePerPart
  BY DEF Inv
<1> QED
  BY <1>1, Invariance, PTL

-----------------------------------------------------------------------------
(* Links.                                                                  *)

\* The user's settings leave a sensitive sender's links alone.
Untouchable ==
  /\ IsProtected(config, message.sender)
  /\ Matching(config, message.sender) = <<>>
  /\ config.blocked_domains = {}

\* What became of the links among some cells, one by one.
LinksAreSafe(before, after) ==
  /\ DOMAIN after = DOMAIN before
  /\ \A k \in DOMAIN before :
       LET was == before[k].url  now == after[k].url IN
       before[k].tag = "a" =>
         /\ now.host \in config.blocked_domains => IsSensitive(was, message.unsubscribe)
         /\ IsSensitive(was, message.unsubscribe) => now = was
         /\ Untouchable => now = was

\* In every HTML part that is replaced, what links to a blocked domain is an
\* unsubscribe link; unsubscribe links are as they were; and a sensitive
\* sender's links are all as they were, if no policy and no block-list say
\* otherwise, no plain text being replaced at all (html.rs:137-158, 301-345;
\* config.rs:683-721).
QueuedLinksAreSafe ==
  \A n \in DOMAIN replacements : \E i \in 1..Len(Parts) :
    \/ /\ replacements[n] = HtmlOf(i)
       /\ LinksAreSafe(Remaining(Parts[i].cells, eff), replacements[n].cells)
    \/ replacements[n] = TextOf(i) /\ ~Untouchable

\* Neither the protection nor a policy changes the block-list, and protection
\* alone switches the link handlers and the plain-text pass off.
LEMMA EffectiveConfig ==
  ASSUME NEW c \in Configuration, NEW s
  PROVE  /\ EffectiveForSender(c, s).blocked_domains = c.blocked_domains
         /\ IsProtected(c, s) /\ Matching(c, s) = <<>> =>
              LET e == EffectiveForSender(c, s) IN
              ~e.clean_query_params /\ ~e.unwrap_known_redirects /\ ~e.clean_text_plain
<1>1. /\ Protected(c).blocked_domains = c.blocked_domains
      /\ ~Protected(c).clean_query_params /\ ~Protected(c).unwrap_known_redirects
      /\ ~Protected(c).clean_text_plain
      /\ {"mode", "clean_html", "remove_pixels", "clean_query_params", "unwrap_known_redirects",
          "blocked_domains"} \subseteq DOMAIN Protected(c)
  BY DEF Configuration, Protected
<1>2. ASSUME NEW b \in {c, Protected(c)}, NEW p
      PROVE  Overridden(b, p).blocked_domains = b.blocked_domains
  <2>1. "blocked_domains" \in DOMAIN b
    BY <1>1 DEF Configuration
  <2> QED
    BY <2>1 DEF Overridden
<1>3. EffectiveForSender(c, s).blocked_domains = c.blocked_domains
  BY <1>1, <1>2 DEF EffectiveForSender
<1> QED
  BY <1>1, <1>3 DEF EffectiveForSender

\* A link that comes out blocked was sensitive, and so untouched.
LEMMA NoBlockedLink ==
  ASSUME NEW cfg, NEW u, NEW sensitive, NoHost \notin cfg.blocked_domains
  PROVE  LET v == ProcessHref(u, cfg, sensitive) IN
         /\ v.host \in cfg.blocked_domains => IsSensitive(u, sensitive)
         /\ IsSensitive(u, sensitive) => v = u
  BY DEF ProcessHref, Rewritten, Blank

\* Counted as no change is what stays the same.
LEMMA NoneIsSame ==
  ASSUME NEW cfg, NEW u, NEW sensitive, HrefChange(u, cfg, sensitive) = "none"
  PROVE  ProcessHref(u, cfg, sensitive) = u
  BY DEF HrefChange, ProcessHref

\* A cleaned cell's link is at a blocked host only if it was sensitive, and a
\* sensitive link, or any where links are not handled, stays as it was.
LEMMA CellIsSafe ==
  ASSUME NEW cfg, NEW c, NEW sensitive, c.tag = "a", NoHost \notin cfg.blocked_domains
  PROVE  LET now == CleanCell(c, cfg, sensitive).url IN
         /\ now.host \in cfg.blocked_domains => IsSensitive(c.url, sensitive)
         /\ IsSensitive(c.url, sensitive) => now = c.url
         /\ ~HandlesLinks(cfg) => now = c.url
<1>1. ~IsBeacon(c, cfg)
  BY DEF IsBeacon
<1>2. CASE ~HandlesLinks(cfg)
  <2>1. CleanCell(c, cfg, sensitive).url = c.url /\ cfg.blocked_domains = {}
    BY <1>1, <1>2 DEF CleanCell, Change, Cell, HandlesLinks
  <2> QED
    BY <2>1
<1>3. CASE HandlesLinks(cfg)
  <2>1. CleanCell(c, cfg, sensitive).url = ProcessHref(c.url, cfg, sensitive)
    BY <1>1, <1>3, NoneIsSame DEF CleanCell, Change, Cell
  <2> QED
    BY <1>3, <2>1, NoBlockedLink
<1> QED
  BY <1>2, <1>3

\* So the cells of a cleaned HTML body are safe against those it had.
LEMMA HtmlIsSafe ==
  ASSUME config \in Configs, NEW i
  PROVE  LinksAreSafe(Remaining(Parts[i].cells, eff), HtmlOf(i).cells)
<1> DEFINE before == Remaining(Parts[i].cells, eff)
           after == HtmlOf(i).cells
<1>1. /\ DOMAIN after = DOMAIN before
      /\ \A k \in DOMAIN before : after[k] = CleanCell(before[k], eff, message.unsubscribe)
  BY DEF HtmlOf, CleanHtml, Mapped
<1>2. /\ config \in Configuration /\ eff.blocked_domains = config.blocked_domains
      /\ NoHost \notin eff.blocked_domains
      /\ Untouchable => ~HandlesLinks(eff)
  BY ConfigAssumption, RulesAreAboutLinks, EffectiveConfig
  DEF eff, Configuration, Untouchable, HandlesLinks
<1> HIDE DEF before, after
<1>3. LinksAreSafe(before, after)
  BY <1>1, <1>2, CellIsSafe DEF LinksAreSafe
<1> QED
  BY <1>3 DEF before, after

\* The links of everything that is queued are safe, in every state.
THEOREM LinksSafe == Spec => []QueuedLinksAreSafe
<1>1. Inv => QueuedLinksAreSafe
  <2> SUFFICES ASSUME Inv, NEW n \in DOMAIN replacements
               PROVE  \E i \in 1..Len(Parts) :
                        \/ /\ replacements[n] = HtmlOf(i)
                           /\ LinksAreSafe(Remaining(Parts[i].cells, eff), replacements[n].cells)
                        \/ replacements[n] = TextOf(i) /\ ~Untouchable
    BY DEF QueuedLinksAreSafe
  <2>1. PICK from \in [DOMAIN replacements -> 1..Len(Parts)] : Became(replacements[n], from[n])
    BY DEF Inv, OncePerPart, Assigned
  <2>2. from[n] \in 1..Len(Parts)
    BY <2>1
  <2>3. CASE replacements[n] = HtmlOf(from[n])
    BY <2>2, <2>3, HtmlIsSafe DEF Inv
  <2>4. CASE eff.clean_text_plain /\ replacements[n] = TextOf(from[n])
    <3>1. ~Untouchable
      BY <2>4, ConfigAssumption, EffectiveConfig DEF Inv, eff, Untouchable
    <3> QED
      BY <2>2, <2>4, <3>1
  <2> QED
    BY <2>1, <2>3, <2>4 DEF Became
<1> QED
  BY <1>1, Invariance, PTL

-----------------------------------------------------------------------------
(* The result.                                                             *)

\* A result is modified only in enforcing mode; so the mail of a sender whose
\* first policy says no_modify and names no mode is delivered as it came,
\* whatever other settings it or the configuration makes (mime.rs:144, 255;
\* config.rs:694-701).
OnlyEnforcedIsModified ==
  result.modified =>
    /\ eff.mode = "Enforce"
    /\ LET policies == Matching(config, message.sender) IN
       policies # <<>> => ~(Head(policies).no_modify /\ Head(policies).mode = {})

\* Report-only mode, and no_modify without a mode, keep every message as it is.
THEOREM ReportOnlyKeeps == Spec => []OnlyEnforcedIsModified
<1>1. Inv => OnlyEnforcedIsModified
  <2> SUFFICES ASSUME Inv, result.modified PROVE OnlyEnforcedIsModified
    BY DEF OnlyEnforcedIsModified
  <2>1. eff.mode = "Enforce"
    BY DEF Inv, Unresolved, Stages
  <2>2. ASSUME Matching(config, message.sender) # <<>>,
               Head(Matching(config, message.sender)).no_modify,
               Head(Matching(config, message.sender)).mode = {}
        PROVE  eff.mode = "ReportOnly"
    <3> DEFINE base == IF IsProtected(config, message.sender) THEN Protected(config) ELSE config
               p == Head(Matching(config, message.sender))
    <3>1. "mode" \in DOMAIN base /\ DOMAIN base = DOMAIN config
      BY ConfigAssumption DEF Inv, Protected, Configuration
    <3>2. eff = Overridden(base, p)
      BY <2>2 DEF eff, EffectiveForSender
    <3> HIDE DEF base, p
    <3>3. p.no_modify /\ p.mode = {}
      BY <2>2 DEF p
    <3>4. Override("ReportOnly", p.mode) = "ReportOnly"
      BY <3>3 DEF Override
    <3> QED
      BY <3>1, <3>2, <3>3, <3>4 DEF Overridden
  <2> QED
    BY <2>1, <2>2 DEF OnlyEnforcedIsModified
<1> QED
  BY <1>1, Invariance, PTL

-----------------------------------------------------------------------------
(* What cells become.                                                      *)

\* Selecting from what a message is made of.
LEMMA SelectBridge == \A s, T : Select(s, T) = Laying!Select(s, T)
  BY DEF Select, Laying!Select

\* What a link leads to is a link.
LEMMA OnlyLinks ==
  ASSUME NEW u \in Link, NEW d \in {u.dest, Resolved[u.host]}, d # <<>>
  PROVE  Head(d) \in Link /\ Head(d) \in ToSet(d)
<1>1. d \in Seq(Plain)
  BY ResolverAssumption DEF Link, AtMostOne
<1>2. 1 \in DOMAIN d /\ Head(d) = d[1] /\ Head(d) \in Plain
  BY <1>1
<1>3. Plain \subseteq Link
  <2>1. <<>> \in AtMostOne
    BY DEF AtMostOne
  <2> QED
    BY <2>1 DEF Plain, Link
<1> QED
  BY <1>2, <1>3 DEF ToSet

\* What links become are links.
LEMMA CleanedIsLink ==
  ASSUME NEW u \in Link, NEW cfg
  PROVE  CleanUrl(u, cfg) \in Link /\ UnwrapRedirectUrl(u, cfg) \in Link
<1>1. ASSUME NEW v \in Link PROVE CleanUrl(v, cfg) \in Link
  <2> DEFINE T == {p \in Param : ~IsTracker(v.host, p, cfg)}
  <2>1. v.query \in Seq(Param)
    BY DEF Link
  <2>2. Select(v.query, T) \in Seq(Param \cap T)
    BY <2>1, SelectBridge, Laying!SelectType
  <2>3. Select(v.query, T) \in Seq(Param)
    BY <2>2
  <2> HIDE DEF T
  <2>4. [v EXCEPT !.query = Select(v.query, T)] \in Link
    BY <2>3 DEF Link
  <2> QED
    BY <2>4 DEF CleanUrl, T
<1>2. /\ u.dest # <<>> => Head(u.dest) \in Link
      /\ Resolved[u.host] # <<>> => Head(Resolved[u.host]) \in Link
  BY OnlyLinks
<1> QED
  BY <1>1, <1>2 DEF UnwrapRedirectUrl, Extracts, Resolves

\* process_href leads to a link or to about:blank.
LEMMA ProcessedIsLink ==
  ASSUME NEW u \in Link, NEW cfg, NEW sensitive
  PROVE  ProcessHref(u, cfg, sensitive) \in Link \cup {Blank}
  BY CleanedIsLink DEF ProcessHref, Rewritten

\* Cells as the parser gives them: no link is blank.
Given == {c \in Cells : c.tag = "a" => c.url # Blank}

\* The fields of a cell.
LEMMA CellFields ==
  ASSUME NEW tag, NEW url, NEW ping
  PROVE  /\ Cell(tag, url, ping).tag = tag
         /\ Cell(tag, url, ping).url = url
         /\ Cell(tag, url, ping).ping = ping
  BY DEF Cell

\* A cell is what its fields say, and only links have a URL.
LEMMA CellsAre ==
  ASSUME NEW c \in Cells
  PROVE  /\ c = Cell(c.tag, c.url, c.ping)
         /\ c.tag \in {"a", "img", "css", "text"} /\ c.ping \in BOOLEAN
         /\ IF c.tag = "a" THEN c.url \in Link \cup {Blank} ELSE c.url = Blank /\ c.ping = FALSE
<1> DEFINE U == Link \cup {Blank}
<1>1. Cells = [tag : {"a"}, url : U, ping : BOOLEAN]
               \cup [tag : {"img", "css", "text"}, url : {Blank}, ping : {FALSE}]
  BY DEF Cells, Anchors
<1> SUFFICES /\ c = Cell(c.tag, c.url, c.ping)
             /\ c.tag \in {"a", "img", "css", "text"} /\ c.ping \in BOOLEAN
             /\ IF c.tag = "a" THEN c.url \in U ELSE c.url = Blank /\ c.ping = FALSE
  OBVIOUS
<1> HIDE DEF U
<1>2. CASE c \in [tag : {"a"}, url : U, ping : BOOLEAN]
  BY <1>2 DEF Cell
<1>3. CASE c \in [tag : {"img", "css", "text"}, url : {Blank}, ping : {FALSE}]
  BY <1>3 DEF Cell
<1> QED
  BY <1>1, <1>2, <1>3

\* What is built of such fields is a cell.
LEMMA AreCells ==
  /\ \A url \in Link \cup {Blank}, ping \in BOOLEAN : Cell("a", url, ping) \in Cells
  /\ \A tag \in {"img", "css", "text"} : Cell(tag, Blank, FALSE) \in Cells
<1> DEFINE U == Link \cup {Blank}
<1>1. Cells = [tag : {"a"}, url : U, ping : BOOLEAN]
               \cup [tag : {"img", "css", "text"}, url : {Blank}, ping : {FALSE}]
  BY DEF Cells, Anchors
<1> HIDE DEF U
<1>2. \A url \in U, ping \in BOOLEAN : Cell("a", url, ping) \in Cells
  BY <1>1 DEF Cell
<1>3. \A tag \in {"img", "css", "text"} : Cell(tag, Blank, FALSE) \in Cells
  BY <1>1 DEF Cell
<1> HIDE DEF Cell
<1> QED
  BY <1>2, <1>3 DEF U

\* A cleaned cell is a cell, and a link if and only if it was one.
LEMMA CleanCellType ==
  ASSUME NEW c \in Given, NEW cfg, NEW sensitive
  PROVE  /\ CleanCell(c, cfg, sensitive) \in Cells
         /\ c.tag = "a" => CleanCell(c, cfg, sensitive).tag = "a"
         /\ c.tag # "a" => CleanCell(c, cfg, sensitive).tag # "a"
<1>1. c \in Cells /\ (c.tag = "a" => c.url \in Link)
  BY CellsAre, CellFields, AreCells DEF Given
<1>2. CASE IsBeacon(c, cfg)
  <2>1. CleanCell(c, cfg, sensitive) = Cell("text", Blank, FALSE) /\ c.tag # "a"
    BY <1>2 DEF CleanCell, Words, IsBeacon
  <2>2. Cell("text", Blank, FALSE) \in Cells /\ Cell("text", Blank, FALSE).tag = "text"
    BY CellsAre, CellFields, AreCells
  <2> QED
    BY <2>1, <2>2
<1>3. CASE ~IsBeacon(c, cfg) /\ c.tag = "a"
  <2> DEFINE url == IF Change(c, cfg, sensitive) = "none" THEN c.url
                    ELSE ProcessHref(c.url, cfg, sensitive)
             ping == c.ping /\ ~cfg.strip_link_ping
  <2>1. url \in Link \cup {Blank} /\ ping \in BOOLEAN
    BY <1>1, <1>3, ProcessedIsLink, CellsAre, CellFields, AreCells
  <2>2. CleanCell(c, cfg, sensitive) = Cell("a", url, ping)
    BY <1>3 DEF CleanCell
  <2> HIDE DEF url, ping
  <2> QED
    BY <1>3, <2>1, <2>2, CellsAre, CellFields, AreCells
<1>4. CASE ~IsBeacon(c, cfg) /\ c.tag # "a"
  <2>1. c.url = Blank /\ c.ping = FALSE /\ c.tag \in {"img", "css", "text"}
    BY <1>1, <1>4, CellsAre, CellFields, AreCells
  <2>2. Change(c, cfg, sensitive) = "none"
    BY <1>4 DEF Change
  <2>3. CleanCell(c, cfg, sensitive) = Cell(c.tag, Blank, FALSE)
    BY <1>4, <2>1, <2>2 DEF CleanCell
  <2>4. Cell(c.tag, Blank, FALSE).tag = c.tag
    BY DEF Cell
  <2>5. Cell(c.tag, Blank, FALSE) \in Cells
    BY <2>1, AreCells
  <2> QED
    BY <1>4, <2>3, <2>4, <2>5
<1> QED
  BY <1>2, <1>3, <1>4

\* What an HTML part becomes.
LEMMA CleanHtmlIs ==
  ASSUME NEW cells \in Seq(Given), NEW cfg, NEW sensitive
  PROVE  LET left == Remaining(cells, cfg)  new == CleanHtml(cells, cfg, sensitive) IN
         /\ left \in Seq(Given) /\ new \in Seq(Cells)
         /\ Len(new) = Len(left) /\ DOMAIN new = DOMAIN left
         /\ \A n \in DOMAIN left : new[n] = CleanCell(left[n], cfg, sensitive)
<1> DEFINE left == Remaining(cells, cfg)
           new == CleanHtml(cells, cfg, sensitive)
           T == {c \in Cells : ~IsRemoved(c, cfg)}
<1>1. left \in Seq(Given)
  <2>1. Select(cells, T) \in Seq(Given \cap T)
    BY SelectBridge, Laying!SelectType
  <2>2. Select(cells, T) \in Seq(Given)
    BY <2>1
  <2> QED
    BY <2>2 DEF Remaining
<1>2. new = [n \in DOMAIN left |-> CleanCell(left[n], cfg, sensitive)]
  BY DEF CleanHtml, Mapped
<1> HIDE DEF left, new
<1>3. DOMAIN left = 1..Len(left) /\ Len(left) \in Nat /\ \A n \in 1..Len(left) : left[n] \in Given
  BY <1>1
<1>4. new \in [1..Len(left) -> Cells]
  BY <1>2, <1>3, CleanCellType
<1>5. new \in Seq(Cells)
  <2>1. new \in UNION {[1..n -> Cells] : n \in Nat}
    BY <1>3, <1>4
  <2> QED
    BY <2>1, SeqDef, Zenon
<1>6. Len(new) = Len(left)
  BY <1>2, <1>3, <1>5
<1> QED
  BY <1>1, <1>2, <1>5, <1>6 DEF left, new

\* What a text part becomes.
LEMMA CleanTextIs ==
  ASSUME NEW cells \in Seq(Given), NEW cfg
  PROVE  LET new == CleanText(cells, cfg) IN
         /\ new \in Seq(Cells) /\ Len(new) = Len(cells) /\ DOMAIN new = DOMAIN cells
         /\ \A n \in DOMAIN cells :
              new[n] = IF cells[n].tag = "a"
                       THEN Cell("a", CleanUrl(cells[n].url, cfg), cells[n].ping) ELSE cells[n]
<1> DEFINE new == CleanText(cells, cfg)
           image(c) == IF c.tag = "a" THEN Cell("a", CleanUrl(c.url, cfg), c.ping) ELSE c
<1>1. new = [n \in DOMAIN cells |-> image(cells[n])]
  <2>1. new = [n \in DOMAIN cells |->
                 IF cells[n].tag = "a"
                 THEN Cell(cells[n].tag, CleanUrl(cells[n].url, cfg), cells[n].ping) ELSE cells[n]]
    BY DEF CleanText, Mapped
  <2> QED
    BY <2>1
<1>2. ASSUME NEW c \in Given PROVE image(c) \in Cells
  <2>1. c \in Cells /\ (c.tag = "a" => c.url \in Link)
    BY CellsAre, CellFields, AreCells DEF Given
  <2>2. CASE c.tag = "a"
    <3>1. CleanUrl(c.url, cfg) \in Link \cup {Blank} /\ c.ping \in BOOLEAN
      BY <2>1, <2>2, CleanedIsLink, CellsAre, CellFields, AreCells
    <3> QED
      BY <2>2, <3>1, CellsAre, CellFields, AreCells
  <2> QED
    BY <2>1, <2>2
<1>3. DOMAIN cells = 1..Len(cells) /\ Len(cells) \in Nat /\ \A n \in 1..Len(cells) : cells[n] \in Given
  OBVIOUS
<1> HIDE DEF new
<1>4. new \in [1..Len(cells) -> Cells]
  <2> HIDE DEF image
  <2> QED
    BY <1>1, <1>2, <1>3
<1>5. new \in Seq(Cells)
  <2>1. new \in UNION {[1..n -> Cells] : n \in Nat}
    BY <1>3, <1>4
  <2> QED
    BY <2>1, SeqDef, Zenon
<1>6. Len(new) = Len(cells)
  BY <1>1, <1>3, <1>5
<1>7. DOMAIN new = DOMAIN cells /\ \A n \in DOMAIN cells : new[n] = image(cells[n])
  BY <1>1
<1> QED
  BY <1>5, <1>6, <1>7 DEF new

-----------------------------------------------------------------------------
(* What is found shows.                                                    *)

\* A handler of the rewriter does something about a cell.
Touched(c, cfg, sensitive) ==
  \/ IsRemoved(c, cfg)
  \/ IsBeacon(c, cfg)
  \/ Change(c, cfg, sensitive) # "none"
  \/ c.ping /\ cfg.strip_link_ping

\* A count is zero where there is nothing.
LEMMA NoneCounted ==
  ASSUME NEW S, NEW cells \in Seq(S), NEW A \in SUBSET (DOMAIN cells)
  PROVE  Cardinality(A) = 0 <=> A = {}
<1>1. DOMAIN cells = 1..Len(cells) /\ Len(cells) \in Nat
  OBVIOUS
<1>2. IsFiniteSet(1..Len(cells))
  BY <1>1, FS_Interval
<1>3. IsFiniteSet(A)
  BY <1>1, <1>2, FS_Subset
<1> QED
  BY <1>3, FS_EmptySet

\* Something is counted for an HTML part if and only if a handler did something.
LEMMA HtmlFoundIs ==
  ASSUME NEW cells \in Seq(Given)
  PROVE  HtmlStats(cells) # [NoStats EXCEPT !.html_parts = 1]
           <=> \E n \in DOMAIN cells : Touched(cells[n], eff, message.unsubscribe)
<1> DEFINE D == DOMAIN cells
           K == {n \in D : Change(cells[n], eff, message.unsubscribe) = "Cleaned"}
           U == {n \in D : Change(cells[n], eff, message.unsubscribe) = "Unwrapped"}
           R == {n \in D : IsRemoved(cells[n], eff) \/ IsBeacon(cells[n], eff)}
           W == {n \in D : cells[n].ping /\ eff.strip_link_ping}
<1>1. HtmlStats(cells) = [html_parts |-> 1, urls_cleaned |-> Cardinality(K), redirects_unwrapped |-> Cardinality(U),
                          pixels_removed |-> Cardinality(R), pings_stripped |-> Cardinality(W)]
  BY DEF HtmlStats, HowMany
<1>2. [NoStats EXCEPT !.html_parts = 1]
        = [html_parts |-> 1, urls_cleaned |-> 0, redirects_unwrapped |-> 0, pixels_removed |-> 0, pings_stripped |-> 0]
  BY DEF NoStats
<1>3. \A n \in D : Change(cells[n], eff, message.unsubscribe) # "none" <=> n \in K \cup U
  BY DEF Change, HrefChange
<1>4. K \subseteq D /\ U \subseteq D /\ R \subseteq D /\ W \subseteq D
  OBVIOUS
<1>5. (\E n \in D : Touched(cells[n], eff, message.unsubscribe)) <=> K \cup U \cup R \cup W # {}
  BY <1>3 DEF Touched
<1> HIDE DEF K, U, R, W
<1>6. /\ Cardinality(K) = 0 <=> K = {}
      /\ Cardinality(U) = 0 <=> U = {}
      /\ Cardinality(R) = 0 <=> R = {}
      /\ Cardinality(W) = 0 <=> W = {}
  BY <1>4, NoneCounted
<1>7. HtmlStats(cells) = [NoStats EXCEPT !.html_parts = 1]
        <=> /\ Cardinality(K) = 0 /\ Cardinality(U) = 0
            /\ Cardinality(R) = 0 /\ Cardinality(W) = 0
  BY <1>1, <1>2
<1> QED
  BY <1>5, <1>6, <1>7

\* Something is counted for a text part if and only if a link of it is cleaned.
LEMMA TextFoundIs ==
  ASSUME NEW cells \in Seq(Given)
  PROVE  TextStats(cells) # NoStats
           <=> \E n \in DOMAIN cells : cells[n].tag = "a" /\ CleanUrl(cells[n].url, eff) # cells[n].url
<1> DEFINE K == {n \in DOMAIN cells : cells[n].tag = "a" /\ CleanUrl(cells[n].url, eff) # cells[n].url}
<1>1. TextStats(cells) = [NoStats EXCEPT !.urls_cleaned = Cardinality(K)]
  BY DEF TextStats, HowMany
<1>2. Cardinality(K) = 0 <=> K = {}
  BY NoneCounted
<1>3. K # {} <=> \E n \in DOMAIN cells : cells[n].tag = "a" /\ CleanUrl(cells[n].url, eff) # cells[n].url
  OBVIOUS
<1> HIDE DEF K
<1>4. TextStats(cells) = NoStats <=> Cardinality(K) = 0
  BY <1>1 DEF NoStats
<1> QED
  BY <1>2, <1>3, <1>4

\* A destination is another link than the one it is embedded in, cleaned or not.
LEMMA UnwrapsDiffer ==
  ASSUME NEW u \in Link, NEW cfg, Unwraps(u, cfg)
  PROVE  UnwrapRedirectUrl(u, cfg) # u
<1>1. CASE ~Extracts(u)
  BY <1>1 DEF Unwraps
<1>2. CASE Extracts(u)
  <2>1. u.dest # <<>> /\ u.dest \in Seq(Plain)
    BY <1>2 DEF Extracts, Link, AtMostOne
  <2>2. Head(u.dest) \in Plain
    BY <2>1
  <2>3. UnwrapRedirectUrl(u, cfg) = CleanUrl(Head(u.dest), cfg)
    BY <1>2 DEF Unwraps, UnwrapRedirectUrl
  <2> DEFINE v == Head(u.dest)
  <2>4. v.dest = <<>> /\ DOMAIN v = {"host", "query", "dest"}
    BY <2>2 DEF Plain
  <2> HIDE DEF v
  <2>5. CleanUrl(v, cfg).dest = <<>>
    BY <2>4 DEF CleanUrl
  <2> QED
    BY <2>1, <2>3, <2>5 DEF v
<1> QED
  BY <1>1, <1>2

\* Counted as a change is what differs.
LEMMA ChangeDiffers ==
  ASSUME NEW u \in Link, NEW cfg, NEW sensitive, HrefChange(u, cfg, sensitive) # "none"
  PROVE  ProcessHref(u, cfg, sensitive) # u
<1> DEFINE new == ProcessHref(u, cfg, sensitive)
<1>1. ~IsSensitive(u, sensitive) /\ new = Rewritten(u, cfg)
  BY DEF HrefChange, ProcessHref
<1>2. CASE new # Blank /\ Unwraps(u, cfg)
  <2>1. new = UnwrapRedirectUrl(u, cfg)
    BY <1>1, <1>2 DEF Rewritten
  <2> QED
    BY <1>2, <2>1, UnwrapsDiffer
<1>3. CASE ~(new # Blank /\ Unwraps(u, cfg))
  BY <1>1, <1>3 DEF HrefChange
<1> QED
  BY <1>2, <1>3

\* What a handler does about a cell that stays shows in it.
LEMMA TouchedDiffers ==
  ASSUME NEW c \in Given, NEW cfg, NEW sensitive
  PROVE  ~IsRemoved(c, cfg) => (Touched(c, cfg, sensitive) <=> CleanCell(c, cfg, sensitive) # c)
<1>1. c \in Cells /\ (c.tag = "a" => c.url \in Link) /\ c = Cell(c.tag, c.url, c.ping)
      /\ c.ping \in BOOLEAN
  BY CellsAre DEF Given
<1> SUFFICES ASSUME ~IsRemoved(c, cfg)
             PROVE  Touched(c, cfg, sensitive) <=> CleanCell(c, cfg, sensitive) # c
  OBVIOUS
<1>2. CASE IsBeacon(c, cfg)
  <2>1. CleanCell(c, cfg, sensitive) = Cell("text", Blank, FALSE) /\ c.tag = "css"
    BY <1>2 DEF CleanCell, Words, IsBeacon
  <2>2. Cell("text", Blank, FALSE).tag = "text"
    BY DEF Cell
  <2> QED
    BY <1>2, <2>1, <2>2 DEF Touched
<1>3. CASE ~IsBeacon(c, cfg)
  <2> DEFINE url == IF Change(c, cfg, sensitive) = "none" THEN c.url
                    ELSE ProcessHref(c.url, cfg, sensitive)
             ping == c.ping /\ ~cfg.strip_link_ping
  <2>1. CleanCell(c, cfg, sensitive) = Cell(c.tag, url, ping)
    BY <1>3 DEF CleanCell
  <2>2. Cell(c.tag, url, ping) = c <=> url = c.url /\ ping = c.ping
    <3> HIDE DEF url, ping
    <3>1. Cell(c.tag, url, ping).url = url /\ Cell(c.tag, url, ping).ping = ping
      BY DEF Cell
    <3> QED
      BY <1>1, <3>1
  <2>3. Change(c, cfg, sensitive) # "none" <=> url # c.url
    <3>1. CASE Change(c, cfg, sensitive) = "none"
      BY <3>1
    <3>2. CASE Change(c, cfg, sensitive) # "none"
      <4>1. c.tag = "a" /\ HrefChange(c.url, cfg, sensitive) # "none"
        BY <3>2 DEF Change
      <4> QED
        BY <1>1, <3>2, <4>1, ChangeDiffers
    <3> QED
      BY <3>1, <3>2
  <2>4. (c.ping /\ cfg.strip_link_ping) <=> ping # c.ping
    BY <1>1, Zenon
  <2> HIDE DEF url, ping
  <2> QED
    BY <1>3, <2>1, <2>2, <2>3, <2>4 DEF Touched
<1> QED
  BY <1>2, <1>3

\* An HTML part is changed if and only if something was found in it.
LEMMA HtmlChanges ==
  ASSUME NEW cells \in Seq(Given)
  PROVE  HtmlStats(cells) # [NoStats EXCEPT !.html_parts = 1]
           <=> CleanHtml(cells, eff, message.unsubscribe) # cells
<1> DEFINE T == {c \in Cells : ~IsRemoved(c, eff)}
           left == Remaining(cells, eff)
           new == CleanHtml(cells, eff, message.unsubscribe)
<1>1. /\ new \in Seq(Cells) /\ left \in Seq(Given) /\ Len(new) = Len(left)
      /\ \A n \in DOMAIN left : new[n] = CleanCell(left[n], eff, message.unsubscribe)
  BY CleanHtmlIs
<1>2. left = Select(cells, T)
  BY DEF Remaining
<1>3. \A n \in DOMAIN cells : cells[n] \in Given /\ n \in 1..Len(cells)
  OBVIOUS
<1> HIDE DEF left, new
<1>4. CASE \E n \in DOMAIN cells : IsRemoved(cells[n], eff)
  <2>1. PICK n \in DOMAIN cells : IsRemoved(cells[n], eff)
    BY <1>4
  <2>2. cells[n] \notin T /\ n \in 1..Len(cells)
    BY <1>3, <2>1
  <2> HIDE DEF T
  <2>3. Len(left) < Len(cells)
    BY <1>2, <2>2, SelectBridge, Laying!SelectShorter
  <2>4. Len(cells) \in Nat /\ Len(left) \in Nat
    BY <1>1
  <2>5. new # cells
    BY <1>1, <2>3, <2>4
  <2>6. Touched(cells[n], eff, message.unsubscribe)
    BY <2>1 DEF Touched
  <2> QED
    BY <2>5, <2>6, HtmlFoundIs DEF new
<1>5. CASE \A n \in DOMAIN cells : ~IsRemoved(cells[n], eff)
  <2> DEFINE S == {c \in Given : ~IsRemoved(c, eff)}
  <2>1. cells \in Seq(S) /\ S \subseteq T
    <3>1. \A n \in 1..Len(cells) : cells[n] \in S
      BY <1>3, <1>5
    <3>2. cells \in [1..Len(cells) -> S] /\ Len(cells) \in Nat
      BY <3>1
    <3>3. cells \in UNION {[1..n -> S] : n \in Nat}
      BY <3>2
    <3>4. cells \in Seq(S)
      BY <3>3, SeqDef, Zenon
    <3> QED
      BY <3>4 DEF Given
  <2> HIDE DEF S, T
  <2>2. left = cells
    BY <1>2, <2>1, SelectBridge, Laying!SelectAll
  <2>3. new = cells <=> \A n \in DOMAIN cells : CleanCell(cells[n], eff, message.unsubscribe) = cells[n]
    <3>1. cells \in Seq(Cells) /\ DOMAIN cells = 1..Len(cells)
      BY <1>3 DEF Given
    <3>2. Len(new) = Len(cells) /\ \A n \in 1..Len(cells) : new[n] = CleanCell(cells[n], eff, message.unsubscribe)
      BY <1>1, <2>2, <3>1
    <3>3. (\A n \in 1..Len(cells) : new[n] = cells[n]) => new = cells
      BY <1>1, <3>1, <3>2, SeqEqual
    <3> QED
      BY <3>1, <3>2, <3>3
  <2>4. \A n \in DOMAIN cells :
          Touched(cells[n], eff, message.unsubscribe) <=> CleanCell(cells[n], eff, message.unsubscribe) # cells[n]
    BY <1>3, <1>5, TouchedDiffers
  <2> QED
    BY <2>3, <2>4, HtmlFoundIs DEF new
<1> QED
  BY <1>4, <1>5

\* A text part is changed if and only if something was found in it.
LEMMA TextChanges ==
  ASSUME NEW cells \in Seq(Given)
  PROVE  TextStats(cells) # NoStats <=> CleanText(cells, eff) # cells
<1> DEFINE new == CleanText(cells, eff)
<1>1. /\ new \in Seq(Cells) /\ Len(new) = Len(cells) /\ DOMAIN new = DOMAIN cells
      /\ \A n \in DOMAIN cells :
           new[n] = IF cells[n].tag = "a"
                    THEN Cell("a", CleanUrl(cells[n].url, eff), cells[n].ping) ELSE cells[n]
  BY CleanTextIs
<1>2. cells \in Seq(Cells) /\ DOMAIN cells = 1..Len(cells) /\ \A n \in DOMAIN cells : cells[n] \in Cells
  BY DEF Given
<1> HIDE DEF new
<1>3. ASSUME NEW n \in DOMAIN cells
      PROVE  new[n] = cells[n] <=> (cells[n].tag = "a" => CleanUrl(cells[n].url, eff) = cells[n].url)
  <2>1. CASE cells[n].tag # "a"
    BY <1>1, <2>1
  <2>2. CASE cells[n].tag = "a"
    <3> DEFINE c == cells[n]
               url == CleanUrl(c.url, eff)
    <3>1. new[n] = Cell("a", url, c.ping)
      BY <1>1, <2>2
    <3>2. c = Cell("a", c.url, c.ping)
      BY <1>2, <2>2, CellsAre
    <3>3. Cell("a", url, c.ping).url = url
      BY CellFields
    <3> HIDE DEF c, url
    <3>4. Cell("a", url, c.ping) = c <=> url = c.url
      BY <3>2, <3>3
    <3> QED
      BY <2>2, <3>1, <3>4 DEF c, url
  <2> QED
    BY <2>1, <2>2
<1>4. new = cells <=> \A n \in DOMAIN cells : new[n] = cells[n]
  <2>1. (\A n \in 1..Len(cells) : new[n] = cells[n]) => new = cells
    BY <1>1, <1>2, SeqEqual
  <2> QED
    BY <1>2, <2>1
<1> QED
  BY <1>3, <1>4, TextFoundIs DEF new

-----------------------------------------------------------------------------
(* What is queued is what is due.                                          *)

\* Whether a part is one for the HTML stages.
IsHtml(i) == (Parts[i].html_body /\ Parts[i].kind = "html") \/ Parts[i].declares_html

\* What becomes of a part, by the stages that may take it.
Cleaned(i) ==
  IF IsHtml(i) THEN CleanHtml(Parts[i].cells, eff, message.unsubscribe)
  ELSE CleanText(Parts[i].cells, eff)

\* The one replacement a part can have.
Replacement(i) == [start |-> Start(Parts, i), end |-> End(Parts, i), cells |-> Cleaned(i)]

\* Cleaning the part found something to change.
FoundHtml(i) == HtmlStats(Parts[i].cells) # [NoStats EXCEPT !.html_parts = 1]
FoundText(i) == TextStats(Parts[i].cells) # NoStats

\* The stage that replaces a part, if any does.
HtmlStage(i) == IF Parts[i].html_body THEN "html" ELSE "recover"
\* Stage s replaces part i.
Replaces(s, i) ==
  \/ Enforced(i) /\ FoundHtml(i) /\ s = HtmlStage(i)
  \/ EnforcedText(i) /\ FoundText(i) /\ s = "plain"

\* The stages that are over.
Over ==
  CASE stage = "html" -> {}
    [] stage = "recover" -> {"html"}
    [] stage = "plain" -> {"html", "recover"}
    [] OTHER -> {"html", "recover", "plain"}

\* Part i is replaced by now.
Replaced(i) ==
  \/ \E s \in Over : Replaces(s, i)
  \/ i < next /\ Replaces(stage, i)

\* What is known of the queue whatever is due.
InQueue ==
  /\ replacements \in Seq({Replacement(i) : i \in 1..Len(Parts)})
  /\ \A m, n \in DOMAIN replacements : replacements[m].start = replacements[n].start => m = n
  /\ processed = {i \in 1..Len(Parts) : \E n \in DOMAIN replacements : replacements[n] = Replacement(i)}

\* The inductive invariant: the queue is what is due, and the result its splices.
Queued ==
  /\ message \in Messages
  /\ InQueue
  /\ stage # "failed" => processed = {i \in 1..Len(Parts) : Replaced(i)}
  /\ stage = "done" => result = [body |-> Spliced(Raw), modified |-> replacements # <<>>]

-----------------------------------------------------------------------------

\* The pieces of the message that came, and what they may become.
Came == [i \in 1..Len(Parts) |-> Parts[i].cells]
New  == [i \in 1..Len(Parts) |-> Cleaned(i)]

\* The parts as the parser presents them.
LEMMA PartsAre ==
  ASSUME message \in Messages
  PROVE  /\ Parts \in Seq(Part) /\ Len(Parts) \in Nat /\ DOMAIN Parts = 1..Len(Parts)
         /\ \A i \in 1..Len(Parts) :
              /\ Parts[i].cells \in Seq(Given)
              /\ Parts[i].kind = "text" /\ Parts[i].text_body => ~Parts[i].declares_html
<1>1. Parts \in Seq(Part)
  BY MessageAssumption DEF Parts
<1>2. ASSUME NEW p \in Part
      PROVE  p.cells \in Seq(Given) /\ (p.kind = "text" /\ p.text_body => ~p.declares_html)
  BY DEF Part, Given
<1>3. Len(Parts) \in Nat /\ DOMAIN Parts = 1..Len(Parts) /\ \A i \in 1..Len(Parts) : Parts[i] \in Part
  BY <1>1
<1> QED
  BY <1>1, <1>2, <1>3

\* The message as pieces that are laid out, and its replacements as theirs.
LEMMA PiecesAre ==
  ASSUME message \in Messages
  PROVE  /\ Came \in Pieces /\ New \in Pieces /\ Len(Came) = Len(Parts) /\ Len(New) = Len(Parts)
         /\ \A i \in 1..Len(Parts) : Came[i] = Parts[i].cells /\ New[i] = Cleaned(i)
         /\ Raw = Laid(Came)
         /\ \A i \in 1..Len(Parts) : Replacement(i) = Repl(Came, New, i)
<1>1. Len(Parts) \in Nat /\ DOMAIN Parts = 1..Len(Parts)
  BY PartsAre
<1>2. \A i \in 1..Len(Parts) : Parts[i].cells \in Seq(Given)
  BY PartsAre
<1>3. \A i \in 1..Len(Parts) : Parts[i].cells \in Seq(Cells) /\ Cleaned(i) \in Seq(Cells)
  <2>1. \A s \in Seq(Given) : s \in Seq(Cells)
    BY DEF Given
  <2> QED
    BY <1>2, <2>1, CleanHtmlIs, CleanTextIs DEF Cleaned
<1>4. ASSUME NEW f, f \in [1..Len(Parts) -> Seq(Cells)] PROVE f \in Pieces /\ Len(f) = Len(Parts)
  <2>1. f \in UNION {[1..n -> Seq(Cells)] : n \in Nat}
    BY <1>1, <1>4
  <2>2. f \in Seq(Seq(Cells))
    BY <2>1, SeqDef, Zenon
  <2> QED
    BY <1>1, <1>4, <2>2 DEF Pieces
<1>5. Came \in Pieces /\ New \in Pieces /\ Len(Came) = Len(Parts) /\ Len(New) = Len(Parts)
  <2>1. Came \in [1..Len(Parts) -> Seq(Cells)] /\ New \in [1..Len(Parts) -> Seq(Cells)]
    BY <1>3 DEF Came, New
  <2> QED
    BY <1>4, <2>1
<1>6. \A i \in 1..Len(Parts) : Came[i] = Parts[i].cells /\ New[i] = Cleaned(i)
  BY DEF Came, New
<1>7. Raw = Laid(Came)
  BY <1>1 DEF Raw, Came
<1>8. ASSUME NEW i \in 1..Len(Parts) PROVE Replacement(i) = Repl(Came, New, i)
  <2>1. [j \in 1..(i - 1) |-> Parts[j].cells] = SubSeq(Came, 1, i - 1)
    <3> DEFINE f == [j \in 1..(i - 1) |-> Parts[j].cells]
               g == SubSeq(Came, 1, i - 1)
    <3>1. i - 1 \in Nat /\ i - 1 <= Len(Came) /\ 1 \in Nat \ {0} /\ Came \in Seq(Seq(Cells))
          /\ (i - 1) + 1 - 1 = i - 1 /\ 1 <= (i - 1) + 1
      BY <1>1, <1>5 DEF Pieces
    <3>2. /\ g \in Seq(Seq(Cells)) /\ Len(g) = (i - 1) + 1 - 1
          /\ \A k \in 1..(i - 1) + 1 - 1 : g[k] = Came[1 + k - 1]
      BY <3>1, Laying!CutIs
    <3> HIDE DEF g
    <3>3. \A k \in 1..i - 1 : 1 + k - 1 = k /\ k \in 1..Len(Parts)
      BY <1>1
    <3>4. \A k \in 1..i - 1 : g[k] = Parts[k].cells
      BY <1>6, <3>1, <3>2, <3>3
    <3>5. g = [k \in 1..i - 1 |-> g[k]]
      BY <3>1, <3>2
    <3> QED
      BY <3>4, <3>5 DEF g
  <2>2. Start(Parts, i) = Offset(Came, i)
    BY <2>1 DEF Start, Offset
  <2> QED
    BY <1>6, <2>2 DEF Replacement, Repl, End
<1> QED
  BY <1>5, <1>6, <1>7, <1>8

\* While the message and its configuration stay, so does what its parts become.
LEMMA SameParts ==
  ASSUME config' = config, message' = message
  PROVE  /\ eff' = eff /\ Parts' = Parts
         /\ \A i : Replacement(i)' = Replacement(i)
         /\ \A s, i : Replaces(s, i)' <=> Replaces(s, i)
<1>1. eff' = eff /\ Parts' = Parts
  BY DEF eff, Parts
<1>2. \A i : Cleaned(i)' = Cleaned(i)
  BY <1>1 DEF Cleaned, IsHtml
<1>3. \A i : Replacement(i)' = Replacement(i)
  BY <1>1, <1>2 DEF Replacement
<1>4. \A i : /\ Enforced(i)' <=> Enforced(i)
             /\ EnforcedText(i)' <=> EnforcedText(i)
             /\ HtmlStage(i)' = HtmlStage(i)
  BY <1>1 DEF Enforced, EnforcedText, HtmlStage
<1>5. \A cells : HtmlStats(cells)' = HtmlStats(cells)
  BY <1>1 DEF HtmlStats, HowMany
<1>6. \A cells : TextStats(cells)' = TextStats(cells)
  BY <1>1 DEF TextStats, HowMany
<1>7. \A i : (FoundHtml(i)' <=> FoundHtml(i)) /\ (FoundText(i)' <=> FoundText(i))
  BY <1>1, <1>5, <1>6 DEF FoundHtml, FoundText
<1> QED
  BY <1>1, <1>3, <1>4, <1>7 DEF Replaces

\* The parts replaced, while next goes on by one.
LEMMA ReplacedNext ==
  ASSUME config' = config, message' = message, stage' = stage, stage # "failed",
         next \in 1..Len(Parts), next' = next + 1
  PROVE  {i \in 1..Len(Parts) : Replaced(i)}'
           = {i \in 1..Len(Parts) : Replaced(i)} \cup {i \in {next} : Replaces(stage, next)}
<1>1. Over' = Over
  BY DEF Over
<1>2. Parts' = Parts /\ \A s, i : Replaces(s, i)' <=> Replaces(s, i)
  BY SameParts
<1>3. \A i \in 1..Len(Parts) :
        Replaced(i)' <=> Replaced(i) \/ (i = next /\ Replaces(stage, next))
  <2>1. \A i \in 1..Len(Parts) : i < next' <=> i < next \/ i = next
    OBVIOUS
  <2> QED
    BY <1>1, <1>2, <2>1 DEF Replaced
<1> QED
  BY <1>2, <1>3

\* A stage that has seen every part is over.
LEMMA ReplacedOver ==
  ASSUME config' = config, message' = message, Len(Parts) \in Nat,
         \/ stage = "html" /\ stage' = "recover" /\ next > Len(Parts) /\ next' = 1
         \/ stage = "recover" /\ stage' = "plain" /\ next > Len(Parts) /\ next' = 1
         \/ stage = "plain" /\ stage' = "splice" /\ next > Len(Parts) /\ next' = 1
         \/ stage = "splice" /\ stage' = "done" /\ next' = next,
         next \in Nat
  PROVE  {i \in 1..Len(Parts) : Replaced(i)}' = {i \in 1..Len(Parts) : Replaced(i)}
<1>1. Parts' = Parts /\ \A s, i : Replaces(s, i)' <=> Replaces(s, i)
  BY SameParts
<1>2. ASSUME NEW i \in 1..Len(Parts) PROVE Replaced(i)' <=> Replaced(i)
  <2>1. /\ ~Replaces("splice", i) /\ ~Replaces("done", i)
    BY DEF Replaces, HtmlStage
  <2>2. CASE stage = "html" /\ stage' = "recover" /\ next > Len(Parts) /\ next' = 1
    <3>1. Over = {} /\ Over' = {"html"} /\ i < next /\ ~(i < next')
      BY <2>2 DEF Over
    <3> QED
      BY <1>1, <2>2, <3>1 DEF Replaced
  <2>3. CASE stage = "recover" /\ stage' = "plain" /\ next > Len(Parts) /\ next' = 1
    <3>1. Over = {"html"} /\ Over' = {"html", "recover"} /\ i < next /\ ~(i < next')
      BY <2>3 DEF Over
    <3> QED
      BY <1>1, <2>3, <3>1 DEF Replaced
  <2>4. CASE stage = "plain" /\ stage' = "splice" /\ next > Len(Parts) /\ next' = 1
    <3>1. /\ Over = {"html", "recover"} /\ Over' = {"html", "recover", "plain"}
          /\ i < next /\ ~(i < next')
      BY <2>4 DEF Over
    <3> QED
      BY <1>1, <2>4, <3>1 DEF Replaced
  <2>5. CASE stage = "splice" /\ stage' = "done" /\ next' = next
    <3>1. Over = {"html", "recover", "plain"} /\ Over' = {"html", "recover", "plain"}
      BY <2>5 DEF Over
    <3> QED
      BY <1>1, <2>1, <2>5, <3>1 DEF Replaced
  <2> QED
    BY <2>2, <2>3, <2>4, <2>5
<1> QED
  BY <1>1, <1>2

-----------------------------------------------------------------------------

\* A step that queues nothing keeps this.
LEMMA InQueueKept ==
  ASSUME InQueue, config' = config, message' = message, replacements' = replacements,
         processed' = processed
  PROVE  InQueue'
  BY SameParts DEF InQueue

\* So does queueing the replacement of a part that has none.
LEMMA InQueueOne ==
  ASSUME InQueue, message \in Messages, config' = config, message' = message,
         NEW i \in 1..Len(Parts), i \notin processed,
         replacements' = Append(replacements, Replacement(i)), processed' = processed \cup {i}
  PROVE  InQueue'
<1> DEFINE S == {Replacement(j) : j \in 1..Len(Parts)}
           k == Len(replacements)
           r == Replacement(i)
<1>1. Parts' = Parts /\ \A j : Replacement(j)' = Replacement(j)
  BY SameParts
<1>2. ASSUME NEW j \in 1..Len(Parts) PROVE Replacement(j).start = r.start <=> j = i
  <2>1. Replacement(j) = Repl(Came, New, j) /\ r = Repl(Came, New, i) /\ Came \in Pieces
        /\ Len(Came) = Len(Parts)
    BY PiecesAre
  <2>2. /\ Repl(Came, New, i).start = Offset(Came, i) /\ Offset(Came, i) \in Nat
        /\ Offset(Came, i) < Offset(Came, j) <=> i < j
    BY <2>1, ReplStart
  <2>3. /\ Repl(Came, New, j).start = Offset(Came, j) /\ Offset(Came, j) \in Nat
        /\ Offset(Came, j) < Offset(Came, i) <=> j < i
    BY <2>1, ReplStart
  <2>4. i < j \/ i = j \/ j < i
    BY PartsAre
  <2> QED
    BY <2>1, <2>2, <2>3, <2>4
<1> HIDE DEF r
<1>3. /\ r \in S /\ replacements \in Seq(S)
      /\ k \in Nat /\ DOMAIN replacements = 1..k
  BY DEF InQueue, r
<1> HIDE DEF S
<1>4. /\ replacements' \in Seq(S) /\ DOMAIN replacements' = 1..k + 1
      /\ replacements'[k + 1] = r
      /\ \A n \in 1..k : replacements'[n] = replacements[n]
  <2>1. replacements' = Append(replacements, r)
    BY DEF r
  <2> QED
    BY <1>3, <2>1
<1>5. ASSUME NEW n \in 1..k PROVE replacements[n].start # r.start
  <2>1. replacements[n] \in S
    BY <1>3
  <2>2. PICK j \in 1..Len(Parts) : replacements[n] = Replacement(j)
    BY <2>1 DEF S
  <2>3. j \in processed
    BY <1>3, <2>2 DEF InQueue
  <2> QED
    BY <1>2, <2>2, <2>3
<1>6. \A m, n \in 1..k + 1 : replacements'[m].start = replacements'[n].start => m = n
  <2> SUFFICES ASSUME NEW m \in 1..k + 1, NEW n \in 1..k + 1,
                      replacements'[m].start = replacements'[n].start
               PROVE  m = n
    OBVIOUS
  <2>1. (m \in 1..k \/ m = k + 1) /\ (n \in 1..k \/ n = k + 1)
    BY <1>3
  <2>2. CASE m \in 1..k /\ n \in 1..k
    BY <1>3, <1>4, <2>2 DEF InQueue
  <2>3. CASE m = k + 1 /\ n \in 1..k
    BY <1>4, <1>5, <2>3
  <2>4. CASE m \in 1..k /\ n = k + 1
    BY <1>4, <1>5, <2>4
  <2> QED
    BY <2>1, <2>2, <2>3, <2>4
<1>7. processed' = {j \in 1..Len(Parts) : \E n \in 1..k + 1 : replacements'[n] = Replacement(j)}
  <2>1. ASSUME NEW j \in 1..Len(Parts)
        PROVE  j \in processed' <=> \E n \in 1..k + 1 : replacements'[n] = Replacement(j)
    <3>1. j \in processed <=> \E n \in 1..k : replacements[n] = Replacement(j)
      BY <1>3 DEF InQueue
    <3>2. r = Replacement(j) <=> j = i
      BY <1>2 DEF r
    <3>3. (\E n \in 1..k + 1 : replacements'[n] = Replacement(j))
            <=> (\E n \in 1..k : replacements[n] = Replacement(j)) \/ r = Replacement(j)
      <4>1. 1..k + 1 = (1..k) \cup {k + 1}
        BY <1>3
      <4> QED
        BY <1>4, <4>1, Zenon
    <3> QED
      BY <3>1, <3>2, <3>3
  <2>2. processed' \subseteq 1..Len(Parts)
    BY DEF InQueue
  <2> QED
    BY <2>1, <2>2
<1>8. {Replacement(j) : j \in 1..Len(Parts)}' = S
  BY <1>1 DEF S
<1>9. {j \in 1..Len(Parts) : \E n \in DOMAIN replacements : replacements[n] = Replacement(j)}'
        = {j \in 1..Len(Parts) : \E n \in 1..k + 1 : replacements'[n] = Replacement(j)}
  BY <1>1, <1>4
<1> HIDE DEF k
<1> QED
  BY <1>4, <1>6, <1>7, <1>8, <1>9 DEF InQueue

-----------------------------------------------------------------------------
(* One step.                                                               *)

\* Before the first part, nothing is due.
LEMMA InitQueued == Init => Queued
<1> SUFFICES ASSUME Init PROVE Queued
  OBVIOUS
<1>1. message \in Messages /\ stage = "html" /\ next = 1 /\ replacements = <<>> /\ processed = {}
  BY DEF Init
<1>2. InQueue
  <2>1. <<>> \in Seq({Replacement(i) : i \in 1..Len(Parts)}) /\ DOMAIN <<>> = {}
    OBVIOUS
  <2> QED
    BY <1>1, <2>1 DEF InQueue
<1>3. \A i \in 1..Len(Parts) : ~Replaced(i)
  <2>1. Over = {}
    BY <1>1 DEF Over
  <2> QED
    BY <1>1, <2>1 DEF Replaced
<1> QED
  BY <1>1, <1>2, <1>3 DEF Queued

\* A part that a stage takes was not replaced before.
LEMMA TakesOnce ==
  ASSUME Queued, stage \in {"html", "recover", "plain"}, next \in 1..Len(Parts), Takes(next)
  PROVE  next \notin processed
<1>1. CASE stage = "html"
  <2>1. Over = {} /\ ~(next < next)
    BY <1>1 DEF Over
  <2> QED
    BY <1>1, <2>1 DEF Queued, Replaced
<1>2. CASE stage = "recover"
  BY <1>2 DEF Takes, IsUndecodedHtml
<1>3. CASE stage = "plain"
  BY <1>3 DEF Takes, IsPlainText
<1> QED
  BY <1>1, <1>2, <1>3

\* What is passed over needed no replacement, or has it.
LEMMA PassedOver ==
  ASSUME Queued, stage \in {"html", "recover", "plain"}, next \in 1..Len(Parts),
         ~Takes(next) \/ (stage # "plain" /\ Parts[next].oversized)
  PROVE  Replaces(stage, next) => next \in processed
<1> SUFFICES ASSUME Replaces(stage, next) PROVE next \in processed
  OBVIOUS
<1>1. CASE stage = "html"
  <2>1. Enforced(next) /\ Parts[next].html_body
    BY <1>1 DEF Replaces, HtmlStage
  <2> QED
    BY <1>1, <2>1 DEF Enforced, Takes, IsHtmlBody
<1>2. CASE stage = "recover"
  <2>1. Enforced(next) /\ ~Parts[next].html_body
    BY <1>2 DEF Replaces, HtmlStage
  <2> QED
    BY <1>2, <2>1 DEF Enforced, Takes, IsUndecodedHtml
<1>3. CASE stage = "plain"
  <2>1. EnforcedText(next)
    BY <1>3 DEF Replaces, HtmlStage
  <2> QED
    BY <1>3, <2>1 DEF EnforcedText, Takes, IsPlainText
<1> QED
  BY <1>1, <1>2, <1>3

\* Nothing is queued.
LEMMA NotQueued ==
  ASSUME Queued, Visit, next \in 1..Len(Parts), Replaces(stage, next) => next \in processed,
         replacements' = replacements, processed' = processed
  PROVE  Queued'
<1>1. /\ config' = config /\ message' = message /\ stage' = stage /\ next' = next + 1
      /\ stage # "failed" /\ stage # "done"
  BY DEF Visit
<1>2. InQueue'
  BY <1>1, InQueueKept DEF Queued
<1>3. processed = {i \in 1..Len(Parts) : Replaced(i)}
  BY <1>1 DEF Queued
<1>4. {i \in 1..Len(Parts) : Replaced(i)}'
        = {i \in 1..Len(Parts) : Replaced(i)} \cup {i \in {next} : Replaces(stage, next)}
  BY <1>1, ReplacedNext
<1>5. processed' = {i \in 1..Len(Parts) : Replaced(i)}'
  BY <1>3, <1>4
<1>6. message' \in Messages' /\ stage' # "done"
  BY <1>1 DEF Queued
<1> QED
  BY <1>2, <1>5, <1>6 DEF Queued

\* One replacement is queued if one is due.
LEMMA OneQueued ==
  ASSUME Queued, Visit, next \in 1..Len(Parts), next \notin processed, NEW changed,
         Queue(next, Cleaned(next), changed),
         (eff.mode = "Enforce" /\ changed /\ Parts[next].encodable) <=> Replaces(stage, next)
  PROVE  Queued'
<1>1. /\ config' = config /\ message' = message /\ stage' = stage /\ next' = next + 1
      /\ stage # "failed" /\ stage # "done"
  BY DEF Visit
<1>2. CASE Replaces(stage, next)
  <2>1. /\ replacements' = Append(replacements, Replacement(next))
        /\ processed' = processed \cup {next}
    BY <1>2 DEF Queue, Replacement
  <2>2. InQueue'
    BY <1>1, <2>1, InQueueOne DEF Queued
  <2>3. processed = {i \in 1..Len(Parts) : Replaced(i)}
    BY <1>1 DEF Queued
  <2>4. {i \in 1..Len(Parts) : Replaced(i)}'
          = {i \in 1..Len(Parts) : Replaced(i)} \cup {i \in {next} : Replaces(stage, next)}
    BY <1>1, ReplacedNext
  <2>5. processed' = {i \in 1..Len(Parts) : Replaced(i)}'
    BY <1>2, <2>1, <2>3, <2>4
  <2>6. message' \in Messages' /\ stage' # "done"
    BY <1>1 DEF Queued
  <2> QED
    BY <2>2, <2>5, <2>6 DEF Queued
<1>3. CASE ~Replaces(stage, next)
  <2>1. replacements' = replacements /\ processed' = processed
    BY <1>3 DEF Queue
  <2> QED
    BY <1>3, <2>1, NotQueued
<1> QED
  BY <1>2, <1>3

\* The queue holds what is due after every step.
LEMMA NextQueued == Inv /\ Queued /\ [Next]_vars => Queued'
<1> SUFFICES ASSUME Inv, Queued, [Next]_vars PROVE Queued'
  OBVIOUS
<1>1. next \in Nat \ {0} /\ Len(Parts) \in Nat
  BY PartsAre DEF Inv, Queued
<1>2. CASE PassOver
  <2>1. Visit /\ next \in 1..Len(Parts) /\ stage \in {"html", "recover", "plain"} /\ ~Takes(next)
        /\ replacements' = replacements /\ processed' = processed
    BY <1>1, <1>2 DEF PassOver, Visit
  <2> QED
    BY <2>1, PassedOver, NotQueued
<1>3. CASE SkipOversized
  <2>1. Visit /\ next \in 1..Len(Parts) /\ stage \in {"html", "recover", "plain"}
        /\ stage # "plain" /\ Parts[next].oversized
        /\ replacements' = replacements /\ processed' = processed
    BY <1>1, <1>3 DEF SkipOversized, Visit
  <2> QED
    BY <2>1, PassedOver, NotQueued
<1>4. CASE CleanHtmlPart
  <2>1. Visit /\ next \in 1..Len(Parts) /\ stage \in {"html", "recover"} /\ Takes(next)
        /\ ~Parts[next].oversized
        /\ Queue(next, CleanHtml(Parts[next].cells, eff, message.unsubscribe), FoundHtml(next))
    BY <1>1, <1>4 DEF CleanHtmlPart, Visit, FoundHtml
  <2>2. next \notin processed
    BY <2>1, TakesOnce
  <2>3. /\ IsHtml(next) /\ HtmlStage(next) = stage
        /\ Enforced(next) <=> eff.mode = "Enforce" /\ Parts[next].encodable
    <3>1. CASE stage = "html"
      BY <2>1, <3>1 DEF Takes, IsHtmlBody, IsHtml, HtmlStage, Enforced
    <3>2. CASE stage = "recover"
      BY <2>1, <3>2 DEF Takes, IsUndecodedHtml, IsHtml, HtmlStage, Enforced
    <3> QED
      BY <2>1, <3>1, <3>2
  <2>4. Replaces(stage, next) <=> Enforced(next) /\ FoundHtml(next)
    BY <2>1, <2>3 DEF Replaces
  <2>5. Queue(next, Cleaned(next), FoundHtml(next))
    BY <2>1, <2>3 DEF Cleaned
  <2> QED
    BY <2>1, <2>2, <2>3, <2>4, <2>5, OneQueued
<1>5. CASE CleanPlainPart
  <2>1. Visit /\ next \in 1..Len(Parts) /\ stage = "plain" /\ Takes(next)
        /\ Queue(next, CleanText(Parts[next].cells, eff), FoundText(next))
    BY <1>1, <1>5 DEF CleanPlainPart, Visit, FoundText
  <2>2. next \notin processed
    BY <2>1, TakesOnce
  <2>3. eff.clean_text_plain /\ Parts[next].text_body /\ Parts[next].kind = "text"
    BY <2>1 DEF Takes, IsPlainText
  <2>4. ~IsHtml(next)
    BY <2>1, <2>3, PartsAre DEF IsHtml, Queued
  <2>5. Replaces(stage, next) <=> EnforcedText(next) /\ FoundText(next)
    BY <2>1 DEF Replaces, HtmlStage
  <2>6. EnforcedText(next) <=> eff.mode = "Enforce" /\ Parts[next].encodable
    BY <2>3 DEF EnforcedText
  <2>7. Queue(next, Cleaned(next), FoundText(next))
    BY <2>1, <2>4 DEF Cleaned
  <2> QED
    BY <2>1, <2>2, <2>5, <2>6, <2>7, OneQueued
<1>6. CASE RewriterFails
  <2>1. /\ config' = config /\ message' = message /\ stage' = "failed"
        /\ replacements' = replacements /\ processed' = processed
    BY <1>6 DEF RewriterFails
  <2>2. InQueue'
    BY <2>1, InQueueKept DEF Queued
  <2> QED
    BY <2>1, <2>2 DEF Queued
<1>7. CASE EndStage \/ Finish
  <2>1. /\ config' = config /\ message' = message
        /\ replacements' = replacements /\ processed' = processed
        /\ \/ stage = "html" /\ stage' = "recover" /\ next > Len(Parts) /\ next' = 1
           \/ stage = "recover" /\ stage' = "plain" /\ next > Len(Parts) /\ next' = 1
           \/ stage = "plain" /\ stage' = "splice" /\ next > Len(Parts) /\ next' = 1
           \/ stage = "splice" /\ stage' = "done" /\ next' = next
    BY <1>7 DEF EndStage, Finish
  <2>2. InQueue'
    BY <2>1, InQueueKept DEF Queued
  <2>3. {i \in 1..Len(Parts) : Replaced(i)}' = {i \in 1..Len(Parts) : Replaced(i)}
    BY <1>1, <2>1, ReplacedOver
  <2>4. processed' = {i \in 1..Len(Parts) : Replaced(i)}'
    BY <2>1, <2>3 DEF Queued
  <2>5. stage' = "done" => result' = [body |-> Spliced(Raw), modified |-> replacements # <<>>]'
    <3>1. CASE EndStage
      BY <2>1, <3>1 DEF EndStage
    <3>2. CASE Finish
      <4>1. Raw' = Raw
        BY <2>1 DEF Raw, Parts
      <4>2. Spliced(Raw)' = Spliced(Raw)
        BY <2>1, <4>1 DEF Spliced
      <4> QED
        BY <2>1, <3>2, <4>2 DEF Finish, Modified
    <3> QED
      BY <1>7, <3>1, <3>2
  <2> QED
    BY <2>1, <2>2, <2>4, <2>5 DEF Queued
<1>8. CASE UNCHANGED vars
  <2>1. /\ config' = config /\ message' = message /\ stage' = stage /\ next' = next
        /\ replacements' = replacements /\ processed' = processed /\ result' = result
    BY <1>8 DEF vars
  <2>2. InQueue'
    BY <2>1, InQueueKept DEF Queued
  <2>3. {i \in 1..Len(Parts) : Replaced(i)}' = {i \in 1..Len(Parts) : Replaced(i)}
    <3>1. Parts' = Parts /\ Over' = Over /\ \A s, i : Replaces(s, i)' <=> Replaces(s, i)
      BY <2>1, SameParts DEF Over
    <3>2. \A i : Replaced(i)' <=> Replaced(i)
      BY <2>1, <3>1 DEF Replaced
    <3> QED
      BY <3>1, <3>2
  <2>4. Spliced(Raw)' = Spliced(Raw)
    BY <2>1 DEF Raw, Parts, Spliced
  <2> QED
    BY <2>1, <2>2, <2>3, <2>4 DEF Queued
<1> QED
  BY <1>2, <1>3, <1>4, <1>5, <1>6, <1>7, <1>8 DEF Next

\* The queue holds what is due in every state.
LEMMA QueuedInvariance == Spec => [](Inv /\ Queued)
<1>1. Init => Inv /\ Queued
  BY InitInv, InitQueued
<1>2. Inv /\ Queued /\ [Next]_vars => (Inv /\ Queued)'
  BY NextInv, NextQueued
<1> QED
  BY <1>1, <1>2, PTL DEF Spec

-----------------------------------------------------------------------------
(* The body that is delivered.                                             *)

\* The contents at the end.
Outcome == Mix(Came, New, processed)

\* The splices give the outcome laid out.
LEMMA BodyIs ==
  ASSUME Queued
  PROVE  Spliced(Raw) = Laid(Outcome) /\ Outcome \in Pieces /\ Len(Outcome) = Len(Parts)
<1> DEFINE S == Repls(Came, New)
           e == Sorted(replacements)
<1>1. /\ Came \in Pieces /\ New \in Pieces /\ Len(Came) = Len(Parts) /\ Len(New) = Len(Came)
      /\ \A i \in 1..Len(Parts) : Replacement(i) = Repl(Came, New, i)
      /\ Raw = Laid(Came)
  BY PiecesAre DEF Queued
<1>2. replacements \in Seq(S)
  <2>1. {Replacement(i) : i \in 1..Len(Parts)} = S
    BY <1>1 DEF Repls
  <2> QED
    BY <2>1 DEF Queued, InQueue
<1>3. \A x \in S : x.start \in Nat
  <2>1. ASSUME NEW i \in 1..Len(Came) PROVE Repl(Came, New, i).start \in Nat
    BY <1>1, ReplStart
  <2> QED
    BY <2>1 DEF Repls
<1>4. \A m, n \in DOMAIN replacements : replacements[m].start = replacements[n].start => m = n
  BY DEF Queued, InQueue
<1> HIDE DEF S, e
<1>5. /\ e \in Seq(S) /\ Falling(e)
      /\ \A x : (\E n \in DOMAIN replacements : replacements[n] = x) <=> (\E n \in DOMAIN e : e[n] = x)
  BY <1>2, <1>3, <1>4, SortedFalls DEF e
<1>6. Indices(Came, New, e) = processed
  <2>1. processed = {i \in 1..Len(Parts) : \E n \in DOMAIN replacements : replacements[n] = Replacement(i)}
    BY DEF Queued, InQueue
  <2>2. Indices(Came, New, e) = {i \in 1..Len(Parts) : \E n \in DOMAIN e : e[n] = Repl(Came, New, i)}
    BY <1>1 DEF Indices
  <2>3. \A i \in 1..Len(Parts) : (\E n \in DOMAIN replacements : replacements[n] = Replacement(i))
                                  <=> \E n \in DOMAIN e : e[n] = Repl(Came, New, i)
    BY <1>1, <1>5
  <2> QED
    BY <2>1, <2>2, <2>3
<1>7. FoldLeft(Splice, Laid(Came), e) = Laid(Mix(Came, New, Indices(Came, New, e)))
  BY <1>1, <1>5, SpliceAll DEF S
<1>8. Outcome \in Pieces /\ Len(Outcome) = Len(Parts)
  BY <1>1, MixIs DEF Outcome
<1> QED
  BY <1>1, <1>6, <1>7, <1>8 DEF Spliced, Outcome, e

\* What is left alone needed no change.
LEMMA UnreplacedIsSame ==
  ASSUME message \in Messages, NEW i \in 1..Len(Parts), \A s : ~Replaces(s, i)
  PROVE  Delivered(i) = Parts[i].cells
<1>1. Parts[i].cells \in Seq(Given)
  BY PartsAre
<1>2. CASE Enforced(i)
  <2>1. ~FoundHtml(i)
    BY <1>2 DEF Replaces
  <2> QED
    BY <1>1, <1>2, <2>1, HtmlChanges DEF FoundHtml, Delivered
<1>3. CASE ~Enforced(i) /\ EnforcedText(i)
  <2>1. ~FoundText(i)
    BY <1>3 DEF Replaces
  <2> QED
    BY <1>1, <1>3, <2>1, TextChanges DEF FoundText, Delivered
<1> QED
  BY <1>2, <1>3 DEF Delivered

\* What is replaced is what was to become of it, and is changed.
LEMMA ReplacedIsDue ==
  ASSUME message \in Messages, NEW i \in 1..Len(Parts), NEW s, Replaces(s, i)
  PROVE  Delivered(i) = Cleaned(i) /\ Cleaned(i) # Parts[i].cells
<1>1. /\ Parts[i].cells \in Seq(Given)
      /\ Parts[i].kind = "text" /\ Parts[i].text_body => ~Parts[i].declares_html
  BY PartsAre
<1>2. CASE Enforced(i) /\ FoundHtml(i)
  <2>1. IsHtml(i)
    BY <1>2 DEF Enforced, IsHtml
  <2> QED
    BY <1>1, <1>2, <2>1, HtmlChanges DEF FoundHtml, Cleaned, Delivered
<1>3. CASE EnforcedText(i) /\ FoundText(i)
  <2>1. ~IsHtml(i) /\ ~Enforced(i)
    BY <1>1, <1>3 DEF EnforcedText, Enforced, IsHtml
  <2> QED
    BY <1>1, <1>3, <2>1, TextChanges DEF FoundText, Cleaned, Delivered
<1> QED
  BY <1>2, <1>3 DEF Replaces

\* At the end every part is what it must have become.
LEMMA OutcomeIs ==
  ASSUME Queued, stage = "done"
  PROVE  /\ \A i \in 1..Len(Parts) : /\ Outcome[i] = Delivered(i)
                                     /\ i \in processed <=> Delivered(i) # Parts[i].cells
         /\ Outcome = [i \in DOMAIN Parts |-> Delivered(i)]
         /\ result.body = Laid(Outcome)
<1>1. message \in Messages /\ processed = {i \in 1..Len(Parts) : Replaced(i)}
  BY DEF Queued
<1>2. /\ Came \in Pieces /\ New \in Pieces /\ Len(Came) = Len(Parts) /\ Len(New) = Len(Came)
      /\ \A i \in 1..Len(Parts) : Came[i] = Parts[i].cells /\ New[i] = Cleaned(i)
  BY <1>1, PiecesAre
<1>3. ASSUME NEW i \in 1..Len(Parts)
      PROVE  Replaced(i) <=> \E s : Replaces(s, i)
  <2>1. Over = {"html", "recover", "plain"} /\ ~Replaces("done", i)
    BY DEF Over, Replaces, HtmlStage
  <2>2. \A s : Replaces(s, i) => s \in {"html", "recover", "plain"}
    BY DEF Replaces, HtmlStage
  <2> QED
    BY <2>1, <2>2 DEF Replaced
<1>4. ASSUME NEW i \in 1..Len(Parts)
      PROVE  Outcome[i] = Delivered(i) /\ (i \in processed <=> Delivered(i) # Parts[i].cells)
  <2>1. Outcome[i] = IF i \in processed THEN New[i] ELSE Came[i]
    BY <1>2 DEF Outcome, Mix
  <2>2. CASE i \in processed
    <3>1. PICK s : Replaces(s, i)
      BY <1>1, <1>3, <2>2
    <3>2. Delivered(i) = Cleaned(i) /\ Cleaned(i) # Parts[i].cells
      BY <1>1, <3>1, ReplacedIsDue
    <3> QED
      BY <1>2, <2>1, <2>2, <3>2
  <2>3. CASE i \notin processed
    <3>1. \A s : ~Replaces(s, i)
      BY <1>1, <1>3, <2>3
    <3>2. Delivered(i) = Parts[i].cells
      BY <1>1, <3>1, UnreplacedIsSame
    <3> QED
      BY <1>2, <2>1, <2>3, <3>2
  <2> QED
    BY <2>2, <2>3
<1>5. Outcome = [i \in DOMAIN Parts |-> Delivered(i)]
  <2>1. DOMAIN Parts = 1..Len(Parts)
    BY <1>1, PartsAre
  <2>2. Outcome = [i \in 1..Len(Parts) |-> Outcome[i]]
    BY <1>2 DEF Outcome, Mix
  <2> QED
    BY <1>4, <2>1, <2>2
<1>6. result.body = Laid(Outcome)
  <2>1. result = [body |-> Spliced(Raw), modified |-> replacements # <<>>]
    BY DEF Queued
  <2>2. result.body = Spliced(Raw)
    BY <2>1
  <2> QED
    BY <2>2, BodyIs
<1> QED
  BY <1>4, <1>5, <1>6

\* Every part where it was, cleaned once or as it came.
THEOREM InPlace == Spec => []PartsInPlace
<1>1. Queued => PartsInPlace
  <2> SUFFICES ASSUME Queued, stage = "done"
               PROVE  PartsInPlace
    BY DEF PartsInPlace
  <2> DEFINE Attachments == {i \in DOMAIN Parts : IsHtmlAttachment(i)}
             Now(spared) ==
               [i \in DOMAIN Parts |-> IF i \in spared THEN Parts[i].cells ELSE Delivered(i)]
  <2>1. Outcome = [i \in DOMAIN Parts |-> Delivered(i)] /\ result.body = Laid(Outcome)
    BY OutcomeIs
  <2>2. Now({}) = [i \in DOMAIN Parts |-> Delivered(i)]
    OBVIOUS
  <2>3. result.body = Laid(Now({})) /\ {} \in SUBSET Attachments
    BY <2>1, <2>2
  <2> HIDE DEF Attachments, Now
  <2>4. \E spared \in SUBSET Attachments : result.body = Laid(Now(spared))
    BY <2>3
  <2> QED
    BY <2>4 DEF PartsInPlace, Attachments, Now
<1> QED
  BY <1>1, QueuedInvariance, PTL

\* The flag is set if and only if the body differs.
THEOREM ModifiedTells == Spec => []ModifiedIsTrue
<1>1. Inv /\ Queued => ModifiedIsTrue
  <2> SUFFICES ASSUME Inv, Queued, stage = "done"
               PROVE  (result.modified <=> result.body # Raw) /\ (result.modified => eff.mode = "Enforce")
    BY DEF ModifiedIsTrue
  <2>1. result.modified <=> replacements # <<>>
    <3>1. result = [body |-> Spliced(Raw), modified |-> replacements # <<>>]
      BY DEF Queued
    <3> QED
      BY <3>1, Zenon
  <2>2. result.modified => eff.mode = "Enforce"
    BY <2>1 DEF Inv
  <2>3. /\ Came \in Pieces /\ Len(Came) = Len(Parts) /\ Raw = Laid(Came)
        /\ \A i \in 1..Len(Parts) : Came[i] = Parts[i].cells
    BY PiecesAre DEF Queued
  <2>4. /\ Outcome \in Pieces /\ Len(Outcome) = Len(Parts) /\ result.body = Laid(Outcome)
        /\ \A i \in 1..Len(Parts) : /\ Outcome[i] = Delivered(i)
                                    /\ i \in processed <=> Delivered(i) # Parts[i].cells
    BY BodyIs, OutcomeIs
  <2>5. ASSUME replacements # <<>> PROVE result.body # Raw
    <3>1. replacements \in Seq({Replacement(i) : i \in 1..Len(Parts)})
      BY DEF Queued, InQueue
    <3>2. 1 \in DOMAIN replacements /\ replacements[1] \in {Replacement(i) : i \in 1..Len(Parts)}
      BY <2>5, <3>1
    <3>3. PICK i \in 1..Len(Parts) : replacements[1] = Replacement(i)
      BY <3>2
    <3>4. i \in processed
      BY <3>2, <3>3 DEF Queued, InQueue
    <3>5. Outcome[i] # Came[i]
      BY <2>3, <2>4, <3>4
    <3>6. Segment(Laid(Outcome), i) = Outcome[i] /\ Segment(Laid(Came), i) = Came[i]
      BY <2>3, <2>4, SegmentIs
    <3> QED
      BY <2>3, <2>4, <3>5, <3>6
  <2>6. ASSUME replacements = <<>> PROVE result.body = Raw
    <3>1. processed = {}
      BY <2>6 DEF Queued, InQueue
    <3>2. \A i \in 1..Len(Parts) : Outcome[i] = Came[i]
      BY <2>3, <2>4, <3>1
    <3>3. Outcome = Came
      BY <2>3, <2>4, <3>2, SeqEqual DEF Pieces
    <3> QED
      BY <2>3, <2>4, <3>3
  <2> QED
    BY <2>1, <2>2, <2>5, <2>6
<1> QED
  BY <1>1, QueuedInvariance, PTL

-----------------------------------------------------------------------------
(* Links of what is delivered.                                             *)

\* A part of what is delivered.
LEMMA AfterIs ==
  ASSUME Queued, stage = "done", NEW i \in DOMAIN Parts
  PROVE  After(i) = Delivered(i) /\ i \in 1..Len(Parts)
<1>1. i \in 1..Len(Parts)
  BY PartsAre DEF Queued
<1>2. Outcome \in Pieces /\ Len(Outcome) = Len(Parts) /\ result.body = Laid(Outcome)
      /\ Outcome[i] = Delivered(i)
  BY <1>1, BodyIs, OutcomeIs
<1>3. Segment(Laid(Outcome), i) = Outcome[i]
  BY <1>1, <1>2, SegmentIs
<1> QED
  BY <1>1, <1>2, <1>3 DEF After

\* Links one by one.
LEMMA LinksAppend ==
  ASSUME NEW s \in Seq(Cells), NEW c \in Cells
  PROVE  /\ Links(<<>>) = <<>>
         /\ Links(Append(s, c)) = IF c.tag = "a" THEN Append(Links(s), c) ELSE Links(s)
<1>1. c \in Anchors <=> c.tag = "a"
  BY CellsAre DEF Cells, Anchors
<1>2. Select(<<>>, Anchors) = <<>>
  BY SelectBridge, Laying!SelectEmpty
<1>3. Select(Append(s, c), Anchors) =
        IF c \in Anchors THEN Append(Select(s, Anchors), c) ELSE Select(s, Anchors)
  BY SelectBridge, Laying!SelectAppend
<1> QED
  BY <1>1, <1>2, <1>3 DEF Links

\* The links among the cells of a part.
LEMMA LinksType ==
  ASSUME NEW s \in Seq(Given)
  PROVE  Links(s) \in Seq({c \in Given : c.tag = "a" /\ c.url \in Link})
<1> DEFINE A == {c \in Given : c.tag = "a" /\ c.url \in Link}
<1>1. Select(s, Anchors) \in Seq(Given \cap Anchors)
  BY SelectBridge, Laying!SelectType
<1>2. Given \cap Anchors \subseteq A
  <2>1. ASSUME NEW c \in Given, c \in Anchors PROVE c \in A
    <3>1. c.tag = "a" /\ c.url \in Link \cup {Blank}
      BY <2>1 DEF Anchors
    <3> QED
      BY <2>1, <3>1 DEF Given
  <2> QED
    BY <2>1
<1> HIDE DEF A
<1>3. Select(s, Anchors) \in Seq(A)
  BY <1>1, <1>2
<1> QED
  BY <1>3 DEF Links, A

\* The rewriter cell by cell.
LEMMA CleanHtmlAppend ==
  ASSUME NEW s \in Seq(Given), NEW c \in Given, NEW cfg, NEW sensitive
  PROVE  /\ CleanHtml(<<>>, cfg, sensitive) = <<>>
         /\ CleanHtml(Append(s, c), cfg, sensitive)
              = IF IsRemoved(c, cfg) THEN CleanHtml(s, cfg, sensitive)
                ELSE Append(CleanHtml(s, cfg, sensitive), CleanCell(c, cfg, sensitive))
<1> DEFINE T == {d \in Cells : ~IsRemoved(d, cfg)}
           f == Append(s, c)
<1>1. Remaining(<<>>, cfg) = <<>>
  BY SelectBridge, Laying!SelectEmpty DEF Remaining
<1>2. <<>> \in Seq(Given) /\ Len(<<>>) = 0
  OBVIOUS
<1>3. CleanHtml(<<>>, cfg, sensitive) = <<>>
  <2>1. CleanHtml(<<>>, cfg, sensitive) \in Seq(Cells) /\ Len(CleanHtml(<<>>, cfg, sensitive)) = Len(<<>>)
    BY <1>1, <1>2, CleanHtmlIs
  <2> QED
    BY <1>2, <2>1
<1>4. c \in T <=> ~IsRemoved(c, cfg)
  BY DEF Given
<1>5. Remaining(f, cfg) = IF IsRemoved(c, cfg) THEN Remaining(s, cfg) ELSE Append(Remaining(s, cfg), c)
  <2>1. Select(f, T) = IF c \in T THEN Append(Select(s, T), c) ELSE Select(s, T)
    BY SelectBridge, Laying!SelectAppend
  <2> QED
    BY <1>4, <2>1 DEF Remaining
<1>6. f \in Seq(Given)
  OBVIOUS
<1> HIDE DEF T, f
<1>7. CASE IsRemoved(c, cfg)
  <2>1. Remaining(f, cfg) = Remaining(s, cfg)
    BY <1>5, <1>7
  <2>2. CleanHtml(f, cfg, sensitive) = CleanHtml(s, cfg, sensitive)
    BY <2>1 DEF CleanHtml
  <2> QED
    BY <1>3, <1>7, <2>2 DEF f
<1>8. CASE ~IsRemoved(c, cfg)
  <2> DEFINE left == Remaining(s, cfg)
             all == Remaining(f, cfg)
             was == CleanHtml(s, cfg, sensitive)
             now == CleanHtml(f, cfg, sensitive)
             d == CleanCell(c, cfg, sensitive)
             to == Append(was, d)
  <2>1. all = Append(left, c)
    BY <1>5, <1>8
  <2>2. /\ left \in Seq(Given) /\ was \in Seq(Cells) /\ Len(was) = Len(left)
        /\ \A n \in DOMAIN left : was[n] = CleanCell(left[n], cfg, sensitive)
    BY CleanHtmlIs
  <2>3. /\ all \in Seq(Given) /\ now \in Seq(Cells) /\ Len(now) = Len(all)
        /\ \A n \in DOMAIN all : now[n] = CleanCell(all[n], cfg, sensitive)
    BY <1>6, CleanHtmlIs
  <2>4. d \in Cells
    BY CleanCellType
  <2> HIDE DEF left, all, was, now
  <2>5. /\ Len(all) = Len(left) + 1 /\ Len(left) \in Nat /\ DOMAIN left = 1..Len(left)
        /\ DOMAIN all = 1..Len(left) + 1 /\ all[Len(left) + 1] = c
        /\ \A n \in 1..Len(left) : all[n] = left[n]
    BY <2>1, <2>2
  <2>6. now[Len(left) + 1] = d /\ \A n \in 1..Len(left) : now[n] = was[n]
    <3>1. Len(left) + 1 \in DOMAIN all /\ \A n \in 1..Len(left) : n \in DOMAIN all
      BY <2>5
    <3> QED
      BY <2>2, <2>3, <2>5, <3>1
  <2> HIDE DEF d
  <2>7. /\ to \in Seq(Cells) /\ Len(to) = Len(now)
        /\ \A n \in 1..Len(now) : to[n] = now[n]
    BY <2>2, <2>3, <2>4, <2>5, <2>6
  <2> HIDE DEF to
  <2>8. now = to
    BY <2>3, <2>7, SeqEqual
  <2> QED
    BY <1>3, <1>8, <2>8 DEF f, was, now, d, to
<1> QED
  BY <1>7, <1>8

\* No link is lost or comes out at another place.
LEMMA LinksOfHtml ==
  ASSUME NEW cells \in Seq(Given), NEW cfg, NEW sensitive
  PROVE  LET was == Links(cells)  now == Links(CleanHtml(cells, cfg, sensitive)) IN
         /\ DOMAIN now = DOMAIN was
         /\ \A n \in DOMAIN was : now[n] = CleanCell(was[n], cfg, sensitive)
<1> DEFINE Good(was, now) == /\ was \in Seq(Cells) /\ now \in Seq(Cells) /\ Len(now) = Len(was)
                             /\ \A n \in 1..Len(was) : now[n] = CleanCell(was[n], cfg, sensitive)
           P == {s \in Seq(Given) : Good(Links(s), Links(CleanHtml(s, cfg, sensitive)))}
<1>0. \A s \in Seq(Given) : s \in Seq(Cells)
  BY DEF Given
<1>1. <<>> \in P
  <2>1. CleanHtml(<<>>, cfg, sensitive) = <<>>
    <3>1. <<>> \in Seq(Given) /\ Len(<<>>) = 0 /\ Remaining(<<>>, cfg) = <<>>
      BY SelectBridge, Laying!SelectEmpty DEF Remaining
    <3>2. CleanHtml(<<>>, cfg, sensitive) \in Seq(Cells) /\ Len(CleanHtml(<<>>, cfg, sensitive)) = Len(<<>>)
      BY <3>1, CleanHtmlIs
    <3> QED
      BY <3>1, <3>2
  <2>2. Links(<<>>) = <<>>
    BY SelectBridge, Laying!SelectEmpty DEF Links
  <2>3. Good(<<>>, <<>>) /\ <<>> \in Seq(Given)
    OBVIOUS
  <2> HIDE DEF Good
  <2> QED
    BY <2>1, <2>2, <2>3
<1>2. ASSUME NEW s \in Seq(Given), NEW c \in Given, s \in P PROVE Append(s, c) \in P
  <2> DEFINE f == Append(s, c)
             was == Links(s)
             now == Links(CleanHtml(s, cfg, sensitive))
             d == CleanCell(c, cfg, sensitive)
  <2>1. Good(was, now) /\ f \in Seq(Given)
    BY <1>2
  <2>2. Links(f) = IF c.tag = "a" THEN Append(was, c) ELSE was
    BY <1>0, LinksAppend DEF Given
  <2>3. d \in Cells /\ c \in Cells /\ (c.tag = "a" <=> d.tag = "a")
    BY CleanCellType DEF Given
  <2>4. CleanHtml(s, cfg, sensitive) \in Seq(Cells)
    BY CleanHtmlIs
  <2>5. Links(Append(CleanHtml(s, cfg, sensitive), d)) = IF d.tag = "a" THEN Append(now, d) ELSE now
    BY <2>3, <2>4, LinksAppend
  <2>6. CleanHtml(f, cfg, sensitive)
          = IF IsRemoved(c, cfg) THEN CleanHtml(s, cfg, sensitive)
            ELSE Append(CleanHtml(s, cfg, sensitive), d)
    BY CleanHtmlAppend
  <2>7. IsRemoved(c, cfg) => c.tag # "a"
    BY DEF IsRemoved
  <2>8. Links(CleanHtml(f, cfg, sensitive)) = IF c.tag = "a" THEN Append(now, d) ELSE now
    BY <2>3, <2>5, <2>6, <2>7
  <2> HIDE DEF f, was, now, P
  <2>9. Good(Append(was, c), Append(now, d))
    <3>1. /\ was \in Seq(Cells) /\ now \in Seq(Cells) /\ Len(now) = Len(was) /\ Len(was) \in Nat
          /\ \A n \in 1..Len(was) : now[n] = CleanCell(was[n], cfg, sensitive)
      BY <2>1
    <3>2. d = CleanCell(c, cfg, sensitive)
      OBVIOUS
    <3> HIDE DEF d
    <3>3. /\ Append(was, c) \in Seq(Cells) /\ Append(now, d) \in Seq(Cells)
          /\ Len(Append(was, c)) = Len(was) + 1 /\ Len(Append(now, d)) = Len(was) + 1
      BY <2>3, <3>1
    <3>4. ASSUME NEW n \in 1..Len(was) + 1
          PROVE  Append(now, d)[n] = CleanCell(Append(was, c)[n], cfg, sensitive)
      <4>1. CASE n = Len(was) + 1
        <5>1. Append(now, d)[n] = d /\ Append(was, c)[n] = c
          BY <3>1, <4>1
        <5> QED
          BY <3>2, <5>1
      <4>2. CASE n \in 1..Len(was)
        <5>1. Append(now, d)[n] = now[n] /\ Append(was, c)[n] = was[n]
          BY <3>1, <4>2
        <5> QED
          BY <3>1, <4>2, <5>1
      <4> QED
        BY <3>1, <4>1, <4>2
    <3> QED
      BY <3>3, <3>4
  <2> HIDE DEF Good
  <2>10. Good(Links(f), Links(CleanHtml(f, cfg, sensitive)))
    BY <2>1, <2>2, <2>8, <2>9
  <2> QED
    BY <2>1, <2>10 DEF P, f
<1> HIDE DEF P
<1>3. cells \in P
  BY <1>1, <1>2, Laying!SeqInduction
<1> QED
  BY <1>3 DEF P

-----------------------------------------------------------------------------
(* Links of plain texts, and of both.                                      *)

\* What plain-text cleaning makes of a cell.
Reworded(c, cfg) == IF c.tag = "a" THEN Cell("a", CleanUrl(c.url, cfg), c.ping) ELSE c

\* It is a cell, and a link if and only if it was one.
LEMMA RewordedType ==
  ASSUME NEW c \in Given, NEW cfg
  PROVE  Reworded(c, cfg) \in Cells /\ (c.tag = "a" <=> Reworded(c, cfg).tag = "a")
<1>1. c \in Cells /\ (c.tag = "a" => c.url \in Link) /\ c.ping \in BOOLEAN
  BY CellsAre DEF Given
<1>2. CASE c.tag = "a"
  <2>1. CleanUrl(c.url, cfg) \in Link \cup {Blank}
    BY <1>1, <1>2, CleanedIsLink
  <2>2. Cell("a", CleanUrl(c.url, cfg), c.ping) \in Cells
    BY <1>1, <2>1, AreCells
  <2>3. Cell("a", CleanUrl(c.url, cfg), c.ping).tag = "a"
    BY DEF Cell
  <2> QED
    BY <1>2, <2>2, <2>3 DEF Reworded
<1>3. CASE c.tag # "a"
  BY <1>1, <1>3 DEF Reworded
<1> QED
  BY <1>2, <1>3

\* Plain-text cleaning cell by cell.
LEMMA CleanTextAppend ==
  ASSUME NEW s \in Seq(Given), NEW c \in Given, NEW cfg
  PROVE  /\ CleanText(<<>>, cfg) = <<>>
         /\ CleanText(Append(s, c), cfg) = Append(CleanText(s, cfg), Reworded(c, cfg))
<1> DEFINE f == Append(s, c)
           was == CleanText(s, cfg)
           now == CleanText(f, cfg)
           d == Reworded(c, cfg)
           to == Append(was, d)
<1>1. <<>> \in Seq(Given) /\ Len(<<>>) = 0
  OBVIOUS
<1>2. CleanText(<<>>, cfg) = <<>>
  <2>1. CleanText(<<>>, cfg) \in Seq(Cells) /\ Len(CleanText(<<>>, cfg)) = Len(<<>>)
    BY <1>1, CleanTextIs
  <2> QED
    BY <1>1, <2>1
<1>3. /\ f \in Seq(Given) /\ Len(f) = Len(s) + 1 /\ Len(s) \in Nat /\ DOMAIN s = 1..Len(s)
      /\ DOMAIN f = 1..Len(s) + 1 /\ f[Len(s) + 1] = c
      /\ \A n \in 1..Len(s) : f[n] = s[n]
  OBVIOUS
<1>4. was \in Seq(Cells) /\ Len(was) = Len(s) /\ \A n \in DOMAIN s : was[n] = Reworded(s[n], cfg)
  BY CleanTextIs DEF Reworded
<1> HIDE DEF f
<1>5. now \in Seq(Cells) /\ Len(now) = Len(f) /\ \A n \in DOMAIN f : now[n] = Reworded(f[n], cfg)
  BY <1>3, CleanTextIs DEF Reworded
<1>6. d \in Cells
  BY RewordedType
<1> HIDE DEF was, now
<1>7. now[Len(s) + 1] = d /\ \A n \in 1..Len(s) : now[n] = was[n]
  <2>1. Len(s) + 1 \in DOMAIN f /\ \A n \in 1..Len(s) : n \in DOMAIN f
    BY <1>3
  <2> QED
    BY <1>3, <1>4, <1>5, <2>1
<1> HIDE DEF d
<1>8. /\ to \in Seq(Cells) /\ Len(to) = Len(now)
      /\ \A n \in 1..Len(now) : to[n] = now[n]
  BY <1>3, <1>4, <1>5, <1>6, <1>7
<1> HIDE DEF to
<1>9. now = to
  BY <1>5, <1>8, SeqEqual
<1> QED
  BY <1>2, <1>9 DEF f, was, now, d, to

\* Every link of a plain text is still where it was.
LEMMA LinksOfText ==
  ASSUME NEW cells \in Seq(Given), NEW cfg
  PROVE  LET was == Links(cells)  now == Links(CleanText(cells, cfg)) IN
         /\ DOMAIN now = DOMAIN was
         /\ \A n \in DOMAIN was : now[n] = Reworded(was[n], cfg)
<1> DEFINE Good(was, now) == /\ was \in Seq(Cells) /\ now \in Seq(Cells) /\ Len(now) = Len(was)
                             /\ \A n \in 1..Len(was) : now[n] = Reworded(was[n], cfg)
           P == {s \in Seq(Given) : Good(Links(s), Links(CleanText(s, cfg)))}
<1>0. \A s \in Seq(Given) : s \in Seq(Cells)
  BY DEF Given
<1>1. <<>> \in P
  <2>1. CleanText(<<>>, cfg) = <<>>
    <3>1. <<>> \in Seq(Given) /\ Len(<<>>) = 0
      OBVIOUS
    <3>2. CleanText(<<>>, cfg) \in Seq(Cells) /\ Len(CleanText(<<>>, cfg)) = Len(<<>>)
      BY <3>1, CleanTextIs
    <3> QED
      BY <3>1, <3>2
  <2>2. Links(<<>>) = <<>>
    BY SelectBridge, Laying!SelectEmpty DEF Links
  <2>3. Good(<<>>, <<>>) /\ <<>> \in Seq(Given)
    OBVIOUS
  <2> HIDE DEF Good
  <2> QED
    BY <2>1, <2>2, <2>3
<1>2. ASSUME NEW s \in Seq(Given), NEW c \in Given, s \in P PROVE Append(s, c) \in P
  <2> DEFINE f == Append(s, c)
             was == Links(s)
             now == Links(CleanText(s, cfg))
             d == Reworded(c, cfg)
  <2>1. Good(was, now) /\ f \in Seq(Given)
    BY <1>2
  <2>2. Links(f) = IF c.tag = "a" THEN Append(was, c) ELSE was
    BY <1>0, LinksAppend DEF Given
  <2>3. d \in Cells /\ c \in Cells /\ (c.tag = "a" <=> d.tag = "a")
    BY RewordedType DEF Given
  <2>4. CleanText(s, cfg) \in Seq(Cells)
    BY CleanTextIs
  <2>5. Links(Append(CleanText(s, cfg), d)) = IF d.tag = "a" THEN Append(now, d) ELSE now
    BY <2>3, <2>4, LinksAppend
  <2>6. CleanText(f, cfg) = Append(CleanText(s, cfg), d)
    BY CleanTextAppend
  <2>8. Links(CleanText(f, cfg)) = IF c.tag = "a" THEN Append(now, d) ELSE now
    BY <2>3, <2>5, <2>6
  <2> HIDE DEF f, was, now, P
  <2>9. Good(Append(was, c), Append(now, d))
    <3>1. /\ was \in Seq(Cells) /\ now \in Seq(Cells) /\ Len(now) = Len(was) /\ Len(was) \in Nat
          /\ \A n \in 1..Len(was) : now[n] = Reworded(was[n], cfg)
      BY <2>1
    <3>2. d = Reworded(c, cfg)
      OBVIOUS
    <3> HIDE DEF d
    <3>3. /\ Append(was, c) \in Seq(Cells) /\ Append(now, d) \in Seq(Cells)
          /\ Len(Append(was, c)) = Len(was) + 1 /\ Len(Append(now, d)) = Len(was) + 1
      BY <2>3, <3>1
    <3>4. ASSUME NEW n \in 1..Len(was) + 1
          PROVE  Append(now, d)[n] = Reworded(Append(was, c)[n], cfg)
      <4>1. CASE n = Len(was) + 1
        <5>1. Append(now, d)[n] = d /\ Append(was, c)[n] = c
          BY <3>1, <4>1
        <5> QED
          BY <3>2, <5>1
      <4>2. CASE n \in 1..Len(was)
        <5>1. Append(now, d)[n] = now[n] /\ Append(was, c)[n] = was[n]
          BY <3>1, <4>2
        <5> QED
          BY <3>1, <4>2, <5>1
      <4> QED
        BY <3>1, <4>1, <4>2
    <3> QED
      BY <3>3, <3>4
  <2> HIDE DEF Good
  <2>10. Good(Links(f), Links(CleanText(f, cfg)))
    BY <2>1, <2>2, <2>8, <2>9
  <2> QED
    BY <2>1, <2>10 DEF P, f
<1> HIDE DEF P
<1>3. cells \in P
  BY <1>1, <1>2, Laying!SeqInduction
<1> QED
  BY <1>3 DEF P

\* What a link of a message that is delivered has become.
LEMMA LinkAfter ==
  ASSUME Queued, stage = "done", NEW i \in DOMAIN Parts
  PROVE  LET was == Links(Parts[i].cells)  now == Links(After(i)) IN
         /\ DOMAIN now = DOMAIN was
         /\ \A n \in DOMAIN was :
              /\ was[n] \in Given /\ was[n].tag = "a" /\ was[n].url \in Link
              /\ now[n] = IF Enforced(i) THEN CleanCell(was[n], eff, message.unsubscribe)
                          ELSE IF EnforcedText(i) THEN Reworded(was[n], eff) ELSE was[n]
<1>1. After(i) = Delivered(i) /\ i \in 1..Len(Parts)
  BY AfterIs
<1>2. Parts[i].cells \in Seq(Given)
  BY <1>1, PartsAre DEF Queued
<1> DEFINE was == Links(Parts[i].cells)
           A == {c \in Given : c.tag = "a" /\ c.url \in Link}
<1>3. was \in Seq(A)
  BY <1>2, LinksType
<1>4. \A n \in DOMAIN was : was[n] \in A
  BY <1>3
<1>5. CASE Enforced(i)
  <2>1. /\ DOMAIN Links(After(i)) = DOMAIN was
        /\ \A n \in DOMAIN was : Links(After(i))[n] = CleanCell(was[n], eff, message.unsubscribe)
    BY <1>1, <1>2, <1>5, LinksOfHtml DEF Delivered
  <2> HIDE DEF was
  <2> QED
    BY <1>4, <1>5, <2>1 DEF was
<1>6. CASE ~Enforced(i) /\ EnforcedText(i)
  <2>1. /\ DOMAIN Links(After(i)) = DOMAIN was
        /\ \A n \in DOMAIN was : Links(After(i))[n] = Reworded(was[n], eff)
    BY <1>1, <1>2, <1>6, LinksOfText DEF Delivered
  <2> HIDE DEF was
  <2> QED
    BY <1>4, <1>6, <2>1 DEF was
<1>7. CASE ~Enforced(i) /\ ~EnforcedText(i)
  <2>1. Links(After(i)) = was
    BY <1>1, <1>7 DEF Delivered
  <2> HIDE DEF was
  <2> QED
    BY <1>4, <1>7, <2>1 DEF was
<1> QED
  BY <1>5, <1>6, <1>7

\* What holds of the configuration in effect.
LEMMA EffIs ==
  ASSUME config \in Configs
  PROVE  /\ NoHost \notin eff.blocked_domains
         /\ Untouchable => ~HandlesLinks(eff) /\ ~eff.clean_text_plain
<1>1. config \in Configuration /\ eff.blocked_domains = config.blocked_domains
  BY ConfigAssumption, EffectiveConfig DEF eff
<1>2. NoHost \notin eff.blocked_domains
  BY <1>1, RulesAreAboutLinks DEF Configuration
<1>3. Untouchable => ~HandlesLinks(eff) /\ ~eff.clean_text_plain
  BY <1>1, EffectiveConfig DEF eff, Untouchable, HandlesLinks
<1> QED
  BY <1>2, <1>3

\* An unsubscribe link of an HTML part comes out as it was.
THEOREM UnsubscribeKept == Spec => []UnsubscribeIntact
<1>1. Inv /\ Queued => UnsubscribeIntact
  <2> SUFFICES ASSUME Inv, Queued, stage = "done", NEW i \in DOMAIN Parts, Parts[i].declares_html,
                      NEW n \in DOMAIN Links(Parts[i].cells),
                      \E v \in message.unsubscribe : SameLink(Links(Parts[i].cells)[n].url, v)
               PROVE  Links(After(i))[n].url = Links(Parts[i].cells)[n].url
    BY DEF UnsubscribeIntact
  <2> DEFINE c == Links(Parts[i].cells)[n]
             d == Links(After(i))[n]
  <2>1. /\ c \in Given /\ c.tag = "a" /\ c.url \in Link
        /\ d = IF Enforced(i) THEN CleanCell(c, eff, message.unsubscribe)
               ELSE IF EnforcedText(i) THEN Reworded(c, eff) ELSE c
    BY LinkAfter
  <2>2. IsSensitive(c.url, message.unsubscribe)
    BY DEF IsSensitive
  <2>3. ~EnforcedText(i)
    <3>1. i \in 1..Len(Parts)
      BY AfterIs
    <3> QED
      BY <3>1, PartsAre DEF Queued, EnforcedText
  <2>4. NoHost \notin eff.blocked_domains
    BY EffIs DEF Inv
  <2> HIDE DEF c, d
  <2>5. CleanCell(c, eff, message.unsubscribe).url = c.url
    BY <2>1, <2>2, <2>4, CellIsSafe
  <2>6. d.url = c.url
    BY <2>1, <2>3, <2>5
  <2> QED
    BY <2>6 DEF c, d
<1> QED
  BY <1>1, QueuedInvariance, PTL

\* A link to a blocked domain that is left in HTML is an unsubscribe link.
THEOREM BlockListHolds == Spec => []BlockedNeutralised
<1>1. Inv /\ Queued => BlockedNeutralised
  <2> SUFFICES ASSUME Inv, Queued, stage = "done", NEW i \in DOMAIN Parts, Enforced(i),
                      NEW n \in DOMAIN Links(After(i)),
                      Links(After(i))[n].url.host \in eff.blocked_domains
               PROVE  \E v \in message.unsubscribe : SameLink(Links(After(i))[n].url, v)
    BY DEF BlockedNeutralised
  <2> DEFINE c == Links(Parts[i].cells)[n]
             d == Links(After(i))[n]
  <2>1. n \in DOMAIN Links(Parts[i].cells)
    BY LinkAfter
  <2>2. c.tag = "a" /\ d = CleanCell(c, eff, message.unsubscribe)
    BY <2>1, LinkAfter
  <2>3. NoHost \notin eff.blocked_domains
    BY EffIs DEF Inv
  <2>4. d.url.host \in eff.blocked_domains
    OBVIOUS
  <2> HIDE DEF c, d
  <2>5. IsSensitive(c.url, message.unsubscribe) /\ d.url = c.url
    BY <2>2, <2>3, <2>4, CellIsSafe
  <2> QED
    BY <2>5 DEF IsSensitive, d
<1> QED
  BY <1>1, QueuedInvariance, PTL

\* The links of a sensitive sender come out as they were.
THEOREM SensitiveSendersKept == Spec => []SecurityLinksSurvive
<1>1. Inv /\ Queued => SecurityLinksSurvive
  <2> SUFFICES ASSUME Inv, Queued, stage = "done", Untouchable PROVE LinksAsTheyCame
    BY DEF SecurityLinksSurvive, Untouchable
  <2>1. NoHost \notin eff.blocked_domains /\ ~HandlesLinks(eff) /\ ~eff.clean_text_plain
    BY EffIs DEF Inv
  <2>2. ASSUME NEW i \in DOMAIN Parts
        PROVE  /\ DOMAIN Links(After(i)) = DOMAIN Links(Parts[i].cells)
               /\ \A n \in DOMAIN Links(Parts[i].cells) :
                    Links(After(i))[n].url = Links(Parts[i].cells)[n].url
    <3>1. ~EnforcedText(i)
      BY <2>1 DEF EnforcedText
    <3>2. ASSUME NEW n \in DOMAIN Links(Parts[i].cells)
          PROVE  Links(After(i))[n].url = Links(Parts[i].cells)[n].url
      <4> DEFINE c == Links(Parts[i].cells)[n]
                 d == Links(After(i))[n]
      <4>1. /\ c.tag = "a"
            /\ d = IF Enforced(i) THEN CleanCell(c, eff, message.unsubscribe) ELSE c
        BY <3>1, LinkAfter
      <4> HIDE DEF c, d
      <4>2. CleanCell(c, eff, message.unsubscribe).url = c.url
        BY <2>1, <4>1, CellIsSafe
      <4>3. d.url = c.url
        BY <4>1, <4>2
      <4> QED
        BY <4>3 DEF c, d
    <3> QED
      BY <3>2, LinkAfter
  <2> QED
    BY <2>2 DEF LinksAsTheyCame, Mapped
<1> QED
  BY <1>1, QueuedInvariance, PTL

-----------------------------------------------------------------------------
(* The carve-outs.                                                         *)

\* Cleaning keeps the host and the kept parameters.
LEMMA CleanUrlKeeps ==
  ASSUME NEW w \in Link, NEW cfg
  PROVE  /\ CleanUrl(w, cfg).host = w.host
         /\ Select(CleanUrl(w, cfg).query, cfg.keep_params) = Select(w.query, cfg.keep_params)
<1> DEFINE T == {p \in Param : ~IsTracker(w.host, p, cfg)}
           K == cfg.keep_params
<1>1. w.query \in Seq(Param) /\ DOMAIN w = {"host", "query", "dest"}
  BY DEF Link
<1>2. CASE w.host \in cfg.exclude_domains
  BY <1>2 DEF CleanUrl
<1>3. CASE w.host \notin cfg.exclude_domains
  <2>1. CleanUrl(w, cfg) = [w EXCEPT !.query = Select(w.query, T)]
    BY <1>3 DEF CleanUrl
  <2>2. Select(Select(w.query, T), K) = Select(w.query, T \cap K)
    BY <1>1, SelectBridge, Laying!SelectSelect
  <2>3. \A p \in Param : p \in T \cap K <=> p \in K
    BY DEF IsTracker
  <2> HIDE DEF T, K
  <2>4. Select(w.query, T \cap K) = Select(w.query, K)
    BY <1>1, <2>3, SelectBridge, Laying!SelectSame
  <2> DEFINE q == Select(w.query, T)
  <2> HIDE DEF q
  <2>5. CleanUrl(w, cfg) = [w EXCEPT !.query = q]
    BY <2>1 DEF q
  <2>6. CleanUrl(w, cfg).host = w.host /\ CleanUrl(w, cfg).query = q
    BY <1>1, <2>5
  <2> QED
    BY <2>2, <2>4, <2>6 DEF q, K
<1> QED
  BY <1>2, <1>3

\* Where the kept parameters of what replaces a link come from.
Sources(u) == {u} \cup ToSet(u.dest) \cup ToSet(Resolved[u.host])

\* A link of an excluded domain stays, and kept parameters do, whatever a link is replaced by.
LEMMA CarvedOut ==
  ASSUME NEW u \in Link, NEW cfg, NEW sensitive,
         NEW v \in {u, CleanUrl(u, cfg), ProcessHref(u, cfg, sensitive)}
  PROVE  /\ u.host \in cfg.exclude_domains \ cfg.blocked_domains => v = u
         /\ v # Blank => \E w \in Sources(u) :
              v.host = w.host /\ Select(v.query, cfg.keep_params) = Select(w.query, cfg.keep_params)
<1> DEFINE Kept(q) == Select(q, cfg.keep_params)
           Good(x) == \E w \in Sources(u) : x.host = w.host /\ Kept(x.query) = Kept(w.query)
<1>1. ASSUME NEW w \in Link, w \in Sources(u) PROVE Good(CleanUrl(w, cfg)) /\ Good(w)
  BY <1>1, CleanUrlKeeps
<1>2. u \in Sources(u)
  BY DEF Sources
<1>3. Extracts(u) => Head(u.dest) \in Link /\ Head(u.dest) \in Sources(u)
  BY OnlyLinks DEF Extracts, Sources
<1>4. Resolved[u.host] # <<>> => Head(Resolved[u.host]) \in Link /\ Head(Resolved[u.host]) \in Sources(u)
  BY OnlyLinks DEF Sources
<1>5. Good(UnwrapRedirectUrl(u, cfg))
  <2>1. \/ UnwrapRedirectUrl(u, cfg) = CleanUrl(u, cfg)
        \/ \E w \in Link : w \in Sources(u) /\ UnwrapRedirectUrl(u, cfg) = CleanUrl(w, cfg)
    BY <1>3, <1>4 DEF UnwrapRedirectUrl, Resolves
  <2> HIDE DEF Good
  <2> QED
    BY <1>1, <1>2, <2>1
<1>6. ASSUME v # Blank PROVE Good(v)
  <2>1. v \in {u, CleanUrl(u, cfg), UnwrapRedirectUrl(u, cfg)}
    BY <1>6 DEF ProcessHref, Rewritten
  <2> HIDE DEF Good
  <2> QED
    BY <1>1, <1>2, <1>5, <2>1
<1>7. ASSUME u.host \in cfg.exclude_domains \ cfg.blocked_domains PROVE v = u
  BY <1>7 DEF CleanUrl, UnwrapRedirectUrl, ProcessHref, Rewritten
<1> QED
  BY <1>6, <1>7

\* Excluded domains' links and kept parameters are left alone everywhere.
THEOREM CarveOutsKept == Spec => []CarveOutsHold
<1>1. Inv /\ Queued => CarveOutsHold
  <2> SUFFICES ASSUME Inv, Queued, stage = "done", NEW i \in DOMAIN Parts,
                      NEW n \in DOMAIN Links(Parts[i].cells)
               PROVE  LET u == Links(Parts[i].cells)[n].url
                          v == Links(After(i))[n].url
                      IN /\ u.host \in eff.exclude_domains \ eff.blocked_domains => v = u
                         /\ v # Blank => \E w \in Sources(u) :
                              v.host = w.host /\ KeptOf(v.query) = KeptOf(w.query)
    BY DEF CarveOutsHold, Sources
  <2> DEFINE c == Links(Parts[i].cells)[n]
             d == Links(After(i))[n]
             u == c.url
             v == d.url
  <2>1. /\ c \in Given /\ c.tag = "a" /\ u \in Link
        /\ d = IF Enforced(i) THEN CleanCell(c, eff, message.unsubscribe)
               ELSE IF EnforcedText(i) THEN Reworded(c, eff) ELSE c
    BY LinkAfter
  <2> HIDE DEF c, d
  <2>2. v \in {u, CleanUrl(u, eff), ProcessHref(u, eff, message.unsubscribe)}
    <3>1. CASE Enforced(i)
      <4>1. d = CleanCell(c, eff, message.unsubscribe) /\ ~IsBeacon(c, eff)
        BY <2>1, <3>1 DEF IsBeacon
      <4> QED
        BY <4>1 DEF CleanCell, Cell
    <3>2. CASE ~Enforced(i) /\ EnforcedText(i)
      <4>1. d = Cell("a", CleanUrl(u, eff), c.ping)
        BY <2>1, <3>2 DEF Reworded
      <4> QED
        BY <4>1 DEF Cell
    <3>3. CASE ~Enforced(i) /\ ~EnforcedText(i)
      BY <2>1, <3>3
    <3> QED
      BY <3>1, <3>2, <3>3
  <2> HIDE DEF u, v
  <2>3. /\ u.host \in eff.exclude_domains \ eff.blocked_domains => v = u
        /\ v # Blank => \E w \in Sources(u) :
             v.host = w.host /\ Select(v.query, eff.keep_params) = Select(w.query, eff.keep_params)
    BY <2>1, <2>2, CarvedOut DEF u
  <2> QED
    BY <2>3 DEF u, v, c, d, KeptOf
<1> QED
  BY <1>1, QueuedInvariance, PTL

-----------------------------------------------------------------------------
(* What is counted.                                                        *)

\* Stage s takes part i on.
Due(s, i) ==
  \/ s = "html" /\ eff.clean_html /\ Parts[i].html_body /\ Parts[i].kind = "html"
  \/ /\ s = "recover" /\ eff.clean_html
     /\ ~Parts[i].html_body /\ Parts[i].declares_html /\ Parts[i].readable
  \/ s = "plain" /\ eff.clean_text_plain /\ Parts[i].text_body /\ Parts[i].kind = "text"

\* Part i was taken on by now.
Taken(i) ==
  \/ \E s \in Over : Due(s, i)
  \/ i < next /\ Due(stage, i)

AsHtml(i) == Due("html", i) \/ Due("recover", i)

\* Part i is left alone for its size.
LeftAlone(i) == AsHtml(i) /\ Parts[i].oversized

\* What is found in part i cannot be written back.
Lost(i) ==
  /\ eff.mode = "Enforce" /\ ~Parts[i].encodable /\ ~LeftAlone(i)
  /\ IF AsHtml(i) THEN FoundHtml(i) ELSE FoundText(i)

\* The message with those of the parts I cleaned that are not left alone.
Now(I) == Laid(Mix(Came, New, {i \in I : ~LeftAlone(i)}))

Trackers == {c \in Cells : c.tag \in {"img", "css"}}
Pingers  == {c \in Cells : c.ping}

\* How many cells of a row are in S.
Number(row, S) == Cardinality({n \in DOMAIN row : row[n] \in S})

Counts == [html_parts : Nat, urls_cleaned : Nat, redirects_unwrapped : Nat,
           pixels_removed : Nat, pings_stripped : Nat]

\* The counts are those of the parts I.
Tally(I) ==
  /\ stats \in Counts
  /\ stats.html_parts = Cardinality({i \in I : AsHtml(i)})
  /\ skipped = Cardinality({i \in I : LeftAlone(i)})
  /\ recovered = Cardinality({i \in I : Due("recover", i)})
  /\ unencodable = Cardinality({i \in I : Lost(i)})
  /\ stats.urls_cleaned + stats.redirects_unwrapped = Rewrites(Raw, Now(I))
  /\ stats.pixels_removed + Number(Now(I), Trackers) = Number(Raw, Trackers)
  /\ stats.pings_stripped + Number(Now(I), Pingers) = Number(Raw, Pingers)

\* The inductive invariant: what is counted is what the parts taken on differ
\* by, once cleaned; after the rewriter failed, some parts.
Tallied ==
  /\ next \in 1..Len(Parts) + 1
  /\ result.modified \in BOOLEAN
  /\ Len(replacements) = Cardinality(processed)
  /\ \E I \in SUBSET (1..Len(Parts)) :
       /\ Tally(I)
       /\ stage # "failed" => I = {i \in 1..Len(Parts) : Taken(i)}

-----------------------------------------------------------------------------
(* Counting cells of rows.                                                 *)

\* No row, and the type of the number.
LEMMA NumberEmpty == \A S : Number(<<>>, S) = 0
<1>1. \A S : {n \in DOMAIN <<>> : <<>>[n] \in S} = {}
  OBVIOUS
<1> QED
  BY <1>1, FS_EmptySet DEF Number

\* As many as there are cells, at most.
LEMMA NumberType ==
  ASSUME NEW T, NEW s \in Seq(T), NEW S
  PROVE  Number(s, S) \in Nat /\ Number(s, S) <= Len(s)
<1>1. DOMAIN s = 1..Len(s) /\ Len(s) \in Nat
  OBVIOUS
<1>2. IsFiniteSet(1..Len(s)) /\ Cardinality(1..Len(s)) = Len(s)
  BY <1>1, FS_Interval
<1> DEFINE A == {n \in DOMAIN s : s[n] \in S}
<1>3. A \in SUBSET (1..Len(s))
  BY <1>1
<1> HIDE DEF A
<1>4. IsFiniteSet(A) /\ Cardinality(A) <= Len(s)
  BY <1>2, <1>3, FS_Subset
<1>5. Cardinality(A) \in Nat
  BY <1>4, FS_CardinalityType
<1> QED
  BY <1>4, <1>5 DEF A, Number

\* One cell more.
LEMMA NumberAppend ==
  ASSUME NEW T, NEW s \in Seq(T), NEW x \in T, NEW S
  PROVE  Number(Append(s, x), S) = Number(s, S) + (IF x \in S THEN 1 ELSE 0)
<1> DEFINE A == {n \in 1..Len(s) : s[n] \in S}
           f == Append(s, x)
           B == {n \in 1..Len(f) : f[n] \in S}
<1>1. DOMAIN s = 1..Len(s) /\ DOMAIN f = 1..Len(f) /\ Len(f) = Len(s) + 1 /\ Len(s) \in Nat
      /\ f[Len(s) + 1] = x /\ \A n \in 1..Len(s) : f[n] = s[n]
  OBVIOUS
<1>2. Number(s, S) = Cardinality(A) /\ Number(f, S) = Cardinality(B)
  BY <1>1 DEF Number
<1>3. B = IF x \in S THEN A \cup {Len(s) + 1} ELSE A
  <2>1. 1..Len(f) = (1..Len(s)) \cup {Len(s) + 1}
    BY <1>1
  <2> QED
    BY <1>1, <2>1
<1>4. IsFiniteSet(1..Len(s))
  BY <1>1, FS_Interval
<1>5. IsFiniteSet(A) /\ Cardinality(A) \in Nat
  BY <1>4, FS_Subset, FS_CardinalityType
<1>6. Len(s) + 1 \notin A
  BY <1>1
<1> HIDE DEF A, B, f
<1>8. Cardinality(B) = Cardinality(A) + (IF x \in S THEN 1 ELSE 0)
  <2>1. Cardinality(A \cup {Len(s) + 1}) = Cardinality(A) + 1
    BY <1>5, <1>6, FS_AddElement
  <2> QED
    BY <1>3, <1>5, <2>1
<1> QED
  BY <1>2, <1>8 DEF f

\* One row behind another.
LEMMA NumberConcat ==
  ASSUME NEW T, NEW s \in Seq(T), NEW t \in Seq(T), NEW S
  PROVE  Number(s \o t, S) = Number(s, S) + Number(t, S)
<1> DEFINE P == {u \in Seq(T) : Number(s \o u, S) = Number(s, S) + Number(u, S)}
<1>0. Number(s, S) \in Nat
  BY NumberType
<1>1. <<>> \in P
  <2>1. s \o <<>> = s /\ <<>> \in Seq(T)
    OBVIOUS
  <2> QED
    BY <1>0, <2>1, NumberEmpty
<1>2. ASSUME NEW u \in Seq(T), NEW x \in T, u \in P PROVE Append(u, x) \in P
  <2>1. s \o u \in Seq(T) /\ Append(u, x) \in Seq(T) /\ s \o Append(u, x) = Append(s \o u, x)
    OBVIOUS
  <2>2. Number(Append(s \o u, x), S) = Number(s \o u, S) + (IF x \in S THEN 1 ELSE 0)
    BY <2>1, NumberAppend
  <2>3. Number(Append(u, x), S) = Number(u, S) + (IF x \in S THEN 1 ELSE 0) /\ Number(u, S) \in Nat
    BY NumberAppend, NumberType
  <2>4. Number(s \o u, S) = Number(s, S) + Number(u, S)
    BY <1>2
  <2>5. Number(s \o Append(u, x), S) = Number(s, S) + Number(Append(u, x), S)
    BY <1>0, <2>1, <2>2, <2>3, <2>4
  <2> QED
    BY <2>1, <2>5
<1> HIDE DEF P
<1>3. t \in P
  BY <1>1, <1>2, Laying!SeqInduction
<1> QED
  BY <1>3 DEF P

-----------------------------------------------------------------------------
(* Links, side by side.                                                    *)

\* Two rows of links, link by link.
Pairs(was, now) == [n \in 1..Len(was) |-> <<was[n], now[n]>>]

\* Links that lead elsewhere.
Elsewhere == {p \in Cells \X Cells : p[1].url # p[2].url}

\* What is side by side.
LEMMA PairsAre ==
  ASSUME NEW was \in Seq(Cells), NEW now \in Seq(Cells), Len(now) = Len(was)
  PROVE  /\ Pairs(was, now) \in Seq(Cells \X Cells) /\ Len(Pairs(was, now)) = Len(was)
         /\ DOMAIN Pairs(was, now) = 1..Len(was)
         /\ \A n \in 1..Len(was) : Pairs(was, now)[n] = <<was[n], now[n]>>
<1> DEFINE z == Pairs(was, now)
<1>1. \A n \in 1..Len(was) : was[n] \in Cells /\ now[n] \in Cells
  OBVIOUS
<1>2. Len(was) \in Nat
  OBVIOUS
<1>3. z \in [1..Len(was) -> Cells \X Cells] /\ \A n \in 1..Len(was) : z[n] = <<was[n], now[n]>>
  BY <1>1 DEF Pairs
<1> HIDE DEF z
<1>4. z \in Seq(Cells \X Cells)
  <2> DEFINE D == Cells \X Cells
  <2>1. z \in [1..Len(was) -> D]
    BY <1>3
  <2> HIDE DEF D
  <2>2. z \in UNION {[1..n -> D] : n \in Nat}
    BY <1>2, <2>1
  <2>3. z \in Seq(D)
    BY <2>2, SeqDef, Zenon
  <2> QED
    BY <2>3 DEF D
<1>5. DOMAIN z = 1..Len(was)
  BY <1>3
<1>6. Len(z) = Len(was)
  BY <1>2, <1>4, <1>5
<1> QED
  BY <1>3, <1>4, <1>5, <1>6 DEF z

\* Rows of one length, whose pairs are told apart one by one.
Even(p, q) == Len(q) = Len(p)
Spread(p, q, v, w) == Pairs(p \o v, q \o w) = Pairs(p, q) \o Pairs(v, w)

\* Rows of links behind others.
LEMMA PairsConcat ==
  ASSUME NEW a \in Seq(Cells), NEW b \in Seq(Cells), Even(a, b),
         NEW s \in Seq(Cells), NEW t \in Seq(Cells), Even(s, t)
  PROVE  Spread(a, b, s, t)
<1> SUFFICES ASSUME Len(b) = Len(a), Len(t) = Len(s)
             PROVE  Pairs(a \o s, b \o t) = Pairs(a, b) \o Pairs(s, t)
  BY DEF Even, Spread
<1> DEFINE k == Len(a)
           l == Len(s)
           x == Pairs(a, b)
           y == Pairs(s, t)
           w == a \o s
           v == b \o t
<1>1. /\ w \in Seq(Cells) /\ v \in Seq(Cells) /\ Len(w) = k + l /\ Len(v) = k + l
      /\ \A n \in 1..k : w[n] = a[n] /\ v[n] = b[n]
      /\ \A n \in 1..l : w[k + n] = s[n] /\ v[k + n] = t[n]
  <2> HIDE DEF x, y, w, v, k, l
  <2>11. a \o s \in Seq(Cells)
    OBVIOUS
  <2>12. Len(a \o s) = Len(a) + Len(s)
    BY ConcatProperties
  <2>13. \A n \in 1..Len(a) : (a \o s)[n] = a[n]
    OBVIOUS
  <2>14. \A n \in 1..Len(s) : (a \o s)[Len(a) + n] = s[n]
    OBVIOUS
  <2>21. b \o t \in Seq(Cells)
    OBVIOUS
  <2>22. Len(b \o t) = Len(b) + Len(t)
    BY ConcatProperties
  <2>23. \A n \in 1..Len(b) : (b \o t)[n] = b[n]
    OBVIOUS
  <2>24. \A n \in 1..Len(t) : (b \o t)[Len(b) + n] = t[n]
    OBVIOUS
  <2> QED
    BY <2>11, <2>12, <2>13, <2>14, <2>21, <2>22, <2>23, <2>24 DEF w, v, k, l
<1>0. k \in Nat /\ l \in Nat
  OBVIOUS
<1>2. x \in Seq(Cells \X Cells) /\ Len(x) = k /\ \A n \in 1..k : x[n] = <<a[n], b[n]>>
  BY PairsAre
<1>3. y \in Seq(Cells \X Cells) /\ Len(y) = l /\ \A n \in 1..l : y[n] = <<s[n], t[n]>>
  BY PairsAre
<1> HIDE DEF x, y, w, v, k, l
<1>4. /\ Pairs(w, v) \in Seq(Cells \X Cells) /\ Len(Pairs(w, v)) = k + l
      /\ \A n \in 1..k + l : Pairs(w, v)[n] = <<w[n], v[n]>>
  BY <1>1, PairsAre
<1>5. /\ x \o y \in Seq(Cells \X Cells) /\ Len(x \o y) = k + l
      /\ \A n \in 1..k : (x \o y)[n] = x[n]
      /\ \A n \in 1..l : (x \o y)[k + n] = y[n]
  <2> DEFINE D == Cells \X Cells
  <2>1. x \in Seq(D) /\ y \in Seq(D) /\ Len(x) = k /\ Len(y) = l
    BY <1>2, <1>3
  <2> HIDE DEF D
  <2>21. x \o y \in Seq(D)
    BY <2>1
  <2>22. Len(x \o y) = Len(x) + Len(y)
    BY <2>1
  <2>23. \A n \in 1..Len(x) : (x \o y)[n] = x[n]
    BY <2>1
  <2>24. \A n \in 1..Len(y) : (x \o y)[Len(x) + n] = y[n]
    BY <2>1
  <2> QED
    BY <2>1, <2>21, <2>22, <2>23, <2>24 DEF D
<1>6. ASSUME NEW n \in 1..k + l PROVE Pairs(w, v)[n] = (x \o y)[n]
  <2>1. CASE n \in 1..k
    <3>1. Pairs(w, v)[n] = <<a[n], b[n]>>
      BY <1>1, <1>4, <2>1
    <3> QED
      BY <1>2, <1>5, <2>1, <3>1
  <2>2. CASE n > k
    <3>1. n - k \in 1..l /\ n = k + (n - k)
      BY <1>0, <2>2
    <3> DEFINE m == n - k
    <3> HIDE DEF m
    <3>2. m \in 1..l /\ n = k + m
      BY <3>1 DEF m
    <3>3. w[n] = s[m] /\ v[n] = t[m] /\ (x \o y)[n] = y[m]
      BY <1>1, <1>5, <3>2
    <3> QED
      BY <1>3, <1>4, <3>2, <3>3
  <2>3. n \in 1..k \/ n > k
    BY <1>0
  <2> QED
    BY <2>1, <2>2, <2>3
<1>7. Pairs(w, v) = x \o y
  BY <1>0, <1>4, <1>5, <1>6, SeqEqual
<1> QED
  BY <1>7 DEF x, y, w, v
\* The links of a row.
LEMMA LinksOfRow ==
  ASSUME NEW s \in Rows
  PROVE  Links(s) \in Seq(Cells) /\ Len(Links(s)) \in Nat /\ Len(Links(s)) <= Len(s)
<1> DEFINE U == Cells \cup {Boundary}
<1>1. s \in Seq(U)
  BY DEF Rows
<1> HIDE DEF U
<1>2. Select(s, Anchors) \in Seq(U \cap Anchors)
  BY <1>1, SelectBridge, Laying!SelectType
<1>3. Len(Select(s, Anchors)) \in Nat /\ Len(Select(s, Anchors)) <= Len(s)
  BY <1>1, SelectBridge, Laying!SelectShorter
<1>4. U \cap Anchors \subseteq Cells
  BY DEF Cells
<1>5. Select(s, Anchors) \in Seq(Cells)
  BY <1>2, <1>4
<1> QED
  BY <1>3, <1>5 DEF Links

\* The links of a row behind another one.
LEMMA LinksConcat ==
  ASSUME NEW s \in Rows, NEW t \in Rows
  PROVE  Links(s \o t) = Links(s) \o Links(t)
<1> DEFINE U == Cells \cup {Boundary}
           P == {u \in Seq(U) : Links(s \o u) = Links(s) \o Links(u)}
<1>0. s \in Seq(U) /\ t \in Seq(U)
  BY DEF Rows
<1>1. <<>> \in P
  <2>1. s \o <<>> = s /\ <<>> \in Seq(U)
    BY <1>0
  <2>2. Links(<<>>) = <<>>
    BY SelectBridge, Laying!SelectEmpty DEF Links
  <2>3. Links(s) \in Seq(Cells)
    BY LinksOfRow
  <2>4. Links(s) \o <<>> = Links(s)
    BY <2>3
  <2> QED
    BY <2>1, <2>2, <2>4
<1>2. ASSUME NEW u \in Seq(U), NEW x \in U, u \in P PROVE Append(u, x) \in P
  <2>1. Links(s) \in Seq(Cells) /\ Links(u) \in Seq(Cells)
    BY LinksOfRow DEF Rows
  <2>2. Links(s \o u) = Links(s) \o Links(u)
    BY <1>2
  <2> HIDE DEF U
  <2>3. s \o u \in Seq(U) /\ Append(u, x) \in Seq(U) /\ s \o Append(u, x) = Append(s \o u, x)
    BY <1>0
  <2>4. /\ Links(Append(s \o u, x)) = IF x \in Anchors THEN Append(Links(s \o u), x) ELSE Links(s \o u)
        /\ Links(Append(u, x)) = IF x \in Anchors THEN Append(Links(u), x) ELSE Links(u)
    BY <2>3, SelectBridge, Laying!SelectAppend DEF Links
  <2>5. x \in Anchors => x \in Cells /\ Links(s) \o Append(Links(u), x) = Append(Links(s) \o Links(u), x)
    <3>1. x \in Anchors => x \in Cells
      BY DEF Cells
    <3> QED
      BY <2>1, <3>1
  <2>6. Links(s \o Append(u, x)) = Links(s) \o Links(Append(u, x))
    BY <2>2, <2>3, <2>4, <2>5
  <2> QED
    BY <2>3, <2>6
<1> HIDE DEF P, U
<1>3. t \in P
  BY <1>0, <1>1, <1>2, Laying!SeqInduction
<1> QED
  BY <1>3 DEF P

\* Two rows of as many links.
Aligned(was, now) == Len(Links(now)) = Len(Links(was))

\* Links that differ, as pairs.
LEMMA RewritesIs ==
  ASSUME NEW was \in Rows, NEW now \in Rows, Aligned(was, now)
  PROVE  Rewrites(was, now) = Number(Pairs(Links(was), Links(now)), Elsewhere)
<1> DEFINE a == Links(was)
           b == Links(now)
           z == Pairs(a, b)
<1>1. a \in Seq(Cells) /\ b \in Seq(Cells) /\ Len(b) = Len(a)
  BY LinksOfRow DEF Aligned
<1>2. Rewrites(was, now) = Cardinality({n \in DOMAIN a : a[n].url # b[n].url})
  BY DEF Rewrites
<1> HIDE DEF a, b
<1>3. DOMAIN z = 1..Len(a) /\ DOMAIN a = 1..Len(a) /\ \A n \in 1..Len(a) : z[n] = <<a[n], b[n]>>
  BY <1>1, PairsAre
<1>4. \A n \in 1..Len(a) : a[n] \in Cells /\ b[n] \in Cells
  BY <1>1
<1>5. \A n \in 1..Len(a) : <<a[n], b[n]>> \in Elsewhere <=> a[n].url # b[n].url
  BY <1>4 DEF Elsewhere
<1> HIDE DEF z
<1>6. {n \in DOMAIN a : a[n].url # b[n].url} = {n \in DOMAIN z : z[n] \in Elsewhere}
  BY <1>3, <1>5
<1> QED
  BY <1>2, <1>6 DEF Number, a, b, z

\* No more links differ than there are cells, and none from themselves.
LEMMA RewritesType ==
  ASSUME NEW was \in Rows, NEW now \in Rows, Aligned(was, now)
  PROVE  /\ Rewrites(was, now) \in Nat /\ Rewrites(was, now) <= Len(was)
         /\ Rewrites(was, was) = 0
<1> DEFINE z == Pairs(Links(was), Links(now))
<1>1. Links(was) \in Seq(Cells) /\ Links(now) \in Seq(Cells) /\ Len(Links(was)) \in Nat
      /\ Len(Links(was)) <= Len(was)
  BY LinksOfRow
<1>2. z \in Seq(Cells \X Cells) /\ Len(z) = Len(Links(was))
  BY <1>1, PairsAre DEF Aligned
<1>3. Rewrites(was, now) = Number(z, Elsewhere)
  BY RewritesIs
<1> HIDE DEF z
<1>4. Number(z, Elsewhere) \in Nat /\ Number(z, Elsewhere) <= Len(z)
  BY <1>2, NumberType
<1>5. Len(was) \in Nat
  BY DEF Rows
<1>6. Rewrites(was, was) = 0
  <2>1. {n \in DOMAIN Links(was) : Links(was)[n].url # Links(was)[n].url} = {}
    OBVIOUS
  <2> QED
    BY <2>1, FS_EmptySet DEF Rewrites
<1> QED
  BY <1>1, <1>2, <1>3, <1>4, <1>5, <1>6

\* What differs in a row is what differs in its two halves.
LEMMA RewritesConcat ==
  ASSUME NEW a \in Rows, NEW b \in Rows, NEW s \in Rows, NEW t \in Rows,
         Aligned(a, b), Aligned(s, t)
  PROVE  /\ Rewrites(a \o s, b \o t) = Rewrites(a, b) + Rewrites(s, t)
         /\ Aligned(a \o s, b \o t)
<1>1. /\ Links(a) \in Seq(Cells) /\ Links(b) \in Seq(Cells)
      /\ Links(s) \in Seq(Cells) /\ Links(t) \in Seq(Cells)
  BY LinksOfRow
<1>2. Links(a \o s) = Links(a) \o Links(s) /\ Links(b \o t) = Links(b) \o Links(t)
  BY LinksConcat
<1>3. a \o s \in Rows /\ b \o t \in Rows
  BY DEF Rows
<1>4. Aligned(a \o s, b \o t)
  <2>1. Len(Links(a) \o Links(s)) = Len(Links(a)) + Len(Links(s))
    BY <1>1, ConcatProperties
  <2>2. Len(Links(b) \o Links(t)) = Len(Links(b)) + Len(Links(t))
    BY <1>1, ConcatProperties
  <2> QED
    BY <1>2, <2>1, <2>2 DEF Aligned
<1>5. /\ Rewrites(a, b) = Number(Pairs(Links(a), Links(b)), Elsewhere)
      /\ Rewrites(s, t) = Number(Pairs(Links(s), Links(t)), Elsewhere)
  BY RewritesIs
<1>6. Rewrites(a \o s, b \o t) = Number(Pairs(Links(a \o s), Links(b \o t)), Elsewhere)
  BY <1>3, <1>4, RewritesIs
<1>7. Pairs(Links(a \o s), Links(b \o t)) = Pairs(Links(a), Links(b)) \o Pairs(Links(s), Links(t))
  <2>1. Even(Links(a), Links(b)) /\ Even(Links(s), Links(t))
    BY DEF Aligned, Even
  <2>2. Spread(Links(a), Links(b), Links(s), Links(t))
    BY <1>1, <2>1, PairsConcat
  <2> QED
    BY <1>2, <2>2 DEF Spread
<1>8. /\ Pairs(Links(a), Links(b)) \in Seq(Cells \X Cells)
      /\ Pairs(Links(s), Links(t)) \in Seq(Cells \X Cells)
  BY <1>1, PairsAre DEF Aligned
<1>9. \A x, y \in Seq(Cells \X Cells) : Number(x \o y, Elsewhere) = Number(x, Elsewhere) + Number(y, Elsewhere)
  BY NumberConcat
<1> QED
  BY <1>4, <1>5, <1>6, <1>7, <1>8, <1>9

-----------------------------------------------------------------------------
(* What is counted for a part.                                             *)

\* What is in one of two sets.
LEMMA NumberSplit ==
  ASSUME NEW T, NEW s \in Seq(T), NEW A, NEW B, A \cap B = {}
  PROVE  Number(s, A \cup B) = Number(s, A) + Number(s, B)
<1> DEFINE P == {u \in Seq(T) : Number(u, A \cup B) = Number(u, A) + Number(u, B)}
<1>1. <<>> \in P
  <2>1. <<>> \in Seq(T)
    OBVIOUS
  <2> QED
    BY <2>1, NumberEmpty
<1>2. ASSUME NEW u \in Seq(T), NEW x \in T, u \in P PROVE Append(u, x) \in P
  <2>1. /\ Number(Append(u, x), A) = Number(u, A) + (IF x \in A THEN 1 ELSE 0)
        /\ Number(Append(u, x), B) = Number(u, B) + (IF x \in B THEN 1 ELSE 0)
    BY NumberAppend
  <2>2. Number(Append(u, x), A \cup B) = Number(u, A \cup B) + (IF x \in A \cup B THEN 1 ELSE 0)
    BY NumberAppend
  <2>3. Number(u, A) \in Nat /\ Number(u, B) \in Nat
    BY NumberType
  <2>4. Number(u, A \cup B) = Number(u, A) + Number(u, B)
    BY <1>2
  <2>5. ~(x \in A /\ x \in B) /\ (x \in A \cup B <=> x \in A \/ x \in B)
    OBVIOUS
  <2>6. Number(Append(u, x), A \cup B) = Number(Append(u, x), A) + Number(Append(u, x), B)
    BY <2>1, <2>2, <2>3, <2>4, <2>5
  <2>7. Append(u, x) \in Seq(T)
    OBVIOUS
  <2> QED
    BY <2>6, <2>7
<1> HIDE DEF P
<1>3. s \in P
  BY <1>1, <1>2, Laying!SeqInduction
<1> QED
  BY <1>3 DEF P

\* What is counted among links can be counted among cells.
LEMMA NumberOfLinks ==
  ASSUME NEW s \in Seq(Cells), NEW E, E \subseteq Anchors
  PROVE  Number(Links(s), E) = Number(s, E)
<1> DEFINE P == {u \in Seq(Cells) : Number(Links(u), E) = Number(u, E)}
<1>1. <<>> \in P
  <2>1. <<>> \in Seq(Cells) /\ Links(<<>>) = <<>>
    BY SelectBridge, Laying!SelectEmpty DEF Links
  <2> QED
    BY <2>1
<1>2. ASSUME NEW u \in Seq(Cells), NEW x \in Cells, u \in P PROVE Append(u, x) \in P
  <2>1. Number(Append(u, x), E) = Number(u, E) + (IF x \in E THEN 1 ELSE 0)
    BY NumberAppend
  <2>2. Links(Append(u, x)) = IF x.tag = "a" THEN Append(Links(u), x) ELSE Links(u)
    BY LinksAppend
  <2>3. Links(u) \in Seq(Cells)
    <3>1. u \in Rows
      BY DEF Rows
    <3> QED
      BY <3>1, LinksOfRow
  <2>4. Number(Append(Links(u), x), E) = Number(Links(u), E) + (IF x \in E THEN 1 ELSE 0)
    BY <2>3, NumberAppend
  <2>5. x \in E => x.tag = "a"
    BY DEF Anchors
  <2>6. Number(u, E) \in Nat /\ Number(Links(u), E) = Number(u, E) /\ Append(u, x) \in Seq(Cells)
    BY <1>2, NumberType
  <2>7. Number(Links(Append(u, x)), E) = Number(Append(u, x), E)
    BY <2>1, <2>2, <2>4, <2>5, <2>6
  <2> QED
    BY <2>6, <2>7
<1> HIDE DEF P
<1>3. s \in P
  BY <1>1, <1>2, Laying!SeqInduction
<1> QED
  BY <1>3 DEF P

\* What an HTML part has less of, once cleaned.
LEMMA LeftOfHtml ==
  ASSUME NEW cells \in Seq(Given), NEW cfg, NEW sensitive, NEW A, NEW B,
         \A c \in Given :
           IF IsRemoved(c, cfg) THEN c \in A <=> c \in B
           ELSE IF c \in A THEN c \in B /\ CleanCell(c, cfg, sensitive) \notin B
           ELSE c \in B <=> CleanCell(c, cfg, sensitive) \in B
  PROVE  Number(cells, A) + Number(CleanHtml(cells, cfg, sensitive), B) = Number(cells, B)
<1> DEFINE Clean(u) == CleanHtml(u, cfg, sensitive)
           P == {u \in Seq(Given) : Number(u, A) + Number(Clean(u), B) = Number(u, B)}
<1>1. <<>> \in P
  <2>1. <<>> \in Seq(Given)
    OBVIOUS
  <2>2. <<>> \in Seq(Cells) /\ Remaining(<<>>, cfg) = <<>>
    BY SelectBridge, Laying!SelectEmpty DEF Remaining
  <2>3. Clean(<<>>) \in Seq(Cells) /\ Len(Clean(<<>>)) = Len(<<>>)
    BY <2>1, <2>2, CleanHtmlIs
  <2>4. Clean(<<>>) = <<>>
    BY <2>3
  <2> QED
    BY <2>1, <2>4, NumberEmpty
<1>2. ASSUME NEW u \in Seq(Given), NEW c \in Given, u \in P PROVE Append(u, c) \in P
  <2> DEFINE d == CleanCell(c, cfg, sensitive)
  <2>1. /\ Number(Append(u, c), A) = Number(u, A) + (IF c \in A THEN 1 ELSE 0)
        /\ Number(Append(u, c), B) = Number(u, B) + (IF c \in B THEN 1 ELSE 0)
    BY NumberAppend
  <2>2. Clean(u) \in Seq(Cells) /\ d \in Cells
    BY CleanHtmlIs, CleanCellType
  <2>3. Clean(Append(u, c)) = IF IsRemoved(c, cfg) THEN Clean(u) ELSE Append(Clean(u), d)
    BY CleanHtmlAppend
  <2> HIDE DEF d, Clean
  <2>4. Number(Append(Clean(u), d), B) = Number(Clean(u), B) + (IF d \in B THEN 1 ELSE 0)
    BY <2>2, NumberAppend
  <2>5. Number(u, A) \in Nat /\ Number(u, B) \in Nat /\ Number(Clean(u), B) \in Nat
    BY <2>2, NumberType
  <2>6. Number(u, A) + Number(Clean(u), B) = Number(u, B)
    BY <1>2
  <2>7. IF IsRemoved(c, cfg) THEN c \in A <=> c \in B
        ELSE IF c \in A THEN c \in B /\ d \notin B ELSE c \in B <=> d \in B
    BY DEF d
  <2>8. Number(Append(u, c), A) + Number(Clean(Append(u, c)), B) = Number(Append(u, c), B)
    <3>1. CASE IsRemoved(c, cfg)
      BY <3>1, <2>1, <2>3, <2>5, <2>6, <2>7
    <3>2. CASE ~IsRemoved(c, cfg)
      BY <3>2, <2>1, <2>3, <2>4, <2>5, <2>6, <2>7
    <3> QED
      BY <3>1, <3>2
  <2>9. Append(u, c) \in Seq(Given)
    OBVIOUS
  <2> QED
    BY <2>8, <2>9
<1> HIDE DEF P
<1>3. cells \in P
  BY <1>1, <1>2, Laying!SeqInduction
<1> QED
  BY <1>3 DEF P

\* What a text part has as much of, once cleaned.
LEMMA LeftOfText ==
  ASSUME NEW cells \in Seq(Given), NEW cfg, NEW B,
         \A c \in Given : c \in B <=> Reworded(c, cfg) \in B
  PROVE  Number(CleanText(cells, cfg), B) = Number(cells, B)
<1> DEFINE new == CleanText(cells, cfg)
<1>1. /\ DOMAIN new = DOMAIN cells
      /\ \A n \in DOMAIN cells : new[n] = Reworded(cells[n], cfg)
  BY CleanTextIs DEF Reworded
<1>2. \A n \in DOMAIN cells : cells[n] \in Given
  OBVIOUS
<1> HIDE DEF new
<1>3. {n \in DOMAIN new : new[n] \in B} = {n \in DOMAIN cells : cells[n] \in B}
  BY <1>1, <1>2
<1> QED
  BY <1>3 DEF Number, new
\* What a link is counted for shows in it.
LEMMA ChangeShows ==
  ASSUME NEW c \in Given, c.tag = "a", NEW cfg, NEW sensitive
  PROVE  Change(c, cfg, sensitive) # "none" <=> CleanCell(c, cfg, sensitive).url # c.url
<1> DEFINE url == IF Change(c, cfg, sensitive) = "none" THEN c.url
                  ELSE ProcessHref(c.url, cfg, sensitive)
           ping == c.ping /\ ~cfg.strip_link_ping
<1>1. c \in Cells /\ c.url \in Link
  BY CellsAre DEF Given
<1>2. CleanCell(c, cfg, sensitive) = Cell(c.tag, url, ping)
  BY DEF CleanCell, IsBeacon
<1>3. Cell(c.tag, url, ping).url = url
  BY CellFields
<1>4. Change(c, cfg, sensitive) # "none" => ProcessHref(c.url, cfg, sensitive) # c.url
  BY <1>1, ChangeDiffers DEF Change
<1> QED
  BY <1>2, <1>3, <1>4

\* What becomes of trackers and pings.
LEMMA CleanCellCounts ==
  ASSUME NEW c \in Given, NEW cfg, NEW sensitive
  PROVE  LET d == CleanCell(c, cfg, sensitive) IN
         /\ IsRemoved(c, cfg) => c \in Trackers /\ c \notin Pingers
         /\ ~IsRemoved(c, cfg) =>
              /\ IsBeacon(c, cfg) => c \in Trackers /\ d \notin Trackers
              /\ ~IsBeacon(c, cfg) => (c \in Trackers <=> d \in Trackers)
              /\ c.ping /\ cfg.strip_link_ping => c \in Pingers /\ d \notin Pingers
              /\ ~(c.ping /\ cfg.strip_link_ping) => (c \in Pingers <=> d \in Pingers)
<1> DEFINE d == CleanCell(c, cfg, sensitive)
           url == IF Change(c, cfg, sensitive) = "none" THEN c.url
                  ELSE ProcessHref(c.url, cfg, sensitive)
           ping == c.ping /\ ~cfg.strip_link_ping
<1>1. /\ c \in Cells /\ c.ping \in BOOLEAN
      /\ c.tag # "a" => c.ping = FALSE
  BY CellsAre DEF Given
<1>2. d \in Cells
  BY CleanCellType
<1>3. IsBeacon(c, cfg) => c.tag = "css" /\ d.tag = "text" /\ d.ping = FALSE
  <2>1. IsBeacon(c, cfg) => c.tag = "css" /\ d = Cell("text", Blank, FALSE)
    BY DEF CleanCell, Words, IsBeacon
  <2>2. Cell("text", Blank, FALSE).tag = "text" /\ Cell("text", Blank, FALSE).ping = FALSE
    BY DEF Cell
  <2> HIDE DEF d
  <2> QED
    BY <2>1, <2>2
<1>4. ~IsBeacon(c, cfg) => d.tag = c.tag /\ d.ping = ping
  <2>1. ~IsBeacon(c, cfg) => d = Cell(c.tag, url, ping)
    BY DEF CleanCell
  <2>2. Cell(c.tag, url, ping).tag = c.tag /\ Cell(c.tag, url, ping).ping = ping
    BY CellFields
  <2> HIDE DEF d, url, ping
  <2> QED
    BY <2>1, <2>2
<1>5. IsRemoved(c, cfg) => c.tag = "img"
  BY DEF IsRemoved
<1> HIDE DEF d, url
<1>6. /\ c \in Trackers <=> c.tag \in {"img", "css"}
      /\ d \in Trackers <=> d.tag \in {"img", "css"}
      /\ c \in Pingers <=> c.ping
      /\ d \in Pingers <=> d.ping
  BY <1>1, <1>2 DEF Trackers, Pingers
<1>7. IsRemoved(c, cfg) => c \in Trackers /\ c \notin Pingers
  BY <1>1, <1>5, <1>6
<1>8. IsBeacon(c, cfg) => c \in Trackers /\ d \notin Trackers
  BY <1>3, <1>6
<1>9. ~IsBeacon(c, cfg) => (c \in Trackers <=> d \in Trackers)
  BY <1>4, <1>6
<1>10. c.ping /\ cfg.strip_link_ping => c \in Pingers /\ d \notin Pingers
  <2>1. c.ping => ~IsBeacon(c, cfg)
    BY <1>1, <1>3
  <2> QED
    BY <1>4, <1>6, <2>1, Zenon
<1>11. ~(c.ping /\ cfg.strip_link_ping) => (c \in Pingers <=> d \in Pingers)
  <2>1. CASE IsBeacon(c, cfg)
    BY <1>1, <1>3, <1>6, <2>1
  <2>2. CASE ~IsBeacon(c, cfg)
    BY <1>4, <1>6, <2>2, Zenon
  <2> QED
    BY <2>1, <2>2
<1> QED
  BY <1>7, <1>8, <1>9, <1>10, <1>11 DEF d

\* The links of cleaned HTML line up, and as many differ as are counted.
LEMMA HtmlRewrites ==
  ASSUME NEW cells \in Seq(Given), NEW cfg, NEW sensitive
  PROVE  LET new == CleanHtml(cells, cfg, sensitive) IN
         /\ Aligned(cells, new)
         /\ Rewrites(cells, new) = Number(cells, {c \in Anchors : Change(c, cfg, sensitive) # "none"})
<1> DEFINE new == CleanHtml(cells, cfg, sensitive)
           was == Links(cells)
           now == Links(new)
           E == {c \in Anchors : Change(c, cfg, sensitive) # "none"}
           A == {c \in Given : c.tag = "a" /\ c.url \in Link}
<1>1. was \in Seq(A)
  BY LinksType
<1>2. DOMAIN now = DOMAIN was /\ \A n \in DOMAIN was : now[n] = CleanCell(was[n], cfg, sensitive)
  BY LinksOfHtml
<1>3. new \in Seq(Cells) /\ cells \in Seq(Cells)
  <2>1. new \in Seq(Cells)
    BY CleanHtmlIs
  <2>2. cells \in Seq(Cells)
    BY DEF Given
  <2> QED
    BY <2>1, <2>2
<1>4. Rewrites(cells, new) = Cardinality({n \in DOMAIN was : was[n].url # now[n].url})
  BY DEF Rewrites
<1>5. now \in Seq(Cells) /\ was \in Seq(Cells)
  BY <1>3, LinksOfRow DEF Rows
<1>6. Number(was, E) = Number(cells, E)
  BY <1>3, NumberOfLinks
<1> HIDE DEF was, now, new
<1>7. \A n \in DOMAIN was : was[n] \in A
  BY <1>1
<1>8. Len(now) = Len(was)
  BY <1>2, <1>5
<1>9. ASSUME NEW n \in DOMAIN was PROVE was[n].url # now[n].url <=> was[n] \in E
  <2> DEFINE c == was[n]
  <2>1. c \in A
    BY <1>7
  <2> HIDE DEF c
  <2>2. c \in Given /\ c.tag = "a" /\ c \in Cells
    BY <2>1 DEF Given
  <2>3. c \in Anchors
    BY <2>2 DEF Cells, Anchors
  <2>4. Change(c, cfg, sensitive) # "none" <=> CleanCell(c, cfg, sensitive).url # c.url
    BY <2>2, ChangeShows
  <2>5. now[n] = CleanCell(c, cfg, sensitive)
    BY <1>2 DEF c
  <2> QED
    BY <2>3, <2>4, <2>5 DEF c
<1> HIDE DEF E
<1>10. {n \in DOMAIN was : was[n].url # now[n].url} = {n \in DOMAIN was : was[n] \in E}
  BY <1>9
<1>11. Rewrites(cells, new) = Number(was, E)
  BY <1>4, <1>10 DEF Number
<1> QED
  BY <1>6, <1>8, <1>11 DEF Aligned, was, now, new, E

\* The same of plain text.
LEMMA TextRewrites ==
  ASSUME NEW cells \in Seq(Given), NEW cfg
  PROVE  LET new == CleanText(cells, cfg) IN
         /\ Aligned(cells, new)
         /\ Rewrites(cells, new) = Number(cells, {c \in Anchors : CleanUrl(c.url, cfg) # c.url})
<1> DEFINE new == CleanText(cells, cfg)
           was == Links(cells)
           now == Links(new)
           E == {c \in Anchors : CleanUrl(c.url, cfg) # c.url}
           A == {c \in Given : c.tag = "a" /\ c.url \in Link}
<1>1. was \in Seq(A)
  BY LinksType
<1>2. DOMAIN now = DOMAIN was /\ \A n \in DOMAIN was : now[n] = Reworded(was[n], cfg)
  BY LinksOfText
<1>3. new \in Seq(Cells) /\ cells \in Seq(Cells)
  <2>1. new \in Seq(Cells)
    BY CleanTextIs
  <2>2. cells \in Seq(Cells)
    BY DEF Given
  <2> QED
    BY <2>1, <2>2
<1>4. Rewrites(cells, new) = Cardinality({n \in DOMAIN was : was[n].url # now[n].url})
  BY DEF Rewrites
<1>5. now \in Seq(Cells) /\ was \in Seq(Cells)
  BY <1>3, LinksOfRow DEF Rows
<1>6. Number(was, E) = Number(cells, E)
  BY <1>3, NumberOfLinks
<1> HIDE DEF was, now, new
<1>7. \A n \in DOMAIN was : was[n] \in A
  BY <1>1
<1>8. Len(now) = Len(was)
  BY <1>2, <1>5
<1>9. ASSUME NEW n \in DOMAIN was PROVE was[n].url # now[n].url <=> was[n] \in E
  <2> DEFINE c == was[n]
  <2>1. c \in A
    BY <1>7
  <2> HIDE DEF c
  <2>2. c \in Given /\ c.tag = "a" /\ c \in Cells
    BY <2>1 DEF Given
  <2>3. c \in Anchors
    BY <2>2 DEF Cells, Anchors
  <2>4. Reworded(c, cfg).url = CleanUrl(c.url, cfg)
    BY <2>2, CellFields DEF Reworded
  <2>5. now[n] = Reworded(c, cfg)
    BY <1>2 DEF c
  <2> QED
    BY <2>3, <2>4, <2>5 DEF c
<1> HIDE DEF E
<1>10. {n \in DOMAIN was : was[n].url # now[n].url} = {n \in DOMAIN was : was[n] \in E}
  BY <1>9
<1>11. Rewrites(cells, new) = Number(was, E)
  BY <1>4, <1>10 DEF Number
<1> QED
  BY <1>6, <1>8, <1>11 DEF Aligned, was, now, new, E
\* What HtmlStats counts in a part is what cleaning the part makes of it.
LEMMA HtmlTally ==
  ASSUME NEW cells \in Seq(Given)
  PROVE  LET found == HtmlStats(cells)
             new == CleanHtml(cells, eff, message.unsubscribe) IN
         /\ found \in Counts /\ found.html_parts = 1
         /\ found.urls_cleaned + found.redirects_unwrapped = Rewrites(cells, new)
         /\ found.pixels_removed + Number(new, Trackers) = Number(cells, Trackers)
         /\ found.pings_stripped + Number(new, Pingers) = Number(cells, Pingers)
<1> DEFINE Changed(c) == Change(c, eff, message.unsubscribe)
           new == CleanHtml(cells, eff, message.unsubscribe)
           K == {c \in Given : Changed(c) = "Cleaned"}
           U == {c \in Given : Changed(c) = "Unwrapped"}
           R == {c \in Given : IsRemoved(c, eff) \/ IsBeacon(c, eff)}
           W == {c \in Given : c.ping /\ eff.strip_link_ping}
           E == {c \in Anchors : Changed(c) # "none"}
<1>1. \A n \in DOMAIN cells : cells[n] \in Given
  OBVIOUS
<1>2. HtmlStats(cells) = [html_parts |-> 1, urls_cleaned |-> Number(cells, K),
                          redirects_unwrapped |-> Number(cells, U),
                          pixels_removed |-> Number(cells, R), pings_stripped |-> Number(cells, W)]
  <2>1. HowMany(cells, LAMBDA c : Changed(c) = "Cleaned") = Number(cells, K)
    BY <1>1 DEF HowMany, Number
  <2>2. HowMany(cells, LAMBDA c : Changed(c) = "Unwrapped") = Number(cells, U)
    BY <1>1 DEF HowMany, Number
  <2>3. HowMany(cells, LAMBDA c : IsRemoved(c, eff) \/ IsBeacon(c, eff)) = Number(cells, R)
    BY <1>1 DEF HowMany, Number
  <2>4. HowMany(cells, LAMBDA c : c.ping /\ eff.strip_link_ping) = Number(cells, W)
    BY <1>1 DEF HowMany, Number
  <2> QED
    BY <2>1, <2>2, <2>3, <2>4 DEF HtmlStats
<1>3. \A c : Changed(c) \in {"none", "Cleaned", "Unwrapped"}
  BY DEF Change, HrefChange
<1>4. Number(cells, K) + Number(cells, U) = Rewrites(cells, new)
  <2>1. K \cap U = {}
    OBVIOUS
  <2>2. Number(cells, K \cup U) = Number(cells, K) + Number(cells, U)
    BY <2>1, NumberSplit
  <2>3. \A c \in Given : c \in K \cup U <=> c \in E
    <3>1. \A c \in Given : Changed(c) # "none" => c \in Anchors
      BY DEF Change, Given, Cells, Anchors
    <3> QED
      BY <1>3, <3>1
  <2>4. Rewrites(cells, new) = Number(cells, E)
    BY HtmlRewrites
  <2> HIDE DEF K, U, E, new
  <2>5. Number(cells, K \cup U) = Number(cells, E)
    BY <1>1, <2>3 DEF Number
  <2> QED
    BY <2>2, <2>4, <2>5
<1>5. Number(cells, R) + Number(new, Trackers) = Number(cells, Trackers)
  <2>1. ASSUME NEW c \in Given
        PROVE  IF IsRemoved(c, eff) THEN c \in R <=> c \in Trackers
               ELSE IF c \in R THEN c \in Trackers /\ CleanCell(c, eff, message.unsubscribe) \notin Trackers
               ELSE c \in Trackers <=> CleanCell(c, eff, message.unsubscribe) \in Trackers
    BY CleanCellCounts
  <2> HIDE DEF R
  <2> QED
    BY <2>1, LeftOfHtml
<1>6. Number(cells, W) + Number(new, Pingers) = Number(cells, Pingers)
  <2>1. ASSUME NEW c \in Given
        PROVE  IF IsRemoved(c, eff) THEN c \in W <=> c \in Pingers
               ELSE IF c \in W THEN c \in Pingers /\ CleanCell(c, eff, message.unsubscribe) \notin Pingers
               ELSE c \in Pingers <=> CleanCell(c, eff, message.unsubscribe) \in Pingers
    <3>1. c.ping => c \in Pingers
      BY DEF Given, Pingers
    <3> QED
      BY <3>1, CleanCellCounts
  <2> HIDE DEF W
  <2> QED
    BY <2>1, LeftOfHtml
<1>7. /\ Number(cells, K) \in Nat /\ Number(cells, U) \in Nat
      /\ Number(cells, R) \in Nat /\ Number(cells, W) \in Nat
  BY NumberType
<1> HIDE DEF K, U, R, W, new
<1> QED
  BY <1>2, <1>4, <1>5, <1>6, <1>7 DEF Counts, new

\* What TextStats counts in a part is what cleaning the part makes of it.
LEMMA TextTally ==
  ASSUME NEW cells \in Seq(Given)
  PROVE  LET found == TextStats(cells)
             new == CleanText(cells, eff) IN
         /\ found \in Counts /\ found.html_parts = 0
         /\ found.urls_cleaned + found.redirects_unwrapped = Rewrites(cells, new)
         /\ found.pixels_removed + Number(new, Trackers) = Number(cells, Trackers)
         /\ found.pings_stripped + Number(new, Pingers) = Number(cells, Pingers)
<1> DEFINE new == CleanText(cells, eff)
           E == {c \in Anchors : CleanUrl(c.url, eff) # c.url}
<1>1. \A n \in DOMAIN cells : cells[n] \in Given
  OBVIOUS
<1>2. Rewrites(cells, new) = Number(cells, E)
  BY TextRewrites
<1>3. TextStats(cells) = [html_parts |-> 0, urls_cleaned |-> Number(cells, E), redirects_unwrapped |-> 0,
                          pixels_removed |-> 0, pings_stripped |-> 0]
  <2>1. \A c \in Given : (c.tag = "a" /\ CleanUrl(c.url, eff) # c.url) <=> c \in E
    BY DEF Given, Cells, Anchors
  <2>2. HowMany(cells, LAMBDA c : c.tag = "a" /\ CleanUrl(c.url, eff) # c.url) = Number(cells, E)
    <3> HIDE DEF E
    <3> QED
      BY <1>1, <2>1 DEF HowMany, Number
  <2> HIDE DEF E
  <2> QED
    BY <2>2 DEF TextStats, NoStats
<1>4. \A c \in Given : /\ c \in Trackers <=> Reworded(c, eff) \in Trackers
                       /\ c \in Pingers <=> Reworded(c, eff) \in Pingers
  <2> SUFFICES ASSUME NEW c \in Given
               PROVE  /\ c \in Trackers <=> Reworded(c, eff) \in Trackers
                      /\ c \in Pingers <=> Reworded(c, eff) \in Pingers
    OBVIOUS
  <2>1. c \in Cells /\ Reworded(c, eff) \in Cells
    BY RewordedType DEF Given
  <2>2. Reworded(c, eff).tag = c.tag /\ Reworded(c, eff).ping = c.ping
    BY CellFields DEF Reworded
  <2> QED
    BY <2>1, <2>2 DEF Trackers, Pingers
<1>5. Number(new, Trackers) = Number(cells, Trackers)
  BY <1>4, LeftOfText
<1>6. Number(new, Pingers) = Number(cells, Pingers)
  BY <1>4, LeftOfText
<1>7. Number(cells, E) \in Nat /\ Number(cells, Trackers) \in Nat /\ Number(cells, Pingers) \in Nat
  BY NumberType
<1> HIDE DEF E, new
<1> QED
  BY <1>2, <1>3, <1>5, <1>6, <1>7 DEF Counts, new

-----------------------------------------------------------------------------
(* What is counted for a message.                                          *)

\* Rows of parts whose links line up.
LEMMA LaidAligned ==
  ASSUME NEW p \in Pieces, NEW m \in Pieces, Len(m) = Len(p),
         \A j \in 1..Len(p) : Aligned(p[j], m[j])
  PROVE  Aligned(Laid(p), Laid(m))
<1> DEFINE Cut(s, k) == SubSeq(s, 1, k)
           S == {k \in Nat : k <= Len(p) => Aligned(Laid(Cut(p, k)), Laid(Cut(m, k)))}
<1>0. Len(p) \in Nat /\ p \in Seq(Seq(Cells)) /\ m \in Seq(Seq(Cells))
  BY DEF Pieces
<1>1. 0 \in S
  <2>1. Cut(p, 0) = <<>> /\ Cut(m, 0) = <<>>
    BY <1>0
  <2> QED
    BY <2>1 DEF Aligned
<1>2. ASSUME NEW k \in Nat, k \in S PROVE k + 1 \in S
  <2> SUFFICES ASSUME k + 1 <= Len(p) PROVE Aligned(Laid(Cut(p, k + 1)), Laid(Cut(m, k + 1)))
    OBVIOUS
  <2>1. ASSUME NEW s \in Pieces, Len(s) = Len(p)
        PROVE  /\ Cut(s, k) \in Pieces /\ s[k + 1] \in Seq(Cells)
               /\ Laid(Cut(s, k)) \in Rows /\ s[k + 1] \in Rows
               /\ Laid(Cut(s, k + 1)) = (Laid(Cut(s, k)) \o s[k + 1]) \o <<Boundary>>
    <3>1. s \in Seq(Seq(Cells)) /\ k + 1 \in 1..Len(s) /\ k <= Len(s) /\ Len(s) \in Nat
      BY <1>0, <2>1 DEF Pieces
    <3>2. Cut(s, k) \in Seq(Seq(Cells)) /\ s[k + 1] \in Seq(Cells)
          /\ Cut(s, k + 1) = Append(Cut(s, k), s[k + 1])
      BY <3>1
    <3>3. Cut(s, k) \in Pieces /\ s[k + 1] \in Rows
      BY <3>2 DEF Pieces, Rows
    <3> HIDE DEF Cut
    <3>4. Laid(Append(Cut(s, k), s[k + 1])) = (Laid(Cut(s, k)) \o s[k + 1]) \o <<Boundary>>
      BY <3>2, <3>3, LaidAppend
    <3>5. Laid(Cut(s, k)) \in Rows
      BY <3>3, LaidType
    <3> QED
      BY <3>2, <3>3, <3>4, <3>5
  <2>2. Aligned(Laid(Cut(p, k)), Laid(Cut(m, k)))
    BY <1>0, <1>2
  <2>3. Aligned(p[k + 1], m[k + 1])
    <3>1. k + 1 \in 1..Len(p)
      BY <1>0
    <3> QED
      BY <3>1
  <2>4. Aligned(<<Boundary>>, <<Boundary>>) /\ <<Boundary>> \in Rows
    BY DEF Aligned, Rows
  <2> DEFINE a == Laid(Cut(p, k))
             b == Laid(Cut(m, k))
             s == p[k + 1]
             t == m[k + 1]
  <2>5. a \in Rows /\ b \in Rows /\ s \in Rows /\ t \in Rows
    BY <2>1
  <2>6. Laid(Cut(p, k + 1)) = (a \o s) \o <<Boundary>> /\ Laid(Cut(m, k + 1)) = (b \o t) \o <<Boundary>>
    BY <2>1
  <2>7. Aligned(a, b) /\ Aligned(s, t)
    BY <2>2, <2>3
  <2> HIDE DEF a, b, s, t, Cut
  <2>8. Aligned(a \o s, b \o t)
    BY <2>5, <2>7, RewritesConcat
  <2>9. a \o s \in Rows /\ b \o t \in Rows
    BY <2>5 DEF Rows
  <2>10. Aligned((a \o s) \o <<Boundary>>, (b \o t) \o <<Boundary>>)
    BY <2>4, <2>8, <2>9, RewritesConcat
  <2> QED
    BY <2>6, <2>10
<1> HIDE DEF S
<1>3. Len(p) \in S
  BY <1>0, <1>1, <1>2, Laying!Induction
<1>4. Cut(p, Len(p)) = p
  BY <1>0
<1>5. Cut(m, Len(p)) = m
  BY <1>0
<1> HIDE DEF Cut
<1>6. Aligned(Laid(Cut(p, Len(p))), Laid(Cut(m, Len(p))))
  BY <1>0, <1>3 DEF S
<1> QED
  BY <1>4, <1>5, <1>6

\* Rows r and s differ by as many cells, of any set, as the parts x and y.
Balanced(r, s, x, y) == \A B : Number(r, B) + Number(x, B) = Number(s, B) + Number(y, B)

\* What one more part of the row makes of the counts.
LEMMA RowTally ==
  ASSUME NEW p \in Pieces, NEW m \in Pieces, NEW q \in Pieces, Len(m) = Len(p), Len(q) = Len(p),
         \A j \in 1..Len(p) : Aligned(p[j], m[j]),
         NEW i \in 1..Len(p), m[i] = p[i], Aligned(p[i], q[i]),
         \A j \in 1..Len(p) : j # i => q[j] = m[j]
  PROVE  /\ Rewrites(Laid(p), Laid(q)) = Rewrites(Laid(p), Laid(m)) + Rewrites(p[i], q[i])
         /\ Balanced(Laid(q), Laid(m), p[i], q[i])
<1> DEFINE a == SubSeq(p, 1, i - 1)
           b == SubSeq(p, i + 1, Len(p))
           c == SubSeq(m, 1, i - 1)
           d == SubSeq(m, i + 1, Len(m))
<1>1. /\ a \in Pieces /\ b \in Pieces /\ p[i] \in Rows /\ Laid(p) = Laid(a) \o p[i] \o Laid(b)
      /\ c \in Pieces /\ d \in Pieces /\ Laid(m) = Laid(c) \o m[i] \o Laid(d)
  BY LaidAround
<1>2. SubSeq(q, 1, i - 1) = c /\ SubSeq(q, i + 1, Len(q)) = d
  <2>1. /\ q \in Seq(Seq(Cells)) /\ m \in Seq(Seq(Cells)) /\ i - 1 \in Nat /\ 1 \in Nat \ {0}
        /\ i - 1 <= Len(q) /\ i - 1 <= Len(m) /\ Len(m) \in Nat
        /\ i + 1 \in Nat \ {0} /\ Len(m) <= Len(q)
    BY DEF Pieces
  <2>2. \A j \in 1..i - 1 : q[j] = m[j]
    BY <2>1
  <2>3. \A j \in i + 1..Len(m) : q[j] = m[j]
    BY <2>1
  <2>4. SubSeq(q, 1, i - 1) = c
    BY <2>1, <2>2, Laying!SameCut
  <2>5. SubSeq(q, i + 1, Len(m)) = SubSeq(m, i + 1, Len(m))
    BY <2>1, <2>3, Laying!SameCut
  <2> QED
    BY <2>4, <2>5
<1>3. q[i] \in Rows /\ Laid(q) = Laid(c) \o q[i] \o Laid(d)
  <2>1. q[i] \in Rows /\ Laid(q) = Laid(SubSeq(q, 1, i - 1)) \o q[i] \o Laid(SubSeq(q, i + 1, Len(q)))
    BY LaidAround
  <2> HIDE DEF c, d
  <2> QED
    BY <1>2, <2>1
<1>4. Aligned(Laid(a), Laid(c)) /\ Aligned(Laid(b), Laid(d))
  <2>1. p \in Seq(Seq(Cells)) /\ m \in Seq(Seq(Cells)) /\ i \in 1..Len(m) /\ Len(p) \in Nat
    BY DEF Pieces
  <2>2. /\ Len(a) = i - 1 /\ Len(b) = Len(p) - i
        /\ \A k \in 1..i - 1 : a[k] = p[k]
        /\ \A k \in 1..Len(p) - i : b[k] = p[i + k]
    BY <2>1, Laying!Around
  <2>3. /\ Len(c) = i - 1 /\ Len(d) = Len(m) - i
        /\ \A k \in 1..i - 1 : c[k] = m[k]
        /\ \A k \in 1..Len(m) - i : d[k] = m[i + k]
    BY <2>1, Laying!Around
  <2>4. /\ \A k \in 1..i - 1 : k \in 1..Len(p)
        /\ \A k \in 1..Len(p) - i : i + k \in 1..Len(p)
    BY <2>1
  <2> HIDE DEF a, b, c, d
  <2>5. Len(c) = Len(a) /\ \A k \in 1..Len(a) : Aligned(a[k], c[k])
    BY <2>2, <2>3, <2>4
  <2>6. Len(d) = Len(b) /\ \A k \in 1..Len(b) : Aligned(b[k], d[k])
    BY <2>2, <2>3, <2>4
  <2>7. Aligned(Laid(a), Laid(c))
    BY <1>1, <2>5, LaidAligned
  <2>8. Aligned(Laid(b), Laid(d))
    BY <1>1, <2>6, LaidAligned
  <2> QED
    BY <2>7, <2>8
<1> DEFINE A == Laid(a)
           B == Laid(b)
           C == Laid(c)
           D == Laid(d)
           x == p[i]
           y == q[i]
<1>5. A \in Rows /\ B \in Rows /\ C \in Rows /\ D \in Rows /\ x \in Rows /\ y \in Rows
  <2>1. A \in Rows
    BY <1>1, LaidType
  <2>2. B \in Rows
    BY <1>1, LaidType
  <2>3. C \in Rows
    BY <1>1, LaidType
  <2>4. D \in Rows
    BY <1>1, LaidType
  <2> QED
    BY <1>1, <1>3, <2>1, <2>2, <2>3, <2>4
<1>6. /\ Laid(p) = (A \o x) \o B /\ Laid(m) = (C \o x) \o D /\ Laid(q) = (C \o y) \o D
  BY <1>1, <1>3
<1>7. Aligned(A, C) /\ Aligned(B, D) /\ Aligned(x, y) /\ Aligned(x, x)
  BY <1>4 DEF Aligned
<1> HIDE DEF a, b, c, d, A, B, C, D, x, y
<1>8. A \o x \in Rows /\ C \o x \in Rows /\ C \o y \in Rows
  BY <1>5 DEF Rows
<1>9. /\ Rewrites(A \o x, C \o y) = Rewrites(A, C) + Rewrites(x, y) /\ Aligned(A \o x, C \o y)
      /\ Rewrites(A \o x, C \o x) = Rewrites(A, C) + Rewrites(x, x) /\ Aligned(A \o x, C \o x)
  BY <1>5, <1>7, RewritesConcat
<1>10. /\ Rewrites((A \o x) \o B, (C \o y) \o D) = Rewrites(A \o x, C \o y) + Rewrites(B, D)
       /\ Rewrites((A \o x) \o B, (C \o x) \o D) = Rewrites(A \o x, C \o x) + Rewrites(B, D)
  BY <1>5, <1>7, <1>8, <1>9, RewritesConcat
<1>11. /\ Rewrites(A, C) \in Nat /\ Rewrites(B, D) \in Nat /\ Rewrites(x, y) \in Nat /\ Rewrites(x, x) = 0
  BY <1>5, <1>7, RewritesType
<1>12. Rewrites(Laid(p), Laid(q)) = Rewrites(Laid(p), Laid(m)) + Rewrites(x, y)
  BY <1>6, <1>9, <1>10, <1>11
<1>13. ASSUME NEW S PROVE Number(Laid(q), S) + Number(x, S) = Number(Laid(m), S) + Number(y, S)
  <2>1. \A r, s \in Rows : Number(r \o s, S) = Number(r, S) + Number(s, S)
    BY NumberConcat DEF Rows
  <2>2. \A r \in Rows : Number(r, S) \in Nat
    BY NumberType DEF Rows
  <2>3. Number(Laid(q), S) = Number(C, S) + Number(y, S) + Number(D, S)
    BY <1>5, <1>6, <1>8, <2>1
  <2>4. Number(Laid(m), S) = Number(C, S) + Number(x, S) + Number(D, S)
    BY <1>5, <1>6, <1>8, <2>1
  <2>5. Number(C, S) \in Nat /\ Number(D, S) \in Nat /\ Number(x, S) \in Nat /\ Number(y, S) \in Nat
    BY <1>5, <2>2
  <2> QED
    BY <2>3, <2>4, <2>5
<1>14. Balanced(Laid(q), Laid(m), x, y)
  BY <1>13 DEF Balanced
<1> QED
  BY <1>12, <1>14 DEF x, y
\* Every part and what becomes of it have as many links.
LEMMA PartsAligned ==
  ASSUME message \in Messages, NEW i \in 1..Len(Parts)
  PROVE  Aligned(Came[i], New[i]) /\ Came[i] = Parts[i].cells /\ New[i] = Cleaned(i)
<1>1. Parts[i].cells \in Seq(Given)
  BY PartsAre
<1>2. Came[i] = Parts[i].cells /\ New[i] = Cleaned(i)
  BY PiecesAre
<1>3. Aligned(Parts[i].cells, Cleaned(i))
  <2>1. CASE IsHtml(i)
    <3>1. Aligned(Parts[i].cells, CleanHtml(Parts[i].cells, eff, message.unsubscribe))
      BY <1>1, HtmlRewrites
    <3> QED
      BY <2>1, <3>1 DEF Cleaned
  <2>2. CASE ~IsHtml(i)
    <3>1. Aligned(Parts[i].cells, CleanText(Parts[i].cells, eff))
      BY <1>1, TextRewrites
    <3> QED
      BY <2>2, <3>1 DEF Cleaned
  <2> QED
    BY <2>1, <2>2
<1> QED
  BY <1>2, <1>3

\* The message with some parts cleaned.
LEMMA NowIs ==
  ASSUME message \in Messages, NEW I
  PROVE  /\ Now(I) \in Rows /\ Raw \in Rows /\ Aligned(Raw, Now(I))
<1> DEFINE m == Mix(Came, New, {i \in I : ~LeftAlone(i)})
<1>1. /\ Came \in Pieces /\ New \in Pieces /\ Len(Came) = Len(Parts) /\ Len(New) = Len(Came)
      /\ Raw = Laid(Came)
  BY PiecesAre
<1>2. m \in Pieces /\ Len(m) = Len(Came)
      /\ \A i \in 1..Len(Came) : m[i] = IF i \in {j \in I : ~LeftAlone(j)} THEN New[i] ELSE Came[i]
  BY <1>1, MixIs
<1>3. \A i \in 1..Len(Came) : Aligned(Came[i], New[i]) /\ Aligned(Came[i], Came[i])
  BY <1>1, PartsAligned DEF Aligned
<1>4. Now(I) = Laid(m)
  BY DEF Now
<1> HIDE DEF m
<1>5. \A i \in 1..Len(Came) : Aligned(Came[i], m[i])
  BY <1>2, <1>3
<1>6. Aligned(Laid(Came), Laid(m))
  BY <1>1, <1>2, <1>5, LaidAligned
<1>7. Laid(m) \in Rows /\ Laid(Came) \in Rows
  BY <1>1, <1>2, LaidType
<1> QED
  BY <1>1, <1>4, <1>6, <1>7

\* One part more.
LEMMA NowOne ==
  ASSUME message \in Messages, NEW I \in SUBSET (1..Len(Parts)), NEW n \in 1..Len(Parts), n \notin I
  PROVE  /\ LeftAlone(n) => Now(I \cup {n}) = Now(I)
         /\ ~LeftAlone(n) =>
              /\ Rewrites(Raw, Now(I \cup {n})) = Rewrites(Raw, Now(I)) + Rewrites(Parts[n].cells, Cleaned(n))
              /\ Balanced(Now(I \cup {n}), Now(I), Parts[n].cells, Cleaned(n))
<1> DEFINE J == {i \in I : ~LeftAlone(i)}
           K == {i \in I \cup {n} : ~LeftAlone(i)}
           m == Mix(Came, New, J)
           q == Mix(Came, New, K)
<1>0. Now(I) = Laid(m) /\ Now(I \cup {n}) = Laid(q)
  BY DEF Now
<1>1. K = (IF LeftAlone(n) THEN J ELSE J \cup {n}) /\ n \notin J
  OBVIOUS
<1>2. /\ Came \in Pieces /\ New \in Pieces /\ Len(Came) = Len(Parts) /\ Len(New) = Len(Came)
      /\ Raw = Laid(Came)
  BY PiecesAre
<1>3. m \in Pieces /\ Len(m) = Len(Came)
      /\ \A i \in 1..Len(Came) : m[i] = IF i \in J THEN New[i] ELSE Came[i]
  BY <1>2, MixIs
<1>4. q \in Pieces /\ Len(q) = Len(Came)
      /\ \A i \in 1..Len(Came) : q[i] = IF i \in K THEN New[i] ELSE Came[i]
  BY <1>2, MixIs
<1>5. \A i \in 1..Len(Came) : Aligned(Came[i], New[i]) /\ Aligned(Came[i], Came[i])
  BY <1>2, PartsAligned DEF Aligned
<1>6. Came[n] = Parts[n].cells /\ New[n] = Cleaned(n) /\ n \in 1..Len(Came)
  BY <1>2, PartsAligned
<1>7. ASSUME LeftAlone(n) PROVE Laid(q) = Laid(m)
  BY <1>1, <1>7
<1> HIDE DEF m, q, J, K
<1>8. ASSUME ~LeftAlone(n)
      PROVE  /\ Rewrites(Laid(Came), Laid(q)) = Rewrites(Laid(Came), Laid(m)) + Rewrites(Came[n], q[n])
             /\ Balanced(Laid(q), Laid(m), Came[n], q[n])
             /\ q[n] = New[n]
  <2>1. K = J \cup {n}
    BY <1>1, <1>8
  <2>2. m[n] = Came[n] /\ q[n] = New[n]
    BY <1>1, <1>3, <1>4, <1>6, <2>1
  <2>3. \A j \in 1..Len(Came) : j # n => q[j] = m[j]
    BY <1>3, <1>4, <2>1
  <2>4. \A j \in 1..Len(Came) : Aligned(Came[j], m[j])
    BY <1>3, <1>5
  <2>5. Aligned(Came[n], q[n])
    BY <1>5, <1>6, <2>2
  <2>6. Rewrites(Laid(Came), Laid(q)) = Rewrites(Laid(Came), Laid(m)) + Rewrites(Came[n], q[n])
    BY <1>2, <1>3, <1>4, <1>6, <2>2, <2>3, <2>4, <2>5, RowTally
  <2>7. Balanced(Laid(q), Laid(m), Came[n], q[n])
    BY <1>2, <1>3, <1>4, <1>6, <2>2, <2>3, <2>4, <2>5, RowTally
  <2> QED
    BY <2>2, <2>6, <2>7
<1> QED
  BY <1>0, <1>2, <1>6, <1>7, <1>8

\* One index more.
LEMMA CountOne ==
  ASSUME NEW N \in Nat, NEW I \in SUBSET (1..N), NEW n \in 1..N, n \notin I, NEW S
  PROVE  /\ Cardinality({i \in I : i \in S}) \in Nat
         /\ Cardinality({i \in I \cup {n} : i \in S})
              = Cardinality({i \in I : i \in S}) + (IF n \in S THEN 1 ELSE 0)
<1> DEFINE A == {i \in I : i \in S}
           B == {i \in I \cup {n} : i \in S}
<1>1. IsFiniteSet(1..N)
  BY FS_Interval
<1>2. IsFiniteSet(A) /\ Cardinality(A) \in Nat
  BY <1>1, FS_Subset, FS_CardinalityType
<1>3. n \notin A /\ B = IF n \in S THEN A \cup {n} ELSE A
  OBVIOUS
<1> HIDE DEF A, B
<1>4. Cardinality(A \cup {n}) = Cardinality(A) + 1
  BY <1>2, <1>3, FS_AddElement
<1>5. Cardinality(B) = Cardinality(A) + (IF n \in S THEN 1 ELSE 0)
  BY <1>2, <1>3, <1>4
<1> QED
  BY <1>2, <1>5 DEF A, B

\* Counts add up, one by one.
LEMMA CountsAdd ==
  ASSUME NEW s \in Counts, NEW t \in Counts
  PROVE  /\ Plus(s, t) \in Counts
         /\ Plus(s, t).html_parts = s.html_parts + t.html_parts
         /\ Plus(s, t).urls_cleaned = s.urls_cleaned + t.urls_cleaned
         /\ Plus(s, t).redirects_unwrapped = s.redirects_unwrapped + t.redirects_unwrapped
         /\ Plus(s, t).pixels_removed = s.pixels_removed + t.pixels_removed
         /\ Plus(s, t).pings_stripped = s.pings_stripped + t.pings_stripped
<1>1. DOMAIN s = {"html_parts", "urls_cleaned", "redirects_unwrapped", "pixels_removed", "pings_stripped"}
  BY DEF Counts
<1>2. \A f \in DOMAIN s : s[f] \in Nat /\ t[f] \in Nat
  BY DEF Counts
<1>3. Plus(s, t) = [f \in DOMAIN s |-> s[f] + t[f]]
  BY DEF Plus
<1>4. Plus(s, t) \in Counts
  BY <1>1, <1>2, <1>3 DEF Counts
<1> QED
  BY <1>1, <1>3, <1>4

\* The cells of a part.
LEMMA PartsInRows ==
  ASSUME message \in Messages, NEW i \in 1..Len(Parts)
  PROVE  Parts[i].cells \in Seq(Cells) /\ Parts[i].cells \in Rows
<1>1. Came[i] = Parts[i].cells /\ Came \in Pieces /\ Len(Came) = Len(Parts)
  BY PiecesAre
<1> QED
  BY <1>1 DEF Pieces, Rows

\* What was found in a part is carried over to the row it is in.
LEMMA Carried ==
  ASSUME NEW s \in Nat, NEW x \in Nat, NEW before \in Nat, NEW after \in Nat, NEW was \in Nat,
         NEW new \in Nat, NEW raw, after + was = before + new, s + before = raw, x + new = was
  PROVE  (s + x) + after = raw
  OBVIOUS

\* One step counts new in the place of part n.
Adds(n, found, new) ==
  /\ found \in Counts /\ stats' = Plus(stats, found)
  /\ found.html_parts = IF AsHtml(n) THEN 1 ELSE 0
  /\ skipped' = skipped + IF LeftAlone(n) THEN 1 ELSE 0
  /\ recovered' = recovered + IF Due("recover", n) THEN 1 ELSE 0
  /\ unencodable' = unencodable + IF Lost(n) THEN 1 ELSE 0
  /\ new = IF LeftAlone(n) THEN Parts[n].cells ELSE Cleaned(n)
  /\ found.urls_cleaned + found.redirects_unwrapped = Rewrites(Parts[n].cells, new)
  /\ found.pixels_removed + Number(new, Trackers) = Number(Parts[n].cells, Trackers)
  /\ found.pings_stripped + Number(new, Pingers) = Number(Parts[n].cells, Pingers)

\* After one step the counts are those of the parts I, as they were before it.
Tallies(I) ==
  /\ stats' \in Counts
  /\ stats'.html_parts = Cardinality({i \in I : AsHtml(i)})
  /\ skipped' = Cardinality({i \in I : LeftAlone(i)})
  /\ recovered' = Cardinality({i \in I : Due("recover", i)})
  /\ unencodable' = Cardinality({i \in I : Lost(i)})
  /\ stats'.urls_cleaned + stats'.redirects_unwrapped = Rewrites(Raw, Now(I))
  /\ stats'.pixels_removed + Number(Now(I), Trackers) = Number(Raw, Trackers)
  /\ stats'.pings_stripped + Number(Now(I), Pingers) = Number(Raw, Pingers)

\* What was counted, when one part more was taken on.
LEMMA TallyOne ==
  ASSUME message \in Messages, config' = config, message' = message,
         NEW I \in SUBSET (1..Len(Parts)), Tally(I), NEW n \in 1..Len(Parts), n \notin I,
         NEW found, NEW new, Adds(n, found, new)
  PROVE  Tallies(I \cup {n})
<1>0. /\ found \in Counts /\ stats' = Plus(stats, found)
      /\ found.html_parts = IF AsHtml(n) THEN 1 ELSE 0
      /\ new = IF LeftAlone(n) THEN Parts[n].cells ELSE Cleaned(n)
  BY DEF Adds
<1>1. Len(Parts) \in Nat
  BY PartsAre
<1>2. stats \in Counts
  BY DEF Tally
<1>3. /\ stats' \in Counts
      /\ stats'.html_parts = stats.html_parts + found.html_parts
      /\ stats'.urls_cleaned = stats.urls_cleaned + found.urls_cleaned
      /\ stats'.redirects_unwrapped = stats.redirects_unwrapped + found.redirects_unwrapped
      /\ stats'.pixels_removed = stats.pixels_removed + found.pixels_removed
      /\ stats'.pings_stripped = stats.pings_stripped + found.pings_stripped
  BY <1>0, <1>2, CountsAdd
<1>4. \A S : Cardinality({i \in I \cup {n} : i \in S})
               = Cardinality({i \in I : i \in S}) + (IF n \in S THEN 1 ELSE 0)
  BY <1>1, CountOne
<1>5. stats'.html_parts = Cardinality({i \in I \cup {n} : AsHtml(i)})
  <2> DEFINE S == {i \in 1..Len(Parts) : AsHtml(i)}
  <2>1. {i \in I \cup {n} : AsHtml(i)} = {i \in I \cup {n} : i \in S} /\ {i \in I : AsHtml(i)} = {i \in I : i \in S}
        /\ (n \in S <=> AsHtml(n))
    OBVIOUS
  <2> HIDE DEF S
  <2> QED
    BY <1>0, <1>3, <1>4, <2>1 DEF Tally
<1>6. skipped' = Cardinality({i \in I \cup {n} : LeftAlone(i)})
  <2> DEFINE S == {i \in 1..Len(Parts) : LeftAlone(i)}
  <2>1. {i \in I \cup {n} : LeftAlone(i)} = {i \in I \cup {n} : i \in S}
        /\ {i \in I : LeftAlone(i)} = {i \in I : i \in S} /\ (n \in S <=> LeftAlone(n))
    OBVIOUS
  <2> HIDE DEF S
  <2> QED
    BY <1>4, <2>1 DEF Tally, Adds
<1>7. recovered' = Cardinality({i \in I \cup {n} : Due("recover", i)})
  <2> DEFINE S == {i \in 1..Len(Parts) : Due("recover", i)}
  <2>1. {i \in I \cup {n} : Due("recover", i)} = {i \in I \cup {n} : i \in S}
        /\ {i \in I : Due("recover", i)} = {i \in I : i \in S} /\ (n \in S <=> Due("recover", n))
    OBVIOUS
  <2> HIDE DEF S
  <2> QED
    BY <1>4, <2>1 DEF Tally, Adds
<1>8. unencodable' = Cardinality({i \in I \cup {n} : Lost(i)})
  <2> DEFINE S == {i \in 1..Len(Parts) : Lost(i)}
  <2>1. {i \in I \cup {n} : Lost(i)} = {i \in I \cup {n} : i \in S}
        /\ {i \in I : Lost(i)} = {i \in I : i \in S} /\ (n \in S <=> Lost(n))
    OBVIOUS
  <2> HIDE DEF S
  <2> QED
    BY <1>4, <2>1 DEF Tally, Adds
<1> DEFINE cells == Parts[n].cells
           later == Now(I \cup {n})
<1>9. /\ Rewrites(Raw, later) = Rewrites(Raw, Now(I)) + Rewrites(cells, new)
      /\ Number(later, Trackers) + Number(cells, Trackers) = Number(Now(I), Trackers) + Number(new, Trackers)
      /\ Number(later, Pingers) + Number(cells, Pingers) = Number(Now(I), Pingers) + Number(new, Pingers)
  <2>1. CASE LeftAlone(n)
    <3>1. later = Now(I) /\ new = cells
      BY <1>0, <2>1, NowOne
    <3>2. cells \in Rows
      BY PartsInRows
    <3>3. Rewrites(cells, cells) = 0
      BY <3>2, RewritesType DEF Aligned
    <3>4. Rewrites(Raw, Now(I)) \in Nat
      BY NowIs, RewritesType
    <3> HIDE DEF later, cells
    <3> QED
      BY <3>1, <3>3, <3>4
  <2>2. CASE ~LeftAlone(n)
    BY <1>0, <2>2, NowOne DEF Balanced
  <2> QED
    BY <2>1, <2>2
<1>10. /\ Number(later, Trackers) \in Nat /\ Number(cells, Trackers) \in Nat
       /\ Number(Now(I), Trackers) \in Nat /\ Number(new, Trackers) \in Nat
       /\ Number(later, Pingers) \in Nat /\ Number(cells, Pingers) \in Nat
       /\ Number(Now(I), Pingers) \in Nat /\ Number(new, Pingers) \in Nat
       /\ Rewrites(Raw, Now(I)) \in Nat
  <2>1. cells \in Rows /\ new \in Rows
    <3>1. cells \in Rows
      BY PartsInRows
    <3>2. Cleaned(n) \in Rows
      <4>1. New \in Pieces /\ New[n] = Cleaned(n) /\ Len(New) = Len(Parts)
        BY PiecesAre
      <4> QED
        BY <4>1 DEF Pieces, Rows
    <3> QED
      BY <1>0, <3>1, <3>2
  <2>2. later \in Rows /\ Now(I) \in Rows
    BY NowIs
  <2>3. \A r \in Rows : \A S : Number(r, S) \in Nat
    BY NumberType DEF Rows
  <2>4. Rewrites(Raw, Now(I)) \in Nat
    BY NowIs, RewritesType
  <2> HIDE DEF later, cells
  <2> QED
    BY <2>1, <2>2, <2>3, <2>4
<1> HIDE DEF cells, later
<1>11. /\ stats.urls_cleaned + stats.redirects_unwrapped = Rewrites(Raw, Now(I))
       /\ stats.pixels_removed + Number(Now(I), Trackers) = Number(Raw, Trackers)
       /\ stats.pings_stripped + Number(Now(I), Pingers) = Number(Raw, Pingers)
  BY DEF Tally
<1>12. /\ found.urls_cleaned + found.redirects_unwrapped = Rewrites(cells, new)
       /\ found.pixels_removed + Number(new, Trackers) = Number(cells, Trackers)
       /\ found.pings_stripped + Number(new, Pingers) = Number(cells, Pingers)
  BY DEF cells, Adds
<1>13. /\ \A f \in {"urls_cleaned", "redirects_unwrapped", "pixels_removed", "pings_stripped"} :
            stats[f] \in Nat /\ found[f] \in Nat
  BY <1>0, <1>2 DEF Counts
<1>14. stats'.urls_cleaned + stats'.redirects_unwrapped = Rewrites(Raw, later)
  <2>1. \A f, g \in {"urls_cleaned", "redirects_unwrapped"} : stats[f] \in Nat /\ found[g] \in Nat
    BY <1>13
  <2>2. /\ stats.urls_cleaned \in Nat /\ stats.redirects_unwrapped \in Nat
        /\ found.urls_cleaned \in Nat /\ found.redirects_unwrapped \in Nat
    BY <2>1
  <2> QED
    BY <1>3, <1>9, <1>11, <1>12, <2>2
<1>15. stats'.pixels_removed + Number(later, Trackers) = Number(Raw, Trackers)
  <2> DEFINE s == stats.pixels_removed
             x == found.pixels_removed
             was == Number(cells, Trackers)
             after == Number(later, Trackers)
             before == Number(Now(I), Trackers)
             made == Number(new, Trackers)
             raw == Number(Raw, Trackers)
  <2>1. s \in Nat /\ x \in Nat /\ was \in Nat /\ after \in Nat /\ before \in Nat /\ made \in Nat
    BY <1>10, <1>13
  <2>2. after + was = before + made /\ s + before = raw /\ x + made = was
    BY <1>9, <1>11, <1>12
  <2>3. stats'.pixels_removed = s + x
    BY <1>3
  <2> HIDE DEF s, x, was, after, before, made, raw
  <2>4. (s + x) + after = raw
    BY <2>1, <2>2, Carried
  <2> QED
    BY <2>3, <2>4 DEF after, raw
<1>16. stats'.pings_stripped + Number(later, Pingers) = Number(Raw, Pingers)
  <2> DEFINE s == stats.pings_stripped
             x == found.pings_stripped
             was == Number(cells, Pingers)
             after == Number(later, Pingers)
             before == Number(Now(I), Pingers)
             made == Number(new, Pingers)
             raw == Number(Raw, Pingers)
  <2>1. s \in Nat /\ x \in Nat /\ was \in Nat /\ after \in Nat /\ before \in Nat /\ made \in Nat
    BY <1>10, <1>13
  <2>2. after + was = before + made /\ s + before = raw /\ x + made = was
    BY <1>9, <1>11, <1>12
  <2>3. stats'.pings_stripped = s + x
    BY <1>3
  <2> HIDE DEF s, x, was, after, before, made, raw
  <2>4. (s + x) + after = raw
    BY <2>1, <2>2, Carried
  <2> QED
    BY <2>3, <2>4 DEF after, raw
<1> QED
  BY <1>3, <1>5, <1>6, <1>7, <1>8, <1>14, <1>15, <1>16 DEF later, Tallies

-----------------------------------------------------------------------------
(* What one step counts.                                                   *)

\* One stage at most takes a part on, and replaces it.
LEMMA DueOnce ==
  ASSUME message \in Messages, NEW i \in 1..Len(Parts)
  PROVE  /\ \A s, t : Due(s, i) /\ Due(t, i) => s = t
         /\ \A s : Due(s, i) => s \in {"html", "recover", "plain"}
         /\ \A s : Replaces(s, i) => Due(s, i)
         /\ AsHtml(i) => IsHtml(i)
         /\ Due("plain", i) => ~IsHtml(i) /\ ~AsHtml(i)
<1>1. Parts[i].kind = "text" /\ Parts[i].text_body => ~Parts[i].declares_html
  BY PartsAre
<1>2. \A s : Due(s, i) => s \in {"html", "recover", "plain"}
  BY DEF Due
<1>3. /\ Due("html", i) => Parts[i].html_body /\ Parts[i].kind = "html"
      /\ Due("recover", i) => ~Parts[i].html_body /\ Parts[i].declares_html
      /\ Due("plain", i) => Parts[i].text_body /\ Parts[i].kind = "text"
  BY DEF Due
<1>4. \A s, t : Due(s, i) /\ Due(t, i) => s = t
  BY <1>1, <1>2, <1>3
<1>5. AsHtml(i) => IsHtml(i)
  BY <1>3 DEF AsHtml, IsHtml
<1>6. Due("plain", i) => ~IsHtml(i) /\ ~AsHtml(i)
  BY <1>1, <1>3 DEF AsHtml, IsHtml
<1>7. \A s : Replaces(s, i) => Due(s, i)
  BY DEF Replaces, Enforced, EnforcedText, HtmlStage, Due
<1> QED
  BY <1>2, <1>4, <1>5, <1>6, <1>7

\* A stage takes on what is due, and that was not taken on before.
LEMMA TakesDue ==
  ASSUME Queued, stage \in {"html", "recover", "plain"}, next \in 1..Len(Parts)
  PROVE  /\ Takes(next) <=> Due(stage, next)
         /\ Due(stage, next) => ~Taken(next)
<1>1. message \in Messages /\ processed = {i \in 1..Len(Parts) : Replaced(i)}
  BY DEF Queued
<1>2. stage \notin Over /\ ~(next < next)
  BY DEF Over
<1>3. ASSUME Due(stage, next) PROVE next \notin processed /\ ~Taken(next)
  <2>1. \A s \in Over : ~Due(s, next) /\ ~Replaces(s, next)
    BY <1>1, <1>2, <1>3, DueOnce
  <2> QED
    BY <1>1, <1>2, <2>1 DEF Replaced, Taken
<1>4. CASE stage = "html"
  BY <1>3, <1>4 DEF Takes, Due, IsHtmlBody
<1>5. CASE stage = "recover"
  BY <1>3, <1>5 DEF Takes, Due, IsUndecodedHtml
<1>6. CASE stage = "plain"
  BY <1>3, <1>6 DEF Takes, Due, IsPlainText
<1> QED
  BY <1>3, <1>4, <1>5, <1>6

\* While the message and its configuration stay, so does what is to be counted.
LEMMA SameTally ==
  ASSUME config' = config, message' = message
  PROVE  /\ eff' = eff /\ Parts' = Parts /\ Raw' = Raw
         /\ \A s, i : Due(s, i)' <=> Due(s, i)
         /\ \A i : /\ AsHtml(i)' <=> AsHtml(i)
                   /\ LeftAlone(i)' <=> LeftAlone(i)
                   /\ Lost(i)' <=> Lost(i)
         /\ \A I : Now(I)' = Now(I)
<1>1. eff' = eff /\ Parts' = Parts
  BY SameParts
<1>2. Raw' = Raw
  BY <1>1 DEF Raw
<1>3. \A s, i : Due(s, i)' <=> Due(s, i)
  BY <1>1 DEF Due
<1>4. \A i : AsHtml(i)' <=> AsHtml(i)
  BY <1>3 DEF AsHtml
<1>5. \A i : LeftAlone(i)' <=> LeftAlone(i)
  BY <1>1, <1>4 DEF LeftAlone
<1>6. \A cells : HtmlStats(cells)' = HtmlStats(cells)
  BY <1>1 DEF HtmlStats, HowMany
<1>7. \A cells : TextStats(cells)' = TextStats(cells)
  BY <1>1 DEF TextStats, HowMany
<1>8. \A i : (FoundHtml(i)' <=> FoundHtml(i)) /\ (FoundText(i)' <=> FoundText(i))
  BY <1>1, <1>6, <1>7 DEF FoundHtml, FoundText
<1>9. \A i : Lost(i)' <=> Lost(i)
  BY <1>1, <1>4, <1>5, <1>8 DEF Lost
<1>10. \A i : Cleaned(i)' = Cleaned(i)
  BY <1>1 DEF Cleaned, IsHtml
<1>11. Came' = Came /\ New' = New
  BY <1>1, <1>10 DEF Came, New
<1>12. \A I : {i \in I : ~LeftAlone(i)}' = {i \in I : ~LeftAlone(i)}
  BY <1>5
<1>13. \A I : Now(I)' = Now(I)
  BY <1>11, <1>12 DEF Now
<1> QED
  BY <1>1, <1>2, <1>3, <1>4, <1>5, <1>9, <1>13

\* The parts taken on, while next goes on by one.
LEMMA TakenNext ==
  ASSUME config' = config, message' = message, stage' = stage, next \in 1..Len(Parts), next' = next + 1
  PROVE  {i \in 1..Len(Parts) : Taken(i)}'
           = {i \in 1..Len(Parts) : Taken(i)} \cup {i \in {next} : Due(stage, next)}
<1>1. Over' = Over
  BY DEF Over
<1>2. Parts' = Parts /\ \A s, i : Due(s, i)' <=> Due(s, i)
  BY SameTally
<1>3. \A i \in 1..Len(Parts) : Taken(i)' <=> Taken(i) \/ (i = next /\ Due(stage, next))
  <2>1. \A i \in 1..Len(Parts) : i < next' <=> i < next \/ i = next
    OBVIOUS
  <2> QED
    BY <1>1, <1>2, <2>1 DEF Taken
<1> QED
  BY <1>2, <1>3

\* The parts taken on, when a stage is over.
LEMMA TakenOver ==
  ASSUME config' = config, message' = message, Len(Parts) \in Nat,
         \/ stage = "html" /\ stage' = "recover" /\ next > Len(Parts) /\ next' = 1
         \/ stage = "recover" /\ stage' = "plain" /\ next > Len(Parts) /\ next' = 1
         \/ stage = "plain" /\ stage' = "splice" /\ next > Len(Parts) /\ next' = 1
         \/ stage = "splice" /\ stage' = "done" /\ next' = next,
         next \in Nat
  PROVE  {i \in 1..Len(Parts) : Taken(i)}' = {i \in 1..Len(Parts) : Taken(i)}
<1>1. Parts' = Parts /\ \A s, i : Due(s, i)' <=> Due(s, i)
  BY SameTally
<1>2. ASSUME NEW i \in 1..Len(Parts) PROVE Taken(i)' <=> Taken(i)
  <2>1. ~Due("splice", i) /\ ~Due("done", i)
    BY DEF Due
  <2>2. CASE stage = "html" /\ stage' = "recover" /\ next > Len(Parts) /\ next' = 1
    <3>1. Over = {} /\ Over' = {"html"} /\ i < next /\ ~(i < next')
      BY <2>2 DEF Over
    <3> QED
      BY <1>1, <2>2, <3>1 DEF Taken
  <2>3. CASE stage = "recover" /\ stage' = "plain" /\ next > Len(Parts) /\ next' = 1
    <3>1. Over = {"html"} /\ Over' = {"html", "recover"} /\ i < next /\ ~(i < next')
      BY <2>3 DEF Over
    <3> QED
      BY <1>1, <2>3, <3>1 DEF Taken
  <2>4. CASE stage = "plain" /\ stage' = "splice" /\ next > Len(Parts) /\ next' = 1
    <3>1. /\ Over = {"html", "recover"} /\ Over' = {"html", "recover", "plain"}
          /\ i < next /\ ~(i < next')
      BY <2>4 DEF Over
    <3> QED
      BY <1>1, <2>4, <3>1 DEF Taken
  <2>5. CASE stage = "splice" /\ stage' = "done" /\ next' = next
    <3>1. Over = {"html", "recover", "plain"} /\ Over' = {"html", "recover", "plain"}
      BY <2>5 DEF Over
    <3> QED
      BY <1>1, <2>1, <2>5, <3>1 DEF Taken
  <2> QED
    BY <2>2, <2>3, <2>4, <2>5
<1> QED
  BY <1>1, <1>2

\* A step that counts nothing keeps the counts.
LEMMA TallyKept ==
  ASSUME config' = config, message' = message, stats' = stats, skipped' = skipped,
         recovered' = recovered, unencodable' = unencodable, NEW I, Tally(I)
  PROVE  Tally(I)'
<1>1. Raw' = Raw /\ Now(I)' = Now(I)
  BY SameTally
<1>2. /\ {i \in I : AsHtml(i)}' = {i \in I : AsHtml(i)}
      /\ {i \in I : LeftAlone(i)}' = {i \in I : LeftAlone(i)}
      /\ {i \in I : Due("recover", i)}' = {i \in I : Due("recover", i)}
      /\ {i \in I : Lost(i)}' = {i \in I : Lost(i)}
  BY SameTally
<1> QED
  BY <1>1, <1>2 DEF Tally

\* Nor does it change which parts were taken on, if those are still the same.
LEMMA TalliedKept ==
  ASSUME Tallied, config' = config, message' = message, stats' = stats, skipped' = skipped,
         recovered' = recovered, unencodable' = unencodable,
         replacements' = replacements, processed' = processed, result'.modified \in BOOLEAN,
         next' \in 1..Len(Parts) + 1,
         stage' # "failed" =>
           stage # "failed" /\ {i \in 1..Len(Parts) : Taken(i)}' = {i \in 1..Len(Parts) : Taken(i)}
  PROVE  Tallied'
<1>1. PICK I \in SUBSET (1..Len(Parts)) :
        Tally(I) /\ (stage # "failed" => I = {i \in 1..Len(Parts) : Taken(i)})
  BY DEF Tallied
<1>2. Tally(I)'
  BY <1>1, TallyKept
<1>3. Parts' = Parts
  BY SameTally
<1>4. stage' # "failed" => I = {i \in 1..Len(Parts) : Taken(i)}'
  BY <1>1
<1>5. Len(replacements') = Cardinality(processed')
  BY DEF Tallied
<1> QED
  BY <1>1, <1>2, <1>3, <1>4, <1>5 DEF Tallied
\* How much is counted in other counters.
LEMMA CountersType ==
  ASSUME Tallied, Len(Parts) \in Nat
  PROVE  unencodable \in Nat /\ skipped \in Nat /\ recovered \in Nat
<1>1. PICK I \in SUBSET (1..Len(Parts)) : Tally(I)
  BY DEF Tallied
<1>2. IsFiniteSet(1..Len(Parts))
  BY FS_Interval
<1>3. \A A \in SUBSET (1..Len(Parts)) : Cardinality(A) \in Nat
  BY <1>2, FS_Subset, FS_CardinalityType
<1>4. /\ {i \in I : LeftAlone(i)} \in SUBSET (1..Len(Parts))
      /\ {i \in I : Due("recover", i)} \in SUBSET (1..Len(Parts))
      /\ {i \in I : Lost(i)} \in SUBSET (1..Len(Parts))
  BY <1>1
<1> QED
  BY <1>1, <1>3, <1>4 DEF Tally

\* One part more is counted.
LEMMA TalliedOne ==
  ASSUME Queued, Tallied, Visit, next \in 1..Len(Parts), Due(stage, next),
         NEW found, NEW new, Adds(next, found, new),
         Len(replacements') = Cardinality(processed')
  PROVE  Tallied'
<1>1. /\ config' = config /\ message' = message /\ stage' = stage /\ next' = next + 1
      /\ result' = result /\ stage \in {"html", "recover", "plain"} /\ message \in Messages
  BY DEF Visit, Queued
<1>2. PICK I \in SUBSET (1..Len(Parts)) : Tally(I) /\ I = {i \in 1..Len(Parts) : Taken(i)}
  BY <1>1 DEF Tallied
<1>3. ~Taken(next)
  BY <1>1, TakesDue
<1>4. next \notin I
  BY <1>2, <1>3
<1> DEFINE J == I \cup {next}
<1>5. Tallies(J)
  BY <1>1, <1>2, <1>4, TallyOne
<1>6. J = {i \in 1..Len(Parts) : Taken(i)}'
  BY <1>1, <1>2, TakenNext
<1>7. J \in SUBSET (1..Len(Parts))
  BY <1>2
<1>8. PICK K : K = J
  OBVIOUS
<1> HIDE DEF J
<1>9. Tally(K)'
  <2>1. Raw' = Raw /\ Now(K)' = Now(K)
    BY <1>1, SameTally
  <2>2. /\ {i \in K : AsHtml(i)}' = {i \in K : AsHtml(i)}
        /\ {i \in K : LeftAlone(i)}' = {i \in K : LeftAlone(i)}
        /\ {i \in K : Due("recover", i)}' = {i \in K : Due("recover", i)}
        /\ {i \in K : Lost(i)}' = {i \in K : Lost(i)}
    BY <1>1, SameTally
  <2> QED
    BY <1>5, <1>8, <2>1, <2>2 DEF Tally, Tallies
<1>10. Parts' = Parts
  BY <1>1, SameTally
<1>11. next' \in 1..Len(Parts') + 1
  BY <1>1, <1>10, PartsAre
<1>12. result'.modified \in BOOLEAN
  BY <1>1 DEF Tallied
<1>13. \E L \in SUBSET (1..Len(Parts')) :
         Tally(L)' /\ (stage' # "failed" => L = {i \in 1..Len(Parts) : Taken(i)}')
  BY <1>6, <1>7, <1>8, <1>9, <1>10
<1> QED
  BY <1>10, <1>11, <1>12, <1>13 DEF Tallied

\* There are as many replacements as processed parts, whatever is queued.
LEMMA QueueCounts ==
  ASSUME Inv, Len(Parts) \in Nat, Len(replacements) = Cardinality(processed), NEW i, i \notin processed,
         NEW cells, NEW changed, Queue(i, cells, changed)
  PROVE  /\ Len(replacements') = Cardinality(processed')
         /\ unencodable' =
              IF eff.mode = "Enforce" /\ changed /\ ~Parts[i].encodable THEN unencodable + 1 ELSE unencodable
<1>1. IsFiniteSet(processed)
  <2>1. IsFiniteSet(1..Len(Parts)) /\ processed \subseteq 1..Len(Parts)
    BY FS_Interval DEF Inv
  <2> QED
    BY <2>1, FS_Subset
<1>2. Cardinality(processed \cup {i}) = Cardinality(processed) + 1
  BY <1>1, FS_AddElement
<1>3. replacements \in Seq(Candidates)
  BY DEF Inv
<1>4. \A r : Len(Append(replacements, r)) = Len(replacements) + 1
  BY <1>3
<1> QED
  BY <1>2, <1>4 DEF Queue

\* What is counted is what was found, after every step.
LEMMA NextTallied == Inv /\ Queued /\ Tallied /\ [Next]_vars => Tallied'
<1> SUFFICES ASSUME Inv, Queued, Tallied, [Next]_vars PROVE Tallied'
  OBVIOUS
<1>1. next \in Nat \ {0} /\ next \in 1..Len(Parts) + 1 /\ Len(Parts) \in Nat /\ message \in Messages
  BY PartsAre DEF Inv, Queued, Tallied
<1>2. CASE PassOver
  <2>1. /\ config' = config /\ message' = message /\ stage' = stage /\ next' = next + 1
        /\ next \in 1..Len(Parts) /\ stage \in {"html", "recover", "plain"} /\ ~Takes(next)
        /\ replacements' = replacements /\ processed' = processed /\ result' = result
        /\ stats' = stats /\ skipped' = skipped /\ recovered' = recovered /\ unencodable' = unencodable
    BY <1>1, <1>2 DEF PassOver, Visit
  <2>2. ~Due(stage, next)
    BY <2>1, TakesDue
  <2>3. {i \in 1..Len(Parts) : Taken(i)}' = {i \in 1..Len(Parts) : Taken(i)}
    BY <2>1, <2>2, TakenNext
  <2>4. next' \in 1..Len(Parts) + 1 /\ result'.modified \in BOOLEAN /\ stage # "failed"
    BY <1>1, <2>1 DEF Tallied
  <2> QED
    BY <2>1, <2>3, <2>4, TalliedKept
<1>3. CASE SkipOversized
  <2>1. /\ Visit /\ next \in 1..Len(Parts) /\ stage \in {"html", "recover"} /\ Takes(next)
        /\ Parts[next].oversized
        /\ stats' = [stats EXCEPT !.html_parts = @ + 1] /\ skipped' = skipped + 1
        /\ recovered' = recovered + (IF stage = "recover" THEN 1 ELSE 0)
        /\ unencodable' = unencodable
        /\ replacements' = replacements /\ processed' = processed
    BY <1>1, <1>3 DEF SkipOversized, Visit, CountRecovered
  <2>2. Due(stage, next)
    BY <2>1, TakesDue
  <2>3. /\ AsHtml(next) /\ LeftAlone(next) /\ ~Lost(next)
        /\ Due("recover", next) <=> stage = "recover"
    <3>1. AsHtml(next)
      BY <2>1, <2>2 DEF AsHtml
    <3>2. Due("recover", next) <=> stage = "recover"
      BY <1>1, <2>1, <2>2, DueOnce
    <3> QED
      BY <2>1, <3>1, <3>2 DEF LeftAlone, Lost
  <2> DEFINE found == [NoStats EXCEPT !.html_parts = 1]
             cells == Parts[next].cells
  <2>4. /\ found \in Counts /\ found.html_parts = 1 /\ found.urls_cleaned + found.redirects_unwrapped = 0
        /\ found.pixels_removed = 0 /\ found.pings_stripped = 0
    BY DEF NoStats, Counts
  <2>5. stats' = Plus(stats, found)
    <3>1. stats \in Counts
      BY DEF Tallied, Tally
    <3> QED
      BY <2>1, <3>1 DEF Plus, Counts, NoStats
  <2>6. cells \in Rows
    BY <1>1, <2>1, PartsInRows
  <2> HIDE DEF found, cells
  <2>7. Rewrites(cells, cells) = 0
    BY <2>6, RewritesType DEF Aligned
  <2>8. Number(cells, Trackers) \in Nat /\ Number(cells, Pingers) \in Nat
    BY <2>6, NumberType DEF Rows
  <2>9. /\ found.urls_cleaned + found.redirects_unwrapped = Rewrites(cells, cells)
        /\ found.pixels_removed + Number(cells, Trackers) = Number(cells, Trackers)
        /\ found.pings_stripped + Number(cells, Pingers) = Number(cells, Pingers)
    BY <2>4, <2>7, <2>8
  <2>10. /\ found.html_parts = (IF AsHtml(next) THEN 1 ELSE 0)
         /\ skipped' = skipped + (IF LeftAlone(next) THEN 1 ELSE 0)
         /\ recovered' = recovered + (IF Due("recover", next) THEN 1 ELSE 0)
         /\ cells = IF LeftAlone(next) THEN Parts[next].cells ELSE Cleaned(next)
    BY <2>1, <2>3, <2>4 DEF cells
  <2>11. unencodable' = unencodable + (IF Lost(next) THEN 1 ELSE 0)
    BY <1>1, <2>1, <2>3, CountersType
  <2>12. Len(replacements') = Cardinality(processed')
    BY <2>1 DEF Tallied
  <2>13. Adds(next, found, cells)
    BY <2>4, <2>5, <2>9, <2>10, <2>11 DEF Adds, cells
  <2> QED
    BY <2>1, <2>2, <2>12, <2>13, TalliedOne
<1>4. CASE CleanHtmlPart
  <2> DEFINE cells == Parts[next].cells
             found == HtmlStats(cells)
             new == CleanHtml(cells, eff, message.unsubscribe)
  <2>1. /\ Visit /\ next \in 1..Len(Parts) /\ stage \in {"html", "recover"} /\ Takes(next)
        /\ ~Parts[next].oversized
        /\ Queue(next, new, FoundHtml(next))
        /\ stats' = Plus(stats, found) /\ skipped' = skipped
        /\ recovered' = recovered + (IF stage = "recover" THEN 1 ELSE 0)
    BY <1>1, <1>4 DEF CleanHtmlPart, Visit, CountRecovered, FoundHtml
  <2>2. Due(stage, next)
    BY <2>1, TakesDue
  <2>3. AsHtml(next) /\ IsHtml(next) /\ ~LeftAlone(next) /\ (Due("recover", next) <=> stage = "recover")
    <3>1. AsHtml(next)
      BY <2>1, <2>2 DEF AsHtml
    <3>2. (Due("recover", next) <=> stage = "recover") /\ IsHtml(next)
      BY <1>1, <2>1, <2>2, <3>1, DueOnce
    <3> QED
      BY <2>1, <3>1, <3>2 DEF LeftAlone
  <2>4. next \notin processed
    BY <2>1, TakesOnce
  <2>5. /\ Len(replacements') = Cardinality(processed')
        /\ unencodable' = IF eff.mode = "Enforce" /\ FoundHtml(next) /\ ~Parts[next].encodable
                          THEN unencodable + 1 ELSE unencodable
    <3> HIDE DEF cells, found, new
    <3> QED
      BY <1>1, <2>1, <2>4, QueueCounts DEF Tallied
  <2>6. Lost(next) <=> eff.mode = "Enforce" /\ FoundHtml(next) /\ ~Parts[next].encodable
    BY <2>3 DEF Lost
  <2>7. /\ found \in Counts /\ found.html_parts = 1
        /\ found.urls_cleaned + found.redirects_unwrapped = Rewrites(cells, new)
        /\ found.pixels_removed + Number(new, Trackers) = Number(cells, Trackers)
        /\ found.pings_stripped + Number(new, Pingers) = Number(cells, Pingers)
    <3>1. cells \in Seq(Given)
      BY <1>1, <2>1, PartsAre
    <3> HIDE DEF cells
    <3> QED
      BY <3>1, HtmlTally
  <2>8. new = IF LeftAlone(next) THEN Parts[next].cells ELSE Cleaned(next)
    BY <2>3 DEF Cleaned
  <2> HIDE DEF found, new
  <2>9. /\ found.html_parts = (IF AsHtml(next) THEN 1 ELSE 0)
        /\ recovered' = recovered + (IF Due("recover", next) THEN 1 ELSE 0)
    BY <2>1, <2>3, <2>7
  <2>10. /\ unencodable' = unencodable + (IF Lost(next) THEN 1 ELSE 0)
         /\ skipped' = skipped + (IF LeftAlone(next) THEN 1 ELSE 0)
    BY <1>1, <2>1, <2>3, <2>5, <2>6, CountersType
  <2>11. Adds(next, found, new)
    BY <2>1, <2>7, <2>8, <2>9, <2>10 DEF Adds
  <2> QED
    BY <2>1, <2>2, <2>5, <2>11, TalliedOne
<1>5. CASE CleanPlainPart
  <2> DEFINE cells == Parts[next].cells
             found == TextStats(cells)
             new == CleanText(cells, eff)
  <2>1. /\ Visit /\ next \in 1..Len(Parts) /\ stage = "plain" /\ Takes(next)
        /\ Queue(next, new, FoundText(next))
        /\ stats' = Plus(stats, found) /\ skipped' = skipped /\ recovered' = recovered
    BY <1>1, <1>5 DEF CleanPlainPart, Visit, FoundText
  <2>2. Due(stage, next)
    BY <2>1, TakesDue
  <2>3. ~AsHtml(next) /\ ~IsHtml(next) /\ ~LeftAlone(next) /\ ~Due("recover", next)
    <3>1. ~AsHtml(next) /\ ~IsHtml(next) /\ ~Due("recover", next)
      BY <1>1, <2>1, <2>2, DueOnce
    <3> QED
      BY <3>1 DEF LeftAlone
  <2>4. next \notin processed
    BY <2>1, TakesOnce
  <2>5. /\ Len(replacements') = Cardinality(processed')
        /\ unencodable' = IF eff.mode = "Enforce" /\ FoundText(next) /\ ~Parts[next].encodable
                          THEN unencodable + 1 ELSE unencodable
    <3> HIDE DEF cells, found, new
    <3> QED
      BY <1>1, <2>1, <2>4, QueueCounts DEF Tallied
  <2>6. Lost(next) <=> eff.mode = "Enforce" /\ FoundText(next) /\ ~Parts[next].encodable
    BY <2>3 DEF Lost
  <2>7. /\ found \in Counts /\ found.html_parts = 0
        /\ found.urls_cleaned + found.redirects_unwrapped = Rewrites(cells, new)
        /\ found.pixels_removed + Number(new, Trackers) = Number(cells, Trackers)
        /\ found.pings_stripped + Number(new, Pingers) = Number(cells, Pingers)
    <3>1. cells \in Seq(Given)
      BY <1>1, <2>1, PartsAre
    <3> HIDE DEF cells
    <3> QED
      BY <3>1, TextTally
  <2>8. new = IF LeftAlone(next) THEN Parts[next].cells ELSE Cleaned(next)
    BY <2>3 DEF Cleaned
  <2> HIDE DEF found, new
  <2>9. /\ found.html_parts = (IF AsHtml(next) THEN 1 ELSE 0)
        /\ recovered' = recovered + (IF Due("recover", next) THEN 1 ELSE 0)
    BY <1>1, <2>1, <2>3, <2>7, CountersType
  <2>10. /\ unencodable' = unencodable + (IF Lost(next) THEN 1 ELSE 0)
         /\ skipped' = skipped + (IF LeftAlone(next) THEN 1 ELSE 0)
    BY <1>1, <2>1, <2>3, <2>5, <2>6, CountersType
  <2>11. Adds(next, found, new)
    BY <2>1, <2>7, <2>8, <2>9, <2>10 DEF Adds
  <2> QED
    BY <2>1, <2>2, <2>5, <2>11, TalliedOne
<1>6. CASE RewriterFails
  <2>1. /\ config' = config /\ message' = message /\ stage' = "failed" /\ next' = next
        /\ replacements' = replacements /\ processed' = processed /\ result' = result
        /\ stats' = stats /\ skipped' = skipped /\ recovered' = recovered /\ unencodable' = unencodable
    BY <1>6 DEF RewriterFails
  <2>2. result'.modified \in BOOLEAN /\ next' \in 1..Len(Parts) + 1
    BY <1>1, <2>1 DEF Tallied
  <2> QED
    BY <2>1, <2>2, TalliedKept
<1>7. CASE EndStage \/ Finish
  <2>1. /\ config' = config /\ message' = message
        /\ replacements' = replacements /\ processed' = processed
        /\ stats' = stats /\ skipped' = skipped /\ recovered' = recovered /\ unencodable' = unencodable
        /\ \/ stage = "html" /\ stage' = "recover" /\ next > Len(Parts) /\ next' = 1
           \/ stage = "recover" /\ stage' = "plain" /\ next > Len(Parts) /\ next' = 1
           \/ stage = "plain" /\ stage' = "splice" /\ next > Len(Parts) /\ next' = 1
           \/ stage = "splice" /\ stage' = "done" /\ next' = next
    BY <1>7 DEF EndStage, Finish
  <2>2. {i \in 1..Len(Parts) : Taken(i)}' = {i \in 1..Len(Parts) : Taken(i)}
    BY <1>1, <2>1, TakenOver
  <2>3. next' \in 1..Len(Parts) + 1 /\ stage # "failed"
    BY <1>1, <2>1
  <2>4. result'.modified \in BOOLEAN
    <3>1. CASE EndStage
      BY <3>1 DEF EndStage, Tallied
    <3>2. CASE Finish
      <4>1. result'.modified = (replacements # <<>>)
        BY <3>2 DEF Finish, Modified
      <4> QED
        BY <4>1
    <3> QED
      BY <1>7, <3>1, <3>2
  <2> QED
    BY <2>1, <2>2, <2>3, <2>4, TalliedKept
<1>8. CASE UNCHANGED vars
  <2>1. /\ config' = config /\ message' = message /\ stage' = stage /\ next' = next
        /\ replacements' = replacements /\ processed' = processed /\ result' = result
        /\ stats' = stats /\ skipped' = skipped /\ recovered' = recovered /\ unencodable' = unencodable
    BY <1>8 DEF vars
  <2>2. {i \in 1..Len(Parts) : Taken(i)}' = {i \in 1..Len(Parts) : Taken(i)}
    <3>1. Parts' = Parts /\ Over' = Over /\ \A s, i : Due(s, i)' <=> Due(s, i)
      BY <2>1, SameTally DEF Over
    <3>2. \A i : Taken(i)' <=> Taken(i)
      BY <2>1, <3>1 DEF Taken
    <3> QED
      BY <3>1, <3>2
  <2>3. result'.modified \in BOOLEAN /\ next' \in 1..Len(Parts) + 1
    BY <1>1, <2>1 DEF Tallied
  <2> QED
    BY <2>1, <2>2, <2>3, TalliedKept
<1> QED
  BY <1>2, <1>3, <1>4, <1>5, <1>6, <1>7, <1>8 DEF Next
\* Nothing is counted before the first part.
LEMMA InitTallied == Init => Tallied
<1> SUFFICES ASSUME Init PROVE Tallied
  OBVIOUS
<1>1. /\ message \in Messages /\ stage = "html" /\ next = 1 /\ stats = NoStats
      /\ replacements = <<>> /\ processed = {} /\ result = NoResult
      /\ skipped = 0 /\ recovered = 0 /\ unencodable = 0
  BY DEF Init
<1>2. Len(Parts) \in Nat
  BY <1>1, PartsAre
<1>3. \A i \in 1..Len(Parts) : ~Taken(i)
  <2>1. Over = {}
    BY <1>1 DEF Over
  <2> QED
    BY <1>1, <2>1 DEF Taken
<1>4. Tally({})
  <2>1. /\ {i \in {} : AsHtml(i)} = {} /\ {i \in {} : LeftAlone(i)} = {}
        /\ {i \in {} : Due("recover", i)} = {} /\ {i \in {} : Lost(i)} = {}
    OBVIOUS
  <2>2. Cardinality({}) = 0
    BY FS_EmptySet
  <2>3. Now({}) = Raw
    <3>1. /\ Came \in Pieces /\ New \in Pieces /\ Len(New) = Len(Came) /\ Raw = Laid(Came)
      BY <1>1, PiecesAre
    <3>2. {i \in {} : ~LeftAlone(i)} = {}
      OBVIOUS
    <3>3. /\ Mix(Came, New, {}) \in Pieces /\ Len(Mix(Came, New, {})) = Len(Came)
          /\ \A i \in 1..Len(Came) : Mix(Came, New, {})[i] = Came[i]
      BY <3>1, MixIs
    <3>4. Mix(Came, New, {}) = Came
      BY <3>1, <3>3, SeqEqual DEF Pieces
    <3> QED
      BY <3>1, <3>2, <3>4 DEF Now
  <2>4. Raw \in Rows
    BY <1>1, NowIs
  <2>5. Rewrites(Raw, Raw) = 0
    BY <2>4, RewritesType DEF Aligned
  <2>6. Number(Raw, Trackers) \in Nat /\ Number(Raw, Pingers) \in Nat
    BY <2>4, NumberType DEF Rows
  <2>7. /\ NoStats \in Counts /\ NoStats.html_parts = 0
        /\ NoStats.urls_cleaned + NoStats.redirects_unwrapped = 0
        /\ NoStats.pixels_removed = 0 /\ NoStats.pings_stripped = 0
    BY DEF NoStats, Counts
  <2> QED
    BY <1>1, <2>1, <2>2, <2>3, <2>5, <2>6, <2>7 DEF Tally
<1>5. {} = {i \in 1..Len(Parts) : Taken(i)}
  BY <1>3
<1>6. Len(replacements) = Cardinality(processed)
  <2>1. Len(<<>>) = 0
    OBVIOUS
  <2> QED
    BY <1>1, <2>1, FS_EmptySet
<1>7. next \in 1..Len(Parts) + 1 /\ result.modified \in BOOLEAN
  BY <1>1, <1>2 DEF NoResult
<1> QED
  BY <1>4, <1>5, <1>6, <1>7 DEF Tallied

\* The counts are those of the parts taken on in every state.
LEMMA TalliedInvariance == Spec => [](Inv /\ Queued /\ Tallied)
<1>1. Init => Inv /\ Queued /\ Tallied
  BY InitInv, InitQueued, InitTallied
<1>2. Inv /\ Queued /\ Tallied /\ [Next]_vars => (Inv /\ Queued /\ Tallied)'
  BY NextInv, NextQueued, NextTallied
<1> QED
  BY <1>1, <1>2, PTL DEF Spec

-----------------------------------------------------------------------------
(* The audit headers.                                                      *)

\* What is counted by tests is counted by sets.
LEMMA HowManyOfRow ==
  ASSUME NEW row \in Rows
  PROVE  /\ HowMany(row, LAMBDA c : c.tag \in {"img", "css"}) = Number(row, Trackers)
         /\ HowMany(row, LAMBDA c : c.ping) = Number(row, Pingers)
<1>1. \A n \in DOMAIN row : row[n] \in Cells \cup {Boundary}
  BY DEF Rows
<1>2. \A c \in Cells \cup {Boundary} : (c.tag \in {"img", "css"} <=> c \in Trackers)
  BY DEF Trackers, Boundary, Cell
<1>3. \A c \in Cells \cup {Boundary} : (c.ping <=> c \in Pingers)
  BY DEF Pingers, Boundary, Cell
<1>4. {n \in DOMAIN row : row[n].tag \in {"img", "css"}} = {n \in DOMAIN row : row[n] \in Trackers}
  BY <1>1, <1>2
<1>5. {n \in DOMAIN row : row[n].ping} = {n \in DOMAIN row : row[n] \in Pingers}
  BY <1>1, <1>3
<1> QED
  BY <1>4, <1>5 DEF HowMany, Number

\* When nothing was lost, what was cleaned is what is delivered.
LEMMA NowIsDelivered ==
  ASSUME Queued, stage = "done", eff.mode = "Enforce", NEW I,
         I = {i \in 1..Len(Parts) : Taken(i)}, \A i \in I : ~Lost(i)
  PROVE  Now(I) = result.body
<1> DEFINE J == {i \in I : ~LeftAlone(i)}
<1>1. message \in Messages
  BY DEF Queued
<1>2. /\ Came \in Pieces /\ New \in Pieces /\ Len(Came) = Len(Parts) /\ Len(New) = Len(Came)
      /\ \A i \in 1..Len(Parts) : Came[i] = Parts[i].cells /\ New[i] = Cleaned(i)
  BY <1>1, PiecesAre
<1>3. \A i \in 1..Len(Parts) : Taken(i) <=> Due("html", i) \/ Due("recover", i) \/ Due("plain", i)
  <2>1. Over = {"html", "recover", "plain"} /\ \A i : ~Due("done", i)
    BY DEF Over, Due
  <2> QED
    BY <2>1 DEF Taken
<1>4. ASSUME NEW i \in 1..Len(Parts)
      PROVE  Delivered(i) = IF i \in J THEN Cleaned(i) ELSE Parts[i].cells
  <2>1. /\ Enforced(i) <=> AsHtml(i) /\ ~Parts[i].oversized /\ Parts[i].encodable
        /\ EnforcedText(i) <=> Due("plain", i) /\ Parts[i].encodable
    BY DEF Enforced, EnforcedText, AsHtml, Due
  <2>2. i \in J <=> (AsHtml(i) \/ Due("plain", i)) /\ ~LeftAlone(i)
    BY <1>3 DEF AsHtml
  <2>3. /\ AsHtml(i) => IsHtml(i) /\ ~Due("plain", i)
        /\ Due("plain", i) => ~IsHtml(i) /\ ~AsHtml(i)
    BY <1>1, DueOnce
  <2>4. Parts[i].cells \in Seq(Given)
    BY <1>1, PartsAre
  <2>5. CASE AsHtml(i) /\ ~Parts[i].oversized
    <3>1. i \in J /\ i \in I /\ ~LeftAlone(i)
      BY <2>2, <2>5 DEF LeftAlone
    <3>2. Cleaned(i) = CleanHtml(Parts[i].cells, eff, message.unsubscribe)
      BY <2>3, <2>5 DEF Cleaned
    <3>3. CASE Parts[i].encodable
      BY <2>1, <2>5, <3>1, <3>2, <3>3 DEF Delivered
    <3>4. CASE ~Parts[i].encodable
      <4>1. ~FoundHtml(i)
        BY <2>5, <3>1, <3>4 DEF Lost
      <4>2. CleanHtml(Parts[i].cells, eff, message.unsubscribe) = Parts[i].cells
        BY <2>4, <4>1, HtmlChanges DEF FoundHtml
      <4>3. Delivered(i) = Parts[i].cells
        BY <2>1, <3>4 DEF Delivered
      <4> QED
        BY <3>1, <3>2, <4>2, <4>3
    <3> QED
      BY <3>3, <3>4
  <2>6. CASE AsHtml(i) /\ Parts[i].oversized
    <3>1. i \notin J
      BY <2>2, <2>6 DEF LeftAlone
    <3> QED
      BY <2>1, <2>3, <2>6, <3>1 DEF Delivered
  <2>7. CASE Due("plain", i)
    <3>1. i \in J /\ i \in I /\ ~LeftAlone(i) /\ ~AsHtml(i)
      BY <2>2, <2>3, <2>7 DEF LeftAlone
    <3>2. Cleaned(i) = CleanText(Parts[i].cells, eff)
      BY <2>3, <2>7 DEF Cleaned
    <3>3. CASE Parts[i].encodable
      BY <2>1, <2>7, <3>1, <3>2, <3>3 DEF Delivered
    <3>4. CASE ~Parts[i].encodable
      <4>1. ~FoundText(i)
        BY <2>7, <3>1, <3>4 DEF Lost
      <4>2. CleanText(Parts[i].cells, eff) = Parts[i].cells
        BY <2>4, <4>1, TextChanges DEF FoundText
      <4>3. Delivered(i) = Parts[i].cells
        BY <2>1, <3>4 DEF Delivered
      <4> QED
        BY <3>1, <3>2, <4>2, <4>3
    <3> QED
      BY <3>3, <3>4
  <2>8. CASE ~AsHtml(i) /\ ~Due("plain", i)
    <3>1. i \notin J
      BY <2>2, <2>8
    <3> QED
      BY <2>1, <2>8, <3>1 DEF Delivered
  <2> QED
    BY <2>5, <2>6, <2>7, <2>8
<1> DEFINE m == Mix(Came, New, J)
<1>5. /\ m \in Pieces /\ Len(m) = Len(Came)
      /\ \A i \in 1..Len(Came) : m[i] = IF i \in J THEN New[i] ELSE Came[i]
  BY <1>2, MixIs
<1>6. Outcome \in Pieces /\ Len(Outcome) = Len(Parts) /\ result.body = Laid(Outcome)
      /\ \A i \in 1..Len(Parts) : Outcome[i] = Delivered(i)
  BY BodyIs, OutcomeIs
<1>7. Now(I) = Laid(m)
  BY DEF Now
<1> HIDE DEF m, J
<1>8. \A i \in 1..Len(Parts) : m[i] = Outcome[i]
  BY <1>2, <1>4, <1>5, <1>6
<1>9. m = Outcome
  BY <1>2, <1>5, <1>6, <1>8, SeqEqual DEF Pieces
<1> QED
  BY <1>6, <1>7, <1>9

\* The counts of the audit headers are those of the differences.
THEOREM HeadersTell == Spec => []HeadersAreTrue
<1>1. Inv /\ Queued /\ Tallied => HeadersAreTrue
  <2> SUFFICES ASSUME Inv, Queued, Tallied, stage = "done", eff.mode = "Enforce", unencodable = 0
               PROVE  /\ stats.urls_cleaned + stats.redirects_unwrapped = Rewrites(Raw, result.body)
                      /\ stats.pixels_removed =
                           HowMany(Raw, LAMBDA c : c.tag \in {"img", "css"})
                             - HowMany(result.body, LAMBDA c : c.tag \in {"img", "css"})
                      /\ stats.pings_stripped =
                           HowMany(Raw, LAMBDA c : c.ping) - HowMany(result.body, LAMBDA c : c.ping)
    BY DEF HeadersAreTrue
  <2>1. message \in Messages /\ Len(Parts) \in Nat
    BY PartsAre DEF Queued
  <2>2. PICK I \in SUBSET (1..Len(Parts)) : Tally(I) /\ I = {i \in 1..Len(Parts) : Taken(i)}
    BY DEF Tallied
  <2>3. \A i \in I : ~Lost(i)
    <3> DEFINE A == {i \in I : Lost(i)}
    <3>1. Cardinality(A) = 0
      BY <2>2 DEF Tally
    <3>2. IsFiniteSet(A)
      <4>1. IsFiniteSet(1..Len(Parts)) /\ A \subseteq 1..Len(Parts)
        BY <2>1, <2>2, FS_Interval
      <4> HIDE DEF A
      <4> QED
        BY <4>1, FS_Subset
    <3> HIDE DEF A
    <3>3. A = {}
      BY <3>1, <3>2, FS_EmptySet
    <3> QED
      BY <3>3 DEF A
  <2>4. Now(I) = result.body
    BY <2>2, <2>3, NowIsDelivered
  <2>5. Raw \in Rows /\ result.body \in Rows
    BY <2>1, <2>4, NowIs
  <2>6. stats \in Counts
    BY <2>2 DEF Tally
  <2>7. /\ stats.urls_cleaned + stats.redirects_unwrapped = Rewrites(Raw, result.body)
        /\ stats.pixels_removed + Number(result.body, Trackers) = Number(Raw, Trackers)
        /\ stats.pings_stripped + Number(result.body, Pingers) = Number(Raw, Pingers)
    BY <2>2, <2>4 DEF Tally
  <2>8. /\ stats.pixels_removed \in Nat /\ stats.pings_stripped \in Nat
        /\ Number(result.body, Trackers) \in Nat /\ Number(result.body, Pingers) \in Nat
        /\ Number(Raw, Trackers) \in Nat /\ Number(Raw, Pingers) \in Nat
    <3>1. \A r \in Rows : \A S : Number(r, S) \in Nat
      BY NumberType DEF Rows
    <3> QED
      BY <2>5, <2>6, <3>1 DEF Counts
  <2>9. /\ stats.pixels_removed = Number(Raw, Trackers) - Number(result.body, Trackers)
        /\ stats.pings_stripped = Number(Raw, Pingers) - Number(result.body, Pingers)
    BY <2>7, <2>8
  <2>10. /\ HowMany(Raw, LAMBDA c : c.tag \in {"img", "css"}) = Number(Raw, Trackers)
         /\ HowMany(Raw, LAMBDA c : c.ping) = Number(Raw, Pingers)
    BY <2>5, HowManyOfRow
  <2>11. /\ HowMany(result.body, LAMBDA c : c.tag \in {"img", "css"}) = Number(result.body, Trackers)
         /\ HowMany(result.body, LAMBDA c : c.ping) = Number(result.body, Pingers)
    BY <2>5, HowManyOfRow
  <2> QED
    BY <2>7, <2>9, <2>10, <2>11
<1> QED
  BY <1>1, TalliedInvariance, PTL

-----------------------------------------------------------------------------
(* Types.                                                                  *)

\* A message is longer than it has parts.
LEMMA MorePiecesThanParts ==
  ASSUME NEW p \in Pieces
  PROVE  Len(Laid(p)) \in Nat /\ Len(p) \in Nat /\ Len(p) < Len(Laid(p))
<1> DEFINE P == {q \in Pieces : Len(q) < Len(Laid(q))}
<1>1. <<>> \in P
  <2>1. <<>> \in Pieces /\ <<>> \in Seq(Cells) /\ Len(<<>>) = 0 /\ Len(<<Boundary>>) = 1
    BY DEF Pieces
  <2>2. Laid(<<>>) = <<Boundary>>
    BY <2>1, LaidAppend
  <2>3. Len(<<>>) < Len(Laid(<<>>))
    BY <2>1, <2>2
  <2> QED
    BY <2>1, <2>3
<1>2. ASSUME NEW q \in Seq(Seq(Cells)), NEW x \in Seq(Cells), q \in P PROVE Append(q, x) \in P
  <2>1. q \in Pieces /\ Append(q, x) \in Pieces /\ Len(Append(q, x)) = Len(q) + 1 /\ Len(q) \in Nat
    BY DEF Pieces
  <2>2. Laid(Append(q, x)) = (Laid(q) \o x) \o <<Boundary>>
    BY <2>1, LaidAppend
  <2>3. Laid(q) \in Rows /\ x \in Rows /\ <<Boundary>> \in Rows
    BY <2>1, LaidType DEF Rows
  <2>4. \A r, s \in Rows : r \o s \in Rows /\ Len(r \o s) = Len(r) + Len(s)
    BY ConcatProperties DEF Rows
  <2>5. Len(Laid(Append(q, x))) = Len(Laid(q)) + Len(x) + Len(<<Boundary>>)
    BY <2>2, <2>3, <2>4
  <2>6. Len(Laid(q)) \in Nat /\ Len(x) \in Nat /\ Len(<<Boundary>>) = 1
    BY <2>3 DEF Rows
  <2>7. Len(q) < Len(Laid(q))
    BY <1>2
  <2> QED
    BY <2>1, <2>5, <2>6, <2>7
<1> HIDE DEF P
<1>3. p \in P
  BY <1>1, <1>2, Laying!SeqInduction DEF Pieces
<1>4. Laid(p) \in Rows
  BY LaidType
<1> QED
  BY <1>3, <1>4 DEF P, Pieces, Rows

\* Some parts are not more than all.
LEMMA SomeAreFewer ==
  ASSUME NEW N \in Nat
  PROVE  \A A \in SUBSET (1..N) : Cardinality(A) \in Nat /\ Cardinality(A) <= N
<1>1. IsFiniteSet(1..N) /\ Cardinality(1..N) = N
  BY FS_Interval
<1> QED
  BY <1>1, FS_Subset, FS_CardinalityType

\* The variables of clean_message hold values of their types.
THEOREM TypeCorrect == Spec => []TypeOK
<1>1. Inv /\ Queued /\ Tallied => TypeOK
  <2> SUFFICES ASSUME Inv, Queued, Tallied PROVE TypeOK
    OBVIOUS
  <2>1. /\ message \in Messages /\ Len(Parts) \in Nat /\ DOMAIN Parts = 1..Len(Parts)
        /\ config \in Configs /\ stage \in Stages
    BY PartsAre DEF Queued, Inv
  <2>2. /\ Came \in Pieces /\ Len(Came) = Len(Parts) /\ Raw = Laid(Came)
        /\ \A i \in 1..Len(Parts) : Replacement(i) = Repl(Came, New, i)
    BY <2>1, PiecesAre
  <2>3. Len(Raw) \in Nat /\ Len(Parts) < Len(Raw)
    BY <2>2, MorePiecesThanParts
  <2>4. PICK I \in SUBSET (1..Len(Parts)) : Tally(I)
    BY DEF Tallied
  <2>5. \A A \in SUBSET (1..Len(Parts)) : Cardinality(A) \in Nat /\ Cardinality(A) <= Len(Parts)
    BY <2>1, SomeAreFewer
  <2>6. /\ {i \in I : AsHtml(i)} \in SUBSET (1..Len(Parts))
        /\ {i \in I : LeftAlone(i)} \in SUBSET (1..Len(Parts))
        /\ {i \in I : Due("recover", i)} \in SUBSET (1..Len(Parts))
        /\ {i \in I : Lost(i)} \in SUBSET (1..Len(Parts))
    BY <2>4
  <2>7. {skipped, recovered, unencodable} \subseteq 0..Len(Parts)
    BY <2>1, <2>4, <2>5, <2>6 DEF Tally
  <2>8. stats.html_parts \in 0..Len(Raw)
    BY <2>1, <2>3, <2>4, <2>5, <2>6 DEF Tally
  <2>9. Raw \in Rows /\ Now(I) \in Rows /\ Aligned(Raw, Now(I))
    BY <2>1, NowIs
  <2>10. stats \in Counts
    BY <2>4 DEF Tally
  <2>11. stats.urls_cleaned \in 0..Len(Raw) /\ stats.redirects_unwrapped \in 0..Len(Raw)
    <3>1. Rewrites(Raw, Now(I)) \in Nat /\ Rewrites(Raw, Now(I)) <= Len(Raw)
      BY <2>9, RewritesType
    <3>2. stats.urls_cleaned + stats.redirects_unwrapped = Rewrites(Raw, Now(I))
      BY <2>4 DEF Tally
    <3>3. stats.urls_cleaned \in Nat /\ stats.redirects_unwrapped \in Nat
      BY <2>10 DEF Counts
    <3> QED
      BY <2>3, <3>1, <3>2, <3>3
  <2>12. stats.pixels_removed \in 0..Len(Raw)
    <3>1. /\ Number(Raw, Trackers) \in Nat /\ Number(Raw, Trackers) <= Len(Raw)
          /\ Number(Now(I), Trackers) \in Nat
      BY <2>9, NumberType DEF Rows
    <3>2. stats.pixels_removed + Number(Now(I), Trackers) = Number(Raw, Trackers)
      BY <2>4 DEF Tally
    <3>3. stats.pixels_removed \in Nat
      BY <2>10 DEF Counts
    <3> QED
      BY <2>3, <3>1, <3>2, <3>3
  <2>13. stats.pings_stripped \in 0..Len(Raw)
    <3>1. /\ Number(Raw, Pingers) \in Nat /\ Number(Raw, Pingers) <= Len(Raw)
          /\ Number(Now(I), Pingers) \in Nat
      BY <2>9, NumberType DEF Rows
    <3>2. stats.pings_stripped + Number(Now(I), Pingers) = Number(Raw, Pingers)
      BY <2>4 DEF Tally
    <3>3. stats.pings_stripped \in Nat
      BY <2>10 DEF Counts
    <3> QED
      BY <2>3, <3>1, <3>2, <3>3
  <2>14. \A f \in DOMAIN NoStats : stats[f] \in 0..Len(Raw)
    <3>1. DOMAIN NoStats
            = {"html_parts", "urls_cleaned", "redirects_unwrapped", "pixels_removed", "pings_stripped"}
      BY DEF NoStats
    <3> QED
      BY <2>8, <2>11, <2>12, <2>13, <3>1
  <2>15. ASSUME NEW n \in DOMAIN replacements
         PROVE  /\ replacements[n].start \in Offsets /\ replacements[n].end \in Offsets
                /\ replacements[n].start <= replacements[n].end
    <3>1. replacements[n] \in {Replacement(i) : i \in 1..Len(Parts)}
      BY DEF Queued, InQueue
    <3>2. PICK i \in 1..Len(Parts) : replacements[n] = Repl(Came, New, i)
      BY <2>2, <3>1
    <3>3. /\ replacements[n].start = Offset(Came, i)
          /\ replacements[n].end = Offset(Came, i) + Len(Came[i])
      BY <3>2 DEF Repl
    <3>4. /\ Offset(Came, i) \in Nat /\ Len(Came[i]) \in Nat
          /\ Offset(Came, i) + Len(Came[i]) < Offset(Came, Len(Came) + 1)
      BY <2>1, <2>2, OffsetsRise
    <3>5. Offset(Came, Len(Came) + 1) = Len(Raw)
      <4>1. SubSeq(Came, 1, (Len(Came) + 1) - 1) = Came
        BY <2>1, <2>2 DEF Pieces
      <4> QED
        BY <2>2, <4>1 DEF Offset
    <3> QED
      BY <2>3, <3>3, <3>4, <3>5 DEF Offsets
  <2>16. processed \subseteq DOMAIN Parts
    BY <2>1 DEF Inv
  <2>17. /\ next \in 1..(Len(Parts) + 1) /\ result.modified \in BOOLEAN
         /\ Len(replacements) = Cardinality(processed)
    BY DEF Tallied
  <2> QED
    BY <2>1, <2>7, <2>14, <2>15, <2>16, <2>17 DEF TypeOK
<1> QED
  BY <1>1, TalliedInvariance, PTL

=============================================================================
