---------------------------- MODULE ExUndoProofs -----------------------------
(***************************************************************************)
(* Proofs about ExUndo, for buffers and commands of every size: undo       *)
(* brings back the text before the last command and is its own inverse,    *)
(* and it refuses only when there is nothing to undo.                      *)
(***************************************************************************)
EXTENDS ExUndo, SequenceTheorems, TLAPS

-----------------------------------------------------------------------------
(* Sequences of lines in pieces.  The operators below name the ones of      *)
(* Sequences, so that a proof sees of them what the lemmas say and no more. *)

Lines == Seq(Line)
A ++ B == A \o B
Size(s) == Len(s)
At(s, i) == s[i]
First(s, n) == SubSeq(s, 1, n)
Rest(s, n) == SubSeq(s, n + 1, Len(s))
Mid(s, a, b) == SubSeq(s, a + 1, b)
Part(s, a, b) == SubSeq(s, a, b)

\* The length of a sequence is a natural number.
LEMMA LineLen == ASSUME NEW A \in Lines PROVE Size(A) \in Nat
  BY LenProperties DEF Lines, Size

\* The empty sequence, and what joining it does.
LEMMA NoLines ==
    ASSUME NEW A \in Lines
    PROVE  /\ <<>> \in Lines /\ A ++ <<>> = A /\ <<>> ++ A = A
           /\ (Size(A) = 0 <=> A = <<>>) /\ Size(<<>>) = 0
  <1>1. <<>> \in Lines /\ (Size(A) = 0 <=> A = <<>>) /\ Size(<<>>) = 0
    BY EmptySeq, LenProperties DEF Lines, Size
  <1>2. A ++ <<>> = A /\ <<>> ++ A = A
    BY ConcatEmptySeq DEF Lines, ++
  <1> QED
    BY <1>1, <1>2

\* Joining two sequences: the length,
LEMMA Joined ==
    ASSUME NEW A \in Lines, NEW B \in Lines
    PROVE  A ++ B \in Lines /\ Size(A ++ B) = Size(A) + Size(B)
  BY ConcatProperties DEF Lines, ++, Size

\* and the lines.
LEMMA JoinedAt ==
    ASSUME NEW A \in Lines, NEW B \in Lines
    PROVE  /\ \A i \in 1..Size(A) : At(A ++ B, i) = At(A, i)
           /\ \A i \in 1..Size(B) : At(A ++ B, Size(A) + i) = At(B, i)
  <1>1. \A i \in 1..Len(A) + Len(B) :
          (A ++ B)[i] = IF i <= Len(A) THEN A[i] ELSE B[i - Len(A)]
    BY ConcatProperties DEF Lines, ++
  <1>2. Len(A) \in Nat /\ Len(B) \in Nat
    BY LineLen DEF Size
  <1>3. ASSUME NEW i \in 1..Len(A) PROVE (A ++ B)[i] = A[i]
    <2>1. i \in 1..Len(A) + Len(B) /\ i <= Len(A)
      BY <1>2
    <2> QED
      BY <1>1, <2>1
  <1>4. ASSUME NEW i \in 1..Len(B) PROVE (A ++ B)[Len(A) + i] = B[i]
    <2>1. Len(A) + i \in 1..Len(A) + Len(B) /\ ~(Len(A) + i <= Len(A)) /\ Len(A) + i - Len(A) = i
      BY <1>2
    <2> QED
      BY <1>1, <2>1
  <1> QED
    BY <1>3, <1>4 DEF Size, At

\* Joining is associative.
LEMMA Assoc ==
    ASSUME NEW A \in Lines, NEW B \in Lines, NEW C \in Lines PROVE A ++ B ++ C = A ++ (B ++ C)
  BY ConcatAssociative DEF Lines, ++

\* Two sequences with the same lines are the same.
LEMMA Same ==
    ASSUME NEW x \in Lines, NEW y \in Lines, Size(x) = Size(y), \A i \in 1..Size(x) : At(x, i) = At(y, i)
    PROVE  x = y
  BY SeqEqual DEF Lines, Size, At

\* The first n lines, the lines behind a up to b, and the lines behind n.
LEMMA FirstIs ==
    ASSUME NEW s \in Lines, NEW n \in Nat, n <= Size(s)
    PROVE  First(s, n) \in Lines /\ Size(First(s, n)) = n /\ \A i \in 1..n : At(First(s, n), i) = At(s, i)
  <1>1. CASE n = 0
    <2>1. First(s, n) = <<>>
      BY <1>1 DEF Lines, First
    <2>2. ~\E i \in 1..n : TRUE
      BY <1>1
    <2> QED
      BY <1>1, <2>1, <2>2, NoLines
  <1>2. CASE n > 0
    <2>1. /\ SubSeq(s, 1, n) \in Seq(Line) /\ Len(SubSeq(s, 1, n)) = n
          /\ \A i \in 1..n : SubSeq(s, 1, n)[i] = s[i]
      BY <1>2 DEF Lines, Size
    <2> QED
      BY <2>1 DEF Lines, First, Size, At
  <1> QED
    BY <1>1, <1>2

\* The lines behind a up to b.
LEMMA MidIs ==
    ASSUME NEW s \in Lines, NEW a \in Nat, NEW b \in Nat, a <= b, b <= Size(s)
    PROVE  /\ Mid(s, a, b) \in Lines /\ Size(Mid(s, a, b)) = b - a
           /\ \A i \in 1..b - a : At(Mid(s, a, b), i) = At(s, a + i)
  <1>1. CASE a = b
    <2>1. Mid(s, a, b) = <<>> /\ b - a = 0
      BY <1>1 DEF Lines, Mid
    <2>2. ~\E i \in 1..b - a : TRUE
      BY <1>1
    <2> QED
      BY <2>1, <2>2, NoLines
  <1>2. CASE a < b
    <2>1. Len(s) \in Nat
      BY LineLen DEF Size
    <2>2. a + 1 \in 1..Len(s) /\ b \in a + 1..Len(s)
      BY <1>2, <2>1 DEF Size
    <2>3. /\ SubSeq(s, a + 1, b) \in Seq(Line)
          /\ Len(SubSeq(s, a + 1, b)) = b - a
          /\ \A i \in 1..b - a : SubSeq(s, a + 1, b)[i] = s[a + i]
      BY <1>2, <2>1, <2>2 DEF Lines
    <2> QED
      BY <2>3 DEF Mid, Lines, Size, At
  <1> QED
    BY <1>1, <1>2

\* The lines behind n.
LEMMA RestIs ==
    ASSUME NEW s \in Lines, NEW n \in Nat, n <= Size(s)
    PROVE  /\ Rest(s, n) \in Lines /\ Size(Rest(s, n)) = Size(s) - n
           /\ \A i \in 1..Size(s) - n : At(Rest(s, n), i) = At(s, n + i)
           /\ Rest(s, n) = Mid(s, n, Size(s))
  <1>1. Rest(s, n) = Mid(s, n, Size(s))
    BY DEF Rest, Mid, Size
  <1>2. PICK l \in Nat : l = Size(s)
    BY LineLen
  <1>3. /\ Mid(s, n, l) \in Lines /\ Size(Mid(s, n, l)) = l - n
        /\ \A i \in 1..l - n : At(Mid(s, n, l), i) = At(s, n + i)
    BY <1>2, MidIs
  <1> QED
    BY <1>1, <1>2, <1>3

\* The pieces of what was put together.
LEMMA Cut2 ==
    ASSUME NEW A \in Lines, NEW B \in Lines
    PROVE  First(A ++ B, Size(A)) = A /\ Rest(A ++ B, Size(A)) = B
  <1>1. PICK s \in Lines : s = A ++ B
    BY Joined
  <1>2. PICK a \in Nat, b \in Nat : a = Size(A) /\ b = Size(B)
    BY LineLen
  <1>3. /\ Size(s) = a + b
        /\ \A i \in 1..a : At(s, i) = At(A, i)
        /\ \A i \in 1..b : At(s, a + i) = At(B, i)
    BY <1>1, <1>2, Joined, JoinedAt
  <1>4. a <= Size(s) /\ Size(s) - a = b
    BY <1>3
  <1>5. First(s, a) = A
    <2>1. First(s, a) \in Lines /\ Size(First(s, a)) = a /\ \A i \in 1..a : At(First(s, a), i) = At(s, i)
      BY <1>4, FirstIs
    <2> QED
      BY <1>2, <1>3, <2>1, Same
  <1>6. Rest(s, a) = B
    <2>1. Rest(s, a) \in Lines /\ Size(Rest(s, a)) = b /\ \A i \in 1..b : At(Rest(s, a), i) = At(s, a + i)
      BY <1>4, RestIs
    <2> QED
      BY <1>2, <1>3, <2>1, Same
  <1> QED
    BY <1>1, <1>2, <1>5, <1>6

\* A sequence can be taken apart anywhere.
LEMMA Glue2 ==
    ASSUME NEW s \in Lines, NEW n \in Nat, n <= Size(s) PROVE s = First(s, n) ++ Rest(s, n)
  <1>1. PICK l \in Nat : l = Size(s)
    BY LineLen
  <1>2. PICK m \in Nat : m = l - n
    BY <1>1
  <1>3. PICK A, B : A = First(s, n) /\ B = Rest(s, n)
    OBVIOUS
  <1>4. A \in Lines /\ Size(A) = n /\ \A i \in 1..n : At(A, i) = At(s, i)
    BY <1>3, FirstIs
  <1>5. B \in Lines /\ Size(B) = m /\ \A i \in 1..m : At(B, i) = At(s, n + i)
    BY <1>1, <1>2, <1>3, RestIs
  <1>6. PICK t \in Lines : t = A ++ B
    BY <1>4, <1>5, Joined
  <1>7. /\ Size(t) = n + m
        /\ \A i \in 1..n : At(t, i) = At(A, i)
        /\ \A i \in 1..m : At(t, n + i) = At(B, i)
    BY <1>4, <1>5, <1>6, Joined, JoinedAt
  <1>8. n + m = l
    BY <1>2
  <1>9. \A i \in 1..l : At(s, i) = At(t, i)
    <2>1. ASSUME NEW i \in 1..l PROVE At(s, i) = At(t, i)
      <3>1. i \in 1..n \/ (i - n \in 1..m /\ n + (i - n) = i)
        BY <1>2
      <3>2. CASE i \in 1..n
        BY <1>4, <1>7, <3>2
      <3>3. CASE i - n \in 1..m /\ n + (i - n) = i
        <4>1. PICK k \in 1..m : k = i - n /\ n + k = i
          BY <3>3
        <4> QED
          BY <1>5, <1>7, <4>1
      <3> QED
        BY <3>1, <3>2, <3>3
    <2> QED
      BY <2>1
  <1>10. s = t
    BY <1>1, <1>7, <1>8, <1>9, Same
  <1> QED
    BY <1>3, <1>6, <1>10

\* A middle piece is what is behind the first of the first.
LEMMA MidInFirst ==
    ASSUME NEW s \in Lines, NEW a \in Nat, NEW b \in Nat, a <= b, b <= Size(s)
    PROVE  Mid(s, a, b) = Rest(First(s, b), a)
  <1>1. PICK t \in Lines : t = First(s, b) /\ Size(t) = b /\ \A i \in 1..b : At(t, i) = At(s, i)
    BY FirstIs
  <1>2. PICK m \in Nat : m = b - a
    OBVIOUS
  <1>3. Mid(s, a, b) \in Lines /\ Size(Mid(s, a, b)) = m /\ \A i \in 1..m : At(Mid(s, a, b), i) = At(s, a + i)
    BY <1>2, MidIs
  <1>4. Rest(t, a) \in Lines /\ Size(Rest(t, a)) = m /\ \A i \in 1..m : At(Rest(t, a), i) = At(t, a + i)
    BY <1>1, <1>2, RestIs
  <1>5. \A i \in 1..m : a + i \in 1..b
    BY <1>2
  <1>6. \A i \in 1..m : At(Mid(s, a, b), i) = At(Rest(t, a), i)
    BY <1>1, <1>3, <1>4, <1>5
  <1> QED
    BY <1>1, <1>3, <1>4, <1>6, Same

\* The pieces of three sequences joined.
LEMMA Cut3 ==
    ASSUME NEW A \in Lines, NEW B \in Lines, NEW C \in Lines
    PROVE  /\ First(A ++ B ++ C, Size(A)) = A
           /\ First(A ++ B ++ C, Size(A) + Size(B)) = A ++ B
           /\ Mid(A ++ B ++ C, Size(A), Size(A) + Size(B)) = B
           /\ Rest(A ++ B ++ C, Size(A)) = B ++ C
           /\ Rest(A ++ B ++ C, Size(A) + Size(B)) = C
  <1>1. PICK a \in Nat, b \in Nat, c \in Nat : a = Size(A) /\ b = Size(B) /\ c = Size(C)
    BY LineLen
  <1>2. PICK x \in Lines, y \in Lines : x = A ++ B /\ y = B ++ C
    BY Joined
  <1>3. PICK s \in Lines : s = x ++ C
    BY Joined
  <1>4. Size(x) = a + b /\ Size(s) = a + b + c /\ s = A ++ y
    BY <1>1, <1>2, <1>3, Joined, Assoc
  <1>5. First(s, a) = A /\ Rest(s, a) = y
    BY <1>1, <1>4, Cut2
  <1>6. First(x ++ C, Size(x)) = x /\ Rest(x ++ C, Size(x)) = C
    BY Cut2
  <1>7. First(s, a + b) = x /\ Rest(s, a + b) = C
    BY <1>3, <1>4, <1>6
  <1>8. Mid(s, a, a + b) = B
    <2>1. PICK n \in Nat : n = a + b
      OBVIOUS
    <2>2. a <= n /\ n <= Size(s)
      BY <1>4, <2>1
    <2>3. Mid(s, a, n) = Rest(First(s, n), a)
      BY <2>2, MidInFirst
    <2>4. Rest(A ++ B, Size(A)) = B
      BY Cut2
    <2> QED
      BY <1>1, <1>2, <1>7, <2>1, <2>3, <2>4
  <1> QED
    BY <1>1, <1>2, <1>3, <1>5, <1>7, <1>8

\* A sequence is what is before a range, the range, and what is behind it.
LEMMA Glue3 ==
    ASSUME NEW s \in Lines, NEW a \in Nat, NEW b \in Nat, a <= b, b <= Size(s)
    PROVE  /\ s = First(s, a) ++ Mid(s, a, b) ++ Rest(s, b)
           /\ First(s, b) = First(s, a) ++ Mid(s, a, b)
  <1>1. PICK t \in Lines : t = First(s, b) /\ Size(t) = b
    BY FirstIs
  <1>2. s = t ++ Rest(s, b)
    BY <1>1, Glue2
  <1>3. t = First(t, a) ++ Rest(t, a)
    BY <1>1, Glue2
  <1>4. Rest(t, a) = Mid(s, a, b)
    BY <1>1, MidInFirst
  <1>5. First(t, a) = First(s, a)
    <2>1. PICK x \in Lines, y \in Lines, z \in Lines : x = First(t, a) /\ y = Rest(t, a) /\ z = Rest(s, b)
      BY <1>1, FirstIs, RestIs
    <2>2. Size(x) = a
      BY <1>1, <2>1, FirstIs
    <2>3. s = x ++ y ++ z
      BY <1>2, <1>3, <2>1
    <2> QED
      BY <2>1, <2>2, <2>3, Cut3
  <1> QED
    BY <1>1, <1>2, <1>3, <1>4, <1>5

\* And with two ranges next to each other.
LEMMA Glue4 ==
    ASSUME NEW s \in Lines, NEW a \in Nat, NEW b \in Nat, NEW c \in Nat, a <= b, b <= c, c <= Size(s)
    PROVE  s = First(s, a) ++ Mid(s, a, b) ++ Mid(s, b, c) ++ Rest(s, c)
  <1>1. s = First(s, b) ++ Mid(s, b, c) ++ Rest(s, c)
    BY Glue3
  <1>2. b <= Size(s)
    BY LineLen
  <1>3. First(s, b) = First(s, a) ++ Mid(s, a, b)
    BY <1>2, Glue3
  <1> QED
    BY <1>1, <1>3

-----------------------------------------------------------------------------
(* reverse() and the exchange of two neighbouring pieces.                   *)

Back(s) == [n \in 1..Len(s) |-> s[Len(s) + 1 - n]]
Reverse(s, a, b) == reverse(s, a + 1, b + 1)

\* A piece from back to front.
LEMMA BackIs ==
    ASSUME NEW B \in Lines
    PROVE  /\ Back(B) \in Lines /\ Size(Back(B)) = Size(B)
           /\ \A i \in 1..Size(B) : At(Back(B), i) = At(B, Size(B) + 1 - i)
  <1>1. Len(B) \in Nat /\ \A i \in 1..Len(B) : B[i] \in Line
    BY LenProperties DEF Lines
  <1>2. \A i \in 1..Len(B) : Len(B) + 1 - i \in 1..Len(B)
    BY <1>1
  <1>3. Back(B) \in [1..Len(B) -> Line]
    BY <1>1, <1>2 DEF Back
  <1>4. Back(B) \in Seq(Line) /\ Len(Back(B)) = Len(B)
    BY <1>1, <1>3
  <1> QED
    BY <1>1, <1>4 DEF Back, Size, At, Lines

\* Turned around twice.
LEMMA BackTwice == ASSUME NEW B \in Lines PROVE Back(Back(B)) = B
  <1>1. PICK b \in Nat, P \in Lines, Q \in Lines : b = Size(B) /\ P = Back(B) /\ Q = Back(P)
    BY LineLen, BackIs
  <1>2. Size(P) = b /\ \A i \in 1..b : At(P, i) = At(B, b + 1 - i)
    BY <1>1, BackIs
  <1>3. Size(Q) = b /\ \A i \in 1..b : At(Q, i) = At(P, b + 1 - i)
    BY <1>1, <1>2, BackIs
  <1>4. \A i \in 1..b : b + 1 - i \in 1..b /\ b + 1 - (b + 1 - i) = i
    OBVIOUS
  <1>5. \A i \in 1..b : At(Q, i) = At(B, i)
    BY <1>2, <1>3, <1>4
  <1> QED
    BY <1>1, <1>3, <1>5, Same

\* Two pieces turned around as one.
LEMMA BackOfTwo == ASSUME NEW B \in Lines, NEW C \in Lines PROVE Back(B ++ C) = Back(C) ++ Back(B)
  <1>1. PICK b \in Nat, c \in Nat : b = Size(B) /\ c = Size(C)
    BY LineLen
  <1>2. PICK P \in Lines, Q \in Lines : P = Back(B) /\ Q = Back(C)
    BY BackIs
  <1>3. PICK x \in Lines, y \in Lines : x = B ++ C /\ y = Q ++ P
    BY Joined
  <1>4. PICK z \in Lines : z = Back(x)
    BY BackIs
  <1>5. /\ Size(P) = b /\ \A i \in 1..b : At(P, i) = At(B, b + 1 - i)
        /\ Size(Q) = c /\ \A i \in 1..c : At(Q, i) = At(C, c + 1 - i)
    BY <1>1, <1>2, BackIs
  <1>6. /\ Size(x) = b + c
        /\ \A i \in 1..b : At(x, i) = At(B, i)
        /\ \A i \in 1..c : At(x, b + i) = At(C, i)
    BY <1>1, <1>3, Joined, JoinedAt
  <1>7. /\ Size(y) = c + b
        /\ \A i \in 1..c : At(y, i) = At(Q, i)
        /\ \A i \in 1..b : At(y, c + i) = At(P, i)
    BY <1>3, <1>5, Joined, JoinedAt
  <1>8. Size(z) = b + c /\ \A i \in 1..b + c : At(z, i) = At(x, b + c + 1 - i)
    BY <1>4, <1>6, BackIs
  <1>9. ASSUME NEW i \in 1..b + c PROVE At(z, i) = At(y, i)
    <2>1. CASE i \in 1..c
      <3>1. PICK k \in 1..c : k = c + 1 - i /\ b + c + 1 - i = b + k
        BY <2>1
      <3> QED
        BY <1>5, <1>6, <1>7, <1>8, <2>1, <3>1
    <2>2. CASE i \in c + 1..b + c
      <3>1. PICK k \in 1..b : i = c + k
        BY <2>2
      <3>2. PICK j \in 1..b : j = b + 1 - k /\ b + c + 1 - i = j
        BY <3>1
      <3>3. At(z, i) = At(B, j)
        BY <1>6, <1>8, <3>2
      <3>4. At(y, i) = At(B, j)
        BY <1>5, <1>7, <3>1, <3>2
      <3> QED
        BY <3>3, <3>4
    <2> QED
      BY <2>1, <2>2
  <1> QED
    BY <1>2, <1>3, <1>4, <1>7, <1>8, <1>9, Same

\* What reverse() makes of the array, line by line.
LEMMA ReverseIs ==
    ASSUME NEW s \in Lines, NEW a \in Nat, NEW b \in Nat, a <= b, b <= Size(s)
    PROVE  /\ Reverse(s, a, b) \in Lines /\ Size(Reverse(s, a, b)) = Size(s)
           /\ \A n \in 1..Size(s) :
                At(Reverse(s, a, b), n) = IF n \in a + 1..b THEN At(s, a + b + 1 - n) ELSE At(s, n)
  <1>1. PICK r : r = Reverse(s, a, b)
    OBVIOUS
  <1>2. Len(s) \in Nat /\ DOMAIN s = 1..Len(s) /\ \A i \in 1..Len(s) : s[i] \in Line
    BY LenProperties DEF Lines
  <1>3. r = [n \in 1..Len(s) |-> IF n \in a + 1..b + 1 - 1 THEN s[a + 1 + (b + 1) - 1 - n] ELSE s[n]]
    BY <1>1, <1>2 DEF Reverse, reverse
  <1>4. \A n \in 1..Len(s) : /\ b + 1 - 1 = b /\ a + 1 + (b + 1) - 1 - n = a + b + 1 - n
                             /\ n \in a + 1..b => a + b + 1 - n \in 1..Len(s)
    BY <1>2 DEF Size
  <1>5. r = [n \in 1..Len(s) |-> IF n \in a + 1..b THEN s[a + b + 1 - n] ELSE s[n]]
    BY <1>3, <1>4
  <1>6. r \in [1..Len(s) -> Line]
    BY <1>2, <1>4, <1>5
  <1>7. r \in Seq(Line) /\ Len(r) = Len(s)
    BY <1>2, <1>6
  <1> QED
    BY <1>1, <1>5, <1>7 DEF Lines, Size, At

\* reverse() turns the middle piece around.
LEMMA ReversePiece ==
    ASSUME NEW A \in Lines, NEW B \in Lines, NEW C \in Lines
    PROVE  Reverse(A ++ B ++ C, Size(A), Size(A) + Size(B)) = A ++ Back(B) ++ C
  <1>1. PICK a \in Nat, b \in Nat, c \in Nat : a = Size(A) /\ b = Size(B) /\ c = Size(C)
    BY LineLen
  <1>2. PICK Q \in Lines : Q = Back(B)
    BY BackIs
  <1>3. PICK x \in Lines, y \in Lines : x = A ++ B /\ y = A ++ Q
    BY Joined
  <1>4. PICK s \in Lines, t \in Lines : s = x ++ C /\ t = y ++ C
    BY Joined
  <1>5. Size(Q) = b /\ \A i \in 1..b : At(Q, i) = At(B, b + 1 - i)
    BY <1>1, <1>2, BackIs
  <1>6. /\ Size(x) = a + b /\ \A i \in 1..a : At(x, i) = At(A, i)
        /\ \A i \in 1..b : At(x, a + i) = At(B, i)
    BY <1>1, <1>3, Joined, JoinedAt
  <1>7. /\ Size(y) = a + b /\ \A i \in 1..a : At(y, i) = At(A, i)
        /\ \A i \in 1..b : At(y, a + i) = At(Q, i)
    BY <1>1, <1>3, <1>5, Joined, JoinedAt
  <1>8. /\ Size(s) = a + b + c /\ \A i \in 1..a + b : At(s, i) = At(x, i)
        /\ \A i \in 1..c : At(s, a + b + i) = At(C, i)
    BY <1>1, <1>4, <1>6, Joined, JoinedAt
  <1>9. /\ Size(t) = a + b + c /\ \A i \in 1..a + b : At(t, i) = At(y, i)
        /\ \A i \in 1..c : At(t, a + b + i) = At(C, i)
    BY <1>1, <1>4, <1>7, Joined, JoinedAt
  <1>10. PICK m \in Nat : m = a + b
    OBVIOUS
  <1>11. a <= m /\ m <= Size(s)
    BY <1>8, <1>10
  <1>12. PICK r \in Lines : r = Reverse(s, a, m)
    BY <1>11, ReverseIs
  <1>13. /\ Size(r) = a + b + c
         /\ \A n \in 1..a + b + c : At(r, n) = IF n \in a + 1..m THEN At(s, a + m + 1 - n) ELSE At(s, n)
    <2>1. /\ Size(Reverse(s, a, m)) = Size(s)
          /\ \A n \in 1..Size(s) :
               At(Reverse(s, a, m), n) = IF n \in a + 1..m THEN At(s, a + m + 1 - n) ELSE At(s, n)
      BY <1>11, ReverseIs
    <2> QED
      BY <1>8, <1>12, <2>1
  <1>14. ASSUME NEW n \in 1..a + b + c PROVE At(r, n) = At(t, n)
    <2>1. CASE n \in 1..a
      <3>1. n \notin a + 1..m /\ n \in 1..a + b
        BY <2>1
      <3> QED
        BY <1>6, <1>7, <1>8, <1>9, <1>13, <2>1, <3>1
    <2>2. CASE n \in a + 1..m
      <3>1. PICK k \in 1..b : n = a + k
        BY <1>10, <2>2
      <3>2. PICK j \in 1..b : j = b + 1 - k /\ a + m + 1 - n = a + j
        BY <1>10, <3>1
      <3>3. a + j \in 1..a + b /\ a + k \in 1..a + b
        OBVIOUS
      <3>4. At(r, n) = At(B, j)
        BY <1>6, <1>8, <1>13, <2>2, <3>2, <3>3
      <3>5. At(t, n) = At(B, j)
        BY <1>5, <1>7, <1>9, <3>1, <3>2, <3>3
      <3> QED
        BY <3>4, <3>5
    <2>3. CASE n \in m + 1..a + b + c
      <3>1. PICK k \in 1..c : n = a + b + k
        BY <1>10, <2>3
      <3>2. n \notin a + 1..m
        BY <1>10, <2>3
      <3>3. At(r, n) = At(s, n)
        BY <1>13, <3>2
      <3> QED
        BY <1>8, <1>9, <3>1, <3>3
    <2> QED
      BY <1>10, <2>1, <2>2, <2>3
  <1>15. r = t
    BY <1>9, <1>13, <1>14, Same
  <1> QED
    BY <1>1, <1>2, <1>3, <1>4, <1>10, <1>12, <1>15

\* Four pieces, however they are joined.
LEMMA Assoc4 ==
    ASSUME NEW A \in Lines, NEW B \in Lines, NEW C \in Lines, NEW D \in Lines
    PROVE  /\ A ++ B ++ C ++ D = A ++ (B ++ C ++ D)
           /\ A ++ B ++ C ++ D = A ++ B ++ (C ++ D)
           /\ A ++ B ++ C ++ D = A ++ (B ++ C) ++ D
           /\ A ++ B ++ C ++ D = A ++ (B ++ (C ++ D))
  <1>1. /\ A ++ B \in Lines /\ B ++ C \in Lines /\ C ++ D \in Lines
        /\ A ++ B ++ C = A ++ (B ++ C) /\ B ++ C ++ D = B ++ (C ++ D)
    BY Joined, Assoc
  <1>2. A ++ B ++ C ++ D = A ++ B ++ (C ++ D)
    BY <1>1, Assoc
  <1>3. A ++ B ++ (C ++ D) = A ++ (B ++ (C ++ D))
    BY <1>1, Assoc
  <1> QED
    BY <1>1, <1>2, <1>3

\* Exchange() exchanges two neighbouring pieces.
LEMMA ExchangePieces ==
    ASSUME NEW A \in Lines, NEW B \in Lines, NEW C \in Lines, NEW D \in Lines
    PROVE  Exchange(A ++ B ++ C ++ D, Size(A) + 1, Size(A) + Size(B) + 1,
                    Size(A) + Size(B) + Size(C) + 1) = A ++ C ++ B ++ D
  <1>1. PICK a \in Nat, b \in Nat, c \in Nat : a = Size(A) /\ b = Size(B) /\ c = Size(C)
    BY LineLen
  <1>2. PICK P \in Lines, Q \in Lines : /\ P = Back(B) /\ Q = Back(C)
                                      /\ Size(P) = b /\ Size(Q) = c
    BY <1>1, BackIs
  <1>3. Reverse(A ++ B ++ C ++ D, a, a + b) = A ++ P ++ C ++ D
    <2>1. PICK x \in Lines : x = C ++ D
      BY Joined
    <2>2. Reverse(A ++ B ++ x, Size(A), Size(A) + Size(B)) = A ++ Back(B) ++ x
      BY ReversePiece
    <2> QED
      BY <1>1, <1>2, <2>1, <2>2, Assoc4
  <1>4. Reverse(A ++ P ++ C ++ D, a + b, a + b + c) = A ++ P ++ Q ++ D
    <2>1. PICK x \in Lines : x = A ++ P /\ Size(x) = a + b
      BY <1>1, <1>2, Joined
    <2>2. Reverse(x ++ C ++ D, Size(x), Size(x) + Size(C)) = x ++ Back(C) ++ D
      BY ReversePiece
    <2> QED
      BY <1>1, <1>2, <2>1, <2>2
  <1>5. Reverse(A ++ P ++ Q ++ D, a, a + b + c) = A ++ C ++ B ++ D
    <2>1. PICK x \in Lines : x = P ++ Q /\ Size(x) = b + c
      BY <1>2, Joined
    <2>2. Reverse(A ++ x ++ D, Size(A), Size(A) + Size(x)) = A ++ Back(x) ++ D
      BY ReversePiece
    <2>3. Back(x) = C ++ B
      BY <1>2, <2>1, BackOfTwo, BackTwice
    <2>4. A ++ P ++ Q ++ D = A ++ x ++ D /\ A ++ C ++ B ++ D = A ++ (C ++ B) ++ D
      BY <2>1, Assoc4
    <2>5. a + (b + c) = a + b + c
      OBVIOUS
    <2> QED
      BY <1>1, <2>1, <2>2, <2>3, <2>4, <2>5
  <1> QED
    BY <1>1, <1>3, <1>4, <1>5 DEF Exchange, Reverse

-----------------------------------------------------------------------------
(* The array, as text and saved lines, and what each routine makes of it.   *)

Kinds == {"none", "move", "change", "put", "all"}
\* The array and the fields for undo.
Buf == [core : Lines, dol : Nat, undkind : Kinds, unddel : Int, undap1 : Int, undap2 : Int]

\* The array b holds text T and saved lines R; its fields for undo.
Is(b, T, R, k, u, p, q) ==
    /\ b \in Buf /\ T \in Lines /\ R \in Lines
    /\ b.core = T ++ R /\ b.dol = Size(T)
    /\ b.undkind = k /\ b.unddel = u /\ b.undap1 = p /\ b.undap2 = q

None == "none"
Moved == "move"
Changed == "change"
PutBack == "put"
All == "all"

\* The values of undkind.
LEMMA KindsDiffer ==
    /\ None \in Kinds /\ Moved \in Kinds /\ Changed \in Kinds /\ PutBack \in Kinds /\ All \in Kinds
    /\ None # Moved /\ None # Changed /\ None # PutBack /\ None # All
    /\ Moved # Changed /\ Moved # PutBack /\ Moved # All
    /\ Changed # PutBack /\ Changed # All /\ PutBack # All
  BY DEF None, Moved, Changed, PutBack, All, Kinds

\* The types of what Is names.
LEMMA IsTyped ==
    ASSUME NEW b, NEW T, NEW R, NEW k, NEW u, NEW p, NEW q, Is(b, T, R, k, u, p, q)
    PROVE  T \in Lines /\ R \in Lines /\ k \in Kinds /\ u \in Int /\ p \in Int /\ q \in Int
  BY DEF Is, Buf

\* squish(): nothing is saved.
LEMMA SquishIs ==
    ASSUME NEW b, NEW T, NEW R, NEW k, NEW u, NEW p, NEW q, Is(b, T, R, k, u, p, q)
    PROVE  Is(squish(b), T, <<>>, k, u, p, q)
  <1>1. b \in Buf /\ T \in Lines /\ <<>> \in Lines
    BY NoLines DEF Is
  <1>2. SubSeq(b.core, 1, b.dol) = T
    <2>1. First(T ++ R, Size(T)) = T
      BY Cut2 DEF Is
    <2> QED
      BY <2>1 DEF Is, First
  <1>3. squish(b) = [b EXCEPT !.core = T]
    BY <1>2 DEF squish
  <1>4. [b EXCEPT !.core = T] \in Buf
    BY <1>1 DEF Buf
  <1>5. /\ [b EXCEPT !.core = T].core = T /\ [b EXCEPT !.core = T].dol = b.dol
        /\ [b EXCEPT !.core = T].undkind = b.undkind /\ [b EXCEPT !.core = T].unddel = b.unddel
        /\ [b EXCEPT !.core = T].undap1 = b.undap1 /\ [b EXCEPT !.core = T].undap2 = b.undap2
    BY <1>1 DEF Buf
  <1>6. T = T ++ <<>>
    BY <1>1, NoLines
  <1> QED
    BY <1>1, <1>3, <1>4, <1>5, <1>6 DEF Is

\* The loop of append().
LEMMA GrowIs ==
    ASSUME NEW b, NEW A \in Lines, NEW B \in Lines, NEW R, NEW k, NEW u, NEW p, NEW q,
           NEW L \in Lines, Is(b, A ++ B, R, k, u, p, q)
    PROVE  Is(Grow(b, Size(A), L), A ++ L ++ B, R, k, u, p, q + Size(L))
  <1>1. /\ A ++ B ++ R = A ++ (B ++ R) /\ B ++ R \in Lines /\ A ++ L ++ B \in Lines
        /\ A ++ L ++ B ++ R = A ++ L ++ (B ++ R) /\ A ++ L ++ B ++ R \in Lines
        /\ R \in Lines
    <2>1. R \in Lines
      BY DEF Is
    <2>2. A ++ B \in Lines /\ B ++ R \in Lines /\ A ++ L \in Lines
      BY <2>1, Joined
    <2>3. A ++ L ++ B \in Lines /\ A ++ L ++ B ++ R = A ++ L ++ (B ++ R)
      BY <2>1, <2>2, Joined, Assoc
    <2>4. A ++ L ++ B ++ R \in Lines
      BY <2>1, <2>3, Joined
    <2> QED
      BY <2>1, <2>2, <2>3, <2>4, Assoc
  <1>2. First(A ++ B ++ R, Size(A)) = A /\ Rest(A ++ B ++ R, Size(A)) = B ++ R
    BY <1>1, Cut2
  <1>3. First(A ++ B ++ R, Size(A)) ++ L ++ Rest(A ++ B ++ R, Size(A)) = A ++ L ++ B ++ R
    BY <1>1, <1>2
  <1>4. Size(A ++ B) + Size(L) = Size(A ++ L ++ B) /\ Size(L) \in Nat
    BY <1>1, Joined, LineLen
  <1>5. b.core = A ++ B ++ R /\ b \in Buf /\ b.dol = Size(A ++ B)
    BY DEF Is
  <1> DEFINE c == First(b.core, Size(A)) ++ L ++ Rest(b.core, Size(A))
             d == b.dol + Size(L)
             e == b.undap2 + Size(L)
  <1>6. c \in Lines /\ d \in Nat /\ e \in Int
    BY <1>1, <1>3, <1>4, <1>5 DEF Buf
  <1>7. Grow(b, Size(A), L) = [b EXCEPT !.core = c, !.dol = d, !.undap2 = e]
    BY DEF Grow, First, Rest, ++, Size
  <1>8. c = A ++ L ++ B ++ R /\ d = Size(A ++ L ++ B) /\ e = q + Size(L)
    BY <1>3, <1>4, <1>5 DEF Is
  <1> HIDE DEF c, d, e
  <1>9. [b EXCEPT !.core = c, !.dol = d, !.undap2 = e] \in Buf
    BY <1>5, <1>6 DEF Buf
  <1>10. LET x == [b EXCEPT !.core = c, !.dol = d, !.undap2 = e]
         IN  /\ x.core = c /\ x.dol = d /\ x.undap2 = e
             /\ x.undkind = b.undkind /\ x.unddel = b.unddel /\ x.undap1 = b.undap1
    BY <1>5, <1>6 DEF Buf
  <1> QED
    BY <1>1, <1>7, <1>8, <1>9, <1>10 DEF Is

\* What only changes the fields for undo.
LEMMA SetKind ==
    ASSUME NEW b, NEW T, NEW R, NEW k, NEW u, NEW p, NEW q, Is(b, T, R, k, u, p, q),
           NEW k2 \in Kinds
    PROVE  Is([b EXCEPT !.undkind = k2], T, R, k2, u, p, q)
  <1>1. [b EXCEPT !.undkind = k2] \in Buf
    BY DEF Is, Buf
  <1> QED
    BY <1>1 DEF Is, Buf

\* undkind and unddel.
LEMMA SetKindDel ==
    ASSUME NEW b, NEW T, NEW R, NEW k, NEW u, NEW p, NEW q, Is(b, T, R, k, u, p, q),
           NEW k2 \in Kinds, NEW u2 \in Int
    PROVE  Is([b EXCEPT !.undkind = k2, !.unddel = u2], T, R, k2, u2, p, q)
  <1>1. [b EXCEPT !.undkind = k2, !.unddel = u2] \in Buf
    BY DEF Is, Buf
  <1> QED
    BY <1>1 DEF Is, Buf

\* undkind, undap1 and undap2.
LEMMA SetKindAps ==
    ASSUME NEW b, NEW T, NEW R, NEW k, NEW u, NEW p, NEW q, Is(b, T, R, k, u, p, q),
           NEW k2 \in Kinds, NEW p2 \in Int, NEW q2 \in Int
    PROVE  Is([b EXCEPT !.undkind = k2, !.undap1 = p2, !.undap2 = q2], T, R, k2, u, p2, q2)
  <1>1. [b EXCEPT !.undkind = k2, !.undap1 = p2, !.undap2 = q2] \in Buf
    BY DEF Is, Buf
  <1> QED
    BY <1>1 DEF Is, Buf

\* undap1 and undap2.
LEMMA SetAps ==
    ASSUME NEW b, NEW T, NEW R, NEW k, NEW u, NEW p, NEW q, Is(b, T, R, k, u, p, q),
           NEW p2 \in Int, NEW q2 \in Int
    PROVE  Is([b EXCEPT !.undap1 = p2, !.undap2 = q2], T, R, k, u, p2, q2)
  <1>1. [b EXCEPT !.undap1 = p2, !.undap2 = q2] \in Buf
    BY DEF Is, Buf
  <1> QED
    BY <1>1 DEF Is, Buf

\* All four.
LEMMA SetKindApsDel ==
    ASSUME NEW b, NEW T, NEW R, NEW k, NEW u, NEW p, NEW q, Is(b, T, R, k, u, p, q),
           NEW k2 \in Kinds, NEW u2 \in Int, NEW p2 \in Int, NEW q2 \in Int
    PROVE  Is([b EXCEPT !.undkind = k2, !.undap1 = p2, !.undap2 = q2, !.unddel = u2], T, R, k2, u2, p2, q2)
  <1>1. [b EXCEPT !.undkind = k2, !.undap1 = p2, !.undap2 = q2, !.unddel = u2] \in Buf
    BY DEF Is, Buf
  <1> QED
    BY <1>1 DEF Is, Buf

\* unddel.
LEMMA SetDel ==
    ASSUME NEW b, NEW T, NEW R, NEW k, NEW u, NEW p, NEW q, Is(b, T, R, k, u, p, q),
           NEW u2 \in Int
    PROVE  Is([b EXCEPT !.unddel = u2], T, R, k, u2, p, q)
  <1>1. [b EXCEPT !.unddel = u2] \in Buf
    BY DEF Is, Buf
  <1> QED
    BY <1>1 DEF Is, Buf

\* append(), by itself and in a global command.
LEMMA AppendIs ==
    ASSUME NEW b, NEW A \in Lines, NEW B \in Lines, NEW R, NEW k, NEW u, NEW p, NEW q,
           NEW L \in Lines, Is(b, A ++ B, R, k, u, p, q)
    PROVE  /\ FIXUNDO => Is(append(b, Size(A), L), A ++ L ++ B, R, Changed, u,
                            Size(A) + 1, Size(A) + 1 + Size(L))
           /\ ~FIXUNDO => Is(append(b, Size(A), L), A ++ L ++ B, R, k, u, p, q + Size(L))
  <1>1. CASE FIXUNDO
    <2>1. PICK n : n \in Int /\ n = Size(A) + 1
      BY LineLen
    <2>2. Is([b EXCEPT !.undkind = Changed, !.undap1 = n, !.undap2 = n], A ++ B, R, Changed, u, n, n)
      BY <2>1, KindsDiffer, SetKindAps
    <2>3. Is(Grow([b EXCEPT !.undkind = Changed, !.undap1 = n, !.undap2 = n], Size(A), L),
             A ++ L ++ B, R, Changed, u, n, n + Size(L))
      BY <2>2, GrowIs
    <2> QED
      BY <1>1, <2>1, <2>3 DEF append, Changed
  <1>2. CASE ~FIXUNDO
    BY <1>2, GrowIs DEF append
  <1> QED
    BY <1>1, <1>2

\* deletenone().
LEMMA DeleteNoneIs ==
    ASSUME NEW b, NEW T, NEW R, NEW k, NEW u, NEW p, NEW q, Is(b, T, R, k, u, p, q), NEW a1 \in Int
    PROVE  /\ FIXUNDO => Is(deletenone(b, a1), T, <<>>, Changed, a1, p, q)
           /\ ~FIXUNDO => deletenone(b, a1) = b
  <1>1. Is([squish(b) EXCEPT !.undkind = Changed, !.unddel = a1], T, <<>>, Changed, a1, p, q)
    <2>1. PICK x : x = squish(b)
      OBVIOUS
    <2>2. Is(x, T, <<>>, k, u, p, q)
      BY <2>1, SquishIs
    <2>3. Is([x EXCEPT !.undkind = Changed, !.unddel = a1], T, <<>>, Changed, a1, p, q)
      BY <2>2, KindsDiffer, SetKindDel
    <2> QED
      BY <2>1, <2>3
  <1> QED
    BY <1>1 DEF deletenone, Changed

\* appendnone().
LEMMA AppendNoneIs ==
    ASSUME NEW b, NEW T, NEW R, NEW k, NEW u, NEW p, NEW q, Is(b, T, R, k, u, p, q), NEW a1 \in Int
    PROVE  /\ FIXUNDO => Is(appendnone(b, a1), T, R, Changed, u, a1, a1)
           /\ ~FIXUNDO => appendnone(b, a1) = b
  <1>1. Is([b EXCEPT !.undkind = Changed, !.undap1 = a1, !.undap2 = a1], T, R, Changed, u, a1, a1)
    BY KindsDiffer, SetKindAps
  <1> QED
    BY <1>1 DEF appendnone, Changed

\* One range, named by its first line or by the one before it.
LEMMA PartIsMid == ASSUME NEW s, NEW a, NEW b PROVE Part(s, a + 1, b) = Mid(s, a, b)
  BY DEF Part, Mid

\* save(): a copy of the lines is saved, and the text stays.
LEMMA SaveIs ==
    ASSUME NEW b, NEW A \in Lines, NEW B \in Lines, NEW C \in Lines, NEW R,
           NEW k, NEW u, NEW p, NEW q, Is(b, A ++ B ++ C, R, k, u, p, q)
    PROVE  Is(save(b, Size(A) + 1, Size(A) + Size(B)), A ++ B ++ C, B, All,
              Size(A), Size(A) + 1, Size(A) + Size(B) + 1)
  <1>1. PICK T \in Lines : T = A ++ B ++ C
    BY Joined
  <1>2. b \in Buf /\ R \in Lines /\ b.core = T ++ R /\ b.dol = Size(T)
    BY <1>1 DEF Is
  <1>3. First(T ++ R, Size(T)) = T
    BY <1>2, Cut2
  <1>4. Mid(T ++ R, Size(A), Size(A) + Size(B)) = B
    <2>1. C ++ R \in Lines /\ T ++ R = A ++ B ++ (C ++ R)
      BY <1>1, <1>2, Assoc4, Joined
    <2> QED
      BY <2>1, Cut3
  <1>5. PICK p2, q2 : /\ p2 \in Int /\ q2 \in Int /\ p2 = Size(A) + 1 /\ q2 = Size(A) + Size(B)
                      /\ p2 - 1 = Size(A) /\ p2 - 1 \in Int /\ q2 + 1 \in Int
    BY LineLen
  <1>6. Part(T ++ R, p2, q2) = B
    BY <1>4, <1>5, PartIsMid
  <1> DEFINE c == First(b.core, b.dol) ++ Part(b.core, p2, q2)
             x == [b EXCEPT !.core = c, !.undkind = All, !.unddel = p2 - 1, !.undap1 = p2,
                            !.undap2 = q2 + 1]
  <1>7. c = T ++ B /\ c \in Lines
    BY <1>2, <1>3, <1>6, Joined
  <1>8. save(b, p2, q2) = x
    BY DEF save, First, Part, ++, All
  <1> HIDE DEF c
  <1>9. x \in Buf
    BY <1>2, <1>5, <1>7, KindsDiffer DEF Buf
  <1>10. /\ x.core = c /\ x.dol = b.dol /\ x.undkind = All
         /\ x.unddel = p2 - 1 /\ x.undap1 = p2 /\ x.undap2 = q2 + 1
    BY <1>2 DEF Buf
  <1> HIDE DEF x
  <1>11. Is(x, A ++ B ++ C, B, All, p2 - 1, p2, q2 + 1)
    BY <1>1, <1>2, <1>7, <1>9, <1>10 DEF Is
  <1> QED
    BY <1>5, <1>8, <1>11

\* ExchangePieces for a given array and given line numbers.
LEMMA ExchangeAt ==
    ASSUME NEW s, NEW A \in Lines, NEW B \in Lines, NEW C \in Lines, NEW D \in Lines,
           s = A ++ B ++ C ++ D, NEW a, NEW b, NEW c,
           a = Size(A) + 1, b = Size(A) + Size(B) + 1, c = Size(A) + Size(B) + Size(C) + 1
    PROVE  Exchange(s, a, b, c) = A ++ C ++ B ++ D
  BY ExchangePieces

\* ex_delete(): in a command by itself the lines go behind the text.
LEMMA DeleteIs ==
    ASSUME NEW b, NEW A \in Lines, NEW B \in Lines, NEW C \in Lines, NEW R,
           NEW k, NEW u, NEW p, NEW q, Is(b, A ++ B ++ C, R, k, u, p, q), FIXUNDO,
           NEW a1, NEW a2, a1 = Size(A) + 1, a2 = Size(A) + Size(B)
    PROVE  Is(ex_delete(b, a1, a2), A ++ C, B, Changed, Size(A), p, q)
  <1>1. PICK s : s = squish(b)
    OBVIOUS
  <1>2. Is(s, A ++ B ++ C, <<>>, k, u, p, q)
    BY <1>1, SquishIs
  <1>3. /\ Size(A) \in Nat /\ Size(B) \in Nat /\ Size(C) \in Nat
        /\ Size(A ++ B ++ C) = Size(A) + Size(B) + Size(C)
        /\ Size(A ++ C) = Size(A) + Size(C) /\ A ++ C \in Lines
        /\ A ++ B ++ C \in Lines /\ A ++ C ++ B \in Lines
    <2>1. A ++ B \in Lines /\ A ++ C \in Lines
      BY Joined
    <2> QED
      BY <2>1, Joined, LineLen
  <1>4. s \in Buf /\ s.core = A ++ B ++ C /\ s.dol = Size(A) + Size(B) + Size(C)
    BY <1>2, <1>3, NoLines DEF Is
  <1> DEFINE c == IF a2 = s.dol THEN s.core ELSE Exchange(s.core, a1, a2 + 1, s.dol + 1)
             d == s.dol - (a2 + 1 - a1)
             x == [s EXCEPT !.core = c, !.dol = d, !.undkind = Changed, !.unddel = a1 - 1]
  <1>5. c = A ++ C ++ B
    <2>1. CASE a2 = s.dol
      <3>1. Size(C) = 0
        BY <1>3, <1>4, <2>1
      <3>2. C = <<>>
        BY <3>1, NoLines
      <3>3. A ++ B ++ C = A ++ C ++ B
        BY <1>3, <3>2, NoLines, Joined
      <3> QED
        BY <1>4, <2>1, <3>3
    <2>2. CASE a2 # s.dol
      <3>1. /\ a2 + 1 = Size(A) + Size(B) + 1 /\ s.dol + 1 = Size(A) + Size(B) + Size(C) + 1
        BY <1>3, <1>4
      <3>2. s.core = A ++ B ++ C ++ <<>> /\ <<>> \in Lines /\ A ++ C ++ B = A ++ C ++ B ++ <<>>
        BY <1>3, <1>4, NoLines
      <3>3. Exchange(s.core, a1, a2 + 1, s.dol + 1) = A ++ C ++ B ++ <<>>
        BY <3>1, <3>2, ExchangeAt
      <3> QED
        BY <2>2, <3>2, <3>3
    <2> QED
      BY <2>1, <2>2
  <1>6. d = Size(A ++ C) /\ d \in Nat /\ a1 - 1 = Size(A) /\ a1 - 1 \in Int
    BY <1>3, <1>4
  <1>7. ex_delete(b, a1, a2) = x
    BY <1>1 DEF ex_delete, Changed
  <1> HIDE DEF c, d
  <1>8. x \in Buf
    BY <1>3, <1>4, <1>5, <1>6, KindsDiffer DEF Buf
  <1>9. /\ x.core = c /\ x.dol = d /\ x.undkind = Changed /\ x.unddel = a1 - 1
        /\ x.undap1 = s.undap1 /\ x.undap2 = s.undap2
    BY <1>4 DEF Buf
  <1> HIDE DEF x
  <1>10. s.undap1 = p /\ s.undap2 = q
    BY <1>2 DEF Is
  <1>11. Is(x, A ++ C, B, Changed, a1 - 1, p, q)
    BY <1>3, <1>5, <1>6, <1>8, <1>9, <1>10 DEF Is
  <1> QED
    BY <1>6, <1>7, <1>11

\* In a global command they go away.
LEMMA DeleteInGlobal ==
    ASSUME NEW b, NEW A \in Lines, NEW B \in Lines, NEW C \in Lines, NEW R,
           NEW k, NEW u, NEW p, NEW q, Is(b, A ++ B ++ C, R, k, u, p, q), ~FIXUNDO,
           NEW a1, NEW a2, a1 = Size(A) + 1, a2 = Size(A) + Size(B)
    PROVE  Is(ex_delete(b, a1, a2), A ++ C, R, k, u, p, q - Size(B))
  <1>1. /\ Size(A) \in Nat /\ Size(B) \in Nat /\ Size(C) \in Nat /\ R \in Lines
        /\ Size(A ++ B ++ C) = Size(A) + Size(B) + Size(C)
        /\ Size(A ++ C) = Size(A) + Size(C) /\ A ++ C \in Lines
        /\ A ++ B ++ C \in Lines /\ C ++ R \in Lines /\ A ++ C ++ R \in Lines
    <2>1. A ++ B \in Lines /\ A ++ C \in Lines /\ R \in Lines
      BY Joined, IsTyped
    <2> QED
      BY <2>1, Joined, LineLen
  <1>2. /\ b \in Buf /\ b.core = A ++ B ++ C ++ R /\ b.dol = Size(A) + Size(B) + Size(C)
        /\ b.undap2 = q /\ q \in Int
    BY <1>1, IsTyped DEF Is
  <1> DEFINE c == Part(b.core, 1, a1 - 1) ++ Part(b.core, a2 + 1, Len(b.core))
             d == b.dol - (a2 + 1 - a1)
             e == b.undap2 - (a2 + 1 - a1)
             x == [b EXCEPT !.core = c, !.dol = d, !.undap2 = e]
  <1>3. c = A ++ C ++ R
    <2>1. a1 - 1 = Size(A)
      BY <1>1
    <2>2. b.core = A ++ B ++ (C ++ R)
      BY <1>1, <1>2, Assoc4
    <2>3. First(b.core, Size(A)) = A /\ Rest(b.core, Size(A) + Size(B)) = C ++ R
      BY <1>1, <2>2, Cut3
    <2>4. Part(b.core, 1, Size(A)) = First(b.core, Size(A)) /\ Part(b.core, a2 + 1, Len(b.core)) = Rest(b.core, a2)
      BY DEF Part, First, Rest
    <2>5. A ++ (C ++ R) = A ++ C ++ R
      BY <1>1, Assoc
    <2> QED
      BY <2>1, <2>3, <2>4, <2>5
  <1>4. d = Size(A ++ C) /\ d \in Nat /\ e = q - Size(B) /\ e \in Int
    BY <1>1, <1>2
  <1>5. ex_delete(b, a1, a2) = x
    BY DEF ex_delete, Part, ++
  <1> HIDE DEF c, d, e
  <1>6. x \in Buf
    BY <1>1, <1>2, <1>3, <1>4 DEF Buf
  <1>7. /\ x.core = c /\ x.dol = d /\ x.undap2 = e
        /\ x.undkind = b.undkind /\ x.unddel = b.unddel /\ x.undap1 = b.undap1
    BY <1>2 DEF Buf
  <1> HIDE DEF x
  <1>8. b.undkind = k /\ b.unddel = u /\ b.undap1 = p
    BY DEF Is
  <1> QED
    BY <1>1, <1>3, <1>4, <1>5, <1>6, <1>7, <1>8 DEF Is

\* Lines from outside are lines.
LEMMA InputIs == ASSUME NEW L \in Input PROVE L \in Lines
  <1>1. PICK n \in 0..MaxNew : L \in [1..n -> Line]
    BY DEF Input
  <1>2. n \in Nat
    BY <1>1, UndoAssumption
  <1> QED
    BY <1>1, <1>2, SeqDef DEF Lines

\* What only changes the array.
LEMMA SetCore ==
    ASSUME NEW b, NEW T, NEW R, NEW k, NEW u, NEW p, NEW q, Is(b, T, R, k, u, p, q),
           NEW T2 \in Lines, NEW R2 \in Lines, Size(T2) = Size(T), NEW c, c = T2 ++ R2
    PROVE  Is([b EXCEPT !.core = c], T2, R2, k, u, p, q)
  <1>1. b \in Buf /\ c \in Lines
    BY Joined DEF Is
  <1>2. [b EXCEPT !.core = c] \in Buf
    BY <1>1 DEF Buf
  <1>3. /\ [b EXCEPT !.core = c].core = c /\ [b EXCEPT !.core = c].dol = b.dol
        /\ [b EXCEPT !.core = c].undkind = b.undkind /\ [b EXCEPT !.core = c].unddel = b.unddel
        /\ [b EXCEPT !.core = c].undap1 = b.undap1 /\ [b EXCEPT !.core = c].undap2 = b.undap2
    BY <1>1 DEF Buf
  <1> QED
    BY <1>1, <1>2, <1>3 DEF Is

\* Two pieces of the text, and perhaps the saved lines, change places.
LEMMA ExchangeInText ==
    ASSUME NEW b, NEW A \in Lines, NEW B \in Lines, NEW C \in Lines, NEW D \in Lines, NEW R,
           NEW k, NEW u, NEW p, NEW q, Is(b, A ++ B ++ C ++ D, R, k, u, p, q), NEW x, NEW y, NEW z,
           x = Size(A) + 1, y = Size(A) + Size(B) + 1, z = Size(A) + Size(B) + Size(C) + 1
    PROVE  Is([b EXCEPT !.core = Exchange(b.core, x, y, z)], A ++ C ++ B ++ D, R, k, u, p, q)
  <1>1. /\ R \in Lines /\ D ++ R \in Lines /\ A ++ B ++ C \in Lines /\ A ++ C ++ B \in Lines
        /\ A ++ B ++ C ++ D \in Lines /\ A ++ C ++ B ++ D \in Lines
        /\ Size(A ++ B ++ C ++ D) = Size(A) + Size(B) + Size(C) + Size(D)
        /\ Size(A ++ C ++ B ++ D) = Size(A) + Size(C) + Size(B) + Size(D)
        /\ Size(A) \in Nat /\ Size(B) \in Nat /\ Size(C) \in Nat /\ Size(D) \in Nat
    <2>1. R \in Lines /\ A ++ B \in Lines /\ A ++ C \in Lines
      BY IsTyped, Joined
    <2>2. A ++ B ++ C \in Lines /\ A ++ C ++ B \in Lines
      BY <2>1, Joined
    <2> QED
      BY <2>1, <2>2, Joined, LineLen
  <1>2. Size(A ++ C ++ B ++ D) = Size(A ++ B ++ C ++ D)
    BY <1>1
  <1>3. b.core = A ++ B ++ C ++ (D ++ R)
    <2>1. b.core = A ++ B ++ C ++ D ++ R
      BY DEF Is
    <2> QED
      BY <1>1, <2>1, Assoc
  <1>4. Exchange(b.core, x, y, z) = A ++ C ++ B ++ (D ++ R)
    BY <1>1, <1>3, ExchangeAt
  <1>5. A ++ C ++ B ++ (D ++ R) = A ++ C ++ B ++ D ++ R
    BY <1>1, Assoc
  <1> QED
    BY <1>1, <1>2, <1>4, <1>5, SetCore

\* What move1() does for a move, up and down.
LEMMA MoveUpIs ==
    ASSUME NEW b, NEW A \in Lines, NEW B \in Lines, NEW C \in Lines, NEW D \in Lines, NEW R,
           NEW k, NEW u, NEW p, NEW q, Is(b, A ++ B ++ C ++ D, R, k, u, p, q), NEW a1, NEW a2, NEW adt,
           adt = Size(A), a1 = Size(A) + Size(B) + 1, a2 = Size(A) + Size(B) + Size(C)
    PROVE  /\ FIXUNDO => Is(MoveLines(b, a1, a2, adt), A ++ C ++ B ++ D, <<>>, Moved, adt, a1, a2)
           /\ ~FIXUNDO => Is(MoveLines(b, a1, a2, adt), A ++ C ++ B ++ D, R, k, u, p, q)
  <1>1. /\ Size(A) \in Nat /\ Size(B) \in Nat /\ Size(C) \in Nat /\ adt < a1
        /\ a2 + 1 = Size(A) + Size(B) + Size(C) + 1 /\ a1 \in Int /\ a2 \in Int /\ adt \in Int
    BY LineLen
  <1>2. PICK m : m = [b EXCEPT !.core = Exchange(b.core, adt + 1, a1, a2 + 1)]
    OBVIOUS
  <1>3. Is(m, A ++ C ++ B ++ D, R, k, u, p, q)
    BY <1>1, <1>2, ExchangeInText
  <1>4. Is([m EXCEPT !.undkind = Moved, !.undap1 = a1, !.undap2 = a2, !.unddel = adt],
           A ++ C ++ B ++ D, R, Moved, adt, a1, a2)
    BY <1>1, <1>3, KindsDiffer, SetKindApsDel
  <1>5. Is(squish([m EXCEPT !.undkind = Moved, !.undap1 = a1, !.undap2 = a2, !.unddel = adt]),
           A ++ C ++ B ++ D, <<>>, Moved, adt, a1, a2)
    BY <1>4, SquishIs
  <1>6. MoveLines(b, a1, a2, adt) =
          IF FIXUNDO THEN squish([m EXCEPT !.undkind = Moved, !.undap1 = a1, !.undap2 = a2, !.unddel = adt])
          ELSE m
    BY <1>1, <1>2 DEF MoveLines, Moved
  <1> QED
    BY <1>3, <1>5, <1>6

\* Down: the lines behind the range come before it.
LEMMA MoveDownIs ==
    ASSUME NEW b, NEW A \in Lines, NEW B \in Lines, NEW C \in Lines, NEW D \in Lines, NEW R,
           NEW k, NEW u, NEW p, NEW q, Is(b, A ++ B ++ C ++ D, R, k, u, p, q), NEW a1, NEW a2, NEW adt,
           B # <<>>,
           a1 = Size(A) + 1, a2 = Size(A) + Size(B), adt = Size(A) + Size(B) + Size(C)
    PROVE  /\ FIXUNDO => Is(MoveLines(b, a1, a2, adt), A ++ C ++ B ++ D, <<>>, Moved, adt, a1, a2)
           /\ ~FIXUNDO => Is(MoveLines(b, a1, a2, adt), A ++ C ++ B ++ D, R, k, u, p, q)
  <1>1. /\ Size(A) \in Nat /\ Size(B) \in Nat /\ Size(C) \in Nat
        /\ Size(B) # 0 /\ a1 \in Int /\ a2 \in Int /\ adt \in Int
    BY LineLen, NoLines
  <1>2. /\ ~(adt < a1) /\ a2 + 1 = Size(A) + Size(B) + 1
        /\ adt + 1 = Size(A) + Size(B) + Size(C) + 1
    BY <1>1
  <1>3. PICK m : m = [b EXCEPT !.core = Exchange(b.core, a1, a2 + 1, adt + 1)]
    OBVIOUS
  <1>4. Is(m, A ++ C ++ B ++ D, R, k, u, p, q)
    BY <1>2, <1>3, ExchangeInText
  <1>5. Is([m EXCEPT !.undkind = Moved, !.undap1 = a1, !.undap2 = a2, !.unddel = adt],
           A ++ C ++ B ++ D, R, Moved, adt, a1, a2)
    BY <1>1, <1>4, KindsDiffer, SetKindApsDel
  <1>6. Is(squish([m EXCEPT !.undkind = Moved, !.undap1 = a1, !.undap2 = a2, !.unddel = adt]),
           A ++ C ++ B ++ D, <<>>, Moved, adt, a1, a2)
    BY <1>5, SquishIs
  <1>7. MoveLines(b, a1, a2, adt) =
          IF FIXUNDO THEN squish([m EXCEPT !.undkind = Moved, !.undap1 = a1, !.undap2 = a2, !.unddel = adt])
          ELSE m
    BY <1>2, <1>3 DEF MoveLines, Moved
  <1> QED
    BY <1>4, <1>6, <1>7

\* And for a copy: lines appended to the text and moved.
LEMMA CopyIs ==
    ASSUME NEW b, NEW P \in Lines, NEW Q \in Lines, NEW R, NEW B \in Lines,
           NEW k, NEW u, NEW p, NEW q, Is(b, P ++ Q, R, k, u, p, q), NEW a1 \in Int, NEW a2 \in Int, NEW adt,
           adt = Size(P), B = Part(b.core, a1, a2), a2 + 1 - a1 = Size(B)
    PROVE  /\ FIXUNDO => Is(CopyLines(b, a1, a2, adt), P ++ B ++ Q, <<>>, Changed, a1,
                            Size(P) + 1, Size(P) + 1 + Size(B))
           /\ ~FIXUNDO => Is(CopyLines(b, a1, a2, adt), P ++ B ++ Q, R, k, u, p, q + Size(B))
  <1>1. /\ Size(P) \in Nat /\ Size(B) \in Nat /\ Size(Q) \in Nat
        /\ P ++ Q \in Lines /\ Size(P ++ Q) = Size(P) + Size(Q) /\ <<>> \in Lines
        /\ P ++ Q ++ B \in Lines /\ Size(P ++ Q ++ B) = Size(P) + Size(Q) + Size(B)
    <2>1. P ++ Q \in Lines /\ Size(P ++ Q) = Size(P) + Size(Q)
      BY Joined
    <2> QED
      BY <2>1, LineLen, Joined, NoLines
  <1>2. PICK g : g = append(b, b.dol, B)
    OBVIOUS
  <1>3. b.dol = Size(P ++ Q)
    BY DEF Is
  <1>4. Is(b, P ++ Q ++ <<>>, R, k, u, p, q)
    BY <1>1, NoLines
  <1>5. P ++ Q ++ B = P ++ Q ++ B ++ <<>> /\ P ++ B ++ Q = P ++ B ++ Q ++ <<>>
    BY <1>1, NoLines, Joined
  <1>6. /\ FIXUNDO => Is(g, P ++ Q ++ B ++ <<>>, R, Changed, u, b.dol + 1, b.dol + 1 + Size(B))
        /\ ~FIXUNDO => Is(g, P ++ Q ++ B ++ <<>>, R, k, u, p, q + Size(B))
    BY <1>1, <1>2, <1>3, <1>4, AppendIs
  <1>7. g.dol = Size(P) + Size(Q) + Size(B)
    BY <1>1, <1>5, <1>6 DEF Is
  <1>8. PICK m : m = [g EXCEPT !.core = Exchange(g.core, adt + 1, b.dol + 1, g.dol + 1)]
    OBVIOUS
  <1>9. /\ adt + 1 = Size(P) + 1 /\ b.dol + 1 = Size(P) + Size(Q) + 1
        /\ g.dol + 1 = Size(P) + Size(Q) + Size(B) + 1
    BY <1>1, <1>3, <1>7
  <1>10. /\ FIXUNDO => Is(m, P ++ B ++ Q ++ <<>>, R, Changed, u, b.dol + 1, b.dol + 1 + Size(B))
         /\ ~FIXUNDO => Is(m, P ++ B ++ Q ++ <<>>, R, k, u, p, q + Size(B))
    BY <1>1, <1>6, <1>8, <1>9, ExchangeInText
  <1>11. PICK p2, q2 : p2 \in Int /\ q2 \in Int /\ p2 = adt + 1 /\ q2 = adt + 1 + Size(B)
    BY <1>1
  <1>12. FIXUNDO => Is([m EXCEPT !.undap1 = p2, !.undap2 = q2], P ++ B ++ Q, R, Changed, u, p2, q2)
    BY <1>5, <1>10, <1>11, SetAps
  <1>13. FIXUNDO => Is(deletenone([m EXCEPT !.undap1 = p2, !.undap2 = q2], a1), P ++ B ++ Q, <<>>, Changed, a1, p2, q2)
    BY <1>12, DeleteNoneIs
  <1>14. g = append(b, b.dol, SubSeq(b.core, a1, a2))
    BY <1>2 DEF Part
  <1>15. q2 = adt + 1 + (a2 + 1 - a1)
    BY <1>11
  <1>16. CopyLines(b, a1, a2, adt) =
           IF FIXUNDO THEN deletenone([m EXCEPT !.undap1 = p2, !.undap2 = q2], a1) ELSE m
    BY <1>8, <1>11, <1>14, <1>15 DEF CopyLines
  <1> QED
    BY <1>5, <1>10, <1>11, <1>13, <1>16

\* The lines of substitute() take the place of others.
Replaced(b, a1, a2, L) ==
    [b EXCEPT !.core = Part(b.core, 1, a1 - 1) ++ L ++ Part(b.core, a2 + 1, Len(b.core)),
              !.dol = b.dol + (Size(L) - (a2 + 1 - a1)),
              !.undap2 = b.undap2 + (Size(L) - (a2 + 1 - a1))]

\* What substitute() makes of the array.
LEMMA ReplacedIs ==
    ASSUME NEW b, NEW A \in Lines, NEW B \in Lines, NEW C \in Lines, NEW R, NEW L \in Lines,
           NEW k, NEW u, NEW p, NEW q, Is(b, A ++ B ++ C, R, k, u, p, q),
           NEW a1, NEW a2, a1 = Size(A) + 1, a2 = Size(A) + Size(B)
    PROVE  Is(Replaced(b, a1, a2, L), A ++ L ++ C, R, k, u, p, q + (Size(L) - Size(B)))
  <1>1. /\ Size(A) \in Nat /\ Size(B) \in Nat /\ Size(C) \in Nat /\ Size(L) \in Nat /\ R \in Lines
        /\ Size(A ++ B ++ C) = Size(A) + Size(B) + Size(C)
        /\ Size(A ++ L ++ C) = Size(A) + Size(L) + Size(C)
        /\ A ++ L \in Lines /\ A ++ L ++ C \in Lines
        /\ A ++ B ++ C \in Lines /\ C ++ R \in Lines /\ A ++ L ++ C ++ R \in Lines
    <2>1. A ++ B \in Lines /\ A ++ L \in Lines /\ R \in Lines
      BY Joined, IsTyped
    <2>2. A ++ L ++ C \in Lines
      BY <2>1, Joined
    <2> QED
      BY <2>1, <2>2, Joined, LineLen
  <1>2. /\ b \in Buf /\ b.core = A ++ B ++ C ++ R /\ b.dol = Size(A) + Size(B) + Size(C)
        /\ b.undap2 = q /\ q \in Int
    BY <1>1, IsTyped DEF Is
  <1> DEFINE c == Part(b.core, 1, a1 - 1) ++ L ++ Part(b.core, a2 + 1, Len(b.core))
             d == b.dol + (Size(L) - (a2 + 1 - a1))
             e == b.undap2 + (Size(L) - (a2 + 1 - a1))
             x == [b EXCEPT !.core = c, !.dol = d, !.undap2 = e]
  <1>3. c = A ++ L ++ C ++ R
    <2>1. a1 - 1 = Size(A)
      BY <1>1
    <2>2. b.core = A ++ B ++ (C ++ R)
      BY <1>1, <1>2, Assoc4
    <2>3. First(b.core, Size(A)) = A /\ Rest(b.core, Size(A) + Size(B)) = C ++ R
      BY <1>1, <2>2, Cut3
    <2>4. Part(b.core, 1, Size(A)) = First(b.core, Size(A)) /\ Part(b.core, a2 + 1, Len(b.core)) = Rest(b.core, a2)
      BY DEF Part, First, Rest
    <2>5. A ++ L ++ (C ++ R) = A ++ L ++ C ++ R
      BY <1>1, Assoc
    <2> QED
      BY <2>1, <2>3, <2>4, <2>5
  <1>4. d = Size(A ++ L ++ C) /\ d \in Nat /\ e = q + (Size(L) - Size(B)) /\ e \in Int
    BY <1>1, <1>2
  <1>5. Replaced(b, a1, a2, L) = x
    BY DEF Replaced
  <1> HIDE DEF c, d, e
  <1>6. x \in Buf
    BY <1>1, <1>2, <1>3, <1>4 DEF Buf
  <1>7. /\ x.core = c /\ x.dol = d /\ x.undap2 = e
        /\ x.undkind = b.undkind /\ x.unddel = b.unddel /\ x.undap1 = b.undap1
    BY <1>2 DEF Buf
  <1> HIDE DEF x
  <1>8. b.undkind = k /\ b.unddel = u /\ b.undap1 = p
    BY DEF Is
  <1> QED
    BY <1>1, <1>3, <1>4, <1>5, <1>6, <1>7, <1>8 DEF Is

\* Where the place of the saved lines is when the new ones are away.
Under(u, p, n) == IF n > 0 /\ u >= p THEN u - n ELSE u

\* The first half of undo().
LEMMA TakeAwayIs ==
    ASSUME NEW b, NEW A \in Lines, NEW N \in Lines, NEW Z \in Lines, NEW R,
           NEW k, NEW u, NEW p, NEW q, Is(b, A ++ N ++ Z, R, k, u, p, q),
           q = p + Size(N), N # <<>> => p = Size(A) + 1
    PROVE  Is(TakeAway(b), A ++ Z ++ N, R, k, Under(u, p, Size(N)), p, q)
  <1>1. /\ Size(A) \in Nat /\ Size(N) \in Nat /\ Size(Z) \in Nat /\ <<>> \in Lines
        /\ Size(A ++ N ++ Z) = Size(A) + Size(N) + Size(Z) /\ A ++ N ++ Z \in Lines
        /\ A ++ Z ++ N \in Lines /\ A ++ Z \in Lines
    <2>1. A ++ N \in Lines /\ A ++ Z \in Lines
      BY Joined
    <2> QED
      BY <2>1, Joined, LineLen, NoLines
  <1>2. /\ b \in Buf /\ b.dol = Size(A) + Size(N) + Size(Z) /\ R \in Lines
        /\ b.unddel = u /\ b.undap1 = p /\ b.undap2 = q
        /\ u \in Int /\ p \in Int /\ q \in Int
    BY <1>1, IsTyped DEF Is
  <1>3. b.undap2 - b.undap1 = Size(N)
    BY <1>1, <1>2
  <1>4. CASE N = <<>>
    <2>1. Size(N) = 0 /\ A ++ N ++ Z = A ++ Z ++ N
      BY <1>1, <1>4, NoLines
    <2>2. TakeAway(b) = b
      BY <1>3, <2>1 DEF TakeAway
    <2> QED
      BY <2>1, <2>2 DEF Under
  <1>5. CASE N # <<>>
    <2>1. Size(N) > 0 /\ p = Size(A) + 1 /\ q = Size(A) + Size(N) + 1
      BY <1>1, <1>2, <1>5, NoLines
    <2> DEFINE c == IF b.undap2 = b.dol + 1 THEN b.core
                    ELSE Exchange(b.core, b.undap1, b.undap2, b.dol + 1)
               v == IF b.unddel >= b.undap1 THEN b.unddel - (b.undap2 - b.undap1) ELSE b.unddel
    <2>10. ~(b.undap2 - b.undap1 <= 0)
      BY <1>1, <1>3, <2>1
    <2>2. TakeAway(b) = [b EXCEPT !.core = c, !.unddel = v]
      BY <2>10 DEF TakeAway
    <2>3. v \in Int /\ v = Under(u, p, Size(N))
      <3>1. PICK n \in Nat : n = Size(N) /\ n > 0 /\ b.undap2 - b.undap1 = n
        BY <1>1, <1>3, <2>1
      <3>2. v = IF u >= p THEN u - n ELSE u
        BY <1>2, <3>1
      <3>3. Under(u, p, n) = IF u >= p THEN u - n ELSE u
        BY <3>1 DEF Under
      <3> HIDE DEF v
      <3> QED
        BY <1>2, <3>1, <3>2, <3>3
    <2>4. Is([b EXCEPT !.core = c], A ++ Z ++ N, R, k, u, p, q)
      <3>1. CASE b.undap2 = b.dol + 1
        <4>1. Size(Z) = 0
          BY <1>1, <1>2, <2>1, <3>1
        <4>2. Z = <<>>
          BY <4>1, NoLines
        <4>3. A ++ N ++ Z = A ++ Z ++ N
          BY <1>1, <4>2, NoLines, Joined
        <4>4. c = b.core /\ b.core = A ++ N ++ Z ++ R
          BY <3>1 DEF Is
        <4> QED
          BY <1>1, <1>2, <4>3, <4>4, SetCore
      <3>2. CASE b.undap2 # b.dol + 1
        <4>1. Is(b, A ++ N ++ Z ++ <<>>, R, k, u, p, q)
          BY <1>1, NoLines
        <4>2. p = Size(A) + 1 /\ q = Size(A) + Size(N) + 1 /\ b.dol + 1 = Size(A) + Size(N) + Size(Z) + 1
          BY <1>2, <2>1
        <4>3. Is([b EXCEPT !.core = Exchange(b.core, p, q, b.dol + 1)], A ++ Z ++ N ++ <<>>, R, k, u, p, q)
          BY <1>1, <4>1, <4>2, ExchangeInText
        <4>4. c = Exchange(b.core, p, q, b.dol + 1)
          BY <1>2, <3>2
        <4>5. A ++ Z ++ N ++ <<>> = A ++ Z ++ N
          BY <1>1, NoLines
        <4> QED
          BY <4>3, <4>4, <4>5
      <3> QED
        BY <3>1, <3>2
    <2> HIDE DEF c, v
    <2>5. Is([[b EXCEPT !.core = c] EXCEPT !.unddel = v], A ++ Z ++ N, R, k, v, p, q)
      BY <2>3, <2>4, SetDel
    <2>6. [[b EXCEPT !.core = c] EXCEPT !.unddel = v] = [b EXCEPT !.core = c, !.unddel = v]
      BY <1>2 DEF Buf
    <2> QED
      BY <2>2, <2>3, <2>5, <2>6
  <1> QED
    BY <1>4, <1>5

\* Where the new lines are when n lines come back at line j.
Over(p, j, n) == IF n > 0 /\ p >= j THEN p + n ELSE p

\* The second half of undo().
LEMMA BringBackIs ==
    ASSUME NEW b, NEW C \in Lines, NEW D \in Lines, NEW N \in Lines, NEW R,
           NEW k, NEW u, NEW p, NEW q, Is(b, C ++ D ++ N, R, k, u, p, q),
           R # <<>> => u = Size(C), NEW newdol, newdol = Size(C) + Size(D)
    PROVE  Is(BringBack(b, newdol), C ++ R ++ D, N, IF k = All THEN All ELSE Changed,
              Over(p, u + 1, Size(R)) - 1, u + 1, u + 1 + Size(R))
  <1>1. R \in Lines
    BY IsTyped
  <1>2. /\ Size(C) \in Nat /\ Size(D) \in Nat /\ Size(N) \in Nat /\ Size(R) \in Nat /\ <<>> \in Lines
        /\ C ++ D \in Lines /\ C ++ R \in Lines /\ D ++ N \in Lines
        /\ C ++ D ++ N \in Lines /\ C ++ R ++ D \in Lines /\ C ++ R ++ D ++ N \in Lines
        /\ Size(C ++ D ++ N) = Size(C) + Size(D) + Size(N) /\ Size(D ++ N) = Size(D) + Size(N)
        /\ Size(C ++ R ++ D) = Size(C) + Size(R) + Size(D)
        /\ Size(C ++ D ++ N ++ R) = Size(C) + Size(D) + Size(N) + Size(R)
    <2>1. C ++ D \in Lines /\ C ++ R \in Lines /\ D ++ N \in Lines
      BY <1>1, Joined
    <2>2. C ++ D ++ N \in Lines /\ C ++ R ++ D \in Lines
      BY <1>1, <2>1, Joined
    <2>3. Size(C ++ D ++ N) = Size(C) + Size(D) + Size(N)
      BY <2>1, Joined
    <2>4. Size(C ++ D ++ N ++ R) = Size(C) + Size(D) + Size(N) + Size(R)
      BY <1>1, <2>2, <2>3, Joined
    <2> QED
      BY <1>1, <2>1, <2>2, <2>3, <2>4, Joined, LineLen, NoLines
  <1>3. /\ b \in Buf /\ b.core = C ++ D ++ N ++ R /\ b.dol = Size(C) + Size(D) + Size(N)
        /\ b.undkind = k /\ b.unddel = u /\ b.undap1 = p
        /\ u \in Int /\ p \in Int /\ k \in Kinds
    BY <1>2, IsTyped DEF Is
  <1>4. Len(b.core) - b.dol = Size(R)
    <2>1. Size(b.core) = Size(C) + Size(D) + Size(N) + Size(R)
      BY <1>2, <1>3
    <2>2. Size(b.core) - b.dol = Size(R)
      BY <1>2, <1>3, <2>1
    <2> QED
      BY <2>2 DEF Size
  <1>5. PICK r \in Nat : r = Size(R)
    BY <1>2
  <1>6. PICK j \in Int : j = u + 1
    BY <1>3
  <1> DEFINE i == Len(b.core) - b.dol
             c == IF i > 0 /\ b.unddel + 1 # b.dol + 1
                  THEN Exchange(b.core, b.unddel + 1, b.dol + 1, Len(b.core) + 1) ELSE b.core
             e == IF i > 0 /\ b.undap1 >= b.unddel + 1 THEN b.undap1 + i ELSE b.undap1
             w == IF b.undkind = All THEN All ELSE Changed
             x == [b EXCEPT !.core = c, !.dol = newdol + i, !.unddel = e - 1,
                            !.undap1 = b.unddel + 1, !.undap2 = b.unddel + 1 + i, !.undkind = w]
  <1>7. BringBack(b, newdol) = x
    BY DEF BringBack, All, Changed
  <1>8. i = r
    BY <1>4, <1>5
  <1> HIDE DEF i
  <1>9. e = Over(p, j, r) /\ e \in Int
    BY <1>3, <1>5, <1>6, <1>8 DEF Over
  <1>10. w = (IF k = All THEN All ELSE Changed) /\ w \in Kinds
    BY <1>3, KindsDiffer
  <1>11. newdol + i = Size(C ++ R ++ D) /\ newdol + i \in Nat
    BY <1>2, <1>5, <1>8
  <1>12. c = C ++ R ++ D ++ N
    <2>1. CASE R = <<>>
      <3>1. r = 0
        BY <1>5, <2>1, NoLines
      <3>2. C ++ D ++ N ++ R = C ++ D ++ N /\ C ++ R ++ D ++ N = C ++ D ++ N
        BY <1>2, <2>1, NoLines
      <3>3. c = b.core
        BY <1>8, <3>1
      <3> QED
        BY <1>3, <3>2, <3>3
    <2>2. CASE R # <<>>
      <3>1. r > 0 /\ u = Size(C)
        BY <1>1, <1>5, <2>2, NoLines
      <3>2. CASE u + 1 = b.dol + 1
        <4>1. Size(D) = 0 /\ Size(N) = 0
          <5>1. PICK d \in Nat, n \in Nat : d = Size(D) /\ n = Size(N)
            BY <1>2
          <5>2. u + 1 = u + d + n + 1
            BY <1>3, <3>1, <3>2, <5>1
          <5>3. d = 0 /\ n = 0
            BY <1>3, <5>2
          <5> QED
            BY <5>1, <5>3
        <4>2. D = <<>> /\ N = <<>>
          BY <4>1, NoLines
        <4>3. C ++ D ++ N ++ R = C ++ R /\ C ++ R ++ D ++ N = C ++ R
          BY <1>2, <4>2, NoLines
        <4>4. c = b.core
          BY <1>3, <3>2
        <4> QED
          BY <1>3, <4>3, <4>4
      <3>3. CASE u + 1 # b.dol + 1
        <4>1. b.core = C ++ (D ++ N) ++ R ++ <<>>
          <5>1. C ++ D ++ N = C ++ (D ++ N)
            BY Assoc
          <5>2. C ++ D ++ N ++ R = C ++ D ++ N ++ R ++ <<>>
            BY <1>1, <1>2, Joined, NoLines
          <5> QED
            BY <1>3, <5>1, <5>2
        <4>2. Len(b.core) + 1 = Size(C) + Size(D ++ N) + Size(R) + 1
          <5>1. Size(b.core) + 1 = Size(C) + Size(D ++ N) + Size(R) + 1
            BY <1>2, <1>3
          <5> QED
            BY <5>1 DEF Size
        <4>3. b.unddel + 1 = Size(C) + 1 /\ b.dol + 1 = Size(C) + Size(D ++ N) + 1
          BY <1>2, <1>3, <3>1
        <4>4. Exchange(b.core, b.unddel + 1, b.dol + 1, Len(b.core) + 1) = C ++ R ++ (D ++ N) ++ <<>>
          BY <1>1, <1>2, <4>1, <4>2, <4>3, ExchangeAt
        <4>5. C ++ R ++ (D ++ N) ++ <<>> = C ++ R ++ D ++ N
          <5>1. C ++ R ++ (D ++ N) = C ++ R ++ D ++ N
            BY <1>1, Assoc4
          <5> QED
            BY <1>2, <5>1, NoLines
        <4>6. c = Exchange(b.core, b.unddel + 1, b.dol + 1, Len(b.core) + 1)
          BY <1>3, <1>8, <3>1, <3>3
        <4> QED
          BY <4>4, <4>5, <4>6
      <3> QED
        BY <3>2, <3>3
    <2> QED
      BY <2>1, <2>2
  <1>13. b.unddel + 1 = j /\ b.unddel + 1 + i = j + r /\ e - 1 \in Int /\ j + r \in Int
    BY <1>3, <1>6, <1>8, <1>9
  <1> HIDE DEF c, e, w
  <1>14. x \in Buf
    BY <1>2, <1>3, <1>10, <1>11, <1>12, <1>13 DEF Buf
  <1>15. /\ x.core = c /\ x.dol = newdol + i /\ x.unddel = e - 1 /\ x.undap1 = b.unddel + 1
         /\ x.undap2 = b.unddel + 1 + i /\ x.undkind = w
    BY <1>3 DEF Buf
  <1> HIDE DEF x
  <1>16. Is(x, C ++ R ++ D, N, w, e - 1, j, j + r)
    BY <1>2, <1>11, <1>12, <1>13, <1>14, <1>15 DEF Is
  <1> QED
    BY <1>5, <1>6, <1>7, <1>9, <1>10, <1>16

\* undo() of a change, of a put and of a global command.
LEMMA UndoChangeIs ==
    ASSUME NEW b, NEW A \in Lines, NEW N \in Lines, NEW Z \in Lines, NEW C \in Lines, NEW D \in Lines,
           NEW R, NEW k, NEW u, NEW p, NEW q, Is(b, A ++ N ++ Z, R, k, u, p, q),
           q = p + Size(N), N # <<>> => p = Size(A) + 1, A ++ Z = C ++ D,
           R # <<>> => Under(u, p, Size(N)) = Size(C), k # PutBack
    PROVE  Is(UndoChange(b), C ++ R ++ D, N, IF k = All THEN All ELSE Changed,
              Over(p, Under(u, p, Size(N)) + 1, Size(R)) - 1, Under(u, p, Size(N)) + 1,
              Under(u, p, Size(N)) + 1 + Size(R))
  <1>1. PICK t : t = TakeAway(b)
    OBVIOUS
  <1>2. Is(t, C ++ D ++ N, R, k, Under(u, p, Size(N)), p, q)
    BY <1>1, TakeAwayIs
  <1>3. PICK newdol : newdol = IF b.undap2 - b.undap1 > 0 THEN b.dol - (b.undap2 - b.undap1) ELSE b.dol
    OBVIOUS
  <1>4. newdol = Size(C) + Size(D)
    <2>1. /\ Size(A ++ N ++ Z) = Size(A) + Size(N) + Size(Z) /\ Size(A ++ Z) = Size(A) + Size(Z)
          /\ Size(C ++ D) = Size(C) + Size(D)
          /\ Size(A) \in Nat /\ Size(N) \in Nat /\ Size(Z) \in Nat
      <3>1. A ++ N \in Lines /\ Size(A ++ N) = Size(A) + Size(N)
        BY Joined
      <3> QED
        BY <3>1, Joined, LineLen
    <2>2. b.undap2 = q /\ b.undap1 = p /\ b.dol = Size(A ++ N ++ Z) /\ p \in Int
      BY IsTyped DEF Is
    <2>3. b.undap2 - b.undap1 = Size(N)
      BY <2>1, <2>2
    <2> QED
      BY <1>3, <2>1, <2>2, <2>3
  <1>5. b.undkind # "put"
    BY DEF Is, PutBack
  <1>6. UndoChange(b) = BringBack(t, newdol)
    BY <1>1, <1>3, <1>5 DEF UndoChange
  <1> QED
    BY <1>2, <1>4, <1>6, BringBackIs

\* undo() of a put.
LEMMA UndoPutIs ==
    ASSUME NEW b, NEW A \in Lines, NEW N \in Lines, NEW Z \in Lines,
           NEW R, NEW k, NEW u, NEW p, NEW q, Is(b, A ++ N ++ Z, R, k, u, p, q),
           q = p + Size(N), N # <<>> => p = Size(A) + 1, k = PutBack
    PROVE  Is(UndoChange(b), A ++ Z, N, Changed, p - 1, p, p)
  <1>1. PICK t : t = [TakeAway(b) EXCEPT !.unddel = p - 1]
    OBVIOUS
  <1>2. p \in Int /\ p - 1 \in Int /\ <<>> \in Lines /\ A ++ Z \in Lines /\ A ++ Z ++ N \in Lines
    <2>1. A ++ Z \in Lines
      BY Joined
    <2> QED
      BY <2>1, IsTyped, Joined, NoLines
  <1>3. Is(t, A ++ Z ++ N, R, k, p - 1, p, q)
    <2>1. Is(TakeAway(b), A ++ Z ++ N, R, k, Under(u, p, Size(N)), p, q)
      BY TakeAwayIs
    <2> QED
      BY <1>1, <1>2, <2>1, SetDel
  <1>4. Is(squish(t), A ++ Z ++ N, <<>>, k, p - 1, p, q)
    BY <1>3, SquishIs
  <1>5. PICK newdol : newdol = IF b.undap2 - b.undap1 > 0 THEN b.dol - (b.undap2 - b.undap1) ELSE b.dol
    OBVIOUS
  <1>6. newdol = Size(A) + Size(Z)
    <2>1. /\ Size(A ++ N ++ Z) = Size(A) + Size(N) + Size(Z)
          /\ Size(A) \in Nat /\ Size(N) \in Nat /\ Size(Z) \in Nat
      <3>1. A ++ N \in Lines /\ Size(A ++ N) = Size(A) + Size(N)
        BY Joined
      <3> QED
        BY <3>1, Joined, LineLen
    <2>2. b.undap2 = q /\ b.undap1 = p /\ b.dol = Size(A ++ N ++ Z)
      BY DEF Is
    <2>3. b.undap2 - b.undap1 = Size(N)
      BY <1>2, <2>1, <2>2
    <2> QED
      BY <1>5, <2>1, <2>2, <2>3
  <1>7. UndoChange(b) = BringBack(squish(t), newdol)
    <2>1. b.undkind = "put" /\ b.undap1 = p
      BY DEF Is, PutBack
    <2> QED
      BY <1>1, <1>5, <2>1 DEF UndoChange
  <1>8. Is(BringBack(squish(t), newdol), A ++ <<>> ++ Z, N, IF k = All THEN All ELSE Changed,
           Over(p, p - 1 + 1, Size(<<>>)) - 1, p - 1 + 1, p - 1 + 1 + Size(<<>>))
    BY <1>2, <1>4, <1>6, BringBackIs
  <1>9. /\ p - 1 + 1 = p /\ Size(<<>>) = 0 /\ p + 0 = p /\ Over(p, p, 0) = p /\ A ++ <<>> = A
        /\ k # All
    BY <1>2, NoLines, KindsDiffer DEF Over
  <1> QED
    BY <1>7, <1>8, <1>9

-----------------------------------------------------------------------------
(* The invariant: what the fields for undo say about the text before.       *)

\* Of a move: two pieces of the text changed places, the first moved down or
\* the second up.
MovedFrom(T, u, p, q, bef) ==
    \E A, B, C, D \in Lines :
        /\ B # <<>> /\ C # <<>>
        /\ T = A ++ C ++ B ++ D
        /\ bef = {A ++ B ++ C ++ D}
        /\ \/ /\ p = Size(A) + 1 /\ q = Size(A) + Size(B)
              /\ u = Size(A) + Size(B) + Size(C)
           \/ /\ p = Size(A) + Size(B) + 1 /\ q = Size(A) + Size(B) + Size(C)
              /\ u = Size(A)

\* Of the rest: N are the new lines, and without them the saved lines belong
\* between C and D.
ChangedFrom(T, R, k, u, p, q, bef) ==
    \E A, N, Z, C, D \in Lines :
        /\ T = A ++ N ++ Z /\ A ++ Z = C ++ D
        /\ q = p + Size(N)
        /\ N # <<>> => p = Size(A) + 1
        /\ k = PutBack => bef = {A ++ Z}
        /\ k # PutBack => bef = {C ++ R ++ D} /\ (R # <<>> => Under(u, p, Size(N)) = Size(C))
        /\ k = All => A ++ Z = <<>>

\* In a global command the saved lines are the text before it; otherwise the
\* last command says how the text before it is found.
Good(T, R, k, u, p, q, g, bef) ==
    /\ g => k = All /\ u = 0 /\ p = 1 /\ q = Size(T) + 1 /\ bef = {R}
    /\ ~g => \/ k = None /\ bef = {}
             \/ k = Moved /\ MovedFrom(T, u, p, q, bef)
             \/ k \in {Changed, PutBack, All} /\ ChangedFrom(T, R, k, u, p, q, bef)

GoodState(b, g, bef) ==
    /\ g \in BOOLEAN
    /\ \E T, R, k, u, p, q : Is(b, T, R, k, u, p, q) /\ Good(T, R, k, u, p, q, g, bef)

UndoInv == GoodState(buf, inglobal, before)

\* Text and Area of any array.
TextOf(b) == SubSeq(b.core, 1, b.dol)
AreaOf(b) == SubSeq(b.core, b.dol + 1, Len(b.core))

\* The text and the saved lines.
LEMMA TextIs ==
    ASSUME NEW b, NEW T, NEW R, NEW k, NEW u, NEW p, NEW q, Is(b, T, R, k, u, p, q)
    PROVE  TextOf(b) = T /\ AreaOf(b) = R
  <1>1. /\ First(T ++ R, Size(T)) = T /\ Rest(T ++ R, Size(T)) = R
        /\ b.core = T ++ R /\ b.dol = Size(T)
    BY Cut2 DEF Is
  <1>2. TextOf(b) = First(b.core, b.dol) /\ AreaOf(b) = Rest(b.core, b.dol)
    BY DEF TextOf, AreaOf, First, Rest
  <1> QED
    BY <1>1, <1>2

\* Text and Area of ExUndo, before and after a step.
LEMMA TextAndArea ==
    /\ Text = TextOf(buf) /\ Area = AreaOf(buf)
    /\ Text' = TextOf(buf') /\ Area' = AreaOf(buf')
  BY DEF Text, Area, TextOf, AreaOf

\* A command that gives lines N the place of lines B keeps the invariant; so
\* does one that brings lines N, saves others (put) or none (copy).
LEMMA ChangeKeeps ==
    ASSUME NEW A \in Lines, NEW B \in Lines, NEW C \in Lines, NEW N \in Lines,
           NEW R, NEW k, NEW u, NEW p, NEW q, NEW R2, NEW k2, NEW u2, NEW p2, NEW q2,
           Is(buf, A ++ B ++ C, R, k, u, p, q), Good(A ++ B ++ C, R, k, u, p, q, inglobal, before),
           inglobal \in BOOLEAN, inglobal' = inglobal,
           Is(buf', A ++ N ++ C, R2, k2, u2, p2, q2),
           before' = IF FIXUNDO THEN {Text} ELSE before,
           FIXUNDO => /\ \/ k2 = Changed /\ R2 = B
                         \/ k2 = PutBack /\ B = <<>>
                      /\ B # <<>> => u2 = Size(A)
                      /\ q2 = p2 + Size(N)
                      /\ N # <<>> => p2 = Size(A) + 1,
           ~FIXUNDO => k2 = k /\ R2 = R /\ u2 = u /\ p2 = p /\ q2 = q + (Size(N) - Size(B))
    PROVE  GoodState(buf', inglobal', before')
  <1>1. Text = A ++ B ++ C
    BY TextIs, TextAndArea
  <1>2. CASE inglobal
    <2>1. Size(A ++ N ++ C) = Size(A) + Size(N) + Size(C) /\ Size(A ++ B ++ C) = Size(A) + Size(B) + Size(C)
      <3>1. A ++ N \in Lines /\ A ++ B \in Lines
        BY Joined
      <3> QED
        BY <3>1, Joined
    <2>2. k = All /\ u = 0 /\ p = 1 /\ q = Size(A ++ B ++ C) + 1 /\ before = {R}
      BY <1>2 DEF Good
    <2>3. q2 = Size(A ++ N ++ C) + 1
      BY <1>2, <2>1, <2>2, LineLen DEF FIXUNDO
    <2>4. Good(A ++ N ++ C, R2, k2, u2, p2, q2, TRUE, before')
      BY <1>2, <2>2, <2>3 DEF Good, FIXUNDO
    <2> QED
      BY <1>2, <2>4 DEF GoodState
  <1>3. CASE ~inglobal
    <2>1. before' = {A ++ B ++ C} /\ FIXUNDO
      BY <1>1, <1>3 DEF FIXUNDO
    <2>2. B # <<>> => Under(u2, p2, Size(N)) = Size(A)
      <3>1. PICK a \in Nat, n \in Nat : a = Size(A) /\ n = Size(N) /\ (N = <<>> <=> n = 0)
        BY LineLen, NoLines
      <3>2. (n > 0 /\ u2 >= p2 => FALSE) \/ B = <<>>
        BY <2>1, <3>1
      <3> QED
        BY <2>1, <3>1, <3>2 DEF Under
    <2>3. ChangedFrom(A ++ N ++ C, R2, k2, u2, p2, q2, before')
      <3>1. CASE k2 = Changed /\ R2 = B
        <4>1. k2 # PutBack /\ k2 # All
          BY <3>1, KindsDiffer
        <4> QED
          BY <2>1, <2>2, <3>1, <4>1 DEF ChangedFrom
      <3>2. CASE k2 = PutBack /\ B = <<>>
        <4>1. k2 # All /\ A ++ B = A
          BY <3>2, KindsDiffer, NoLines
        <4> QED
          BY <2>1, <3>2, <4>1 DEF ChangedFrom
      <3> QED
        BY <2>1, <3>1, <3>2
    <2>4. Good(A ++ N ++ C, R2, k2, u2, p2, q2, FALSE, before')
      BY <2>1, <2>3 DEF Good
    <2> QED
      BY <1>3, <2>4 DEF GoodState
  <1> QED
    BY <1>2, <1>3

\* So does undo of a change or of a global command ...
LEMMA UndoChangeKeeps ==
    ASSUME NEW A \in Lines, NEW N \in Lines, NEW Z \in Lines, NEW C \in Lines, NEW D \in Lines,
           NEW R, NEW k, NEW u, NEW p, NEW q, Is(buf, A ++ N ++ Z, R, k, u, p, q),
           q = p + Size(N), N # <<>> => p = Size(A) + 1, A ++ Z = C ++ D,
           R # <<>> => Under(u, p, Size(N)) = Size(C), k \in {Changed, All},
           k = All => A ++ Z = <<>>,
           ~inglobal, inglobal \in BOOLEAN, inglobal' = inglobal,
           buf' = UndoChange(buf), before' = {Text}
    PROVE  /\ TextOf(buf') = C ++ R ++ D /\ AreaOf(buf') \in Lines
           /\ GoodState(buf', inglobal', before')
  <1>1. Text = A ++ N ++ Z /\ R \in Lines /\ u \in Int /\ p \in Int
    BY TextIs, TextAndArea, IsTyped
  <1>2. k # PutBack
    BY KindsDiffer
  <1>3. PICK w : w = Under(u, p, Size(N))
    OBVIOUS
  <1>4. PICK k2 : k2 = IF k = All THEN All ELSE Changed
    OBVIOUS
  <1>5. PICK u2, p2, q2 : /\ u2 = Over(p, w + 1, Size(R)) - 1 /\ p2 = w + 1
                          /\ q2 = w + 1 + Size(R)
    OBVIOUS
  <1>6. Is(buf', C ++ R ++ D, N, k2, u2, p2, q2)
    BY <1>2, <1>3, <1>4, <1>5, UndoChangeIs
  <1>7. /\ q2 = p2 + Size(R)
        /\ R # <<>> => p2 = Size(C) + 1
        /\ N # <<>> => Under(u2, p2, Size(R)) = Size(A)
    <2>1. PICK a \in Nat, n \in Nat, r \in Nat : /\ a = Size(A) /\ n = Size(N) /\ r = Size(R)
                                                 /\ N = <<>> <=> n = 0
                                                 /\ R = <<>> <=> r = 0
      BY <1>1, LineLen, NoLines
    <2>2. w \in Int
      BY <1>1, <1>3, <2>1 DEF Under
    <2>3. N # <<>> => Under(u2, p2, r) = a
      <3>1. SUFFICES ASSUME n > 0 PROVE Under(u2, p2, r) = a
        BY <2>1
      <3>2. p = a + 1
        BY <2>1, <3>1, NoLines
      <3>3. CASE r > 0 /\ p >= w + 1
        <4>1. u2 = a + r /\ u2 >= p2
          <5>1. Over(p, w + 1, r) = p + r
            BY <3>3 DEF Over
          <5>2. u2 = a + 1 + r - 1 /\ p2 = w + 1
            BY <1>5, <2>1, <3>2, <5>1
          <5> QED
            BY <2>2, <3>2, <3>3, <5>2
        <4> QED
          BY <2>1, <3>3, <4>1 DEF Under
      <3>4. CASE ~(r > 0 /\ p >= w + 1)
        <4>1. u2 = a /\ ~(r > 0 /\ u2 >= p2)
          BY <1>5, <2>1, <2>2, <3>2, <3>4 DEF Over
        <4> QED
          BY <4>1 DEF Under
      <3> QED
        BY <3>3, <3>4
    <2> QED
      BY <1>3, <1>5, <2>1, <2>2, <2>3
  <1>8. k2 \in {Changed, All} /\ k2 # PutBack /\ (k2 = All => C ++ D = <<>>)
    BY <1>4, KindsDiffer
  <1>9. ChangedFrom(C ++ R ++ D, N, k2, u2, p2, q2, before')
    <2>1. /\ C ++ D = A ++ Z /\ before' = {A ++ N ++ Z}
          /\ k2 = All => C ++ D = <<>>
          /\ k2 = PutBack => before' = {C ++ D}
      BY <1>1, <1>8
    <2> SUFFICES \E A1, N1, Z1, C1, D1 \in Lines :
                   /\ C ++ R ++ D = A1 ++ N1 ++ Z1 /\ A1 ++ Z1 = C1 ++ D1
                   /\ q2 = p2 + Size(N1)
                   /\ N1 # <<>> => p2 = Size(A1) + 1
                   /\ k2 = PutBack => before' = {A1 ++ Z1}
                   /\ k2 # PutBack => /\ before' = {C1 ++ N ++ D1}
                                      /\ N # <<>> => Under(u2, p2, Size(N1)) = Size(C1)
                   /\ k2 = All => A1 ++ Z1 = <<>>
      BY DEF ChangedFrom
    <2> R \in Lines
      BY <1>1
    <2> WITNESS C \in Lines, R \in Lines, D \in Lines, A \in Lines, Z \in Lines
    <2> QED
      BY <1>7, <2>1
  <1>10. Good(C ++ R ++ D, N, k2, u2, p2, q2, FALSE, before')
    BY <1>8, <1>9 DEF Good
  <1> QED
    BY <1>6, <1>10, TextIs DEF GoodState

\* ... and of a put ...
LEMMA UndoPutKeeps ==
    ASSUME NEW A \in Lines, NEW N \in Lines, NEW Z \in Lines,
           NEW R, NEW k, NEW u, NEW p, NEW q, Is(buf, A ++ N ++ Z, R, k, u, p, q),
           q = p + Size(N), N # <<>> => p = Size(A) + 1, k = PutBack,
           ~inglobal, inglobal \in BOOLEAN, inglobal' = inglobal,
           buf' = UndoChange(buf), before' = {Text}
    PROVE  /\ TextOf(buf') = A ++ Z /\ AreaOf(buf') \in Lines
           /\ GoodState(buf', inglobal', before')
  <1>1. Text = A ++ N ++ Z /\ p \in Int /\ A ++ Z \in Lines /\ <<>> \in Lines /\ Size(<<>>) = 0
    BY TextIs, TextAndArea, IsTyped, Joined, NoLines
  <1>2. PICK u2 : u2 = p - 1
    OBVIOUS
  <1>3. Is(buf', A ++ Z, N, Changed, u2, p, p)
    BY <1>2, UndoPutIs
  <1>4. /\ A ++ Z = A ++ <<>> ++ Z /\ p = p + Size(<<>>)
        /\ N # <<>> => Under(u2, p, Size(<<>>)) = Size(A)
    <2>1. Size(A) \in Nat /\ A ++ <<>> = A
      BY LineLen, NoLines
    <2>2. Under(u2, p, 0) = u2
      BY DEF Under
    <2> QED
      BY <1>1, <1>2, <2>1, <2>2
  <1>5. Changed # PutBack /\ Changed # All
    BY KindsDiffer
  <1>6. ChangedFrom(A ++ Z, N, Changed, u2, p, p, before')
    BY <1>1, <1>4, <1>5 DEF ChangedFrom
  <1>7. Good(A ++ Z, N, Changed, u2, p, p, FALSE, before')
    BY <1>6 DEF Good
  <1> QED
    BY <1>3, <1>7, TextIs DEF GoodState

\* ... and of a move.
LEMMA UndoMoveKeeps ==
    ASSUME NEW T, NEW R, NEW k, NEW u, NEW p, NEW q, Is(buf, T, R, k, u, p, q),
           MovedFrom(T, u, p, q, before),
           ~inglobal, inglobal \in BOOLEAN, inglobal' = inglobal,
           buf' = UndoMove(buf), before' = {Text}
    PROVE  /\ TextOf(buf') \in before /\ AreaOf(buf') \in Lines
           /\ GoodState(buf', inglobal', before')
  <1>1. PICK A \in Lines, B \in Lines, C \in Lines, D \in Lines :
          /\ B # <<>> /\ C # <<>>
          /\ T = A ++ C ++ B ++ D
          /\ before = {A ++ B ++ C ++ D}
          /\ \/ /\ p = Size(A) + 1 /\ q = Size(A) + Size(B)
                /\ u = Size(A) + Size(B) + Size(C)
             \/ /\ p = Size(A) + Size(B) + 1 /\ q = Size(A) + Size(B) + Size(C)
                /\ u = Size(A)
    BY DEF MovedFrom
  <1>2. Text = A ++ C ++ B ++ D /\ before' = {A ++ C ++ B ++ D} /\ FIXUNDO /\ <<>> \in Lines
    BY <1>1, TextIs, TextAndArea, NoLines DEF FIXUNDO
  <1>3. buf.unddel = u /\ buf.undap1 = p /\ buf.undap2 = q
    BY DEF Is
  <1>4. PICK a \in Nat, m \in Nat, n \in Nat : /\ a = Size(A) /\ m = Size(B) /\ n = Size(C)
                                               /\ m # 0 /\ n # 0
    BY <1>1, LineLen, NoLines
  <1>5. CASE p = a + 1 /\ q = a + m /\ u = a + m + n
    <2>1. PICK a1 \in Int, a2 \in Int, adt \in Int : a1 = a + n + 1 /\ a2 = a + n + m /\ adt = a
      OBVIOUS
    <2>2. /\ u - q = n /\ n > 0 /\ p + n = a1 /\ u = a2 /\ p - 1 = adt
      BY <1>4, <1>5, <2>1
    <2>3. buf' = MoveLines(buf, a1, a2, adt)
      BY <1>3, <2>2 DEF UndoMove
    <2>4. Is(buf', A ++ B ++ C ++ D, <<>>, Moved, adt, a1, a2)
      BY <1>1, <1>2, <1>4, <2>1, <2>3, MoveUpIs
    <2>5. MovedFrom(A ++ B ++ C ++ D, adt, a1, a2, before')
      BY <1>1, <1>2, <1>4, <2>1 DEF MovedFrom
    <2>6. Good(A ++ B ++ C ++ D, <<>>, Moved, adt, a1, a2, FALSE, before')
      BY <2>5 DEF Good
    <2> QED
      BY <1>1, <1>2, <2>4, <2>6, TextIs DEF GoodState
  <1>6. CASE p = a + m + 1 /\ q = a + m + n /\ u = a
    <2>1. PICK a1 \in Int, a2 \in Int, adt \in Int : a1 = a + 1 /\ a2 = a + n /\ adt = a + n + m
      OBVIOUS
    <2>2. /\ ~(u - q > 0) /\ u + 1 = a1 /\ u + 1 + (q - p) = a2 /\ q = adt
      BY <1>4, <1>6, <2>1
    <2>3. buf' = MoveLines(buf, a1, a2, adt)
      BY <1>3, <2>2 DEF UndoMove
    <2>4. Is(buf', A ++ B ++ C ++ D, <<>>, Moved, adt, a1, a2)
      BY <1>1, <1>2, <1>4, <2>1, <2>3, MoveDownIs
    <2>5. MovedFrom(A ++ B ++ C ++ D, adt, a1, a2, before')
      BY <1>1, <1>2, <1>4, <2>1 DEF MovedFrom
    <2>6. Good(A ++ B ++ C ++ D, <<>>, Moved, adt, a1, a2, FALSE, before')
      BY <2>5 DEF Good
    <2> QED
      BY <1>1, <1>2, <2>4, <2>6, TextIs DEF GoodState
  <1> QED
    BY <1>1, <1>4, <1>5, <1>6

-----------------------------------------------------------------------------
(* The steps of the buffer that ex promises.                                *)

\* Parts of the text as ExBuffer names them.
LEMMA PartsOfText ==
    ASSUME NEW a \in Int, NEW b \in Int
    PROVE  /\ Buffer!Lines(a + 1, b) = Mid(Text, a, b)
           /\ Buffer!Upto(a) = First(Text, a)
           /\ Buffer!From(a + 1) = Rest(Text, a)
  BY DEF Buffer!Lines, Buffer!Upto, Buffer!From, Mid, First, Rest

\* A range of the text, with what is before it and behind it.
LEMMA TextCut ==
    ASSUME NEW A \in Lines, NEW B \in Lines, NEW C \in Lines, Text = A ++ B ++ C,
           NEW a \in Nat, NEW b \in Nat, a = Size(A), b = Size(A) + Size(B)
    PROVE  /\ Buffer!Lines(a + 1, b) = B /\ Buffer!Upto(a) = A /\ Buffer!From(b + 1) = C
           /\ Size(Text) \in Nat /\ b <= Size(Text)
  <1>1. Buffer!Lines(a + 1, b) = Mid(Text, a, b) /\ Buffer!Upto(a) = First(Text, a) /\ Buffer!From(b + 1) = Rest(Text, b)
    BY PartsOfText
  <1>2. Mid(Text, a, b) = B /\ First(Text, a) = A /\ Rest(Text, b) = C
    BY Cut3
  <1>3. Size(Text) = a + Size(B) + Size(C)
    <2>1. A ++ B \in Lines /\ Size(A ++ B) = Size(A) + Size(B)
      BY Joined
    <2> QED
      BY <2>1, Joined
  <1>4. PICK n \in Nat, m \in Nat : n = Size(B) /\ m = Size(C)
    BY LineLen
  <1>5. Size(Text) = a + n + m
    BY <1>3, <1>4
  <1> QED
    BY <1>1, <1>2, <1>4, <1>5

\* A place in the text, with what is before it and behind it.
LEMMA TextCut2 ==
    ASSUME NEW P \in Lines, NEW Q \in Lines, Text = P ++ Q, NEW c \in Nat, c = Size(P)
    PROVE  Buffer!Upto(c) = P /\ Buffer!From(c + 1) = Q /\ Size(Text) \in Nat /\ c <= Size(Text)
  <1>1. Buffer!Upto(c) = First(Text, c) /\ Buffer!From(c + 1) = Rest(Text, c)
    BY PartsOfText
  <1>2. First(Text, c) = P /\ Rest(Text, c) = Q
    BY Cut2
  <1>3. PICK n \in Nat : n = Size(Q) /\ Size(Text) = c + n
    BY Joined, LineLen
  <1> QED
    BY <1>1, <1>2, <1>3

\* No lines.
Empty == <<>>

\* append, insert, delete, change, substitute.
LEMMA ReplaceMaps ==
    ASSUME NEW A \in Lines, NEW B \in Lines, NEW C \in Lines, NEW N \in Lines,
           Text = A ++ B ++ C, Text' = A ++ N ++ C, Buffer!Command(B)
    PROVE  Buffer!Next
  <1>1. PICK a \in Nat, m \in Nat, n \in Nat, b \in Nat :
          a = Size(A) /\ m = Size(B) /\ n = Size(N) /\ b = a + m
    BY LineLen
  <1>2. /\ Buffer!Lines(a + 1, b) = B /\ Buffer!Upto(a) = A /\ Buffer!From(b + 1) = C
        /\ Size(Text) \in Nat /\ b <= Size(Text)
    BY <1>1, TextCut
  <1>3. /\ Text' \in Lines /\ Mid(Text', a, a + n) = N /\ Size(Text') \in Nat /\ a + n <= Size(Text')
    <2>1. A ++ N \in Lines /\ Size(A ++ N) = a + n
      BY <1>1, Joined
    <2>2. PICK c \in Nat : c = Size(C)
      BY LineLen
    <2>3. Text' \in Lines /\ Size(Text') = a + n + c
      BY <2>1, <2>2, Joined
    <2>4. Mid(Text', a, a + n) = N
      BY <1>1, Cut3
    <2> QED
      BY <2>2, <2>3, <2>4
  <1>4. SubSeq(Text', a + 1, a + n) = N
    BY <1>3 DEF Mid
  <1>5. Text' = Buffer!Upto(a) \o SubSeq(Text', a + 1, a + n) \o Buffer!From(b + 1)
    BY <1>2, <1>4 DEF ++
  <1>6. Text' \in Seq(Line) /\ n \in 0..Len(Text') - a
    BY <1>3 DEF Lines, Size
  <1>7. PICK x \in Int : x = a + 1 /\ x - 1 = a /\ x - 1 + n = a + n
    OBVIOUS
  <1>8. Buffer!Replace(x, b)
    <2>1. Buffer!Command(Buffer!Lines(x, b))
      BY <1>2, <1>7
    <2> QED
      BY <1>5, <1>6, <1>7, <2>1 DEF Buffer!Replace
  <1>9. x \in 1..Size(Text) + 1 /\ b \in x - 1..Size(Text)
    BY <1>1, <1>2, <1>7
  <1> QED
    BY <1>8, <1>9 DEF Buffer!Next, Size

\* copy.
LEMMA CopyMaps ==
    ASSUME NEW A \in Lines, NEW B \in Lines, NEW C \in Lines, NEW P \in Lines, NEW Q \in Lines,
           Text = A ++ B ++ C, Text = P ++ Q, Text' = P ++ B ++ Q, Size(B) # 0, Buffer!Command(Empty)
    PROVE  Buffer!Next
  <1>1. PICK a \in Nat, m \in Nat, c \in Nat, b \in Nat :
          a = Size(A) /\ m = Size(B) /\ c = Size(P) /\ b = a + m /\ m # 0
    BY LineLen, NoLines
  <1>2. /\ Buffer!Lines(a + 1, b) = B /\ Size(Text) \in Nat /\ b <= Size(Text)
    <2>1. Text = A ++ B ++ C /\ a = Size(A) /\ b = Size(A) + Size(B)
      BY <1>1
    <2> QED
      BY <2>1, TextCut
  <1>4. Buffer!Upto(c) = P /\ Buffer!From(c + 1) = Q /\ c <= Size(Text)
    BY <1>1, TextCut2
  <1>5. Text' = Buffer!Upto(c) \o Buffer!Lines(a + 1, b) \o Buffer!From(c + 1)
    BY <1>2, <1>4 DEF ++
  <1>6. Buffer!Copy(a + 1, b, c)
    BY <1>5 DEF Buffer!Copy, Empty
  <1>7. a + 1 \in 1..Size(Text) /\ c \in 0..Size(Text) /\ b \in a + 1..Size(Text)
    BY <1>1, <1>2, <1>4
  <1> QED
    BY <1>6, <1>7 DEF Buffer!Next, Size

\* The second of two pieces moves up.
LEMMA MoveUpMaps ==
    ASSUME NEW A \in Lines, NEW B \in Lines, NEW C \in Lines, NEW D \in Lines,
           Text = A ++ B ++ C ++ D, Text' = A ++ C ++ B ++ D, Size(C) # 0, Buffer!Command(Empty)
    PROVE  Buffer!Next
  <1>0. PICK c \in Nat, m \in Nat, n \in Nat : c = Size(A) /\ m = Size(B) /\ n = Size(C) /\ n # 0
    BY LineLen, NoLines
  <1>1. PICK a \in Nat, b \in Nat : a = c + m /\ b = a + n
    OBVIOUS
  <1>2. A ++ B \in Lines /\ Size(A ++ B) = a /\ C ++ D \in Lines /\ Text = A ++ B ++ (C ++ D)
    <2>1. A ++ B \in Lines /\ Size(A ++ B) = a /\ C ++ D \in Lines
      BY <1>0, <1>1, Joined
    <2>2. A ++ B ++ C ++ D = A ++ B ++ (C ++ D)
      BY Assoc4
    <2> QED
      BY <2>1, <2>2
  <1>3. Buffer!Lines(a + 1, b) = C /\ Buffer!From(b + 1) = D /\ Size(Text) \in Nat /\ b <= Size(Text)
    <2>1. PICK x \in Lines : x = A ++ B /\ Text = x ++ C ++ D /\ a = Size(x) /\ b = Size(x) + Size(C)
      BY <1>0, <1>1, <1>2
    <2> QED
      BY <2>1, TextCut
  <1>4. Buffer!Upto(c) = A /\ Buffer!Lines(c + 1, a) = B
    <2>1. PICK x \in Lines : Text = A ++ B ++ x /\ c = Size(A) /\ a = Size(A) + Size(B)
      BY <1>0, <1>1, <1>2
    <2> QED
      BY <2>1, TextCut
  <1>5. PICK x \in Int : x = a + 1 /\ x - 1 = a
    OBVIOUS
  <1>6. Text' = Buffer!Upto(c) \o Buffer!Lines(x, b) \o Buffer!Lines(c + 1, x - 1) \o Buffer!From(b + 1)
    BY <1>3, <1>4, <1>5 DEF ++
  <1>7. c < x /\ c \notin x..b /\ x \in 1..Size(Text) /\ c \in 0..Size(Text) /\ b \in x..Size(Text)
    <2>1. PICK l \in Nat : l = Size(Text) /\ b <= l
      BY <1>3
    <2>2. c < x /\ c \notin x..b
      BY <1>0, <1>1, <1>5
    <2>3. x \in 1..l /\ c \in 0..l /\ b \in x..l
      BY <1>0, <1>1, <1>5, <2>1
    <2> QED
      BY <2>1, <2>2, <2>3
  <1>8. Buffer!Move(x, b, c)
    BY <1>6, <1>7 DEF Buffer!Move, Empty
  <1> QED
    BY <1>7, <1>8 DEF Buffer!Next, Size

\* The first moves down.
LEMMA MoveDownMaps ==
    ASSUME NEW A \in Lines, NEW B \in Lines, NEW C \in Lines, NEW D \in Lines,
           Text = A ++ B ++ C ++ D, Text' = A ++ C ++ B ++ D, Size(B) # 0, Size(C) # 0, Buffer!Command(Empty)
    PROVE  Buffer!Next
  <1>0. PICK a \in Nat, m \in Nat, n \in Nat :
          a = Size(A) /\ m = Size(B) /\ n = Size(C) /\ m # 0 /\ n # 0
    BY LineLen, NoLines
  <1>1. PICK b \in Nat, c \in Nat : b = a + m /\ c = b + n
    OBVIOUS
  <1>2. A ++ B \in Lines /\ Size(A ++ B) = b /\ C ++ D \in Lines /\ Text = A ++ B ++ (C ++ D)
    <2>1. A ++ B \in Lines /\ Size(A ++ B) = b /\ C ++ D \in Lines
      BY <1>0, <1>1, Joined
    <2>2. A ++ B ++ C ++ D = A ++ B ++ (C ++ D)
      BY Assoc4
    <2> QED
      BY <2>1, <2>2
  <1>3. Buffer!Lines(b + 1, c) = C /\ Buffer!From(c + 1) = D /\ Size(Text) \in Nat /\ c <= Size(Text)
    <2>1. PICK x \in Lines : x = A ++ B /\ Text = x ++ C ++ D /\ b = Size(x) /\ c = Size(x) + Size(C)
      BY <1>0, <1>1, <1>2
    <2> QED
      BY <2>1, TextCut
  <1>4. Buffer!Upto(a) = A /\ Buffer!Lines(a + 1, b) = B
    <2>1. PICK x \in Lines : Text = A ++ B ++ x /\ a = Size(A) /\ b = Size(A) + Size(B)
      BY <1>0, <1>1, <1>2
    <2> QED
      BY <2>1, TextCut
  <1>5. PICK x \in Int : x = a + 1 /\ x - 1 = a
    OBVIOUS
  <1>6. Text' = Buffer!Upto(x - 1) \o Buffer!Lines(b + 1, c) \o Buffer!Lines(x, b) \o Buffer!From(c + 1)
    BY <1>3, <1>4, <1>5 DEF ++
  <1>7. ~(c < x) /\ c \notin x..b /\ x \in 1..Size(Text) /\ c \in 0..Size(Text) /\ b \in x..Size(Text)
    <2>1. PICK l \in Nat : l = Size(Text) /\ c <= l
      BY <1>3
    <2>2. ~(c < x) /\ c \notin x..b
      BY <1>0, <1>1, <1>5
    <2>3. x \in 1..l /\ c \in 0..l /\ b \in x..l
      BY <1>0, <1>1, <1>5, <2>1
    <2> QED
      BY <2>1, <2>2, <2>3
  <1>8. Buffer!Move(x, b, c)
    BY <1>6, <1>7 DEF Buffer!Move, Empty
  <1> QED
    BY <1>7, <1>8 DEF Buffer!Next, Size

\* put.
LEMMA PutMaps ==
    ASSUME NEW P \in Lines, NEW Q \in Lines, Text = P ++ Q, Text' = P ++ Area ++ Q,
           ~inglobal, inglobal' = inglobal, before' = {Text}, Area' = Area
    PROVE  Buffer!Next
  <1>1. PICK c \in Nat : c = Size(P)
    BY LineLen
  <1>3. Buffer!Upto(c) = P /\ Buffer!From(c + 1) = Q /\ c <= Size(Text) /\ Size(Text) \in Nat
    BY <1>1, TextCut2
  <1>4. Buffer!Put(c)
    BY <1>3 DEF Buffer!Put, ++
  <1>5. c \in 0..Size(Text)
    BY <1>3
  <1> QED
    BY <1>4, <1>5 DEF Buffer!Next, Size

\* yank.
LEMMA YankMaps ==
    ASSUME NEW A \in Lines, NEW B \in Lines, NEW C \in Lines, Text = A ++ B ++ C, B # <<>>,
           ~inglobal, inglobal' = inglobal, Text' = Text, before' = {}, Area' = B
    PROVE  Buffer!Next
  <1>1. PICK a \in Nat, m \in Nat, b \in Nat, c \in Nat :
          a = Size(A) /\ m = Size(B) /\ b = a + m /\ m # 0 /\ c = 0
    BY LineLen, NoLines
  <1>2. /\ Buffer!Lines(a + 1, b) = B /\ Size(Text) \in Nat /\ b <= Size(Text)
    BY <1>1, TextCut
  <1>3. Buffer!Yank(a + 1, b)
    BY <1>2 DEF Buffer!Yank
  <1>4. a + 1 \in 1..Size(Text) /\ c \in 0..Size(Text) /\ b \in a + 1..Size(Text)
    BY <1>1, <1>2
  <1> QED
    BY <1>3, <1>4 DEF Buffer!Next, Size

-----------------------------------------------------------------------------
(* Every step keeps the invariant and is a step of the buffer.              *)

\* The state in which a command begins.
Start(T, R, k, u, p, q) ==
    Is(buf, T, R, k, u, p, q) /\ Good(T, R, k, u, p, q, inglobal, before) /\ inglobal \in BOOLEAN

\* What every command does with the text before it.
Remembers == inglobal' = inglobal /\ before' = IF FIXUNDO THEN {Text} ELSE before

\* What is to be shown of a step.
Done == GoodState(buf', inglobal', before') /\ Buffer!Next

\* A place in a text.
LEMMA Split2 ==
    ASSUME NEW T \in Lines, NEW a \in Nat, a <= Size(T)
    PROVE  \E P, Q \in Lines : T = P ++ Q /\ Size(P) = a
  BY Glue2, FirstIs, RestIs

\* A range of a text.
LEMMA Split3 ==
    ASSUME NEW T \in Lines, NEW a \in Nat, NEW b \in Nat, a <= b, b <= Size(T)
    PROVE  \E A, B, C \in Lines : T = A ++ B ++ C /\ Size(A) = a /\ Size(B) = b - a /\ Size(A) + Size(B) = b
  <1>1. PICK l \in Nat : l = Size(T)
    BY LineLen
  <1>2. First(T, a) \in Lines /\ Size(First(T, a)) = a
    BY <1>1, FirstIs
  <1>3. Mid(T, a, b) \in Lines /\ Size(Mid(T, a, b)) = b - a
    BY MidIs
  <1>4. Rest(T, b) \in Lines
    BY RestIs
  <1>5. T = First(T, a) ++ Mid(T, a, b) ++ Rest(T, b)
    BY Glue3
  <1>6. a + (b - a) = b
    OBVIOUS
  <1> QED
    BY <1>2, <1>3, <1>4, <1>5, <1>6

\* What a command leaves to put and to undo.
LEMMA CommandIs ==
    ASSUME NEW T, NEW R, NEW k, NEW u, NEW p, NEW q, Is(buf, T, R, k, u, p, q), Remembers,
           NEW T2, NEW R2, NEW k2, NEW u2, NEW p2, NEW q2, Is(buf', T2, R2, k2, u2, p2, q2),
           NEW L, inglobal => R2 = R, ~inglobal => R2 = L
    PROVE  Buffer!Command(L)
  <1>1. Area = R /\ Area' = R2
    BY TextIs, TextAndArea
  <1> QED
    BY <1>1 DEF Buffer!Command, Remembers, FIXUNDO

\* A command that gives some lines the place of others.
LEMMA ReplaceStep ==
    ASSUME NEW A \in Lines, NEW B \in Lines, NEW C \in Lines, NEW N \in Lines,
           NEW R, NEW k, NEW u, NEW p, NEW q, NEW R2, NEW k2, NEW u2, NEW p2, NEW q2,
           Start(A ++ B ++ C, R, k, u, p, q), Remembers,
           Is(buf', A ++ N ++ C, R2, k2, u2, p2, q2),
           FIXUNDO => /\ k2 = Changed /\ R2 = B
                      /\ B # <<>> => u2 = Size(A)
                      /\ q2 = p2 + Size(N)
                      /\ N # <<>> => p2 = Size(A) + 1,
           ~FIXUNDO => k2 = k /\ R2 = R /\ u2 = u /\ p2 = p /\ q2 = q + (Size(N) - Size(B))
    PROVE  Done
  <1>1. GoodState(buf', inglobal', before')
    BY ChangeKeeps DEF Start, Remembers
  <1>2. Text = A ++ B ++ C /\ Text' = A ++ N ++ C
    BY TextIs, TextAndArea DEF Start
  <1>3. Buffer!Command(B)
    BY CommandIs DEF Start, FIXUNDO
  <1>4. Buffer!Next
    BY <1>2, <1>3, ReplaceMaps
  <1> QED
    BY <1>1, <1>4 DEF Done

\* append, read, put from a named buffer and insert.
LEMMA AppendStep ==
    ASSUME NEW P \in Lines, NEW Q \in Lines, NEW L \in Lines, NEW a1 \in Int,
           NEW R, NEW k, NEW u, NEW p, NEW q, Start(P ++ Q, R, k, u, p, q), Remembers,
           NEW a, a = Size(P), buf' = append(deletenone(buf, a1), a, L)
    PROVE  Done
  <1>1. PICK E \in Lines : E = <<>> /\ P ++ E ++ Q = P ++ Q /\ Size(E) = 0 /\ E = Empty
    BY NoLines DEF Empty
  <1>2. Is(buf, P ++ Q, R, k, u, p, q) /\ Start(P ++ E ++ Q, R, k, u, p, q)
    BY <1>1 DEF Start
  <1>3. Size(P) \in Nat /\ Size(L) \in Nat /\ p \in Int /\ q \in Int
    BY <1>2, LineLen, IsTyped
  <1>4. PICK b : b = deletenone(buf, a1)
    OBVIOUS
  <1>5. CASE FIXUNDO
    <2>1. Is(b, P ++ Q, E, Changed, a1, p, q)
      BY <1>1, <1>2, <1>4, <1>5, DeleteNoneIs
    <2>2. Is(buf', P ++ L ++ Q, E, Changed, a1, Size(P) + 1, Size(P) + 1 + Size(L))
      BY <1>4, <1>5, <2>1, AppendIs
    <2>3. PICK p2, q2 : p2 = Size(P) + 1 /\ q2 = p2 + Size(L)
      OBVIOUS
    <2> QED
      BY <1>1, <1>2, <1>5, <2>2, <2>3, ReplaceStep
  <1>6. CASE ~FIXUNDO
    <2>1. b = buf
      BY <1>2, <1>4, <1>6, DeleteNoneIs
    <2>2. Is(buf', P ++ L ++ Q, R, k, u, p, q + Size(L))
      BY <1>2, <1>4, <1>6, <2>1, AppendIs
    <2>3. q + Size(L) = q + (Size(L) - Size(E))
      BY <1>1, <1>3
    <2> QED
      BY <1>1, <1>2, <1>6, <2>2, <2>3, ReplaceStep
  <1> QED
    BY <1>5, <1>6

\* delete.
LEMMA DeleteStep ==
    ASSUME NEW A \in Lines, NEW B \in Lines, NEW C \in Lines,
           NEW R, NEW k, NEW u, NEW p, NEW q, Start(A ++ B ++ C, R, k, u, p, q), Remembers,
           NEW a1 \in Int, NEW a2, a1 = Size(A) + 1, a2 = Size(A) + Size(B),
           buf' = appendnone(ex_delete(buf, a1, a2), a1)
    PROVE  Done
  <1>1. PICK E \in Lines : E = <<>> /\ A ++ E ++ C = A ++ C /\ Size(E) = 0
    BY NoLines
  <1>2. Is(buf, A ++ B ++ C, R, k, u, p, q)
    BY DEF Start
  <1>3. Size(A) \in Nat /\ Size(B) \in Nat /\ p \in Int /\ q \in Int
    BY <1>2, LineLen, IsTyped
  <1>4. PICK b : b = ex_delete(buf, a1, a2)
    OBVIOUS
  <1>5. CASE FIXUNDO
    <2>1. Is(b, A ++ C, B, Changed, Size(A), p, q)
      BY <1>2, <1>4, <1>5, DeleteIs
    <2>2. Is(buf', A ++ E ++ C, B, Changed, Size(A), a1, a1)
      BY <1>1, <1>4, <1>5, <2>1, AppendNoneIs
    <2>3. a1 = a1 + Size(E)
      BY <1>1
    <2> QED
      BY <1>1, <1>5, <2>2, <2>3, ReplaceStep
  <1>6. CASE ~FIXUNDO
    <2>1. Is(b, A ++ C, R, k, u, p, q - Size(B))
      BY <1>2, <1>4, <1>6, DeleteInGlobal
    <2>2. appendnone(b, a1) = b
      BY <1>6, <2>1, AppendNoneIs
    <2>3. q - Size(B) = q + (Size(E) - Size(B))
      BY <1>1, <1>3
    <2>4. Is(buf', A ++ E ++ C, R, k, u, p, q - Size(B))
      BY <1>1, <1>4, <2>1, <2>2
    <2> QED
      BY <1>1, <1>6, <2>3, <2>4, ReplaceStep
  <1> QED
    BY <1>5, <1>6

\* change, join and filters.
LEMMA ChangeStep ==
    ASSUME NEW A \in Lines, NEW B \in Lines, NEW C \in Lines, NEW L \in Lines,
           NEW R, NEW k, NEW u, NEW p, NEW q, Start(A ++ B ++ C, R, k, u, p, q), Remembers,
           NEW a1 \in Int, NEW a2, a1 = Size(A) + 1, a2 = Size(A) + Size(B), NEW a, a = Size(A),
           buf' = append(ex_delete(buf, a1, a2), a, L)
    PROVE  Done
  <1>1. Is(buf, A ++ B ++ C, R, k, u, p, q)
    BY DEF Start
  <1>2. Size(A) \in Nat /\ Size(B) \in Nat /\ Size(L) \in Nat /\ p \in Int /\ q \in Int
    BY <1>1, LineLen, IsTyped
  <1>3. PICK b : b = ex_delete(buf, a1, a2)
    OBVIOUS
  <1>4. CASE FIXUNDO
    <2>1. Is(b, A ++ C, B, Changed, Size(A), p, q)
      BY <1>1, <1>3, <1>4, DeleteIs
    <2>2. Is(buf', A ++ L ++ C, B, Changed, Size(A), Size(A) + 1, Size(A) + 1 + Size(L))
      BY <1>3, <1>4, <2>1, AppendIs
    <2>3. PICK p2, q2 : p2 = Size(A) + 1 /\ q2 = p2 + Size(L)
      OBVIOUS
    <2> QED
      BY <1>4, <2>2, <2>3, ReplaceStep
  <1>5. CASE ~FIXUNDO
    <2>1. Is(b, A ++ C, R, k, u, p, q - Size(B))
      BY <1>1, <1>3, <1>5, DeleteInGlobal
    <2>2. Is(buf', A ++ L ++ C, R, k, u, p, q - Size(B) + Size(L))
      BY <1>3, <1>5, <2>1, AppendIs
    <2>3. q - Size(B) + Size(L) = q + (Size(L) - Size(B))
      BY <1>2
    <2> QED
      BY <1>5, <2>2, <2>3, ReplaceStep
  <1> QED
    BY <1>4, <1>5

\* substitute and shift.
LEMMA SubstituteStep ==
    ASSUME NEW A \in Lines, NEW B \in Lines, NEW C \in Lines, NEW L \in Lines,
           NEW R, NEW k, NEW u, NEW p, NEW q, Start(A ++ B ++ C, R, k, u, p, q), Remembers,
           NEW a1 \in Int, NEW a2, a1 = Size(A) + 1, a2 = Size(A) + Size(B),
           NEW b, b = IF FIXUNDO THEN [save(buf, a1, a2) EXCEPT !.undkind = Changed] ELSE buf,
           buf' = Replaced(b, a1, a2, L)
    PROVE  Done
  <1>1. Is(buf, A ++ B ++ C, R, k, u, p, q)
    BY DEF Start
  <1>2. Size(A) \in Nat /\ Size(B) \in Nat /\ Size(L) \in Nat /\ p \in Int /\ q \in Int
    BY <1>1, LineLen, IsTyped
  <1>3. CASE FIXUNDO
    <2>1. PICK s : s = save(buf, a1, a2)
      OBVIOUS
    <2>2. Is(s, A ++ B ++ C, B, All, Size(A), Size(A) + 1, Size(A) + Size(B) + 1)
      BY <1>1, <2>1, SaveIs
    <2>3. Is(b, A ++ B ++ C, B, Changed, Size(A), Size(A) + 1, Size(A) + Size(B) + 1)
      BY <1>3, <2>1, <2>2, SetKind, KindsDiffer
    <2>4. Is(buf', A ++ L ++ C, B, Changed, Size(A), Size(A) + 1, Size(A) + Size(B) + 1 + (Size(L) - Size(B)))
      BY <2>3, ReplacedIs
    <2>5. Size(A) + Size(B) + 1 + (Size(L) - Size(B)) = Size(A) + 1 + Size(L)
      BY <1>2
    <2> QED
      BY <1>3, <2>4, <2>5, ReplaceStep
  <1>4. CASE ~FIXUNDO
    <2>1. Is(buf', A ++ L ++ C, R, k, u, p, q + (Size(L) - Size(B)))
      BY <1>1, <1>4, ReplacedIs
    <2> QED
      BY <1>4, <2>1, ReplaceStep
  <1> QED
    BY <1>3, <1>4

\* copy.
LEMMA CopyStep ==
    ASSUME NEW A \in Lines, NEW B \in Lines, NEW C \in Lines, NEW P \in Lines, NEW Q \in Lines,
           A ++ B ++ C = P ++ Q, B # <<>>,
           NEW R, NEW k, NEW u, NEW p, NEW q, Start(P ++ Q, R, k, u, p, q), Remembers,
           NEW a1 \in Int, NEW a2 \in Int, a1 = Size(A) + 1, a2 = Size(A) + Size(B), NEW adt, adt = Size(P),
           buf' = CopyLines(buf, a1, a2, adt)
    PROVE  Done
  <1>1. Is(buf, P ++ Q, R, k, u, p, q) /\ R \in Lines
    BY IsTyped DEF Start
  <1>2. Size(A) \in Nat /\ Size(B) \in Nat /\ Size(P) \in Nat /\ p \in Int /\ q \in Int
    BY <1>1, LineLen, IsTyped
  <1>3. PICK E \in Lines : E = <<>> /\ P ++ E ++ Q = P ++ Q /\ Size(E) = 0 /\ E = Empty
    BY NoLines DEF Empty
  <1>4. B = Part(buf.core, a1, a2) /\ a2 + 1 - a1 = Size(B)
    <2>1. buf.core = A ++ B ++ C ++ R
      BY <1>1 DEF Is
    <2>2. C ++ R \in Lines /\ A ++ B ++ C ++ R = A ++ B ++ (C ++ R)
      <3>1. C ++ R \in Lines
        BY <1>1, Joined
      <3>2. A ++ B ++ C ++ R = A ++ B ++ (C ++ R)
        BY <1>1, Assoc4
      <3> QED
        BY <3>1, <3>2
    <2>3. Mid(buf.core, Size(A), Size(A) + Size(B)) = B
      BY <2>1, <2>2, Cut3
    <2> QED
      BY <1>2, <2>3, PartIsMid
  <1>5. Text = P ++ Q /\ Text = A ++ B ++ C /\ Size(B) # 0
    BY <1>1, TextIs, TextAndArea, NoLines
  <1>6. CASE FIXUNDO
    <2>1. Is(buf', P ++ B ++ Q, E, Changed, a1, Size(P) + 1, Size(P) + 1 + Size(B))
      BY <1>1, <1>3, <1>4, <1>6, CopyIs
    <2>2. PICK p2, q2 : p2 = Size(P) + 1 /\ q2 = p2 + Size(B)
      OBVIOUS
    <2>3. GoodState(buf', inglobal', before')
      BY <1>3, <1>6, <2>1, <2>2, ChangeKeeps DEF Start, Remembers
    <2>4. Text' = P ++ B ++ Q /\ Buffer!Command(Empty)
      BY <1>1, <1>3, <1>6, <2>1, TextIs, TextAndArea, CommandIs DEF FIXUNDO
    <2>5. Buffer!Next
      BY <1>5, <2>4, CopyMaps
    <2> QED
      BY <2>3, <2>5 DEF Done
  <1>7. CASE ~FIXUNDO
    <2>1. Is(buf', P ++ B ++ Q, R, k, u, p, q + Size(B))
      BY <1>1, <1>4, <1>7, CopyIs
    <2>2. q + Size(B) = q + (Size(B) - Size(E))
      BY <1>2, <1>3
    <2>3. GoodState(buf', inglobal', before')
      BY <1>3, <1>7, <2>1, <2>2, ChangeKeeps DEF Start, Remembers
    <2>4. Text' = P ++ B ++ Q /\ Buffer!Command(Empty)
      BY <1>1, <1>7, <2>1, TextIs, TextAndArea, CommandIs DEF FIXUNDO
    <2>5. Buffer!Next
      BY <1>5, <2>4, CopyMaps
    <2> QED
      BY <2>3, <2>5 DEF Done
  <1> QED
    BY <1>6, <1>7

\* put.
LEMMA PutStep ==
    ASSUME NEW P \in Lines, NEW Q \in Lines, FIXUNDO,
           NEW R, NEW k, NEW u, NEW p, NEW q, Start(P ++ Q, R, k, u, p, q), Remembers,
           NEW a, a = Size(P), NEW b, b = append(buf, a, Area), buf' = [b EXCEPT !.undkind = PutBack]
    PROVE  Done
  <1>1. Is(buf, P ++ Q, R, k, u, p, q) /\ R \in Lines
    BY IsTyped DEF Start
  <1>2. Text = P ++ Q /\ Area = R
    BY <1>1, TextIs, TextAndArea
  <1>3. PICK E \in Lines : E = <<>> /\ P ++ E ++ Q = P ++ Q
    BY NoLines
  <1>4. Is(b, P ++ R ++ Q, R, Changed, u, Size(P) + 1, Size(P) + 1 + Size(R))
    BY <1>1, <1>2, AppendIs
  <1>5. Is(buf', P ++ R ++ Q, R, PutBack, u, Size(P) + 1, Size(P) + 1 + Size(R))
    BY <1>4, SetKind, KindsDiffer
  <1>6. PICK p2, q2 : p2 = Size(P) + 1 /\ q2 = p2 + Size(R)
    OBVIOUS
  <1>7. GoodState(buf', inglobal', before')
    BY <1>1, <1>3, <1>5, <1>6, ChangeKeeps DEF Start, Remembers
  <1>8. Text' = P ++ Area ++ Q /\ Area' = Area
    BY <1>2, <1>5, TextIs, TextAndArea
  <1>9. Buffer!Next
    BY <1>2, <1>8, PutMaps DEF Remembers, FIXUNDO
  <1> QED
    BY <1>7, <1>9 DEF Done

\* yank.
LEMMA YankStep ==
    ASSUME NEW A \in Lines, NEW B \in Lines, NEW C \in Lines, B # <<>>, FIXUNDO,
           NEW R, NEW k, NEW u, NEW p, NEW q, Start(A ++ B ++ C, R, k, u, p, q),
           NEW a1 \in Int, NEW a2, a1 = Size(A) + 1, a2 = Size(A) + Size(B),
           NEW b, b = save(buf, a1, a2), buf' = [b EXCEPT !.undkind = None],
           before' = {}, inglobal' = inglobal
    PROVE  Done
  <1>1. Is(buf, A ++ B ++ C, R, k, u, p, q)
    BY DEF Start
  <1>2. Is(b, A ++ B ++ C, B, All, Size(A), Size(A) + 1, Size(A) + Size(B) + 1)
    BY <1>1, SaveIs
  <1>3. PICK u2, p2, q2 : Is(buf', A ++ B ++ C, B, None, u2, p2, q2)
    BY <1>2, SetKind, KindsDiffer
  <1>4. Good(A ++ B ++ C, B, None, u2, p2, q2, inglobal', before')
    BY DEF Good, FIXUNDO
  <1>5. GoodState(buf', inglobal', before')
    BY <1>3, <1>4 DEF GoodState, Start
  <1>6. Text = A ++ B ++ C /\ Text' = Text /\ Area' = B
    BY <1>1, <1>3, TextIs, TextAndArea
  <1>7. Buffer!Next
    BY <1>6, YankMaps DEF FIXUNDO
  <1> QED
    BY <1>5, <1>7 DEF Done

\* A move keeps the invariant.
LEMMA MoveKeeps ==
    ASSUME NEW A \in Lines, NEW B \in Lines, NEW C \in Lines, NEW D \in Lines,
           NEW R, NEW k, NEW u, NEW p, NEW q, Start(A ++ B ++ C ++ D, R, k, u, p, q), Remembers,
           NEW a1, NEW a2, NEW adt,
           FIXUNDO => /\ B # <<>> /\ C # <<>>
                      /\ Is(buf', A ++ C ++ B ++ D, <<>>, Moved, adt, a1, a2)
                      /\ \/ /\ a1 = Size(A) + 1 /\ a2 = Size(A) + Size(B)
                            /\ adt = Size(A) + Size(B) + Size(C)
                         \/ /\ a1 = Size(A) + Size(B) + 1 /\ a2 = Size(A) + Size(B) + Size(C)
                            /\ adt = Size(A),
           ~FIXUNDO => Is(buf', A ++ C ++ B ++ D, R, k, u, p, q)
    PROVE  /\ GoodState(buf', inglobal', before') /\ Buffer!Command(Empty)
           /\ Text = A ++ B ++ C ++ D /\ Text' = A ++ C ++ B ++ D
  <1>1. Is(buf, A ++ B ++ C ++ D, R, k, u, p, q) /\ Text = A ++ B ++ C ++ D
    BY TextIs, TextAndArea DEF Start
  <1>2. CASE FIXUNDO
    <2>1. MovedFrom(A ++ C ++ B ++ D, adt, a1, a2, before')
      BY <1>1, <1>2 DEF MovedFrom, Remembers
    <2>2. Good(A ++ C ++ B ++ D, <<>>, Moved, adt, a1, a2, inglobal', before')
      BY <1>2, <2>1 DEF Good, FIXUNDO, Remembers
    <2>3. GoodState(buf', inglobal', before')
      BY <1>2, <2>2 DEF GoodState, Start, Remembers
    <2>4. PICK E : E = <<>> /\ E = Empty /\ Is(buf', A ++ C ++ B ++ D, E, Moved, adt, a1, a2)
      BY <1>2 DEF Empty
    <2>5. Text' = A ++ C ++ B ++ D /\ Buffer!Command(Empty)
      BY <1>1, <1>2, <2>4, TextIs, TextAndArea, CommandIs DEF FIXUNDO
    <2> QED
      BY <1>1, <2>3, <2>5
  <1>3. CASE ~FIXUNDO
    <2>1. Text' = A ++ C ++ B ++ D /\ Buffer!Command(Empty)
      BY <1>1, <1>3, TextIs, TextAndArea, CommandIs DEF FIXUNDO
    <2>2. Size(A ++ C ++ B ++ D) = Size(A ++ B ++ C ++ D)
      <3>1. A ++ C \in Lines /\ A ++ B \in Lines
        BY Joined
      <3>2. A ++ C ++ B \in Lines /\ A ++ B ++ C \in Lines
        BY <3>1, Joined
      <3>3. /\ Size(A ++ C ++ B ++ D) = Size(A) + Size(C) + Size(B) + Size(D)
            /\ Size(A ++ B ++ C ++ D) = Size(A) + Size(B) + Size(C) + Size(D)
        BY <3>1, <3>2, Joined
      <3> QED
        BY <3>3, LineLen
    <2>3. Good(A ++ C ++ B ++ D, R, k, u, p, q, inglobal', before')
      BY <1>3, <2>2 DEF Good, FIXUNDO, Start, Remembers
    <2>4. GoodState(buf', inglobal', before')
      BY <1>3, <2>3 DEF GoodState, Start, Remembers
    <2> QED
      BY <1>1, <2>1, <2>4
  <1> QED
    BY <1>2, <1>3

\* A move up is a step of the buffer.
LEMMA MoveUpStep ==
    ASSUME NEW A \in Lines, NEW B \in Lines, NEW C \in Lines, NEW D \in Lines, C # <<>>, FIXUNDO => B # <<>>,
           NEW R, NEW k, NEW u, NEW p, NEW q, Start(A ++ B ++ C ++ D, R, k, u, p, q), Remembers,
           NEW a1, NEW a2, NEW adt,
           adt = Size(A), a1 = Size(A) + Size(B) + 1, a2 = Size(A) + Size(B) + Size(C),
           buf' = MoveLines(buf, a1, a2, adt)
    PROVE  Done
  <1>1. Is(buf, A ++ B ++ C ++ D, R, k, u, p, q)
    BY DEF Start
  <1>2. /\ FIXUNDO => Is(buf', A ++ C ++ B ++ D, <<>>, Moved, adt, a1, a2)
        /\ ~FIXUNDO => Is(buf', A ++ C ++ B ++ D, R, k, u, p, q)
    BY <1>1, MoveUpIs
  <1>3. /\ GoodState(buf', inglobal', before') /\ Buffer!Command(Empty)
        /\ Text = A ++ B ++ C ++ D /\ Text' = A ++ C ++ B ++ D
    BY <1>2, MoveKeeps
  <1>4. Buffer!Next
    BY <1>3, MoveUpMaps, NoLines
  <1> QED
    BY <1>3, <1>4 DEF Done

\* A move down.
LEMMA MoveDownStep ==
    ASSUME NEW A \in Lines, NEW B \in Lines, NEW C \in Lines, NEW D \in Lines, B # <<>>, C # <<>>,
           NEW R, NEW k, NEW u, NEW p, NEW q, Start(A ++ B ++ C ++ D, R, k, u, p, q), Remembers,
           NEW a1, NEW a2, NEW adt,
           a1 = Size(A) + 1, a2 = Size(A) + Size(B), adt = Size(A) + Size(B) + Size(C),
           buf' = MoveLines(buf, a1, a2, adt)
    PROVE  Done
  <1>1. Is(buf, A ++ B ++ C ++ D, R, k, u, p, q)
    BY DEF Start
  <1>2. /\ FIXUNDO => Is(buf', A ++ C ++ B ++ D, <<>>, Moved, adt, a1, a2)
        /\ ~FIXUNDO => Is(buf', A ++ C ++ B ++ D, R, k, u, p, q)
    BY <1>1, MoveDownIs
  <1>3. /\ GoodState(buf', inglobal', before') /\ Buffer!Command(Empty)
        /\ Text = A ++ B ++ C ++ D /\ Text' = A ++ C ++ B ++ D
    BY <1>2, MoveKeeps
  <1>4. Buffer!Next
    BY <1>3, MoveDownMaps, NoLines
  <1> QED
    BY <1>3, <1>4 DEF Done

\* The start of a global command saves the text.
LEMMA GlobalBeginsStep ==
    ASSUME NEW T, NEW R, NEW k, NEW u, NEW p, NEW q, Start(T, R, k, u, p, q), GlobalBegins
    PROVE  Done
  <1>1. Is(buf, T, R, k, u, p, q) /\ T \in Lines /\ buf.dol = Size(T)
    BY DEF Start, Is
  <1>2. PICK E \in Lines : E = <<>> /\ Size(E) = 0 /\ E ++ T ++ E = T
    BY <1>1, NoLines
  <1>3. PICK n \in Nat : n = Size(T)
    BY <1>1, LineLen
  <1>4. Is(buf', T, T, All, 0, 1, n + 1)
    <2>1. Is(save(buf, Size(E) + 1, Size(E) + Size(T)), T, T, All, Size(E), Size(E) + 1, Size(E) + Size(T) + 1)
      BY <1>1, <1>2, SaveIs
    <2>2. Size(E) + 1 = 1 /\ Size(E) + Size(T) = n
      BY <1>2, <1>3
    <2>3. buf' = save(buf, 1, n)
      BY <1>1, <1>3 DEF GlobalBegins
    <2> QED
      BY <1>2, <2>1, <2>2, <2>3
  <1>5. Text = T /\ Text' = T /\ Area' = T
    BY <1>1, <1>4, TextIs, TextAndArea
  <1>6. inglobal' = TRUE /\ before' = {T} /\ ~inglobal
    BY <1>5 DEF GlobalBegins
  <1>7. Good(T, T, All, 0, 1, n + 1, inglobal', before')
    BY <1>3, <1>6 DEF Good
  <1>8. GoodState(buf', inglobal', before')
    BY <1>4, <1>6, <1>7 DEF GoodState
  <1>9. Buffer!GlobalBegins
    BY <1>5, <1>6 DEF Buffer!GlobalBegins
  <1> QED
    BY <1>8, <1>9 DEF Done, Buffer!Next

\* At its end, the saved text is what undo shall bring back.
LEMMA GlobalEndsStep ==
    ASSUME NEW T, NEW R, NEW k, NEW u, NEW p, NEW q, Start(T, R, k, u, p, q), GlobalEnds
    PROVE  Done
  <1>1. Is(buf, T, R, k, u, p, q) /\ T \in Lines /\ R \in Lines
    BY DEF Start, Is
  <1>2. inglobal /\ inglobal' = FALSE /\ buf' = buf /\ before' = before
    BY DEF GlobalEnds
  <1>3. k = All /\ u = 0 /\ p = 1 /\ q = Size(T) + 1 /\ before = {R}
    BY <1>2 DEF Start, Good
  <1>4. PICK E \in Lines : /\ E = <<>> /\ Size(E) = 0 /\ E ++ E = E
                           /\ E ++ T = T /\ T ++ E = T /\ E ++ R = R /\ R ++ E = R
    BY <1>1, NoLines
  <1>5. PICK n \in Nat : n = Size(T)
    BY <1>1, LineLen
  <1>6. All # PutBack /\ Under(0, 1, n) = 0 /\ 1 + n = n + 1
    BY KindsDiffer DEF Under
  <1>7. /\ T = E ++ T ++ E /\ E ++ E = E ++ E /\ q = p + Size(T) /\ p = Size(E) + 1
        /\ before' = {E ++ R ++ E} /\ Under(u, p, Size(T)) = Size(E) /\ k # PutBack /\ E ++ E = <<>>
    BY <1>2, <1>3, <1>4, <1>5, <1>6
  <1>8. ChangedFrom(T, R, k, u, p, q, before')
    BY <1>1, <1>7 DEF ChangedFrom
  <1>9. Good(T, R, k, u, p, q, inglobal', before')
    BY <1>2, <1>3, <1>8 DEF Good
  <1>10. GoodState(buf', inglobal', before')
    BY <1>1, <1>2, <1>9 DEF GoodState
  <1>11. Text' = Text /\ Area' = Area
    BY <1>2, TextAndArea
  <1>12. Buffer!GlobalEnds
    BY <1>2, <1>11 DEF Buffer!GlobalEnds
  <1> QED
    BY <1>10, <1>12 DEF Done, Buffer!Next

\* undo.
LEMMA UndoStep ==
    ASSUME NEW T, NEW R, NEW k, NEW u, NEW p, NEW q, Start(T, R, k, u, p, q), Undo
    PROVE  Done
  <1>1. Is(buf, T, R, k, u, p, q) /\ T \in Lines /\ R \in Lines /\ buf.undkind = k
    BY DEF Start, Is
  <1>2. /\ ~inglobal /\ inglobal \in BOOLEAN /\ inglobal' = inglobal /\ before' = {Text}
        /\ buf' = IF k = Moved THEN UndoMove(buf) ELSE UndoChange(buf)
    BY <1>1 DEF Undo, Does, FIXUNDO, Start, Moved
  <1>3. SUFFICES /\ TextOf(buf') \in before /\ AreaOf(buf') \in Lines
                 /\ GoodState(buf', inglobal', before')
    <2>1. Buffer!Undo
      BY <1>2, <1>3, TextAndArea DEF Buffer!Undo, Lines
    <2> QED
      BY <1>3, <2>1 DEF Done, Buffer!Next
  <1>4. k # None
    BY <1>1 DEF Undo, SomeChange, None
  <1>5. CASE k = Moved /\ MovedFrom(T, u, p, q, before)
    BY <1>1, <1>2, <1>5, UndoMoveKeeps
  <1>6. CASE k \in {Changed, PutBack, All} /\ ChangedFrom(T, R, k, u, p, q, before)
    <2>1. buf' = UndoChange(buf)
      BY <1>2, <1>6, KindsDiffer
    <2>2. PICK A \in Lines, N \in Lines, Z \in Lines, C \in Lines, D \in Lines :
            /\ T = A ++ N ++ Z /\ A ++ Z = C ++ D
            /\ q = p + Size(N)
            /\ N # <<>> => p = Size(A) + 1
            /\ k = PutBack => before = {A ++ Z}
            /\ k # PutBack => before = {C ++ R ++ D} /\ (R # <<>> => Under(u, p, Size(N)) = Size(C))
            /\ k = All => A ++ Z = <<>>
      BY <1>6 DEF ChangedFrom
    <2>3. Is(buf, A ++ N ++ Z, R, k, u, p, q)
      BY <1>1, <2>2
    <2>4. CASE k = PutBack
      <3>1. TextOf(buf') = A ++ Z /\ AreaOf(buf') \in Lines /\ GoodState(buf', inglobal', before')
        BY <1>2, <2>1, <2>2, <2>3, <2>4, UndoPutKeeps
      <3> QED
        BY <2>2, <2>4, <3>1
    <2>5. CASE k # PutBack
      <3>1. k \in {Changed, All}
        BY <1>6, <2>5
      <3>2. TextOf(buf') = C ++ R ++ D /\ AreaOf(buf') \in Lines /\ GoodState(buf', inglobal', before')
        <4>1. /\ q = p + Size(N)
              /\ N # <<>> => p = Size(A) + 1
              /\ A ++ Z = C ++ D
              /\ R # <<>> => Under(u, p, Size(N)) = Size(C)
              /\ k = All => A ++ Z = <<>>
          BY <2>2, <2>5
        <4> QED
          BY <1>2, <2>1, <2>3, <3>1, <4>1, UndoChangeKeeps
      <3> QED
        BY <2>2, <2>5, <3>2
    <2> QED
      BY <2>4, <2>5
  <1> QED
    BY <1>2, <1>4, <1>5, <1>6 DEF Start, Good

\* What Does says.
LEMMA DoesIs == ASSUME NEW b, Does(b) PROVE buf' = b /\ Remembers
  BY DEF Does, Remembers

\* The lines a command names, with what is before them and behind them.
LEMMA NamedLines ==
    ASSUME NEW T \in Lines, NEW a1 \in Int, NEW a2 \in Int, 0 < a1, a1 <= a2, a2 <= Size(T)
    PROVE  \E A, B, C \in Lines :
             T = A ++ B ++ C /\ B # <<>> /\ a1 = Size(A) + 1 /\ a2 = Size(A) + Size(B) /\ Size(A) = a1 - 1
  <1>1. PICK a \in Nat : a = a1 - 1 /\ a <= a2 /\ a2 \in Nat /\ a1 = a + 1 /\ a2 - a # 0
    OBVIOUS
  <1>2. PICK A \in Lines, B \in Lines, C \in Lines :
          T = A ++ B ++ C /\ Size(A) = a /\ Size(B) = a2 - a /\ Size(A) + Size(B) = a2
    BY <1>1, Split3
  <1>3. B # <<>>
    BY <1>1, <1>2, NoLines
  <1>4. a1 = Size(A) + 1 /\ Size(A) = a1 - 1
    BY <1>1, <1>2
  <1>5. a2 = Size(A) + Size(B)
    BY <1>2
  <1> WITNESS A \in Lines, B \in Lines, C \in Lines
  <1> QED
    BY <1>2, <1>3, <1>4, <1>5

\* move, up or down.
LEMMA MoveStep ==
    ASSUME NEW T \in Lines, NEW R, NEW k, NEW u, NEW p, NEW q, Start(T, R, k, u, p, q), Size(T) \in Nat,
           NEW a1 \in Nat, NEW a2 \in Nat, NEW adt \in Nat, a1 <= a2, a2 <= Size(T), adt <= Size(T),
           Move(a1, a2, adt)
    PROVE  Done
  <1>1. /\ a1 > 0 /\ adt \notin a1..a2 /\ (FIXUNDO => adt + 1 # a1)
        /\ buf' = MoveLines(buf, a1, a2, adt) /\ Remembers
    BY DoesIs DEF Move
  <1>2. PICK l \in Nat : l = Size(T)
    OBVIOUS
  <1>3. CASE adt < a1
    <2>1. PICK a \in Nat : a = a1 - 1 /\ adt <= a /\ a <= a2 /\ a2 <= l /\ a1 = a + 1
      BY <1>1, <1>2, <1>3
    <2>2. T = First(T, adt) ++ Mid(T, adt, a) ++ Mid(T, a, a2) ++ Rest(T, a2)
      BY <1>2, <2>1, Glue4
    <2>3. PICK A \in Lines, B \in Lines, C \in Lines, D \in Lines :
            /\ T = A ++ B ++ C ++ D /\ Size(A) = adt /\ Size(B) = a - adt /\ Size(C) = a2 - a
      <3>1. First(T, adt) \in Lines /\ Size(First(T, adt)) = adt
        BY <1>2, FirstIs
      <3>2. Mid(T, adt, a) \in Lines /\ Size(Mid(T, adt, a)) = a - adt
        BY <1>2, <2>1, MidIs
      <3>3. Mid(T, a, a2) \in Lines /\ Size(Mid(T, a, a2)) = a2 - a
        BY <1>2, <2>1, MidIs
      <3>4. Rest(T, a2) \in Lines
        BY <1>2, RestIs
      <3> QED
        BY <2>2, <3>1, <3>2, <3>3, <3>4
    <2>4. C # <<>> /\ (FIXUNDO => B # <<>>)
      <3>1. a2 - a # 0 /\ (FIXUNDO => a - adt # 0)
        BY <1>1, <2>1
      <3> QED
        BY <2>3, <3>1, NoLines
    <2>5. a1 = Size(A) + Size(B) + 1 /\ a2 = Size(A) + Size(B) + Size(C)
      BY <2>1, <2>3
    <2> QED
      BY <1>1, <2>3, <2>4, <2>5, MoveUpStep
  <1>4. CASE a2 < adt
    <2>1. PICK a \in Nat : a = a1 - 1 /\ a <= a2 /\ a2 <= adt /\ adt <= l /\ a1 = a + 1
      BY <1>1, <1>2, <1>4
    <2>2. T = First(T, a) ++ Mid(T, a, a2) ++ Mid(T, a2, adt) ++ Rest(T, adt)
      BY <1>2, <2>1, Glue4
    <2>3. PICK A \in Lines, B \in Lines, C \in Lines, D \in Lines :
            /\ T = A ++ B ++ C ++ D /\ Size(A) = a /\ Size(B) = a2 - a /\ Size(C) = adt - a2
      <3>1. First(T, a) \in Lines /\ Size(First(T, a)) = a
        <4>1. a <= Size(T)
          BY <1>2, <2>1
        <4> QED
          BY <4>1, FirstIs
      <3>2. Mid(T, a, a2) \in Lines /\ Size(Mid(T, a, a2)) = a2 - a
        BY <1>2, <2>1, MidIs
      <3>3. Mid(T, a2, adt) \in Lines /\ Size(Mid(T, a2, adt)) = adt - a2
        BY <1>2, <2>1, MidIs
      <3>4. Rest(T, adt) \in Lines
        BY <1>2, RestIs
      <3> QED
        BY <2>2, <3>1, <3>2, <3>3, <3>4
    <2>4. C # <<>> /\ B # <<>>
      <3>1. a2 - a # 0 /\ adt - a2 # 0
        BY <1>4, <2>1
      <3> QED
        BY <2>3, <3>1, NoLines
    <2>5. a1 = Size(A) + 1 /\ a2 = Size(A) + Size(B) /\ adt = Size(A) + Size(B) + Size(C)
      BY <2>1, <2>3
    <2> QED
      BY <1>1, <2>3, <2>4, <2>5, MoveDownStep
  <1> QED
    BY <1>1, <1>3, <1>4

\* Every step.
LEMMA NextStep == ASSUME UndoInv, Next PROVE Done
  <1>1. PICK T, R, k, u, p, q : Start(T, R, k, u, p, q)
    BY DEF UndoInv, GoodState, Start
  <1>2. Is(buf, T, R, k, u, p, q) /\ T \in Lines /\ R \in Lines /\ buf.dol = Size(T)
    BY <1>1 DEF Start, Is
  <1>3. PICK l \in Nat : l = Size(T) /\ buf.dol = l
    BY <1>2, LineLen
  <1>4. CASE GlobalBegins
    BY <1>1, <1>4, GlobalBeginsStep
  <1>5. CASE GlobalEnds
    BY <1>1, <1>5, GlobalEndsStep
  <1>6. CASE Undo
    BY <1>1, <1>6, UndoStep
  <1>7. ASSUME NEW a1 \in 0..l, NEW a2 \in 0..l, NEW adt \in 0..l, a1 <= a2,
               \/ Delete(a1, a2) \/ yank(a1, a2) \/ put(a2)
               \/ Move(a1, a2, adt) \/ Copy(a1, a2, adt)
               \/ \E lines \in Input : \/ AppendLines(a1, a2, lines) \/ Insert(a1, a2, lines)
                                       \/ Change(a1, a2, lines) \/ Substitute(a1, a2, lines)
        PROVE  Done
    <2>1. /\ a1 \in Nat /\ a2 \in Nat /\ adt \in Nat /\ a2 <= l /\ adt <= l
          /\ a1 \in Int /\ a2 \in Int /\ adt \in Int /\ a1 <= a2
      BY <1>7
    <2>2. a1 > 0 => \E A, B, C \in Lines :
             T = A ++ B ++ C /\ B # <<>> /\ a1 = Size(A) + 1 /\ a2 = Size(A) + Size(B) /\ Size(A) = a1 - 1
      <3>1. ASSUME a1 > 0
            PROVE  \E A, B, C \in Lines :
                     /\ T = A ++ B ++ C /\ B # <<>>
                     /\ a1 = Size(A) + 1 /\ a2 = Size(A) + Size(B) /\ Size(A) = a1 - 1
        <4>1. 0 < a1 /\ a2 <= Size(T)
          BY <1>3, <2>1, <3>1
        <4>2. PICK A \in Lines, B \in Lines, C \in Lines :
                /\ T = A ++ B ++ C /\ B # <<>> /\ a1 = Size(A) + 1
                /\ a2 = Size(A) + Size(B) /\ Size(A) = a1 - 1
          <5>1. T \in Lines
            BY <1>2
          <5> QED
            BY <2>1, <4>1, <5>1, NamedLines
        <4> QED
          BY <4>2
      <3> QED
        BY <3>1
    <2>3. CASE Delete(a1, a2)
      <3>1. a1 > 0 /\ buf' = appendnone(ex_delete(buf, a1, a2), a1) /\ Remembers
        BY <2>3, DoesIs DEF Delete
      <3> QED
        BY <1>1, <2>1, <2>2, <3>1, DeleteStep
    <2>4. CASE yank(a1, a2)
      <3>1. /\ a1 > 0 /\ FIXUNDO /\ buf' = [save(buf, a1, a2) EXCEPT !.undkind = None]
            /\ before' = {} /\ inglobal' = inglobal
        BY <2>4 DEF yank, None
      <3> QED
        BY <1>1, <2>1, <2>2, <3>1, YankStep
    <2>5. CASE put(a2)
      <3>1. FIXUNDO /\ buf' = [append(buf, a2, Area) EXCEPT !.undkind = PutBack] /\ Remembers
        BY <2>5, DoesIs DEF put, PutBack
      <3>2. PICK P \in Lines, Q \in Lines : T = P ++ Q /\ Size(P) = a2
        BY <1>2, <1>3, <2>1, Split2
      <3> QED
        BY <1>1, <3>1, <3>2, PutStep
    <2>6. CASE Move(a1, a2, adt)
      BY <1>1, <1>2, <1>3, <1>7, <2>1, <2>6, MoveStep
    <2>7. CASE Copy(a1, a2, adt)
      <3>1. a1 > 0 /\ buf' = CopyLines(buf, a1, a2, adt) /\ Remembers
        BY <2>7, DoesIs DEF Copy
      <3>2. PICK P \in Lines, Q \in Lines : T = P ++ Q /\ Size(P) = adt
        BY <1>2, <1>3, <2>1, Split2
      <3> QED
        BY <1>1, <2>1, <2>2, <3>1, <3>2, CopyStep
    <2>8. ASSUME NEW L \in Input, AppendLines(a1, a2, L) PROVE Done
      <3>1. buf' = append(deletenone(buf, a1), a2, L) /\ Remembers /\ L \in Lines
        BY <2>8, DoesIs, InputIs DEF AppendLines
      <3>2. PICK P \in Lines, Q \in Lines : T = P ++ Q /\ Size(P) = a2
        BY <1>2, <1>3, <2>1, Split2
      <3> QED
        BY <1>1, <2>1, <3>1, <3>2, AppendStep
    <2>9. ASSUME NEW L \in Input, Insert(a1, a2, L) PROVE Done
      <3>1. a1 > 0 /\ buf' = append(deletenone(buf, a1), a2 - 1, L) /\ Remembers /\ L \in Lines
        BY <2>9, DoesIs, InputIs DEF Insert
      <3>2. PICK a \in Nat : a = a2 - 1 /\ a <= l
        BY <1>7, <2>1, <3>1
      <3>3. PICK P \in Lines, Q \in Lines : T = P ++ Q /\ Size(P) = a
        BY <1>2, <1>3, <3>2, Split2
      <3> QED
        BY <1>1, <2>1, <3>1, <3>2, <3>3, AppendStep
    <2>10. ASSUME NEW L \in Input, Change(a1, a2, L) PROVE Done
      <3>1. a1 > 0 /\ buf' = append(ex_delete(buf, a1, a2), a1 - 1, L) /\ Remembers /\ L \in Lines
        BY <2>10, DoesIs, InputIs DEF Change
      <3> QED
        BY <1>1, <2>1, <2>2, <3>1, ChangeStep
    <2>11. ASSUME NEW L \in Input, Substitute(a1, a2, L) PROVE Done
      <3>1. PICK b : b = IF FIXUNDO THEN [save(buf, a1, a2) EXCEPT !.undkind = Changed] ELSE buf
        OBVIOUS
      <3>2. a1 > 0 /\ buf' = Replaced(b, a1, a2, L) /\ Remembers /\ L \in Lines
        <4>1. b = IF FIXUNDO THEN [save(buf, a1, a2) EXCEPT !.undkind = "change"] ELSE buf
          BY <3>1 DEF Changed
        <4>2. /\ a1 > 0
              /\ Does([b EXCEPT !.core = SubSeq(@, 1, a1 - 1) \o L \o SubSeq(@, a2 + 1, Len(@)),
                                !.dol = @ + (Len(L) - (a2 + 1 - a1)),
                                !.undap2 = @ + (Len(L) - (a2 + 1 - a1))])
          BY <2>11, <4>1 DEF Substitute
        <4>3. Does(Replaced(b, a1, a2, L))
          BY <4>2 DEF Replaced, Part, ++, Size
        <4> QED
          BY <4>2, <4>3, DoesIs, InputIs
      <3> QED
        BY <1>1, <2>1, <2>2, <3>1, <3>2, SubstituteStep
    <2> QED
      BY <1>7, <2>3, <2>4, <2>5, <2>6, <2>7, <2>8, <2>9, <2>10, <2>11
  <1> QED
    BY <1>3, <1>4, <1>5, <1>6, <1>7 DEF Next

\* A step that changes nothing.
LEMMA StutterStep ==
    ASSUME UndoInv, UNCHANGED vars
    PROVE  UndoInv' /\ UNCHANGED Buffer!vars
  BY TextAndArea DEF UndoInv, vars, Buffer!vars

\* The empty buffer.
LEMMA InitGood == ASSUME Init PROVE UndoInv /\ Buffer!Init
  <1>1. PICK E \in Lines : E = <<>> /\ Size(E) = 0 /\ E ++ E = E
    <2>1. <<>> \in Lines
      BY EmptySeq DEF Lines
    <2> QED
      BY <2>1, NoLines
  <1>2. /\ buf.core = <<>> /\ buf.dol = 0 /\ buf.undkind = None
        /\ buf.unddel = 0 /\ buf.undap1 = 0 /\ buf.undap2 = 0 /\ buf \in Buf
        /\ inglobal = FALSE /\ before = {}
    BY <1>1, KindsDiffer DEF Init, None, Buf
  <1>3. Is(buf, E, E, None, 0, 0, 0)
    BY <1>1, <1>2 DEF Is
  <1>4. Good(E, E, None, 0, 0, 0, inglobal, before)
    BY <1>2 DEF Good
  <1>5. UndoInv
    BY <1>2, <1>3, <1>4 DEF UndoInv, GoodState
  <1>6. Text = <<>> /\ Area = <<>>
    BY <1>1, <1>3, TextIs, TextAndArea
  <1> QED
    BY <1>2, <1>5, <1>6 DEF Buffer!Init

\* The invariant.
LEMMA UndoInvAlways == Spec => []UndoInv
  <1>1. Init => UndoInv
    BY InitGood
  <1>2. UndoInv /\ [Next]_vars => UndoInv'
    BY NextStep, StutterStep DEF Done, UndoInv
  <1> QED
    BY <1>1, <1>2, PTL DEF Spec

\* Undo brings back the text before the last command and is its own inverse,
\* put brings what delete or yank took (ex.h:319-331).
THEOREM UndoIsBuffer == Spec => ImplementsBuffer
  <1>1. Init => Buffer!Init
    BY InitGood
  <1>2. UndoInv /\ [Next]_vars => [Buffer!Next]_Buffer!vars
    BY NextStep, StutterStep DEF Done
  <1> QED
    BY <1>1, <1>2, UndoInvAlways, PTL DEF Spec, ImplementsBuffer, Buffer!Spec

\* When the last command changed the text, undo does not refuse
\* (ex_cmdsub.c:1050).
THEOREM UndoAlwaysOffered == Spec => []UndoIsOffered
  <1>1. UndoInv => UndoIsOffered
    <2> SUFFICES ASSUME UndoInv, FIXUNDO, NEW t \in before, t # Text PROVE SomeChange
      BY DEF UndoIsOffered
    <2>1. PICK T, R, k, u, p, q : Is(buf, T, R, k, u, p, q) /\ Good(T, R, k, u, p, q, inglobal, before)
      BY DEF UndoInv, GoodState
    <2>2. /\ Text = T /\ Area = R /\ R \in Lines /\ T \in Lines
          /\ buf.undkind = k /\ buf.undap1 = p /\ buf.undap2 = q /\ p \in Int /\ buf.dol = Size(T)
          /\ buf.core = T ++ R
      BY <2>1, TextIs, TextAndArea, IsTyped DEF Is
    <2>3. CASE k = Moved
      BY <2>2, <2>3 DEF SomeChange, Moved
    <2>4. CASE k \in {Changed, PutBack, All} /\ ChangedFrom(T, R, k, u, p, q, before)
      <3>1. PICK A \in Lines, N \in Lines, Z \in Lines, C \in Lines, D \in Lines :
              /\ T = A ++ N ++ Z /\ A ++ Z = C ++ D
              /\ q = p + Size(N)
              /\ k = PutBack => before = {A ++ Z}
              /\ k # PutBack => before = {C ++ R ++ D}
              /\ k = All => A ++ Z = <<>>
        BY <2>4 DEF ChangedFrom
      <3>2. A ++ <<>> = A /\ C ++ <<>> = C
        BY NoLines
      <3>3. N = <<>> => p = q /\ T = A ++ Z
        BY <2>2, <3>1, <3>2, NoLines
      <3>4. N # <<>> => p # q
        <4>1. N # <<>> => Size(N) # 0 /\ Size(N) \in Nat
          BY NoLines, LineLen
        <4> QED
          BY <2>2, <3>1, <4>1
      <3>5. R # <<>> => Len(buf.core) # buf.dol
        <4>1. PICK m \in Nat, n \in Nat : m = Size(T) /\ n = Size(R) /\ Size(T ++ R) = m + n /\ (n = 0 <=> R = <<>>)
          <5>1. Size(T) \in Nat /\ Size(R) \in Nat /\ (Size(R) = 0 <=> R = <<>>)
            BY <2>2, LineLen, NoLines
          <5>2. Size(T ++ R) = Size(T) + Size(R)
            BY <2>2, Joined
          <5> QED
            BY <5>1, <5>2
        <4>2. R # <<>> => Size(buf.core) # buf.dol
          BY <2>2, <4>1
        <4> QED
          BY <4>2 DEF Size
      <3>6. CASE k = PutBack
        <4>1. p # q
          BY <2>2, <3>1, <3>3, <3>4, <3>6
        <4> QED
          BY <2>2, <3>6, <4>1 DEF SomeChange, PutBack
      <3>7. CASE k = Changed
        <4>1. k # PutBack
          BY <3>7, KindsDiffer
        <4>2. p # q \/ R # <<>>
          BY <2>2, <3>1, <3>2, <3>3, <3>4, <4>1
        <4>3. buf.undap1 # buf.undap2 \/ buf.dol # Len(buf.core)
          BY <2>2, <3>5, <4>2
        <4> QED
          BY <2>2, <3>7, <4>3 DEF SomeChange, Changed
      <3>8. CASE k = All
        <4>1. k # PutBack /\ C ++ D = <<>>
          BY <3>1, <3>8, KindsDiffer
        <4>2. C = <<>> /\ D = <<>>
          <5>1. PICK c \in Nat, d \in Nat : c = Size(C) /\ d = Size(D) /\ c + d = Size(C ++ D)
            BY Joined, LineLen
          <5>2. Size(C ++ D) = 0
            BY <4>1, NoLines
          <5> QED
            BY <5>1, <5>2, NoLines
        <4>3. C ++ R ++ D = R
          BY <2>2, <4>2, NoLines
        <4>4. Text # Area
          BY <2>2, <3>1, <4>1, <4>3
        <4> QED
          BY <2>2, <3>8, <4>4 DEF SomeChange, All
      <3> QED
        BY <2>4, <3>6, <3>7, <3>8
    <2> QED
      BY <2>1, <2>3, <2>4 DEF Good, FIXUNDO
  <1> QED
    BY <1>1, UndoInvAlways, PTL
=============================================================================
