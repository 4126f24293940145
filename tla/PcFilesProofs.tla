---------------------------- MODULE PcFilesProofs ----------------------------
(***************************************************************************)
(* Proofs about PcFiles, for every number of files, blocks, records and    *)
(* slots, in a memory where the stack lies above all global files.  There  *)
(* the order of the chain is an order of the addresses alone, and a prefix *)
(* of the chain is the files of the innermost block.                       *)
(***************************************************************************)
EXTENDS PcFilesRefine, SequenceTheorems, WellFoundedInduction, TLAPS

\* Every nonempty set of naturals has a smallest element.
LEMMA Smallest ==
    ASSUME NEW S \in SUBSET Nat, S # {}
    PROVE  \E x \in S : \A y \in S : x <= y
  <1> DEFINE less == { ss \in Nat \X Nat : ss[1] < ss[2] }
  <1>1. IsWellFoundedOn(less, Nat)
    BY NatLessThanWellFounded DEF OpToRel
  <1>2. \E x \in S : \A y \in S : ~(<<y, x>> \in less)
    <2> HIDE DEF less
    <2> QED BY <1>1, WFMin
  <1>3. PICK x \in S : \A y \in S : ~(<<y, x>> \in less)
    BY <1>2
  <1>4. ASSUME NEW y \in S
        PROVE  x <= y
    <2>1. x \in Nat /\ y \in Nat /\ ~(<<y, x>> \in less)
      BY <1>3
    <2>2. ~(y < x)
      BY <2>1
    <2> QED
      BY <2>1, <2>2
  <1> QED
    BY <1>4

\* The order of the chain, as an order on addresses.
Before(f, g) == \/ FileLevel(f) < FileLevel(g)
                \/ FileLevel(f) = FileLevel(g) /\ f < g

InOrder(c) == \A i, j \in 1..Len(c) : i < j => Before(c[i], c[j])
Nodes(c) == { c[i] : i \in 1..Len(c) }

FileRec == [fblk : Slot \cup {0}, flev : Nat, fbuf : {"null", "open", "closed"},
            fdef : BOOLEAN, temp : BOOLEAN, fname : {"", "given", "tmp"}]

Types == /\ run = 1
         /\ depth \in 1..MaxDepth
         /\ heap \subseteq Record
         /\ iorec \in [Files -> FileRec]
         /\ fchain \in Seq(Files)
         /\ actfile \in [Slot -> Files \cup {FILNIL}]
         /\ filefre \in PREDEF..MAXFILES
         /\ status \in {"running", "ended", "aborted"}

\* A slot points to a file that points back.
SlotsPointBack == \A s \in Slot : actfile[s] # FILNIL => iorec[actfile[s]].fblk = s

\* The chain is in the order of addresses, and its records hold their levels.
ChainInOrder == /\ InOrder(fchain)
                /\ \A f \in Nodes(fchain) : iorec[f].flev = FileLevel(f)

\* What the fields of one record have to do with each other.
RecordsAgree ==
    \A f \in Files : /\ iorec[f].fbuf = "open" => f \in Nodes(fchain) /\ ~iorec[f].fdef
                     /\ iorec[f].temp <=> iorec[f].fname = "tmp"
                     /\ iorec[f].fdef => ~iorec[f].temp

\* As long as no error stopped the program half way.
ListsAgree == /\ Nodes(fchain) = Active
              /\ Nodes(fchain) \subseteq Accessible
              /\ \A f \in Nodes(fchain) : iorec[f].fdef \/ iorec[f].fbuf = "open"
              /\ \A s \in disk : \E g \in Active : iorec[g].temp /\ iorec[g].fblk = s

FilesInv == /\ Types /\ SlotsPointBack /\ ChainInOrder /\ RecordsAgree
            /\ status # "aborted" => ListsAgree
-----------------------------------------------------------------------------
\* Addresses and levels are numbers, and FILNIL is no address.
LEMMA Addresses ==
    /\ GLVL \in Nat /\ CFrame \in Nat /\ MaxDepth \in Nat \ {0}
    /\ MAXFILES \in Nat /\ MAXFILES > PREDEF
    /\ \A f \in Files : f \in Nat /\ FILNIL < f /\ f < GLVL
  BY LayoutAssumption

\* A level is an address of the stack, or GLVL.
LEMMA LevelOf ==
    ASSUME NEW f \in Files
    PROVE  /\ FileLevel(f) \in Nat /\ f \in Nat /\ f < GLVL
           /\ FileLevel(f) <= GLVL
           /\ f < CFrame => FileLevel(f) = GLVL
           /\ CFrame <= f => FileLevel(f) = f
  BY Addresses DEF FileLevel

\* The order is total,
LEMMA BeforeIsTotal ==
    ASSUME NEW f \in Files, NEW g \in Files, f # g
    PROVE  Before(f, g) \/ Before(g, f)
  BY LevelOf DEF Before

\* ... transitive,
LEMMA BeforeIsTransitive ==
    ASSUME NEW f \in Files, NEW g \in Files, NEW h \in Files, Before(f, g), Before(g, h)
    PROVE  Before(f, h)
  BY LevelOf DEF Before

\* ... and strict.
LEMMA BeforeIsStrict ==
    ASSUME NEW f \in Files
    PROVE  ~Before(f, f)
  BY LevelOf DEF Before

\* No node is on the chain twice.
LEMMA NoNodeTwice ==
    ASSUME NEW c \in Seq(Files), InOrder(c),
           NEW i \in 1..Len(c), NEW j \in 1..Len(c), c[i] = c[j]
    PROVE  i = j
  <1>1. c[i] \in Files /\ c[j] \in Files /\ i \in Nat /\ j \in Nat
    OBVIOUS
  <1>2. CASE i < j
    BY <1>1, <1>2, BeforeIsStrict DEF InOrder
  <1>3. CASE j < i
    BY <1>1, <1>3, BeforeIsStrict DEF InOrder
  <1> QED
    BY <1>1, <1>2, <1>3

\* A walk ends (GETNAME.c:114, PCLOSE.c:50, DFDISPOSE.c:53): before the end of the
\* chain only at a node that is not in C.
LEMMA WalkFacts ==
    ASSUME fchain \in Seq(Files), NEW p \in 0..Len(fchain), NEW C
    PROVE  /\ WalkEnd(C, p) \in p..Len(fchain)
           /\ \A i \in p + 1..WalkEnd(C, p) : fchain[i] \in C
           /\ WalkEnd(C, p) < Len(fchain) => fchain[WalkEnd(C, p) + 1] \notin C
  <1> DEFINE ends == { k \in p..Len(fchain) : k < Len(fchain) => fchain[k + 1] \notin C }
  <1>1. ends \in SUBSET Nat /\ Len(fchain) \in ends /\ p \in Nat /\ Len(fchain) \in Nat
    OBVIOUS
  <1>2. PICK m \in ends : \A k \in ends : m <= k
    BY <1>1, Smallest
  <1>3. ASSUME NEW i \in p + 1..m, fchain[i] \notin C
        PROVE  FALSE
    <2>1. m \in Nat /\ p \in Nat /\ m <= Len(fchain) /\ i \in Nat /\ p + 1 <= i /\ i <= m
      BY <1>1
    <2>2. i - 1 \in p..Len(fchain) /\ (i - 1) + 1 = i
      BY <2>1, <1>1
    <2>3. i - 1 \in ends
      BY <2>2, <1>3
    <2>4. m <= i - 1
      BY <2>3, <1>2
    <2> QED
      BY <2>1, <2>4
  <1> QED
    BY <1>2, <1>3 DEF WalkEnd
-----------------------------------------------------------------------------
\* A chain without the nodes p + 1..k, and one with a new node behind node p.
Cut(c, p, k) == SubSeq(c, 1, p) \o SubSeq(c, k + 1, Len(c))
Insert(c, p, f) == SubSeq(c, 1, p) \o <<f>> \o SubSeq(c, p + 1, Len(c))

\* The elements of a chain some nodes of which are taken off (PCLOSE.c:53).
LEMMA CutElements ==
    ASSUME NEW c \in Seq(Files), NEW p \in 0..Len(c), NEW k \in p..Len(c)
    PROVE  /\ Cut(c, p, k) \in Seq(Files)
           /\ Len(Cut(c, p, k)) = p + (Len(c) - k)
           /\ \A i \in 1..Len(Cut(c, p, k)) :
                  Cut(c, p, k)[i] = c[IF i <= p THEN i ELSE i + (k - p)]
  <1> DEFINE front == SubSeq(c, 1, p)
             back == SubSeq(c, k + 1, Len(c))
  <1>1. p \in Nat /\ k \in Nat /\ Len(c) \in Nat /\ p <= k /\ k <= Len(c)
    OBVIOUS
  <1>2. front \in Seq(Files) /\ Len(front) = p /\ \A i \in 1..p : front[i] = c[i]
    BY <1>1
  <1>3. /\ back \in Seq(Files) /\ Len(back) = Len(c) - k
        /\ \A i \in 1..Len(c) - k : back[i] = c[k + i]
    BY <1>1
  <1> HIDE DEF front, back
  <1>4. /\ front \o back \in Seq(Files)
        /\ Len(front \o back) = p + (Len(c) - k)
        /\ \A i \in 1..p + (Len(c) - k) :
               (front \o back)[i] = IF i <= p THEN front[i] ELSE back[i - p]
    <2>1. front \in Seq(Files) /\ back \in Seq(Files)
      BY <1>2, <1>3
    <2>2. /\ front \o back \in Seq(Files)
          /\ Len(front \o back) = Len(front) + Len(back)
          /\ \A i \in 1..Len(front) + Len(back) :
                 (front \o back)[i] = IF i <= Len(front) THEN front[i] ELSE back[i - Len(front)]
      BY <2>1, ConcatProperties, Zenon
    <2> QED
      BY <1>2, <1>3, <2>2, Zenon
  <1>5. ASSUME NEW i \in 1..p + (Len(c) - k)
        PROVE  (front \o back)[i] = c[IF i <= p THEN i ELSE i + (k - p)]
    <2>1. CASE i <= p
      BY <1>1, <1>2, <1>4, <2>1
    <2>2. CASE i > p
      <3>1. i - p \in 1..Len(c) - k /\ k + (i - p) = i + (k - p) /\ ~(i <= p)
        BY <1>1, <2>2
      <3> QED
        BY <1>3, <1>4, <3>1
    <2>3. i <= p \/ i > p
      BY <1>1
    <2> QED
      BY <2>1, <2>2, <2>3
  <1> QED
    BY <1>4, <1>5 DEF Cut, front, back

\* Taking a run of nodes out of a chain (PCLOSE.c:50) keeps its order.
LEMMA CutInOrder ==
    ASSUME NEW c \in Seq(Files), InOrder(c), NEW p \in 0..Len(c), NEW k \in p..Len(c)
    PROVE  /\ Cut(c, p, k) \in Seq(Files)
           /\ InOrder(Cut(c, p, k))
           /\ Nodes(Cut(c, p, k)) = Nodes(c) \ { c[i] : i \in p + 1..k }
  <1> DEFINE d == Cut(c, p, k)
             n == Len(c)
             from(i) == IF i <= p THEN i ELSE i + (k - p)
  <1>1. p \in Nat /\ k \in Nat /\ n \in Nat /\ p <= k /\ k <= n
    OBVIOUS
  <1>2. d \in Seq(Files) /\ Len(d) = p + (n - k) /\ \A i \in 1..Len(d) : d[i] = c[from(i)]
    BY CutElements
  <1> HIDE DEF d
  <1>3. ASSUME NEW i \in 1..Len(d)
        PROVE  from(i) \in 1..n /\ from(i) \notin p + 1..k
    BY <1>1, <1>2
  <1>4. ASSUME NEW i \in 1..Len(d), NEW j \in 1..Len(d), i < j
        PROVE  from(i) < from(j)
    BY <1>1, <1>2, <1>4
  <1>5. ASSUME NEW m \in 1..n, m \notin p + 1..k
        PROVE  \E i \in 1..Len(d) : from(i) = m
    <2>1. CASE m <= p
      <3>1. m \in 1..Len(d) /\ from(m) = m
        BY <1>1, <1>2, <2>1
      <3> QED
        BY <3>1
    <2>2. CASE m > p
      <3>1. m - (k - p) \in 1..Len(d) /\ ~(m - (k - p) <= p)
        BY <1>1, <1>2, <1>5, <2>2
      <3>2. from(m - (k - p)) = m
        BY <1>1, <3>1
      <3> QED
        BY <3>1, <3>2
    <2> QED
      BY <1>1, <2>1, <2>2
  <1> HIDE DEF from
  <1>6. InOrder(d)
    BY <1>2, <1>3, <1>4 DEF InOrder
  <1>7. Nodes(d) \subseteq Nodes(c) \ { c[i] : i \in p + 1..k }
    <2>1. SUFFICES ASSUME NEW i \in 1..Len(d)
                   PROVE  /\ d[i] \in Nodes(c)
                          /\ \A m \in p + 1..k : d[i] # c[m]
      BY DEF Nodes
    <2>2. ASSUME NEW m \in p + 1..k, d[i] = c[m]
          PROVE  FALSE
      <3>1. m \in 1..Len(c) /\ from(i) \in 1..Len(c) /\ c[from(i)] = c[m]
        BY <1>1, <1>2, <1>3, <2>2
      <3>2. from(i) = m
        BY <3>1, NoNodeTwice
      <3> QED
        BY <1>3, <3>2
    <2> QED
      BY <1>2, <1>3, <2>2 DEF Nodes
  <1>8. Nodes(c) \ { c[i] : i \in p + 1..k } \subseteq Nodes(d)
    <2>1. SUFFICES ASSUME NEW m \in 1..n, m \notin p + 1..k
                   PROVE  c[m] \in Nodes(d)
      BY DEF Nodes
    <2> QED
      BY <1>2, <1>5, <2>1 DEF Nodes
  <1> QED
    BY <1>2, <1>6, <1>7, <1>8 DEF d

\* The elements of a chain with one more node (GETNAME.c:130).
LEMMA InsertElements ==
    ASSUME NEW c \in Seq(Files), NEW p \in 0..Len(c), NEW f \in Files
    PROVE  /\ Insert(c, p, f) \in Seq(Files)
           /\ Len(Insert(c, p, f)) = Len(c) + 1
           /\ \A i \in 1..Len(c) + 1 :
                  Insert(c, p, f)[i] = IF i <= p THEN c[i]
                                       ELSE IF i = p + 1 THEN f ELSE c[i - 1]
  <1> DEFINE front == SubSeq(c, 1, p)
             back == SubSeq(c, p + 1, Len(c))
             half == front \o <<f>>
  <1>1. p \in Nat /\ Len(c) \in Nat /\ p <= Len(c)
    OBVIOUS
  <1>2. front \in Seq(Files) /\ Len(front) = p /\ \A i \in 1..p : front[i] = c[i]
    BY <1>1
  <1>3. /\ back \in Seq(Files) /\ Len(back) = Len(c) - p
        /\ \A i \in 1..Len(c) - p : back[i] = c[p + i]
    BY <1>1
  <1>4. <<f>> \in Seq(Files) /\ Len(<<f>>) = 1 /\ <<f>>[1] = f
    OBVIOUS
  <1> HIDE DEF front, back
  <1>5. /\ half \in Seq(Files) /\ Len(half) = p + 1
        /\ \A i \in 1..p + 1 : half[i] = IF i <= p THEN c[i] ELSE f
    <2>1. /\ half \in Seq(Files)
          /\ Len(half) = Len(front) + Len(<<f>>)
          /\ \A i \in 1..Len(front) + Len(<<f>>) :
                 half[i] = IF i <= Len(front) THEN front[i] ELSE <<f>>[i - Len(front)]
      BY <1>2, <1>4, ConcatProperties, Zenon
    <2>2. ASSUME NEW i \in 1..p + 1
          PROVE  half[i] = IF i <= p THEN c[i] ELSE f
      <3>1. CASE i <= p
        BY <1>1, <1>2, <1>4, <2>1, <3>1
      <3>2. CASE i = p + 1
        <4>1. i - p = 1 /\ ~(i <= p)
          BY <1>1, <3>2
        <4>2. half[i] = <<f>>[i - p]
          BY <1>2, <1>4, <2>1, <4>1
        <4> QED
          BY <1>4, <4>1, <4>2
      <3>3. i <= p \/ i = p + 1
        BY <1>1
      <3> QED
        BY <3>1, <3>2, <3>3
    <2> QED
      BY <1>2, <1>4, <2>1, <2>2
  <1> HIDE DEF half
  <1>6. /\ half \o back \in Seq(Files)
        /\ Len(half \o back) = Len(half) + Len(back)
        /\ \A i \in 1..Len(half) + Len(back) :
               (half \o back)[i] = IF i <= Len(half) THEN half[i] ELSE back[i - Len(half)]
    BY <1>3, <1>5, ConcatProperties, Zenon
  <1>7. Len(half) + Len(back) = Len(c) + 1
    BY <1>1, <1>3, <1>5
  <1>8. ASSUME NEW i \in 1..Len(c) + 1
        PROVE  (half \o back)[i] = IF i <= p THEN c[i] ELSE IF i = p + 1 THEN f ELSE c[i - 1]
    <2>1. CASE i <= p + 1
      <3>1. i \in 1..p + 1 /\ i <= Len(half)
        BY <1>1, <1>5, <2>1
      <3>2. (half \o back)[i] = half[i]
        BY <1>6, <1>7, <3>1
      <3> QED
        BY <1>1, <1>5, <3>1, <3>2
    <2>2. CASE i > p + 1
      <3>1. i - (p + 1) \in 1..Len(c) - p /\ p + (i - (p + 1)) = i - 1
            /\ ~(i <= p + 1) /\ ~(i <= p) /\ i # p + 1
        BY <1>1, <2>2
      <3>2. (half \o back)[i] = back[i - (p + 1)]
        BY <1>5, <1>6, <1>7, <3>1
      <3> QED
        BY <1>3, <3>1, <3>2
    <2>3. i <= p + 1 \/ i > p + 1
      BY <1>1
    <2> QED
      BY <2>1, <2>2, <2>3
  <1> QED
    BY <1>6, <1>7, <1>8 DEF Insert, front, back, half

\* Linking a node where the order puts it (GETNAME.c:129) keeps the order.
LEMMA InsertInOrder ==
    ASSUME NEW c \in Seq(Files), InOrder(c), NEW p \in 0..Len(c), NEW f \in Files,
           \A i \in 1..p : Before(c[i], f),
           \A i \in p + 1..Len(c) : Before(f, c[i])
    PROVE  /\ Insert(c, p, f) \in Seq(Files)
           /\ InOrder(Insert(c, p, f))
           /\ Nodes(Insert(c, p, f)) = Nodes(c) \cup {f}
  <1> DEFINE d == Insert(c, p, f)
             n == Len(c)
  <1>1. p \in Nat /\ n \in Nat /\ p <= n
    OBVIOUS
  <1>2. d \in Seq(Files) /\ Len(d) = n + 1
        /\ \A i \in 1..n + 1 : d[i] = IF i <= p THEN c[i]
                                      ELSE IF i = p + 1 THEN f ELSE c[i - 1]
    BY InsertElements
  <1> HIDE DEF d
  <1>3. ASSUME NEW i \in 1..n + 1, NEW j \in 1..n + 1, i < j
        PROVE  Before(d[i], d[j])
    <2>1. CASE i <= p /\ j <= p
      <3>1. i \in 1..n /\ j \in 1..n
        BY <1>1, <2>1
      <3> QED
        BY <1>2, <1>3, <2>1, <3>1 DEF InOrder
    <2>2. CASE i <= p /\ j = p + 1
      <3>1. i \in 1..p /\ ~(j <= p)
        BY <1>1, <2>2
      <3> QED
        BY <1>2, <2>2, <3>1
    <2>3. CASE i <= p /\ j > p + 1
      <3>1. i \in 1..n /\ j - 1 \in 1..n /\ i < j - 1 /\ ~(j <= p) /\ j # p + 1
        BY <1>1, <2>3
      <3> QED
        BY <1>2, <2>3, <3>1 DEF InOrder
    <2>4. CASE i = p + 1
      <3>1. j - 1 \in p + 1..n /\ ~(j <= p) /\ j # p + 1 /\ ~(i <= p)
        BY <1>1, <1>3, <2>4
      <3> QED
        BY <1>2, <2>4, <3>1
    <2>5. CASE i > p + 1
      <3>1. /\ i - 1 \in 1..n /\ j - 1 \in 1..n /\ i - 1 < j - 1
            /\ ~(j <= p) /\ j # p + 1 /\ ~(i <= p) /\ i # p + 1
        BY <1>1, <1>3, <2>5
      <3> QED
        BY <1>2, <3>1 DEF InOrder
    <2>6. \/ i <= p /\ (j <= p \/ j = p + 1 \/ j > p + 1)
          \/ i = p + 1
          \/ i > p + 1
      BY <1>1
    <2> QED
      BY <2>1, <2>2, <2>3, <2>4, <2>5, <2>6
  <1>4. Nodes(d) \subseteq Nodes(c) \cup {f}
    <2>1. ASSUME NEW i \in 1..n + 1
          PROVE  d[i] = f \/ \E j \in 1..n : d[i] = c[j]
      <3>1. CASE i <= p
        <4>1. i \in 1..n
          BY <1>1, <3>1
        <4> QED
          BY <1>2, <3>1, <4>1
      <3>2. CASE i = p + 1
        <4>1. ~(i <= p)
          BY <1>1, <3>2
        <4> QED
          BY <1>2, <3>2, <4>1
      <3>3. CASE i > p + 1
        <4>1. i - 1 \in 1..n /\ ~(i <= p) /\ i # p + 1
          BY <1>1, <3>3
        <4> QED
          BY <1>2, <4>1
      <3>4. i <= p \/ i = p + 1 \/ i > p + 1
        BY <1>1
      <3> QED
        BY <3>1, <3>2, <3>3, <3>4
    <2> QED
      BY <1>2, <2>1 DEF Nodes
  <1>5. Nodes(c) \cup {f} \subseteq Nodes(d)
    <2>1. p + 1 \in 1..n + 1 /\ d[p + 1] = f
      <3>1. p + 1 \in 1..n + 1 /\ ~(p + 1 <= p)
        BY <1>1
      <3> QED
        BY <1>2, <3>1
    <2>2. ASSUME NEW j \in 1..n
          PROVE  \E i \in 1..n + 1 : d[i] = c[j]
      <3>1. CASE j <= p
        <4>1. j \in 1..n + 1
          BY <1>1
        <4> QED
          BY <1>2, <3>1, <4>1
      <3>2. CASE j > p
        <4>1. j + 1 \in 1..n + 1 /\ ~(j + 1 <= p) /\ j + 1 # p + 1 /\ (j + 1) - 1 = j
          BY <1>1, <3>2
        <4> QED
          BY <1>2, <4>1
      <3>3. j <= p \/ j > p
        BY <1>1
      <3> QED
        BY <3>1, <3>2, <3>3
    <2> QED
      BY <1>2, <2>1, <2>2 DEF Nodes
  <1> QED
    BY <1>2, <1>3, <1>4, <1>5 DEF d, InOrder
-----------------------------------------------------------------------------
\* The chain, node by node: files in their order, each with its level.
LEMMA ChainNodes ==
    ASSUME FilesInv
    PROVE  /\ fchain \in Seq(Files) /\ Len(fchain) \in Nat /\ InOrder(fchain)
           /\ OnChain = Nodes(fchain) /\ Nodes(fchain) \subseteq Files
           /\ \A i \in 1..Len(fchain) :
                 /\ fchain[i] \in Files /\ fchain[i] \in Nodes(fchain)
                 /\ iorec[fchain[i]].flev = FileLevel(fchain[i])
  <1>1. fchain \in Seq(Files) /\ InOrder(fchain)
    BY DEF FilesInv, Types, ChainInOrder
  <1>2. \A i \in 1..Len(fchain) : fchain[i] \in Files /\ fchain[i] \in Nodes(fchain)
    BY <1>1 DEF Nodes
  <1>3. \A f \in Nodes(fchain) : iorec[f].flev = FileLevel(f)
    BY DEF FilesInv, ChainInOrder
  <1> QED
    BY <1>1, <1>2, <1>3 DEF OnChain, Nodes

\* A node on the chain has a level between those of the nodes around it.
LEMMA LevelsAscend ==
    ASSUME FilesInv, NEW i \in 1..Len(fchain), NEW j \in 1..Len(fchain), i < j
    PROVE  FileLevel(fchain[i]) <= FileLevel(fchain[j])
  BY ChainNodes, LevelOf DEF InOrder, Before

\* GETNAME.c:109-129 finds the place the order gives a new record.
LEMMA PlaceIsInOrder ==
    ASSUME FilesInv, NEW f \in Files, f \notin Nodes(fchain)
    PROVE  /\ Place(f) \in 0..Len(fchain)
           /\ \A i \in 1..Place(f) : Before(fchain[i], f)
           /\ \A i \in Place(f) + 1..Len(fchain) : Before(f, fchain[i])
  <1> DEFINE c == fchain
             n == Len(fchain)
             L == FileLevel(f)
             A == { g \in Files : iorec[g].flev < L }
             B == { g \in Files : iorec[g].flev = GLVL /\ g < f }
             low == WalkEnd(A, 0)
  <1>1. n \in Nat /\ L \in Nat /\ GLVL \in Nat /\ L <= GLVL
    BY ChainNodes, LevelOf, Addresses
  <1>2. \A i \in 1..n : /\ c[i] \in Files /\ c[i] # f /\ iorec[c[i]].flev = FileLevel(c[i])
                        /\ FileLevel(c[i]) \in Nat /\ FileLevel(c[i]) <= GLVL
    BY ChainNodes, LevelOf
  <1>3. low \in 0..n /\ (\A i \in 0 + 1..low : c[i] \in A) /\ (low < n => c[low + 1] \notin A)
    <2> HIDE DEF A
    <2> QED
      BY <1>1, ChainNodes, WalkFacts
  <1> HIDE DEF low
  <1>4. \A i \in 1..low : FileLevel(c[i]) < L
    BY <1>1, <1>2, <1>3
  <1>5. ASSUME NEW i \in low + 1..n
        PROVE  L <= FileLevel(c[i])
    <2>1. low + 1 \in 1..n /\ i \in 1..n /\ (i = low + 1 \/ low + 1 < i) /\ low < n
      BY <1>1, <1>3
    <2>2. L <= FileLevel(c[low + 1])
      BY <1>1, <1>2, <1>3, <2>1
    <2>3. FileLevel(c[low + 1]) <= FileLevel(c[i])
      BY <1>2, <2>1, LevelsAscend
    <2> QED
      BY <1>1, <1>2, <2>1, <2>2, <2>3
  <1>6. CASE L = GLVL
    <2> DEFINE p == WalkEnd(B, low)
    <2>1. Place(f) = p
      BY <1>6 DEF Place, low
    <2>2. p \in low..n /\ (\A i \in low + 1..p : c[i] \in B) /\ (p < n => c[p + 1] \notin B)
      <3> HIDE DEF B
      <3> QED
        BY <1>1, <1>3, ChainNodes, WalkFacts
    <2> HIDE DEF p
    <2>3. p \in 0..n
      BY <1>1, <1>3, <2>2
    <2>4. ASSUME NEW i \in 1..p
          PROVE  Before(c[i], f)
      <3>1. i \in 1..n /\ (i \in 1..low \/ i \in low + 1..p)
        BY <1>1, <1>3, <2>2
      <3>2. CASE i \in 1..low
        BY <1>4, <3>2 DEF Before
      <3>3. CASE i \in low + 1..p
        BY <1>2, <1>6, <2>2, <3>1, <3>3 DEF Before
      <3> QED
        BY <3>1, <3>2, <3>3
    <2>5. ASSUME NEW i \in p + 1..n
          PROVE  Before(f, c[i])
      <3>1. /\ p + 1 \in 1..n /\ i \in 1..n /\ p + 1 \in low + 1..n
            /\ p < n /\ (i = p + 1 \/ p + 1 < i)
        BY <1>1, <1>3, <2>2
      <3>2. FileLevel(c[p + 1]) = GLVL
        BY <1>1, <1>2, <1>5, <1>6, <3>1
      <3>3. ~(c[p + 1] < f)
        BY <1>2, <2>2, <3>1, <3>2
      <3>4. Before(f, c[p + 1])
        BY <1>2, <1>6, <3>1, <3>2, <3>3, LevelOf DEF Before
      <3>5. CASE p + 1 < i
        <4>1. Before(c[p + 1], c[i])
          BY <3>1, <3>5, ChainNodes DEF InOrder
        <4> QED
          BY <1>2, <3>1, <3>4, <4>1, BeforeIsTransitive
      <3> QED
        BY <3>1, <3>4, <3>5
    <2> QED
      BY <2>1, <2>3, <2>4, <2>5
  <1>7. CASE L # GLVL
    <2>1. Place(f) = low
      BY <1>7 DEF Place, low
    <2>2. ASSUME NEW i \in 1..low
          PROVE  Before(c[i], f)
      BY <1>4 DEF Before
    <2>3. ASSUME NEW i \in low + 1..n
          PROVE  Before(f, c[i])
      <3>1. i \in 1..n /\ L <= FileLevel(c[i])
        BY <1>1, <1>3, <1>5
      <3>2. FileLevel(c[i]) # L
        BY <1>2, <1>7, <3>1 DEF FileLevel
      <3> QED
        BY <1>1, <1>2, <3>1, <3>2 DEF Before
    <2> QED
      BY <1>3, <2>1, <2>2, <2>3
  <1> QED
    BY <1>6, <1>7

\* The chain with a new record is in order.
LEMMA LinkedInOrder ==
    ASSUME FilesInv, NEW f \in Files, f \notin Nodes(fchain)
    PROVE  /\ Linked(f) \in Seq(Files)
           /\ InOrder(Linked(f))
           /\ Nodes(Linked(f)) = Nodes(fchain) \cup {f}
  <1>1. Linked(f) = Insert(fchain, Place(f), f)
    BY DEF Linked, Insert
  <1> QED
    BY <1>1, PlaceIsInOrder, ChainNodes, InsertInOrder

\* The loop of PCLOSE takes off the chain what it meets, and keeps the order.
LEMMA CloseRunCuts ==
    ASSUME FilesInv, NEW p \in 0..Len(fchain), NEW C, CloseRun(C, p)
    PROVE  /\ fchain' \in Seq(Files)
           /\ InOrder(fchain')
           /\ Nodes(fchain') = Nodes(fchain) \ Met(C, p)
           /\ Met(C, p) \subseteq Nodes(fchain)
           /\ PfClose(Met(C, p)) /\ run' = run /\ filefre' = filefre
  <1>1. WalkEnd(C, p) \in p..Len(fchain)
    BY ChainNodes, WalkFacts
  <1>2. fchain' = Cut(fchain, p, WalkEnd(C, p))
    BY DEF CloseRun, Cut
  <1>3. Met(C, p) \subseteq Nodes(fchain)
    BY <1>1, ChainNodes DEF Met, Nodes
  <1> QED
    BY <1>1, <1>2, <1>3, ChainNodes, CutInOrder DEF CloseRun, Met
-----------------------------------------------------------------------------
\* An active file is the only one with its slot.
LEMMA SlotsAreOwned ==
    ASSUME FilesInv, NEW f \in Active, NEW g \in Active, iorec[f].fblk = iorec[g].fblk
    PROVE  f = g
  BY DEF Active, IsActive

\* PFCLOSE of files on the chain (PFCLOSE.c:45) makes these files inactive, and no
\* other; what it removes are their own temporary files.
LEMMA PfCloseFacts ==
    ASSUME FilesInv, ListsAgree, NEW S \in SUBSET Nodes(fchain), PfClose(S)
    PROVE  /\ iorec' \in [Files -> FileRec]
           /\ actfile' \in [Slot -> Files \cup {FILNIL}]
           /\ SlotsPointBack'
           /\ Active' = Active \ S
           /\ \A f \in Files \ S : iorec'[f] = iorec[f]
           /\ \A f \in S : iorec'[f] = Dead(f)
           /\ \A s \in disk' : \E g \in Active' : iorec'[g].temp /\ iorec'[g].fblk = s
  <1>1. /\ iorec \in [Files -> FileRec] /\ actfile \in [Slot -> Files \cup {FILNIL}]
        /\ S \subseteq Active /\ Active \subseteq Files
    BY DEF FilesInv, Types, ListsAgree, Active
  <1>2. /\ \A f \in Files \ S : iorec'[f] = iorec[f]
        /\ \A f \in S : iorec'[f] = Dead(f)
        /\ DOMAIN iorec' = Files /\ iorec' = [f \in Files |-> iorec'[f]]
    BY <1>1 DEF PfClose
  <1>3. ASSUME NEW f \in Files
        PROVE  Dead(f) \in FileRec /\ Dead(f).fblk = iorec[f].fblk
    <2>1. iorec[f] \in FileRec
      BY <1>1
    <2>2. iorec[f].fblk \in Slot \cup {0} /\ iorec[f].fbuf \in {"null", "open", "closed"}
      BY <2>1 DEF FileRec
    <2> QED
      BY <2>2 DEF Dead, Cleared, FileRec
  <1>4. iorec' \in [Files -> FileRec]
    BY <1>1, <1>2, <1>3
  <1>5. \A f \in Files : iorec'[f].fblk = iorec[f].fblk
    BY <1>1, <1>2, <1>3
  <1>6. \A s \in Slot : actfile'[s] = IF \E f \in S : iorec[f].fblk = s THEN FILNIL ELSE actfile[s]
    BY DEF PfClose
  <1>7. actfile' \in [Slot -> Files \cup {FILNIL}]
    BY <1>1 DEF PfClose
  <1>8. SlotsPointBack'
    <2>1. SUFFICES ASSUME NEW s \in Slot, actfile'[s] # FILNIL
                   PROVE  iorec'[actfile'[s]].fblk = s
      BY DEF SlotsPointBack
    <2>2. actfile'[s] = actfile[s] /\ actfile[s] \in Files
      BY <1>1, <1>6, <2>1
    <2> QED
      BY <1>5, <2>1, <2>2 DEF FilesInv, SlotsPointBack
  <1>9. Active' = Active \ S
    <2>1. ASSUME NEW f \in Files
          PROVE  f \in Active' <=> f \in Active /\ f \notin S
      <3>1. f # FILNIL
        BY Addresses DEF FILNIL
      <3>2. f \in Active' <=> iorec[f].fblk \in Slot /\ actfile'[iorec[f].fblk] = f
        BY <1>5 DEF Active, IsActive
      <3>3. CASE f \in S
        BY <1>6, <3>1, <3>2, <3>3
      <3>4. CASE f \notin S
        <4>1. ASSUME f \in Active, NEW g \in S
              PROVE  iorec[g].fblk # iorec[f].fblk
          BY <1>1, <3>4, <4>1, SlotsAreOwned
        <4> QED
          BY <1>6, <3>1, <3>2, <3>4, <4>1 DEF Active, IsActive
      <3> QED
        BY <3>3, <3>4
    <2> QED
      BY <1>1, <2>1 DEF Active
  <1>10. ASSUME NEW s \in disk'
         PROVE  \E g \in Active' : iorec'[g].temp /\ iorec'[g].fblk = s
    <2>1. s \in disk /\ \A f \in S : Removes(f) => iorec[f].fblk # s
      BY DEF PfClose
    <2>2. PICK g \in Active : iorec[g].temp /\ iorec[g].fblk = s
      BY <2>1 DEF ListsAgree
    <2>3. g \notin S
      <3>1. g \in Nodes(fchain) /\ g \in Files
        BY <1>1, <2>2 DEF ListsAgree
      <3>2. ~iorec[g].fdef /\ iorec[g].fbuf = "open"
        BY <2>2, <3>1 DEF FilesInv, RecordsAgree, ListsAgree
      <3>3. Removes(g)
        BY <2>2, <3>2 DEF Removes, HasStream
      <3> QED
        BY <2>1, <2>2, <3>3
    <2> QED
      BY <1>1, <1>2, <1>9, <2>2, <2>3
  <1> QED
    BY <1>2, <1>4, <1>7, <1>8, <1>9, <1>10
-----------------------------------------------------------------------------
(* GETNAME.                                                                *)

\* A loop over the slots ends at a free one, or at MAXFILES when it passed none
\* (GETNAME.c:98-103).
LEMMA ScanFacts ==
    ASSUME NEW first \in Nat, PREDEF < first
    PROVE  /\ ScanFrom(first) \in Slot \cup {MAXFILES} /\ ScanFrom(first) \in Nat
           /\ ScanFrom(first) < MAXFILES => actfile[ScanFrom(first)] = FILNIL
           /\ ScanFrom(first) = MAXFILES => \A s \in first..MAXFILES - 1 : actfile[s] # FILNIL
  <1> DEFINE S == { s \in first..MAXFILES - 1 : actfile[s] = FILNIL } \cup {MAXFILES}
             n == ScanFrom(first)
  <1>1. S \in SUBSET Nat /\ S # {} /\ S \subseteq Slot \cup {MAXFILES}
    BY Addresses DEF Slot, PREDEF
  <1>2. \A s \in S : s < MAXFILES => actfile[s] = FILNIL
    BY Addresses
  <1>3. n = Lowest(S)
    BY DEF ScanFrom
  <1>4. \A s \in first..MAXFILES - 1 : actfile[s] = FILNIL => s \in S
    OBVIOUS
  <1> HIDE DEF S, n
  <1>5. n \in S /\ \A s \in S : n <= s
    BY <1>1, <1>3, Smallest DEF Lowest
  <1>6. ASSUME n = MAXFILES, NEW s \in first..MAXFILES - 1, actfile[s] = FILNIL
        PROVE  FALSE
    BY <1>4, <1>5, <1>6, Addresses
  <1> QED
    BY <1>1, <1>2, <1>5, <1>6 DEF n

\* The search finds a free slot if there is one: it passes over none, wherever
\* _filefre stands (GETNAME.c:98-107).
LEMMA NextSlotFacts ==
    ASSUME filefre \in PREDEF..MAXFILES
    PROVE  /\ NextSlot \in Nat /\ NextSlot <= MAXFILES
           /\ NextSlot < MAXFILES => NextSlot \in Slot /\ actfile[NextSlot] = FILNIL
           /\ NextSlot = MAXFILES => \A s \in Slot : actfile[s] # FILNIL
  <1> DEFINE up == ScanFrom(filefre + 1)
             again == ScanFrom(PREDEF + 1)
  <1>1. /\ filefre + 1 \in Nat /\ PREDEF < filefre + 1
        /\ PREDEF + 1 \in Nat /\ PREDEF < PREDEF + 1
    BY Addresses DEF PREDEF
  <1>2. /\ up \in Slot \cup {MAXFILES} /\ up \in Nat
        /\ up < MAXFILES => actfile[up] = FILNIL
    BY <1>1, ScanFacts
  <1>3. /\ again \in Slot \cup {MAXFILES} /\ again \in Nat
        /\ again < MAXFILES => actfile[again] = FILNIL
        /\ again = MAXFILES => \A s \in Slot : actfile[s] # FILNIL
    BY <1>1, ScanFacts DEF Slot
  <1>4. NextSlot = IF up < MAXFILES THEN up ELSE again
    BY DEF NextSlot
  <1>5. \A s \in Slot : s < MAXFILES
    BY Addresses DEF Slot, PREDEF
  <1> HIDE DEF up, again
  <1> QED
    BY <1>2, <1>3, <1>4, <1>5, Addresses

\* A record as GETNAME and its callers leave it.
Sound(r) == /\ r \in FileRec
            /\ r.temp <=> r.fname = "tmp"
            /\ r.fdef => ~r.temp /\ r.fbuf # "open"

\* The name part of GETNAME (GETNAME.c:132-168) keeps name and TEMP together.
LEMMA WithNameIsSound ==
    ASSUME NEW rec \in FileRec, rec.temp <=> rec.fname = "tmp", ~rec.fdef, NEW named \in BOOLEAN
    PROVE  /\ Sound(WithName(rec, named)) /\ ~WithName(rec, named).fdef
           /\ WithName(rec, named).fblk = rec.fblk /\ WithName(rec, named).flev = rec.flev
           /\ WithName(rec, named).fbuf = rec.fbuf
           /\ named => ~WithName(rec, named).temp
           /\ rec.temp /\ ~named => WithName(rec, named).temp
  <1>1. CASE named
    BY <1>1 DEF WithName, Sound, FileRec
  <1>2. CASE ~named /\ rec.fname # ""
    BY <1>2 DEF WithName, Sound, FileRec
  <1>3. CASE ~named /\ rec.fname = ""
    BY <1>3 DEF WithName, Sound, FileRec
  <1> QED
    BY <1>1, <1>2, <1>3

\* The callers of GETNAME write one record, and leave it defined or with a stream
\* unless they stop in an error.
LEMMA UseNameFacts ==
    ASSUME NEW f, NEW rec, Sound(rec), ~rec.fdef, NEW caller, NEW tmps,
           caller = "DEFNAME" => ~rec.temp /\ rec.fbuf # "open",
           UseName(f, rec, caller, tmps)
    PROVE  \E r \in FileRec :
              /\ iorec' = [iorec EXCEPT ![f] = r]
              /\ Sound(r)
              /\ r.fblk = rec.fblk /\ r.flev = rec.flev /\ r.temp = rec.temp
              /\ \/ status' = "aborted"
                 \/ /\ status' = status
                    /\ r.fdef \/ r.fbuf = "open"
                    /\ disk' \subseteq tmps \cup { s \in {rec.fblk} : rec.temp }
  <1>1. CASE caller = "DEFNAME" /\ UseName(f, rec, caller, tmps)
    <2> DEFINE r == [rec EXCEPT !.fdef = TRUE]
    <2>1. iorec' = [iorec EXCEPT ![f] = r] /\ status' = status /\ disk' = tmps
      BY <1>1 DEF UseName
    <2>2. /\ r \in FileRec /\ Sound(r) /\ r.fdef
          /\ r.fblk = rec.fblk /\ r.flev = rec.flev /\ r.temp = rec.temp
      BY <1>1 DEF Sound, FileRec
    <2> HIDE DEF r
    <2> QED
      BY <2>1, <2>2
  <1>2. CASE caller # "DEFNAME" /\ UseName(f, rec, caller, tmps)
    <2>1. ASSUME NEW b \in {"open", "null"}
          PROVE  LET r == [rec EXCEPT !.fbuf = b]
                 IN /\ r \in FileRec /\ Sound(r) /\ r.fbuf = b
                    /\ r.fblk = rec.fblk /\ r.flev = rec.flev /\ r.temp = rec.temp
      BY DEF Sound, FileRec
    <2>2. \/ /\ iorec' = [iorec EXCEPT ![f] = [rec EXCEPT !.fbuf = "open"]]
             /\ disk' = IF rec.fname = "tmp" THEN tmps \cup {rec.fblk} ELSE tmps
             /\ status' = status
          \/ /\ iorec' = [iorec EXCEPT ![f] = [rec EXCEPT !.fbuf = "null"]]
             /\ status' = "aborted"
      BY <1>2 DEF UseName, Aborted
    <2>3. rec.temp <=> rec.fname = "tmp"
      BY DEF Sound
    <2> QED
      BY <2>1, <2>2, <2>3
  <1> QED
    BY <1>1, <1>2

\* What is left of the invariant when one record is written and the lists stay.
LEMMA RecordWritten ==
    ASSUME FilesInv, ListsAgree, NEW f \in Files, NEW r, Sound(r),
           r.fblk = iorec[f].fblk,
           \/ f \in Nodes(fchain) /\ r.flev = iorec[f].flev
           \/ f \notin Nodes(fchain) /\ r.fbuf # "open",
           iorec' = [iorec EXCEPT ![f] = r],
           UNCHANGED <<fchain, actfile>>
    PROVE  /\ iorec' \in [Files -> FileRec]
           /\ SlotsPointBack' /\ ChainInOrder' /\ RecordsAgree'
           /\ Active' = Active
  <1>1. iorec \in [Files -> FileRec] /\ actfile \in [Slot -> Files \cup {FILNIL}]
    BY DEF FilesInv, Types
  <1>2. iorec' \in [Files -> FileRec]
    BY <1>1 DEF Sound
  <1>3. iorec'[f] = r /\ \A g \in Files : g # f => iorec'[g] = iorec[g]
    BY <1>1
  <1>4. \A g \in Files : iorec'[g].fblk = iorec[g].fblk
    BY <1>3
  <1>5. SlotsPointBack'
    BY <1>1, <1>4 DEF SlotsPointBack, FilesInv
  <1>6. ChainInOrder'
    <2>1. InOrder(fchain) /\ \A g \in Nodes(fchain) : iorec[g].flev = FileLevel(g) /\ g \in Files
      BY ChainNodes DEF FilesInv, ChainInOrder
    <2>2. \A g \in Nodes(fchain) : iorec'[g].flev = FileLevel(g)
      BY <1>3, <2>1
    <2> QED
      BY <2>1, <2>2 DEF ChainInOrder
  <1>7. RecordsAgree'
    <2>1. ASSUME NEW g \in Files
          PROVE  /\ iorec'[g].fbuf = "open" => g \in Nodes(fchain) /\ ~iorec'[g].fdef
                 /\ iorec'[g].temp <=> iorec'[g].fname = "tmp"
                 /\ iorec'[g].fdef => ~iorec'[g].temp
      <3>1. CASE g = f
        BY <1>3, <3>1 DEF Sound
      <3>2. CASE g # f
        BY <1>3, <3>2 DEF FilesInv, RecordsAgree
      <3> QED
        BY <3>1, <3>2
    <2> QED
      BY <2>1 DEF RecordsAgree
  <1>8. Active' = Active
    BY <1>4 DEF Active, IsActive
  <1> QED
    BY <1>2, <1>5, <1>6, <1>7, <1>8

\* A file that is active is closed and reactivated (GETNAME.c:66-73): of the files
\* nothing changes, of the disk only its own temporary file.
LEMMA ReactivateKeepsInv ==
    ASSUME FilesInv, ListsAgree, status = "running",
           NEW f \in Files, NEW named \in BOOLEAN, NEW caller, caller # "DEFNAME",
           Reactivate(f, named, caller), UNCHANGED <<run, depth, heap>>
    PROVE  FilesInv' /\ Active' = Active
  <1> DEFINE rec == [iorec[f] EXCEPT !.fbuf = IF HasStream(f) THEN "closed" ELSE @,
                                     !.fdef = FALSE]
             w == WithName(rec, named)
             removed == named /\ Removes(f)
             tmps == IF removed THEN disk \ {iorec[f].fblk} ELSE disk
  <1>1. iorec[f] \in FileRec /\ (iorec[f].temp <=> iorec[f].fname = "tmp")
        /\ (iorec[f].fdef => ~iorec[f].temp)
    BY DEF FilesInv, Types, RecordsAgree
  <1>2. f \in Active /\ f \in Nodes(fchain) /\ UNCHANGED <<fchain, actfile, filefre>>
    BY DEF Reactivate, Active, ListsAgree, lists
  <1>3. rec \in FileRec /\ (rec.temp <=> rec.fname = "tmp") /\ ~rec.fdef
        /\ rec.fblk = iorec[f].fblk /\ rec.flev = iorec[f].flev /\ rec.temp = iorec[f].temp
    BY <1>1 DEF FileRec
  <1>4. \/ UseName(f, w, caller, tmps)
        \/ Aborted(f, rec)
        \/ Aborted(f, [iorec[f] EXCEPT !.fbuf = "closed"])
    BY DEF Reactivate, NameTooLong
  <1> HIDE DEF rec
  <1>5. /\ Sound(w) /\ ~w.fdef /\ w.fblk = rec.fblk /\ w.flev = rec.flev
        /\ rec.temp /\ ~named => w.temp
    BY <1>3, WithNameIsSound
  <1> HIDE DEF w, tmps
  <1>6. \E r : /\ iorec' = [iorec EXCEPT ![f] = r]
               /\ Sound(r)
               /\ r.fblk = iorec[f].fblk /\ r.flev = iorec[f].flev
               /\ \/ status' = "aborted"
                  \/ /\ status' = status
                     /\ r.fdef \/ r.fbuf = "open"
                     /\ r.temp = w.temp
                     /\ disk' \subseteq tmps \cup { s \in {w.fblk} : w.temp }
    <2>1. CASE Aborted(f, [iorec[f] EXCEPT !.fbuf = "closed"])
      <3> DEFINE r == [iorec[f] EXCEPT !.fbuf = "closed"]
      <3>1. Sound(r) /\ r.fblk = iorec[f].fblk /\ r.flev = iorec[f].flev
        BY <1>1 DEF Sound, FileRec
      <3>2. iorec' = [iorec EXCEPT ![f] = r] /\ status' = "aborted"
        BY <2>1 DEF Aborted
      <3> HIDE DEF r
      <3> QED
        BY <3>1, <3>2
    <2>2. CASE Aborted(f, rec)
      <3>1. iorec' = [iorec EXCEPT ![f] = rec] /\ status' = "aborted" /\ Sound(rec)
        BY <1>3, <2>2 DEF Aborted, Sound
      <3> QED
        BY <1>3, <3>1
    <2>3. CASE UseName(f, w, caller, tmps)
      <3>1. PICK r \in FileRec :
              /\ iorec' = [iorec EXCEPT ![f] = r]
              /\ Sound(r)
              /\ r.fblk = w.fblk /\ r.flev = w.flev /\ r.temp = w.temp
              /\ \/ status' = "aborted"
                 \/ /\ status' = status
                    /\ r.fdef \/ r.fbuf = "open"
                    /\ disk' \subseteq tmps \cup { s \in {w.fblk} : w.temp }
        BY <1>5, <2>3, UseNameFacts
      <3> QED
        BY <1>3, <1>5, <3>1
    <2> QED
      BY <1>4, <2>1, <2>2, <2>3
  <1>7. PICK r : /\ iorec' = [iorec EXCEPT ![f] = r]
                 /\ Sound(r)
                 /\ r.fblk = iorec[f].fblk /\ r.flev = iorec[f].flev
                 /\ \/ status' = "aborted"
                    \/ /\ status' = status
                       /\ r.fdef \/ r.fbuf = "open"
                       /\ r.temp = w.temp
                       /\ disk' \subseteq tmps \cup { s \in {w.fblk} : w.temp }
    BY <1>6
  <1>8. /\ iorec' \in [Files -> FileRec]
        /\ SlotsPointBack' /\ ChainInOrder' /\ RecordsAgree'
        /\ Active' = Active
    BY <1>2, <1>7, RecordWritten
  <1>9. iorec'[f] = r /\ \A g \in Files : g # f => iorec'[g] = iorec[g]
    BY <1>7 DEF FilesInv, Types
  <1>10. Types'
    BY <1>2, <1>7, <1>8 DEF FilesInv, Types
  <1>11. ASSUME status' # "aborted"
         PROVE  ListsAgree'
    <2>1. Nodes(fchain)' = Active' /\ Nodes(fchain)' \subseteq Accessible'
      BY <1>2, <1>8 DEF ListsAgree, Accessible
    <2>2. \A g \in Nodes(fchain') : iorec'[g].fdef \/ iorec'[g].fbuf = "open"
      BY <1>2, <1>7, <1>9, <1>11, ChainNodes DEF ListsAgree
    <2>3. ASSUME NEW s \in disk'
          PROVE  \E g \in Active' : iorec'[g].temp /\ iorec'[g].fblk = s
      <3>1. CASE s = w.fblk /\ w.temp
        BY <1>2, <1>3, <1>5, <1>7, <1>8, <1>9, <1>11, <3>1
      <3>2. CASE s \in tmps
        <4>1. s \in disk
          BY <3>2 DEF tmps
        <4>2. PICK g \in Active : iorec[g].temp /\ iorec[g].fblk = s
          BY <4>1 DEF ListsAgree
        <4>3. g \in Files /\ g \in Nodes(fchain)
          BY <4>2 DEF ListsAgree, Active
        <4>4. CASE g # f
          BY <1>8, <1>9, <4>2, <4>3, <4>4
        <4>5. CASE g = f /\ named
          <5>1. ~iorec[f].fdef /\ iorec[f].fbuf = "open"
            BY <1>1, <4>2, <4>3, <4>5 DEF ListsAgree
          <5>2. Removes(f)
            BY <4>2, <4>5, <5>1 DEF Removes, HasStream
          <5> QED
            BY <3>2, <4>2, <4>5, <5>2 DEF tmps
        <4>6. CASE g = f /\ ~named
          BY <1>2, <1>3, <1>5, <1>7, <1>8, <1>9, <1>11, <4>2, <4>6
        <4> QED
          BY <4>4, <4>5, <4>6
      <3>3. s \in tmps \/ (s = w.fblk /\ w.temp)
        BY <1>7, <1>11
      <3> QED
        BY <3>1, <3>2, <3>3
    <2> QED
      BY <2>1, <2>2, <2>3 DEF ListsAgree
  <1> QED
    BY <1>8, <1>10, <1>11 DEF FilesInv

\* A new record gets a slot and its place on the chain (GETNAME.c:74-131).
LEMMA ActivateKeepsInv ==
    ASSUME FilesInv, ListsAgree, status = "running", NEW f \in Files, f \in Accessible,
           NEW named \in BOOLEAN, NEW caller, caller = "DEFNAME" => named,
           Activate(f, named, caller), UNCHANGED <<run, depth, heap>>
    PROVE  FilesInv' /\ Active' = Active \cup {f}
  <1> DEFINE n == NextSlot
             rec == [Cleared EXCEPT !.fblk = n, !.flev = FileLevel(f)]
             w == WithName(rec, named)
  <1>1. n \in Slot /\ actfile[n] = FILNIL /\ n \in Nat
    BY NextSlotFacts DEF Activate, FilesInv, Types
  <1>2. /\ filefre' = n /\ actfile' = [actfile EXCEPT ![n] = f] /\ fchain' = Linked(f)
        /\ UseName(f, w, caller, disk) \/ Aborted(f, rec)
        /\ f \notin Active
    BY DEF Activate, NameTooLong, Active
  <1> HIDE DEF n
  <1>3. f \notin Nodes(fchain)
    BY <1>2 DEF ListsAgree
  <1>4. rec \in FileRec /\ (rec.temp <=> rec.fname = "tmp") /\ ~rec.fdef
        /\ rec.fblk = n /\ rec.flev = FileLevel(f) /\ rec.fbuf = "null"
    BY <1>1, LevelOf DEF Cleared, FileRec
  <1> HIDE DEF rec
  <1>5. /\ Sound(w) /\ ~w.fdef /\ w.fblk = n /\ w.flev = FileLevel(f) /\ w.fbuf = "null"
        /\ named => ~w.temp
    BY <1>4, WithNameIsSound
  <1> HIDE DEF w
  <1>6. PICK r \in FileRec :
              /\ iorec' = [iorec EXCEPT ![f] = r]
              /\ Sound(r)
              /\ r.fblk = w.fblk /\ r.flev = w.flev
              /\ \/ status' = "aborted"
                 \/ /\ status' = status
                    /\ r.fdef \/ r.fbuf = "open"
                    /\ r.temp = w.temp
                    /\ disk' \subseteq disk \cup { s \in {w.fblk} : w.temp }
    <2>1. CASE Aborted(f, rec)
      <3>1. iorec' = [iorec EXCEPT ![f] = rec] /\ status' = "aborted" /\ Sound(rec)
        BY <1>4, <2>1 DEF Aborted, Sound
      <3> QED
        BY <1>4, <1>5, <3>1
    <2>2. CASE UseName(f, w, caller, disk)
      <3>1. PICK r \in FileRec :
              /\ iorec' = [iorec EXCEPT ![f] = r]
              /\ Sound(r)
              /\ r.fblk = w.fblk /\ r.flev = w.flev /\ r.temp = w.temp
              /\ \/ status' = "aborted"
                 \/ /\ status' = status
                    /\ r.fdef \/ r.fbuf = "open"
                    /\ disk' \subseteq disk \cup { s \in {w.fblk} : w.temp }
        BY <1>5, <2>2, UseNameFacts
      <3> QED
        BY <3>1
    <2> QED
      BY <1>2, <2>1, <2>2
  <1>7. /\ iorec \in [Files -> FileRec] /\ actfile \in [Slot -> Files \cup {FILNIL}]
        /\ f # FILNIL /\ Active \subseteq Files
    BY Addresses DEF FilesInv, Types, FILNIL, Active
  <1>8. iorec'[f] = r /\ \A g \in Files : g # f => iorec'[g] = iorec[g]
    BY <1>6, <1>7
  <1>9. actfile'[n] = f /\ \A s \in Slot : s # n => actfile'[s] = actfile[s]
    BY <1>1, <1>2, <1>7
  <1>10. Linked(f) \in Seq(Files) /\ InOrder(Linked(f))
         /\ Nodes(Linked(f)) = Nodes(fchain) \cup {f}
    BY <1>3, LinkedInOrder
  <1>11. iorec' \in [Files -> FileRec] /\ actfile' \in [Slot -> Files \cup {FILNIL}]
    BY <1>1, <1>2, <1>6, <1>7
  <1>12. Types'
    <2>1. n \in PREDEF..MAXFILES
      BY <1>1, Addresses DEF Slot, PREDEF
    <2> QED
      BY <1>2, <1>6, <1>10, <1>11, <2>1 DEF FilesInv, Types
  <1>13. SlotsPointBack'
    <2>1. SUFFICES ASSUME NEW s \in Slot, actfile'[s] # FILNIL
                   PROVE  iorec'[actfile'[s]].fblk = s
      BY DEF SlotsPointBack
    <2>2. CASE s = n
      BY <1>5, <1>6, <1>8, <1>9, <2>2
    <2>3. CASE s # n
      <3>1. actfile'[s] = actfile[s] /\ actfile[s] \in Files /\ iorec[actfile[s]].fblk = s
        BY <1>7, <1>9, <2>1, <2>3 DEF FilesInv, SlotsPointBack
      <3>2. actfile[s] # f
        BY <1>2, <3>1 DEF Active, IsActive
      <3> QED
        BY <1>8, <3>1, <3>2
    <2> QED
      BY <2>2, <2>3
  <1>14. ChainInOrder'
    <2>1. \A g \in Nodes(fchain) : iorec[g].flev = FileLevel(g) /\ g \in Files
      BY ChainNodes DEF FilesInv, ChainInOrder
    <2>2. \A g \in Nodes(Linked(f)) : iorec'[g].flev = FileLevel(g)
      BY <1>3, <1>5, <1>6, <1>8, <1>10, <2>1
    <2> QED
      BY <1>2, <1>10, <2>2 DEF ChainInOrder
  <1>15. RecordsAgree'
    <2>1. ASSUME NEW g \in Files
          PROVE  /\ iorec'[g].fbuf = "open" => g \in Nodes(fchain') /\ ~iorec'[g].fdef
                 /\ iorec'[g].temp <=> iorec'[g].fname = "tmp"
                 /\ iorec'[g].fdef => ~iorec'[g].temp
      <3>1. CASE g = f
        BY <1>2, <1>6, <1>8, <1>10, <3>1 DEF Sound
      <3>2. CASE g # f
        BY <1>2, <1>8, <1>10, <3>2 DEF FilesInv, RecordsAgree
      <3> QED
        BY <3>1, <3>2
    <2> QED
      BY <2>1 DEF RecordsAgree
  <1>16. Active' = Active \cup {f}
    <2>1. ASSUME NEW g \in Files
          PROVE  g \in Active' <=> g \in Active \/ g = f
      <3>1. CASE g = f
        BY <1>1, <1>5, <1>6, <1>8, <1>9, <3>1 DEF Active, IsActive
      <3>2. CASE g # f
        <4>1. g # FILNIL
          BY Addresses DEF FILNIL
        <4> QED
          BY <1>1, <1>8, <1>9, <3>2, <4>1 DEF Active, IsActive
      <3> QED
        BY <3>1, <3>2
    <2> QED
      BY <1>7, <2>1 DEF Active
  <1>17. ASSUME status' # "aborted"
         PROVE  ListsAgree'
    <2>1. Nodes(fchain)' = Active' /\ Nodes(fchain)' \subseteq Accessible'
      BY <1>2, <1>10, <1>16 DEF ListsAgree, Accessible
    <2>2. \A g \in Nodes(fchain') : iorec'[g].fdef \/ iorec'[g].fbuf = "open"
      BY <1>2, <1>6, <1>8, <1>10, <1>17, ChainNodes DEF ListsAgree
    <2>3. ASSUME NEW s \in disk'
          PROVE  \E g \in Active' : iorec'[g].temp /\ iorec'[g].fblk = s
      <3>1. CASE s = w.fblk /\ w.temp
        BY <1>6, <1>8, <1>16, <1>17, <3>1
      <3>2. CASE s \in disk
        <4>1. PICK g \in Active : iorec[g].temp /\ iorec[g].fblk = s
          BY <3>2 DEF ListsAgree
        <4> QED
          BY <1>2, <1>7, <1>8, <1>16, <4>1
      <3> QED
        BY <1>6, <1>17, <3>1, <3>2
    <2> QED
      BY <2>1, <2>2, <2>3 DEF ListsAgree
  <1> QED
    BY <1>12, <1>13, <1>14, <1>15, <1>16, <1>17 DEF FilesInv

\* "File table overflow" (GETNAME.c:100) stops the program; the record it was for
\* is on no list.
LEMMA OverflowKeepsInv ==
    ASSUME FilesInv, ListsAgree, NEW f \in Files,
           TableOverflow(f), UNCHANGED <<run, depth, heap>>
    PROVE  FilesInv' /\ Active' = Active
  <1> DEFINE r == [Cleared EXCEPT !.fblk = iorec[f].fblk, !.flev = FileLevel(f)]
  <1>1. iorec[f] \in FileRec /\ f \notin Nodes(fchain)
    BY DEF FilesInv, Types, ListsAgree, TableOverflow, Active
  <1>2. Sound(r) /\ r.fblk = iorec[f].fblk /\ r.fbuf # "open"
    BY <1>1, LevelOf DEF Sound, FileRec, Cleared
  <1>3. iorec' = [iorec EXCEPT ![f] = r] /\ UNCHANGED <<fchain, actfile>>
        /\ status' = "aborted" /\ filefre' = MAXFILES
    BY DEF TableOverflow, Aborted
  <1> HIDE DEF r
  <1>4. /\ iorec' \in [Files -> FileRec]
        /\ SlotsPointBack' /\ ChainInOrder' /\ RecordsAgree'
        /\ Active' = Active
    BY <1>1, <1>2, <1>3, RecordWritten
  <1>5. MAXFILES \in PREDEF..MAXFILES
    BY Addresses DEF PREDEF
  <1> QED
    BY <1>3, <1>4, <1>5 DEF FilesInv, Types

\* GETNAME and its callers, in all their outcomes, add at most one active file.
LEMMA GetNameKeepsInv ==
    ASSUME FilesInv, NEW f \in Files, f \in Accessible, NEW named \in BOOLEAN, NEW caller,
           caller = "DEFNAME" => named /\ f \notin Active,
           GetName(f, named, caller)
    PROVE  /\ FilesInv' /\ UNCHANGED <<run, depth, heap>>
           /\ Active' = Active \/ Active' = Active \cup {f}
  <1>1. ListsAgree /\ status = "running" /\ UNCHANGED <<run, depth, heap>>
    BY DEF GetName, FilesInv
  <1>2. CASE Reactivate(f, named, caller)
    <2>1. caller # "DEFNAME"
      BY <1>2 DEF Reactivate, Active
    <2> QED
      BY <1>1, <1>2, <2>1, ReactivateKeepsInv
  <1>3. CASE Activate(f, named, caller)
    BY <1>1, <1>3, ActivateKeepsInv
  <1>4. CASE TableOverflow(f)
    BY <1>1, <1>4, OverflowKeepsInv
  <1> QED
    BY <1>1, <1>2, <1>3, <1>4 DEF GetName
-----------------------------------------------------------------------------
(* What the layout says of blocks and records.                             *)

\* A variable of the block at depth d > 1 lies between the locals of that block
\* and those of the block it was called from, and is no global file.
LEMMA FrameFacts ==
    ASSUME StackAboveGlobals, NEW d \in 1..MaxDepth, NEW f \in FrameFiles(1, d)
    PROVE  /\ f \in Files /\ CFrame <= f /\ FileLevel(f) = f
           /\ LocVars(1, d) \in Nat /\ f < LocVars(1, d)
           /\ \A e \in d + 1..MaxDepth : LocVars(1, e) \in Nat /\ LocVars(1, e) < f
  <1>1. 1 \in DOMAIN Stack /\ MaxDepth \in Nat
    BY LayoutAssumption
  <1>2. f \in StackFiles
    BY <1>1 DEF StackFiles
  <1>3. f \in Files /\ CFrame <= f
    BY <1>2 DEF Files, StackAboveGlobals
  <1>4. \A e \in 1..MaxDepth : LocVars(1, e) \in Nat
    BY <1>1, LayoutAssumption DEF LocVars
  <1>5. f < LocVars(1, d)
    BY <1>1, LayoutAssumption
  <1>6. ASSUME NEW e \in d + 1..MaxDepth
        PROVE  LocVars(1, e) < f
    <2>1. e \in 1..MaxDepth /\ d \in 1..e - 1
      BY <1>1
    <2> QED
      BY <1>1, <2>1, LayoutAssumption
  <1>7. \A e \in d + 1..MaxDepth : e \in 1..MaxDepth
    BY <1>1
  <1> QED
    BY <1>3, <1>4, <1>5, <1>6, <1>7, LevelOf

\* Static files and files of records lie below the C stack: their level is GLVL.
LEMMA GlobalFacts ==
    ASSUME StackAboveGlobals, NEW f \in Statics \cup UNION Record
    PROVE  f \in Files /\ f < CFrame /\ FileLevel(f) = GLVL
  BY LevelOf DEF Files, StackAboveGlobals

\* The files of different active blocks, and of different records, are different.
LEMMA BlockFacts ==
    ASSUME StackAboveGlobals, NEW d \in 1..MaxDepth, NEW f \in BlockFiles(1, d)
    PROVE  /\ f \in Files
           /\ \A e \in d + 1..MaxDepth : f \notin BlockFiles(1, e)
           /\ f \notin UNION Record
           /\ d > 1 => f \in FrameFiles(1, d)
  <1>1. MaxDepth \in Nat
    BY Addresses
  <1>2. \A e \in d + 1..MaxDepth : /\ e \in 1..MaxDepth /\ e # 1
                                   /\ BlockFiles(1, e) = FrameFiles(1, e)
    BY <1>1 DEF BlockFiles
  <1>3. CASE d = 1 /\ Compiled
    <2>1. f \in Statics
      BY <1>3 DEF BlockFiles
    <2>2. f \in Files /\ f < CFrame /\ f \in Nat /\ CFrame \in Nat
      BY <2>1, GlobalFacts, Addresses
    <2>3. \A e \in d + 1..MaxDepth : f \notin FrameFiles(1, e)
      BY <1>2, <2>2, FrameFacts
    <2>4. f \notin UNION Record
      BY <2>1 DEF StackAboveGlobals
    <2> QED
      BY <1>2, <1>3, <2>2, <2>3, <2>4
  <1>4. CASE ~(d = 1 /\ Compiled)
    <2>1. f \in FrameFiles(1, d)
      BY <1>4 DEF BlockFiles
    <2>2. /\ f \in Files /\ CFrame <= f /\ f \in Nat /\ CFrame \in Nat
          /\ \A e \in d + 1..MaxDepth : LocVars(1, e) \in Nat /\ LocVars(1, e) < f
      BY <2>1, FrameFacts, Addresses
    <2>3. ASSUME NEW e \in d + 1..MaxDepth, f \in FrameFiles(1, e)
          PROVE  FALSE
      <3>1. e \in 1..MaxDepth /\ f < LocVars(1, e) /\ LocVars(1, e) < f /\ LocVars(1, e) \in Nat
        BY <1>2, <2>2, <2>3, FrameFacts
      <3> QED
        BY <2>2, <3>1
    <2>4. f \notin UNION Record
      BY <2>2, GlobalFacts
    <2> QED
      BY <1>2, <2>1, <2>2, <2>3, <2>4
  <1> QED
    BY <1>3, <1>4

\* A variable that can be named is one of an active block or an allocated record.
LEMMA AccessibleIsFiles ==
    ASSUME StackAboveGlobals, FilesInv
    PROVE  /\ Accessible \subseteq Files
           /\ Accessible = (UNION { BlockFiles(1, d) : d \in 1..depth }) \cup UNION heap
           /\ \A f \in Accessible : \/ \E d \in 1..depth : f \in BlockFiles(1, d)
                                    \/ \E r \in heap : f \in r
           /\ depth \in 1..MaxDepth /\ heap \subseteq Record
           /\ \A d \in 1..depth : d \in 1..MaxDepth
  <1>1. run = 1 /\ depth \in 1..MaxDepth /\ heap \subseteq Record /\ MaxDepth \in Nat
    BY Addresses DEF FilesInv, Types
  <1>2. \A d \in 1..depth : d \in 1..MaxDepth
    BY <1>1
  <1>3. Accessible = (UNION { BlockFiles(1, d) : d \in 1..depth }) \cup UNION heap
    BY <1>1 DEF Accessible
  <1>4. \A d \in 1..depth : BlockFiles(1, d) \subseteq Files
    BY <1>2, BlockFacts
  <1>5. \A r \in heap : r \subseteq Files
    BY <1>1 DEF Files
  <1>6. ASSUME NEW f \in Accessible
        PROVE  \/ \E d \in 1..depth : f \in BlockFiles(1, d)
               \/ \E r \in heap : f \in r
    <2> DEFINE B == UNION { BlockFiles(1, d) : d \in 1..depth }
               H == UNION heap
    <2>1. Accessible = B \cup H
      BY <1>3
    <2>2. f \in B => \E d \in 1..depth : f \in BlockFiles(1, d)
      OBVIOUS
    <2>3. f \in H => \E r \in heap : f \in r
      OBVIOUS
    <2> HIDE DEF B, H
    <2> QED
      BY <2>1, <2>2, <2>3
  <1>7. Accessible \subseteq Files
    BY <1>4, <1>5, <1>6
  <1> QED
    BY <1>1, <1>2, <1>3, <1>6, <1>7, Zenon
-----------------------------------------------------------------------------
(* Blocks and records.                                                     *)

\* Memory that holds no file of the chain may be cleared.
LEMMA ClearKeepsInv ==
    ASSUME FilesInv, ListsAgree, NEW S \in SUBSET Files, S \cap Nodes(fchain) = {},
           iorec' = [f \in Files |-> IF f \in S THEN Cleared ELSE iorec[f]],
           UNCHANGED <<run, lists, disk, status>>,
           depth' \in 1..MaxDepth, heap' \subseteq Record, Accessible \subseteq Accessible'
    PROVE  FilesInv' /\ Active' = Active
  <1>1. /\ iorec \in [Files -> FileRec] /\ actfile \in [Slot -> Files \cup {FILNIL}]
        /\ UNCHANGED <<fchain, actfile, filefre>>
    BY DEF FilesInv, Types, lists
  <1>2. Cleared \in FileRec
    BY DEF Cleared, FileRec
  <1>3. iorec' \in [Files -> FileRec]
    BY <1>1, <1>2
  <1>4. /\ \A f \in Files \ S : iorec'[f] = iorec[f]
        /\ \A f \in S : iorec'[f] = Cleared
    OBVIOUS
  <1>5. Types'
    BY <1>1, <1>3 DEF FilesInv, Types
  <1>6. SlotsPointBack'
    <2>1. SUFFICES ASSUME NEW s \in Slot, actfile[s] # FILNIL
                   PROVE  iorec'[actfile[s]].fblk = s
      BY <1>1 DEF SlotsPointBack
    <2>2. actfile[s] \in Files /\ iorec[actfile[s]].fblk = s
      BY <1>1, <2>1 DEF FilesInv, SlotsPointBack
    <2>3. actfile[s] \in Nodes(fchain)
      BY <2>2 DEF ListsAgree, Active, IsActive
    <2> QED
      BY <1>4, <2>2, <2>3
  <1>7. \A f \in Nodes(fchain) : f \in Files \ S
    BY ChainNodes
  <1>8. ChainInOrder'
    BY <1>1, <1>4, <1>7 DEF FilesInv, ChainInOrder
  <1>9. RecordsAgree'
    <2>1. ASSUME NEW f \in Files
          PROVE  /\ iorec'[f].fbuf = "open" => f \in Nodes(fchain) /\ ~iorec'[f].fdef
                 /\ iorec'[f].temp <=> iorec'[f].fname = "tmp"
                 /\ iorec'[f].fdef => ~iorec'[f].temp
      <3>1. CASE f \in S
        BY <1>4, <3>1 DEF Cleared
      <3>2. CASE f \notin S
        BY <1>4, <3>2 DEF FilesInv, RecordsAgree
      <3> QED
        BY <3>1, <3>2
    <2> QED
      BY <1>1, <2>1 DEF RecordsAgree
  <1>10. Active' = Active
    <2>1. ASSUME NEW f \in Files
          PROVE  f \in Active' <=> f \in Active
      <3>1. CASE f \in S
        <4>1. f \notin Active
          BY <3>1 DEF ListsAgree
        <4>2. 0 \notin Slot
          BY Addresses DEF Slot, PREDEF
        <4> QED
          BY <1>4, <3>1, <4>1, <4>2 DEF Active, IsActive, Cleared
      <3>2. CASE f \notin S
        BY <1>1, <1>4, <3>2 DEF Active, IsActive
      <3> QED
        BY <3>1, <3>2
    <2> QED
      BY <2>1 DEF Active
  <1>11. ListsAgree'
    <2>1. Nodes(fchain)' = Active' /\ Nodes(fchain)' \subseteq Accessible'
      BY <1>1, <1>10 DEF ListsAgree
    <2>2. \A f \in Nodes(fchain') : iorec'[f].fdef \/ iorec'[f].fbuf = "open"
      BY <1>1, <1>4, <1>7 DEF ListsAgree
    <2>3. \A s \in disk' : \E g \in Active' : iorec'[g].temp /\ iorec'[g].fblk = s
      BY <1>4, <1>7, <1>10 DEF ListsAgree
    <2> QED
      BY <2>1, <2>2, <2>3 DEF ListsAgree
  <1> QED
    BY <1>5, <1>6, <1>8, <1>9, <1>10, <1>11 DEF FilesInv

\* O_BEG clears at most memory that holds no active file (interp.c:390-411).
LEMMA EnterKeepsInv ==
    ASSUME StackAboveGlobals, FilesInv, Enter
    PROVE  FilesInv' /\ Active' = Active
  <1>1. /\ ListsAgree /\ depth' = depth + 1 /\ heap' = heap
        /\ UNCHANGED <<run, lists, disk, status>>
    BY DEF Enter, FilesInv
  <1>2. depth \in 1..MaxDepth /\ depth' \in 1..MaxDepth /\ run = 1 /\ heap' \subseteq Record
    BY <1>1, Addresses DEF Enter, FilesInv, Types
  <1>3. Accessible \subseteq Accessible'
    <2>1. \A d \in 1..depth : d \in 1..depth'
      BY <1>1, <1>2
    <2> QED
      BY <1>1, <2>1 DEF Accessible
  <1>4. PICK S \in SUBSET Files :
            /\ S \cap Nodes(fchain) = {}
            /\ iorec' = [f \in Files |-> IF f \in S THEN Cleared ELSE iorec[f]]
    <2>1. CASE UNCHANGED iorec
      <3>1. iorec' = [f \in Files |-> IF f \in {} THEN Cleared ELSE iorec[f]]
        BY <2>1 DEF FilesInv, Types
      <3>2. {} \in SUBSET Files /\ {} \cap Nodes(fchain) = {}
        OBVIOUS
      <3> QED
        BY <3>1, <3>2, Zenon
    <2>2. CASE iorec' = [f \in Files |-> IF f \in FrameFiles(run, depth')
                                         THEN Cleared ELSE iorec[f]]
      <3>1. ASSUME NEW f \in FrameFiles(1, depth')
            PROVE  f \in Files /\ f \notin Accessible
        <4>1. f \in Files /\ FrameFiles(1, depth') = BlockFiles(1, depth')
          BY <1>1, <1>2, FrameFacts, Addresses DEF BlockFiles
        <4>2. f \notin UNION heap
          BY <1>1, <1>2, <4>1, BlockFacts
        <4>3. ASSUME NEW d \in 1..depth
              PROVE  f \notin BlockFiles(1, d)
          <5>1. d \in 1..MaxDepth /\ depth' \in d + 1..MaxDepth
            BY <1>1, <1>2, Addresses
          <5> QED
            BY <4>1, <5>1, BlockFacts
        <4> QED
          BY <4>1, <4>2, <4>3, AccessibleIsFiles
      <3> QED
        BY <1>1, <1>2, <2>2, <3>1 DEF ListsAgree
    <2> QED
      BY <2>1, <2>2 DEF Enter
  <1> QED
    BY <1>1, <1>2, <1>3, <1>4, ClearKeepsInv

\* NEW clears memory that holds no active file (NEW.c:44-55).
LEMMA NewKeepsInv ==
    ASSUME StackAboveGlobals, FilesInv, NEW r \in Record, New(r)
    PROVE  FilesInv' /\ Active' = Active
  <1>1. /\ ListsAgree /\ depth' = depth /\ heap' = heap \cup {r} /\ r \notin heap
        /\ UNCHANGED <<run, lists, disk, status>>
        /\ iorec' = [f \in Files |-> IF f \in r THEN Cleared ELSE iorec[f]]
    BY DEF New, FilesInv
  <1>2. depth' \in 1..MaxDepth /\ heap' \subseteq Record /\ r \in SUBSET Files
    BY <1>1 DEF FilesInv, Types, Files
  <1>3. Accessible \subseteq Accessible'
    BY <1>1 DEF Accessible
  <1>4. r \cap Accessible = {}
    <2>1. ASSUME NEW d \in 1..depth
          PROVE  r \cap BlockFiles(1, d) = {}
      BY AccessibleIsFiles, BlockFacts
    <2>2. ASSUME NEW q \in heap
          PROVE  r \cap q = {}
      BY <1>1, AccessibleIsFiles DEF StackAboveGlobals
    <2> QED
      BY <2>1, <2>2, AccessibleIsFiles
  <1> QED
    BY <1>1, <1>2, <1>3, <1>4, ClearKeepsInv DEF ListsAgree
-----------------------------------------------------------------------------
(* Closing the files of a block, a record or the program.                  *)

\* The loop of PCLOSE and DFDISPOSE makes inactive exactly the files it meets.
LEMMA CloseRunKeepsInv ==
    ASSUME FilesInv, ListsAgree, NEW p \in 0..Len(fchain), NEW C, CloseRun(C, p),
           depth' \in 1..MaxDepth, heap' \subseteq Record, status' \in {"running", "ended"},
           Nodes(fchain) \ Met(C, p) \subseteq Accessible'
    PROVE  FilesInv' /\ Active' = Active \ Met(C, p)
  <1> DEFINE S == Met(C, p)
  <1>1. /\ fchain' \in Seq(Files) /\ InOrder(fchain')
        /\ Nodes(fchain') = Nodes(fchain) \ S
        /\ S \subseteq Nodes(fchain) /\ Nodes(fchain) \subseteq Files
        /\ PfClose(S) /\ run' = run /\ filefre' = filefre
    BY CloseRunCuts, ChainNodes
  <1> HIDE DEF S
  <1>2. /\ iorec' \in [Files -> FileRec]
        /\ actfile' \in [Slot -> Files \cup {FILNIL}]
        /\ SlotsPointBack'
        /\ Active' = Active \ S
        /\ \A f \in Files \ S : iorec'[f] = iorec[f]
        /\ \A f \in S : iorec'[f] = Dead(f)
        /\ \A s \in disk' : \E g \in Active' : iorec'[g].temp /\ iorec'[g].fblk = s
    BY <1>1, PfCloseFacts
  <1>3. Types'
    BY <1>1, <1>2 DEF FilesInv, Types
  <1>4. \A f \in Nodes(fchain') : f \in Files \ S /\ f \in Nodes(fchain)
    BY <1>1
  <1>5. ChainInOrder'
    BY <1>1, <1>2, <1>4 DEF FilesInv, ChainInOrder
  <1>6. RecordsAgree'
    <2>1. ASSUME NEW f \in Files
          PROVE  /\ iorec'[f].fbuf = "open" => f \in Nodes(fchain') /\ ~iorec'[f].fdef
                 /\ iorec'[f].temp <=> iorec'[f].fname = "tmp"
                 /\ iorec'[f].fdef => ~iorec'[f].temp
      <3>1. CASE f \in S
        <4>1. /\ iorec'[f].fbuf = IF HasStream(f) THEN "closed" ELSE iorec[f].fbuf
              /\ ~iorec'[f].fdef /\ ~iorec'[f].temp /\ iorec'[f].fname # "tmp"
          <5>1. /\ Dead(f).fbuf = IF HasStream(f) THEN "closed" ELSE iorec[f].fbuf
                /\ ~Dead(f).fdef /\ ~Dead(f).temp /\ Dead(f).fname # "tmp"
            BY DEF Dead, Cleared
          <5> QED
            BY <1>2, <3>1, <5>1
        <4>2. iorec[f].fbuf = "open" => HasStream(f)
          BY DEF FilesInv, RecordsAgree, HasStream
        <4>3. iorec'[f].fbuf # "open"
          BY <4>1, <4>2
        <4>4. iorec'[f].temp \in BOOLEAN
          BY <1>2 DEF FileRec
        <4> QED
          BY <4>1, <4>3, <4>4
      <3>2. CASE f \notin S
        BY <1>1, <1>2, <3>2 DEF FilesInv, RecordsAgree
      <3> QED
        BY <3>1, <3>2
    <2> QED
      BY <2>1 DEF RecordsAgree
  <1>7. ListsAgree'
    <2>1. Nodes(fchain)' = Active' /\ Nodes(fchain)' \subseteq Accessible'
      BY <1>1, <1>2 DEF ListsAgree, S
    <2>2. \A f \in Nodes(fchain') : iorec'[f].fdef \/ iorec'[f].fbuf = "open"
      BY <1>2, <1>4 DEF ListsAgree
    <2> QED
      BY <1>2, <2>1, <2>2 DEF ListsAgree
  <1> QED
    BY <1>2, <1>3, <1>5, <1>6, <1>7 DEF FilesInv, S

\* A temporary file that cannot be removed stops the loop (PFCLOSE.c:67): streams
\* are closed and slots are freed up to there, and the chain is as it was.
LEMMA CloseRunFailsKeepsInv ==
    ASSUME FilesInv, NEW p, NEW C, CloseRunFails(C, p)
    PROVE  /\ FilesInv' /\ Active' \subseteq Active
           /\ status' = "aborted" /\ UNCHANGED <<depth, heap>>
  <1>1. PICK closed \in SUBSET Files, slots \in SUBSET Slot :
          /\ iorec' = [f \in Files |-> IF f \in closed THEN [iorec[f] EXCEPT !.fbuf = "closed"]
                                       ELSE iorec[f]]
          /\ actfile' = [s \in Slot |-> IF s \in slots THEN FILNIL ELSE actfile[s]]
          /\ status' = "aborted" /\ UNCHANGED <<run, depth, heap, fchain, filefre>>
    <2>1. PICK g \in Met(C, p) :
            LET done == Met(C \ {g}, p)
                closed == { f \in done \cup {g} : HasStream(f) }
            IN /\ iorec' = [f \in Files |->
                             IF f \in closed THEN [iorec[f] EXCEPT !.fbuf = "closed"]
                             ELSE iorec[f]]
               /\ actfile' = [s \in Slot |-> IF \E f \in done : iorec[f].fblk = s
                                             THEN FILNIL ELSE actfile[s]]
               /\ status' = "aborted" /\ UNCHANGED <<run, depth, heap, fchain, filefre>>
      BY DEF CloseRunFails
    <2> DEFINE done == Met(C \ {g}, p)
               closed == { f \in Files : f \in done \cup {g} /\ HasStream(f) }
               slots == { s \in Slot : \E f \in done : iorec[f].fblk = s }
    <2>2. iorec' = [f \in Files |-> IF f \in closed THEN [iorec[f] EXCEPT !.fbuf = "closed"]
                                    ELSE iorec[f]]
      BY <2>1
    <2>3. actfile' = [s \in Slot |-> IF s \in slots THEN FILNIL ELSE actfile[s]]
      BY <2>1
    <2>4. closed \in SUBSET Files /\ slots \in SUBSET Slot
      OBVIOUS
    <2> HIDE DEF closed, slots, done
    <2> QED
      BY <2>1, <2>2, <2>3, <2>4
  <1>2. /\ iorec \in [Files -> FileRec] /\ actfile \in [Slot -> Files \cup {FILNIL}]
    BY DEF FilesInv, Types
  <1>3. ASSUME NEW f \in Files
        PROVE  /\ iorec'[f] \in FileRec
               /\ iorec'[f].fblk = iorec[f].fblk /\ iorec'[f].flev = iorec[f].flev
               /\ iorec'[f].temp = iorec[f].temp /\ iorec'[f].fname = iorec[f].fname
               /\ iorec'[f].fdef = iorec[f].fdef
               /\ iorec'[f].fbuf = "open" => iorec[f].fbuf = "open"
    <2>1. iorec[f] \in FileRec
      BY <1>2
    <2>2. CASE f \in closed
      <3>1. iorec'[f] = [iorec[f] EXCEPT !.fbuf = "closed"]
        BY <1>1, <2>2
      <3> QED
        BY <2>1, <3>1 DEF FileRec
    <2>3. CASE f \notin closed
      <3>1. iorec'[f] = iorec[f]
        BY <1>1, <2>3
      <3> QED
        BY <2>1, <3>1
    <2> QED
      BY <2>2, <2>3
  <1>4. iorec' \in [Files -> FileRec] /\ actfile' \in [Slot -> Files \cup {FILNIL}]
    BY <1>1, <1>2, <1>3
  <1>5. \A s \in Slot : actfile'[s] = FILNIL \/ actfile'[s] = actfile[s]
    BY <1>1
  <1>6. Types'
    BY <1>1, <1>4 DEF FilesInv, Types
  <1>7. SlotsPointBack'
    <2>1. SUFFICES ASSUME NEW s \in Slot, actfile'[s] # FILNIL
                   PROVE  iorec'[actfile'[s]].fblk = s
      BY DEF SlotsPointBack
    <2>2. actfile'[s] = actfile[s] /\ actfile[s] \in Files
      BY <1>2, <1>5, <2>1
    <2> QED
      BY <1>3, <2>1, <2>2 DEF FilesInv, SlotsPointBack
  <1>8. ChainInOrder'
    <2>1. \A f \in Nodes(fchain) : f \in Files
      BY ChainNodes
    <2> QED
      BY <1>1, <1>3, <2>1 DEF FilesInv, ChainInOrder
  <1>9. RecordsAgree'
    <2>1. ASSUME NEW f \in Files
          PROVE  /\ iorec'[f].fbuf = "open" => f \in Nodes(fchain) /\ ~iorec'[f].fdef
                 /\ iorec'[f].temp <=> iorec'[f].fname = "tmp"
                 /\ iorec'[f].fdef => ~iorec'[f].temp
      BY <1>3 DEF FilesInv, RecordsAgree
    <2> QED
      BY <1>1, <2>1 DEF RecordsAgree
  <1>10. Active' \subseteq Active
    <2>1. ASSUME NEW f \in Files, f \in Active'
          PROVE  f \in Active
      <3>1. f # FILNIL
        BY Addresses DEF FILNIL
      <3> QED
        BY <1>3, <1>5, <2>1, <3>1 DEF Active, IsActive
    <2> QED
      BY <2>1 DEF Active
  <1> QED
    BY <1>1, <1>6, <1>7, <1>8, <1>9, <1>10 DEF FilesInv

\* What PCLOSE(level) meets is every file of that level or a lower one.
LEMMA MetByLevel ==
    ASSUME FilesInv, NEW level \in Nat
    PROVE  Met(UpTo(level), 0) = { f \in Nodes(fchain) : FileLevel(f) <= level }
  <1> DEFINE c == fchain
             n == Len(fchain)
             k == WalkEnd(UpTo(level), 0)
  <1>1. n \in Nat /\ \A i \in 1..n : /\ c[i] \in Files /\ FileLevel(c[i]) \in Nat
                                     /\ c[i] \in UpTo(level) <=> FileLevel(c[i]) <= level
    BY ChainNodes, LevelOf DEF UpTo
  <1>2. k \in 0..n /\ (\A i \in 0 + 1..k : c[i] \in UpTo(level))
        /\ (k < n => c[k + 1] \notin UpTo(level))
    BY <1>1, ChainNodes, WalkFacts
  <1>3. Met(UpTo(level), 0) = { c[i] : i \in 0 + 1..k }
    BY DEF Met
  <1> HIDE DEF k
  <1>4. ASSUME NEW i \in 1..n
        PROVE  i \in 1..k <=> FileLevel(c[i]) <= level
    <2>1. CASE i \in 1..k
      BY <1>1, <1>2, <2>1
    <2>2. CASE i > k
      <3>1. k + 1 \in 1..n /\ k < n /\ (i = k + 1 \/ k + 1 < i) /\ i \notin 1..k
        BY <1>1, <1>2, <2>2
      <3>2. ~(FileLevel(c[k + 1]) <= level)
        BY <1>1, <1>2, <3>1
      <3>3. FileLevel(c[k + 1]) <= FileLevel(c[i])
        BY <1>1, <3>1, LevelsAscend
      <3> QED
        BY <1>1, <3>1, <3>2, <3>3
    <2>3. i \in 1..k \/ i > k
      BY <1>1, <1>2
    <2> QED
      BY <2>1, <2>2, <2>3
  <1>5. 0 + 1..k \subseteq 1..n /\ 0 + 1..k = 1..k
    BY <1>1, <1>2
  <1> QED
    BY <1>3, <1>4, <1>5 DEF Nodes

\* The first and the last address of a record.
LEMMA EndsOfRecord ==
    ASSUME StackAboveGlobals, NEW r \in Record
    PROVE  /\ Lowest(r) \in r /\ Highest(r) \in r /\ r \subseteq Files
           /\ \A f \in r : Lowest(r) <= f /\ f <= Highest(r)
           /\ \A f \in Files : f \in r <=> Lowest(r) <= f /\ f <= Highest(r)
  <1>1. r # {} /\ r \subseteq Files /\ \A f \in r : f \in Nat /\ f < GLVL
    BY LayoutAssumption DEF Files
  <1>2. \E x \in r : \A y \in r : x <= y
    BY <1>1, Smallest
  <1>3. \E x \in r : \A y \in r : x >= y
    <2> DEFINE below == { GLVL - x : x \in r }
    <2>1. below \in SUBSET Nat /\ below # {}
      BY <1>1, Addresses
    <2>2. PICK z \in below : \A y \in below : z <= y
      BY <2>1, Smallest
    <2>3. PICK x \in r : z = GLVL - x
      BY <2>2
    <2>4. ASSUME NEW y \in r
          PROVE  x >= y
      <3>1. GLVL - x <= GLVL - y
        BY <2>2, <2>3
      <3> QED
        BY <1>1, <3>1, Addresses
    <2> QED
      BY <2>4
  <1>4. Lowest(r) \in r /\ \A y \in r : Lowest(r) <= y
    BY <1>2 DEF Lowest
  <1>5. Highest(r) \in r /\ \A y \in r : Highest(r) >= y
    BY <1>3 DEF Highest
  <1>6. \A f \in r : Lowest(r) <= f /\ f <= Highest(r)
    BY <1>1, <1>4, <1>5
  <1>7. \A f \in Files : Lowest(r) <= f /\ f <= Highest(r) => f \in r
    BY DEF StackAboveGlobals
  <1> QED
    BY <1>1, <1>4, <1>5, <1>6, <1>7

\* What DFDISPOSE meets is every file of the record (DFDISPOSE.c:45-65).
LEMMA MetInRecord ==
    ASSUME StackAboveGlobals, FilesInv, NEW r \in Record
    PROVE  /\ BeforeRecord(r) \in 0..Len(fchain)
           /\ Met({ f \in Files : Lowest(r) <= f /\ f <= Highest(r) }, BeforeRecord(r))
              = Nodes(fchain) \cap r
  <1> DEFINE c == fchain
             n == Len(fchain)
             A == { f \in Files : iorec[f].flev < GLVL \/ f < Lowest(r) }
             W == { f \in Files : Lowest(r) <= f /\ f <= Highest(r) }
             p == BeforeRecord(r)
             k == WalkEnd(W, p)
  <1>1. n \in Nat /\ GLVL \in Nat /\ \A i \in 1..n :
           /\ c[i] \in Files /\ c[i] \in Nat /\ iorec[c[i]].flev = FileLevel(c[i])
           /\ FileLevel(c[i]) \in Nat /\ FileLevel(c[i]) <= GLVL
    BY ChainNodes, LevelOf, Addresses
  <1>2. Lowest(r) \in Nat /\ Highest(r) \in Nat /\ W = r
        /\ \A f \in r : FileLevel(f) = GLVL /\ f \in Files
    BY EndsOfRecord, GlobalFacts, Addresses
  <1>3. p \in 0..n /\ (\A i \in 0 + 1..p : c[i] \in A) /\ (p < n => c[p + 1] \notin A)
    <2>1. p = WalkEnd(A, 0)
      BY DEF BeforeRecord
    <2> HIDE DEF A, p
    <2> QED
      BY <1>1, <2>1, ChainNodes, WalkFacts
  <1> HIDE DEF p
  <1>4. k \in p..n /\ (\A i \in p + 1..k : c[i] \in W) /\ (k < n => c[k + 1] \notin W)
    <2> HIDE DEF W
    <2> QED
      BY <1>3, ChainNodes, WalkFacts
  <1>5. Met(W, p) = { c[i] : i \in p + 1..k }
    BY DEF Met
  <1> HIDE DEF k
  <1>6. ASSUME NEW i \in 1..n
        PROVE  i \in p + 1..k <=> c[i] \in r
    <2>1. CASE i \in 1..p
      <3>1. c[i] \in A /\ i \notin p + 1..k
        BY <1>1, <1>3, <2>1
      <3>2. c[i] \notin r
        BY <1>1, <1>2, <3>1
      <3> QED
        BY <3>1, <3>2
    <2>2. CASE i \in p + 1..k
      BY <1>2, <1>4, <2>2
    <2>3. CASE i > k
      <3>1. /\ p + 1 \in 1..n /\ k + 1 \in 1..n /\ k < n /\ p < n /\ i \notin p + 1..k
            /\ (i = k + 1 \/ k + 1 < i) /\ (k + 1 = p + 1 \/ p + 1 < k + 1)
        BY <1>1, <1>3, <1>4, <2>3
      <3>2. FileLevel(c[p + 1]) = GLVL /\ Lowest(r) <= c[p + 1]
        BY <1>1, <1>2, <1>3, <3>1
      <3>3. FileLevel(c[k + 1]) = GLVL /\ Lowest(r) <= c[k + 1]
        <4>1. k = p \/ Before(c[p + 1], c[k + 1])
          BY <1>1, <1>3, <1>4, <3>1, ChainNodes DEF InOrder
        <4> QED
          BY <1>1, <1>2, <3>1, <3>2, <4>1 DEF Before
      <3>4. c[k + 1] > Highest(r)
        BY <1>1, <1>2, <1>4, <3>1, <3>3
      <3>5. c[i] > Highest(r)
        <4>1. i = k + 1 \/ Before(c[k + 1], c[i])
          BY <3>1, ChainNodes DEF InOrder
        <4> QED
          BY <1>1, <1>2, <3>1, <3>3, <3>4, <4>1 DEF Before
      <3>6. c[i] \notin r
        BY <1>1, <1>2, <3>5, EndsOfRecord
      <3> QED
        BY <3>1, <3>6
    <2>4. i \in 1..p \/ i \in p + 1..k \/ i > k
      BY <1>1, <1>3, <1>4
    <2> QED
      BY <2>1, <2>2, <2>3, <2>4
  <1>7. p + 1..k \subseteq 1..n
    BY <1>1, <1>3, <1>4
  <1>8. Met(W, p) = Nodes(fchain) \cap r
    BY <1>5, <1>6, <1>7 DEF Nodes
  <1> QED
    BY <1>3, <1>8 DEF p

\* PCLOSE at the end of a block closes the files of this block (PCLOSE.c:50), and
\* no other.
LEMMA MetAtLeave ==
    ASSUME StackAboveGlobals, FilesInv, ListsAgree, depth > 1
    PROVE  Met(UpTo(LocVars(run, depth)), 0) = Nodes(fchain) \cap BlockFiles(1, depth)
  <1> DEFINE level == LocVars(1, depth)
  <1>1. depth \in 2..MaxDepth /\ run = 1 /\ MaxDepth \in Nat /\ GLVL \in Nat
    BY Addresses DEF FilesInv, Types
  <1>2. level \in Nat /\ level < GLVL
    <2>1. 1 \in DOMAIN Stack /\ depth \in 1..MaxDepth
      BY <1>1, LayoutAssumption
    <2> QED
      BY <1>1, <2>1, LayoutAssumption DEF StackAboveGlobals, LocVars
  <1>3. Met(UpTo(level), 0) = { f \in Nodes(fchain) : FileLevel(f) <= level }
    BY <1>2, MetByLevel
  <1> HIDE DEF level
  <1>4. ASSUME NEW f \in Nodes(fchain)
        PROVE  FileLevel(f) <= level <=> f \in BlockFiles(1, depth)
    <2>1. f \in Accessible /\ f \in Files /\ FileLevel(f) \in Nat
      BY ChainNodes, LevelOf DEF ListsAgree
    <2>2. ASSUME NEW r \in heap, f \in r
          PROVE  ~(FileLevel(f) <= level) /\ f \notin BlockFiles(1, depth)
      <3>1. r \in Record /\ f \in UNION Record
        BY <2>2, AccessibleIsFiles
      <3>2. FileLevel(f) = GLVL
        BY <3>1, GlobalFacts
      <3>3. f \notin BlockFiles(1, depth)
        BY <1>1, <3>1, BlockFacts
      <3> QED
        BY <1>1, <1>2, <3>2, <3>3
    <2>3. ASSUME f \in BlockFiles(1, depth)
          PROVE  FileLevel(f) <= level
      <3>1. f \in FrameFiles(1, depth) /\ depth \in 1..MaxDepth
        BY <1>1, <2>3, BlockFacts
      <3>2. FileLevel(f) = f /\ f < level /\ f \in Nat
        BY <2>1, <3>1, FrameFacts, Addresses DEF level
      <3> QED
        BY <1>2, <3>2
    <2>4. ASSUME NEW d \in 1..depth, d # depth, f \in BlockFiles(1, d)
          PROVE  ~(FileLevel(f) <= level) /\ f \notin BlockFiles(1, depth)
      <3>1. d \in 1..MaxDepth /\ depth \in d + 1..MaxDepth
        BY <1>1, <2>4
      <3>2. f \notin BlockFiles(1, depth)
        BY <2>4, <3>1, BlockFacts
      <3>3. CASE d = 1 /\ Compiled
        <4>1. f \in Statics
          BY <2>4, <3>3 DEF BlockFiles
        <4>2. FileLevel(f) = GLVL
          BY <4>1, GlobalFacts
        <4> QED
          BY <1>1, <1>2, <3>2, <4>2
      <3>4. CASE ~(d = 1 /\ Compiled)
        <4>1. f \in FrameFiles(1, d)
          BY <2>4, <3>4 DEF BlockFiles
        <4>2. FileLevel(f) = f /\ level < f
          BY <3>1, <4>1, FrameFacts DEF level
        <4> QED
          BY <1>2, <2>1, <3>2, <4>2
      <3> QED
        BY <3>3, <3>4
    <2>5. \/ \E d \in 1..depth : f \in BlockFiles(1, d)
          \/ \E r \in heap : f \in r
      BY <2>1, AccessibleIsFiles
    <2> QED
      BY <2>2, <2>3, <2>4, <2>5
  <1> QED
    BY <1>1, <1>3, <1>4 DEF level

\* What the end of a block does to the active files.
LEMMA LeaveKeepsInv ==
    ASSUME StackAboveGlobals, FilesInv, Leave
    PROVE  /\ FilesInv'
           /\ \/ /\ depth > 1 /\ depth' = depth - 1 /\ UNCHANGED <<heap, status>>
                 /\ Active' = Active \ BlockFiles(1, depth)
              \/ /\ status' = "aborted" /\ UNCHANGED <<depth, heap>>
                 /\ Active' \subseteq Active
  <1> DEFINE C == UpTo(LocVars(run, depth))
  <1>1. ListsAgree /\ depth > 1 /\ status = "running"
    BY DEF Leave, FilesInv
  <1>2. CASE CloseRunFails(C, 0)
    BY <1>2, CloseRunFailsKeepsInv
  <1>3. CASE CloseRun(C, 0) /\ depth' = depth - 1 /\ UNCHANGED <<heap, status>>
    <2>1. Met(C, 0) = Nodes(fchain) \cap BlockFiles(1, depth)
      BY <1>1, MetAtLeave
    <2> HIDE DEF C
    <2>2. depth \in 1..MaxDepth /\ depth' \in 1..MaxDepth /\ heap' \subseteq Record
      BY <1>1, <1>3, Addresses DEF FilesInv, Types
    <2>3. Nodes(fchain) \ Met(C, 0) \subseteq Accessible'
      <3>1. SUFFICES ASSUME NEW f \in Nodes(fchain), f \notin BlockFiles(1, depth)
                     PROVE  f \in Accessible'
        BY <2>1
      <3>2. Accessible' = (UNION { BlockFiles(1, d) : d \in 1..depth' }) \cup UNION heap
        BY <1>3 DEF Accessible, CloseRun, FilesInv, Types
      <3>3. \/ \E d \in 1..depth : f \in BlockFiles(1, d)
            \/ \E r \in heap : f \in r
        BY <1>1, AccessibleIsFiles DEF ListsAgree
      <3>4. ASSUME NEW d \in 1..depth, f \in BlockFiles(1, d)
            PROVE  f \in Accessible'
        <4>1. d \in 1..depth'
          BY <1>3, <2>2, <3>1, <3>4
        <4> QED
          BY <3>2, <3>4, <4>1
      <3>5. ASSUME NEW r \in heap, f \in r
            PROVE  f \in Accessible'
        BY <3>2, <3>5
      <3> QED
        BY <3>3, <3>4, <3>5
    <2>4. 0 \in 0..Len(fchain) /\ status' \in {"running", "ended"}
      BY <1>1, <1>3, ChainNodes
    <2>5. FilesInv' /\ Active' = Active \ Met(C, 0)
      BY <1>1, <1>3, <2>2, <2>3, <2>4, CloseRunKeepsInv
    <2>6. Active' = Active \ BlockFiles(1, depth)
      BY <1>1, <2>1, <2>5 DEF ListsAgree
    <2> QED
      BY <1>1, <1>3, <2>5, <2>6
  <1> QED
    BY <1>2, <1>3 DEF Leave

\* What DISPOSE of a record with files does to them (DFDISPOSE.c).
LEMMA DisposeKeepsInv ==
    ASSUME StackAboveGlobals, FilesInv, NEW r \in Record, Dispose(r)
    PROVE  /\ FilesInv'
           /\ \/ /\ r \in heap /\ heap' = heap \ {r} /\ UNCHANGED <<depth, status>>
                 /\ Active' = Active \ r
              \/ /\ status' = "aborted" /\ UNCHANGED <<depth, heap>>
                 /\ Active' \subseteq Active
  <1> DEFINE W == { f \in Files : Lowest(r) <= f /\ f <= Highest(r) }
  <1>1. ListsAgree /\ r \in heap /\ status = "running"
    BY DEF Dispose, FilesInv
  <1>2. CASE CloseRunFails(W, BeforeRecord(r))
    BY <1>2, CloseRunFailsKeepsInv
  <1>3. CASE CloseRun(W, BeforeRecord(r)) /\ heap' = heap \ {r} /\ UNCHANGED <<depth, status>>
    <2>1. BeforeRecord(r) \in 0..Len(fchain)
          /\ Met(W, BeforeRecord(r)) = Nodes(fchain) \cap r
      BY MetInRecord
    <2> HIDE DEF W
    <2>2. depth' \in 1..MaxDepth /\ heap' \subseteq Record /\ status' \in {"running", "ended"}
      BY <1>1, <1>3 DEF FilesInv, Types
    <2>3. Nodes(fchain) \ Met(W, BeforeRecord(r)) \subseteq Accessible'
      <3>1. SUFFICES ASSUME NEW f \in Nodes(fchain), f \notin r
                     PROVE  f \in Accessible'
        BY <2>1
      <3>2. Accessible' = (UNION { BlockFiles(1, d) : d \in 1..depth }) \cup UNION (heap \ {r})
        BY <1>3 DEF Accessible, CloseRun, FilesInv, Types
      <3>3. \/ \E d \in 1..depth : f \in BlockFiles(1, d)
            \/ \E q \in heap : f \in q
        BY <1>1, AccessibleIsFiles DEF ListsAgree
      <3> QED
        BY <3>1, <3>2, <3>3
    <2>4. FilesInv' /\ Active' = Active \ Met(W, BeforeRecord(r))
      BY <1>1, <1>3, <2>1, <2>2, <2>3, CloseRunKeepsInv
    <2>5. Active' = Active \ r
      BY <1>1, <2>1, <2>4 DEF ListsAgree
    <2> QED
      BY <1>1, <1>3, <2>4, <2>5
  <1> QED
    BY <1>2, <1>3 DEF Dispose

\* The end of the program closes files and activates none (PCEXIT.c).
LEMMA EndProgramKeepsInv ==
    ASSUME FilesInv, EndProgram
    PROVE  /\ FilesInv' /\ UNCHANGED <<depth, heap>>
           /\ status' # "running" /\ Active' \subseteq Active
  <1>1. ListsAgree
    BY DEF EndProgram, FilesInv
  <1>2. PICK C : \/ CloseRun(C, 0) /\ status' = "ended" /\ UNCHANGED <<depth, heap>>
                 \/ CloseRunFails(C, 0)
    BY DEF EndProgram
  <1>3. CASE CloseRunFails(C, 0)
    BY <1>3, CloseRunFailsKeepsInv
  <1>4. CASE CloseRun(C, 0) /\ status' = "ended" /\ UNCHANGED <<depth, heap>>
    <2>1. 0 \in 0..Len(fchain) /\ depth' \in 1..MaxDepth /\ heap' \subseteq Record
      BY <1>4, ChainNodes DEF FilesInv, Types
    <2>2. Accessible' = Accessible
      BY <1>4 DEF Accessible, CloseRun
    <2>3. FilesInv' /\ Active' = Active \ Met(C, 0)
      BY <1>1, <1>4, <2>1, <2>2, CloseRunKeepsInv DEF ListsAgree
    <2> QED
      BY <1>4, <2>3
  <1> QED
    BY <1>2, <1>3, <1>4
-----------------------------------------------------------------------------
(* The invariant, and what follows from it.                                *)

\* At the start nothing is active.
LEMMA InitHolds ==
    ASSUME StackAboveGlobals, Init
    PROVE  FilesInv /\ Active = {}
  <1>1. fchain = <<>> /\ Nodes(fchain) = {} /\ InOrder(fchain) /\ fchain \in Seq(Files)
    BY DEF Init, Nodes, InOrder
  <1>2. \A f \in Files : iorec[f] = Cleared
    BY DEF Init
  <1>3. /\ Cleared \in FileRec /\ Cleared.fblk = 0 /\ Cleared.fbuf = "null"
        /\ Cleared.fdef = FALSE /\ Cleared.temp = FALSE /\ Cleared.fname = ""
    BY DEF Cleared, FileRec
  <1>4. Types
    <2>1. iorec \in [Files -> FileRec] /\ actfile \in [Slot -> Files \cup {FILNIL}]
      BY <1>3 DEF Init
    <2> QED
      BY <1>1, <2>1, Addresses DEF Init, Types, PREDEF
  <1>5. Active = {}
    <2>1. 0 \notin Slot
      BY Addresses DEF Slot, PREDEF
    <2>2. \A f \in Files : iorec[f].fblk = 0
      BY <1>2, <1>3
    <2> QED
      BY <2>1, <2>2 DEF Active, IsActive
  <1>6. SlotsPointBack /\ disk = {}
    BY DEF Init, SlotsPointBack
  <1>7. RecordsAgree
    <2>1. \A f \in Files : /\ iorec[f].fbuf = "null" /\ iorec[f].fdef = FALSE
                            /\ iorec[f].temp = FALSE /\ iorec[f].fname = ""
      BY <1>2, <1>3
    <2> QED
      BY <2>1 DEF RecordsAgree
  <1> QED
    BY <1>1, <1>4, <1>5, <1>6, <1>7 DEF FilesInv, ChainInOrder, ListsAgree

\* A call of a file routine: what it does to the invariant and the active files.
LEMMA CallKeepsInv ==
    ASSUME StackAboveGlobals, FilesInv, NEW f \in Accessible,
           \/ \E named \in BOOLEAN : Reset(f, named) \/ Rewrite(f, named)
           \/ AppendTo(f)
           \/ DefName(f)
    PROVE  /\ FilesInv' /\ UNCHANGED <<run, depth, heap>>
           /\ Active' = Active \/ Active' = Active \cup {f}
           /\ status = "running" /\ status' \in {"running", "aborted"}
  <1>1. f \in Files
    BY AccessibleIsFiles
  <1>2. PICK named \in BOOLEAN, caller \in {"RESET", "REWRITE", "APPEND", "DEFNAME"} :
          /\ GetName(f, named, caller)
          /\ caller = "DEFNAME" => named /\ f \notin Active
    BY DEF Reset, Rewrite, AppendTo, DefName
  <1>3. status = "running" /\ status' \in {"running", "aborted"}
    BY <1>2, Zenon DEF GetName, Reactivate, Activate, TableOverflow, UseName, NameTooLong, Aborted
  <1> QED
    BY <1>1, <1>2, <1>3, GetNameKeepsInv

\* Every step keeps the invariant.
LEMMA FilesNext ==
    ASSUME StackAboveGlobals, FilesInv, [Next]_vars
    PROVE  FilesInv'
  <1>1. CASE \E f \in Accessible : \/ \E named \in BOOLEAN : Reset(f, named) \/ Rewrite(f, named)
                                   \/ AppendTo(f)
                                   \/ DefName(f)
    BY <1>1, CallKeepsInv
  <1>2. CASE Enter
    BY <1>2, EnterKeepsInv
  <1>3. CASE Leave
    BY <1>3, LeaveKeepsInv
  <1>4. CASE \E r \in Record : New(r) \/ Dispose(r)
    BY <1>4, NewKeepsInv, DisposeKeepsInv
  <1>5. CASE EndProgram
    BY <1>5, EndProgramKeepsInv
  <1>6. CASE UNCHANGED vars
    BY <1>6 DEF vars, lists, FilesInv, Types, SlotsPointBack, ChainInOrder, RecordsAgree,
                ListsAgree, Active, IsActive, Accessible
  <1> QED
    BY <1>1, <1>2, <1>3, <1>4, <1>5, <1>6 DEF Next

\* The records, the table, the chain and the disk agree in every state.
THEOREM FilesInvariant == ASSUME StackAboveGlobals PROVE Spec => []FilesInv
  <1>1. Init => FilesInv
    BY InitHolds
  <1>2. FilesInv /\ [Next]_vars => FilesInv'
    BY FilesNext
  <1> QED
    BY <1>1, <1>2, PTL DEF Spec

\* The walk of PFLUSH or PCLOSE (PFLUSH.c:43) meets every file that UNIT accepts,
\* and no other, as long as no error stopped the program half way.
THEOREM ChainAndTable == ASSUME StackAboveGlobals PROVE Spec => []ChainMatchesTable
  <1>1. FilesInv => ChainMatchesTable
    BY ChainNodes DEF FilesInv, ListsAgree, SlotsPointBack, ChainMatchesTable
  <1> QED
    BY <1>1, FilesInvariant, PTL

\* No walk of the chain reads a record whose memory has another use (PCLOSE.c:48).
THEOREM NoDeadFiles == ASSUME StackAboveGlobals PROVE Spec => []OnlyLiveFiles
  <1>1. FilesInv => OnlyLiveFiles
    BY ChainNodes DEF FilesInv, ListsAgree, OnlyLiveFiles
  <1> QED
    BY <1>1, FilesInvariant, PTL

\* The loops of PCLOSE and DFDISPOSE may stop at the first record that is out of
\* their reach: the chain is always in order (GETNAME.c:109-129).
THEOREM ChainStaysSorted == ASSUME StackAboveGlobals PROVE Spec => []ChainSorted
  <1>1. ASSUME FilesInv
        PROVE  ChainSorted
    <2>1. ASSUME NEW i \in 1..Len(fchain), NEW j \in 1..Len(fchain), i < j
          PROVE  \/ iorec[fchain[i]].flev < iorec[fchain[j]].flev
                 \/ /\ iorec[fchain[i]].flev = iorec[fchain[j]].flev
                    /\ fchain[i] < fchain[j]
      BY <1>1, <2>1, ChainNodes DEF InOrder, Before
    <2> QED
      BY <2>1 DEF ChainSorted
  <1> QED
    BY <1>1, FilesInvariant, PTL

\* A stream that is open can be found from the chain, whatever error stopped the
\* program (PFLUSH.c:43, PFCLOSE.c:59).
THEOREM StreamsAreOnChain == ASSUME StackAboveGlobals PROVE Spec => []NoStreamLost
  <1>1. FilesInv => NoStreamLost
    BY ChainNodes DEF FilesInv, RecordsAgree, NoStreamLost
  <1> QED
    BY <1>1, FilesInvariant, PTL

\* PFLUSH passes no stream to fflush that fclose has freed (PFLUSH.c:49).
THEOREM FlushIsSafe == ASSUME StackAboveGlobals PROVE Spec => []FlushesOpenStreamsInRun
  <1>1. FilesInv => FlushesOpenStreamsInRun
    BY ChainNodes DEF FilesInv, ListsAgree, FlushesOpenStreams, FlushesOpenStreamsInRun
  <1> QED
    BY <1>1, FilesInvariant, PTL

\* Every temporary file belongs to an active file variable (PFCLOSE.c:64).
THEOREM NoTempsLeft == ASSUME StackAboveGlobals PROVE Spec => []TempsOfActiveFiles
  <1>1. FilesInv => TempsOfActiveFiles
    BY DEF FilesInv, ListsAgree, TempsOfActiveFiles
  <1> QED
    BY <1>1, FilesInvariant, PTL

\* "File table overflow" (GETNAME.c:104) means that the program has as many files
\* open as the table has slots: the search of GETNAME overlooks no free slot, and
\* none is held by a file whose block or record is gone, or by one file twice.
THEOREM OverflowIsReal == ASSUME StackAboveGlobals PROVE Spec => OverflowOnlyWhenFull
  <1> DEFINE Full == \A s \in Slot : /\ actfile[s] \in Accessible
                                     /\ \A t \in Slot \ {s} : actfile[t] # actfile[s]
  <1>1. ASSUME FilesInv, [Next]_vars, filefre' = MAXFILES, filefre # MAXFILES
        PROVE  Full
    <2>1. \E f \in Accessible, named \in BOOLEAN, caller \in {"RESET", "REWRITE", "APPEND", "DEFNAME"} :
             GetName(f, named, caller)
      BY <1>1, Zenon DEF Next, vars, lists, Reset, Rewrite, AppendTo, DefName, Enter, Leave, New, Dispose,
                  EndProgram, CloseRun, CloseRunFails
    <2>2. PICK f, named, caller : GetName(f, named, caller)
      BY <2>1
    <2>3. ListsAgree
      BY <1>1, <2>2 DEF GetName, FilesInv
    <2>4. NextSlot = MAXFILES
      <3>1. CASE Activate(f, named, caller)
        BY <1>1, <3>1 DEF Activate
      <3>2. CASE Reactivate(f, named, caller)
        BY <1>1, <3>2 DEF Reactivate, lists
      <3>3. CASE TableOverflow(f)
        BY <3>3 DEF TableOverflow
      <3> QED
        BY <2>2, <3>1, <3>2, <3>3 DEF GetName
    <2>5. \A s \in Slot : actfile[s] # FILNIL
      BY <1>1, <2>4, NextSlotFacts DEF FilesInv, Types
    <2>6. ASSUME NEW s \in Slot
          PROVE  actfile[s] \in Accessible /\ iorec[actfile[s]].fblk = s
      <3>1. actfile[s] \in Files /\ iorec[actfile[s]].fblk = s
        BY <1>1, <2>5 DEF FilesInv, Types, SlotsPointBack
      <3>2. actfile[s] \in Active
        BY <3>1 DEF Active, IsActive
      <3> QED
        BY <2>3, <3>1, <3>2 DEF ListsAgree
    <2> QED
      BY <2>6
  <1>2. FilesInv /\ [Next]_vars => [filefre' = MAXFILES /\ filefre # MAXFILES => Full]_vars
    BY <1>1
  <1> HIDE DEF Full
  <1>3. Spec => [][filefre' = MAXFILES /\ filefre # MAXFILES => Full]_vars
    BY <1>2, FilesInvariant, PTL DEF Spec
  <1> QED
    BY <1>3 DEF OverflowOnlyWhenFull, Full
-----------------------------------------------------------------------------
(* The routines implement PcActiveFiles.                                   *)

\* The variables a program can name are the same for both.
LEMMA SameAccessible ==
    ASSUME StackAboveGlobals, FilesInv
    PROVE  Promise!Accessible = Accessible
  <1>1. \A d \in 1..depth : [e \in 1..MaxDepth |-> BlockFiles(1, e)][d] = BlockFiles(1, d)
    BY AccessibleIsFiles
  <1>2. { [e \in 1..MaxDepth |-> BlockFiles(1, e)][d] : d \in 1..depth }
        = { BlockFiles(1, d) : d \in 1..depth }
    BY <1>1
  <1> QED
    BY <1>2, AccessibleIsFiles DEF Promise!Accessible

\* Every step does to the active files what a step of PcActiveFiles may do.
LEMMA StepKeepsPromise ==
    ASSUME StackAboveGlobals, FilesInv, FilesInv', [Next]_vars
    PROVE  [Promise!Next]_(Promise!vars)
  <1>1. CASE UNCHANGED vars
    <2>1. Active' = Active
      BY <1>1 DEF vars, lists, Active, IsActive
    <2> QED
      BY <1>1, <2>1 DEF vars, lists, Promise!vars
  <1>2. ASSUME NEW f \in Accessible,
               \/ \E named \in BOOLEAN : Reset(f, named) \/ Rewrite(f, named)
               \/ AppendTo(f)
               \/ DefName(f)
        PROVE  [Promise!Next]_(Promise!vars)
    <2>1. /\ UNCHANGED <<run, depth, heap>>
          /\ Active' = Active \/ Active' = Active \cup {f}
          /\ status = "running" /\ status' \in {"running", "aborted"}
      BY <1>2, CallKeepsInv
    <2>2. f \in Promise!Accessible
      BY SameAccessible
    <2>3. CASE status' = "aborted"
      <3>1. Active' \subseteq Active \cup Promise!Accessible
        BY <2>1, <2>2
      <3>2. Promise!Halt
        BY <2>1, <2>3, <3>1 DEF Promise!Halt
      <3> QED
        BY <2>1, <3>2 DEF Promise!Next
    <2>4. CASE status' = "running" /\ Active' = Active
      BY <2>1, <2>4 DEF Promise!vars
    <2>5. CASE status' = "running" /\ Active' = Active \cup {f}
      <3>1. Promise!Open
        BY <2>1, <2>2, <2>5 DEF Promise!Open
      <3> QED
        BY <2>1, <3>1 DEF Promise!Next
    <2> QED
      BY <2>1, <2>3, <2>4, <2>5
  <1>3. ASSUME status = "running", status' # "running", UNCHANGED <<depth, heap>>,
               Active' \subseteq Active
        PROVE  Promise!Next
    <2>1. Promise!Halt
      BY <1>3 DEF Promise!Halt
    <2> QED
      BY <1>3, <2>1 DEF Promise!Next
  <1>4. CASE Enter
    <2>1. Active' = Active /\ status = "running" /\ status' = status /\ heap' = heap
          /\ depth < MaxDepth /\ depth' = depth + 1
      BY <1>4, EnterKeepsInv DEF Enter
    <2>2. Promise!Enter
      BY <2>1 DEF Promise!Enter
    <2> QED
      BY <2>1, <2>2 DEF Promise!Next
  <1>5. CASE Leave
    <2>1. status = "running"
      BY <1>5 DEF Leave
    <2>2. CASE /\ depth > 1 /\ depth' = depth - 1 /\ UNCHANGED <<heap, status>>
               /\ Active' = Active \ BlockFiles(1, depth)
      <3>1. [e \in 1..MaxDepth |-> BlockFiles(1, e)][depth] = BlockFiles(1, depth)
        BY AccessibleIsFiles
      <3>2. Promise!Leave
        BY <2>1, <2>2, <3>1 DEF Promise!Leave
      <3> QED
        BY <2>1, <3>2 DEF Promise!Next
    <2>3. CASE status' = "aborted" /\ UNCHANGED <<depth, heap>> /\ Active' \subseteq Active
      BY <1>3, <2>1, <2>3
    <2> QED
      BY <1>5, <2>2, <2>3, LeaveKeepsInv
  <1>6. ASSUME NEW r \in Record, New(r)
        PROVE  Promise!Next
    <2>1. Active' = Active /\ status = "running" /\ status' = status /\ depth' = depth
          /\ r \notin heap /\ heap' = heap \cup {r}
      BY <1>6, NewKeepsInv DEF New
    <2>2. Promise!New(r)
      BY <2>1 DEF Promise!New
    <2> QED
      BY <2>1, <2>2 DEF Promise!Next
  <1>7. ASSUME NEW r \in Record, Dispose(r)
        PROVE  Promise!Next
    <2>1. status = "running"
      BY <1>7 DEF Dispose
    <2>2. CASE /\ r \in heap /\ heap' = heap \ {r} /\ UNCHANGED <<depth, status>>
               /\ Active' = Active \ r
      <3>1. Promise!Dispose(r)
        BY <2>1, <2>2 DEF Promise!Dispose
      <3> QED
        BY <2>1, <3>1 DEF Promise!Next
    <2>3. CASE status' = "aborted" /\ UNCHANGED <<depth, heap>> /\ Active' \subseteq Active
      BY <1>3, <2>1, <2>3
    <2> QED
      BY <1>7, <2>2, <2>3, DisposeKeepsInv
  <1>8. CASE EndProgram
    <2>1. status = "running"
      BY <1>8 DEF EndProgram
    <2> QED
      BY <1>3, <1>8, <2>1, EndProgramKeepsInv
  <1> QED
    BY <1>1, <1>2, <1>4, <1>5, <1>6, <1>7, <1>8 DEF Next

\* A file that was opened stays active until its block ends or its record is
\* disposed of, and is closed then, and no other file with it.
THEOREM ActiveFilesArePromised == ASSUME StackAboveGlobals PROVE Spec => ImplementsActiveFiles
  <1>1. Init => Promise!Init
    <2>1. Init => Active = {}
      BY InitHolds
    <2> QED
      BY <2>1 DEF Init, Promise!Init
  <1>2. FilesInv /\ FilesInv' /\ [Next]_vars => [Promise!Next]_(Promise!vars)
    BY StepKeepsPromise
  <1> QED
    BY <1>1, <1>2, FilesInvariant, PTL DEF Spec, ImplementsActiveFiles, Promise!Spec
=============================================================================
