------------------------- MODULE PdxBreakpointsProofs -------------------------
(***************************************************************************)
(* Proofs about PdxBreakpoints, for every program, number of events and    *)
(* depth of calls, up to the use of an event that was freed.  The          *)
(* invariants, each of which may need those above it:                      *)
(*                                                                         *)
(* ListInv   the events are linked in one order, the walk stands at a place*)
(*           of it, and what it may still add fits                         *)
(* ExitInv   what waits for a return waits for one of an active routine    *)
(* CountInv  the counters count the events that will count down            *)
(* StackInv  calls go down the order of the routines; the return address   *)
(*           of a call is that of its caller and its routine               *)
(* TraceInv  an ALL_OFF waits for the return of a routine that is traced   *)
(* OrderInv  the events that turn something off are in the order in which  *)
(*           the program comes to them, innermost first                    *)
(* RowInv    the conditions and variables in force are those that such     *)
(*           events will take off, in the order of these events            *)
(***************************************************************************)
EXTENDS PdxBreakpoints, FiniteSetTheorems, SequenceTheorems, WellFoundedInduction,
        TLAPS

\* The i-th of n elements, 0 in front of the first and behind the last.
At(n, s, i) == IF i \in 1..n THEN s[i] ELSE 0

\* The events of b, with head h, are linked in the order s.
Linked(b, h, n, s) ==
    /\ n \in Nat /\ s \in [1..n -> DOMAIN b]
    /\ \A e \in DOMAIN b : \E i \in 1..n : s[i] = e
    /\ \A i, j \in 1..n : s[i] = s[j] => i = j
    /\ h = At(n, s, 1)
    /\ \A i \in 1..n : b[s[i]].next = At(n, s, i + 1)

Count == Cardinality(DOMAIN bp)
List == [i \in 1..Count |-> Nth[i - 1]]

Frame == [func : Func, ret : Address, traced : BOOLEAN]

TypeInv ==
    /\ stack \in Seq(Frame)
    /\ curfunc \in Func
    /\ walk \in [at : Address, p : 0..MaxEvents, prev : 0..MaxEvents, delayed : BOOLEAN]
    /\ mode \in {"none", "line", "walk", "panic", "freed"}

\* What stands at the entry of a routine, its own; the rest is where one returns to.
Entering == {"ALL_ON", "STOP_ON", "TERM_ON", "BLOCK_ON", "CALL", "STOP_BP"}
InPlace(x) == IF x.type \in Entering
              THEN x.addr = codeloc(x.block) /\ (x.type = "BLOCK_ON" => x.node \in Func)
              ELSE x.addr[1] # "entry"

\* The event e of b has a CALL of its own, if it is a BLOCK_OFF.
HasCall(b, e) == b[e].type = "BLOCK_OFF" =>
                     /\ b[e].old \in DOMAIN b /\ b[b[e].old].type = "CALL"
                     /\ \A f \in DOMAIN b : b[f].type = "BLOCK_OFF" /\ b[f].old = b[e].old => f = e

GoodEvents(b) == /\ DOMAIN b \in SUBSET Event
                 /\ \A e \in DOMAIN b : b[e] \in Bpinfo /\ InPlace(b[e])
GoodList(l) == GoodEvents(l.bp) /\ \E n, s : Linked(l.bp, l.bphead, n, s)
Owns(b) == \A e \in DOMAIN b : HasCall(b, e)

Stacked == /\ mode \in {"line", "walk"} => stack # <<>>
           /\ \A i \in 1..Len(stack) : stack[i].ret[1] # "entry"

\* The events from place k on, and those that will add something.
Ahead(k) == { List[j] : j \in k..Count }
Adding(k, types) == { e \in Ahead(k) : bp[e].addr = walk.at /\ bp[e].type \in types }

Budget(k) == Count + Cardinality(Adding(k, {"ALL_ON", "STOP_ON", "TERM_ON"}))
                 + 2 * Cardinality(Adding(k, {"BLOCK_ON"}))
                 + (IF walk.delayed \/ Adding(k, {"CALL"}) # {} THEN 1 ELSE 0) <= MaxEvents

\* The walk is at place k, and prev is right in front of it.
WalkAt(k) == walk.p = At(Count, List, k) /\ walk.prev = At(Count, List, k - 1)

Walking == mode = "walk" => \E k \in 1..Count + 1 : WalkAt(k) /\ Budget(k)

ListInv == mode # "freed" =>
    TypeInv /\ GoodList(Now) /\ Owns(bp) /\ Stacked /\ Walking

-----------------------------------------------------------------------------
\* Every nonempty set of naturals has a smallest element.
LEMMA Smallest ==
    ASSUME NEW S \in SUBSET Nat, S # {}
    PROVE  \E x \in S : \A y \in S : x <= y
  <1> DEFINE less == { ss \in Nat \X Nat : ss[1] < ss[2] }
  <1>1. IsWellFoundedOn(less, Nat)
    BY NatLessThanWellFounded DEF OpToRel
  <1>2. \E x \in S : \A y \in S : ~(<<y, x>> \in less)
    <2> HIDE DEF less
    <2> QED BY <1>1, WFMin
  <1>3. PICK x \in S : \A y \in S : ~(<<y, x>> \in less)
    BY <1>2
  <1>4. ASSUME NEW y \in S
        PROVE  x <= y
    <2>1. x \in Nat /\ y \in Nat /\ ~(<<y, x>> \in less)
      BY <1>3
    <2>2. ~(y < x)
      BY <2>1
    <2> QED
      BY <2>1, <2>2
  <1> QED
    BY <1>4

-----------------------------------------------------------------------------
(***************************************************************************)
(* The order of the list.                                                  *)
(***************************************************************************)

\* A function that satisfies Nth's equation is Nth.
LEMMA NthIs ==
    ASSUME NEW W,
           W = [i \in Nat |-> IF i = 0 THEN bphead
                              ELSE LET e == W[i - 1] IN IF e = 0 THEN 0 ELSE bp[e].next]
    PROVE  Nth = W
  <1>1. Nth = [i \in Nat |-> IF i = 0 THEN bphead
                             ELSE LET e == Nth[i - 1] IN IF e = 0 THEN 0 ELSE bp[e].next]
    BY Zenon DEF Nth
  <1>2. SUFFICES ASSUME { i \in Nat : Nth[i] # W[i] } # {} PROVE FALSE
    <2>1. ASSUME \A i \in Nat : Nth[i] = W[i] PROVE Nth = W
      <3>1. \A i \in Nat : i # 0 => Nth[i - 1] = W[i - 1]
        BY <2>1
      <3> QED
        BY <1>1, <3>1
    <2> QED
      BY <2>1
  <1>3. PICK m \in { i \in Nat : Nth[i] # W[i] } : \A k \in { i \in Nat : Nth[i] # W[i] } : m <= k
    <2>1. { i \in Nat : Nth[i] # W[i] } \in SUBSET Nat
      OBVIOUS
    <2> QED
      BY <1>2, <2>1, Smallest
  <1>4. m # 0 => m - 1 \in Nat /\ Nth[m - 1] = W[m - 1]
    BY <1>3
  <1>5. m \in Nat /\ Nth[m] # W[m]
    BY <1>3
  <1>6. Nth[m] = IF m = 0 THEN bphead
                 ELSE LET e == Nth[m - 1] IN IF e = 0 THEN 0 ELSE bp[e].next
    BY <1>1, <1>5
  <1>7. W[m] = IF m = 0 THEN bphead
               ELSE LET e == W[m - 1] IN IF e = 0 THEN 0 ELSE bp[e].next
    BY <1>5
  <1> QED
    BY <1>4, <1>5, <1>6, <1>7

\* The events that are linked are counted.
LEMMA LinkedCount ==
    ASSUME NEW b, NEW h, NEW n, NEW s, Linked(b, h, n, s)
    PROVE  IsFiniteSet(DOMAIN b) /\ Cardinality(DOMAIN b) = n
  <1>1. s \in Bijection(1..n, DOMAIN b)
    BY DEF Linked, Bijection, Injection, Surjection, IsInjective
  <1>2. IsFiniteSet(1..n) /\ Cardinality(1..n) = n
    BY FS_Interval DEF Linked
  <1> QED
    BY <1>1, <1>2, FS_Bijection DEF ExistsBijection

\* The order in which the events are linked is that of Nth.
LEMMA LinkedNth ==
    ASSUME DOMAIN bp \subseteq Event, NEW n, NEW s, Linked(bp, bphead, n, s)
    PROVE  Nth = [i \in Nat |-> At(n, s, i + 1)]
  <1> DEFINE W == [i \in Nat |-> At(n, s, i + 1)]
  <1>1. ASSUME NEW i \in Nat
        PROVE  At(n, s, i + 1) = IF i = 0 THEN bphead
                                 ELSE LET e == W[i - 1] IN IF e = 0 THEN 0 ELSE bp[e].next
    <2>1. CASE i = 0
      BY <2>1 DEF Linked
    <2>2. CASE i # 0
      <3>1. i - 1 \in Nat /\ W[i - 1] = At(n, s, i)
        BY <2>2
      <3>2. CASE i \in 1..n
        <4>1. At(n, s, i) = s[i] /\ s[i] \in Event /\ s[i] # 0
          BY <3>2, EventAssumption DEF At, Linked, Event
        <4>2. bp[s[i]].next = At(n, s, i + 1)
          BY <3>2 DEF Linked
        <4> QED
          BY <2>2, <3>1, <4>1, <4>2
      <3>3. CASE i \notin 1..n
        <4>1. At(n, s, i) = 0 /\ At(n, s, i + 1) = 0
          BY <2>2, <3>3 DEF At, Linked
        <4> QED
          BY <2>2, <3>1, <4>1
      <3> QED
        BY <3>2, <3>3
    <2> QED
      BY <2>1, <2>2
  <1>2. W = [i \in Nat |-> IF i = 0 THEN bphead
                           ELSE LET e == W[i - 1] IN IF e = 0 THEN 0 ELSE bp[e].next]
    BY <1>1
  <1> QED
    BY <1>2, NthIs

\* There is one order only: that of List.
OneOrder == DOMAIN bp \subseteq Event =>
                \A n, s : Linked(bp, bphead, n, s) => Count = n /\ List = s

LEMMA LinkedIs == OneOrder
  <1> SUFFICES ASSUME DOMAIN bp \subseteq Event, NEW n, NEW s, Linked(bp, bphead, n, s)
               PROVE  Count = n /\ List = s
    BY DEF OneOrder
  <1>1. Count = n
    BY LinkedCount DEF Count
  <1>2. ASSUME NEW i \in 1..n PROVE Nth[i - 1] = s[i]
    <2>1. i - 1 \in Nat /\ (i - 1) + 1 = i /\ n \in Nat
      BY DEF Linked
    <2> QED
      BY <2>1, LinkedNth DEF At
  <1>3. List = [i \in 1..n |-> s[i]]
    BY <1>1, <1>2 DEF List
  <1> QED
    BY <1>1, <1>3 DEF Linked

\* The same event, but for what comes behind it.
Alike(x, y) == /\ x.addr = y.addr /\ x.type = y.type /\ x.block = y.block
               /\ x.cond = y.cond /\ x.node = y.node /\ x.old = y.old

\* The order with an element more at its head, and without the k-th.
Pushed(n, s, e) == [i \in 1..n + 1 |-> IF i = 1 THEN e ELSE s[i - 1]]
Without(n, s, k) == [i \in 1..n - 1 |-> IF i < k THEN s[i] ELSE s[i + 1]]

\* m is l with the event e, which is b, at its head.
Added(l, b, m, e) == /\ e \in Event \ DOMAIN l.bp
                     /\ DOMAIN m.bp = DOMAIN l.bp \cup {e}
                     /\ m.bphead = e
                     /\ m.bp[e] = [b EXCEPT !.next = l.bphead]
                     /\ \A x \in DOMAIN l.bp : m.bp[x] = l.bp[x]

\* There is room for an event while fewer than all exist.
LEMMA AddAdds ==
    ASSUME NEW l, NEW b, NEW n \in Nat, n < MaxEvents, IsFiniteSet(DOMAIN l.bp),
           Cardinality(DOMAIN l.bp) = n
    PROVE  \E e : Added(l, b, Add(l, b), e)
  <1> DEFINE free == Event \ DOMAIN l.bp
             id == CHOOSE e \in free : \A x \in free : e <= x
  <1>1. free # {}
    <2>1. SUFFICES ASSUME Event \subseteq DOMAIN l.bp PROVE FALSE
      OBVIOUS
    <2>2. Cardinality(Event) = MaxEvents
      BY FS_Interval, EventAssumption DEF Event
    <2>3. Cardinality(Event) <= n
      BY <2>1, FS_Subset
    <2> QED
      BY <2>2, <2>3, EventAssumption
  <1>2. \E e \in free : \A x \in free : e <= x
    <2>1. free \in SUBSET Nat
      BY EventAssumption DEF Event
    <2> HIDE DEF free
    <2> QED
      BY <1>1, <2>1, Smallest
  <1>3. id \in free
    <2> HIDE DEF free
    <2> QED
      BY <1>2
  <1>4. Add(l, b) = [bp |-> [e \in DOMAIN l.bp \cup {id} |->
                                IF e = id THEN [b EXCEPT !.next = l.bphead] ELSE l.bp[e]],
                     bphead |-> id]
    BY DEF Add
  <1> HIDE DEF id
  <1> QED
    BY <1>3, <1>4 DEF Added

\* It comes first in the order.
LEMMA AddedLinked ==
    ASSUME NEW l, NEW b \in Bpinfo, NEW m, NEW e, Added(l, b, m, e),
           NEW n, NEW s, Linked(l.bp, l.bphead, n, s)
    PROVE  Linked(m.bp, m.bphead, n + 1, Pushed(n, s, e))
  <1> DEFINE t == Pushed(n, s, e)
  <1>1. n \in Nat /\ s \in [1..n -> DOMAIN l.bp]
    BY DEF Linked
  <1>2. t[1] = e /\ \A i \in 1..n : t[i + 1] = s[i] /\ i + 1 \in 1..n + 1
    BY <1>1 DEF Pushed
  <1>3. \A j \in 1..n + 1 : j = 1 \/ (j - 1 \in 1..n /\ t[j] = s[j - 1])
    BY <1>1 DEF Pushed
  <1>4. t \in [1..n + 1 -> DOMAIN m.bp]
    BY <1>1, <1>2, <1>3 DEF Added, Pushed
  <1>5. ASSUME NEW x \in DOMAIN m.bp PROVE \E i \in 1..n + 1 : t[i] = x
    <2>1. CASE x = e
      BY <1>1, <1>2, <2>1
    <2>2. CASE x # e
      <3>1. PICK i \in 1..n : s[i] = x
        BY <2>2 DEF Linked, Added
      <3> QED
        BY <1>2, <3>1
    <2> QED
      BY <2>1, <2>2
  <1>6. ASSUME NEW i \in 1..n + 1, NEW j \in 1..n + 1, t[i] = t[j] PROVE i = j
    <2>1. \A k \in 1..n : s[k] # e
      BY <1>1 DEF Added
    <2>2. i # 1 /\ j # 1 => i - 1 = j - 1
      BY <1>3, <1>6 DEF Linked
    <2> QED
      BY <1>1, <1>2, <1>3, <1>6, <2>1, <2>2
  <1>7. m.bphead = At(n + 1, t, 1)
    BY <1>1, <1>2 DEF At, Added
  <1>8. ASSUME NEW i \in 1..n + 1 PROVE m.bp[t[i]].next = At(n + 1, t, i + 1)
    <2>1. CASE i = 1
      <3>1. m.bp[e].next = l.bphead
        BY DEF Added, Bpinfo
      <3>2. l.bphead = At(n, s, 1)
        BY DEF Linked
      <3>3. At(n, s, 1) = At(n + 1, t, 2)
        <4>1. CASE n = 0
          BY <4>1 DEF At
        <4>2. CASE n # 0
          <5>1. 1 \in 1..n /\ 2 \in 1..n + 1 /\ t[2] = s[1]
            BY <1>1, <1>2, <4>2
          <5> QED
            BY <5>1 DEF At
        <4> QED
          BY <4>1, <4>2
      <3> QED
        BY <1>2, <2>1, <3>1, <3>2, <3>3
    <2>2. CASE i # 1
      <3>1. i - 1 \in 1..n /\ t[i] = s[i - 1]
        BY <1>3, <2>2
      <3>2. m.bp[t[i]].next = At(n, s, i)
        <4>1. (i - 1) + 1 = i
          BY <1>1
        <4>2. m.bp[s[i - 1]] = l.bp[s[i - 1]]
          BY <1>1, <3>1 DEF Added
        <4> QED
          BY <3>1, <4>1, <4>2 DEF Linked
      <3>3. At(n, s, i) = At(n + 1, t, i + 1)
        <4>1. CASE i \in 1..n
          BY <1>1, <1>2, <4>1 DEF At
        <4>2. CASE i = n + 1
          BY <1>1, <4>2 DEF At
        <4> QED
          BY <1>1, <4>1, <4>2
      <3> QED
        BY <3>2, <3>3
    <2> QED
      BY <2>1, <2>2
  <1>9. n + 1 \in Nat
    BY <1>1
  <1> HIDE DEF t
  <1> QED
    BY <1>4, <1>5, <1>6, <1>7, <1>8, <1>9 DEF Linked, t

\* m is l without the event e.
Removed(l, m, e) == /\ DOMAIN m.bp = DOMAIN l.bp \ {e}
                    /\ \A x \in DOMAIN m.bp : m.bp[x] \in Bpinfo /\ Alike(m.bp[x], l.bp[x])

LEMMA UnlinkRemoves ==
    ASSUME NEW l, NEW e \in DOMAIN l.bp, NEW prev, \A x \in DOMAIN l.bp : l.bp[x] \in Bpinfo
    PROVE  /\ Removed(l, Unlink(l, e, prev), e)
           /\ \A x \in DOMAIN l.bp \ {e} :
                 Unlink(l, e, prev).bp[x].next = IF x = prev THEN l.bp[e].next ELSE l.bp[x].next
  <1> DEFINE m == Unlink(l, e, prev)
  <1>1. DOMAIN m.bp = DOMAIN l.bp \ {e}
    BY DEF Unlink
  <1>2. ASSUME NEW x \in DOMAIN l.bp \ {e}
        PROVE  /\ m.bp[x] \in Bpinfo /\ Alike(m.bp[x], l.bp[x])
               /\ m.bp[x].next = IF x = prev THEN l.bp[e].next ELSE l.bp[x].next
    <2>1. l.bp[x] \in Bpinfo /\ l.bp[e].next \in 0..MaxEvents
      BY DEF Bpinfo
    <2>2. m.bp[x] = IF x = prev THEN [l.bp[x] EXCEPT !.next = l.bp[e].next] ELSE l.bp[x]
      BY DEF Unlink
    <2>3. CASE x = prev
      <3>1. m.bp[x] = [l.bp[x] EXCEPT !.next = l.bp[e].next]
        BY <2>2, <2>3
      <3> HIDE DEF m
      <3> QED
        BY <2>1, <2>3, <3>1 DEF Bpinfo, Alike
    <2>4. CASE x # prev
      BY <2>1, <2>2, <2>4 DEF Alike
    <2> QED
      BY <2>3, <2>4
  <1> HIDE DEF m
  <1> QED
    BY <1>1, <1>2 DEF Removed, m

\* The order without the event, if prev was the one in front of it.
LEMMA UnlinkLinked ==
    ASSUME NEW l, NEW n, NEW s, Linked(l.bp, l.bphead, n, s), NEW k \in 1..n,
           DOMAIN l.bp \subseteq Event, \A x \in DOMAIN l.bp : l.bp[x] \in Bpinfo,
           NEW m, m = Unlink(l, s[k], At(n, s, k - 1))
    PROVE  Linked(m.bp, m.bphead, n - 1, Without(n, s, k))
  <1> DEFINE t == Without(n, s, k)
             e == s[k]
  <1>1. n \in Nat /\ s \in [1..n -> DOMAIN l.bp] /\ k \in Nat /\ n - 1 \in Nat /\ e \in DOMAIN l.bp
    BY DEF Linked
  <1>2. \A i \in 1..n - 1 : /\ t[i] = IF i < k THEN s[i] ELSE s[i + 1]
                            /\ i \in 1..n /\ i + 1 \in 1..n
    BY <1>1 DEF Without
  <1>3. DOMAIN m.bp = DOMAIN l.bp \ {e}
    BY <1>1, UnlinkRemoves DEF Removed
  <1>4. \A i \in 1..n : s[i] = e <=> i = k
    BY DEF Linked
  <1>5. t \in [1..n - 1 -> DOMAIN m.bp]
    <2>1. \A i \in 1..n - 1 : t[i] \in DOMAIN m.bp
      BY <1>1, <1>2, <1>3, <1>4
    <2> QED
      BY <2>1 DEF Without
  <1>6. ASSUME NEW x \in DOMAIN m.bp PROVE \E i \in 1..n - 1 : t[i] = x
    <2>1. PICK i \in 1..n : s[i] = x /\ i # k
      BY <1>3, <1>4 DEF Linked
    <2>2. CASE i < k
      BY <1>1, <1>2, <2>1, <2>2
    <2>3. CASE i > k
      <3>1. i - 1 \in 1..n - 1 /\ ~(i - 1 < k) /\ (i - 1) + 1 = i
        BY <1>1, <2>3
      <3> QED
        BY <1>2, <2>1, <3>1
    <2> QED
      BY <1>1, <2>1, <2>2, <2>3
  <1>7. ASSUME NEW i \in 1..n - 1, NEW j \in 1..n - 1, t[i] = t[j] PROVE i = j
    <2>1. s[IF i < k THEN i ELSE i + 1] = s[IF j < k THEN j ELSE j + 1]
      BY <1>2, <1>7
    <2>2. (IF i < k THEN i ELSE i + 1) = (IF j < k THEN j ELSE j + 1)
      BY <1>1, <1>2, <2>1 DEF Linked
    <2> QED
      BY <1>1, <2>2
  <1>8. l.bp[e].next = At(n, s, k + 1) /\ l.bphead = At(n, s, 1)
    BY DEF Linked
  <1>9. At(n, s, k - 1) = 0 <=> k = 1
    <2>1. CASE k = 1
      BY <2>1 DEF At
    <2>2. CASE k # 1
      <3>1. k - 1 \in 1..n /\ s[k - 1] \in Event
        BY <1>1, <2>2
      <3> QED
        BY <2>2, <3>1, EventAssumption DEF At, Event
    <2> QED
      BY <2>1, <2>2
  <1>10. \A i \in 1..n : s[i] = At(n, s, k - 1) <=> i = k - 1
    <2>1. CASE k = 1
      <3>1. \A i \in 1..n : s[i] \in Event /\ s[i] # 0 /\ i # 0
        BY <1>1, EventAssumption DEF Event
      <3> QED
        BY <1>9, <2>1, <3>1
    <2>2. CASE k # 1
      <3>1. k - 1 \in 1..n
        BY <1>1, <2>2
      <3> QED
        BY <3>1 DEF Linked, At
    <2> QED
      BY <2>1, <2>2
  <1>11. \A i \in 0..n : At(n - 1, t, i) = IF i < k THEN At(n, s, i) ELSE At(n, s, i + 1)
    <2>1. ASSUME NEW i \in 0..n
          PROVE At(n - 1, t, i) = IF i < k THEN At(n, s, i) ELSE At(n, s, i + 1)
      <3>1. CASE i = 0
        BY <1>1, <3>1 DEF At
      <3>2. CASE i \in 1..n - 1
        BY <1>1, <1>2, <3>2 DEF At
      <3>3. CASE i = n /\ i # 0
        <4>1. ~(i < k) /\ i \notin 1..n - 1 /\ i + 1 \notin 1..n
          BY <1>1, <3>3
        <4> QED
          BY <4>1 DEF At
      <3> QED
        BY <1>1, <3>1, <3>2, <3>3
    <2> QED
      BY <2>1
  <1>12. m.bphead = At(n - 1, t, 1)
    <2>1. m.bphead = IF At(n, s, k - 1) = 0 THEN l.bp[e].next ELSE l.bphead
      BY DEF Unlink
    <2>2. CASE k = 1
      BY <1>1, <1>8, <1>9, <1>11, <2>1, <2>2
    <2>3. CASE k # 1
      <3>1. 1 < k /\ 1 \in 0..n
        BY <1>1, <2>3
      <3> QED
        BY <1>8, <1>9, <1>11, <2>1, <2>3, <3>1
    <2> QED
      BY <2>2, <2>3
  <1>13. ASSUME NEW i \in 1..n - 1 PROVE m.bp[t[i]].next = At(n - 1, t, i + 1)
    <2>0. i \in Nat /\ i + 1 \in 0..n
      BY <1>1
    <2>1. \A j \in 1..n : j # k =>
              m.bp[s[j]].next = IF j = k - 1 THEN At(n, s, k + 1) ELSE At(n, s, j + 1)
      <3>1. SUFFICES ASSUME NEW j \in 1..n, j # k
                     PROVE  m.bp[s[j]].next = IF j = k - 1 THEN At(n, s, k + 1) ELSE At(n, s, j + 1)
        OBVIOUS
      <3>2. s[j] \in DOMAIN l.bp \ {e} /\ l.bp[s[j]].next = At(n, s, j + 1)
        BY <1>1, <1>4, <3>1 DEF Linked
      <3>3. m.bp[s[j]].next = IF s[j] = At(n, s, k - 1) THEN l.bp[e].next ELSE l.bp[s[j]].next
        BY <1>1, <3>2, UnlinkRemoves
      <3> QED
        BY <1>8, <1>10, <3>2, <3>3
    <2>2. CASE i < k - 1
      <3>1. i < k /\ i + 1 < k /\ i # k /\ i # k - 1 /\ i \in 1..n
        BY <1>1, <2>0, <2>2
      <3> QED
        BY <1>2, <1>11, <2>0, <2>1, <3>1
    <2>3. CASE i = k - 1
      <3>1. i < k /\ ~(i + 1 < k) /\ i # k /\ i \in 1..n /\ (i + 1) + 1 = k + 1
        BY <1>1, <2>0, <2>3
      <3>2. m.bp[s[i]].next = At(n, s, k + 1)
        BY <2>1, <2>3, <3>1
      <3>3. At(n - 1, t, i + 1) = At(n, s, k + 1)
        BY <1>11, <2>0, <3>1
      <3> QED
        BY <1>2, <3>1, <3>2, <3>3
    <2>4. CASE i >= k
      <3>1. ~(i < k) /\ ~(i + 1 < k) /\ i + 1 # k /\ i + 1 # k - 1 /\ i + 1 \in 1..n
        BY <1>1, <2>0, <2>4
      <3>2. m.bp[s[i + 1]].next = At(n, s, (i + 1) + 1)
        BY <2>1, <3>1
      <3>3. At(n - 1, t, i + 1) = At(n, s, (i + 1) + 1)
        BY <1>11, <2>0, <3>1
      <3> QED
        BY <1>2, <3>1, <3>2, <3>3
    <2> QED
      BY <1>1, <2>0, <2>2, <2>3, <2>4
  <1> HIDE DEF t, e
  <1> QED
    BY <1>1, <1>5, <1>6, <1>7, <1>12, <1>13 DEF Linked, t

\* u goes through the places of K in order.
Ascending(K, m, u) == /\ m \in Nat /\ u \in [1..m -> K]
                      /\ \A x \in K : \E i \in 1..m : u[i] = x
                      /\ \A i, j \in 1..m : i < j => u[i] < u[j]

\* Every set of places can be gone through in order.
LEMMA InOrder ==
    ASSUME NEW n \in Nat, NEW K \in SUBSET (1..n)
    PROVE  \E m, u : m <= n /\ Ascending(K, m, u)
  <1> DEFINE Good(k) == \A J \in SUBSET (1..k) : \E m, u : m <= k /\ Ascending(J, m, u)
             Bad == { k \in Nat : ~Good(k) }
  <1>1. SUFFICES ASSUME Bad # {} PROVE FALSE
    <2>1. Bad = {} => Good(n)
      OBVIOUS
    <2> QED
      BY <2>1
  <1>2. PICK k \in Bad : \A j \in Bad : k <= j
    <2>1. Bad \in SUBSET Nat
      OBVIOUS
    <2> HIDE DEF Bad
    <2> QED
      BY <1>1, <2>1, Smallest
  <1>3. k \in Nat /\ ~Good(k)
    BY <1>2
  <1>4. k # 0
    <2>1. SUFFICES ASSUME k = 0 PROVE Good(0)
      BY <1>3
    <2>2. ASSUME NEW J \in SUBSET (1..0) PROVE Ascending(J, 0, [i \in 1..0 |-> i])
      <3>1. J = {} /\ 1..0 = {}
        OBVIOUS
      <3>2. [i \in 1..0 |-> i] \in [1..0 -> J]
        BY <3>1
      <3> QED
        BY <3>1, <3>2 DEF Ascending
    <2>3. 0 <= 0
      OBVIOUS
    <2> QED
      BY <2>2, <2>3
  <1>5. k - 1 \in Nat /\ Good(k - 1)
    <2>1. k - 1 \in Nat /\ ~(k <= k - 1)
      BY <1>3, <1>4
    <2>2. k - 1 \notin Bad
      BY <1>2, <2>1
    <2> HIDE DEF Good
    <2> QED
      BY <2>1, <2>2
  <1>6. ASSUME NEW J \in SUBSET (1..k)
        PROVE  \E m, u : m <= k /\ Ascending(J, m, u)
    <2>1. J \ {k} \in SUBSET (1..k - 1)
      BY <1>3
    <2>2. PICK m, v : m <= k - 1 /\ Ascending(J \ {k}, m, v)
      BY <1>5, <2>1
    <2>3. m \in Nat /\ v \in [1..m -> J \ {k}]
      BY <2>2 DEF Ascending
    <2>4. CASE k \notin J
      <3>1. J \ {k} = J /\ m <= k
        BY <1>3, <2>2, <2>3, <2>4
      <3> QED
        BY <2>2, <3>1
    <2>5. CASE k \in J
      <3> DEFINE u == [i \in 1..m + 1 |-> IF i = m + 1 THEN k ELSE v[i]]
      <3>1. \A i \in 1..m + 1 : i # m + 1 => i \in 1..m
        BY <2>3
      <3>2. u \in [1..m + 1 -> J] /\ m + 1 \in Nat /\ m + 1 <= k
        BY <1>3, <2>2, <2>3, <2>5, <3>1
      <3>3. ASSUME NEW x \in J PROVE \E i \in 1..m + 1 : u[i] = x
        <4>1. CASE x = k
          BY <2>3, <4>1
        <4>2. CASE x # k
          <5>1. PICK i \in 1..m : v[i] = x
            BY <2>2, <4>2 DEF Ascending
          <5>2. i \in 1..m + 1 /\ u[i] = x
            BY <2>3, <5>1
          <5> QED
            BY <5>2
        <4> QED
          BY <4>1, <4>2
      <3>4. ASSUME NEW i \in 1..m + 1, NEW j \in 1..m + 1, i < j PROVE u[i] < u[j]
        <4>0. i \in 1..m
          BY <2>3, <3>4
        <4>1. u[i] = v[i] /\ v[i] \in 1..k - 1
          <5>1. i # m + 1 /\ i \in 1..m + 1
            BY <2>3, <4>0
          <5>2. v[i] \in J \ {k}
            BY <2>3, <4>0
          <5> QED
            BY <2>1, <5>1, <5>2
        <4>2. CASE j = m + 1
          BY <1>3, <4>0, <4>1, <4>2
        <4>3. CASE j # m + 1
          <5>1. j \in 1..m /\ u[j] = v[j]
            BY <2>3, <4>3
          <5> QED
            BY <2>2, <3>4, <4>0, <4>1, <5>1 DEF Ascending
        <4> QED
          BY <4>2, <4>3
      <3> HIDE DEF u
      <3> QED
        BY <3>2, <3>3, <3>4 DEF Ascending
    <2> QED
      BY <2>4, <2>5
  <1> QED
    BY <1>3, <1>6

Permanent(e) == bp[e].type \notin Temporary

\* The first permanent event behind the i-th.
LEMMA FirstKeptIs ==
    ASSUME DOMAIN bp \subseteq Event, NEW n, NEW s, Linked(bp, bphead, n, s), n <= MaxEvents,
           NEW i \in Nat
    PROVE  /\ (\A x \in 1..n : i < x => ~Permanent(s[x])) => FirstKept(i) = 0
           /\ \A y \in 1..n : i < y /\ Permanent(s[y])
                              /\ (\A x \in 1..n : i < x /\ Permanent(s[x]) => y <= x)
                 => FirstKept(i) = s[y]
  <1>1. n \in Nat /\ MaxEvents \in Nat
    BY EventAssumption DEF Linked
  <1>2. ASSUME NEW j \in Nat
        PROVE  /\ Nth[j] = At(n, s, j + 1)
               /\ Kept(j) <=> j + 1 \in 1..n /\ Permanent(s[j + 1])
    <2>1. Nth[j] = At(n, s, j + 1)
      BY LinkedNth
    <2>2. CASE j + 1 \in 1..n
      <3>1. s[j + 1] # 0
        BY <2>2, EventAssumption DEF Linked, Event
      <3> QED
        BY <2>1, <2>2, <3>1 DEF At, Kept, Permanent
    <2>3. CASE j + 1 \notin 1..n
      BY <2>1, <2>3 DEF At, Kept
    <2> QED
      BY <2>1, <2>2, <2>3
  <1>3. ASSUME \A x \in 1..n : i < x => ~Permanent(s[x]) PROVE FirstKept(i) = 0
    <2>1. ASSUME NEW j \in i..MaxEvents PROVE ~Kept(j)
      <3>1. j \in Nat /\ i < j + 1
        BY <1>1
      <3> QED
        BY <1>2, <1>3, <3>1
    <2> QED
      BY <2>1 DEF FirstKept
  <1>4. ASSUME NEW y \in 1..n, i < y, Permanent(s[y]),
               \A x \in 1..n : i < x /\ Permanent(s[x]) => y <= x
        PROVE  FirstKept(i) = s[y]
    <2> DEFINE First(j) == Kept(j) /\ \A k \in i..j - 1 : ~Kept(k)
    <2>1. y - 1 \in i..MaxEvents /\ (y - 1) + 1 = y /\ y - 1 \in Nat
      BY <1>1, <1>4
    <2>2. Kept(y - 1)
      BY <1>2, <1>4, <2>1
    <2>3. ASSUME NEW k \in i..(y - 1) - 1 PROVE ~Kept(k)
      <3>1. k \in Nat /\ i < k + 1 /\ ~(y <= k + 1)
        BY <1>1, <2>1
      <3> QED
        BY <1>2, <1>4, <3>1
    <2>4. First(y - 1)
      BY <2>2, <2>3
    <2>5. ASSUME NEW j \in i..MaxEvents, First(j) PROVE j = y - 1
      <3>1. j \in Int /\ i <= j /\ ~(y - 1 \in i..j - 1)
        BY <2>2, <2>5
      <3>2. ~(j \in i..(y - 1) - 1)
        BY <2>3, <2>5
      <3> QED
        BY <1>1, <2>1, <3>1, <3>2
    <2>6. (CHOOSE j \in i..MaxEvents : First(j)) = y - 1
      <3> HIDE DEF First
      <3> QED
        BY <2>1, <2>4, <2>5
    <2>7. FirstKept(i) = Nth[CHOOSE j \in i..MaxEvents : First(j)]
      BY <2>1, <2>2 DEF FirstKept
    <2>8. Nth[y - 1] = s[y]
      BY <1>2, <2>1 DEF At
    <2> HIDE DEF First
    <2> QED
      BY <2>6, <2>7, <2>8
  <1> QED
    BY <1>3, <1>4

\* fixbps leaves the permanent events linked.
KeptList == [bp |-> [e \in { x \in DOMAIN bp : Permanent(x) } |->
                        [bp[e] EXCEPT !.next = FirstKept(Place(e) + 1)]],
             bphead |-> FirstKept(0)]

LEMMA KeptLinked ==
    ASSUME DOMAIN bp \subseteq Event, \A e \in DOMAIN bp : bp[e] \in Bpinfo,
           NEW n, NEW s, Linked(bp, bphead, n, s), n <= MaxEvents
    PROVE  \E m, t : m <= n /\ Linked(KeptList.bp, KeptList.bphead, m, t)
  <1> DEFINE K == { i \in 1..n : Permanent(s[i]) }
             l == KeptList
  <1>1. n \in Nat /\ MaxEvents \in Nat /\ s \in [1..n -> DOMAIN bp]
    BY EventAssumption DEF Linked
  <1>2. PICK m, u : m <= n /\ Ascending(K, m, u)
    <2>1. K \in SUBSET (1..n)
      OBVIOUS
    <2> HIDE DEF K
    <2> QED
      BY <1>1, <2>1, InOrder
  <1>3. /\ m \in Nat /\ u \in [1..m -> K]
        /\ m <= n
        /\ \A x \in K : \E i \in 1..m : u[i] = x
        /\ \A i, j \in 1..m : i < j => u[i] < u[j]
    BY <1>2 DEF Ascending
  <1> DEFINE t == [i \in 1..m |-> s[u[i]]]
  <1>4. DOMAIN l.bp = { x \in DOMAIN bp : Permanent(x) } /\ l.bphead = FirstKept(0)
    BY DEF KeptList
  <1>5. \A i \in 1..m : u[i] \in 1..n /\ Permanent(s[u[i]]) /\ t[i] = s[u[i]]
    BY <1>3
  <1>6. t \in [1..m -> DOMAIN l.bp]
    BY <1>1, <1>4, <1>5
  <1>7. ASSUME NEW x \in DOMAIN l.bp PROVE \E i \in 1..m : t[i] = x
    <2>1. PICK y \in 1..n : s[y] = x
      BY <1>4 DEF Linked
    <2>2. y \in K
      BY <1>4, <2>1
    <2> QED
      BY <1>3, <1>5, <2>1, <2>2
  <1>8. ASSUME NEW i \in 1..m, NEW j \in 1..m, t[i] = t[j] PROVE i = j
    <2>1. u[i] = u[j]
      BY <1>5, <1>8 DEF Linked
    <2>2. ~(i < j) /\ ~(j < i)
      BY <1>1, <1>3, <1>5, <2>1
    <2> QED
      BY <2>2
  \* Behind the i-th of those kept comes the next.
  <1>9. ASSUME NEW i \in 0..m PROVE FirstKept(IF i = 0 THEN 0 ELSE u[i]) = At(m, t, i + 1)
    <2> DEFINE w == IF i = 0 THEN 0 ELSE u[i]
    <2>1. w \in Nat
      BY <1>5
    <2>2. \A x \in K : w < x => \E j \in i + 1..m : u[j] = x
      <3>1. SUFFICES ASSUME NEW x \in K, w < x PROVE \E j \in i + 1..m : u[j] = x
        OBVIOUS
      <3>2. PICK j \in 1..m : u[j] = x
        BY <1>3
      <3>3. ~(j < i) /\ j # i
        <4>1. CASE i = 0
          BY <4>1
        <4>2. CASE i # 0
          <5>1. i \in 1..m /\ u[i] < u[j] /\ u[i] \in Nat /\ u[j] \in Nat
            BY <1>5, <3>1, <3>2, <4>2
          <5>2. j < i => u[j] < u[i]
            BY <1>3, <5>1
          <5> QED
            BY <5>1, <5>2
        <4> QED
          BY <4>1, <4>2
      <3>4. j \in i + 1..m
        BY <3>3
      <3> QED
        BY <3>2, <3>4
    <2>3. CASE i = m
      <3>1. \A x \in 1..n : w < x => ~Permanent(s[x])
        BY <2>2, <2>3
      <3>2. At(m, t, i + 1) = 0
        BY <2>3 DEF At
      <3> HIDE DEF w
      <3>3. FirstKept(w) = 0
        BY <2>1, <3>1, FirstKeptIs
      <3> QED
        BY <3>2, <3>3 DEF w
    <2>4. CASE i # m
      <3>1. i + 1 \in 1..m /\ At(m, t, i + 1) = s[u[i + 1]]
        BY <1>3, <2>4 DEF At
      <3>2. w < u[i + 1]
        BY <1>3, <1>5, <3>1
      <3>3. ASSUME NEW x \in 1..n, w < x, Permanent(s[x]) PROVE u[i + 1] <= x
        <4>1. PICK j \in i + 1..m : u[j] = x
          BY <2>2, <3>3
        <4>2. j = i + 1 \/ u[i + 1] < u[j]
          BY <1>3, <3>1, <4>1
        <4> QED
          BY <1>5, <3>1, <4>1, <4>2
      <3>4. u[i + 1] \in 1..n /\ Permanent(s[u[i + 1]])
        BY <1>5, <3>1
      <3> HIDE DEF w
      <3>5. FirstKept(w) = s[u[i + 1]]
        BY <2>1, <3>2, <3>3, <3>4, FirstKeptIs
      <3> QED
        BY <3>1, <3>5 DEF w
    <2> QED
      BY <2>3, <2>4
  <1>10. l.bphead = At(m, t, 1)
    <2>1. 0 \in 0..m
      BY <1>3
    <2>2. FirstKept(0) = At(m, t, 0 + 1)
      BY <1>9, <2>1
    <2> QED
      BY <1>4, <2>2
  <1>11. ASSUME NEW i \in 1..m PROVE l.bp[t[i]].next = At(m, t, i + 1)
    <2>1. Place(t[i]) = u[i] - 1
      <3>1. u[i] - 1 \in 0..MaxEvents /\ Nth[u[i] - 1] = s[u[i]]
        <4>1. u[i] - 1 \in Nat /\ (u[i] - 1) + 1 = u[i] /\ u[i] - 1 \in 0..MaxEvents
          BY <1>1, <1>5
        <4>2. Nth[u[i] - 1] = At(n, s, (u[i] - 1) + 1)
          BY <4>1, LinkedNth
        <4>3. u[i] \in 1..n
          BY <1>5
        <4>4. At(n, s, u[i]) = s[u[i]]
          BY <4>3 DEF At
        <4> QED
          BY <4>1, <4>2, <4>4
      <3>2. ASSUME NEW j \in 0..MaxEvents, Nth[j] = s[u[i]] PROVE j = u[i] - 1
        <4>1. Nth[j] = At(n, s, j + 1) /\ s[u[i]] # 0
          <5>1. j \in Nat
            BY <1>1
          <5>2. Nth[j] = At(n, s, j + 1)
            BY <5>1, LinkedNth
          <5>3. s[u[i]] \in Event
            BY <1>1, <1>5
          <5> QED
            BY <5>2, <5>3, EventAssumption DEF Event
        <4>2. j + 1 \in 1..n /\ s[j + 1] = s[u[i]]
          BY <3>2, <4>1 DEF At
        <4>3. j + 1 = u[i]
          BY <1>5, <4>2 DEF Linked
        <4> QED
          BY <1>1, <4>3
      <3> QED
        BY <1>5, <3>1, <3>2 DEF Place
    <2>2. Place(t[i]) + 1 = u[i]
      BY <1>5, <2>1
    <2>3. t[i] \in DOMAIN l.bp /\ bp[t[i]] \in Bpinfo
      BY <1>4, <1>6
    <2>4. l.bp[t[i]] = [bp[t[i]] EXCEPT !.next = FirstKept(Place(t[i]) + 1)]
      BY <1>4, <2>3 DEF KeptList
    <2>5. l.bp[t[i]].next = FirstKept(u[i])
      BY <2>2, <2>3, <2>4 DEF Bpinfo
    <2>6. i \in 0..m /\ i # 0
      BY <1>3
    <2> QED
      BY <1>9, <2>5, <2>6
  <1> HIDE DEF t, l
  <1>12. Linked(l.bp, l.bphead, m, t)
    BY <1>3, <1>6, <1>7, <1>8, <1>10, <1>11 DEF Linked
  <1> QED
    BY <1>3, <1>12 DEF l

-----------------------------------------------------------------------------
(***************************************************************************)
(* What the operations on the list keep.                                   *)
(***************************************************************************)

\* What a well formed list is, in terms of the state.
LEMMA GoodIs ==
    GoodList(Now) => /\ GoodEvents(bp) /\ Linked(bp, bphead, Count, List)
                     /\ IsFiniteSet(DOMAIN bp) /\ Count \in Nat /\ Count <= MaxEvents
  <1> SUFFICES ASSUME GoodList(Now)
               PROVE  /\ GoodEvents(bp) /\ Linked(bp, bphead, Count, List)
                      /\ IsFiniteSet(DOMAIN bp) /\ Count \in Nat /\ Count <= MaxEvents
    OBVIOUS
  <1>1. Now.bp = bp /\ Now.bphead = bphead
    BY DEF Now
  <1>2. GoodEvents(bp) /\ DOMAIN bp \subseteq Event
    BY <1>1 DEF GoodList, GoodEvents
  <1>3. PICK n, s : Linked(bp, bphead, n, s)
    BY <1>1 DEF GoodList
  <1>4. Count = n /\ List = s /\ n \in Nat
    <2>1. n \in Nat
      BY <1>3 DEF Linked
    <2> QED
      BY <1>2, <1>3, <2>1, LinkedIs DEF OneOrder
  <1>5. IsFiniteSet(DOMAIN bp)
    BY <1>3, LinkedCount
  <1>6. IsFiniteSet(Event) /\ Cardinality(Event) = MaxEvents
    BY FS_Interval, EventAssumption DEF Event
  <1>7. Cardinality(DOMAIN bp) <= MaxEvents
    BY <1>2, <1>6, FS_Subset
  <1> QED
    BY <1>2, <1>3, <1>4, <1>5, <1>7 DEF Count

\* Every place in and behind the list is an event or 0.
LEMMA AtType ==
    ASSUME NEW l, GoodEvents(l.bp), NEW n, NEW s, Linked(l.bp, l.bphead, n, s), NEW i
    PROVE  /\ At(n, s, i) \in 0..MaxEvents
           /\ i \in 1..n => At(n, s, i) = s[i] /\ s[i] \in DOMAIN l.bp /\ s[i] # 0
           /\ i \notin 1..n => At(n, s, i) = 0
           /\ l.bphead \in 0..MaxEvents
  <1>1. DOMAIN l.bp \subseteq 1..MaxEvents /\ MaxEvents \in Nat
    BY EventAssumption DEF GoodEvents, Event
  <1>2. \A j \in 1..n : s[j] \in DOMAIN l.bp
    BY DEF Linked
  <1>3. l.bphead = At(n, s, 1)
    BY DEF Linked
  <1> QED
    BY <1>1, <1>2, <1>3 DEF At

LEMMA AddGood ==
    ASSUME NEW l, GoodList(l), NEW b \in Bpinfo, InPlace(b), NEW m, NEW e, Added(l, b, m, e)
    PROVE  GoodList(m)
  <1>1. PICK n, s : Linked(l.bp, l.bphead, n, s)
    BY DEF GoodList
  <1>2. Linked(m.bp, m.bphead, n + 1, Pushed(n, s, e))
    BY <1>1, AddedLinked
  <1>3. l.bphead \in 0..MaxEvents
    BY <1>1, AtType DEF GoodList
  <1>4. ASSUME NEW x \in DOMAIN m.bp PROVE m.bp[x] \in Bpinfo /\ InPlace(m.bp[x])
    <2>1. CASE x = e
      <3>1. m.bp[x] = [b EXCEPT !.next = l.bphead]
        BY <2>1 DEF Added
      <3> HIDE DEF InPlace
      <3>2. m.bp[x] \in Bpinfo /\ Alike(m.bp[x], b)
        BY <1>3, <3>1 DEF Bpinfo, Alike
      <3> QED
        BY <3>2 DEF InPlace, Alike
    <2>2. CASE x # e
      BY <2>2 DEF Added, GoodList, GoodEvents
    <2> QED
      BY <2>1, <2>2
  <1>5. DOMAIN m.bp \in SUBSET Event
    BY DEF Added, GoodList, GoodEvents
  <1> QED
    BY <1>2, <1>4, <1>5 DEF GoodList, GoodEvents

LEMMA AddOwns ==
    ASSUME NEW l, Owns(l.bp), NEW b \in Bpinfo, NEW m, NEW e, Added(l, b, m, e),
           b.type = "BLOCK_OFF" =>
               /\ b.old \in DOMAIN l.bp /\ l.bp[b.old].type = "CALL"
               /\ \A f \in DOMAIN l.bp : l.bp[f].type = "BLOCK_OFF" => l.bp[f].old # b.old
    PROVE  Owns(m.bp)
  <1>1. m.bp[e].type = b.type /\ m.bp[e].old = b.old
    BY DEF Added, Bpinfo
  <1>2. /\ e \notin DOMAIN l.bp /\ DOMAIN m.bp = DOMAIN l.bp \cup {e}
        /\ \A x \in DOMAIN l.bp : m.bp[x] = l.bp[x]
    BY DEF Added
  <1>3. ASSUME NEW x \in DOMAIN m.bp, m.bp[x].type = "BLOCK_OFF"
        PROVE  /\ m.bp[x].old \in DOMAIN m.bp /\ m.bp[m.bp[x].old].type = "CALL"
               /\ \A f \in DOMAIN m.bp :
                     m.bp[f].type = "BLOCK_OFF" /\ m.bp[f].old = m.bp[x].old => f = x
    <2>1. CASE x = e
      BY <1>1, <1>2, <1>3, <2>1
    <2>2. CASE x # e
      <3>1. x \in DOMAIN l.bp /\ m.bp[x] = l.bp[x] /\ HasCall(l.bp, x)
        BY <1>2, <2>2 DEF Owns
      <3> QED
        BY <1>1, <1>2, <1>3, <3>1 DEF HasCall
    <2> QED
      BY <2>1, <2>2
  <1> QED
    BY <1>3 DEF Owns, HasCall

LEMMA RemoveGood ==
    ASSUME NEW l, GoodEvents(l.bp), NEW n, NEW s, Linked(l.bp, l.bphead, n, s), NEW k \in 1..n,
           NEW m, m = Unlink(l, s[k], At(n, s, k - 1))
    PROVE  /\ GoodList(m) /\ Removed(l, m, s[k])
           /\ Linked(m.bp, m.bphead, n - 1, Without(n, s, k))
  <1>1. Linked(m.bp, m.bphead, n - 1, Without(n, s, k))
    BY UnlinkLinked DEF GoodEvents
  <1>2. s[k] \in DOMAIN l.bp
    BY DEF Linked
  <1>3. Removed(l, m, s[k])
    BY <1>2, UnlinkRemoves DEF GoodEvents
  <1>4. \A x \in DOMAIN m.bp : InPlace(m.bp[x])
    BY <1>3 DEF Removed, Alike, InPlace, GoodEvents
  <1> QED
    BY <1>1, <1>3, <1>4 DEF GoodList, GoodEvents, Removed

LEMMA RemoveOwns ==
    ASSUME NEW l, Owns(l.bp), NEW e \in DOMAIN l.bp, l.bp[e].type # "CALL",
           NEW m, Removed(l, m, e)
    PROVE  Owns(m.bp)
  <1>1. /\ DOMAIN m.bp = DOMAIN l.bp \ {e}
        /\ \A x \in DOMAIN m.bp : m.bp[x].type = l.bp[x].type /\ m.bp[x].old = l.bp[x].old
    BY DEF Removed, Alike
  <1> QED
    BY <1>1 DEF Owns, HasCall

\* What delbp finds in front of an event.
LEMMA BeforeIs ==
    ASSUME GoodList(Now), NEW k \in 1..Count
    PROVE  Before(List[k]) = At(Count, List, k - 1)
  <1>1. Linked(bp, bphead, Count, List) /\ Count \in Nat /\ GoodEvents(bp)
    BY GoodIs
  <1>2. \A i \in 1..Count : List[i] = List[k] => i = k
    BY <1>1 DEF Linked
  <1>3. bphead = At(Count, List, 1)
    BY <1>1 DEF Linked
  <1>4. CASE k = 1
    BY <1>3, <1>4 DEF At, Before
  <1>5. CASE k # 1
    <2>1. 1 \in 1..Count /\ bphead = List[1] /\ bphead # List[k]
      BY <1>1, <1>2, <1>3, <1>5 DEF At
    <2>2. /\ k - 1 \in 1..Count /\ (k - 1) + 1 = k /\ List[k - 1] \in DOMAIN bp
          /\ At(Count, List, k - 1) = List[k - 1]
      BY <1>1, <1>5 DEF At, Linked
    <2>3. bp[List[k - 1]].next = List[k]
      <3>1. bp[List[k - 1]].next = At(Count, List, k)
        BY <1>1, <2>2 DEF Linked
      <3> QED
        BY <3>1 DEF At
    <2>4. ASSUME NEW x \in DOMAIN bp, bp[x].next = List[k] PROVE x = List[k - 1]
      <3>1. PICK i \in 1..Count : List[i] = x
        BY <1>1 DEF Linked
      <3>2. At(Count, List, i + 1) = List[k] /\ List[k] \in DOMAIN bp /\ List[k] # 0
        BY <1>1, <2>4, <3>1, EventAssumption DEF Linked, GoodEvents, Event
      <3>3. i + 1 \in 1..Count /\ List[i + 1] = List[k]
        BY <3>2 DEF At
      <3>4. i + 1 = k
        BY <1>2, <3>3
      <3> QED
        BY <3>1, <3>4
    <2>5. (CHOOSE x \in DOMAIN bp : bp[x].next = List[k]) = List[k - 1]
      BY <2>2, <2>3, <2>4
    <2> QED
      BY <2>1, <2>2, <2>5 DEF Before
  <1> QED
    BY <1>4, <1>5

-----------------------------------------------------------------------------
(***************************************************************************)
(* What a step does to the list.                                           *)
(***************************************************************************)

LEMMA BpType ==
    ASSUME NEW a \in Address, NEW t \in BPTYPE, NEW f \in Func, NEW c \in Cond \cup {None},
           NEW x \in Func \cup {None}
    PROVE  /\ Bp(a, t, f, c, x) \in Bpinfo
           /\ Bp(a, t, f, c, x).addr = a /\ Bp(a, t, f, c, x).type = t
           /\ Bp(a, t, f, c, x).block = f /\ Bp(a, t, f, c, x).cond = c
           /\ Bp(a, t, f, c, x).node = x
  BY EventAssumption DEF Bp, Bpinfo

\* The primed order is known when the primed events are linked in it.
LEMMA NextList ==
    ASSUME GoodList(Now)', NEW n, NEW s, Linked(bp', bphead', n, s)
    PROVE  Count' = n /\ List' = s /\ Linked(bp', bphead', Count', List')
  <1>1. DOMAIN bp' \subseteq Event
    BY DEF GoodList, GoodEvents, Now
  <1>2. OneOrder'
    BY LinkedIs, PTL
  <1> QED
    BY <1>1, <1>2 DEF OneOrder

LEMMA SameGood ==
    ASSUME NEW l, bp' = l.bp, bphead' = l.bphead, GoodList(l)
    PROVE  GoodList(Now)' /\ Now'.bp = bp' /\ Now'.bphead = bphead'
  BY DEF GoodList, Now

\* One event more, at the head.
LEMMA ListAdded ==
    ASSUME GoodList(Now), NEW b \in Bpinfo, InPlace(b), Count < MaxEvents,
           Becomes(Add(Now, b))
    PROVE  /\ GoodList(Now)' /\ Count' = Count + 1
           /\ b.type # "BLOCK_OFF" /\ Owns(bp) => Owns(bp)'
           /\ \E e : /\ Added(Now, b, [bp |-> bp', bphead |-> bphead'], e)
                     /\ List' = Pushed(Count, List, e)
  <1> DEFINE m == Add(Now, b)
  <1>1. /\ GoodEvents(bp) /\ Linked(bp, bphead, Count, List)
        /\ IsFiniteSet(DOMAIN bp) /\ Count \in Nat /\ Cardinality(DOMAIN bp) = Count
        /\ Now.bp = bp /\ Now.bphead = bphead
    BY GoodIs DEF Count, Now
  <1>2. PICK e : Added(Now, b, m, e)
    BY <1>1, AddAdds
  <1>3. GoodList(m) /\ Linked(m.bp, m.bphead, Count + 1, Pushed(Count, List, e))
    BY <1>1, <1>2, AddGood, AddedLinked
  <1> HIDE DEF m
  <1>4. bp' = m.bp /\ bphead' = m.bphead
    BY DEF Becomes, m
  <1>5. GoodList(Now)'
    BY <1>3, <1>4, SameGood
  <1>6. Count' = Count + 1 /\ List' = Pushed(Count, List, e)
    BY <1>3, <1>4, <1>5, NextList
  <1>7. b.type # "BLOCK_OFF" /\ Owns(bp) => Owns(bp)'
    <2>1. b.type # "BLOCK_OFF" /\ Owns(bp) => Owns(m.bp)
      BY <1>1, <1>2, AddOwns
    <2> QED
      BY <1>4, <2>1 DEF Owns
  <1>8. Added(Now, b, [bp |-> bp', bphead |-> bphead'], e)
    BY <1>2, <1>4 DEF Added
  <1> QED
    BY <1>5, <1>6, <1>7, <1>8

\* The k-th event less.
LEMMA ListRemoved ==
    ASSUME GoodList(Now), NEW k \in 1..Count,
           Becomes(Unlink(Now, List[k], At(Count, List, k - 1)))
    PROVE  /\ GoodList(Now)' /\ Count' = Count - 1 /\ List' = Without(Count, List, k)
           /\ bp[List[k]].type # "CALL" /\ Owns(bp) => Owns(bp)'
           /\ DOMAIN bp' = DOMAIN bp \ {List[k]}
           /\ \A x \in DOMAIN bp' : Alike(bp'[x], bp[x])
  <1> DEFINE m == Unlink(Now, List[k], At(Count, List, k - 1))
  <1>1. /\ GoodEvents(bp) /\ Linked(bp, bphead, Count, List)
        /\ Now.bp = bp /\ Now.bphead = bphead
    BY GoodIs DEF Now
  <1>2. /\ GoodList(m) /\ Removed(Now, m, List[k])
        /\ Linked(m.bp, m.bphead, Count - 1, Without(Count, List, k))
    BY <1>1, RemoveGood
  <1> HIDE DEF m
  <1>3. bp' = m.bp /\ bphead' = m.bphead
    BY DEF Becomes, m
  <1>4. GoodList(Now)'
    BY <1>2, <1>3, SameGood
  <1>5. Count' = Count - 1 /\ List' = Without(Count, List, k)
    BY <1>2, <1>3, <1>4, NextList
  <1>6. bp[List[k]].type # "CALL" /\ Owns(bp) => Owns(bp)'
    <2>1. List[k] \in DOMAIN bp
      BY <1>1 DEF Linked
    <2>2. bp[List[k]].type # "CALL" /\ Owns(bp) => Owns(m.bp)
      BY <1>1, <1>2, <2>1, RemoveOwns
    <2> QED
      BY <1>3, <2>2 DEF Owns
  <1> QED
    BY <1>1, <1>2, <1>3, <1>4, <1>5, <1>6 DEF Removed

\* The same list.
LEMMA ListSame ==
    ASSUME GoodList(Now), UNCHANGED list
    PROVE  /\ GoodList(Now)' /\ Count' = Count /\ List' = List
           /\ Owns(bp) => Owns(bp)'
  <1>1. bp' = bp /\ bphead' = bphead /\ Now.bp = bp /\ Now.bphead = bphead
    BY DEF list, Now
  <1>2. Linked(bp, bphead, Count, List)
    BY GoodIs
  <1>3. GoodList(Now)'
    BY <1>1, SameGood
  <1>4. Linked(bp', bphead', Count, List)
    BY <1>1, <1>2
  <1>5. Count' = Count /\ List' = List
    BY <1>3, <1>4, NextList
  <1> QED
    BY <1>1, <1>3, <1>5 DEF Owns

\* Walking on leaves room for what is still to come.
LEMMA BudgetKept ==
    ASSUME GoodList(Now), NEW k \in 1..Count, WalkAt(k), Budget(k), NEW k2, NEW d \in Int,
           Ahead(k2)' \subseteq Ahead(k) \ {walk.p},
           \A e \in Ahead(k2)' : Alike(bp'[e], bp[e]),
           walk'.at = walk.at, Count' = Count + d,
           walk'.delayed => walk.delayed \/ walk.p \in Adding(k, {"CALL"}),
           \/ d <= 0
           \/ d = 1 /\ walk.p \in Adding(k, {"ALL_ON", "STOP_ON", "TERM_ON"})
           \/ d = 2 /\ walk.p \in Adding(k, {"BLOCK_ON"})
    PROVE  Budget(k2)'
  <1> DEFINE Ones == {"ALL_ON", "STOP_ON", "TERM_ON"}
             Twos == {"BLOCK_ON"}
             Later == {"CALL"}
  <1>1. /\ Linked(bp, bphead, Count, List) /\ IsFiniteSet(DOMAIN bp)
        /\ Count \in Nat
    BY GoodIs
  <1>2. Ahead(k) \subseteq DOMAIN bp
    BY <1>1 DEF Ahead, Linked
  <1>3. \A types : IsFiniteSet(Adding(k, types)) /\ Cardinality(Adding(k, types)) \in Nat
    <2>1. SUFFICES ASSUME NEW types PROVE IsFiniteSet(Adding(k, types)) /\ Cardinality(Adding(k, types)) \in Nat
      OBVIOUS
    <2>2. Adding(k, types) \in SUBSET (DOMAIN bp)
      BY <1>2 DEF Adding
    <2> QED
      BY <1>1, <2>2, FS_Subset, FS_CardinalityType
  <1>4. \A types : Adding(k2, types)' \subseteq Adding(k, types) \ {walk.p}
    <2>1. \A types : Adding(k2, types)' = { e \in Ahead(k2)' : bp'[e].addr = walk'.at /\ bp'[e].type \in types }
      BY DEF Adding
    <2> QED
      BY <2>1 DEF Adding, Alike
  <1>5. ASSUME NEW types
        PROVE  /\ Cardinality(Adding(k2, types)') <=
                      IF walk.p \in Adding(k, types) THEN Cardinality(Adding(k, types)) - 1
                      ELSE Cardinality(Adding(k, types))
               /\ Cardinality(Adding(k2, types)') \in Nat
    <2> DEFINE rest == Adding(k, types) \ {walk.p}
    <2>1. IsFiniteSet(rest)
      BY <1>3, FS_Subset
    <2>2. Cardinality(rest) = IF walk.p \in Adding(k, types) THEN Cardinality(Adding(k, types)) - 1
                              ELSE Cardinality(Adding(k, types))
      BY <1>3, FS_RemoveElement
    <2>3. Adding(k2, types)' \subseteq rest
      BY <1>4
    <2> HIDE DEF rest
    <2>4. Cardinality(Adding(k2, types)') <= Cardinality(rest) /\ Cardinality(Adding(k2, types)') \in Nat
      BY <2>1, <2>3, FS_Subset, FS_CardinalityType
    <2> QED
      BY <2>2, <2>4
  <1>6. walk.p \in Adding(k, Ones) => walk.p \notin Adding(k, Twos)
    BY DEF Adding
  <1>7. (IF walk'.delayed \/ Adding(k2, Later)' # {} THEN 1 ELSE 0) <=
            (IF walk.delayed \/ Adding(k, Later) # {} THEN 1 ELSE 0)
    BY <1>4
  <1>8. Count + Cardinality(Adding(k, Ones)) + 2 * Cardinality(Adding(k, Twos))
            + (IF walk.delayed \/ Adding(k, Later) # {} THEN 1 ELSE 0) <= MaxEvents
    BY DEF Budget
  <1> DEFINE a == Cardinality(Adding(k, Ones))
             c == Cardinality(Adding(k, Twos))
             a2 == Cardinality(Adding(k2, Ones)')
             c2 == Cardinality(Adding(k2, Twos)')
             r == IF walk.delayed \/ Adding(k, Later) # {} THEN 1 ELSE 0
             r2 == IF walk'.delayed \/ Adding(k2, Later)' # {} THEN 1 ELSE 0
  <1>9. a \in Nat /\ c \in Nat /\ r \in Nat /\ r2 \in Nat
    BY <1>3
  <1>10. /\ a2 <= IF walk.p \in Adding(k, Ones) THEN a - 1 ELSE a
         /\ c2 <= IF walk.p \in Adding(k, Twos) THEN c - 1 ELSE c
         /\ a2 \in Nat /\ c2 \in Nat
    BY <1>5
  <1>11. r2 <= r /\ Count + a + 2 * c + r <= MaxEvents
    BY <1>7, <1>8
  <1>12. Count' + a2 + 2 * c2 + r2 <= MaxEvents
    <2> HIDE DEF a, c, a2, c2, r, r2
    <2> QED
      BY <1>1, <1>6, <1>9, <1>10, <1>11, EventAssumption
  <1> QED
    BY <1>12 DEF Budget

-----------------------------------------------------------------------------
(***************************************************************************)
(* What a step changes, said without places in the list.                   *)
(***************************************************************************)

Precedes(n, s, x, y) == \E i, j \in 1..n : i < j /\ s[i] = x /\ s[j] = y
InFront(x, y) == Precedes(Count, List, x, y)

\* The events that stay are the same, in the same order; the new ones are in front.
Evolves == /\ \A x \in DOMAIN bp \cap DOMAIN bp' : Alike(bp'[x], bp[x])
           /\ \A x, y \in DOMAIN bp \cap DOMAIN bp' : InFront(x, y)' <=> InFront(x, y)
           /\ \A x \in DOMAIN bp' \ DOMAIN bp, y \in DOMAIN bp \cap DOMAIN bp' :
                 InFront(x, y)' /\ ~InFront(y, x)'

Puts(N) == DOMAIN bp' = DOMAIN bp \cup N /\ N \cap DOMAIN bp = {} /\ Evolves
Takes(R) == DOMAIN bp' = DOMAIN bp \ R /\ Evolves

\* The order is strict.
LEMMA OrderIsStrict ==
    ASSUME NEW b, NEW h, NEW n, NEW s, Linked(b, h, n, s)
    PROVE  \A x, y : Precedes(n, s, x, y) => ~Precedes(n, s, y, x) /\ x # y
  <1>1. n \in Nat /\ \A i, j \in 1..n : s[i] = s[j] => i = j
    BY DEF Linked
  <1> QED
    BY <1>1 DEF Precedes

LEMMA PushedOrder ==
    ASSUME NEW n \in Nat, NEW s, NEW e, \A i \in 1..n : s[i] # e
    PROVE  /\ \A x, y : x # e /\ y # e =>
                 (Precedes(n + 1, Pushed(n, s, e), x, y) <=> Precedes(n, s, x, y))
           /\ \A y : (\E i \in 1..n : s[i] = y) =>
                 Precedes(n + 1, Pushed(n, s, e), e, y) /\ ~Precedes(n + 1, Pushed(n, s, e), y, e)
  <1> DEFINE t == Pushed(n, s, e)
  <1>1. t[1] = e /\ 1 \in 1..n + 1
    BY DEF Pushed
  <1>2. \A i \in 1..n : i + 1 \in 1..n + 1 /\ t[i + 1] = s[i]
    BY DEF Pushed
  <1>3. \A j \in 1..n + 1 : j = 1 \/ (j - 1 \in 1..n /\ t[j] = s[j - 1])
    BY DEF Pushed
  <1> HIDE DEF t
  <1>4. ASSUME NEW x, NEW y, x # e, y # e
        PROVE  Precedes(n + 1, t, x, y) <=> Precedes(n, s, x, y)
    <2>1. ASSUME Precedes(n + 1, t, x, y) PROVE Precedes(n, s, x, y)
      <3>1. PICK i \in 1..n + 1, j \in 1..n + 1 : i < j /\ t[i] = x /\ t[j] = y
        BY <2>1 DEF Precedes
      <3>2. i - 1 \in 1..n /\ s[i - 1] = x /\ j - 1 \in 1..n /\ s[j - 1] = y
        BY <1>1, <1>3, <1>4, <3>1
      <3>3. i - 1 < j - 1
        BY <3>1
      <3> QED
        BY <3>2, <3>3 DEF Precedes
    <2>2. ASSUME Precedes(n, s, x, y) PROVE Precedes(n + 1, t, x, y)
      <3>1. PICK i \in 1..n, j \in 1..n : i < j /\ s[i] = x /\ s[j] = y
        BY <2>2 DEF Precedes
      <3>2. /\ i + 1 \in 1..n + 1 /\ t[i + 1] = x /\ j + 1 \in 1..n + 1 /\ t[j + 1] = y
            /\ i + 1 < j + 1
        BY <1>2, <3>1
      <3> QED
        BY <3>2 DEF Precedes
    <2> QED
      BY <2>1, <2>2
  <1>5. ASSUME NEW y, NEW i \in 1..n, s[i] = y
        PROVE  Precedes(n + 1, t, e, y) /\ ~Precedes(n + 1, t, y, e)
    <2>1. i + 1 \in 1..n + 1 /\ t[i + 1] = y /\ 1 < i + 1
      BY <1>2, <1>5
    <2>2. Precedes(n + 1, t, e, y)
      BY <1>1, <2>1 DEF Precedes
    <2>3. \A j \in 1..n + 1 : t[j] = e => j = 1
      BY <1>3
    <2>4. ~Precedes(n + 1, t, y, e)
      BY <2>3 DEF Precedes
    <2> QED
      BY <2>2, <2>4
  <1> QED
    BY <1>4, <1>5 DEF t

LEMMA WithoutOrder ==
    ASSUME NEW n \in Nat, NEW s, NEW k \in 1..n, NEW x, NEW y, x # s[k], y # s[k]
    PROVE  Precedes(n - 1, Without(n, s, k), x, y) <=> Precedes(n, s, x, y)
  <1> DEFINE t == Without(n, s, k)
  <1>1. \A i \in 1..n - 1 : t[i] = IF i < k THEN s[i] ELSE s[i + 1]
    BY DEF Without
  <1> HIDE DEF t
  <1>2. ASSUME Precedes(n - 1, t, x, y) PROVE Precedes(n, s, x, y)
    <2>1. PICK i \in 1..n - 1, j \in 1..n - 1 : i < j /\ t[i] = x /\ t[j] = y
      BY <1>2 DEF Precedes
    <2>2. PICK i2 \in 1..n : s[i2] = x /\ i2 = IF i < k THEN i ELSE i + 1
      BY <1>1, <2>1
    <2>3. PICK j2 \in 1..n : s[j2] = y /\ j2 = IF j < k THEN j ELSE j + 1
      BY <1>1, <2>1
    <2>4. i2 < j2
      BY <2>1, <2>2, <2>3
    <2> QED
      BY <2>2, <2>3, <2>4 DEF Precedes
  <1>3. ASSUME Precedes(n, s, x, y) PROVE Precedes(n - 1, t, x, y)
    <2>1. PICK i \in 1..n, j \in 1..n : i < j /\ s[i] = x /\ s[j] = y
      BY <1>3 DEF Precedes
    <2>2. i # k /\ j # k
      BY <2>1
    <2>3. PICK i2 \in 1..n - 1 : t[i2] = x /\ i2 = IF i < k THEN i ELSE i - 1
      <3>1. CASE i < k
        BY <1>1, <2>1, <2>2, <3>1
      <3>2. CASE ~(i < k)
        <4>1. i - 1 \in 1..n - 1 /\ ~(i - 1 < k) /\ (i - 1) + 1 = i
          BY <2>2, <3>2
        <4> QED
          BY <1>1, <2>1, <3>2, <4>1
      <3> QED
        BY <3>1, <3>2
    <2>4. PICK j2 \in 1..n - 1 : t[j2] = y /\ j2 = IF j < k THEN j ELSE j - 1
      <3>1. CASE j < k
        BY <1>1, <2>1, <2>2, <3>1
      <3>2. CASE ~(j < k)
        <4>1. j - 1 \in 1..n - 1 /\ ~(j - 1 < k) /\ (j - 1) + 1 = j
          BY <2>2, <3>2
        <4> QED
          BY <1>1, <2>1, <3>2, <4>1
      <3> QED
        BY <3>1, <3>2
    <2>5. i2 < j2
      BY <2>1, <2>2, <2>3, <2>4
    <2> QED
      BY <2>3, <2>4, <2>5 DEF Precedes
  <1> QED
    BY <1>2, <1>3 DEF t

LEMMA PutsOne ==
    ASSUME GoodList(Now), NEW b \in Bpinfo, NEW e,
           Added(Now, b, [bp |-> bp', bphead |-> bphead'], e),
           Count' = Count + 1, List' = Pushed(Count, List, e)
    PROVE  Puts({e}) /\ Alike(bp'[e], b)
  <1>1. Linked(bp, bphead, Count, List) /\ Count \in Nat /\ Now.bp = bp
    BY GoodIs DEF Now
  <1>2. /\ e \notin DOMAIN bp /\ DOMAIN bp' = DOMAIN bp \cup {e}
        /\ bp'[e] = [b EXCEPT !.next = Now.bphead] /\ \A x \in DOMAIN bp : bp'[x] = bp[x]
    BY <1>1 DEF Added
  <1>3. \A i \in 1..Count : List[i] \in DOMAIN bp /\ List[i] # e
    BY <1>1, <1>2 DEF Linked
  <1>4. \A x, y : InFront(x, y)' <=> Precedes(Count + 1, Pushed(Count, List, e), x, y)
    BY DEF InFront
  <1>5. \A y \in DOMAIN bp : \E i \in 1..Count : List[i] = y
    BY <1>1 DEF Linked
  <1>6. \A x, y \in DOMAIN bp : InFront(x, y)' <=> InFront(x, y)
    BY <1>1, <1>2, <1>3, <1>4, PushedOrder DEF InFront
  <1>7. \A y \in DOMAIN bp : InFront(e, y)' /\ ~InFront(y, e)'
    BY <1>1, <1>3, <1>4, <1>5, PushedOrder
  <1>8. Evolves
    BY <1>2, <1>6, <1>7 DEF Evolves, Alike
  <1>9. Alike(bp'[e], b)
    BY <1>2 DEF Alike, Bpinfo
  <1> QED
    BY <1>2, <1>8, <1>9 DEF Puts

LEMMA PutsTwo ==
    ASSUME GoodList(Now), NEW b \in Bpinfo, NEW c \in Bpinfo, NEW l, NEW e, NEW f,
           Added(Now, b, l, e), Added(l, c, [bp |-> bp', bphead |-> bphead'], f),
           Count' = Count + 2, List' = Pushed(Count + 1, Pushed(Count, List, e), f)
    PROVE  Puts({e, f}) /\ e # f /\ Alike(bp'[e], b) /\ Alike(bp'[f], c)
  <1> DEFINE s == Pushed(Count, List, e)
  <1>1. Linked(bp, bphead, Count, List) /\ Count \in Nat /\ Now.bp = bp
    BY GoodIs DEF Now
  <1>2. /\ e \notin DOMAIN bp /\ DOMAIN l.bp = DOMAIN bp \cup {e}
        /\ l.bp[e] = [b EXCEPT !.next = Now.bphead] /\ \A x \in DOMAIN bp : l.bp[x] = bp[x]
    BY <1>1 DEF Added
  <1>3. /\ f \notin DOMAIN l.bp /\ DOMAIN bp' = DOMAIN l.bp \cup {f}
        /\ bp'[f] = [c EXCEPT !.next = l.bphead] /\ \A x \in DOMAIN l.bp : bp'[x] = l.bp[x]
    BY DEF Added
  <1>4. \A i \in 1..Count : List[i] \in DOMAIN bp /\ List[i] # e
    BY <1>1, <1>2 DEF Linked
  <1>5. \A i \in 1..Count + 1 : s[i] = e \/ s[i] \in DOMAIN bp
    BY <1>1, <1>4 DEF Pushed
  <1>6. \A i \in 1..Count + 1 : s[i] # f
    BY <1>2, <1>3, <1>5
  <1>7. \A y \in DOMAIN bp : \E i \in 1..Count : List[i] = y
    BY <1>1 DEF Linked
  <1>8. \A y \in DOMAIN bp : \E i \in 1..Count + 1 : s[i] = y
    <2>1. \A i \in 1..Count : i + 1 \in 1..Count + 1 /\ s[i + 1] = List[i]
      BY <1>1 DEF Pushed
    <2> QED
      BY <1>7, <2>1
  <1>9. \A x, y : InFront(x, y)' <=> Precedes((Count + 1) + 1, Pushed(Count + 1, s, f), x, y)
    <2>1. Count' = (Count + 1) + 1
      BY <1>1
    <2> QED
      BY <2>1 DEF InFront
  <1> HIDE DEF s
  <1>10. \A x, y : x # f /\ y # f => (InFront(x, y)' <=> Precedes(Count + 1, s, x, y))
    BY <1>1, <1>6, <1>9, PushedOrder
  <1>11. \A y \in DOMAIN bp : InFront(f, y)' /\ ~InFront(y, f)'
    BY <1>1, <1>6, <1>8, <1>9, PushedOrder
  <1>12. \A x, y \in DOMAIN bp : InFront(x, y)' <=> InFront(x, y)
    BY <1>1, <1>2, <1>3, <1>4, <1>10, PushedOrder DEF InFront, s
  <1>13. \A y \in DOMAIN bp : InFront(e, y)' /\ ~InFront(y, e)'
    BY <1>1, <1>2, <1>3, <1>4, <1>7, <1>10, PushedOrder DEF s
  <1>14. /\ DOMAIN bp' = DOMAIN bp \cup {e, f} /\ {e, f} \cap DOMAIN bp = {} /\ e # f
         /\ \A x \in DOMAIN bp : bp'[x] = bp[x]
    BY <1>2, <1>3
  <1>15. Evolves
    BY <1>11, <1>12, <1>13, <1>14 DEF Evolves, Alike
  <1>16. Alike(bp'[e], b) /\ Alike(bp'[f], c)
    BY <1>2, <1>3 DEF Alike, Bpinfo
  <1> QED
    BY <1>14, <1>15, <1>16 DEF Puts

LEMMA TakesOne ==
    ASSUME GoodList(Now), NEW k \in 1..Count, Count' = Count - 1, List' = Without(Count, List, k),
           DOMAIN bp' = DOMAIN bp \ {List[k]}, \A x \in DOMAIN bp' : Alike(bp'[x], bp[x])
    PROVE  Takes({List[k]})
  <1>1. Count \in Nat
    BY GoodIs
  <1>2. \A x, y : InFront(x, y)' <=> Precedes(Count - 1, Without(Count, List, k), x, y)
    BY DEF InFront
  <1>3. \A x, y \in DOMAIN bp' : InFront(x, y)' <=> InFront(x, y)
    BY <1>1, <1>2, WithoutOrder DEF InFront
  <1> QED
    BY <1>3 DEF Takes, Evolves

LEMMA TakesNone ==
    ASSUME UNCHANGED bp, Count' = Count, List' = List
    PROVE  Takes({}) /\ Evolves
  BY DEF Takes, Evolves, InFront, Alike

-----------------------------------------------------------------------------
\* What the walk has not come to.
Left == { e \in DOMAIN bp : \E k \in 1..Count + 1 : WalkAt(k) /\ e \in Ahead(k) }

\* It is at one place only.
OneLeft == GoodList(Now) => \A k \in 1..Count + 1 : WalkAt(k) => Left = Ahead(k)

LEMMA LeftIs == OneLeft
  <1> SUFFICES ASSUME GoodList(Now), NEW k \in 1..Count + 1, WalkAt(k)
               PROVE  Left = Ahead(k)
    BY DEF OneLeft
  <1>1. /\ GoodEvents(bp) /\ Linked(bp, bphead, Count, List) /\ Count \in Nat
    BY GoodIs
  <1>2. \A i \in 1..Count : List[i] # 0
    BY <1>1, EventAssumption DEF Linked, GoodEvents, Event
  <1>3. ASSUME NEW j \in 1..Count + 1, WalkAt(j) PROVE j = k
    <2>1. At(Count, List, j) = At(Count, List, k)
      BY <1>3 DEF WalkAt
    <2>2. CASE j \in 1..Count
      <3>1. List[j] # 0 /\ At(Count, List, j) = List[j]
        BY <1>2, <2>2 DEF At
      <3>2. k \in 1..Count /\ List[k] = List[j]
        BY <2>1, <3>1 DEF At
      <3> QED
        BY <1>1, <2>2, <3>2 DEF Linked
    <2>3. CASE j \notin 1..Count
      <3>1. At(Count, List, k) = 0
        BY <2>1, <2>3 DEF At
      <3>2. k \notin 1..Count
        BY <1>2, <3>1 DEF At
      <3> QED
        BY <1>1, <2>3, <3>2
    <2> QED
      BY <2>2, <2>3
  <1>4. Ahead(k) \subseteq DOMAIN bp
    <2>1. \A i \in k..Count : i \in 1..Count
      BY <1>1
    <2> QED
      BY <1>1, <2>1 DEF Ahead, Linked
  <1> QED
    BY <1>3, <1>4 DEF Left

\* A walk starts at the head of the list.
LEMMA Starts ==
    ASSUME GoodList(Now)', walk'.p = bphead', walk'.prev = 0, Budget(1)'
    PROVE  Walking' /\ Left' = DOMAIN bp'
  <1>1. (GoodList(Now) => /\ GoodEvents(bp) /\ Linked(bp, bphead, Count, List)
                          /\ IsFiniteSet(DOMAIN bp) /\ Count \in Nat /\ Count <= MaxEvents)'
    BY GoodIs, PTL
  <1>2. Linked(bp', bphead', Count', List') /\ Count' \in Nat
    BY <1>1
  <1>3. walk'.p = At(Count', List', 1)
    BY <1>2 DEF Linked
  <1>4. walk'.prev = At(Count', List', 1 - 1)
    <2>1. Count' \in Nat => ~(1 - 1 \in 1..Count')
      OBVIOUS
    <2> QED
      BY <1>2, <2>1 DEF At
  <1>5. WalkAt(1)'
    BY <1>3, <1>4 DEF WalkAt
  <1>6. 1 \in 1..Count' + 1
    <2>1. \A n \in Nat : 1 \in 1..n + 1
      OBVIOUS
    <2> QED
      BY <1>2, <2>1, Zenon
  <1>7. OneLeft'
    BY LeftIs, PTL
  <1>8. Left' = Ahead(1)'
    BY <1>5, <1>6, <1>7 DEF OneLeft
  <1>9. Ahead(1)' = DOMAIN bp'
    <2>1. Ahead(1)' = { List'[i] : i \in 1..Count' }
      BY DEF Ahead
    <2>2. \A e \in DOMAIN bp' : \E i \in 1..Count' : List'[i] = e
      BY <1>2 DEF Linked
    <2>3. \A i \in 1..Count' : List'[i] \in DOMAIN bp'
      BY <1>2 DEF Linked
    <2> QED
      BY <2>1, <2>2, <2>3
  <1> QED
    BY <1>5, <1>6, <1>8, <1>9 DEF Walking

\* Where routines return to, nothing is added.
LEMMA NothingAdds ==
    ASSUME GoodList(Now), walk.at[1] # "entry", NEW k \in Nat \ {0}, NEW types \in SUBSET Entering
    PROVE  Adding(k, types) = {}
  <1>1. GoodEvents(bp) /\ Linked(bp, bphead, Count, List)
    BY GoodIs
  <1>2. Ahead(k) \subseteq DOMAIN bp
    BY <1>1 DEF Ahead, Linked
  <1>3. \A e \in DOMAIN bp : bp[e].type \in Entering => bp[e].addr[1] = "entry"
    BY <1>1 DEF GoodEvents, InPlace, codeloc
  <1> QED
    BY <1>2, <1>3 DEF Adding

\* The walk is at an event of the list.
Here(k) == /\ k \in 1..Count /\ WalkAt(k) /\ Budget(k)
           /\ walk.p = List[k] /\ walk.p \in DOMAIN bp /\ ev \in Bpinfo /\ InPlace(ev)
           /\ ev.next = At(Count, List, k + 1) /\ ev.next \in 0..MaxEvents
           /\ walk.p \in Ahead(k)
           /\ Ahead(k) \ {walk.p} = { List[i] : i \in k + 1..Count }

LEMMA WalkPlace ==
    ASSUME ListInv, mode = "walk", walk.p # 0
    PROVE  \E k : Here(k)
  <1>1. /\ GoodList(Now) /\ GoodEvents(bp) /\ Linked(bp, bphead, Count, List)
        /\ Count \in Nat /\ Now.bp = bp /\ Now.bphead = bphead
    BY GoodIs DEF ListInv, Now
  <1>2. PICK k \in 1..Count + 1 : WalkAt(k) /\ Budget(k)
    BY DEF ListInv, Walking
  <1>3. k \in 1..Count /\ walk.p = List[k]
    BY <1>2 DEF WalkAt, At
  <1>4. walk.p \in DOMAIN bp /\ ev \in Bpinfo /\ InPlace(ev)
    BY <1>1, <1>3 DEF Linked, GoodEvents, ev
  <1>5. ev.next = At(Count, List, k + 1)
    BY <1>1, <1>3 DEF Linked, ev
  <1>6. ev.next \in 0..MaxEvents
    BY <1>4 DEF Bpinfo
  <1>7. walk.p \in Ahead(k)
    BY <1>1, <1>3 DEF Ahead
  <1>8. Ahead(k) \ {walk.p} = { List[i] : i \in k + 1..Count }
    <2>1. \A i \in 1..Count : List[i] = List[k] => i = k
      BY <1>1, <1>3 DEF Linked
    <2>2. \A i : i \in k..Count <=> i = k \/ i \in k + 1..Count
      BY <1>1, <1>3
    <2>3. \A i \in k + 1..Count : i \in 1..Count /\ i # k
      BY <1>1, <1>3
    <2> QED
      BY <1>3, <2>1, <2>2, <2>3 DEF Ahead
  <1> QED
    BY <1>2, <1>3, <1>4, <1>5, <1>6, <1>7, <1>8 DEF Here

\* SAVE, after d events have come in front.
LEMMA SaveWalks ==
    ASSUME GoodList(Now), NEW k, Here(k), NEW d \in Nat, Count' = Count + d,
           \A i \in 1..Count : List'[i + d] = List[i],
           \A x \in DOMAIN bp : bp'[x] = bp[x],
           walk'.at = walk.at, walk'.p = ev.next, walk'.prev = walk.p,
           walk'.delayed => walk.delayed \/ walk.p \in Adding(k, {"CALL"}),
           \/ d = 0
           \/ d = 1 /\ walk.p \in Adding(k, {"ALL_ON", "STOP_ON", "TERM_ON"})
           \/ d = 2 /\ walk.p \in Adding(k, {"BLOCK_ON"}),
           GoodList(Now)'
    PROVE  Walking' /\ Left' = Left \ {walk.p}
  <1>0. PICK k2 \in Nat : k2 = k + 1 + d
    BY DEF Here
  <1>1. /\ Linked(bp, bphead, Count, List) /\ Count \in Nat /\ k \in 1..Count
        /\ k2 \in Nat /\ k2 = k + 1 + d /\ k2 - 1 = k + d
    BY <1>0, GoodIs DEF Here
  <1>2. \A j \in 1..Count + 1 : At(Count', List', j + d) = At(Count, List, j)
    BY <1>1 DEF At
  <1>3. Ahead(k2)' = Ahead(k) \ {walk.p}
    <2>1. Ahead(k) \ {walk.p} = { List[i] : i \in k + 1..Count }
      BY DEF Here
    <2>2. Ahead(k2)' = { List'[i] : i \in k2..Count' }
      BY DEF Ahead
    <2>3. \A i \in k + 1..Count : i + d \in k2..Count' /\ List'[i + d] = List[i]
      BY <1>1
    <2>4. \A i \in k2..Count' : i - d \in k + 1..Count /\ (i - d) + d = i /\ List'[i] = List[i - d]
      <3>1. SUFFICES ASSUME NEW i \in k2..Count'
                     PROVE  i - d \in k + 1..Count /\ (i - d) + d = i /\ List'[i] = List[i - d]
        OBVIOUS
      <3>2. i - d \in k + 1..Count /\ (i - d) + d = i /\ i - d \in 1..Count
        BY <1>1
      <3>3. List'[(i - d) + d] = List[i - d]
        BY <3>2
      <3> QED
        BY <3>2, <3>3
    <2> QED
      BY <2>1, <2>2, <2>3, <2>4
  <1>4. WalkAt(k2)'
    <2>1. At(Count', List', k2) = At(Count, List, k + 1)
      BY <1>1, <1>2
    <2>2. At(Count', List', k2 - 1) = At(Count, List, k)
      BY <1>1, <1>2
    <2>3. At(Count, List, k) = walk.p
      BY <1>1 DEF Here, At
    <2>4. walk'.p = At(Count', List', k2) /\ walk'.prev = At(Count', List', k2 - 1)
      BY <2>1, <2>2, <2>3 DEF Here
    <2> QED
      BY <2>4 DEF WalkAt
  <1>5. Budget(k2)'
    <2>1. \A e \in Ahead(k) \ {walk.p} : Alike(bp'[e], bp[e])
      <3>1. \A i \in k..Count : i \in 1..Count
        BY <1>1
      <3>2. Ahead(k) \subseteq DOMAIN bp
        BY <1>1, <3>1 DEF Ahead, Linked
      <3> QED
        BY <3>2 DEF Alike
    <2>2. k \in 1..Count /\ WalkAt(k) /\ Budget(k) /\ d \in Int /\ (d = 0 => d <= 0)
      BY DEF Here
    <2> QED
      BY <1>3, <2>1, <2>2, BudgetKept
  <1>6. k2 \in 1..Count' + 1
    BY <1>1
  <1>7. OneLeft'
    BY LeftIs, PTL
  <1>8. Left' = Ahead(k2)' /\ Left = Ahead(k)
    <2>1. k \in 1..Count + 1 /\ WalkAt(k)
      BY <1>1 DEF Here
    <2>2. Left = Ahead(k)
      BY <2>1, LeftIs DEF OneLeft
    <2>3. Left' = Ahead(k2)'
      BY <1>4, <1>6, <1>7 DEF OneLeft
    <2> QED
      BY <2>2, <2>3
  <1> QED
    BY <1>3, <1>4, <1>5, <1>6, <1>8 DEF Walking

\* NOSAVE.
LEMMA NoSaveWalks ==
    ASSUME GoodList(Now), NEW k, Here(k), Count' = Count - 1, List' = Without(Count, List, k),
           \A x \in DOMAIN bp \ {walk.p} : Alike(bp'[x], bp[x]),
           walk' = [walk EXCEPT !.p = ev.next],
           walk \in [at : Address, p : 0..MaxEvents, prev : 0..MaxEvents, delayed : BOOLEAN],
           GoodList(Now)'
    PROVE  Walking' /\ Left' = Left \ {walk.p}
  <1>1. /\ Linked(bp, bphead, Count, List) /\ Count \in Nat /\ k \in 1..Count
    BY GoodIs DEF Here
  <1>2. \A i \in 1..Count' : List'[i] = IF i < k THEN List[i] ELSE List[i + 1]
    BY <1>1 DEF Without
  <1>3. /\ walk'.at = walk.at /\ walk'.p = ev.next /\ walk'.prev = walk.prev
        /\ walk'.delayed = walk.delayed
    OBVIOUS
  <1>4. WalkAt(k)'
    <2>1. At(Count', List', k) = At(Count, List, k + 1)
      BY <1>1, <1>2 DEF At
    <2>2. At(Count', List', k - 1) = At(Count, List, k - 1)
      BY <1>1, <1>2 DEF At
    <2> QED
      BY <1>3, <2>1, <2>2 DEF WalkAt, Here
  <1>5. Ahead(k)' = Ahead(k) \ {walk.p}
    <2>1. Ahead(k) \ {walk.p} = { List[i] : i \in k + 1..Count }
      BY DEF Here
    <2>2. Ahead(k)' = { List'[i] : i \in k..Count' }
      BY DEF Ahead
    <2>3. \A i \in k + 1..Count : i - 1 \in k..Count' /\ List'[i - 1] = List[i]
      <3>1. SUFFICES ASSUME NEW i \in k + 1..Count
                     PROVE  i - 1 \in k..Count' /\ List'[i - 1] = List[i]
        OBVIOUS
      <3>2. i - 1 \in k..Count' /\ i - 1 \in 1..Count' /\ ~(i - 1 < k) /\ (i - 1) + 1 = i
        BY <1>1
      <3> QED
        BY <1>2, <3>2
    <2>4. \A i \in k..Count' : i + 1 \in k + 1..Count /\ List'[i] = List[i + 1]
      BY <1>1, <1>2
    <2> QED
      BY <2>1, <2>2, <2>3, <2>4
  <1>6. Budget(k)'
    <2>1. \A e \in Ahead(k) \ {walk.p} : Alike(bp'[e], bp[e])
      BY <1>1 DEF Ahead, Linked
    <2>2. k \in 1..Count /\ WalkAt(k) /\ Budget(k) /\ -1 \in Int /\ -1 <= 0 /\ Count' = Count + (-1)
      BY <1>1 DEF Here
    <2> QED
      BY <1>3, <1>5, <2>1, <2>2, BudgetKept
  <1>7. k \in 1..Count' + 1
    BY <1>1
  <1>8. OneLeft'
    BY LeftIs, PTL
  <1>9. Left' = Ahead(k)' /\ Left = Ahead(k)
    <2>1. k \in 1..Count + 1 /\ WalkAt(k)
      BY <1>1 DEF Here
    <2>2. Left = Ahead(k)
      BY <2>1, LeftIs DEF OneLeft
    <2>3. Left' = Ahead(k)'
      BY <1>4, <1>7, <1>8 DEF OneLeft
    <2> QED
      BY <2>2, <2>3
  <1> QED
    BY <1>4, <1>5, <1>6, <1>7, <1>9 DEF Walking

-----------------------------------------------------------------------------
(***************************************************************************)
(* Each action leaves the list whole.                                      *)
(***************************************************************************)

\* Two events more, at the head.
LEMMA AddsTwo ==
    ASSUME GoodList(Now), NEW b \in Bpinfo, InPlace(b), NEW c \in Bpinfo, InPlace(c),
           Count + 1 < MaxEvents, NEW l, l = Add(Now, b), NEW m, m = Add(l, c)
    PROVE  \E e, f : /\ Added(Now, b, l, e) /\ Added(l, c, m, f)
                     /\ GoodList(l) /\ GoodList(m)
                     /\ Linked(m.bp, m.bphead, Count + 2, Pushed(Count + 1, Pushed(Count, List, e), f))
  <1>1. /\ Linked(bp, bphead, Count, List) /\ IsFiniteSet(DOMAIN bp) /\ Count \in Nat
        /\ Cardinality(DOMAIN bp) = Count /\ Now.bp = bp /\ Now.bphead = bphead
        /\ MaxEvents \in Nat
    BY GoodIs, EventAssumption DEF Count, Now
  <1>2. Count < MaxEvents
    BY <1>1
  <1>3. PICK e : Added(Now, b, l, e)
    BY <1>1, <1>2, AddAdds
  <1>4. GoodList(l) /\ Linked(l.bp, l.bphead, Count + 1, Pushed(Count, List, e))
    BY <1>1, <1>3, AddGood, AddedLinked
  <1>5. IsFiniteSet(DOMAIN l.bp) /\ Cardinality(DOMAIN l.bp) = Count + 1 /\ Count + 1 \in Nat
    BY <1>1, <1>4, LinkedCount
  <1>6. PICK f : Added(l, c, m, f)
    BY <1>5, AddAdds
  <1>7. GoodList(m) /\ Linked(m.bp, m.bphead, (Count + 1) + 1, Pushed(Count + 1, Pushed(Count, List, e), f))
    BY <1>4, <1>6, AddGood, AddedLinked
  <1>8. (Count + 1) + 1 = Count + 2
    BY <1>1
  <1> QED
    BY <1>3, <1>4, <1>6, <1>7, <1>8

\* Where the events are that are added.
LEMMA Addresses ==
    /\ \A f \in Func : codeloc(f) \in Address
    /\ lastaddr \in Address /\ lastaddr[1] # "entry"
    /\ \A f, g \in Func : Behind(f, g) \in Address /\ Behind(f, g)[1] # "entry"
  BY EventAssumption DEF codeloc, Address, lastaddr, Behind

LEMMA Returns ==
    ASSUME TypeInv, Stacked, stack # <<>>
    PROVE  /\ return_addr \in Address /\ return_addr[1] # "entry" /\ Top \in Func
           /\ Len(stack) \in 1..Len(stack) /\ stack[Len(stack)] \in Frame
  <1>1. stack \in Seq(Frame) /\ Len(stack) \in Nat /\ Len(stack) # 0
    BY DEF TypeInv
  <1>2. Len(stack) \in 1..Len(stack)
    BY <1>1
  <1>3. stack[Len(stack)] \in Frame
    BY <1>1, <1>2
  <1> QED
    BY <1>2, <1>3 DEF Stacked, Frame, return_addr, Top

\* A command leaves the program where it is.
LEMMA PromptKeeps ==
    ASSUME ListInv, AtPrompt, UNCHANGED <<stack, curfunc, walk, mode>>,
           GoodList(Now)', Owns(bp)'
    PROVE  ListInv'
  <1>1. mode # "freed" /\ mode' # "walk"
    BY DEF AtPrompt
  <1>2. TypeInv' /\ Stacked'
    BY <1>1 DEF ListInv, TypeInv, Stacked
  <1>3. Walking'
    BY <1>1 DEF Walking
  <1> QED
    BY <1>2, <1>3 DEF ListInv

LEMMA AtPromptIs ==
    ASSUME ListInv, AtPrompt
    PROVE  /\ TypeInv /\ GoodList(Now) /\ Owns(bp) /\ Stacked /\ Now.bp = bp
           /\ Count \in Nat /\ Count = Cardinality(DOMAIN bp) /\ MaxEvents \in Nat
  <1>1. mode # "freed"
    BY DEF AtPrompt
  <1> QED
    BY <1>1, GoodIs, EventAssumption DEF ListInv, Now, Count

LEMMA CommandAdds ==
    ASSUME ListInv, MayAdd, UNCHANGED <<stack, curfunc, walk, mode>>,
           NEW b \in Bpinfo, InPlace(b), b.type # "BLOCK_OFF", Becomes(Add(Now, b))
    PROVE  ListInv' /\ \E e : Puts({e}) /\ Alike(bp'[e], b)
  <1>1. /\ AtPrompt /\ GoodList(Now) /\ Owns(bp) /\ Count < MaxEvents
    BY AtPromptIs DEF MayAdd
  <1>2. GoodList(Now)' /\ Owns(bp)'
    BY <1>1, ListAdded
  <1>3. PICK e : /\ Added(Now, b, [bp |-> bp', bphead |-> bphead'], e)
                 /\ List' = Pushed(Count, List, e) /\ Count' = Count + 1
    BY <1>1, ListAdded
  <1>4. Puts({e}) /\ Alike(bp'[e], b)
    BY <1>1, <1>3, PutsOne
  <1> QED
    BY <1>1, <1>2, <1>4, PromptKeeps

LEMMA CommandAddsTwo ==
    ASSUME ListInv, MayAdd, UNCHANGED <<stack, curfunc, walk, mode>>,
           NEW b \in Bpinfo, InPlace(b), b.type # "BLOCK_OFF",
           NEW c \in Bpinfo, InPlace(c), c.type # "BLOCK_OFF",
           Becomes(Add(Add(Now, b), c))
    PROVE  /\ ListInv'
           /\ \E e, f : Puts({e, f}) /\ e # f /\ Alike(bp'[e], b) /\ Alike(bp'[f], c)
  <1> DEFINE l == Add(Now, b)
             m == Add(l, c)
  <1>1. /\ AtPrompt /\ GoodList(Now) /\ Owns(bp) /\ Count + 1 < MaxEvents /\ Now.bp = bp
    BY AtPromptIs DEF MayAdd
  <1>2. PICK e, f : /\ Added(Now, b, l, e) /\ Added(l, c, m, f) /\ GoodList(m)
                    /\ Linked(m.bp, m.bphead, Count + 2, Pushed(Count + 1, Pushed(Count, List, e), f))
    <2>1. l = Add(Now, b) /\ m = Add(l, c)
      OBVIOUS
    <2> HIDE DEF l, m
    <2> QED
      BY <1>1, <2>1, AddsTwo
  <1>3. bp' = m.bp /\ bphead' = m.bphead
    BY DEF Becomes
  <1> HIDE DEF l, m
  <1>4. Owns(l.bp)
    BY <1>1, <1>2, AddOwns
  <1>5. Owns(m.bp)
    BY <1>2, <1>4, AddOwns
  <1>6. GoodList(Now)' /\ Owns(bp)'
    BY <1>2, <1>3, <1>5, SameGood
  <1>7. Count' = Count + 2 /\ List' = Pushed(Count + 1, Pushed(Count, List, e), f)
    BY <1>2, <1>3, <1>6, NextList
  <1>8. Puts({e, f}) /\ e # f /\ Alike(bp'[e], b) /\ Alike(bp'[f], c)
    <2>1. Added(l, c, [bp |-> bp', bphead |-> bphead'], f)
      BY <1>2, <1>3 DEF Added
    <2> QED
      BY <1>1, <1>2, <1>7, <2>1, PutsTwo
  <1> QED
    BY <1>1, <1>6, <1>8, PromptKeeps

\* What each command adds.
LEMMA TraceList ==
    ASSUME ListInv, NEW f \in Func, NEW c \in Cond \cup {None}, MayAdd,
           addbp(Bp(codeloc(f), "ALL_ON", f, c, None)), UNCHANGED <<stack, curfunc, walk, mode>>
    PROVE  ListInv' /\ \E e : Puts({e}) /\ bp'[e].type = "ALL_ON"
  <1> DEFINE b == Bp(codeloc(f), "ALL_ON", f, c, None)
  <1>1. b \in Bpinfo /\ InPlace(b) /\ b.type = "ALL_ON"
    BY Addresses, BpType DEF InPlace, Entering, BPTYPE
  <1> HIDE DEF b
  <1> QED
    BY <1>1, CommandAdds DEF addbp, Alike, b

LEMMA TraceVarList ==
    ASSUME ListInv, NEW f \in Where, NEW c \in If("TERM_ON"), TraceVar(f, c)
    PROVE  /\ ListInv'
           /\ LET here == IF stack = <<>> THEN lastaddr ELSE return_addr
              IN IF curfunc = f
                 THEN \E e, d : /\ Puts({e, d}) /\ e # d /\ bp'[e].type = "TERM_ON"
                                /\ Alike(bp'[d], Bp(here, "TERM_OFF", f, c, f))
                 ELSE \E e : Puts({e}) /\ bp'[e].type = "TERM_ON"
  <1> DEFINE b == Bp(codeloc(f), "TERM_ON", f, c, f)
             here == IF stack = <<>> THEN lastaddr ELSE return_addr
             d == Bp(here, "TERM_OFF", f, c, f)
  <1>1. f \in Func /\ c \in Cond \cup {None} /\ MayAdd
    BY EventAssumption DEF If, TraceVar
  <1>2. here \in Address /\ here[1] # "entry"
    BY <1>1, AtPromptIs, Addresses, Returns DEF MayAdd
  <1>3. /\ UNCHANGED <<stack, curfunc, walk, mode>>
        /\ IF curfunc = f THEN Becomes(Add(Add(Now, b), d)) ELSE Becomes(Add(Now, b))
    BY DEF TraceVar
  <1>4. b \in Bpinfo /\ InPlace(b) /\ b.type = "TERM_ON"
    BY <1>1, Addresses, BpType DEF InPlace, Entering, BPTYPE
  <1>5. d \in Bpinfo /\ InPlace(d) /\ d.type = "TERM_OFF"
    <2> HIDE DEF here
    <2> QED
      BY <1>1, <1>2, BpType DEF InPlace, Entering, BPTYPE
  <1> HIDE DEF b
  <1>6. CASE curfunc = f
    <2> HIDE DEF d
    <2>1. /\ ListInv'
          /\ \E e, x : Puts({e, x}) /\ e # x /\ Alike(bp'[e], b) /\ Alike(bp'[x], d)
      BY <1>1, <1>3, <1>4, <1>5, <1>6, CommandAddsTwo
    <2>2. PICK e, x : Puts({e, x}) /\ e # x /\ Alike(bp'[e], b) /\ Alike(bp'[x], d)
      BY <2>1
    <2>3. bp'[e].type = "TERM_ON"
      BY <1>4, <2>2 DEF Alike
    <2> QED
      BY <1>6, <2>1, <2>2, <2>3 DEF d
  <1>7. CASE curfunc # f
    <2>1. ListInv' /\ \E e : Puts({e}) /\ Alike(bp'[e], b)
      BY <1>1, <1>3, <1>4, <1>7, CommandAdds
    <2>2. \E e : Puts({e}) /\ bp'[e].type = "TERM_ON"
      BY <1>4, <2>1 DEF Alike
    <2> QED
      BY <1>7, <2>1, <2>2
  <1> QED
    BY <1>6, <1>7

LEMMA TraceCallsList ==
    ASSUME ListInv, NEW f \in Where, NEW g \in Func \ {Main}, NEW c \in If("BLOCK_ON"),
           TraceCalls(f, g, c)
    PROVE  ListInv' /\ \E N : Puts(N) /\ \A e \in N : bp'[e].type \in {"BLOCK_ON", "CALL"}
  <1> DEFINE b == Bp(codeloc(f), "BLOCK_ON", f, c, g)
             d == Bp(codeloc(g), "CALL", g, c, None)
  <1>1. f \in Func /\ c \in Cond \cup {None} /\ MayAdd
    BY EventAssumption DEF If, TraceCalls
  <1>2. /\ UNCHANGED <<stack, curfunc, walk, mode>>
        /\ Becomes(Add(Add(Now, b), d)) \/ Becomes(Add(Now, b))
    BY DEF TraceCalls
  <1>3. b \in Bpinfo /\ InPlace(b) /\ b.type = "BLOCK_ON"
    BY <1>1, Addresses, BpType DEF InPlace, Entering, BPTYPE
  <1>4. d \in Bpinfo /\ InPlace(d) /\ d.type = "CALL"
    BY <1>1, Addresses, BpType DEF InPlace, Entering, BPTYPE
  <1> HIDE DEF b, d
  <1>5. CASE Becomes(Add(Add(Now, b), d))
    <2>1. ListInv'
      BY <1>1, <1>2, <1>3, <1>4, <1>5, CommandAddsTwo
    <2>2. PICK e, x : Puts({e, x}) /\ Alike(bp'[e], b) /\ Alike(bp'[x], d)
      BY <1>1, <1>2, <1>3, <1>4, <1>5, CommandAddsTwo
    <2>3. \A y \in {e, x} : bp'[y].type \in {"BLOCK_ON", "CALL"}
      BY <1>3, <1>4, <2>2 DEF Alike
    <2> QED
      BY <2>1, <2>2, <2>3
  <1>6. CASE Becomes(Add(Now, b))
    <2>1. ListInv'
      BY <1>1, <1>2, <1>3, <1>6, CommandAdds
    <2>2. PICK e : Puts({e}) /\ Alike(bp'[e], b)
      BY <1>1, <1>2, <1>3, <1>6, CommandAdds
    <2>3. \A y \in {e} : bp'[y].type \in {"BLOCK_ON", "CALL"}
      BY <1>3, <2>2 DEF Alike
    <2> QED
      BY <2>1, <2>2, <2>3
  <1> QED
    BY <1>2, <1>5, <1>6

LEMMA StopIfList ==
    ASSUME ListInv, NEW f \in Where, NEW c \in Cond, StopIf(f, c)
    PROVE  ListInv' /\ \E e : Puts({e}) /\ bp'[e].type = "STOP_ON"
  <1> DEFINE b == Bp(codeloc(f), "STOP_ON", f, c, None)
  <1>1. /\ f \in Func /\ MayAdd /\ addbp(b)
        /\ UNCHANGED <<stack, curfunc, walk, mode>>
    BY EventAssumption DEF StopIf
  <1>2. b \in Bpinfo /\ InPlace(b) /\ b.type = "STOP_ON"
    BY <1>1, Addresses, BpType DEF InPlace, Entering, BPTYPE
  <1> HIDE DEF b
  <1> QED
    BY <1>1, <1>2, CommandAdds DEF addbp, Alike

LEMMA StopInList ==
    ASSUME ListInv, NEW f \in Where, NEW c \in If("STOP_BP"), StopIn(f, c)
    PROVE  ListInv' /\ \E e : Puts({e}) /\ bp'[e].type = "STOP_BP"
  <1> DEFINE b == Bp(codeloc(f), "STOP_BP", f, c, None)
  <1>1. /\ f \in Func /\ c \in Cond \cup {None} /\ MayAdd /\ addbp(b)
        /\ UNCHANGED <<stack, curfunc, walk, mode>>
    BY EventAssumption DEF StopIn, If
  <1>2. b \in Bpinfo /\ InPlace(b) /\ b.type = "STOP_BP"
    BY <1>1, Addresses, BpType DEF InPlace, Entering, BPTYPE
  <1> HIDE DEF b
  <1> QED
    BY <1>1, <1>2, CommandAdds DEF addbp, Alike

LEMMA DeleteList ==
    ASSUME "CALL" \notin Deletable, ListInv, NEW e \in DOMAIN bp, Delete(e)
    PROVE  ListInv' /\ Takes({e})
  <1>1. /\ AtPrompt /\ Becomes(Unlink(Now, e, Before(e))) /\ bp[e].type # "CALL"
        /\ UNCHANGED <<stack, curfunc, walk, mode>>
    BY DEF Delete
  <1>2. GoodList(Now) /\ Owns(bp)
    BY <1>1, AtPromptIs
  <1>3. PICK k \in 1..Count : List[k] = e
    BY <1>2, GoodIs DEF Linked
  <1>4. Before(e) = At(Count, List, k - 1)
    BY <1>2, <1>3, BeforeIs
  <1>5. /\ GoodList(Now)' /\ Owns(bp)' /\ Count' = Count - 1 /\ List' = Without(Count, List, k)
        /\ DOMAIN bp' = DOMAIN bp \ {List[k]} /\ \A x \in DOMAIN bp' : Alike(bp'[x], bp[x])
    BY <1>1, <1>2, <1>3, <1>4, ListRemoved
  <1>6. Takes({e})
    BY <1>2, <1>3, <1>5, TakesOne
  <1> QED
    BY <1>1, <1>5, <1>6, PromptKeeps

LEMMA CommandList ==
    ASSUME "CALL" \notin Deletable, ListInv, Command
    PROVE  ListInv'
  <1>1. ASSUME NEW c \in If("ALL_ON"), Trace(c) \/ \E f \in Where : TraceIn(f, c)
        PROVE  ListInv'
    <2>1. c \in Cond \cup {None}
      BY DEF If
    <2>2. PICK f \in Func : /\ MayAdd /\ addbp(Bp(codeloc(f), "ALL_ON", f, c, None))
                            /\ UNCHANGED <<stack, curfunc, walk, mode>>
      BY <1>1, EventAssumption DEF Trace, TraceIn
    <2> QED
      BY <2>1, <2>2, TraceList
  <1>2. ASSUME NEW f \in Where, NEW c \in If("TERM_ON"), TraceVar(f, c)
        PROVE  ListInv'
    BY <1>2, TraceVarList
  <1>3. ASSUME NEW f \in Where, NEW g \in Func \ {Main}, NEW c \in If("BLOCK_ON"),
               TraceCalls(f, g, c)
        PROVE  ListInv'
    BY <1>3, TraceCallsList
  <1>4. ASSUME NEW f \in Where, NEW c \in Cond, StopIf(f, c)
        PROVE  ListInv'
    BY <1>4, StopIfList
  <1>5. ASSUME NEW f \in Where, NEW c \in If("STOP_BP"), StopIn(f, c)
        PROVE  ListInv'
    BY <1>5, StopInList
  <1>6. ASSUME NEW e \in DOMAIN bp, Delete(e)
        PROVE  ListInv'
    BY <1>6, DeleteList
  <1> QED
    BY <1>1, <1>2, <1>3, <1>4, <1>5, <1>6 DEF Command

\* A walk at an address where there is room for what is added.
Adders == {"ALL_ON", "STOP_ON", "TERM_ON", "BLOCK_ON", "CALL"}

LEMMA RoomBudget ==
    ASSUME GoodList(Now), GoodList(Now)', NEW a, NEW more \in Nat, Room(a, more),
           walk'.at = a, ~walk'.delayed, Count' <= Count + more,
           \A e \in DOMAIN bp' : bp'[e].type \in Adders => e \in DOMAIN bp /\ Alike(bp'[e], bp[e])
    PROVE  Budget(1)'
  <1> DEFINE here(types) == { e \in DOMAIN bp : bp[e].addr = a /\ bp[e].type \in types }
             Ones == {"ALL_ON", "STOP_ON", "TERM_ON"}
             Twos == {"BLOCK_ON"}
             Later == {"CALL"}
  <1>1. IsFiniteSet(DOMAIN bp) /\ Count \in Nat /\ MaxEvents \in Nat
    BY GoodIs, EventAssumption
  <1>2. (GoodList(Now) => /\ GoodEvents(bp) /\ Linked(bp, bphead, Count, List)
                          /\ IsFiniteSet(DOMAIN bp) /\ Count \in Nat /\ Count <= MaxEvents)'
    BY GoodIs, PTL
  <1>3. Linked(bp', bphead', Count', List') /\ Count' \in Nat
    BY <1>2
  <1>4. \A types : types \subseteq Adders => Adding(1, types)' \subseteq here(types)
    <2>1. Ahead(1)' \subseteq DOMAIN bp'
      BY <1>3 DEF Ahead, Linked
    <2>2. \A types : Adding(1, types)' = { e \in Ahead(1)' : bp'[e].addr = walk'.at /\ bp'[e].type \in types }
      BY DEF Adding
    <2> QED
      BY <2>1, <2>2 DEF Alike
  <1>5. \A types : IsFiniteSet(here(types))
    BY <1>1, FS_Subset
  <1>6. \A types : types \subseteq Adders =>
            /\ Cardinality(Adding(1, types)') <= Cardinality(here(types))
            /\ Cardinality(Adding(1, types)') \in Nat /\ Cardinality(here(types)) \in Nat
    <2> HIDE DEF here
    <2> QED
      BY <1>4, <1>5, FS_Subset, FS_CardinalityType
  <1>7. Ones \subseteq Adders /\ Twos \subseteq Adders /\ Later \subseteq Adders
    BY DEF Adders
  <1>8. Count + more + Cardinality(here(Ones)) + 2 * Cardinality(here(Twos))
            + (IF here(Later) = {} THEN 0 ELSE 1) <= MaxEvents
    BY DEF Room, Count
  <1>9. Budget(1)' <=> Count' + Cardinality(Adding(1, Ones)') + 2 * Cardinality(Adding(1, Twos)')
                     + (IF walk'.delayed \/ Adding(1, Later)' # {} THEN 1 ELSE 0) <= MaxEvents
    BY DEF Budget
  <1> HIDE DEF here, Ones, Twos, Later
  <1>10. /\ Cardinality(Adding(1, Ones)') <= Cardinality(here(Ones))
         /\ Cardinality(Adding(1, Ones)') \in Nat /\ Cardinality(here(Ones)) \in Nat
         /\ Cardinality(Adding(1, Twos)') <= Cardinality(here(Twos))
         /\ Cardinality(Adding(1, Twos)') \in Nat /\ Cardinality(here(Twos)) \in Nat
    BY <1>6, <1>7
  <1>11. Adding(1, Later)' # {} => here(Later) # {}
    BY <1>4, <1>7
  <1> QED
    BY <1>1, <1>3, <1>8, <1>9, <1>10, <1>11

LEMMA NoBudget == GoodList(Now) /\ walk.at[1] # "entry" /\ ~walk.delayed => Budget(1)
  <1> SUFFICES ASSUME GoodList(Now), walk.at[1] # "entry", ~walk.delayed
               PROVE  Budget(1)
    OBVIOUS
  <1>1. \A types \in SUBSET Entering : Adding(1, types) = {}
    BY NothingAdds
  <1>2. /\ Adding(1, {"ALL_ON", "STOP_ON", "TERM_ON"}) = {}
        /\ Adding(1, {"BLOCK_ON"}) = {} /\ Adding(1, {"CALL"}) = {}
    <2>1. /\ {"ALL_ON", "STOP_ON", "TERM_ON"} \in SUBSET Entering
          /\ {"BLOCK_ON"} \in SUBSET Entering /\ {"CALL"} \in SUBSET Entering
      BY DEF Entering
    <2> QED
      BY <1>1, <2>1
  <1>3. Count \in Nat /\ Count <= MaxEvents /\ MaxEvents \in Nat
    BY GoodIs, EventAssumption
  <1> QED
    BY <1>2, <1>3, FS_EmptySet DEF Budget

LEMMA HeadIs ==
    ASSUME GoodList(Now)
    PROVE  bphead \in 0..MaxEvents
  <1>1. Now.bp = bp /\ Now.bphead = bphead
    BY DEF Now
  <1>2. GoodEvents(Now.bp) /\ Linked(Now.bp, Now.bphead, Count, List)
    BY <1>1, GoodIs
  <1>3. Now.bphead \in 0..MaxEvents
    BY <1>2, AtType
  <1> QED
    BY <1>1, <1>3

LEMMA InitList == ASSUME Init PROVE ListInv
  <1>1. bp = <<>> /\ bphead = 0 /\ DOMAIN bp = {}
    BY DEF Init
  <1>2. Linked(bp, bphead, 0, <<>>)
    <2>1. <<>> \in [1..0 -> DOMAIN bp] /\ \A i : i \notin 1..0
      OBVIOUS
    <2> QED
      BY <1>1, <2>1 DEF Linked, At
  <1>3. GoodList(Now) /\ Owns(bp)
    BY <1>1, <1>2 DEF GoodList, GoodEvents, Now, Owns
  <1>4. TypeInv
    BY Addresses, EventAssumption DEF Init, TypeInv, Idle
  <1>5. Stacked /\ Walking
    BY DEF Init, Stacked, Walking
  <1> QED
    BY <1>3, <1>4, <1>5 DEF ListInv

LEMMA LineIs ==
    ASSUME ListInv, mode # "freed"
    PROVE  /\ TypeInv /\ GoodList(Now) /\ Owns(bp) /\ Stacked /\ Now.bp = bp
           /\ Count \in Nat /\ Count = Cardinality(DOMAIN bp) /\ MaxEvents \in Nat
  BY GoodIs, EventAssumption DEF ListInv, Now, Count

\* fixbps leaves a list of what is permanent, with END_BP in front.
LEMMA RunList ==
    ASSUME ListInv, Run
    PROVE  ListInv' /\ \A x \in DOMAIN bp' : bp'[x].type \in Temporary => bp'[x].type = "END_BP"
  <1> DEFINE b == Bp(lastaddr, "END_BP", Main, None, None)
             l == KeptList
             m == Add(l, b)
  <1>1. /\ TypeInv /\ GoodList(Now) /\ Owns(bp) /\ Stacked /\ Now.bp = bp
        /\ Count \in Nat /\ Count = Cardinality(DOMAIN bp) /\ MaxEvents \in Nat
    BY LineIs DEF Run, AtPrompt
  <1>2. /\ GoodEvents(bp) /\ Linked(bp, bphead, Count, List) /\ Count <= MaxEvents
        /\ IsFiniteSet(DOMAIN bp)
    BY <1>1, GoodIs
  <1>3. PICK n, t : n <= Count /\ Linked(l.bp, l.bphead, n, t)
    BY <1>2, KeptLinked DEF GoodEvents
  <1>4. /\ DOMAIN l.bp = { x \in DOMAIN bp : Permanent(x) }
        /\ \A x \in DOMAIN l.bp : l.bp[x] \in Bpinfo /\ Alike(l.bp[x], bp[x])
    <2>1. /\ DOMAIN l.bp = { x \in DOMAIN bp : Permanent(x) }
          /\ \A x \in DOMAIN l.bp : l.bp[x] = [bp[x] EXCEPT !.next = FirstKept(Place(x) + 1)]
      BY DEF KeptList
    <2>2. ASSUME NEW x \in DOMAIN l.bp
          PROVE  l.bp[x].next \in 0..MaxEvents
      <3>1. PICK i \in 1..n : t[i] = x
        BY <1>3 DEF Linked
      <3>2. l.bp[x].next = At(n, t, i + 1)
        BY <1>3, <3>1 DEF Linked
      <3>3. At(n, t, i + 1) \in 0..MaxEvents
        <4>1. \A j \in 1..n : t[j] \in Event
          BY <1>2, <1>3, <2>1 DEF Linked, GoodEvents
        <4> QED
          BY <1>1, <4>1 DEF At, Event
      <3> QED
        BY <3>2, <3>3
    <2>3. ASSUME NEW x \in DOMAIN l.bp
          PROVE  l.bp[x] \in Bpinfo /\ Alike(l.bp[x], bp[x])
      <3>1. bp[x] \in Bpinfo /\ l.bp[x] = [bp[x] EXCEPT !.next = FirstKept(Place(x) + 1)]
        BY <1>2, <2>1 DEF GoodEvents
      <3>2. l.bp[x].next = FirstKept(Place(x) + 1)
        BY <3>1 DEF Bpinfo
      <3>3. FirstKept(Place(x) + 1) \in 0..MaxEvents
        BY <2>2, <3>2
      <3> QED
        BY <3>1, <3>3 DEF Bpinfo, Alike
    <2> QED
      BY <2>1, <2>3
  <1> HIDE DEF l
  <1>5. GoodList(l) /\ Owns(l.bp)
    <2>1. GoodEvents(l.bp)
      BY <1>2, <1>4 DEF GoodEvents, InPlace, Alike
    <2>2. \A x \in DOMAIN l.bp : l.bp[x].type # "BLOCK_OFF"
      BY <1>4 DEF Alike, Permanent, Temporary
    <2> QED
      BY <1>3, <2>1, <2>2 DEF GoodList, Owns, HasCall
  <1>6. b \in Bpinfo /\ InPlace(b) /\ b.type = "END_BP"
    BY Addresses, EventAssumption, BpType DEF InPlace, Entering, BPTYPE
  <1>7. Room(codeloc(Main), 1) /\ n < MaxEvents /\ n \in Nat
    <2>1. Room(codeloc(Main), 1)
      BY DEF Run
    <2>2. Count + 1 <= MaxEvents
      <3> DEFINE here(types) == { e \in DOMAIN bp : bp[e].addr = codeloc(Main) /\ bp[e].type \in types }
                 c1 == Cardinality(here({"ALL_ON", "STOP_ON", "TERM_ON"}))
                 c2 == Cardinality(here({"BLOCK_ON"}))
      <3>1. Count + 1 + c1 + 2 * c2 + (IF here({"CALL"}) = {} THEN 0 ELSE 1) <= MaxEvents
        BY <2>1, <1>1 DEF Room
      <3>2. c1 \in Nat /\ c2 \in Nat
        BY <1>2, FS_Subset, FS_CardinalityType
      <3> HIDE DEF here, c1, c2
      <3> QED
        BY <1>1, <3>1, <3>2
    <2> QED
      BY <1>1, <1>3, <2>1, <2>2 DEF Linked
  <1> HIDE DEF b
  <1>8. PICK e : Added(l, b, m, e)
    <2>1. IsFiniteSet(DOMAIN l.bp) /\ Cardinality(DOMAIN l.bp) = n
      BY <1>3, LinkedCount
    <2> QED
      BY <1>7, <2>1, AddAdds
  <1> HIDE DEF m
  <1>9. GoodList(m) /\ Owns(m.bp) /\ Linked(m.bp, m.bphead, n + 1, Pushed(n, t, e))
    BY <1>3, <1>5, <1>6, <1>8, AddGood, AddOwns, AddedLinked
  <1>10. bp' = m.bp /\ bphead' = m.bphead /\ walk'.p = m.bphead
    <2>1. Fixed = m
      BY Zenon DEF Fixed, KeptList, Permanent, m, l, b
    <2> QED
      BY <2>1 DEF Run, Becomes
  <1>11. GoodList(Now)' /\ Owns(bp)' /\ Count' = n + 1
    <2>1. GoodList(Now)' /\ Owns(bp)'
      BY <1>9, <1>10, SameGood
    <2> QED
      BY <1>9, <1>10, <2>1, NextList
  <1>12. TypeInv' /\ Stacked'
    <2>1. [func |-> Main, ret |-> lastaddr, traced |-> FALSE] \in Frame
      BY Addresses, EventAssumption DEF Frame
    <2>2. /\ stack' = <<[func |-> Main, ret |-> lastaddr, traced |-> FALSE]>>
          /\ curfunc' = Main /\ mode' \in {"panic", "walk"}
          /\ walk' = [at |-> codeloc(Main), p |-> Fixed.bphead, prev |-> 0, delayed |-> FALSE]
      BY DEF Run
    <2>3. stack' \in Seq(Frame) /\ Len(stack') = 1 /\ stack'[1].ret = lastaddr /\ stack' # <<>>
      BY <2>1, <2>2
    <2>4. walk' \in [at : Address, p : 0..MaxEvents, prev : 0..MaxEvents, delayed : BOOLEAN]
      <3>1. codeloc(Main) \in Address /\ 0 \in 0..MaxEvents
        BY <1>1, Addresses, EventAssumption
      <3>2. m.bphead \in 0..MaxEvents
        BY <1>9, AtType DEF GoodList
      <3>3. Fixed.bphead = m.bphead
        BY <1>10, <2>2
      <3> QED
        BY <2>2, <3>1, <3>2, <3>3
    <2>5. TypeInv'
      BY <2>2, <2>3, <2>4, EventAssumption DEF TypeInv
    <2>6. Stacked'
      BY <2>3, Addresses DEF Stacked
    <2> QED
      BY <2>5, <2>6
  <1>13. Walking'
    <2>1. \A x \in DOMAIN bp' : bp'[x].type \in Adders => x \in DOMAIN bp /\ Alike(bp'[x], bp[x])
      <3>1. bp'[e].type = "END_BP"
        BY <1>6, <1>8, <1>10 DEF Added, Bpinfo
      <3> QED
        BY <1>4, <1>8, <1>10, <3>1 DEF Added, Adders
    <2>2. /\ walk'.at = codeloc(Main) /\ ~walk'.delayed /\ walk'.prev = 0 /\ walk'.p = bphead'
          /\ Count' <= Count + 1
      BY <1>1, <1>3, <1>7, <1>10, <1>11 DEF Run
    <2>3. Budget(1)'
      BY <1>1, <1>7, <1>11, <2>1, <2>2, RoomBudget
    <2> QED
      BY <1>11, <2>2, <2>3, Starts
  <1>14. \A x \in DOMAIN bp' : bp'[x].type \in Temporary => bp'[x].type = "END_BP"
    <2>1. bp'[e].type = "END_BP"
      BY <1>6, <1>8, <1>10 DEF Added, Bpinfo
    <2> QED
      BY <1>4, <1>8, <1>10, <2>1 DEF Added, Permanent, Alike
  <1> QED
    BY <1>11, <1>12, <1>13, <1>14 DEF ListInv

LEMMA CallList ==
    ASSUME ListInv, NEW g \in Func, Call(g)
    PROVE  ListInv' /\ Left' = DOMAIN bp' /\ Takes({})
  <1>1. /\ TypeInv /\ GoodList(Now) /\ Owns(bp) /\ Stacked /\ stack # <<>>
        /\ Count \in Nat /\ MaxEvents \in Nat
    BY LineIs DEF Call, Stacked
  <1>2. UNCHANGED list /\ UNCHANGED curfunc /\ mode' = "walk"
    BY DEF Call, bpact
  <1>3. GoodList(Now)' /\ Owns(bp)' /\ Count' = Count /\ List' = List
    BY <1>1, <1>2, ListSame
  <1>4. walk' = [at |-> codeloc(g), p |-> bphead, prev |-> 0, delayed |-> FALSE]
    BY DEF Call, bpact
  <1>5. bp' = bp /\ bphead' = bphead
    BY <1>2 DEF list
  <1>6. walk' \in [at : Address, p : 0..MaxEvents, prev : 0..MaxEvents, delayed : BOOLEAN]
    <2>1. bphead \in 0..MaxEvents
      BY <1>1, HeadIs
    <2> QED
      BY <1>1, <1>4, <2>1, Addresses
  <1>7. TypeInv' /\ Stacked'
    <2> DEFINE fr == [func |-> g, ret |-> Behind(Top, g), traced |-> FALSE]
    <2>1. fr \in Frame /\ fr.ret[1] # "entry"
      BY <1>1, Addresses, Returns DEF Frame
    <2>2. stack' = Append(stack, fr) /\ stack \in Seq(Frame)
      BY <1>1 DEF Call, TypeInv
    <2> HIDE DEF fr
    <2>3. stack' \in Seq(Frame) /\ stack' # <<>>
      BY <2>1, <2>2
    <2>4. \A i \in 1..Len(stack') : stack'[i] = IF i \in 1..Len(stack) THEN stack[i] ELSE fr
      BY <2>1, <2>2
    <2>5. Stacked'
      BY <1>1, <2>1, <2>3, <2>4 DEF Stacked
    <2> QED
      BY <1>1, <1>2, <1>6, <2>3, <2>5 DEF TypeInv
  <1>8. Walking' /\ Left' = DOMAIN bp'
    <2>1. \A x \in DOMAIN bp' : bp'[x].type \in Adders => x \in DOMAIN bp /\ Alike(bp'[x], bp[x])
      BY <1>5 DEF Alike
    <2>2. Room(codeloc(g), 0)
      BY DEF Call
    <2>3. walk'.at = codeloc(g) /\ ~walk'.delayed /\ Count' <= Count + 0
      BY <1>1, <1>3, <1>4
    <2>4. Budget(1)'
      BY <1>1, <1>3, <2>1, <2>2, <2>3, RoomBudget
    <2> QED
      BY <1>3, <1>4, <1>5, <2>4, Starts
  <1>9. Takes({})
    BY <1>3, <1>5, TakesNone
  <1> QED
    BY <1>3, <1>7, <1>8, <1>9 DEF ListInv

\* bpact at an address where nothing is added.
LEMMA BehindWalks ==
    ASSUME ListInv, mode = "line", UNCHANGED <<list, curfunc>>,
           NEW a \in Address, a[1] # "entry", bpact(a)
    PROVE  /\ GoodList(Now)' /\ Owns(bp)' /\ Walking' /\ (stack' \in Seq(Frame) => TypeInv')
           /\ Left' = DOMAIN bp' /\ Takes({})
  <1>1. /\ TypeInv /\ GoodList(Now) /\ Owns(bp) /\ Count \in Nat /\ MaxEvents \in Nat
    BY LineIs
  <1>2. GoodList(Now)' /\ Owns(bp)'
    BY <1>1, ListSame DEF list
  <1>3. walk' = [at |-> a, p |-> bphead, prev |-> 0, delayed |-> FALSE] /\ mode' = "walk"
    BY DEF bpact
  <1>4. walk' \in [at : Address, p : 0..MaxEvents, prev : 0..MaxEvents, delayed : BOOLEAN]
    <2>1. bphead \in 0..MaxEvents
      BY <1>1, HeadIs
    <2> QED
      BY <1>1, <1>3, <2>1
  <1>5. stack' \in Seq(Frame) => TypeInv'
    BY <1>1, <1>3, <1>4 DEF TypeInv
  <1>6. (GoodList(Now) /\ walk.at[1] # "entry" /\ ~walk.delayed => Budget(1))'
    BY NoBudget, PTL
  <1>7. walk'.at[1] # "entry" /\ ~walk'.delayed /\ walk'.p = bphead' /\ walk'.prev = 0
    BY <1>3 DEF list
  <1>8. Walking' /\ Left' = DOMAIN bp'
    BY <1>2, <1>6, <1>7, Starts
  <1>9. Takes({})
    BY <1>1, ListSame, TakesNone DEF list
  <1> QED
    BY <1>2, <1>5, <1>8, <1>9

LEMMA FrontIs ==
    ASSUME NEW S, NEW s \in Seq(S), Len(s) > 1
    PROVE  /\ Front(s) \in Seq(S) /\ Front(s) # <<>> /\ Len(Front(s)) = Len(s) - 1
           /\ \A i \in 1..Len(Front(s)) : Front(s)[i] = s[i] /\ i \in 1..Len(s)
  <1> DEFINE n == Len(s) - 1
  <1>0. Len(s) \in Nat
    OBVIOUS
  <1>1. n \in Nat /\ n # 0 /\ 1 <= n /\ n - 1 + 1 = n
    <2>1. \A k \in Nat : k > 1 => /\ k - 1 \in Nat /\ k - 1 # 0 /\ 1 <= k - 1
                                   /\ (k - 1) - 1 + 1 = k - 1
      OBVIOUS
    <2> QED
      BY <1>0, <2>1, Zenon
  <1>2. \A i \in 1..n : i \in 1..Len(s) /\ s[i] \in S /\ 1 + i - 1 = i
    OBVIOUS
  <1>3. Front(s) = SubSeq(s, 1, n)
    BY DEF Front
  <1> HIDE DEF n
  <1>4. /\ SubSeq(s, 1, n) \in Seq(S) /\ Len(SubSeq(s, 1, n)) = n
        /\ \A i \in 1..n : SubSeq(s, 1, n)[i] = s[i]
    BY <1>1, <1>2, SubSeqProperties
  <1>5. Front(s) # <<>>
    BY <1>1, <1>3, <1>4
  <1> QED
    BY <1>2, <1>3, <1>4, <1>5 DEF n

LEMMA ReturnList ==
    ASSUME ListInv, Return
    PROVE  ListInv' /\ Left' = DOMAIN bp' /\ Takes({})
  <1>1. /\ TypeInv /\ Stacked /\ stack # <<>> /\ mode = "line" /\ Len(stack) > 1
    BY LineIs DEF Return, Stacked
  <1>2. return_addr \in Address /\ return_addr[1] # "entry"
    BY <1>1, Returns
  <1>3. bpact(return_addr) /\ UNCHANGED <<list, curfunc>> /\ mode' = "walk"
    BY DEF Return, bpact
  <1>4. stack' = Front(stack) /\ stack \in Seq(Frame)
    BY <1>1 DEF Return, TypeInv
  <1>5. /\ stack' \in Seq(Frame) /\ stack' # <<>> /\ Len(stack') = Len(stack) - 1
        /\ \A i \in 1..Len(stack') : stack'[i] = stack[i] /\ i \in 1..Len(stack)
    BY <1>1, <1>4, FrontIs
  <1>6. Stacked'
    BY <1>1, <1>5 DEF Stacked
  <1> QED
    BY <1>1, <1>2, <1>3, <1>5, <1>6, BehindWalks DEF ListInv

LEMMA FinishList ==
    ASSUME ListInv, Finish
    PROVE  ListInv' /\ Takes({}) /\ (mode' = "walk" => Left' = DOMAIN bp')
  <1>1. /\ TypeInv /\ GoodList(Now) /\ Owns(bp) /\ Stacked /\ stack # <<>> /\ mode = "line"
    BY LineIs DEF Finish, Stacked
  <1>2. CASE /\ stack' = <<>> /\ curfunc' = Main /\ mode' = "none"
             /\ UNCHANGED <<list, conds, walk>>
    <2>1. GoodList(Now)' /\ Owns(bp)'
      BY <1>1, <1>2, ListSame
    <2>2. TypeInv' /\ Stacked' /\ Walking'
      BY <1>1, <1>2, EventAssumption DEF TypeInv, Stacked, Walking
    <2>3. Takes({})
      BY <1>1, <1>2, ListSame, TakesNone DEF list
    <2> QED
      BY <1>2, <2>1, <2>2, <2>3 DEF ListInv
  <1>3. CASE bpact(lastaddr) /\ UNCHANGED <<stack, list, conds, curfunc>>
    <2>1. /\ GoodList(Now)' /\ Owns(bp)' /\ Walking' /\ TypeInv'
          /\ Left' = DOMAIN bp' /\ Takes({})
      BY <1>1, <1>3, Addresses, BehindWalks DEF TypeInv
    <2>2. Stacked'
      BY <1>1, <1>3 DEF Stacked
    <2> QED
      BY <2>1, <2>2 DEF ListInv
  <1> QED
    BY <1>2, <1>3 DEF Finish

LEMMA BudgetRoom ==
    ASSUME GoodList(Now), NEW k \in 1..Count + 1, Budget(k), NEW x
    PROVE  /\ x \in Adding(k, {"ALL_ON", "STOP_ON", "TERM_ON"}) => Count < MaxEvents
           /\ x \in Adding(k, {"BLOCK_ON"}) => Count + 1 < MaxEvents
           /\ walk.delayed => Count < MaxEvents
  <1> DEFINE Ones == Adding(k, {"ALL_ON", "STOP_ON", "TERM_ON"})
             Twos == Adding(k, {"BLOCK_ON"})
             r == IF walk.delayed \/ Adding(k, {"CALL"}) # {} THEN 1 ELSE 0
             a == Cardinality(Ones)
             c == Cardinality(Twos)
  <1>1. /\ Linked(bp, bphead, Count, List) /\ IsFiniteSet(DOMAIN bp)
        /\ Count \in Nat /\ MaxEvents \in Nat
    BY GoodIs, EventAssumption
  <1>2. Ahead(k) \subseteq DOMAIN bp
    <2>1. \A i \in k..Count : i \in 1..Count
      BY <1>1
    <2> QED
      BY <1>1, <2>1 DEF Ahead, Linked
  <1>3. IsFiniteSet(Ones) /\ IsFiniteSet(Twos)
    <2>1. Ones \subseteq DOMAIN bp /\ Twos \subseteq DOMAIN bp
      BY <1>2 DEF Adding
    <2> HIDE DEF Ones, Twos
    <2> QED
      BY <1>1, <2>1, FS_Subset
  <1>4. Count + a + 2 * c + r <= MaxEvents
    BY DEF Budget
  <1>5. r \in Nat /\ (walk.delayed => r = 1)
    OBVIOUS
  <1> HIDE DEF Ones, Twos, r
  <1>6. /\ a \in Nat /\ (x \in Ones => a # 0)
        /\ c \in Nat /\ (x \in Twos => c # 0)
    BY <1>3, FS_CardinalityType, FS_EmptySet
  <1> HIDE DEF a, c
  <1>7. /\ x \in Ones => Count < MaxEvents
        /\ x \in Twos => Count + 1 < MaxEvents
        /\ walk.delayed => Count < MaxEvents
    BY <1>1, <1>4, <1>5, <1>6
  <1> QED
    BY <1>7 DEF Ones, Twos

\* What is known of a step of the walk.
LEMMA WalkIs ==
    ASSUME ListInv, mode = "walk", walk.p # 0
    PROVE  /\ TypeInv /\ GoodList(Now) /\ Owns(bp) /\ Stacked /\ Now.bp = bp /\ stack # <<>>
           /\ Count \in Nat /\ MaxEvents \in Nat
           /\ return_addr \in Address /\ return_addr[1] # "entry"
           /\ walk \in [at : Address, p : 0..MaxEvents, prev : 0..MaxEvents, delayed : BOOLEAN]
           /\ \E k : Here(k)
  <1>1. /\ TypeInv /\ GoodList(Now) /\ Owns(bp) /\ Stacked /\ Now.bp = bp /\ stack # <<>>
        /\ Count \in Nat /\ MaxEvents \in Nat
    BY LineIs DEF Stacked
  <1> QED
    BY <1>1, Returns, WalkPlace DEF TypeInv

\* The routines that are active stay where they are.
SameStack == /\ stack' \in Seq(Frame) /\ Len(stack') = Len(stack)
             /\ \A i \in 1..Len(stack) : stack'[i].ret = stack[i].ret /\ stack'[i].func = stack[i].func

LEMMA StackSame ==
    ASSUME TypeInv, UNCHANGED stack
    PROVE  SameStack
  BY DEF TypeInv, SameStack

LEMMA WalkKeeps ==
    ASSUME ListInv, mode = "walk", walk.p # 0, SameStack, curfunc' \in Func,
           mode' \in {"walk", "panic"}, walk'.at = walk.at, walk'.delayed \in BOOLEAN,
           walk' = [walk EXCEPT !.p = ev.next, !.prev = walk'.prev, !.delayed = walk'.delayed],
           walk'.prev \in {walk.p, walk.prev},
           GoodList(Now)', Owns(bp)', Walking'
    PROVE  ListInv'
  <1>1. /\ TypeInv /\ Stacked /\ stack # <<>>
        /\ walk \in [at : Address, p : 0..MaxEvents, prev : 0..MaxEvents, delayed : BOOLEAN]
        /\ ev.next \in 0..MaxEvents
    BY WalkIs DEF Here
  <1>2. walk' \in [at : Address, p : 0..MaxEvents, prev : 0..MaxEvents, delayed : BOOLEAN]
    BY <1>1
  <1>3. TypeInv'
    BY <1>2 DEF TypeInv, SameStack
  <1>4. Stacked'
    <2>1. stack \in Seq(Frame) /\ Len(stack) # 0
      BY <1>1 DEF TypeInv
    <2>2. stack' # <<>>
      BY <2>1 DEF SameStack
    <2> QED
      BY <1>1, <2>2 DEF Stacked, SameStack
  <1> QED
    BY <1>3, <1>4 DEF ListInv

\* SAVE, with no event added.
LEMMA SavedList ==
    ASSUME ListInv, mode = "walk", walk.p # 0, UNCHANGED <<stack, mode>>, Becomes(Now),
           NEW d \in BOOLEAN, d => walk.delayed \/ Met("CALL"),
           walk' = [walk EXCEPT !.p = ev.next, !.prev = walk.p, !.delayed = d],
           curfunc' \in Func
    PROVE  ListInv' /\ Left' = Left \ {walk.p} /\ Takes({})
  <1>1. /\ TypeInv /\ GoodList(Now) /\ Owns(bp) /\ Count \in Nat
        /\ walk \in [at : Address, p : 0..MaxEvents, prev : 0..MaxEvents, delayed : BOOLEAN]
    BY WalkIs
  <1>2. PICK k : Here(k)
    BY WalkIs
  <1>3. UNCHANGED list
    BY DEF Becomes, Now, list
  <1>4. GoodList(Now)' /\ Owns(bp)' /\ Count' = Count + 0 /\ List' = List
    BY <1>1, <1>3, ListSame
  <1>5. walk'.delayed => walk.delayed \/ walk.p \in Adding(k, {"CALL"})
    BY <1>1, <1>2 DEF Adding, Here, Met, ev
  <1>6. \A i \in 1..Count : List'[i + 0] = List[i]
    BY <1>4
  <1>7. \A x \in DOMAIN bp : bp'[x] = bp[x]
    BY <1>3 DEF list
  <1>8. /\ walk'.at = walk.at /\ walk'.p = ev.next /\ walk'.prev = walk.p
        /\ walk'.delayed = d
    BY <1>1
  <1>9. Walking' /\ Left' = Left \ {walk.p}
    BY <1>1, <1>2, <1>4, <1>5, <1>6, <1>7, <1>8, SaveWalks
  <1>10. SameStack
    BY <1>1, StackSame
  <1>11. ListInv'
    BY <1>1, <1>4, <1>8, <1>9, <1>10, WalkKeeps
  <1>12. Takes({})
    <2>1. UNCHANGED bp /\ Count' = Count
      BY <1>1, <1>3, <1>4 DEF list
    <2> QED
      BY <1>4, <2>1, TakesNone
  <1> QED
    BY <1>9, <1>11, <1>12

LEMMA OffType ==
    ASSUME ListInv, mode = "walk", walk.p # 0, NEW t \in BPTYPE \ Entering
    PROVE  Off(t) \in Bpinfo /\ InPlace(Off(t)) /\ Off(t).type = t
  <1>1. return_addr \in Address /\ return_addr[1] # "entry"
    BY WalkIs
  <1>2. ev \in Bpinfo
    BY WalkIs DEF Here
  <1>3. ev.block \in Func /\ ev.cond \in Cond \cup {None} /\ ev.node \in Func \cup {None}
    BY <1>2 DEF Bpinfo
  <1> DEFINE b == Bp(return_addr, t, ev.block, ev.cond, ev.node)
  <1>4. b \in Bpinfo /\ b.addr = return_addr /\ b.type = t
    BY <1>1, <1>3, BpType
  <1>5. Off(t) = b
    BY DEF Off
  <1> HIDE DEF b
  <1> QED
    BY <1>1, <1>4, <1>5 DEF InPlace

\* SAVE, with the event added that turns it off.
LEMMA OnList ==
    ASSUME ListInv, NEW t \in {"ALL_ON", "STOP_ON", "TERM_ON"}, Met(t),
           NEW u \in {"ALL_OFF", "STOP_OFF", "TERM_OFF"}, SAVE(Add(Now, Off(u))),
           SameStack, UNCHANGED mode, curfunc' = ev.block
    PROVE  ListInv' /\ Left' = Left \ {walk.p} /\ \E e : Puts({e}) /\ Alike(bp'[e], Off(u))
  <1>0. mode = "walk" /\ walk.p # 0
    BY DEF Met
  <1>1. /\ TypeInv /\ GoodList(Now) /\ Owns(bp) /\ Count \in Nat
        /\ walk \in [at : Address, p : 0..MaxEvents, prev : 0..MaxEvents, delayed : BOOLEAN]
    BY <1>0, WalkIs
  <1>2. PICK k : Here(k)
    BY <1>0, WalkIs
  <1>3. walk.p \in Adding(k, {"ALL_ON", "STOP_ON", "TERM_ON"}) /\ k \in 1..Count + 1
    BY <1>1, <1>2 DEF Adding, Here, Met, ev
  <1>4. Count < MaxEvents
    BY <1>1, <1>2, <1>3, BudgetRoom DEF Here
  <1>5. Off(u) \in Bpinfo /\ InPlace(Off(u)) /\ Off(u).type # "BLOCK_OFF"
    BY <1>0, OffType DEF BPTYPE, Entering
  <1>6. /\ Becomes(Add(Now, Off(u)))
        /\ walk' = [walk EXCEPT !.p = ev.next, !.prev = walk.p]
    BY DEF SAVE
  <1>7. PICK e : /\ GoodList(Now)' /\ Count' = Count + 1 /\ Owns(bp)'
                 /\ Added(Now, Off(u), [bp |-> bp', bphead |-> bphead'], e)
                 /\ List' = Pushed(Count, List, e)
    BY <1>1, <1>4, <1>5, <1>6, ListAdded
  <1>8. \A i \in 1..Count : List'[i + 1] = List[i]
    BY <1>1, <1>7 DEF Pushed
  <1>9. \A x \in DOMAIN bp : bp'[x] = bp[x]
    BY <1>7 DEF Added, Now
  <1>10. /\ walk'.at = walk.at /\ walk'.p = ev.next /\ walk'.prev = walk.p
         /\ walk'.delayed = walk.delayed
    BY <1>1, <1>6
  <1>11. Walking' /\ Left' = Left \ {walk.p}
    BY <1>1, <1>2, <1>3, <1>7, <1>8, <1>9, <1>10, SaveWalks
  <1>12. curfunc' \in Func
    BY <1>2 DEF Here, Bpinfo
  <1>13. mode' \in {"walk", "panic"} /\ walk'.delayed \in BOOLEAN
    BY <1>0, <1>1, <1>10
  <1>14. walk' = [walk EXCEPT !.p = ev.next, !.prev = walk'.prev, !.delayed = walk'.delayed]
    BY <1>1, <1>6, <1>10
  <1>15. ListInv'
    BY <1>0, <1>7, <1>10, <1>11, <1>12, <1>13, <1>14, WalkKeeps
  <1>16. Puts({e}) /\ Alike(bp'[e], Off(u))
    BY <1>1, <1>5, <1>7, PutsOne
  <1> QED
    BY <1>11, <1>15, <1>16

\* NOSAVE.
LEMMA OffList ==
    ASSUME ListInv, mode = "walk", walk.p # 0, ev.type # "CALL", NOSAVE,
           UNCHANGED stack, curfunc' \in Func, mode' \in {"walk", "panic"}
    PROVE  ListInv' /\ Left' = Left \ {walk.p} /\ Takes({walk.p})
  <1>1. /\ TypeInv /\ GoodList(Now) /\ Owns(bp) /\ Count \in Nat
        /\ walk \in [at : Address, p : 0..MaxEvents, prev : 0..MaxEvents, delayed : BOOLEAN]
    BY WalkIs
  <1>2. PICK k : Here(k)
    BY WalkIs
  <1>3. /\ Becomes(Unlink(Now, List[k], At(Count, List, k - 1)))
        /\ walk' = [walk EXCEPT !.p = ev.next]
    BY <1>2 DEF NOSAVE, Here, WalkAt
  <1>4. k \in 1..Count /\ bp[List[k]].type # "CALL" /\ walk.p = List[k]
    BY <1>2 DEF Here, ev
  <1>5. /\ GoodList(Now)' /\ Count' = Count - 1 /\ List' = Without(Count, List, k) /\ Owns(bp)'
        /\ DOMAIN bp' = DOMAIN bp \ {List[k]}
        /\ \A x \in DOMAIN bp' : Alike(bp'[x], bp[x])
    BY <1>1, <1>3, <1>4, ListRemoved
  <1>6. Walking' /\ Left' = Left \ {walk.p}
    BY <1>1, <1>2, <1>3, <1>4, <1>5, NoSaveWalks
  <1>7. SameStack
    BY <1>1, StackSame
  <1>8. /\ walk'.at = walk.at /\ walk'.prev = walk.prev /\ walk'.delayed = walk.delayed
        /\ walk'.delayed \in BOOLEAN
        /\ walk' = [walk EXCEPT !.p = ev.next, !.prev = walk'.prev, !.delayed = walk'.delayed]
    BY <1>1, <1>3
  <1>9. ListInv'
    BY <1>5, <1>6, <1>7, <1>8, WalkKeeps
  <1>10. Takes({walk.p})
    BY <1>1, <1>4, <1>5, TakesOne
  <1> QED
    BY <1>6, <1>9, <1>10

\* An event for each call, and one that owns it.
LEMMA BlockOnList ==
    ASSUME ListInv, BlockOn
    PROVE  /\ ListInv' /\ Left' = Left \ {walk.p}
           /\ \E e, f : Puts({e, f}) /\ bp'[e].type = "CALL" /\ bp'[f].type = "BLOCK_OFF"
  <1> DEFINE b == Bp(codeloc(ev.node), "CALL", ev.node, ev.cond, None)
             l == Add(Now, b)
             c == [Off("BLOCK_OFF") EXCEPT !.cond = None, !.node = None, !.old = l.bphead]
             m == Add(l, c)
  <1>0. mode = "walk" /\ walk.p # 0 /\ Met("BLOCK_ON")
    BY DEF BlockOn, Met
  <1>1. /\ TypeInv /\ GoodList(Now) /\ Owns(bp) /\ Count \in Nat /\ Now.bp = bp
        /\ MaxEvents \in Nat
        /\ walk \in [at : Address, p : 0..MaxEvents, prev : 0..MaxEvents, delayed : BOOLEAN]
    BY <1>0, WalkIs
  <1>2. PICK k : Here(k)
    BY <1>0, WalkIs
  <1>3. walk.p \in Adding(k, {"BLOCK_ON"}) /\ k \in 1..Count + 1
    BY <1>0, <1>1, <1>2 DEF Adding, Here, Met, ev
  <1>4. Count + 1 < MaxEvents
    BY <1>1, <1>2, <1>3, BudgetRoom DEF Here
  <1>5. b \in Bpinfo /\ InPlace(b) /\ b.type = "CALL"
    <2>1. ev \in Bpinfo /\ ev.node \in Func
      BY <1>0, <1>2 DEF Here, InPlace, Entering, Met
    <2>2. ev.cond \in Cond \cup {None}
      BY <2>1 DEF Bpinfo
    <2>3. codeloc(ev.node) \in Address /\ "CALL" \in BPTYPE
      BY <2>1, Addresses DEF BPTYPE
    <2>4. /\ b \in Bpinfo /\ b.addr = codeloc(ev.node) /\ b.type = "CALL"
          /\ b.block = ev.node
      BY <2>1, <2>2, <2>3, BpType
    <2> HIDE DEF b
    <2> QED
      BY <2>4 DEF InPlace, Entering
  <1>6. SAVE(m)
    BY DEF BlockOn
  <1>7. Off("BLOCK_OFF") \in Bpinfo /\ InPlace(Off("BLOCK_OFF")) /\ Off("BLOCK_OFF").type = "BLOCK_OFF"
    <2>1. "BLOCK_OFF" \in BPTYPE \ Entering
      BY DEF BPTYPE, Entering
    <2> QED
      BY <1>0, <2>1, OffType
  <1> HIDE DEF b
  <1>8. PICK e0 : Added(Now, b, l, e0)
    <2>1. Count < MaxEvents /\ IsFiniteSet(DOMAIN Now.bp) /\ Cardinality(DOMAIN Now.bp) = Count
      BY <1>1, <1>4, GoodIs DEF Count
    <2> QED
      BY <1>1, <2>1, AddAdds
  <1> HIDE DEF l
  <1>9. l.bphead = e0 /\ e0 \in 0..MaxEvents /\ e0 \notin DOMAIN bp
    BY <1>1, <1>8 DEF Added, Event
  <1>10. c \in Bpinfo /\ InPlace(c) /\ c.type = "BLOCK_OFF" /\ c.old = e0
    BY <1>7, <1>9 DEF Bpinfo, InPlace, Entering
  <1> HIDE DEF c
  <1>11. PICK e, f : /\ Added(Now, b, l, e) /\ Added(l, c, m, f) /\ GoodList(m)
                     /\ Linked(m.bp, m.bphead, Count + 2, Pushed(Count + 1, Pushed(Count, List, e), f))
    <2>1. l = Add(Now, b) /\ m = Add(l, c)
      BY DEF l
    <2> HIDE DEF m
    <2> QED
      BY <1>1, <1>4, <1>5, <1>10, <2>1, AddsTwo
  <1> HIDE DEF m
  <1>12. Owns(m.bp)
    <2>1. Owns(l.bp)
      BY <1>1, <1>5, <1>8, AddOwns
    <2>2. e0 \in DOMAIN l.bp /\ l.bp[e0].type = "CALL"
      BY <1>5, <1>8 DEF Added, Bpinfo
    <2>3. \A x \in DOMAIN l.bp : l.bp[x].type = "BLOCK_OFF" => l.bp[x].old # e0
      <3>1. \A x \in DOMAIN l.bp : x = e0 \/ (x \in DOMAIN bp /\ l.bp[x] = bp[x])
        BY <1>1, <1>8 DEF Added
      <3>2. \A x \in DOMAIN bp : bp[x].type = "BLOCK_OFF" => bp[x].old \in DOMAIN bp
        BY <1>1 DEF Owns, HasCall
      <3> QED
        BY <1>9, <2>2, <3>1, <3>2
    <2> QED
      BY <1>10, <1>11, <2>1, <2>2, <2>3, AddOwns
  <1>13. /\ bp' = m.bp /\ bphead' = m.bphead
         /\ walk' = [walk EXCEPT !.p = ev.next, !.prev = walk.p]
    BY <1>6 DEF SAVE, Becomes
  <1>14. GoodList(Now)' /\ Owns(bp)'
    BY <1>11, <1>12, <1>13, SameGood
  <1>15. /\ Count' = Count + 2
         /\ List' = Pushed(Count + 1, Pushed(Count, List, e), f)
    BY <1>11, <1>13, <1>14, NextList
  <1>16. \A i \in 1..Count : List'[i + 2] = List[i]
    <2>1. \A i \in 1..Count : /\ i + 2 \in 1..(Count + 1) + 1 /\ i + 2 # 1 /\ (i + 2) - 1 = i + 1
                              /\ i + 1 \in 1..Count + 1 /\ i + 1 # 1 /\ (i + 1) - 1 = i
      BY <1>1
    <2> QED
      BY <1>15, <2>1 DEF Pushed
  <1>17. \A x \in DOMAIN bp : bp'[x] = bp[x]
    BY <1>1, <1>11, <1>13 DEF Added
  <1>18. /\ walk'.at = walk.at /\ walk'.p = ev.next /\ walk'.prev = walk.p
         /\ walk'.delayed = walk.delayed
         /\ walk' = [walk EXCEPT !.p = ev.next, !.prev = walk'.prev, !.delayed = walk'.delayed]
    BY <1>1, <1>13
  <1>19. Walking' /\ Left' = Left \ {walk.p}
    BY <1>1, <1>2, <1>3, <1>14, <1>15, <1>16, <1>17, <1>18, SaveWalks
  <1>20. /\ UNCHANGED <<stack, mode>> /\ curfunc' \in Func /\ walk'.delayed \in BOOLEAN
         /\ SameStack /\ mode' = "walk"
    BY <1>0, <1>1, <1>18, StackSame DEF BlockOn, TypeInv
  <1>21. ListInv'
    BY <1>0, <1>14, <1>18, <1>19, <1>20, WalkKeeps
  <1>22. Puts({e, f}) /\ bp'[e].type = "CALL" /\ bp'[f].type = "BLOCK_OFF"
    <2>1. Added(l, c, [bp |-> bp', bphead |-> bphead'], f)
      BY <1>11, <1>13 DEF Added
    <2> QED
      BY <1>1, <1>5, <1>10, <1>11, <1>15, <2>1, PutsTwo DEF Alike
  <1> QED
    BY <1>19, <1>21, <1>22

\* The event and its CALL go; the walk goes on unless that is one it still needs.
LEMMA BlockOffList ==
    ASSUME ListInv, BlockOff
    PROVE  /\ ListInv'
           /\ mode' # "freed" => /\ Left' = (Left \ {walk.p}) \cap DOMAIN bp'
                                 /\ Takes({walk.p, ev.old})
                                 /\ bp[ev.old].type = "CALL"
  <1>0. mode = "walk" /\ walk.p # 0 /\ ev.type = "BLOCK_OFF"
    BY DEF BlockOff, Met
  <1>1. /\ TypeInv /\ GoodList(Now) /\ Owns(bp) /\ Count \in Nat /\ Now.bp = bp /\ Now.bphead = bphead
        /\ MaxEvents \in Nat
        /\ walk \in [at : Address, p : 0..MaxEvents, prev : 0..MaxEvents, delayed : BOOLEAN]
    BY <1>0, WalkIs DEF Now
  <1>2. PICK k : Here(k)
    BY <1>0, WalkIs
  <1>3. SUFFICES ASSUME mode' # "freed"
                 PROVE  /\ ListInv' /\ Left' = (Left \ {walk.p}) \cap DOMAIN bp'
                        /\ Takes({walk.p, ev.old}) /\ bp[ev.old].type = "CALL"
    BY DEF ListInv
  <1> DEFINE n == Count
  <1>4. GoodEvents(bp) /\ Linked(bp, bphead, n, List)
    BY <1>1, GoodIs
  <1>5. /\ ev.old \in DOMAIN bp /\ bp[ev.old].type = "CALL" /\ ev.old \notin {ev.next, walk.prev}
        /\ \A f \in DOMAIN bp : bp[f].type = "BLOCK_OFF" /\ bp[f].old = ev.old => f = walk.p
        /\ mode' = mode
    BY <1>0, <1>1, <1>2, <1>3 DEF BlockOff, Owns, HasCall, Here, ev
  <1>6. PICK j \in 1..n : List[j] = ev.old
    BY <1>4, <1>5 DEF Linked
  <1>7. k \in 1..n /\ walk.p = List[k] /\ walk.prev = At(n, List, k - 1) /\ ev.next = At(n, List, k + 1)
    BY <1>2 DEF Here, WalkAt
  <1>8. j # k /\ j # k - 1 /\ j # k + 1
    BY <1>0, <1>5, <1>6, <1>7 DEF ev, At
  <1>9. Before(ev.old) = At(n, List, j - 1)
    BY <1>1, <1>6, BeforeIs
  <1> DEFINE l == Unlink(Now, List[j], At(n, List, j - 1))
             s == Without(n, List, j)
             k1 == IF j < k THEN k - 1 ELSE k
  <1>10. GoodList(l) /\ Removed(Now, l, List[j]) /\ Linked(l.bp, l.bphead, n - 1, s)
    <2>1. GoodEvents(Now.bp) /\ Linked(Now.bp, Now.bphead, n, List)
      BY <1>1, <1>4
    <2> QED
      BY <1>6, <2>1, RemoveGood
  <1>11. /\ k1 \in 1..n - 1 /\ s[k1] = List[k]
         /\ At(n - 1, s, k1 - 1) = At(n, List, k - 1)
         /\ At(n - 1, s, k1 + 1) = At(n, List, k + 1)
    <2>1. \A i \in 1..n - 1 : s[i] = IF i < j THEN List[i] ELSE List[i + 1]
      BY DEF Without
    <2>2. CASE j < k
      BY <1>1, <1>7, <1>8, <2>1, <2>2 DEF At
    <2>3. CASE ~(j < k)
      BY <1>1, <1>7, <1>8, <2>1, <2>3 DEF At
    <2> QED
      BY <2>2, <2>3
  <1> DEFINE m == Unlink(l, List[k], At(n, List, k - 1))
             t == Without(n - 1, s, k1)
  <1>12. GoodList(m) /\ Removed(l, m, List[k]) /\ Linked(m.bp, m.bphead, (n - 1) - 1, t)
    <2>1. m = Unlink(l, s[k1], At(n - 1, s, k1 - 1))
      BY <1>11
    <2> HIDE DEF l, s, m, k1, n
    <2>2. GoodEvents(l.bp)
      BY <1>10 DEF GoodList
    <2> QED
      BY <1>10, <1>11, <2>1, <2>2, RemoveGood
  <1>13. bp' = m.bp /\ bphead' = m.bphead /\ walk' = [walk EXCEPT !.p = ev.next] /\ UNCHANGED <<stack, curfunc>>
    <2>1. Becomes(Unlink(Unlink(Now, ev.old, Before(ev.old)), walk.p, walk.prev))
      BY DEF BlockOff
    <2> QED
      BY <1>6, <1>7, <1>9, <2>1 DEF BlockOff, Becomes
  <1> HIDE DEF l, m, s, t
  <1>14. /\ DOMAIN m.bp = DOMAIN bp \ {ev.old, walk.p}
         /\ \A x \in DOMAIN m.bp : Alike(m.bp[x], bp[x])
    BY <1>1, <1>6, <1>7, <1>10, <1>12 DEF Removed, Alike
  <1>15. Owns(m.bp)
    <2>1. SUFFICES ASSUME NEW x \in DOMAIN m.bp, m.bp[x].type = "BLOCK_OFF"
                   PROVE  /\ m.bp[x].old \in DOMAIN m.bp /\ m.bp[m.bp[x].old].type = "CALL"
                          /\ \A f \in DOMAIN m.bp :
                                m.bp[f].type = "BLOCK_OFF" /\ m.bp[f].old = m.bp[x].old => f = x
      BY DEF Owns, HasCall
    <2>2. \A f \in DOMAIN m.bp : f \in DOMAIN bp /\ m.bp[f].type = bp[f].type /\ m.bp[f].old = bp[f].old
      BY <1>14 DEF Alike
    <2>3. /\ bp[x].old \in DOMAIN bp /\ bp[bp[x].old].type = "CALL"
          /\ \A f \in DOMAIN bp : bp[f].type = "BLOCK_OFF" /\ bp[f].old = bp[x].old => f = x
      BY <1>1, <2>1, <2>2 DEF Owns, HasCall
    <2>4. bp[x].old # ev.old /\ bp[x].old # walk.p
      BY <1>0, <1>5, <1>14, <2>1, <2>2, <2>3 DEF ev
    <2>5. bp[x].old \in DOMAIN m.bp
      BY <1>14, <2>3, <2>4
    <2> QED
      BY <2>1, <2>2, <2>3, <2>5
  <1>16. GoodList(Now)' /\ Owns(bp)'
    BY <1>12, <1>13, <1>15, SameGood
  <1>17. Count' = (n - 1) - 1 /\ List' = t /\ Count' \in Nat /\ Count' = Count + (-2)
    <2>1. Count' = (n - 1) - 1 /\ List' = t
      BY <1>12, <1>13, <1>16, NextList
    <2>2. n - 1 \in Nat /\ (n - 1) - 1 = n - 2 /\ n - 2 \in Nat
      BY <1>1, <1>6, <1>7, <1>8
    <2> QED
      BY <1>1, <2>1, <2>2
  <1>18. PICK k2 \in Nat : k2 = k1
    BY <1>11
  <1> HIDE DEF n, k1
  <1>19. /\ At(Count', List', k2) = At(Count, List, k + 1)
         /\ At(Count', List', k2 - 1) = At(Count, List, k - 1)
    <2>1. \A i \in 1..Count' : List'[i] = IF i < k2 THEN s[i] ELSE s[i + 1]
      BY <1>17, <1>18 DEF t, Without
    <2>2. At(Count', List', k2) = At(n - 1, s, k2 + 1)
      BY <1>1, <1>11, <1>17, <1>18, <2>1 DEF At, n
    <2>3. At(Count', List', k2 - 1) = At(n - 1, s, k2 - 1)
      BY <1>1, <1>11, <1>17, <1>18, <2>1 DEF At, n
    <2> QED
      BY <1>11, <1>18, <2>2, <2>3 DEF n
  <1>20. WalkAt(k2)'
    <2>1. walk'.p = At(Count', List', k2) /\ walk'.prev = At(Count', List', k2 - 1)
      BY <1>1, <1>7, <1>13, <1>19 DEF n
    <2> QED
      BY <2>1 DEF WalkAt
  <1>21. Ahead(k2)' \subseteq Ahead(k) \ {walk.p}
    <2>1. Ahead(k2)' = { List'[i] : i \in k2..Count' }
      BY DEF Ahead
    <2>2. \A i \in k2..Count' : \E q \in k + 1..Count : List'[i] = List[q]
      <3>1. SUFFICES ASSUME NEW i \in k2..Count' PROVE \E q \in k + 1..Count : List'[i] = List[q]
        OBVIOUS
      <3>2. i \in 1..Count' /\ i + 1 \in 1..n - 1 /\ ~(i < k2) /\ i \in Int
        BY <1>1, <1>11, <1>17, <1>18 DEF n
      <3>3. List'[i] = s[i + 1]
        BY <1>17, <1>18, <3>2 DEF t, Without
      <3>4. s[i + 1] = IF i + 1 < j THEN List[i + 1] ELSE List[(i + 1) + 1]
        BY <3>2 DEF s, Without
      <3>5. (i + 1 < j => i + 1 \in k + 1..Count) /\ (~(i + 1 < j) => (i + 1) + 1 \in k + 1..Count)
        BY <1>1, <1>6, <1>7, <1>8, <1>18, <3>2 DEF n, k1
      <3> QED
        BY <3>3, <3>4, <3>5
    <2> QED
      BY <1>2, <2>1, <2>2 DEF Here
  <1>22. \A e \in Ahead(k2)' : Alike(bp'[e], bp[e])
    <2>1. (GoodList(Now) => /\ GoodEvents(bp) /\ Linked(bp, bphead, Count, List)
                            /\ IsFiniteSet(DOMAIN bp) /\ Count \in Nat /\ Count <= MaxEvents)'
      BY GoodIs, PTL
    <2>2. Linked(bp', bphead', Count', List')
      BY <1>16, <2>1
    <2>3. \A i \in k2..Count' : i \in 1..Count'
      BY <1>11, <1>17, <1>18
    <2>4. Ahead(k2)' \subseteq DOMAIN bp'
      BY <2>2, <2>3 DEF Ahead, Linked
    <2> QED
      BY <1>13, <1>14, <2>4
  <1>23. Budget(k2)'
    <2>1. k \in 1..Count /\ WalkAt(k) /\ Budget(k) /\ -2 \in Int /\ -2 <= 0
      BY <1>2 DEF Here
    <2>2. walk'.at = walk.at /\ walk'.delayed = walk.delayed
      BY <1>1, <1>13
    <2> QED
      BY <1>1, <1>17, <1>21, <1>22, <2>1, <2>2, BudgetKept
  <1>24. k2 \in 1..Count' + 1
    BY <1>1, <1>11, <1>17, <1>18 DEF n
  <1>25. Walking'
    BY <1>20, <1>23, <1>24 DEF Walking
  <1>28. Left' = (Left \ {walk.p}) \cap DOMAIN bp'
    <2>1. k \in 1..Count + 1 /\ WalkAt(k)
      BY <1>1, <1>2 DEF Here
    <2>2. Left = Ahead(k)
      BY <1>1, <2>1, LeftIs DEF OneLeft
    <2>3. OneLeft'
      BY LeftIs, PTL
    <2>4. Left' = Ahead(k2)'
      BY <1>16, <1>20, <1>24, <2>3 DEF OneLeft
    <2>5. Ahead(k2)' = { List'[i] : i \in k2..Count' }
      BY DEF Ahead
    <2>6. Ahead(k) \ {walk.p} = { List[i] : i \in k + 1..Count }
      BY <1>2 DEF Here
    <2>7. ASSUME NEW q \in k + 1..Count, List[q] \in DOMAIN bp'
          PROVE  \E i \in k2..Count' : List'[i] = List[q]
      <3>1. q # j
        BY <1>6, <1>13, <1>14, <2>7
      <3>2. \A i \in k2..Count' : /\ i \in 1..Count' /\ ~(i < k2) /\ i + 1 \in 1..n - 1
        BY <1>1, <1>11, <1>17, <1>18 DEF n
      <3>3. \A i \in k2..Count' : List'[i] = IF i + 1 < j THEN List[i + 1] ELSE List[(i + 1) + 1]
        BY <1>17, <1>18, <3>2 DEF t, s, Without
      <3>4. CASE q < j
        <4>1. q - 1 \in k2..Count' /\ (q - 1) + 1 = q
          BY <1>1, <1>6, <1>7, <1>8, <1>17, <1>18, <3>4 DEF n, k1
        <4> QED
          BY <3>3, <3>4, <4>1
      <3>5. CASE ~(q < j)
        <4>1. q - 2 \in k2..Count' /\ (q - 2) + 1 = q - 1 /\ (q - 1) + 1 = q /\ ~(q - 1 < j)
          BY <1>1, <1>6, <1>7, <1>8, <1>17, <1>18, <3>1, <3>5 DEF n, k1
        <4> QED
          BY <3>3, <4>1
      <3> QED
        BY <3>4, <3>5
    <2>8. Ahead(k2)' \subseteq DOMAIN bp'
      <3>1. (GoodList(Now) => /\ GoodEvents(bp) /\ Linked(bp, bphead, Count, List)
                              /\ IsFiniteSet(DOMAIN bp) /\ Count \in Nat /\ Count <= MaxEvents)'
        BY GoodIs, PTL
      <3>2. \A i \in 1..Count' : List'[i] \in DOMAIN bp'
        BY <1>16, <3>1 DEF Linked
      <3>3. \A i \in k2..Count' : i \in 1..Count'
        BY <1>11, <1>17, <1>18
      <3> QED
        BY <2>5, <3>2, <3>3
    <2> QED
      BY <1>21, <2>2, <2>4, <2>5, <2>6, <2>7, <2>8
  <1>29. Takes({walk.p, ev.old})
    <2>1. \A x, y : InFront(x, y)' <=> Precedes((n - 1) - 1, t, x, y)
      BY <1>17 DEF InFront
    <2>2. ASSUME NEW x \in DOMAIN bp', NEW y \in DOMAIN bp' PROVE InFront(x, y)' <=> InFront(x, y)
      <3>1. x # List[j] /\ y # List[j] /\ x # List[k] /\ y # List[k]
        BY <1>6, <1>7, <1>13, <1>14, <2>2
      <3>2. n - 1 \in Nat /\ n \in Nat
        BY <1>1, <1>6 DEF n
      <3>3. Precedes((n - 1) - 1, t, x, y) <=> Precedes(n - 1, s, x, y)
        BY <1>11, <3>1, <3>2, WithoutOrder DEF t
      <3>4. Precedes(n - 1, s, x, y) <=> Precedes(n, List, x, y)
        BY <1>6, <3>1, <3>2, WithoutOrder DEF s
      <3> QED
        BY <2>1, <3>3, <3>4 DEF InFront, n
    <2> QED
      BY <1>13, <1>14, <2>2 DEF Takes, Evolves
  <1>26. SameStack /\ curfunc' \in Func /\ mode' = "walk"
    BY <1>0, <1>1, <1>5, <1>13, StackSame DEF TypeInv
  <1>27. /\ walk'.at = walk.at /\ walk'.prev = walk.prev /\ walk'.delayed \in BOOLEAN
         /\ walk' = [walk EXCEPT !.p = ev.next, !.prev = walk'.prev, !.delayed = walk'.delayed]
    BY <1>1, <1>13
  <1>30. ListInv'
    BY <1>0, <1>16, <1>25, <1>26, <1>27, WalkKeeps
  <1> QED
    BY <1>5, <1>28, <1>29, <1>30

\* The end of the walk; there is room for RETURN.
LEMMA WalkedList ==
    ASSUME ListInv, Walked
    PROVE  /\ ListInv' /\ Left = {}
           /\ IF walk.delayed
              THEN \E e : Puts({e}) /\ Alike(bp'[e], Bp(return_addr, "RETURN", curfunc, None, None))
              ELSE Takes({})
  <1>1. /\ TypeInv /\ GoodList(Now) /\ Owns(bp) /\ Stacked /\ stack # <<>> /\ mode = "walk"
        /\ Count \in Nat /\ MaxEvents \in Nat
    BY LineIs DEF Walked, Stacked
  <1>2. return_addr \in Address /\ return_addr[1] # "entry"
    BY <1>1, Returns
  <1>3. /\ GoodList(Now)' /\ Owns(bp)'
        /\ IF walk.delayed
           THEN \E e : Puts({e}) /\ Alike(bp'[e], Bp(return_addr, "RETURN", curfunc, None, None))
           ELSE Takes({})
    <2>1. CASE walk.delayed
      <3> DEFINE b == Bp(return_addr, "RETURN", curfunc, None, None)
      <3>1. PICK k \in 1..Count + 1 : Budget(k)
        BY <1>1 DEF ListInv, Walking
      <3>2. Count < MaxEvents
        BY <1>1, <2>1, <3>1, BudgetRoom
      <3>3. curfunc \in Func
        BY <1>1 DEF TypeInv
      <3>4. b \in Bpinfo /\ InPlace(b) /\ b.type # "BLOCK_OFF"
        BY <1>2, <3>3, BpType DEF InPlace, Entering, BPTYPE
      <3>5. Becomes(Add(Now, b))
        BY <2>1 DEF Walked, addbp
      <3> HIDE DEF b
      <3>6. GoodList(Now)' /\ Owns(bp)'
        BY <1>1, <3>2, <3>4, <3>5, ListAdded
      <3>7. PICK e : /\ Added(Now, b, [bp |-> bp', bphead |-> bphead'], e)
                     /\ List' = Pushed(Count, List, e) /\ Count' = Count + 1
        BY <1>1, <3>2, <3>4, <3>5, ListAdded
      <3>8. Puts({e}) /\ Alike(bp'[e], b)
        BY <1>1, <3>4, <3>7, PutsOne
      <3> QED
        BY <2>1, <3>6, <3>8 DEF b
    <2>2. CASE ~walk.delayed
      <3>1. UNCHANGED list
        BY <2>2 DEF Walked
      <3>2. UNCHANGED bp /\ Count' = Count /\ List' = List
        BY <1>1, <3>1, ListSame DEF list
      <3> QED
        BY <1>1, <2>2, <3>1, <3>2, ListSame, TakesNone
    <2> QED
      BY <2>1, <2>2
  <1>4. /\ stack' = stack /\ curfunc' = curfunc /\ walk' = Idle /\ mode' = "line"
    BY DEF Walked
  <1>5. TypeInv' /\ Stacked' /\ Walking'
    BY <1>1, <1>4, Addresses DEF TypeInv, Stacked, Walking, Idle
  <1>6. Left = {}
    <2>1. PICK k \in 1..Count + 1 : WalkAt(k)
      BY <1>1 DEF ListInv, Walking
    <2>2. Left = Ahead(k)
      BY <1>1, <2>1, LeftIs DEF OneLeft
    <2>3. k \notin 1..Count
      <3>1. \A i \in 1..Count : List[i] # 0
        BY <1>1, GoodIs, EventAssumption DEF Linked, GoodEvents, Event
      <3>2. At(Count, List, k) = 0
        BY <2>1 DEF Walked, WalkAt
      <3> QED
        BY <3>1, <3>2 DEF At
    <2>4. ~(\E i \in k..Count : TRUE)
      BY <1>1, <2>1, <2>3
    <2> QED
      BY <2>2, <2>4 DEF Ahead
  <1> QED
    BY <1>3, <1>5, <1>6 DEF ListInv

\* The event met is the first of those that the walk has not come to.
LEMMA MetIs ==
    ASSUME ListInv, mode = "walk", walk.p # 0
    PROVE  /\ walk.p \in Left /\ Left \subseteq DOMAIN bp
           /\ \A x : InFront(x, walk.p) => x \notin Left
  <1>1. GoodList(Now) /\ Count \in Nat
    BY WalkIs
  <1>2. PICK k : Here(k)
    BY WalkIs
  <1>3. Linked(bp, bphead, Count, List)
    BY <1>1, GoodIs
  <1>4. k \in 1..Count + 1 /\ k \in 1..Count /\ WalkAt(k) /\ walk.p \in Ahead(k) /\ walk.p = List[k]
    BY <1>1, <1>2 DEF Here
  <1>5. Left = Ahead(k)
    BY <1>1, <1>4, LeftIs DEF OneLeft
  <1>6. ASSUME NEW x, InFront(x, walk.p) PROVE x \notin Left
    <2>1. PICK i \in 1..Count, j \in 1..Count : i < j /\ List[i] = x /\ List[j] = walk.p
      BY <1>6 DEF InFront, Precedes
    <2>2. \A q, q2 \in 1..Count : List[q] = List[q2] => q = q2
      BY <1>3 DEF Linked
    <2>3. j = k
      BY <1>4, <2>1, <2>2
    <2>4. \A q \in k..Count : q \in 1..Count /\ q # i
      BY <1>1, <1>4, <2>1, <2>3
    <2>5. \A q \in k..Count : List[q] # x
      BY <2>1, <2>2, <2>4
    <2> QED
      BY <1>5, <2>5 DEF Ahead
  <1> QED
    BY <1>4, <1>5, <1>6 DEF Left

\* A step of the walk puts N on the list and takes R off.
Steps(N, R) == /\ SameStack /\ mode = "walk" /\ walk.p # 0 /\ walk.p \in DOMAIN bp /\ walk'.at = walk.at
               /\ Left' = (Left \ {walk.p}) \cap DOMAIN bp'
               /\ DOMAIN bp' = (DOMAIN bp \cup N) \ R /\ N \cap DOMAIN bp = {} /\ N \cap R = {}
               /\ Evolves

LEMMA StepPuts ==
    ASSUME ListInv, mode = "walk", walk.p # 0, NEW N, Puts(N), Left' = Left \ {walk.p},
           SameStack, walk'.at = walk.at
    PROVE  Steps(N, {})
  BY MetIs DEF Puts, Steps

LEMMA StepTakes ==
    ASSUME ListInv, mode = "walk", walk.p # 0, NEW R, Takes(R),
           Left' = (Left \ {walk.p}) \cap DOMAIN bp', SameStack, walk'.at = walk.at
    PROVE  Steps({}, R)
  BY MetIs DEF Takes, Steps

LEMMA StepSaves ==
    ASSUME ListInv, mode = "walk", walk.p # 0, Takes({}), Left' = Left \ {walk.p},
           SameStack, walk'.at = walk.at
    PROVE  Steps({}, {})
  BY MetIs DEF Takes, Steps

LEMMA SkipSays ==
    ASSUME ListInv, Skip
    PROVE  ListInv' /\ Steps({}, {}) /\ walk'.delayed = walk.delayed
  <1>1. /\ mode = "walk" /\ walk.p # 0 /\ UNCHANGED <<stack, conds, curfunc, mode>>
        /\ Becomes(Now) /\ walk' = [walk EXCEPT !.p = ev.next, !.prev = walk.p]
    BY DEF Skip, SAVE
  <1>2. /\ walk \in [at : Address, p : 0..MaxEvents, prev : 0..MaxEvents, delayed : BOOLEAN]
        /\ curfunc \in Func /\ TypeInv
    BY <1>1, WalkIs DEF TypeInv
  <1>3. /\ walk' = [walk EXCEPT !.p = ev.next, !.prev = walk.p, !.delayed = walk.delayed]
        /\ walk.delayed \in BOOLEAN /\ walk'.at = walk.at /\ walk'.delayed = walk.delayed
    BY <1>1, <1>2
  <1>4. SameStack
    BY <1>1, <1>2, StackSame
  <1> QED
    BY <1>1, <1>2, <1>3, <1>4, SavedList, StepSaves

LEMMA AllOnSays ==
    ASSUME ListInv, AllOn
    PROVE  /\ ListInv' /\ walk'.delayed = walk.delayed
           /\ \E e : Steps({e}, {}) /\ Alike(bp'[e], Off("ALL_OFF"))
           /\ \A i \in 1..Len(stack) - 1 : stack'[i] = stack[i]
  <1>1. /\ Met("ALL_ON") /\ SAVE(Add(Now, Off("ALL_OFF"))) /\ UNCHANGED mode /\ curfunc' = ev.block
        /\ stack' = [stack EXCEPT ![Len(stack)].traced = TRUE] /\ mode = "walk" /\ walk.p # 0
    BY DEF AllOn, Met
  <1>2. /\ TypeInv /\ Stacked /\ stack # <<>>
        /\ walk \in [at : Address, p : 0..MaxEvents, prev : 0..MaxEvents, delayed : BOOLEAN]
    BY <1>1, WalkIs
  <1>3. Len(stack) \in 1..Len(stack) /\ stack[Len(stack)] \in Frame /\ stack \in Seq(Frame)
    BY <1>2, Returns DEF TypeInv
  <1>4. stack' = [stack EXCEPT ![Len(stack)] = [stack[Len(stack)] EXCEPT !.traced = TRUE]]
    BY <1>1
  <1>5. SameStack
    <2>1. [stack[Len(stack)] EXCEPT !.traced = TRUE] \in Frame
      BY <1>3 DEF Frame
    <2>2. stack' \in Seq(Frame) /\ Len(stack') = Len(stack)
      BY <1>3, <1>4, <2>1
    <2>3. \A i \in 1..Len(stack) : stack'[i].ret = stack[i].ret /\ stack'[i].func = stack[i].func
      BY <1>3, <1>4 DEF Frame
    <2> QED
      BY <2>2, <2>3 DEF SameStack
  <1>6. walk'.at = walk.at /\ walk'.delayed = walk.delayed
    BY <1>1, <1>2 DEF SAVE
  <1>7. \A i \in 1..Len(stack) - 1 : stack'[i] = stack[i]
    BY <1>3, <1>4
  <1>8. ListInv' /\ Left' = Left \ {walk.p} /\ \E e : Puts({e}) /\ Alike(bp'[e], Off("ALL_OFF"))
    BY <1>1, <1>5, OnList
  <1> QED
    BY <1>1, <1>5, <1>6, <1>7, <1>8, StepPuts

LEMMA OnSays ==
    ASSUME ListInv, NEW t \in {"STOP_ON", "TERM_ON"}, Met(t), NEW u \in {"STOP_OFF", "TERM_OFF"},
           SAVE(Add(Now, Off(u))), UNCHANGED <<stack, mode>>, curfunc' = ev.block
    PROVE  /\ ListInv' /\ walk'.delayed = walk.delayed
           /\ \E e : Steps({e}, {}) /\ Alike(bp'[e], Off(u))
  <1>1. mode = "walk" /\ walk.p # 0
    BY DEF Met
  <1>2. /\ SameStack
        /\ walk \in [at : Address, p : 0..MaxEvents, prev : 0..MaxEvents, delayed : BOOLEAN]
    BY <1>1, WalkIs, StackSame
  <1>3. walk'.at = walk.at /\ walk'.delayed = walk.delayed
    BY <1>2 DEF SAVE
  <1>4. ListInv' /\ Left' = Left \ {walk.p} /\ \E e : Puts({e}) /\ Alike(bp'[e], Off(u))
    BY <1>2, OnList
  <1> QED
    BY <1>1, <1>2, <1>3, <1>4, StepPuts

LEMMA OffSays ==
    ASSUME ListInv, AllOff \/ StopOff \/ TermOff \/ ReturnEvent
    PROVE  ListInv' /\ walk'.delayed = walk.delayed /\ Steps({}, {walk.p})
  <1>1. /\ mode = "walk" /\ walk.p # 0 /\ ev.type # "CALL" /\ NOSAVE /\ UNCHANGED stack
        /\ curfunc' \in {curfunc, ev.block} /\ mode' \in {"walk", "panic"}
    BY DEF AllOff, StopOff, TermOff, ReturnEvent, Met
  <1>2. /\ ev.block \in Func /\ curfunc \in Func /\ TypeInv
        /\ walk \in [at : Address, p : 0..MaxEvents, prev : 0..MaxEvents, delayed : BOOLEAN]
    BY <1>1, WalkIs DEF Here, Bpinfo, TypeInv
  <1>3. ListInv' /\ Left' = Left \ {walk.p} /\ Takes({walk.p})
    BY <1>1, <1>2, OffList
  <1>4. walk'.at = walk.at /\ walk'.delayed = walk.delayed
    BY <1>1, <1>2 DEF NOSAVE
  <1>5. Left' = (Left \ {walk.p}) \cap DOMAIN bp'
    BY <1>1, <1>3, MetIs DEF Takes
  <1> QED
    BY <1>1, <1>2, <1>3, <1>4, <1>5, StackSame, StepTakes

LEMMA BlockOnSays ==
    ASSUME ListInv, BlockOn
    PROVE  /\ ListInv' /\ walk'.delayed = walk.delayed
           /\ \E N : Steps(N, {}) /\ \A e \in N : bp'[e].type \in {"CALL", "BLOCK_OFF"}
  <1>1. mode = "walk" /\ walk.p # 0 /\ UNCHANGED stack
    BY DEF BlockOn, Met
  <1>2. /\ SameStack
        /\ walk \in [at : Address, p : 0..MaxEvents, prev : 0..MaxEvents, delayed : BOOLEAN]
    BY <1>1, WalkIs, StackSame
  <1>3. walk' = [walk EXCEPT !.p = ev.next, !.prev = walk.p]
    BY DEF BlockOn, SAVE
  <1>4. walk'.at = walk.at /\ walk'.delayed = walk.delayed
    BY <1>2, <1>3
  <1>5. /\ ListInv' /\ Left' = Left \ {walk.p}
        /\ \E e, f : Puts({e, f}) /\ bp'[e].type = "CALL" /\ bp'[f].type = "BLOCK_OFF"
    BY BlockOnList
  <1>6. PICK e, f : Puts({e, f}) /\ bp'[e].type = "CALL" /\ bp'[f].type = "BLOCK_OFF"
    BY <1>5
  <1>7. Steps({e, f}, {})
    BY <1>1, <1>2, <1>4, <1>5, <1>6, StepPuts
  <1>8. \A x \in {e, f} : bp'[x].type \in {"CALL", "BLOCK_OFF"}
    BY <1>6
  <1> QED
    BY <1>4, <1>5, <1>7, <1>8

LEMMA BlockOffSays ==
    ASSUME ListInv, BlockOff
    PROVE  /\ ListInv'
           /\ mode' # "freed" => walk'.delayed = walk.delayed /\ Steps({}, {walk.p, ev.old})
                                 /\ bp[ev.old].type = "CALL"
  <1>1. /\ mode = "walk" /\ walk.p # 0 /\ UNCHANGED stack
        /\ walk' = [walk EXCEPT !.p = ev.next]
    BY DEF BlockOff, Met
  <1>2. /\ SameStack
        /\ walk \in [at : Address, p : 0..MaxEvents, prev : 0..MaxEvents, delayed : BOOLEAN]
    BY <1>1, WalkIs, StackSame
  <1>3. walk'.at = walk.at /\ walk'.delayed = walk.delayed
    BY <1>1, <1>2
  <1> QED
    BY <1>1, <1>2, <1>3, BlockOffList, StepTakes

\* With BlockOff, also when the walk then fails.
LEMMA BlockOffTakes ==
    ASSUME ListInv, BlockOff
    PROVE  /\ DOMAIN bp' = DOMAIN bp \ {walk.p, ev.old}
           /\ \A x \in DOMAIN bp' : Alike(bp'[x], bp[x])
           /\ ev.old \in DOMAIN bp /\ bp[ev.old].type = "CALL"
  <1>1. mode = "walk" /\ walk.p # 0 /\ ev.type = "BLOCK_OFF"
    BY DEF BlockOff, Met
  <1>2. GoodList(Now) /\ Owns(bp) /\ Now.bp = bp
    BY <1>1, WalkIs
  <1>3. walk.p \in DOMAIN bp
    BY <1>1, WalkIs DEF Here
  <1>4. ev.old \in DOMAIN bp /\ bp[ev.old].type = "CALL" /\ ev.old # walk.p
    BY <1>1, <1>2, <1>3 DEF Owns, HasCall, ev
  <1>5. \A x \in DOMAIN bp : bp[x] \in Bpinfo
    BY <1>2 DEF GoodList, GoodEvents
  <1> DEFINE l == Unlink(Now, ev.old, Before(ev.old))
             m == Unlink(l, walk.p, walk.prev)
  <1>6. Removed(Now, l, ev.old)
    BY <1>2, <1>4, <1>5, UnlinkRemoves
  <1> HIDE DEF l
  <1>7. walk.p \in DOMAIN l.bp /\ \A x \in DOMAIN l.bp : l.bp[x] \in Bpinfo
    BY <1>2, <1>3, <1>4, <1>6 DEF Removed
  <1>8. Removed(l, m, walk.p)
    BY <1>7, UnlinkRemoves
  <1>9. bp' = m.bp
    BY DEF BlockOff, Becomes, l
  <1> HIDE DEF m
  <1> QED
    BY <1>2, <1>4, <1>6, <1>8, <1>9 DEF Removed, Alike

LEMMA CallEventSays ==
    ASSUME ListInv, CallEvent
    PROVE  ListInv' /\ Steps({}, {})
  <1>1. /\ mode = "walk" /\ walk.p # 0 /\ UNCHANGED <<stack, mode>> /\ Met("CALL")
        /\ Becomes(Now) /\ walk' = [walk EXCEPT !.p = ev.next, !.prev = walk.p, !.delayed = TRUE]
        /\ curfunc' = ev.block
    BY DEF CallEvent, Met
  <1>2. /\ ev.block \in Func /\ SameStack
        /\ walk \in [at : Address, p : 0..MaxEvents, prev : 0..MaxEvents, delayed : BOOLEAN]
    BY <1>1, WalkIs, StackSame DEF Here, Bpinfo
  <1>3. walk'.at = walk.at
    BY <1>1, <1>2
  <1> QED
    BY <1>1, <1>2, <1>3, SavedList, StepSaves

LEMMA StopBpSays ==
    ASSUME ListInv, StopBp
    PROVE  ListInv' /\ Steps({}, {}) /\ walk'.delayed = walk.delayed
  <1>1. /\ mode = "walk" /\ walk.p # 0 /\ UNCHANGED <<stack, mode>> /\ curfunc' = ev.block
        /\ Becomes(Now) /\ walk' = [walk EXCEPT !.p = ev.next, !.prev = walk.p]
    BY DEF StopBp, SAVE, Met
  <1>2. /\ walk \in [at : Address, p : 0..MaxEvents, prev : 0..MaxEvents, delayed : BOOLEAN]
        /\ ev.block \in Func /\ SameStack
    BY <1>1, WalkIs, StackSame DEF Here, Bpinfo
  <1>3. /\ walk' = [walk EXCEPT !.p = ev.next, !.prev = walk.p, !.delayed = walk.delayed]
        /\ walk.delayed \in BOOLEAN /\ walk'.at = walk.at /\ walk'.delayed = walk.delayed
    BY <1>1, <1>2
  <1> QED
    BY <1>1, <1>2, <1>3, SavedList, StepSaves

LEMMA EndBpList ==
    ASSUME ListInv, EndBp
    PROVE  ListInv'
  <1>1. mode = "walk" /\ UNCHANGED list /\ mode' = "none"
    BY DEF EndBp, Met
  <1>2. TypeInv /\ GoodList(Now) /\ Owns(bp)
    BY <1>1, LineIs
  <1>3. GoodList(Now)' /\ Owns(bp)'
    BY <1>1, <1>2, ListSame
  <1>4. TypeInv' /\ Stacked' /\ Walking'
    BY <1>1, <1>2, EventAssumption DEF EndBp, TypeInv, Stacked, Walking
  <1> QED
    BY <1>3, <1>4 DEF ListInv

LEMMA StopOnSays ==
    ASSUME ListInv, StopOn
    PROVE  /\ ListInv' /\ walk'.delayed = walk.delayed
           /\ \E e : Steps({e}, {}) /\ Alike(bp'[e], Off("STOP_OFF"))
  <1>1. /\ Met("STOP_ON") /\ SAVE(Add(Now, Off("STOP_OFF"))) /\ UNCHANGED <<stack, mode>>
        /\ curfunc' = ev.block
    BY DEF StopOn
  <1> QED
    BY <1>1, OnSays

LEMMA TermOnSays ==
    ASSUME ListInv, TermOn
    PROVE  /\ ListInv' /\ walk'.delayed = walk.delayed
           /\ \E e : Steps({e}, {}) /\ Alike(bp'[e], Off("TERM_OFF"))
  <1>1. /\ Met("TERM_ON") /\ SAVE(Add(Now, Off("TERM_OFF"))) /\ UNCHANGED <<stack, mode>>
        /\ curfunc' = ev.block
    BY DEF TermOn
  <1> QED
    BY <1>1, OnSays

LEMMA WalkList ==
    ASSUME ListInv, Walk
    PROVE  ListInv'
  BY SkipSays, AllOnSays, StopOnSays, TermOnSays, OffSays, BlockOnSays, BlockOffSays,
     CallEventSays, StopBpSays, EndBpList, WalkedList DEF Walk

LEMMA StutterList ==
    ASSUME ListInv, UNCHANGED vars
    PROVE  ListInv'
  <1>1. CASE mode = "freed"
    BY <1>1 DEF vars, ListInv
  <1>2. CASE mode # "freed"
    <2>1. /\ TypeInv /\ GoodList(Now) /\ Owns(bp) /\ Stacked /\ Walking
      BY <1>2 DEF ListInv
    <2>2. GoodList(Now)' /\ Owns(bp)' /\ Count' = Count /\ List' = List
      BY <2>1, ListSame DEF vars
    <2>3. TypeInv' /\ Stacked'
      BY <2>1 DEF vars, TypeInv, Stacked
    <2>4. bp' = bp /\ walk' = walk /\ mode' = mode
      BY DEF vars, list
    <2>5. Walking'
      <3>1. \A k : WalkAt(k)' <=> WalkAt(k)
        BY <2>2, <2>4 DEF WalkAt
      <3>2. \A k : Ahead(k)' = Ahead(k)
        BY <2>2 DEF Ahead
      <3>3. \A k, types : Adding(k, types)' = Adding(k, types)
        BY <2>4, <3>2 DEF Adding
      <3>4. \A k : Budget(k)' <=> Budget(k)
        BY <2>2, <2>4, <3>3 DEF Budget
      <3> QED
        BY <2>1, <2>2, <2>4, <3>1, <3>4 DEF Walking
    <2> QED
      BY <2>2, <2>3, <2>5 DEF ListInv
  <1> QED
    BY <1>1, <1>2

LEMMA NextKeepsList ==
    ASSUME "CALL" \notin Deletable, ListInv, [Next]_vars
    PROVE  ListInv'
  BY CommandList, RunList, CallList, ReturnList, FinishList, WalkList, StutterList DEF Next

LEMMA ListInvSays == ListInv => ListIsWhole
  <1> SUFFICES ASSUME ListInv, mode # "freed"
               PROVE  { Nth[i] : i \in 0..Count - 1 } = DOMAIN bp /\ Nth[Count] = 0
    BY DEF ListIsWhole, Count
  <1>1. GoodList(Now) /\ GoodEvents(bp) /\ Linked(bp, bphead, Count, List) /\ Count \in Nat
    BY GoodIs DEF ListInv
  <1>2. Nth = [i \in Nat |-> At(Count, List, i + 1)]
    <2>1. DOMAIN bp \subseteq Event
      BY <1>1 DEF GoodEvents
    <2> QED
      BY <1>1, <2>1, LinkedNth
  <1>3. \A i \in 0..Count - 1 : i \in Nat /\ i + 1 \in 1..Count /\ Nth[i] = List[i + 1]
    BY <1>1, <1>2 DEF At
  <1>4. \A j \in 1..Count : j - 1 \in 0..Count - 1 /\ (j - 1) + 1 = j
    BY <1>1
  <1>5. Nth[Count] = 0
    BY <1>1, <1>2 DEF At
  <1>6. \A e \in DOMAIN bp : \E j \in 1..Count : List[j] = e
    BY <1>1 DEF Linked
  <1>7. \A j \in 1..Count : List[j] \in DOMAIN bp
    BY <1>1 DEF Linked
  <1>8. DOMAIN bp \subseteq { Nth[i] : i \in 0..Count - 1 }
    BY <1>3, <1>4, <1>6
  <1>9. { Nth[i] : i \in 0..Count - 1 } \subseteq DOMAIN bp
    BY <1>3, <1>7
  <1> QED
    BY <1>5, <1>8, <1>9

\* The list of events stays whole whatever is called, met, added and taken off
\* during a walk of bpact (bpact.c:52, handlebp.c), for any number of events and
\* routines, recursive or not, as long as the user deletes no CALL event: one that
\* a BLOCK_OFF still points to is freed twice.
THEOREM ListStaysWhole ==
    ASSUME "CALL" \notin Deletable
    PROVE  Spec => []ListIsWhole
  <1>1. Init => ListInv
    BY InitList
  <1>2. ListInv /\ [Next]_vars => ListInv'
    BY NextKeepsList
  <1>3. ListInv => ListIsWhole
    BY ListInvSays
  <1> QED
    BY <1>1, <1>2, <1>3, PTL DEF Spec

-----------------------------------------------------------------------------
(***************************************************************************)
(* What turns something off belongs to an active routine.                  *)
(***************************************************************************)

Exits == {"ALL_OFF", "STOP_OFF", "TERM_OFF", "RETURN"}
IsExit(e) == bp[e].type \in Exits
Active(e) == \E i \in 1..Len(stack) : stack[i].func = bp[e].block /\ stack[i].ret = bp[e].addr

\* While bpact is at work on a return address, what has still to be met may be of
\* the routine that has returned.
ExitInv ==
    /\ mode # "freed" => \A e \in DOMAIN bp : bp[e].type = "RETURN" => bp[e].cond = None
    /\ mode = "line" => \A e \in DOMAIN bp : IsExit(e) => Active(e)
    /\ mode = "walk" =>
          /\ walk.at[1] = "entry" => walk.at = codeloc(Top)
          /\ walk.delayed => walk.at[1] = "entry" /\ curfunc = Top
          /\ \A e \in DOMAIN bp : IsExit(e) => Active(e) \/ (bp[e].addr = walk.at /\ e \in Left)

LEMMA SameTop ==
    ASSUME TypeInv, stack # <<>>, SameStack
    PROVE  Top' = Top /\ return_addr' = return_addr
  <1>1. Len(stack) \in 1..Len(stack)
    <2>1. stack \in Seq(Frame) /\ Len(stack) \in Nat /\ Len(stack) # 0
      BY DEF TypeInv
    <2> QED
      BY <2>1
  <1> QED
    BY <1>1 DEF SameStack, Top, return_addr

LEMMA StaysActive ==
    ASSUME Len(stack') \in Nat, Len(stack) \in Nat, Len(stack) <= Len(stack'),
           \A i \in 1..Len(stack) : stack'[i].ret = stack[i].ret /\ stack'[i].func = stack[i].func,
           NEW e \in DOMAIN bp \cap DOMAIN bp', Alike(bp'[e], bp[e]), Active(e)
    PROVE  Active(e)'
  <1>1. PICK i \in 1..Len(stack) : stack[i].func = bp[e].block /\ stack[i].ret = bp[e].addr
    BY DEF Active
  <1>2. i \in 1..Len(stack')
    OBVIOUS
  <1>3. stack'[i].func = bp'[e].block /\ stack'[i].ret = bp'[e].addr
    BY <1>1 DEF Alike
  <1> QED
    BY <1>2, <1>3 DEF Active

\* Where an event is met.
LEMMA EntryIs ==
    ASSUME ListInv, ExitInv, mode = "walk", walk.p # 0, ev.addr = walk.at
    PROVE  /\ ev.type \in Entering => ev.block = Top /\ walk.at[1] = "entry"
           /\ ev.type \notin Entering => ~walk.delayed /\ walk.at[1] # "entry"
  <1>1. InPlace(ev)
    BY WalkIs DEF Here
  <1>2. \A f : codeloc(f)[1] = "entry" /\ codeloc(f)[2] = f
    BY DEF codeloc
  <1>3. ASSUME ev.type \in Entering PROVE ev.block = Top /\ walk.at[1] = "entry"
    <2>1. walk.at = codeloc(ev.block)
      BY <1>1, <1>3 DEF InPlace
    <2>2. walk.at = codeloc(Top)
      BY <1>2, <2>1 DEF ExitInv
    <2> QED
      BY <1>2, <2>1, <2>2
  <1>4. ASSUME ev.type \notin Entering PROVE ~walk.delayed /\ walk.at[1] # "entry"
    BY <1>1, <1>4 DEF InPlace, ExitInv
  <1> QED
    BY <1>3, <1>4

LEMMA CommandKeepsExits ==
    ASSUME ListInv, ExitInv, AtPrompt, UNCHANGED <<stack, curfunc, walk, mode>>, Evolves,
           \A x \in DOMAIN bp' \ DOMAIN bp : IsExit(x)' =>
               bp'[x].type # "RETURN" /\ (mode = "line" => Active(x)')
    PROVE  ExitInv'
  <1>1. TypeInv
    BY AtPromptIs
  <1>2. Len(stack') \in Nat /\ Len(stack) \in Nat /\ Len(stack) <= Len(stack')
    BY <1>1 DEF TypeInv
  <1>3. \A x \in DOMAIN bp \cap DOMAIN bp' : Alike(bp'[x], bp[x])
    BY DEF Evolves
  <1>4. \A e \in DOMAIN bp' : bp'[e].type = "RETURN" => bp'[e].cond = None
    BY <1>3 DEF ExitInv, AtPrompt, Alike, IsExit, Exits
  <1>5. ASSUME mode = "line", NEW e \in DOMAIN bp', IsExit(e)' PROVE Active(e)'
    <2>1. CASE e \in DOMAIN bp
      <3>1. IsExit(e) /\ Alike(bp'[e], bp[e])
        BY <1>3, <1>5, <2>1 DEF IsExit, Alike
      <3>2. Active(e)
        BY <1>5, <2>1, <3>1 DEF ExitInv
      <3> QED
        BY <1>2, <2>1, <3>1, <3>2, StaysActive
    <2>2. CASE e \notin DOMAIN bp
      BY <1>5, <2>2
    <2> QED
      BY <2>1, <2>2
  <1>6. mode' # "walk"
    BY DEF AtPrompt
  <1> QED
    BY <1>4, <1>5, <1>6 DEF ExitInv

LEMMA CommandExits ==
    ASSUME ~StaleCurfunc, "CALL" \notin Deletable, ListInv, ExitInv, Command
    PROVE  ExitInv'
  <1>1. ASSUME NEW c \in If("ALL_ON"), Trace(c) \/ \E f \in Where : TraceIn(f, c)
        PROVE  ExitInv'
    <2>1. c \in Cond \cup {None}
      BY DEF If
    <2>2. PICK f \in Func : /\ MayAdd /\ addbp(Bp(codeloc(f), "ALL_ON", f, c, None))
                            /\ UNCHANGED <<stack, curfunc, walk, mode>>
      BY <1>1, EventAssumption DEF Trace, TraceIn
    <2>3. PICK e : Puts({e}) /\ bp'[e].type = "ALL_ON"
      BY <2>1, <2>2, TraceList
    <2> QED
      BY <2>2, <2>3, CommandKeepsExits DEF Puts, MayAdd, IsExit, Exits
  <1>2. ASSUME NEW f \in Where, NEW c \in If("TERM_ON"), TraceVar(f, c)
        PROVE  ExitInv'
    <2>1. AtPrompt /\ UNCHANGED <<stack, curfunc, walk, mode>>
      BY <1>2 DEF TraceVar, MayAdd
    <2>2. CASE curfunc # f
      <3>1. PICK e : Puts({e}) /\ bp'[e].type = "TERM_ON"
        BY <1>2, <2>2, TraceVarList
      <3> QED
        BY <2>1, <3>1, CommandKeepsExits DEF Puts, IsExit, Exits
    <2>3. CASE curfunc = f
      <3> DEFINE here == IF stack = <<>> THEN lastaddr ELSE return_addr
      <3>1. PICK e, d : /\ Puts({e, d}) /\ e # d /\ bp'[e].type = "TERM_ON"
                        /\ Alike(bp'[d], Bp(here, "TERM_OFF", f, c, f))
        BY <1>2, <2>3, TraceVarList
      <3>2. bp'[d].type = "TERM_OFF" /\ bp'[d].addr = here /\ bp'[d].block = f
        BY <3>1 DEF Alike, Bp
      <3>3. mode = "line" => Active(d)'
        <4>1. SUFFICES ASSUME mode = "line" PROVE Active(d)'
          OBVIOUS
        <4>2. TypeInv /\ Stacked /\ stack # <<>>
          BY <2>1, <4>1, AtPromptIs DEF Stacked
        <4>3. Top = f
          BY <1>2, <2>3, <4>2 DEF TraceVar
        <4>4. Len(stack) \in 1..Len(stack)
          BY <4>2, Returns
        <4> QED
          BY <2>1, <3>2, <4>2, <4>3, <4>4 DEF Active, Top, return_addr
      <3>4. \A x \in DOMAIN bp' \ DOMAIN bp : IsExit(x)' =>
               bp'[x].type # "RETURN" /\ (mode = "line" => Active(x)')
        <4>1. \A x \in DOMAIN bp' \ DOMAIN bp : x = e \/ x = d
          BY <3>1 DEF Puts
        <4>2. ~IsExit(e)'
          BY <3>1 DEF IsExit, Exits
        <4>3. bp'[d].type # "RETURN"
          BY <3>2
        <4> QED
          BY <3>3, <4>1, <4>2, <4>3
      <3>5. Evolves
        BY <3>1 DEF Puts
      <3> QED
        BY <2>1, <3>4, <3>5, CommandKeepsExits
    <2> QED
      BY <2>2, <2>3
  <1>3. ASSUME NEW f \in Where, NEW g \in Func \ {Main}, NEW c \in If("BLOCK_ON"),
               TraceCalls(f, g, c)
        PROVE  ExitInv'
    <2>1. AtPrompt /\ UNCHANGED <<stack, curfunc, walk, mode>>
      BY <1>3 DEF TraceCalls, MayAdd
    <2>2. PICK N : Puts(N) /\ \A e \in N : bp'[e].type \in {"BLOCK_ON", "CALL"}
      BY <1>3, TraceCallsList
    <2> QED
      BY <2>1, <2>2, CommandKeepsExits DEF Puts, IsExit, Exits
  <1>4. ASSUME NEW f \in Where, NEW c \in Cond, StopIf(f, c)
        PROVE  ExitInv'
    <2>1. AtPrompt /\ UNCHANGED <<stack, curfunc, walk, mode>>
      BY <1>4 DEF StopIf, MayAdd
    <2>2. PICK e : Puts({e}) /\ bp'[e].type = "STOP_ON"
      BY <1>4, StopIfList
    <2> QED
      BY <2>1, <2>2, CommandKeepsExits DEF Puts, IsExit, Exits
  <1>5. ASSUME NEW f \in Where, NEW c \in If("STOP_BP"), StopIn(f, c)
        PROVE  ExitInv'
    <2>1. AtPrompt /\ UNCHANGED <<stack, curfunc, walk, mode>>
      BY <1>5 DEF StopIn, MayAdd
    <2>2. PICK e : Puts({e}) /\ bp'[e].type = "STOP_BP"
      BY <1>5, StopInList
    <2> QED
      BY <2>1, <2>2, CommandKeepsExits DEF Puts, IsExit, Exits
  <1>6. ASSUME NEW e \in DOMAIN bp, Delete(e)
        PROVE  ExitInv'
    <2>1. AtPrompt /\ UNCHANGED <<stack, curfunc, walk, mode>>
      BY <1>6 DEF Delete
    <2>2. Takes({e})
      BY <1>6, DeleteList
    <2> QED
      BY <2>1, <2>2, CommandKeepsExits DEF Takes
  <1> QED
    BY <1>1, <1>2, <1>3, <1>4, <1>5, <1>6 DEF Command

LEMMA RunExits ==
    ASSUME ListInv, Run
    PROVE  ExitInv'
  <1>1. \A x \in DOMAIN bp' : bp'[x].type \in Temporary => bp'[x].type = "END_BP"
    BY RunList
  <1>2. \A x \in DOMAIN bp' : ~IsExit(x)'
    BY <1>1 DEF IsExit, Exits, Temporary
  <1>3. /\ stack' = <<[func |-> Main, ret |-> lastaddr, traced |-> FALSE]>>
        /\ walk'.at = codeloc(Main) /\ ~walk'.delayed /\ mode' \in {"panic", "walk"}
    BY DEF Run
  <1>4. Top' = Main
    BY <1>3 DEF Top
  <1>5. walk'.at = codeloc(Top')
    BY <1>3, <1>4
  <1>6. codeloc(Top)' = codeloc(Top')
    BY DEF codeloc
  <1>7. \A x \in DOMAIN bp' : bp'[x].type # "RETURN"
    BY <1>2 DEF IsExit, Exits
  <1> QED
    BY <1>2, <1>3, <1>5, <1>6, <1>7 DEF ExitInv

\* A walk starts: every event has still to be met.
LEMMA StartExits ==
    ASSUME ExitInv, mode = "line", mode' = "walk", Takes({}), Left' = DOMAIN bp', ~walk'.delayed,
           walk'.at[1] = "entry" => walk'.at = codeloc(Top'),
           \A e \in DOMAIN bp' : Alike(bp'[e], bp[e]) /\ Active(e) => Active(e)' \/ bp'[e].addr = walk'.at
    PROVE  ExitInv'
  <1>1. DOMAIN bp' = DOMAIN bp /\ \A e \in DOMAIN bp' : Alike(bp'[e], bp[e])
    BY DEF Takes, Evolves
  <1>2. \A e \in DOMAIN bp' : IsExit(e)' => IsExit(e)
    BY <1>1 DEF IsExit, Alike
  <1>3. \A e \in DOMAIN bp' : IsExit(e)' => Active(e)' \/ (bp'[e].addr = walk'.at /\ e \in Left')
    BY <1>1, <1>2 DEF ExitInv
  <1>4. \A e \in DOMAIN bp' : bp'[e].type = "RETURN" => bp'[e].cond = None
    BY <1>1 DEF ExitInv, Alike
  <1>5. codeloc(Top)' = codeloc(Top')
    BY DEF codeloc
  <1> QED
    BY <1>3, <1>4, <1>5 DEF ExitInv

LEMMA CallExits ==
    ASSUME ListInv, ExitInv, NEW g \in Func, Call(g)
    PROVE  ExitInv'
  <1>1. TypeInv /\ mode = "line"
    BY LineIs DEF Call
  <1> DEFINE fr == [func |-> g, ret |-> Behind(Top, g), traced |-> FALSE]
  <1>2. stack' = Append(stack, fr) /\ stack \in Seq(Frame)
    BY <1>1 DEF Call, TypeInv
  <1>3. /\ Len(stack') = Len(stack) + 1 /\ Len(stack) \in Nat
        /\ \A i \in 1..Len(stack) : stack'[i] = stack[i]
        /\ stack'[Len(stack) + 1] = fr
    <2> HIDE DEF fr
    <2> QED
      BY <1>2
  <1>4. Top' = g
    BY <1>3 DEF Top
  <1>5. walk'.at = codeloc(g) /\ ~walk'.delayed /\ mode' = "walk"
    BY DEF Call, bpact
  <1>6. Left' = DOMAIN bp' /\ Takes({})
    BY CallList
  <1>7. \A e \in DOMAIN bp' : Alike(bp'[e], bp[e]) /\ Active(e) => Active(e)'
    <2>1. Len(stack') \in Nat /\ Len(stack) \in Nat /\ Len(stack) <= Len(stack')
      BY <1>3
    <2>2. \A i \in 1..Len(stack) : stack'[i].ret = stack[i].ret /\ stack'[i].func = stack[i].func
      BY <1>3
    <2>3. DOMAIN bp' = DOMAIN bp
      BY <1>6 DEF Takes
    <2> QED
      BY <2>1, <2>2, <2>3, StaysActive
  <1> HIDE DEF fr
  <1> QED
    BY <1>1, <1>4, <1>5, <1>6, <1>7, StartExits

LEMMA ReturnExits ==
    ASSUME ListInv, ExitInv, Return
    PROVE  ExitInv'
  <1>1. TypeInv /\ Stacked /\ stack # <<>> /\ mode = "line" /\ Len(stack) > 1 /\ stack' = Front(stack)
    BY LineIs DEF Return, Stacked
  <1>2. stack \in Seq(Frame) /\ Len(stack) \in Nat
    BY <1>1 DEF TypeInv
  <1>3. /\ Len(stack') = Len(stack) - 1
        /\ \A i \in 1..Len(stack') : stack'[i] = stack[i]
    BY <1>1, <1>2, FrontIs
  <1>4. walk'.at = return_addr /\ ~walk'.delayed /\ mode' = "walk"
    BY DEF Return, bpact
  <1>5. return_addr[1] # "entry"
    BY <1>1, Returns
  <1>6. Left' = DOMAIN bp' /\ Takes({})
    BY ReturnList
  <1>7. ASSUME NEW e \in DOMAIN bp', Alike(bp'[e], bp[e]), Active(e)
        PROVE  Active(e)' \/ bp'[e].addr = walk'.at
    <2>1. PICK i \in 1..Len(stack) : stack[i].func = bp[e].block /\ stack[i].ret = bp[e].addr
      BY <1>7 DEF Active
    <2>2. CASE i = Len(stack)
      BY <1>4, <1>7, <2>1, <2>2 DEF Alike, return_addr
    <2>3. CASE i # Len(stack)
      <3>1. i \in 1..Len(stack')
        BY <1>2, <1>3, <2>3
      <3>2. stack'[i].func = bp'[e].block /\ stack'[i].ret = bp'[e].addr
        BY <1>3, <1>7, <2>1, <3>1 DEF Alike
      <3> QED
        BY <3>1, <3>2 DEF Active
    <2> QED
      BY <2>2, <2>3
  <1> QED
    BY <1>1, <1>4, <1>5, <1>6, <1>7, StartExits

LEMMA FinishExits ==
    ASSUME ListInv, ExitInv, Finish
    PROVE  ExitInv'
  <1>1. TypeInv /\ mode = "line" /\ Takes({})
    BY LineIs, FinishList DEF Finish
  <1>2. CASE mode' = "none"
    <2>1. \A e \in DOMAIN bp' : bp'[e].type = "RETURN" => bp'[e].cond = None
      BY <1>1 DEF ExitInv, Takes, Evolves, Alike
    <2> QED
      BY <1>2, <2>1 DEF ExitInv
  <1>3. CASE bpact(lastaddr) /\ UNCHANGED <<stack, list, conds, curfunc>>
    <2>1. walk'.at = lastaddr /\ ~walk'.delayed /\ mode' = "walk"
      BY <1>3 DEF bpact
    <2>2. Left' = DOMAIN bp'
      BY <2>1, FinishList
    <2>3. \A e \in DOMAIN bp' : Alike(bp'[e], bp[e]) /\ Active(e) => Active(e)'
      <3>1. DOMAIN bp' = DOMAIN bp
        BY <1>1 DEF Takes
      <3>2. Len(stack) \in Nat
        BY <1>1 DEF TypeInv
      <3> QED
        BY <1>3, <3>1, <3>2, StaysActive
    <2> QED
      BY <1>1, <2>1, <2>2, <2>3, Addresses, StartExits
  <1> QED
    BY <1>2, <1>3 DEF Finish

\* What is met and is still there afterwards turns nothing off.
LEMMA StepExits ==
    ASSUME ListInv, ExitInv, NEW N, NEW R, Steps(N, R), mode' \in {"walk", "panic"},
           walk'.delayed => walk.at[1] = "entry" /\ curfunc' = Top,
           \A x \in N : IsExit(x)' => bp'[x].type # "RETURN" /\ Active(x)',
           walk.p \in DOMAIN bp' /\ IsExit(walk.p) => bp[walk.p].addr # walk.at
    PROVE  ExitInv'
  <1>1. /\ mode = "walk" /\ walk.p # 0 /\ SameStack /\ walk'.at = walk.at
        /\ \A x \in DOMAIN bp \cap DOMAIN bp' : Alike(bp'[x], bp[x])
        /\ \A x \in DOMAIN bp' : x \in DOMAIN bp \/ x \in N
        /\ Left' = (Left \ {walk.p}) \cap DOMAIN bp'
    BY DEF Steps, Evolves
  <1>2. TypeInv /\ stack # <<>>
    BY <1>1, WalkIs
  <1>3. Top' = Top
    BY <1>1, <1>2, SameTop
  <1>4. \A e \in DOMAIN bp' : bp'[e].type = "RETURN" => bp'[e].cond = None
    BY <1>1 DEF ExitInv, Alike, IsExit, Exits
  <1>5. walk'.at[1] = "entry" => walk'.at = codeloc(Top)'
    BY <1>1, <1>3 DEF ExitInv, codeloc
  <1>6. ASSUME NEW e \in DOMAIN bp', IsExit(e)'
        PROVE  Active(e)' \/ (bp'[e].addr = walk'.at /\ e \in Left')
    <2>1. CASE e \in N
      BY <1>6, <2>1
    <2>2. CASE e \notin N
      <3>1. e \in DOMAIN bp /\ Alike(bp'[e], bp[e])
        BY <1>1, <2>2
      <3>2. IsExit(e)
        BY <1>6, <3>1 DEF IsExit, Alike
      <3>3. CASE Active(e)
        <4>1. Len(stack') \in Nat /\ Len(stack) \in Nat /\ Len(stack) <= Len(stack')
          BY <1>1, <1>2 DEF TypeInv, SameStack
        <4> QED
          BY <1>1, <3>1, <3>3, <4>1, StaysActive DEF SameStack
      <3>4. CASE ~Active(e)
        <4>1. bp[e].addr = walk.at /\ e \in Left
          BY <1>1, <3>1, <3>2, <3>4 DEF ExitInv
        <4>2. e # walk.p
          BY <1>6, <3>2, <4>1
        <4> QED
          BY <1>1, <3>1, <4>1, <4>2 DEF Alike
      <3> QED
        BY <3>3, <3>4
    <2> QED
      BY <2>1, <2>2
  <1> QED
    BY <1>1, <1>3, <1>4, <1>5, <1>6 DEF ExitInv

LEMMA OnExits ==
    ASSUME ListInv, ExitInv, Met("ALL_ON") \/ Met("STOP_ON") \/ Met("TERM_ON"), mode' = mode,
           curfunc' = ev.block, walk'.delayed = walk.delayed,
           NEW u \in {"ALL_OFF", "STOP_OFF", "TERM_OFF"}, NEW e, Steps({e}, {}), Alike(bp'[e], Off(u))
    PROVE  ExitInv'
  <1>1. mode = "walk" /\ walk.p # 0 /\ ev.addr = walk.at /\ ev.type \in Entering
    BY DEF Met, Entering
  <1>2. ev.block = Top /\ walk.at[1] = "entry"
    BY <1>1, EntryIs
  <1>3. TypeInv /\ Stacked /\ stack # <<>> /\ SameStack
    BY <1>1, WalkIs DEF Steps
  <1>4. bp'[e].type = u /\ bp'[e].block = Top /\ bp'[e].addr = return_addr
    BY <1>2 DEF Alike, Off, Bp
  <1>5. Active(e)'
    <2>1. Len(stack) \in 1..Len(stack') /\ Len(stack') = Len(stack)
      BY <1>3, Returns DEF SameStack
    <2>2. stack'[Len(stack)].func = Top /\ stack'[Len(stack)].ret = return_addr
      BY <1>3, <2>1 DEF SameStack, Top, return_addr
    <2> QED
      BY <1>4, <2>1, <2>2 DEF Active
  <1>6. ~IsExit(walk.p)
    BY DEF Met, IsExit, Exits, ev
  <1>7. \A x \in {e} : IsExit(x)' => bp'[x].type # "RETURN" /\ Active(x)'
    BY <1>4, <1>5
  <1> QED
    BY <1>1, <1>2, <1>6, <1>7, StepExits

LEMMA WalkExits ==
    ASSUME ListInv, ExitInv, Walk
    PROVE  ExitInv'
  <1>1. CASE Skip
    <2>1. /\ mode = "walk" /\ walk.p # 0 /\ UNCHANGED <<curfunc, mode>>
          /\ ev.addr # walk.at \/ (ev.cond # None /\ ~isswitch(ev.type))
      BY <1>1 DEF Skip
    <2>2. Steps({}, {}) /\ walk'.delayed = walk.delayed
      BY <1>1, SkipSays
    <2>3. IsExit(walk.p) => bp[walk.p].addr # walk.at
      <3>1. walk.p \in DOMAIN bp
        BY <2>2 DEF Steps
      <3>2. bp[walk.p].type = "RETURN" => bp[walk.p].cond = None
        BY <2>1, <3>1 DEF ExitInv
      <3> QED
        BY <2>1, <3>2 DEF IsExit, Exits, isswitch, ev
    <2>4. walk'.delayed => walk.at[1] = "entry" /\ curfunc' = Top
      BY <2>1, <2>2 DEF ExitInv
    <2> QED
      BY <2>1, <2>2, <2>3, <2>4, StepExits
  <1>2. CASE AllOn
    <2>1. Met("ALL_ON") /\ mode' = mode /\ curfunc' = ev.block
      BY <1>2 DEF AllOn
    <2> QED
      BY <1>2, <2>1, AllOnSays, OnExits
  <1>3. CASE StopOn
    <2>1. Met("STOP_ON") /\ mode' = mode /\ curfunc' = ev.block
      BY <1>3 DEF StopOn
    <2> QED
      BY <1>3, <2>1, StopOnSays, OnExits
  <1>4. CASE TermOn
    <2>1. Met("TERM_ON") /\ mode' = mode /\ curfunc' = ev.block
      BY <1>4 DEF TermOn
    <2> QED
      BY <1>4, <2>1, TermOnSays, OnExits
  <1>5. CASE AllOff \/ StopOff \/ TermOff \/ ReturnEvent
    <2>1. /\ mode = "walk" /\ walk.p # 0 /\ ev.addr = walk.at /\ ev.type \notin Entering
          /\ mode' \in {"walk", "panic"}
      BY <1>5 DEF AllOff, StopOff, TermOff, ReturnEvent, Met, Entering
    <2>2. ~walk.delayed
      BY <2>1, EntryIs
    <2>3. Steps({}, {walk.p}) /\ walk'.delayed = walk.delayed
      BY <1>5, OffSays
    <2> QED
      BY <2>1, <2>2, <2>3, StepExits DEF Steps
  <1>6. CASE BlockOn
    <2>1. /\ mode' = mode /\ curfunc' = curfunc /\ mode = "walk"
          /\ ~IsExit(walk.p)
      BY <1>6 DEF BlockOn, Met, IsExit, Exits, ev
    <2>2. PICK N : Steps(N, {}) /\ \A e \in N : bp'[e].type \in {"CALL", "BLOCK_OFF"}
      BY <1>6, BlockOnSays
    <2>3. walk'.delayed = walk.delayed
      BY <1>6, BlockOnSays
    <2>4. \A x \in N : ~IsExit(x)'
      BY <2>2 DEF IsExit, Exits
    <2>5. walk'.delayed => walk.at[1] = "entry" /\ curfunc' = Top
      BY <2>1, <2>3 DEF ExitInv
    <2> QED
      BY <2>1, <2>2, <2>4, <2>5, StepExits
  <1>7. CASE BlockOff
    <2>1. /\ mode' \in {"freed", "walk"} /\ curfunc' = curfunc /\ mode = "walk"
          /\ ~IsExit(walk.p)
      BY <1>7 DEF BlockOff, Met, IsExit, Exits, ev
    <2>2. CASE mode' = "freed"
      BY <2>2 DEF ExitInv
    <2>3. CASE mode' # "freed"
      <3>1. Steps({}, {walk.p, ev.old}) /\ walk'.delayed = walk.delayed
        BY <1>7, <2>3, BlockOffSays
      <3>2. walk'.delayed => walk.at[1] = "entry" /\ curfunc' = Top
        BY <2>1, <3>1 DEF ExitInv
      <3> QED
        BY <2>1, <2>3, <3>1, <3>2, StepExits
    <2> QED
      BY <2>2, <2>3
  <1>8. CASE CallEvent
    <2>1. /\ mode = "walk" /\ walk.p # 0 /\ ev.addr = walk.at /\ ev.type \in Entering
          /\ mode' = mode /\ curfunc' = ev.block /\ ~IsExit(walk.p)
      BY <1>8 DEF CallEvent, Met, Entering, IsExit, Exits, ev
    <2>2. ev.block = Top /\ walk.at[1] = "entry"
      BY <2>1, EntryIs
    <2>3. Steps({}, {})
      BY <1>8, CallEventSays
    <2> QED
      BY <2>1, <2>2, <2>3, StepExits
  <1>9. CASE StopBp
    <2>1. /\ mode = "walk" /\ walk.p # 0 /\ ev.addr = walk.at /\ ev.type \in Entering
          /\ mode' = mode /\ curfunc' = ev.block /\ ~IsExit(walk.p)
      BY <1>9 DEF StopBp, Met, Entering, IsExit, Exits, ev
    <2>2. ev.block = Top /\ walk.at[1] = "entry"
      BY <2>1, EntryIs
    <2>3. Steps({}, {})
      BY <1>9, StopBpSays
    <2> QED
      BY <2>1, <2>2, <2>3, StepExits
  <1>10. CASE EndBp
    <2>1. mode' = "none" /\ mode = "walk" /\ bp' = bp
      BY <1>10 DEF EndBp, Met, list
    <2>2. \A e \in DOMAIN bp' : bp'[e].type = "RETURN" => bp'[e].cond = None
      BY <2>1 DEF ExitInv
    <2> QED
      BY <2>1, <2>2 DEF ExitInv
  <1>11. CASE Walked
    <2>1. /\ mode = "walk" /\ mode' = "line" /\ UNCHANGED <<stack, curfunc>>
      BY <1>11 DEF Walked
    <2>2. TypeInv /\ Stacked /\ stack # <<>>
      BY <2>1, LineIs DEF Stacked
    <2>3. Len(stack) \in Nat /\ Len(stack) \in 1..Len(stack)
      BY <2>2, Returns DEF TypeInv
    <2>4. \A e \in DOMAIN bp : IsExit(e) => Active(e)
      BY <1>11, <2>1, WalkedList DEF ExitInv
    <2>5. ASSUME NEW e \in DOMAIN bp \cap DOMAIN bp', Alike(bp'[e], bp[e])
          PROVE  /\ IsExit(e)' => Active(e)'
                 /\ bp'[e].type = "RETURN" => bp'[e].cond = None
      <3>1. IsExit(e)' => Active(e)
        BY <2>4, <2>5 DEF IsExit, Alike
      <3>2. Active(e) => Active(e)'
        BY <2>1, <2>3, <2>5, StaysActive
      <3> QED
        BY <2>1, <2>5, <3>1, <3>2 DEF ExitInv, Alike
    <2>6. CASE walk.delayed
      <3>1. PICK e : Puts({e}) /\ Alike(bp'[e], Bp(return_addr, "RETURN", curfunc, None, None))
        BY <1>11, <2>6, WalkedList
      <3>2. /\ bp'[e].cond = None /\ bp'[e].addr = return_addr /\ bp'[e].block = Top
        BY <2>1, <2>6, <3>1 DEF Alike, Bp, ExitInv
      <3>3. Active(e)'
        BY <2>1, <2>3, <3>2 DEF Active, Top, return_addr
      <3>4. \A x \in DOMAIN bp' : x = e \/ (x \in DOMAIN bp /\ Alike(bp'[x], bp[x]))
        BY <3>1 DEF Puts, Evolves
      <3> QED
        BY <2>1, <2>5, <3>2, <3>3, <3>4 DEF ExitInv
    <2>7. CASE ~walk.delayed
      <3>1. Takes({})
        BY <1>11, <2>7, WalkedList
      <3>2. \A x \in DOMAIN bp' : x \in DOMAIN bp /\ Alike(bp'[x], bp[x])
        BY <3>1 DEF Takes, Evolves
      <3> QED
        BY <2>1, <2>5, <3>2 DEF ExitInv
    <2> QED
      BY <2>6, <2>7
  <1> QED
    BY <1>1, <1>2, <1>3, <1>4, <1>5, <1>6, <1>7, <1>8, <1>9, <1>10, <1>11 DEF Walk

LEMMA InitExits == ASSUME Init PROVE ExitInv
  <1>1. DOMAIN bp = {} /\ mode = "none"
    BY DEF Init
  <1> QED
    BY <1>1 DEF ExitInv

LEMMA StutterExits ==
    ASSUME ListInv, ExitInv, UNCHANGED vars
    PROVE  ExitInv'
  <1>0. /\ UNCHANGED <<stack, curfunc, walk, mode>> /\ UNCHANGED bp /\ UNCHANGED list
    BY DEF vars, list
  <1>1. CASE mode = "freed"
    BY <1>0, <1>1 DEF ExitInv
  <1>2. CASE mode # "freed"
    <2>1. GoodList(Now)
      BY <1>2, LineIs
    <2>2. Count' = Count /\ List' = List
      BY <1>0, <2>1, ListSame
    <2>3. Left' = Left
      <3>1. \A k : WalkAt(k)' <=> WalkAt(k)
        BY <1>0, <2>2 DEF WalkAt
      <3>2. \A k : Ahead(k)' = Ahead(k)
        BY <2>2 DEF Ahead
      <3> QED
        BY <1>0, <2>2, <3>1, <3>2 DEF Left
    <2>4. Top' = Top
      BY <1>0 DEF Top
    <2>5. \A e : (Active(e)' <=> Active(e)) /\ (IsExit(e)' <=> IsExit(e))
      BY <1>0 DEF Active, IsExit
    <2>6. codeloc(Top)' = codeloc(Top)
      BY <2>4 DEF codeloc
    <2> QED
      BY <1>0, <2>3, <2>4, <2>5, <2>6 DEF ExitInv
  <1> QED
    BY <1>1, <1>2

LEMMA NextKeepsExits ==
    ASSUME ~StaleCurfunc, "CALL" \notin Deletable, ListInv, ExitInv, [Next]_vars
    PROVE  ExitInv'
  <1>1. ASSUME Command PROVE ExitInv'
    BY <1>1, CommandExits
  <1>2. ASSUME Run PROVE ExitInv'
    BY <1>2, RunExits
  <1>3. ASSUME NEW g \in Func, Call(g) PROVE ExitInv'
    BY <1>3, CallExits
  <1>4. ASSUME Return PROVE ExitInv'
    BY <1>4, ReturnExits
  <1>5. ASSUME Finish PROVE ExitInv'
    BY <1>5, FinishExits
  <1>6. ASSUME Walk PROVE ExitInv'
    BY <1>6, WalkExits
  <1>7. ASSUME UNCHANGED vars PROVE ExitInv'
    BY <1>7, StutterExits
  <1> QED
    BY <1>1, <1>2, <1>3, <1>4, <1>5, <1>6, <1>7 DEF Next

LEMMA ExitInvSays == ExitInv => ExitsOfActiveRoutines
  BY DEF ExitInv, ExitsOfActiveRoutines, IsExit, Active, Exits

\* No event that turns a trace off, or announces a return, is left behind by a
\* routine that has returned (handlebp.c and fixbps take them off in time), for
\* recursive routines too, as long as a variable is only traced from the prompt
\* where curfunc is the routine that runs, and no CALL event is deleted.
THEOREM ExitsBelongToActive ==
    ASSUME ~StaleCurfunc, "CALL" \notin Deletable
    PROVE  Spec => []ExitsOfActiveRoutines
  <1>1. Init => ListInv /\ ExitInv
    BY InitList, InitExits
  <1>2. ListInv /\ ExitInv /\ [Next]_vars => (ListInv /\ ExitInv)'
    BY NextKeepsList, NextKeepsExits
  <1>3. ListInv /\ ExitInv => ExitsOfActiveRoutines
    BY ExitInvSays
  <1> QED
    BY <1>1, <1>2, <1>3, PTL DEF Spec

-----------------------------------------------------------------------------
(***************************************************************************)
(* The counters of what is in force.                                       *)
(***************************************************************************)

Of(types) == { e \in DOMAIN bp : bp[e].type \in types }
Counted == {"ALL_OFF", "STOP_OFF", "TERM_OFF", "STOP_ON"}

\* One more where a trace was in force at once; more where stops were, and these
\* are never turned off.
CountInv ==
    /\ tracing \in Nat /\ var_tracing \in Nat
    /\ tracing - Cardinality(Of({"ALL_OFF"})) \in {0, 1}
    /\ var_tracing - Cardinality(Of({"STOP_OFF", "TERM_OFF"})) \in 0..Cardinality(Of({"STOP_ON"}))

\* The events N come and the events R go.
Changes(N, R) == /\ DOMAIN bp' = (DOMAIN bp \cup N) \ R /\ N \cap DOMAIN bp = {} /\ N \cap R = {}
                 /\ \A x \in DOMAIN bp \cap DOMAIN bp' : Alike(bp'[x], bp[x])

LEMMA StepsChange == \A N, R : Steps(N, R) => Changes(N, R)
  BY DEF Steps, Changes, Evolves

LEMMA PutsChange == \A N : Puts(N) => Changes(N, {})
  BY DEF Puts, Changes, Evolves

LEMMA TakesChange == \A R : Takes(R) => Changes({}, R)
  BY DEF Takes, Changes, Evolves

LEMMA OfChanges ==
    ASSUME NEW N, NEW R, Changes(N, R), NEW T
    PROVE  Of(T)' = (Of(T) \ R) \cup { e \in N : bp'[e].type \in T }
  <1>1. \A e \in DOMAIN bp' : \/ e \in N
                              \/ e \in DOMAIN bp /\ e \notin R /\ bp'[e].type = bp[e].type
    BY DEF Changes, Alike
  <1>2. \A e \in DOMAIN bp \ R : e \in DOMAIN bp' /\ bp'[e].type = bp[e].type
    BY DEF Changes, Alike
  <1>3. \A e \in N : e \in DOMAIN bp' /\ e \notin DOMAIN bp /\ e \notin R
    BY DEF Changes
  <1> QED
    BY <1>1, <1>2, <1>3 DEF Of

\* How many there are of some types.
LEMMA OfCount ==
    ASSUME GoodList(Now), NEW T
    PROVE  /\ IsFiniteSet(Of(T)) /\ Cardinality(Of(T)) \in Nat /\ Cardinality(Of(T)) <= Count
           /\ Count \in Nat /\ Count <= MaxEvents
  <1>1. IsFiniteSet(DOMAIN bp) /\ Count \in Nat /\ Count <= MaxEvents
    BY GoodIs
  <1>2. Of(T) \in SUBSET (DOMAIN bp)
    BY DEF Of
  <1> QED
    BY <1>1, <1>2, FS_Subset, FS_CardinalityType DEF Count

LEMMA OfBoth ==
    ASSUME GoodList(Now)
    PROVE  Cardinality(Of({"STOP_OFF", "TERM_OFF"})) + Cardinality(Of({"STOP_ON"})) <= MaxEvents
  <1> DEFINE A == Of({"STOP_OFF", "TERM_OFF"})
             B == Of({"STOP_ON"})
             C == Of({"STOP_OFF", "TERM_OFF", "STOP_ON"})
  <1>1. A \cup B = C /\ A \cap B = {}
    BY DEF Of
  <1>2. /\ IsFiniteSet(A) /\ IsFiniteSet(B) /\ Cardinality(C) <= Count /\ Cardinality(C) \in Nat
        /\ Cardinality(A) \in Nat /\ Cardinality(B) \in Nat
        /\ Count \in Nat /\ Count <= MaxEvents
    BY OfCount
  <1>3. MaxEvents \in Nat
    BY EventAssumption
  <1> HIDE DEF A, B, C
  <1>4. Cardinality(C) = Cardinality(A) + Cardinality(B)
    <2>1. Cardinality(A \cup B) = Cardinality(A) + Cardinality(B) - Cardinality(A \cap B)
      BY <1>2, FS_Union
    <2>2. Cardinality(A \cap B) = 0
      BY <1>1, FS_EmptySet
    <2> QED
      BY <1>1, <1>2, <2>1, <2>2
  <1> QED
    BY <1>2, <1>3, <1>4 DEF A, B

LEMMA OfPrime == GoodList(Now)' =>
    /\ Cardinality(Of({"STOP_OFF", "TERM_OFF"}))' + Cardinality(Of({"STOP_ON"}))' <= MaxEvents
    /\ Cardinality(Of({"ALL_OFF"}))' \in Nat /\ Cardinality(Of({"ALL_OFF"}))' <= MaxEvents
    /\ Cardinality(Of({"STOP_OFF", "TERM_OFF"}))' \in Nat /\ Cardinality(Of({"STOP_ON"}))' \in Nat
  <1> DEFINE P == GoodList(Now) =>
        /\ Cardinality(Of({"STOP_OFF", "TERM_OFF"})) + Cardinality(Of({"STOP_ON"})) <= MaxEvents
        /\ Cardinality(Of({"ALL_OFF"})) \in Nat /\ Cardinality(Of({"ALL_OFF"})) <= MaxEvents
        /\ Cardinality(Of({"STOP_OFF", "TERM_OFF"})) \in Nat /\ Cardinality(Of({"STOP_ON"})) \in Nat
  <1>1. P
    <2>1. SUFFICES ASSUME GoodList(Now)
                   PROVE /\ Cardinality(Of({"STOP_OFF", "TERM_OFF"})) + Cardinality(Of({"STOP_ON"})) <= MaxEvents
                         /\ Cardinality(Of({"ALL_OFF"})) \in Nat /\ Cardinality(Of({"ALL_OFF"})) <= MaxEvents
                         /\ Cardinality(Of({"STOP_OFF", "TERM_OFF"})) \in Nat
                         /\ Cardinality(Of({"STOP_ON"})) \in Nat
      OBVIOUS
    <2>2. \A T : /\ Cardinality(Of(T)) \in Nat /\ Cardinality(Of(T)) <= Count
                 /\ Count \in Nat /\ Count <= MaxEvents
      BY <2>1, OfCount
    <2>3. MaxEvents \in Nat
      BY EventAssumption
    <2>4. Cardinality(Of({"ALL_OFF"})) \in Nat /\ Cardinality(Of({"ALL_OFF"})) <= Count
      BY <2>2
    <2>5. Count \in Nat /\ Count <= MaxEvents
      BY <2>2
    <2>6. Cardinality(Of({"ALL_OFF"})) <= MaxEvents
      BY <2>3, <2>4, <2>5
    <2> QED
      BY <2>1, <2>2, <2>4, <2>6, OfBoth
  <1>2. P'
    BY <1>1, PTL
  <1> QED
    BY <1>2

\* What is not counted may come and go.
LEMMA CountSame ==
    ASSUME CountInv, NEW N, NEW R, Changes(N, R), UNCHANGED <<tracing, var_tracing>>,
           \A x \in N : bp'[x].type \notin Counted,
           \A x \in R \cap DOMAIN bp : bp[x].type \notin Counted
    PROVE  CountInv'
  <1>1. ASSUME NEW T \in SUBSET Counted PROVE Of(T)' = Of(T)
    <2>1. Of(T)' = (Of(T) \ R) \cup { e \in N : bp'[e].type \in T }
      BY OfChanges
    <2>2. { e \in N : bp'[e].type \in T } = {}
      OBVIOUS
    <2>3. Of(T) \ R = Of(T)
      BY DEF Of
    <2> QED
      BY <2>1, <2>2, <2>3
  <1>2. /\ Of({"ALL_OFF"})' = Of({"ALL_OFF"}) /\ Of({"STOP_ON"})' = Of({"STOP_ON"})
        /\ Of({"STOP_OFF", "TERM_OFF"})' = Of({"STOP_OFF", "TERM_OFF"})
    <2>1. {"ALL_OFF"} \in SUBSET Counted /\ {"STOP_ON"} \in SUBSET Counted
          /\ {"STOP_OFF", "TERM_OFF"} \in SUBSET Counted
      BY DEF Counted
    <2> QED
      BY <1>1, <2>1
  <1> QED
    BY <1>2 DEF CountInv

\* An event of the types T comes, or goes.
LEMMA OfMore ==
    ASSUME GoodList(Now), NEW N, NEW e \in N, Changes(N, {}), NEW T, bp'[e].type \in T,
           \A x \in N : x = e \/ bp'[x].type \notin T
    PROVE  Cardinality(Of(T))' = Cardinality(Of(T)) + 1
  <1>1. Of(T)' = (Of(T) \ {}) \cup { x \in N : bp'[x].type \in T }
    BY OfChanges
  <1>2. { x \in N : bp'[x].type \in T } = {e}
    OBVIOUS
  <1>3. e \notin Of(T)
    BY DEF Changes, Of
  <1>4. IsFiniteSet(Of(T))
    BY OfCount
  <1>5. Of(T)' = Of(T) \cup {e}
    BY <1>1, <1>2
  <1>6. Cardinality(Of(T) \cup {e}) = Cardinality(Of(T)) + 1
    BY <1>3, <1>4, FS_AddElement
  <1> QED
    BY <1>5, <1>6

LEMMA OfNoMore ==
    ASSUME NEW N, Changes(N, {}), NEW T, \A x \in N : bp'[x].type \notin T
    PROVE  Of(T)' = Of(T)
  <1>1. Of(T)' = (Of(T) \ {}) \cup { x \in N : bp'[x].type \in T }
    BY OfChanges
  <1>2. { x \in N : bp'[x].type \in T } = {}
    OBVIOUS
  <1> QED
    BY <1>1, <1>2

LEMMA OfLess ==
    ASSUME GoodList(Now), NEW e \in DOMAIN bp, Changes({}, {e}), NEW T
    PROVE  /\ bp[e].type \in T => /\ Cardinality(Of(T))' = Cardinality(Of(T)) - 1
                                  /\ Cardinality(Of(T)) >= 1
           /\ bp[e].type \notin T => Of(T)' = Of(T)
  <1>1. Of(T)' = Of(T) \ {e}
    <2>1. Of(T)' = (Of(T) \ {e}) \cup { x \in {} : bp'[x].type \in T }
      BY OfChanges
    <2> QED
      BY <2>1
  <1>2. IsFiniteSet(Of(T)) /\ Cardinality(Of(T)) \in Nat
    BY OfCount
  <1>3. CASE bp[e].type \in T
    <2>1. e \in Of(T)
      BY <1>3 DEF Of
    <2>2. Cardinality(Of(T) \ {e}) = Cardinality(Of(T)) - 1
      BY <1>2, <2>1, FS_RemoveElement
    <2>3. Cardinality(Of(T)) # 0
      BY <1>2, <2>1, FS_EmptySet
    <2>4. Cardinality(Of(T)) >= 1
      <3>1. \A k \in Nat : k # 0 => k >= 1
        OBVIOUS
      <3> QED
        BY <1>2, <2>3, <3>1
    <2> QED
      BY <1>1, <1>3, <2>2, <2>4
  <1>4. CASE bp[e].type \notin T
    <2>1. e \notin Of(T)
      BY <1>4 DEF Of
    <2> QED
      BY <1>1, <1>4, <2>1
  <1> QED
    BY <1>3, <1>4

LEMMA UpDown ==
    ASSUME NEW k \in Nat
    PROVE  /\ k <= 65534 => Up(k) = k + 1
           /\ k >= 1 /\ k <= 65535 => Down(k) = k - 1
  BY DEF Up, Down

LEMMA MoreTracing ==
    ASSUME CountInv, GoodList(Now), GoodList(Now)', MaxEvents < 65535,
           NEW e, Changes({e}, {}), bp'[e].type = "ALL_OFF",
           tracing' = Up(tracing), UNCHANGED var_tracing
    PROVE  CountInv'
  <1>1. Cardinality(Of({"ALL_OFF"}))' = Cardinality(Of({"ALL_OFF"})) + 1
    BY OfMore
  <1>2. /\ Of({"STOP_OFF", "TERM_OFF"})' = Of({"STOP_OFF", "TERM_OFF"})
        /\ Of({"STOP_ON"})' = Of({"STOP_ON"})
    BY OfNoMore
  <1>3. /\ Cardinality(Of({"ALL_OFF"}))' <= MaxEvents /\ MaxEvents \in Nat
        /\ Cardinality(Of({"ALL_OFF"})) \in Nat
    BY OfPrime, OfCount, EventAssumption
  <1>5. tracing \in Nat /\ tracing - Cardinality(Of({"ALL_OFF"})) \in {0, 1}
    BY DEF CountInv
  <1>6. /\ tracing <= 65534 /\ tracing + 1 \in Nat
        /\ (tracing + 1) - Cardinality(Of({"ALL_OFF"}))' \in {0, 1}
    <2>1. Cardinality(Of({"ALL_OFF"}))' \in Nat
      BY OfPrime
    <2> QED
      BY <1>1, <1>3, <1>5, <2>1
  <1>7. tracing' = tracing + 1
    BY <1>5, <1>6, UpDown
  <1> QED
    BY <1>2, <1>6, <1>7 DEF CountInv

LEMMA LessTracing ==
    ASSUME CountInv, GoodList(Now), GoodList(Now)', MaxEvents < 65535,
           NEW e \in DOMAIN bp, Changes({}, {e}), bp[e].type = "ALL_OFF",
           tracing' = Down(tracing), UNCHANGED var_tracing
    PROVE  CountInv'
  <1>1. /\ Cardinality(Of({"ALL_OFF"}))' = Cardinality(Of({"ALL_OFF"})) - 1
        /\ Cardinality(Of({"ALL_OFF"})) >= 1
    BY OfLess
  <1>2. /\ Of({"STOP_OFF", "TERM_OFF"})' = Of({"STOP_OFF", "TERM_OFF"})
        /\ Of({"STOP_ON"})' = Of({"STOP_ON"})
    BY OfLess
  <1>3. /\ Cardinality(Of({"ALL_OFF"})) <= Count /\ Count \in Nat
        /\ Count <= MaxEvents /\ MaxEvents \in Nat
        /\ Cardinality(Of({"ALL_OFF"})) \in Nat /\ Cardinality(Of({"ALL_OFF"}))' \in Nat
    BY OfPrime, OfCount, EventAssumption
  <1>5. tracing \in Nat /\ tracing - Cardinality(Of({"ALL_OFF"})) \in {0, 1}
    BY DEF CountInv
  <1>6. /\ tracing <= 65535 /\ tracing >= 1 /\ tracing - 1 \in Nat
        /\ (tracing - 1) - Cardinality(Of({"ALL_OFF"}))' \in {0, 1}
    BY <1>1, <1>3, <1>5
  <1>7. tracing' = tracing - 1
    BY <1>5, <1>6, UpDown
  <1> QED
    BY <1>2, <1>6, <1>7 DEF CountInv

VarOff == {"STOP_OFF", "TERM_OFF"}

LEMMA VarInv ==
    CountInv <=> /\ tracing \in Nat /\ var_tracing \in Nat
                 /\ tracing - Cardinality(Of({"ALL_OFF"})) \in {0, 1}
                 /\ var_tracing - Cardinality(Of(VarOff)) \in 0..Cardinality(Of({"STOP_ON"}))
  BY DEF CountInv, VarOff

LEMMA MoreVar ==
    ASSUME CountInv, GoodList(Now), GoodList(Now)', MaxEvents < 65535,
           NEW N, NEW d \in N, Changes(N, {}), bp'[d].type \in {"STOP_OFF", "TERM_OFF"},
           \A x \in N : x = d \/ bp'[x].type \notin Counted,
           var_tracing' = Up(var_tracing), UNCHANGED tracing
    PROVE  CountInv'
  <1>1. Cardinality(Of(VarOff))' = Cardinality(Of(VarOff)) + 1
    BY OfMore DEF VarOff, Counted
  <1>2. Of({"ALL_OFF"})' = Of({"ALL_OFF"}) /\ Of({"STOP_ON"})' = Of({"STOP_ON"})
    BY OfNoMore DEF Counted
  <1>3. /\ Cardinality(Of(VarOff))' + Cardinality(Of({"STOP_ON"}))' <= MaxEvents /\ MaxEvents \in Nat
        /\ Cardinality(Of(VarOff)) \in Nat /\ Cardinality(Of(VarOff))' \in Nat
        /\ Cardinality(Of({"STOP_ON"})) \in Nat
    BY OfPrime, OfCount, EventAssumption DEF VarOff
  <1>5. var_tracing \in Nat /\ var_tracing - Cardinality(Of(VarOff)) \in 0..Cardinality(Of({"STOP_ON"}))
    BY VarInv
  <1>6. /\ var_tracing <= 65534 /\ var_tracing + 1 \in Nat
        /\ (var_tracing + 1) - Cardinality(Of(VarOff))' \in 0..Cardinality(Of({"STOP_ON"}))'
    BY <1>1, <1>2, <1>3, <1>5
  <1>7. var_tracing' = var_tracing + 1
    BY <1>5, <1>6, UpDown
  <1> QED
    BY <1>2, <1>6, <1>7 DEF CountInv, VarOff

LEMMA LessVar ==
    ASSUME CountInv, GoodList(Now), GoodList(Now)', MaxEvents < 65535,
           NEW e \in DOMAIN bp, Changes({}, {e}), bp[e].type \in {"STOP_OFF", "TERM_OFF"},
           var_tracing' = Down(var_tracing), UNCHANGED tracing
    PROVE  CountInv'
  <1>1. /\ Cardinality(Of(VarOff))' = Cardinality(Of(VarOff)) - 1
        /\ Cardinality(Of(VarOff)) >= 1
    BY OfLess DEF VarOff
  <1>2. Of({"ALL_OFF"})' = Of({"ALL_OFF"}) /\ Of({"STOP_ON"})' = Of({"STOP_ON"})
    BY OfLess
  <1>3. /\ Cardinality(Of(VarOff))' + Cardinality(Of({"STOP_ON"}))' <= MaxEvents /\ MaxEvents \in Nat
        /\ Cardinality(Of(VarOff)) \in Nat /\ Cardinality(Of(VarOff))' \in Nat
        /\ Cardinality(Of({"STOP_ON"})) \in Nat
    BY OfPrime, OfCount, EventAssumption DEF VarOff
  <1>5. var_tracing \in Nat /\ var_tracing - Cardinality(Of(VarOff)) \in 0..Cardinality(Of({"STOP_ON"}))
    BY VarInv
  <1>6. /\ var_tracing <= 65535 /\ var_tracing >= 1 /\ var_tracing - 1 \in Nat
        /\ (var_tracing - 1) - Cardinality(Of(VarOff))' \in 0..Cardinality(Of({"STOP_ON"}))'
    BY <1>1, <1>2, <1>3, <1>5
  <1>7. var_tracing' = var_tracing - 1
    BY <1>5, <1>6, UpDown
  <1> QED
    BY <1>2, <1>6, <1>7 DEF CountInv, VarOff

LEMMA MoreStop ==
    ASSUME CountInv, GoodList(Now), GoodList(Now)', MaxEvents < 65535,
           NEW e, Changes({e}, {}), bp'[e].type = "STOP_ON",
           var_tracing' = Up(var_tracing), UNCHANGED tracing
    PROVE  CountInv'
  <1>1. Cardinality(Of({"STOP_ON"}))' = Cardinality(Of({"STOP_ON"})) + 1
    BY OfMore
  <1>2. Of({"ALL_OFF"})' = Of({"ALL_OFF"}) /\ Of(VarOff)' = Of(VarOff)
    BY OfNoMore DEF VarOff
  <1>3. /\ Cardinality(Of(VarOff))' + Cardinality(Of({"STOP_ON"}))' <= MaxEvents /\ MaxEvents \in Nat
        /\ Cardinality(Of(VarOff)) \in Nat
        /\ Cardinality(Of({"STOP_ON"})) \in Nat /\ Cardinality(Of({"STOP_ON"}))' \in Nat
    BY OfPrime, OfCount, EventAssumption DEF VarOff
  <1>5. var_tracing \in Nat /\ var_tracing - Cardinality(Of(VarOff)) \in 0..Cardinality(Of({"STOP_ON"}))
    BY VarInv
  <1>6. /\ var_tracing <= 65534 /\ var_tracing + 1 \in Nat
        /\ (var_tracing + 1) - Cardinality(Of(VarOff)) \in 0..Cardinality(Of({"STOP_ON"}))'
    BY <1>1, <1>2, <1>3, <1>5
  <1>7. var_tracing' = var_tracing + 1
    BY <1>5, <1>6, UpDown
  <1> QED
    BY <1>2, <1>6, <1>7 DEF CountInv, VarOff

LEMMA InitCounts == ASSUME Init PROVE CountInv
  <1>1. \A T : Of(T) = {}
    BY DEF Init, Of
  <1>2. \A T : Cardinality(Of(T)) = 0
    BY <1>1, FS_EmptySet
  <1> QED
    BY <1>2 DEF Init, CountInv

LEMMA RunCounts ==
    ASSUME ListInv, Run
    PROVE  CountInv'
  <1>1. ListInv' /\ \A x \in DOMAIN bp' : bp'[x].type \in Temporary => bp'[x].type = "END_BP"
    BY RunList
  <1>2. tracing' = 0 /\ var_tracing' = 0 /\ mode' # "freed"
    BY DEF Run
  <1>3. GoodList(Now)'
    BY <1>1, <1>2 DEF ListInv
  <1>4. Of({"ALL_OFF"})' = {} /\ Of({"STOP_OFF", "TERM_OFF"})' = {}
    BY <1>1 DEF Of, Temporary
  <1>5. Cardinality(Of({"ALL_OFF"}))' = 0 /\ Cardinality(Of({"STOP_OFF", "TERM_OFF"}))' = 0
    BY <1>4, FS_EmptySet
  <1>6. Cardinality(Of({"STOP_ON"}))' \in Nat
    BY <1>3, OfPrime
  <1> QED
    BY <1>2, <1>5, <1>6 DEF CountInv

LEMMA SameCounts ==
    ASSUME CountInv, UNCHANGED <<bp, tracing, var_tracing>>
    PROVE  CountInv'
  <1>1. \A T : Of(T)' = Of(T)
    BY DEF Of
  <1> QED
    BY <1>1 DEF CountInv

\* A counter does not come back to zero while events exist.
FewEvents == MaxEvents < 65535

\* What the user may delete without a counter knowing of it.
SafeToDelete == {"TERM_ON", "BLOCK_ON", "STOP_BP"}

LEMMA GoodNext == ListInv' /\ mode' # "freed" => GoodList(Now)'
  BY DEF ListInv

LEMMA CommandCounts ==
    ASSUME Deletable \subseteq SafeToDelete, FewEvents, ListInv, CountInv, Command
    PROVE  CountInv'
  <1>1. AtPrompt /\ mode' = mode
    <2>1. ASSUME NEW c, Trace(c) PROVE AtPrompt /\ mode' = mode
      BY <2>1 DEF Trace, MayAdd
    <2>2. ASSUME NEW f, NEW c, TraceIn(f, c) PROVE AtPrompt /\ mode' = mode
      BY <2>2 DEF TraceIn, MayAdd
    <2>3. ASSUME NEW f, NEW c, TraceVar(f, c) PROVE AtPrompt /\ mode' = mode
      BY <2>3 DEF TraceVar, MayAdd
    <2>4. ASSUME NEW f, NEW g, NEW c, TraceCalls(f, g, c) PROVE AtPrompt /\ mode' = mode
      BY <2>4 DEF TraceCalls, MayAdd
    <2>5. ASSUME NEW f, NEW c, StopIf(f, c) \/ StopIn(f, c) PROVE AtPrompt /\ mode' = mode
      BY <2>5 DEF StopIf, StopIn, MayAdd
    <2>6. ASSUME NEW e, Delete(e) PROVE AtPrompt /\ mode' = mode
      BY <2>6 DEF Delete
    <2> QED
      BY <2>1, <2>2, <2>3, <2>4, <2>5, <2>6, Zenon DEF Command
  <1>2. "CALL" \notin Deletable
    BY DEF SafeToDelete
  <1>3. GoodList(Now) /\ GoodList(Now)'
    <2>1. mode # "freed"
      BY <1>1 DEF AtPrompt
    <2>2. ListInv'
      BY <1>2, CommandList
    <2> QED
      BY <1>1, <2>1, <2>2, LineIs, GoodNext
  <1>4. ASSUME NEW c \in If("ALL_ON"), Trace(c) \/ \E f \in Where : TraceIn(f, c)
        PROVE  CountInv'
    <2>1. c \in Cond \cup {None}
      BY DEF If
    <2>2. PICK f \in Func : /\ MayAdd /\ addbp(Bp(codeloc(f), "ALL_ON", f, c, None))
                            /\ UNCHANGED <<stack, curfunc, walk, mode>>
      BY <1>4, EventAssumption DEF Trace, TraceIn
    <2>3. PICK e : Puts({e}) /\ bp'[e].type = "ALL_ON"
      BY <2>1, <2>2, ListInv, TraceList
    <2>4. Changes({e}, {}) /\ bp'[e].type \notin Counted
      BY <2>3, PutsChange DEF Counted
    <2>5. CASE Trace(c)
      <3>1. tracing = 0 /\ tracing' = 1 /\ var_tracing' = var_tracing
        BY <2>5, UpDown DEF Trace
      <3>2. /\ Of({"ALL_OFF"})' = Of({"ALL_OFF"}) /\ Of({"STOP_ON"})' = Of({"STOP_ON"})
            /\ Of({"STOP_OFF", "TERM_OFF"})' = Of({"STOP_OFF", "TERM_OFF"})
        BY <2>4, OfNoMore DEF Counted
      <3>3. Cardinality(Of({"ALL_OFF"})) = 0
        <4>1. 0 - Cardinality(Of({"ALL_OFF"})) \in {0, 1} /\ Cardinality(Of({"ALL_OFF"})) \in Nat
          BY <1>3, <3>1, OfCount DEF CountInv
        <4> QED
          BY <4>1
      <3> QED
        BY <3>1, <3>2, <3>3 DEF CountInv
    <2>6. CASE ~Trace(c)
      <3>1. UNCHANGED <<tracing, var_tracing>>
        BY <1>4, <2>6 DEF TraceIn, conds
      <3> QED
        BY <2>4, <3>1, CountSame
    <2> QED
      BY <2>5, <2>6
  <1>5. ASSUME NEW f \in Where, NEW c \in If("TERM_ON"), TraceVar(f, c)
        PROVE  CountInv'
    <2>1. CASE curfunc # f
      <3>1. PICK e : Puts({e}) /\ bp'[e].type = "TERM_ON"
        BY <1>5, <2>1, TraceVarList, Zenon
      <3>2. UNCHANGED <<tracing, var_tracing>>
        BY <1>5, <2>1 DEF TraceVar
      <3>3. Changes({e}, {}) /\ bp'[e].type \notin Counted
        BY <3>1, PutsChange DEF Counted
      <3> QED
        BY <3>2, <3>3, CountSame
    <2>2. CASE curfunc = f
      <3> DEFINE here == IF stack = <<>> THEN lastaddr ELSE return_addr
      <3>0. PICK e, d : /\ Puts({e, d}) /\ e # d /\ bp'[e].type = "TERM_ON"
                        /\ Alike(bp'[d], Bp(here, "TERM_OFF", f, c, f))
        BY <1>5, <2>2, TraceVarList, Zenon
      <3>1. Puts({e, d}) /\ bp'[e].type = "TERM_ON" /\ bp'[d].type = "TERM_OFF"
        BY <3>0 DEF Alike, Bp
      <3>2. tracing' = tracing /\ var_tracing' = Up(var_tracing)
        BY <1>5, <2>2 DEF TraceVar
      <3>3. Changes({e, d}, {}) /\ bp'[e].type \notin Counted
        BY <3>1, PutsChange DEF Counted
      <3> QED
        BY <1>3, <3>1, <3>2, <3>3, MoreVar DEF FewEvents
    <2> QED
      BY <2>1, <2>2
  <1>6. ASSUME NEW f \in Where, NEW g \in Func \ {Main}, NEW c \in If("BLOCK_ON"),
               TraceCalls(f, g, c)
        PROVE  CountInv'
    <2>1. PICK N : Puts(N) /\ \A e \in N : bp'[e].type \in {"BLOCK_ON", "CALL"}
      BY <1>6, TraceCallsList
    <2>2. UNCHANGED <<tracing, var_tracing>>
      BY <1>6 DEF TraceCalls, conds
    <2>3. Changes(N, {}) /\ \A e \in N : bp'[e].type \notin Counted
      BY <2>1, PutsChange DEF Counted
    <2> QED
      BY <2>2, <2>3, CountSame
  <1>7. ASSUME NEW f \in Where, NEW c \in Cond, StopIf(f, c)
        PROVE  CountInv'
    <2>1. PICK e : Puts({e}) /\ bp'[e].type = "STOP_ON"
      BY <1>7, StopIfList
    <2>2. tracing' = tracing /\ var_tracing' = Up(var_tracing)
      BY <1>7 DEF StopIf
    <2>3. Changes({e}, {})
      BY <2>1, PutsChange
    <2> QED
      BY <1>3, <2>1, <2>2, <2>3, MoreStop DEF FewEvents
  <1>8. ASSUME NEW f \in Where, NEW c \in If("STOP_BP"), StopIn(f, c)
        PROVE  CountInv'
    <2>1. PICK e : Puts({e}) /\ bp'[e].type = "STOP_BP"
      BY <1>8, StopInList, Zenon
    <2>2. UNCHANGED <<tracing, var_tracing>>
      BY <1>8 DEF StopIn, conds
    <2>3. Changes({e}, {}) /\ bp'[e].type \notin Counted
      BY <2>1, PutsChange DEF Counted
    <2> QED
      BY <2>2, <2>3, CountSame
  <1>9. ASSUME NEW e \in DOMAIN bp, Delete(e)
        PROVE  CountInv'
    <2>1. Takes({e})
      BY <1>2, <1>9, DeleteList
    <2>2. bp[e].type \in SafeToDelete
      BY <1>9 DEF Delete
    <2>3. UNCHANGED <<tracing, var_tracing>>
      BY <1>9, <2>2 DEF Delete, SafeToDelete
    <2>4. Changes({}, {e}) /\ bp[e].type \notin Counted
      BY <2>1, <2>2, TakesChange DEF Counted, SafeToDelete
    <2> QED
      BY <2>3, <2>4, CountSame
  <1> QED
    BY <1>4, <1>5, <1>6, <1>7, <1>8, <1>9 DEF Command

LEMMA WalkCounts ==
    ASSUME FewEvents, ListInv, CountInv, Walk
    PROVE  CountInv'
  <1>1. mode = "walk" /\ mode' \in {"walk", "panic", "line", "none", "freed"}
    BY DEF Walk, Skip, AllOn, AllOff, StopOn, StopOff, TermOn, TermOff, BlockOn, BlockOff,
           CallEvent, ReturnEvent, StopBp, EndBp, Walked, Met
  <1>2. GoodList(Now)
    BY <1>1, LineIs
  <1>3. mode' # "freed" => GoodList(Now)'
    BY WalkList, GoodNext
  <1>4. CASE Skip \/ CallEvent \/ StopBp
    <2>1. Steps({}, {}) /\ UNCHANGED <<tracing, var_tracing>>
      BY <1>4, SkipSays, CallEventSays, StopBpSays DEF Skip, CallEvent, StopBp, conds
    <2> QED
      BY <2>1, StepsChange, CountSame
  <1>5. CASE AllOn
    <2>1. PICK e : Steps({e}, {}) /\ Alike(bp'[e], Off("ALL_OFF"))
      BY <1>5, AllOnSays, Zenon
    <2>2. bp'[e].type = "ALL_OFF" /\ Changes({e}, {})
      BY <2>1, StepsChange DEF Alike, Off, Bp
    <2>3. tracing' = Up(tracing) /\ var_tracing' = var_tracing /\ mode' # "freed"
      BY <1>1, <1>5 DEF AllOn
    <2> QED
      BY <1>2, <1>3, <2>2, <2>3, MoreTracing DEF FewEvents
  <1>6. CASE StopOn
    <2>1. PICK e : Steps({e}, {}) /\ Alike(bp'[e], Off("STOP_OFF"))
      BY <1>6, StopOnSays
    <2>2. bp'[e].type = "STOP_OFF" /\ Changes({e}, {})
      BY <2>1, StepsChange DEF Alike, Off, Bp
    <2>3. tracing' = tracing /\ var_tracing' = Up(var_tracing) /\ mode' # "freed"
      BY <1>1, <1>6 DEF StopOn
    <2> QED
      BY <1>2, <1>3, <2>2, <2>3, MoreVar DEF FewEvents
  <1>7. CASE TermOn
    <2>1. PICK e : Steps({e}, {}) /\ Alike(bp'[e], Off("TERM_OFF"))
      BY <1>7, TermOnSays
    <2>2. bp'[e].type = "TERM_OFF" /\ Changes({e}, {})
      BY <2>1, StepsChange DEF Alike, Off, Bp
    <2>3. tracing' = tracing /\ var_tracing' = Up(var_tracing) /\ mode' # "freed"
      BY <1>1, <1>7 DEF TermOn
    <2> QED
      BY <1>2, <1>3, <2>2, <2>3, MoreVar DEF FewEvents
  <1>8. CASE AllOff \/ StopOff \/ TermOff \/ ReturnEvent
    <2>1. Steps({}, {walk.p}) /\ walk.p \in DOMAIN bp /\ Changes({}, {walk.p})
      BY <1>8, OffSays, StepsChange DEF Steps
    <2>2. mode' # "freed"
      BY <1>1, <1>8 DEF AllOff, StopOff, TermOff, ReturnEvent
    <2>3. CASE AllOff
      <3>1. tracing' = Down(tracing) /\ var_tracing' = var_tracing /\ bp[walk.p].type = "ALL_OFF"
        BY <2>3 DEF AllOff, Met, ev
      <3> QED
        BY <1>2, <1>3, <2>1, <2>2, <3>1, LessTracing DEF FewEvents
    <2>4. CASE StopOff \/ TermOff
      <3>1. /\ tracing' = tracing /\ var_tracing' = Down(var_tracing)
            /\ bp[walk.p].type \in {"STOP_OFF", "TERM_OFF"}
        BY <2>4 DEF StopOff, TermOff, Met, ev
      <3> QED
        BY <1>2, <1>3, <2>1, <2>2, <3>1, LessVar DEF FewEvents
    <2>5. CASE ReturnEvent
      <3>1. UNCHANGED <<tracing, var_tracing>> /\ bp[walk.p].type \notin Counted
        BY <2>5 DEF ReturnEvent, Met, ev, conds, Counted
      <3> QED
        BY <2>1, <3>1, CountSame
    <2> QED
      BY <1>8, <2>3, <2>4, <2>5
  <1>9. CASE BlockOn
    <2>1. PICK N : Steps(N, {}) /\ \A e \in N : bp'[e].type \in {"CALL", "BLOCK_OFF"}
      BY <1>9, BlockOnSays
    <2>2. Changes(N, {}) /\ \A e \in N : bp'[e].type \notin Counted
      BY <2>1, StepsChange DEF Counted
    <2>3. UNCHANGED <<tracing, var_tracing>>
      BY <1>9 DEF BlockOn, conds
    <2> QED
      BY <2>2, <2>3, CountSame
  <1>10. CASE BlockOff
    <2>1. /\ DOMAIN bp' = DOMAIN bp \ {walk.p, ev.old}
          /\ \A x \in DOMAIN bp' : Alike(bp'[x], bp[x])
          /\ bp[ev.old].type = "CALL" /\ bp[walk.p].type = "BLOCK_OFF"
      BY <1>10, BlockOffTakes DEF BlockOff, Met, ev
    <2>2. Changes({}, {walk.p, ev.old})
      BY <2>1 DEF Changes
    <2>3. \A x \in {walk.p, ev.old} : bp[x].type \notin Counted
      BY <2>1 DEF Counted
    <2>4. UNCHANGED <<tracing, var_tracing>>
      BY <1>10 DEF BlockOff, conds
    <2> QED
      BY <2>2, <2>3, <2>4, CountSame
  <1>11. CASE EndBp
    BY <1>11, SameCounts DEF EndBp, list, conds
  <1>12. CASE Walked
    <2>1. UNCHANGED <<tracing, var_tracing>>
      BY <1>12 DEF Walked, conds
    <2>2. CASE walk.delayed
      <3>1. PICK e : Puts({e}) /\ Alike(bp'[e], Bp(return_addr, "RETURN", curfunc, None, None))
        BY <1>12, <2>2, WalkedList
      <3>2. Changes({e}, {}) /\ bp'[e].type \notin Counted
        BY <3>1, PutsChange DEF Alike, Bp, Counted
      <3> QED
        BY <2>1, <3>2, CountSame
    <2>3. CASE ~walk.delayed
      <3>1. Takes({})
        BY <1>12, <2>3, WalkedList
      <3> QED
        BY <2>1, <3>1, TakesChange, CountSame
    <2> QED
      BY <2>2, <2>3
  <1> QED
    BY <1>4, <1>5, <1>6, <1>7, <1>8, <1>9, <1>10, <1>11, <1>12 DEF Walk

LEMMA NextKeepsCounts ==
    ASSUME Deletable \subseteq SafeToDelete, FewEvents, ListInv, CountInv, [Next]_vars
    PROVE  CountInv'
  <1>1. CASE Command
    BY <1>1, CommandCounts
  <1>2. CASE Run
    BY <1>2, RunCounts
  <1>3. CASE (\E g \in Func : Call(g)) \/ Return \/ Finish \/ UNCHANGED vars
    <2>1. UNCHANGED <<list, conds>>
      BY <1>3, Zenon DEF Call, Return, Finish, vars
    <2>2. UNCHANGED <<bp, tracing, var_tracing>>
      BY <2>1 DEF list, conds
    <2> QED
      BY <2>2, SameCounts
  <1>4. CASE Walk
    BY <1>4, WalkCounts
  <1> QED
    BY <1>1, <1>2, <1>3, <1>4 DEF Next

-----------------------------------------------------------------------------
(***************************************************************************)
(* The stack of a program in which only single routines are recursive.     *)
(***************************************************************************)

Ranks(rank) == \A f, g \in Func : <<f, g>> \in Calls => f = g \/ rank[f] < rank[g]

\* No routine is called, through other ones, by one that it calls.
NoMutualRecursion == \E rank \in [Func -> Nat] : Ranks(rank)
Rank == CHOOSE rank \in [Func -> Nat] : Ranks(rank)
Below(f, g) == f = g \/ Rank[f] < Rank[g]

StackInv ==
    /\ \A i \in 1..Len(stack) : stack[i].ret = IF i = 1 THEN lastaddr
                                               ELSE Behind(stack[i - 1].func, stack[i].func)
    /\ \A i, j \in 1..Len(stack) : i < j => Below(stack[i].func, stack[j].func)

LEMMA RankIs == NoMutualRecursion => Rank \in [Func -> Nat] /\ Ranks(Rank)
  BY DEF NoMutualRecursion, Rank

LEMMA BelowIs ==
    ASSUME NoMutualRecursion, NEW f \in Func, NEW g \in Func, NEW h \in Func
    PROVE  /\ Below(f, g) /\ Below(g, h) => Below(f, h)
           /\ Below(f, g) /\ Below(g, f) => f = g
           /\ <<f, g>> \in Calls => Below(f, g)
  <1>1. Rank[f] \in Nat /\ Rank[g] \in Nat /\ Rank[h] \in Nat
    BY RankIs
  <1>2. <<f, g>> \in Calls => Below(f, g)
    BY RankIs DEF Ranks, Below
  <1> QED
    BY <1>1, <1>2 DEF Below

LEMMA FrameIs ==
    ASSUME stack \in Seq(Frame), NEW i \in 1..Len(stack)
    PROVE  stack[i].func \in Func /\ stack[i].ret \in Address /\ stack[i].traced \in BOOLEAN
  <1>1. stack[i] \in Frame
    OBVIOUS
  <1> QED
    BY <1>1 DEF Frame

\* Activations that return to the same place are those of one recursive routine,
\* and all those between them return there, too.
LEMMA SameReturn ==
    ASSUME NoMutualRecursion, stack \in Seq(Frame), StackInv,
           NEW i \in 1..Len(stack), NEW k \in 1..Len(stack), i < k, stack[i].ret = stack[k].ret
    PROVE  /\ i - 1 \in 1..Len(stack) /\ stack[i - 1].func = stack[i].func
           /\ \A j \in i..k : j \in 1..Len(stack) /\ stack[j].ret = stack[i].ret
  <1>1. Len(stack) \in Nat
    OBVIOUS
  <1>2. /\ k \in Int /\ i \in Int /\ k # 1 /\ k - 1 \in 1..Len(stack) /\ i <= k - 1
    BY <1>1
  <1>3. stack[k].ret = Behind(stack[k - 1].func, stack[k].func)
    BY <1>2 DEF StackInv
  <1>4. i # 1
    <2>1. SUFFICES ASSUME i = 1 PROVE FALSE
      OBVIOUS
    <2>2. stack[i].ret = lastaddr
      BY <2>1 DEF StackInv
    <2>3. \A f, g : Behind(f, g) # lastaddr
      BY DEF Behind, lastaddr
    <2> QED
      BY <1>3, <2>2, <2>3
  <1>5. i - 1 \in 1..Len(stack) /\ i - 1 < i /\ i - 1 < k - 1
    BY <1>1, <1>2, <1>4
  <1>6. stack[i].ret = Behind(stack[i - 1].func, stack[i].func)
    BY <1>4 DEF StackInv
  <1>7. stack[i - 1].func = stack[k - 1].func /\ stack[i].func = stack[k].func
    BY <1>3, <1>6 DEF Behind
  <1>8. \A j \in (i - 1)..(k - 1) : j \in 1..Len(stack) /\ stack[j].func = stack[i - 1].func
    <2>1. SUFFICES ASSUME NEW j \in (i - 1)..(k - 1)
                   PROVE  j \in 1..Len(stack) /\ stack[j].func = stack[i - 1].func
      OBVIOUS
    <2>2. /\ j \in 1..Len(stack) /\ j \in Int
          /\ \/ j = i - 1 \/ j = k - 1 \/ (i - 1 < j /\ j < k - 1)
      BY <1>1, <1>2, <1>5
    <2>3. CASE i - 1 < j /\ j < k - 1
      <3>1. Below(stack[i - 1].func, stack[j].func)
        BY <1>5, <2>2, <2>3 DEF StackInv
      <3>2. Below(stack[j].func, stack[i - 1].func)
        BY <1>2, <1>7, <2>2, <2>3 DEF StackInv
      <3>3. stack[j].func \in Func /\ stack[i - 1].func \in Func
        BY <1>5, <2>2, FrameIs
      <3> QED
        BY <2>2, <3>1, <3>2, <3>3, BelowIs
    <2> QED
      BY <1>7, <2>2, <2>3
  <1>9. stack[i].func = stack[i - 1].func
    <2>1. i \in (i - 1)..(k - 1)
      BY <1>2
    <2> QED
      BY <1>8, <2>1
  <1>10. \A j \in i..k : j \in 1..Len(stack) /\ stack[j].ret = stack[i].ret
    <2>1. SUFFICES ASSUME NEW j \in i..k PROVE j \in 1..Len(stack) /\ stack[j].ret = stack[i].ret
      OBVIOUS
    <2>2. CASE j = k
      BY <2>2
    <2>3. CASE j # k
      <3>1. /\ j \in (i - 1)..(k - 1) /\ j - 1 \in (i - 1)..(k - 1) /\ j # 1
        BY <1>2, <1>4, <2>3
      <3>2. /\ j \in 1..Len(stack) /\ stack[j].func = stack[i - 1].func
            /\ stack[j - 1].func = stack[i - 1].func
        BY <1>8, <3>1
      <3>3. stack[j].ret = Behind(stack[j - 1].func, stack[j].func)
        BY <3>1, <3>2 DEF StackInv
      <3> QED
        BY <1>6, <1>9, <3>2, <3>3
    <2> QED
      BY <2>2, <2>3
  <1> QED
    BY <1>5, <1>9, <1>10

LEMMA SameStackInv ==
    ASSUME StackInv, SameStack
    PROVE  StackInv'
  <1>1. Len(stack') = Len(stack) /\ \A i \in 1..Len(stack) :
           stack'[i].ret = stack[i].ret /\ stack'[i].func = stack[i].func
    BY DEF SameStack
  <1>2. \A i \in 1..Len(stack) : i = 1 \/ i - 1 \in 1..Len(stack)
    <2>1. Len(stack) \in Nat
      BY <1>1 DEF SameStack
    <2> QED
      BY <2>1
  <1>3. ASSUME NEW i \in 1..Len(stack')
        PROVE  stack'[i].ret = IF i = 1 THEN lastaddr ELSE Behind(stack'[i - 1].func, stack'[i].func)
    BY <1>1, <1>2, <1>3 DEF StackInv
  <1>4. \A i, j \in 1..Len(stack') : i < j => Below(stack'[i].func, stack'[j].func)
    BY <1>1 DEF StackInv
  <1> QED
    BY <1>3, <1>4 DEF StackInv, Behind, lastaddr, Below

LEMMA CallStack ==
    ASSUME NoMutualRecursion, ListInv, StackInv, NEW g \in Func, Call(g)
    PROVE  /\ StackInv' /\ stack' \in Seq(Frame) /\ Len(stack') = Len(stack) + 1 /\ Len(stack) \in Nat
           /\ \A i \in 1..Len(stack) : stack'[i] = stack[i]
           /\ ~stack'[Len(stack) + 1].traced
  <1>1. TypeInv /\ Stacked /\ stack # <<>> /\ mode = "line"
    BY LineIs DEF Call, Stacked
  <1>2. stack \in Seq(Frame) /\ Len(stack) \in Nat /\ Len(stack) \in 1..Len(stack)
    BY <1>1, Returns DEF TypeInv
  <1> DEFINE fr == [func |-> g, ret |-> Behind(Top, g), traced |-> FALSE]
  <1>3. Top \in Func /\ fr \in Frame
    <2>1. Top \in Func
      BY <1>2, FrameIs DEF Top
    <2> QED
      BY <2>1 DEF Frame, Behind, Address
  <1>4. fr.func = g /\ fr.ret = Behind(Top, g) /\ ~fr.traced
    OBVIOUS
  <1>5. stack' = Append(stack, fr)
    BY DEF Call
  <1> HIDE DEF fr
  <1>6. /\ stack' \in Seq(Frame) /\ Len(stack') = Len(stack) + 1
        /\ \A i \in 1..Len(stack) : stack'[i] = stack[i]
        /\ stack'[Len(stack) + 1] = fr
    BY <1>2, <1>3, <1>5
  <1>7. ASSUME NEW i \in 1..Len(stack')
        PROVE  stack'[i].ret = IF i = 1 THEN lastaddr ELSE Behind(stack'[i - 1].func, stack'[i].func)
    <2>1. CASE i = Len(stack) + 1
      <3>1. i # 1 /\ i - 1 = Len(stack) /\ stack'[i - 1] = stack[Len(stack)]
        BY <1>2, <1>6, <2>1
      <3> QED
        BY <1>4, <1>6, <2>1, <3>1 DEF Top
    <2>2. CASE i # Len(stack) + 1
      <3>1. i \in 1..Len(stack) /\ (i = 1 \/ i - 1 \in 1..Len(stack))
        BY <1>2, <1>6, <2>2
      <3> QED
        BY <1>6, <3>1 DEF StackInv
    <2> QED
      BY <2>1, <2>2
  <1>8. ASSUME NEW i \in 1..Len(stack'), NEW j \in 1..Len(stack'), i < j
        PROVE  Below(stack'[i].func, stack'[j].func)
    <2>1. i \in 1..Len(stack)
      BY <1>2, <1>6, <1>8
    <2>2. CASE j = Len(stack) + 1
      <3>1. Below(stack[i].func, Top)
        BY <1>2, <2>1 DEF StackInv, Below, Top
      <3>2. Below(Top, g)
        BY <1>3, BelowIs DEF Call
      <3>3. stack[i].func \in Func
        BY <1>2, <2>1, FrameIs
      <3>4. Below(stack[i].func, g)
        BY <1>3, <3>1, <3>2, <3>3, BelowIs
      <3> QED
        BY <1>4, <1>6, <2>1, <2>2, <3>4
    <2>3. CASE j # Len(stack) + 1
      <3>1. j \in 1..Len(stack)
        BY <1>2, <1>6, <2>3
      <3> QED
        BY <1>6, <1>8, <2>1, <3>1 DEF StackInv
    <2> QED
      BY <2>2, <2>3
  <1>9. StackInv'
    BY <1>7, <1>8 DEF StackInv, Behind, lastaddr, Below
  <1> QED
    BY <1>2, <1>4, <1>6, <1>9

LEMMA ReturnStack ==
    ASSUME ListInv, StackInv, Return
    PROVE  /\ StackInv' /\ stack \in Seq(Frame) /\ Len(stack) \in Nat /\ Len(stack') = Len(stack) - 1
           /\ Len(stack) \in 1..Len(stack)
           /\ \A i \in 1..Len(stack') : stack'[i] = stack[i] /\ i \in 1..Len(stack)
  <1>1. TypeInv /\ Stacked /\ stack # <<>> /\ mode = "line" /\ Len(stack) > 1 /\ stack' = Front(stack)
    BY LineIs DEF Return, Stacked
  <1>2. stack \in Seq(Frame) /\ Len(stack) \in Nat /\ Len(stack) \in 1..Len(stack)
    BY <1>1, Returns DEF TypeInv
  <1>3. /\ Len(stack') = Len(stack) - 1
        /\ \A i \in 1..Len(stack') : stack'[i] = stack[i] /\ i \in 1..Len(stack)
    BY <1>1, <1>2, FrontIs
  <1>4. ASSUME NEW i \in 1..Len(stack')
        PROVE  stack'[i].ret = IF i = 1 THEN lastaddr ELSE Behind(stack'[i - 1].func, stack'[i].func)
    <2>1. i = 1 \/ i - 1 \in 1..Len(stack')
      BY <1>2, <1>3
    <2> QED
      BY <1>3, <2>1 DEF StackInv
  <1>5. \A i, j \in 1..Len(stack') : i < j => Below(stack'[i].func, stack'[j].func)
    BY <1>3 DEF StackInv
  <1>6. StackInv'
    BY <1>4, <1>5 DEF StackInv, Behind, lastaddr, Below
  <1> QED
    BY <1>2, <1>3, <1>6

LEMMA OneFrame ==
    ASSUME Run
    PROVE  /\ StackInv' /\ stack' \in Seq(Frame) /\ Len(stack') = 1 /\ ~stack'[1].traced
           /\ stack'[1].ret = lastaddr /\ stack'[1].func = Main
  <1> DEFINE fr == [func |-> Main, ret |-> lastaddr, traced |-> FALSE]
  <1>1. stack' = <<fr>>
    BY DEF Run
  <1>2. fr \in Frame
    BY EventAssumption DEF Frame, lastaddr, Address
  <1>3. fr.ret = lastaddr /\ ~fr.traced /\ fr.func = Main
    OBVIOUS
  <1> HIDE DEF fr
  <1>4. stack' \in Seq(Frame) /\ Len(stack') = 1 /\ stack'[1] = fr
    BY <1>1, <1>2
  <1>5. \A i \in 1..Len(stack') : i = 1
    BY <1>4
  <1>6. StackInv'
    BY <1>3, <1>4, <1>5 DEF StackInv, lastaddr, Behind, Below
  <1> QED
    BY <1>3, <1>4, <1>6

\* A step of the walk, or none, leaves the active routines where they are.
LEMMA WalkStack ==
    ASSUME ListInv, Walk, mode' \in {"walk", "panic", "line"}
    PROVE  SameStack
  <1>1. mode = "walk"
    BY DEF Walk, Skip, AllOn, AllOff, StopOn, StopOff, TermOn, TermOff, BlockOn, BlockOff,
           CallEvent, ReturnEvent, StopBp, EndBp, Walked, Met
  <1>2. TypeInv
    BY <1>1, LineIs
  <1>3. CASE AllOn
    BY <1>3, AllOnSays DEF Steps
  <1>4. CASE UNCHANGED stack
    BY <1>2, <1>4, StackSame
  <1>5. AllOn \/ UNCHANGED stack
    BY DEF Walk, Skip, AllOff, StopOn, StopOff, TermOn, TermOff, BlockOn, BlockOff,
           CallEvent, ReturnEvent, StopBp, EndBp, Walked
  <1> QED
    BY <1>3, <1>4, <1>5

LEMMA NextKeepsStack ==
    ASSUME NoMutualRecursion, ListInv, StackInv, [Next]_vars
    PROVE  StackInv'
  <1>1. CASE UNCHANGED stack
    BY <1>1 DEF StackInv, Behind, lastaddr, Below
  <1>2. CASE stack' = <<>>
    <2>1. Len(stack') = 0
      BY <1>2
    <2> QED
      BY <2>1 DEF StackInv
  <1>3. CASE Run
    BY <1>3, OneFrame
  <1>4. CASE \E g \in Func : Call(g)
    BY <1>4, CallStack
  <1>5. CASE Return
    BY <1>5, ReturnStack
  <1>6. CASE AllOn
    BY <1>6, AllOnSays, SameStackInv DEF Steps
  <1>7. \/ UNCHANGED stack \/ stack' = <<>> \/ Run \/ (\E g \in Func : Call(g)) \/ Return \/ AllOn
    <2>1. Command => UNCHANGED stack
      BY Zenon DEF Command, Trace, TraceIn, TraceVar, TraceCalls, StopIf, StopIn, Delete
    <2>2. Walk => UNCHANGED stack \/ stack' = <<>> \/ AllOn
      BY DEF Walk, Skip, AllOff, StopOn, StopOff, TermOn, TermOff, BlockOn, BlockOff,
             CallEvent, ReturnEvent, StopBp, EndBp, Walked
    <2>3. Finish => UNCHANGED stack \/ stack' = <<>>
      BY DEF Finish
    <2> QED
      BY <2>1, <2>2, <2>3 DEF Next, vars
  <1> QED
    BY <1>1, <1>2, <1>3, <1>4, <1>5, <1>6, <1>7

\* A command puts events on the list, or takes one off that the user may delete.
LEMMA CommandPuts ==
    ASSUME ListInv, Command
    PROVE  (\E N : Puts(N)) \/ \E e \in DOMAIN bp : Delete(e)
  <1>1. ASSUME NEW c \in If("ALL_ON"), Trace(c) \/ \E f \in Where : TraceIn(f, c)
        PROVE  \E N : Puts(N)
    <2>1. c \in Cond \cup {None}
      BY DEF If
    <2>2. PICK f \in Func : /\ MayAdd /\ addbp(Bp(codeloc(f), "ALL_ON", f, c, None))
                            /\ UNCHANGED <<stack, curfunc, walk, mode>>
      BY <1>1, EventAssumption DEF Trace, TraceIn
    <2> QED
      BY <2>1, <2>2, TraceList
  <1>2. ASSUME NEW f \in Where, NEW c \in If("TERM_ON"), TraceVar(f, c)
        PROVE  \E N : Puts(N)
    <2>1. curfunc # f => \E e : Puts({e})
      BY <1>2, TraceVarList
    <2>2. curfunc = f => \E e, d : Puts({e, d})
      BY <1>2, TraceVarList
    <2> QED
      BY <2>1, <2>2
  <1>3. ASSUME NEW f \in Where, NEW g \in Func \ {Main}, NEW c \in If("BLOCK_ON"),
               TraceCalls(f, g, c)
        PROVE  \E N : Puts(N)
    BY <1>3, TraceCallsList
  <1>4. ASSUME NEW f \in Where, NEW c \in Cond, StopIf(f, c)
        PROVE  \E N : Puts(N)
    BY <1>4, StopIfList
  <1>5. ASSUME NEW f \in Where, NEW c \in If("STOP_BP"), StopIn(f, c)
        PROVE  \E N : Puts(N)
    BY <1>5, StopInList
  <1> QED
    BY <1>1, <1>2, <1>3, <1>4, <1>5 DEF Command

\* An event that turns a trace off is counted.
LEMMA WaitCounts ==
    ASSUME ListInv, CountInv, mode # "freed", \E e \in DOMAIN bp : bp[e].type = "ALL_OFF"
    PROVE  tracing > 0
  <1>1. Of({"ALL_OFF"}) # {}
    BY DEF Of
  <1>2. IsFiniteSet(Of({"ALL_OFF"})) /\ Cardinality(Of({"ALL_OFF"})) \in Nat
    BY LineIs, OfCount
  <1>3. Cardinality(Of({"ALL_OFF"})) # 0
    BY <1>1, <1>2, FS_EmptySet
  <1>4. tracing \in Nat /\ tracing - Cardinality(Of({"ALL_OFF"})) \in {0, 1}
    BY DEF CountInv
  <1> QED
    BY <1>2, <1>3, <1>4

-----------------------------------------------------------------------------
(***************************************************************************)
(* What was first traced waits to be turned off.                           *)
(***************************************************************************)

First(i) == \A j \in 1..i - 1 : stack[j].func # stack[i].func
Waits(i) == \E e \in DOMAIN bp : bp[e].type = "ALL_OFF" /\ bp[e].addr = stack[i].ret

TraceInv ==
    mode \in {"line", "walk"} => \A i \in 1..Len(stack) : stack[i].traced /\ First(i) =>
        Waits(i) /\ (mode = "walk" => stack[i].ret # walk.at)

\* Nothing that waits is taken off; what is the same of the stack is the same.
LEMMA StillWaits ==
    ASSUME NEW i \in 1..Len(stack), Len(stack) \in Nat, Waits(i), First(i)',
           \A j \in 1..i : stack'[j].func = stack[j].func /\ stack'[j].ret = stack[j].ret,
           NEW N, NEW R, Changes(N, R),
           \A e \in R \cap DOMAIN bp : bp[e].type = "ALL_OFF" => bp[e].addr # stack[i].ret
    PROVE  Waits(i)' /\ First(i)
  <1>1. PICK e \in DOMAIN bp : bp[e].type = "ALL_OFF" /\ bp[e].addr = stack[i].ret
    BY DEF Waits
  <1>2. e \in DOMAIN bp' /\ bp'[e].type = "ALL_OFF" /\ bp'[e].addr = stack[i].ret
    BY <1>1 DEF Changes, Alike
  <1>3. i \in 1..i /\ \A j \in 1..i - 1 : j \in 1..i
    OBVIOUS
  <1>4. Waits(i)'
    BY <1>2, <1>3 DEF Waits
  <1>5. First(i)
    BY <1>3 DEF First
  <1> QED
    BY <1>4, <1>5

LEMMA FirstBefore ==
    ASSUME NEW i \in 1..Len(stack), Len(stack) \in Nat, First(i)',
           \A j \in 1..i : stack'[j].func = stack[j].func
    PROVE  First(i)
  <1>1. i \in 1..i /\ \A j \in 1..i - 1 : j \in 1..i
    OBVIOUS
  <1> QED
    BY <1>1 DEF First

\* Nothing is turned off, and no walk starts at a return address.
LEMMA KeepsTraces ==
    ASSUME TraceInv, mode \in {"line", "walk"}, Len(stack) \in Nat, Len(stack') = Len(stack),
           \A i \in 1..Len(stack) : /\ stack'[i].func = stack[i].func /\ stack'[i].ret = stack[i].ret
                                    /\ stack'[i].traced = stack[i].traced,
           NEW N, NEW R, Changes(N, R), mode' = "walk" => mode = "walk" /\ walk'.at = walk.at,
           \A e \in R \cap DOMAIN bp : bp[e].type = "ALL_OFF" =>
               mode = "walk" /\ bp[e].addr = walk.at
    PROVE  TraceInv'
  <1>1. SUFFICES ASSUME mode' \in {"line", "walk"}, NEW i \in 1..Len(stack'),
                        stack'[i].traced, First(i)'
                 PROVE  Waits(i)' /\ (mode' = "walk" => stack'[i].ret # walk'.at)
    BY DEF TraceInv
  <1>2. i \in 1..Len(stack) /\ \A j \in 1..i : j \in 1..Len(stack)
    BY <1>1
  <1>3. First(i)
    BY <1>1, <1>2, FirstBefore
  <1>4. Waits(i) /\ (mode = "walk" => stack[i].ret # walk.at)
    BY <1>1, <1>2, <1>3 DEF TraceInv
  <1>5. Waits(i)'
    BY <1>1, <1>2, <1>4, StillWaits
  <1> QED
    BY <1>2, <1>4, <1>5

LEMMA CommandTraces ==
    ASSUME Deletable \subseteq SafeToDelete, ListInv, TraceInv, Command
    PROVE  TraceInv'
  <1>1. AtPrompt /\ UNCHANGED <<stack, mode>>
    BY Zenon DEF Command, Trace, TraceIn, TraceVar, TraceCalls, StopIf, StopIn, Delete, MayAdd
  <1>2. CASE mode # "line"
    BY <1>1, <1>2 DEF TraceInv, AtPrompt
  <1>3. CASE mode = "line"
    <2>1. Len(stack) \in Nat
      BY <1>3, LineIs DEF TypeInv
    <2>2. \E N, R : /\ Changes(N, R)
                    /\ \A e \in R \cap DOMAIN bp : bp[e].type # "ALL_OFF"
      <3>1. "CALL" \notin Deletable
        BY DEF SafeToDelete
      <3>2. CASE \E e \in DOMAIN bp : Delete(e)
        <4>1. PICK e \in DOMAIN bp : Delete(e)
          BY <3>2
        <4>2. Takes({e}) /\ bp[e].type # "ALL_OFF"
          BY <3>1, <4>1, DeleteList DEF Delete, SafeToDelete
        <4>3. Changes({}, {e}) /\ \A x \in {e} \cap DOMAIN bp : bp[x].type # "ALL_OFF"
          BY <4>2, TakesChange
        <4> QED
          BY <4>3
      <3>3. CASE \E N : Puts(N)
        <4>1. PICK N : Puts(N)
          BY <3>3
        <4>2. Changes(N, {}) /\ \A e \in {} \cap DOMAIN bp : bp[e].type # "ALL_OFF"
          BY <4>1, PutsChange
        <4> QED
          BY <4>2
      <3>4. (\E N : Puts(N)) \/ \E e \in DOMAIN bp : Delete(e)
        BY CommandPuts
      <3> QED
        BY <3>2, <3>3, <3>4
    <2>3. PICK N, R : /\ Changes(N, R)
                      /\ \A e \in R \cap DOMAIN bp : bp[e].type # "ALL_OFF"
      BY <2>2
    <2> QED
      BY <1>1, <1>3, <2>1, <2>3, KeepsTraces
  <1> QED
    BY <1>2, <1>3

LEMMA RunTraces ==
    ASSUME Run
    PROVE  TraceInv'
  <1>0. Len(stack') = 1 /\ ~stack'[1].traced
    BY OneFrame
  <1>1. \A i \in 1..Len(stack') : i = 1
    BY <1>0
  <1> QED
    BY <1>0, <1>1 DEF TraceInv

LEMMA CallTraces ==
    ASSUME NoMutualRecursion, ListInv, StackInv, TraceInv, NEW g \in Func, Call(g)
    PROVE  TraceInv'
  <1>1. SUFFICES ASSUME NEW i \in 1..Len(stack'), stack'[i].traced, First(i)'
                 PROVE  Waits(i)' /\ (mode' = "walk" => stack'[i].ret # walk'.at)
    BY DEF TraceInv
  <1>2. mode = "line" /\ walk'.at = codeloc(g)
    BY DEF Call, bpact
  <1>3. TypeInv /\ Stacked
    BY <1>2, LineIs
  <1>4. i \in 1..Len(stack) /\ \A j \in 1..i : j \in 1..Len(stack) /\ stack'[j] = stack[j]
    <2>1. i # Len(stack) + 1
      BY <1>1, CallStack
    <2>2. Len(stack) \in Nat /\ i \in 1..Len(stack)
      BY <1>1, <2>1, CallStack
    <2>3. \A j \in 1..i : j \in 1..Len(stack)
      BY <2>2
    <2> QED
      BY <2>2, <2>3, CallStack
  <1>5. i \in 1..i /\ Len(stack) \in Nat
    BY <1>4, CallStack
  <1>6. First(i)
    BY <1>1, <1>4, <1>5, FirstBefore
  <1>7. Waits(i)
    BY <1>1, <1>2, <1>4, <1>5, <1>6 DEF TraceInv
  <1>8. Changes({}, {})
    BY CallList, TakesChange
  <1>9. Waits(i)'
    BY <1>1, <1>4, <1>5, <1>7, <1>8, StillWaits
  <1>10. stack'[i].ret # walk'.at
    <2>1. stack'[i].ret[1] # "entry"
      BY <1>3, <1>4, <1>5 DEF Stacked
    <2> QED
      BY <1>2, <2>1 DEF codeloc
  <1> QED
    BY <1>9, <1>10

LEMMA ReturnTraces ==
    ASSUME NoMutualRecursion, ListInv, StackInv, TraceInv, Return
    PROVE  TraceInv'
  <1>1. SUFFICES ASSUME NEW i \in 1..Len(stack'), stack'[i].traced, First(i)'
                 PROVE  Waits(i)' /\ (mode' = "walk" => stack'[i].ret # walk'.at)
    BY DEF TraceInv
  <1>2. mode = "line" /\ walk'.at = return_addr
    BY DEF Return, bpact
  <1>3. /\ i \in 1..Len(stack) /\ i < Len(stack) /\ Len(stack) \in Nat
        /\ \A j \in 1..i : j \in 1..Len(stack) /\ stack'[j] = stack[j]
    <2>1. i \in 1..Len(stack) /\ Len(stack) \in Nat /\ Len(stack') = Len(stack) - 1
      BY <1>1, ReturnStack
    <2>2. i < Len(stack) /\ \A j \in 1..i : j \in 1..Len(stack')
      BY <1>1, <2>1
    <2> QED
      BY <2>1, <2>2, ReturnStack
  <1>4. i \in 1..i
    BY <1>3
  <1>5. First(i)
    BY <1>1, <1>3, <1>4, FirstBefore
  <1>6. Waits(i)
    BY <1>1, <1>2, <1>3, <1>4, <1>5 DEF TraceInv
  <1>7. Changes({}, {})
    BY ReturnList, TakesChange
  <1>8. Waits(i)'
    BY <1>1, <1>3, <1>4, <1>6, <1>7, StillWaits
  <1>9. stack[i].ret # stack[Len(stack)].ret
    <2>1. SUFFICES ASSUME stack[i].ret = stack[Len(stack)].ret PROVE FALSE
      OBVIOUS
    <2>2. stack \in Seq(Frame) /\ Len(stack) \in 1..Len(stack)
      BY ReturnStack
    <2>3. i - 1 \in 1..Len(stack) /\ stack[i - 1].func = stack[i].func
      BY <1>3, <2>1, <2>2, SameReturn
    <2>4. i - 1 \in 1..i - 1
      BY <1>3, <2>3
    <2> QED
      BY <1>5, <2>3, <2>4 DEF First
  <1> QED
    BY <1>2, <1>3, <1>4, <1>8, <1>9 DEF return_addr

LEMMA FinishTraces ==
    ASSUME ListInv, CountInv, TraceInv, Finish
    PROVE  TraceInv'
  <1>1. mode = "line" /\ Len(stack) = 1
    BY DEF Finish
  <1>2. CASE mode' = "none"
    BY <1>2 DEF TraceInv
  <1>3. CASE ~single_stepping /\ bpact(lastaddr) /\ UNCHANGED <<stack, list, conds, curfunc>>
    <2>1. ASSUME NEW i \in 1..Len(stack), stack[i].traced PROVE FALSE
      <3>1. First(i)
        <4>1. 1..i - 1 = {}
          BY <1>1
        <4> QED
          BY <4>1 DEF First
      <3>2. Waits(i)
        BY <1>1, <2>1, <3>1 DEF TraceInv
      <3>3. tracing > 0
        BY <1>1, <3>2, WaitCounts DEF Waits
      <3> QED
        BY <1>3, <3>3 DEF single_stepping
    <2> QED
      BY <1>3, <2>1 DEF TraceInv
  <1> QED
    BY <1>2, <1>3 DEF Finish

LEMMA WalkTraces ==
    ASSUME ListInv, TraceInv, Walk
    PROVE  TraceInv'
  <1>1. mode = "walk"
    BY DEF Walk, Skip, AllOn, AllOff, StopOn, StopOff, TermOn, TermOff, BlockOn, BlockOff,
           CallEvent, ReturnEvent, StopBp, EndBp, Walked, Met
  <1>2. Len(stack) \in Nat
    BY <1>1, LineIs DEF TypeInv
  <1>3. CASE AllOn
    <2>1. PICK e : Steps({e}, {}) /\ Alike(bp'[e], Off("ALL_OFF"))
      BY <1>3, AllOnSays
    <2>2. /\ Changes({e}, {}) /\ e \in DOMAIN bp' /\ SameStack /\ walk'.at = walk.at
          /\ bp'[e].type = "ALL_OFF" /\ bp'[e].addr = return_addr /\ walk.p # 0
      BY <2>1, StepsChange DEF Alike, Off, Bp, Steps
    <2>3. Len(stack') = Len(stack)
          /\ \A i \in 1..Len(stack) : stack'[i].func = stack[i].func /\ stack'[i].ret = stack[i].ret
      BY <2>2 DEF SameStack
    <2>4. SUFFICES ASSUME NEW i \in 1..Len(stack), stack'[i].traced, First(i)'
                   PROVE  Waits(i)' /\ stack'[i].ret # walk'.at
      BY <2>3 DEF TraceInv
    <2>5. CASE i = Len(stack)
      <3>1. Waits(i)'
        BY <2>2, <2>3, <2>5 DEF Waits, return_addr
      <3>2. walk.at[1] = "entry"
        <4>1. InPlace(ev) /\ ev.type = "ALL_ON" /\ ev.addr = walk.at
          BY <1>1, <1>3, <2>2, WalkIs DEF Here, AllOn, Met
        <4> QED
          BY <4>1 DEF InPlace, Entering, codeloc
      <3>3. stack[i].ret[1] # "entry"
        BY <1>1, <2>2, WalkIs DEF Stacked
      <3>4. stack[i].ret # walk.at
        BY <3>2, <3>3
      <3> QED
        BY <2>2, <2>3, <3>1, <3>4
    <2>6. CASE i # Len(stack)
      <3>1. i \in 1..Len(stack) - 1 /\ \A j \in 1..i : j \in 1..Len(stack)
        BY <1>2, <2>6
      <3>2. stack[i].traced
        BY <1>3, <2>4, <3>1, AllOnSays
      <3>3. First(i)
        BY <1>2, <2>3, <2>4, <3>1, FirstBefore
      <3>4. Waits(i) /\ stack[i].ret # walk.at
        BY <1>1, <3>2, <3>3 DEF TraceInv
      <3>5. Waits(i)'
        BY <1>2, <2>2, <2>3, <2>4, <3>1, <3>4, StillWaits
      <3> QED
        BY <2>2, <2>3, <3>4, <3>5
    <2> QED
      BY <2>5, <2>6
  <1>4. CASE UNCHANGED stack /\ mode' = "walk" /\ \E N, R : Steps(N, R) /\
               \A e \in R \cap DOMAIN bp : bp[e].type = "ALL_OFF" => bp[e].addr = walk.at
    <2>1. PICK N, R : Steps(N, R) /\
             \A e \in R \cap DOMAIN bp : bp[e].type = "ALL_OFF" => bp[e].addr = walk.at
      BY <1>4
    <2>2. Changes(N, R) /\ walk'.at = walk.at
      BY <2>1, StepsChange DEF Steps
    <2> QED
      BY <1>1, <1>2, <1>4, <2>1, <2>2, KeepsTraces
  <1>5. CASE UNCHANGED stack /\ mode' = "line" /\ \E N : Changes(N, {})
    BY <1>1, <1>2, <1>5, KeepsTraces
  <1>6. CASE mode' \notin {"line", "walk"}
    BY <1>6 DEF TraceInv
  <1>7. ASSUME Skip \/ StopOn \/ TermOn \/ BlockOn \/ CallEvent \/ StopBp
        PROVE  UNCHANGED stack /\ mode' = "walk" /\ \E N : Steps(N, {})
    <2>1. UNCHANGED stack /\ mode' = "walk"
      BY <1>1, <1>7 DEF Skip, StopOn, TermOn, BlockOn, CallEvent, StopBp
    <2>2. \E N : Steps(N, {})
      BY <1>7, SkipSays, StopOnSays, TermOnSays, BlockOnSays, CallEventSays, StopBpSays
    <2> QED
      BY <2>1, <2>2
  <1>8. ASSUME AllOff \/ StopOff \/ TermOff \/ ReturnEvent
        PROVE  UNCHANGED stack /\ Steps({}, {walk.p}) /\ bp[walk.p].addr = walk.at
               /\ mode' \in {"walk", "panic"}
    BY <1>1, <1>8, OffSays DEF AllOff, StopOff, TermOff, ReturnEvent, Met, ev
  <1>9. ASSUME BlockOff, mode' # "freed"
        PROVE  /\ UNCHANGED stack /\ mode' = "walk" /\ Steps({}, {walk.p, ev.old})
               /\ bp[walk.p].type = "BLOCK_OFF" /\ bp[ev.old].type = "CALL"
    BY <1>1, <1>9, BlockOffSays DEF BlockOff, Met, ev
  <1>10. ASSUME Walked
         PROVE  UNCHANGED stack /\ mode' = "line" /\ \E N : Changes(N, {})
    BY <1>10, WalkedList, PutsChange, TakesChange DEF Walked
  <1>11. EndBp => mode' = "none"
    BY DEF EndBp
  <1>12. CASE Skip \/ StopOn \/ TermOn \/ BlockOn \/ CallEvent \/ StopBp
    BY <1>4, <1>7, <1>12
  <1>13. CASE AllOff \/ StopOff \/ TermOff \/ ReturnEvent
    BY <1>4, <1>6, <1>8, <1>13
  <1>14. CASE BlockOff
    <2>1. CASE mode' = "freed"
      BY <1>6, <2>1
    <2>2. CASE mode' # "freed"
      <3>1. \A e \in {walk.p, ev.old} \cap DOMAIN bp : bp[e].type = "ALL_OFF" => bp[e].addr = walk.at
        BY <1>9, <1>14, <2>2
      <3> QED
        BY <1>4, <1>9, <1>14, <2>2, <3>1
    <2> QED
      BY <2>1, <2>2
  <1> QED
    BY <1>3, <1>5, <1>6, <1>10, <1>11, <1>12, <1>13, <1>14 DEF Walk

LEMMA StutterTraces ==
    ASSUME TraceInv, UNCHANGED vars
    PROVE  TraceInv'
  <1>1. UNCHANGED <<stack, bp, walk, mode>>
    BY DEF vars, list
  <1> QED
    BY <1>1 DEF TraceInv, Waits, First

LEMMA NextKeepsTraces ==
    ASSUME NoMutualRecursion, Deletable \subseteq SafeToDelete,
           ListInv, CountInv, StackInv, TraceInv, [Next]_vars
    PROVE  TraceInv'
  <1>1. CASE Command
    BY <1>1, CommandTraces
  <1>2. CASE Run
    BY <1>2, RunTraces
  <1>3. CASE \E g \in Func : Call(g)
    BY <1>3, CallTraces
  <1>4. CASE Return
    BY <1>4, ReturnTraces
  <1>5. CASE Finish
    BY <1>5, FinishTraces
  <1>6. CASE Walk
    BY <1>6, WalkTraces
  <1>7. CASE UNCHANGED vars
    BY <1>7, StutterTraces
  <1> QED
    BY <1>1, <1>2, <1>3, <1>4, <1>5, <1>6, <1>7 DEF Next

LEMMA InitTraces == ASSUME Init PROVE StackInv /\ TraceInv
  <1>1. Len(stack) = 0
    BY DEF Init
  <1> QED
    BY <1>1 DEF StackInv, TraceInv

LEMMA TraceInvSays == ListInv /\ CountInv /\ TraceInv => TracedInside
  <1> SUFFICES ASSUME ListInv, CountInv, TraceInv, mode = "line", NEW i \in 1..Len(stack),
                      stack[i].traced, First(i)
               PROVE  tracing > 0
    BY DEF TracedInside, First
  <1>1. Waits(i)
    BY DEF TraceInv
  <1> QED
    BY <1>1, WaitCounts DEF Waits

\* Tracing goes on for as long as the routine is active that it was first turned
\* on for, whatever it calls and however often it calls itself: AllOn makes ALL_OFF
\* for the return address of that activation (handlebp.c), and no activation on top
\* of it returns there.  That is so when no two routines call each other: bpact
\* knows an activation by its return address only.  The counter of unsigned short
\* does not wrap while fewer than 65535 events exist, and the user deletes none of
\* the events that it counts.
THEOREM TracedWhileInside ==
    ASSUME NoMutualRecursion, Deletable \subseteq SafeToDelete, MaxEvents < 65535
    PROVE  Spec => []TracedInside
  <1> DEFINE Inv == ListInv /\ CountInv /\ StackInv /\ TraceInv
  <1>1. Init => Inv
    BY InitList, InitCounts, InitTraces
  <1>2. Inv /\ [Next]_vars => Inv'
    <2>1. "CALL" \notin Deletable /\ FewEvents
      BY DEF SafeToDelete, FewEvents
    <2> QED
      BY <2>1, NextKeepsList, NextKeepsCounts, NextKeepsStack, NextKeepsTraces
  <1>3. Inv => TracedInside
    BY TraceInvSays
  <1> QED
    BY <1>1, <1>2, <1>3, PTL DEF Spec

-----------------------------------------------------------------------------
(***************************************************************************)
(* What turns something off is in the order in which the program returns.  *)
(***************************************************************************)

Offs == {"ALL_OFF", "STOP_OFF", "TERM_OFF"}
IsOff(e) == bp[e].type \in Offs

\* What is in front is of the same activation, or of one that returns earlier.
Nested(x, y) == \E i, j \in 1..Len(stack) :
                    j <= i /\ stack[j].ret = bp[y].addr /\ stack[i].ret = bp[x].addr

OrderInv ==
    /\ mode = "line" => \A x, y \in DOMAIN bp : IsOff(x) /\ IsOff(y) /\ InFront(x, y) => Nested(x, y)
    /\ mode = "walk" =>
          /\ \A x, y \in DOMAIN bp : IsOff(x) /\ IsOff(y) /\ InFront(x, y) =>
                /\ bp[x].addr # walk.at => Nested(x, y)
                /\ bp[y].addr = walk.at /\ y \in Left => bp[x].addr = walk.at
          /\ \A x \in DOMAIN bp : IsOff(x) /\ x \notin Left => bp[x].addr # walk.at

\* Nothing that turns something off is in front of what is met and does so.
LEMMA FirstOff ==
    ASSUME ListInv, OrderInv, mode = "walk", walk.p # 0, ev.addr = walk.at, ev.type \in Offs,
           NEW x \in DOMAIN bp, IsOff(x)
    PROVE  ~InFront(x, walk.p)
  <1>1. SUFFICES ASSUME InFront(x, walk.p) PROVE FALSE
    OBVIOUS
  <1>2. walk.p \in Left /\ walk.p \in DOMAIN bp /\ x \notin Left
    BY <1>1, MetIs
  <1>3. bp[x].addr # walk.at
    BY <1>2 DEF OrderInv
  <1>4. IsOff(walk.p) /\ bp[walk.p].addr = walk.at
    BY DEF IsOff, ev
  <1>5. bp[x].addr = walk.at
    BY <1>1, <1>2, <1>4 DEF OrderInv
  <1> QED
    BY <1>3, <1>5

LEMMA StaysNested ==
    ASSUME Len(stack') \in Nat, Len(stack) \in Nat, Len(stack) <= Len(stack'),
           \A i \in 1..Len(stack) : stack'[i].ret = stack[i].ret,
           NEW x \in DOMAIN bp \cap DOMAIN bp', Alike(bp'[x], bp[x]),
           NEW y \in DOMAIN bp \cap DOMAIN bp', Alike(bp'[y], bp[y]), Nested(x, y)
    PROVE  Nested(x, y)'
  <1>1. PICK i \in 1..Len(stack), j \in 1..Len(stack) :
           j <= i /\ stack[j].ret = bp[y].addr /\ stack[i].ret = bp[x].addr
    BY DEF Nested
  <1>2. i \in 1..Len(stack') /\ j \in 1..Len(stack')
    OBVIOUS
  <1>3. j <= i /\ stack'[j].ret = bp'[y].addr /\ stack'[i].ret = bp'[x].addr
    BY <1>1 DEF Alike
  <1> QED
    BY <1>2, <1>3 DEF Nested

\* The newest one is of the routine that runs.
LEMMA NewestNested ==
    ASSUME Len(stack) \in Nat, Len(stack) \in 1..Len(stack), NEW x, bp[x].addr = return_addr,
           NEW y, Active(y)
    PROVE  Nested(x, y)
  <1>1. PICK j \in 1..Len(stack) : stack[j].ret = bp[y].addr
    BY DEF Active
  <1>2. j <= Len(stack)
    OBVIOUS
  <1>3. stack[Len(stack)].ret = bp[x].addr
    BY DEF return_addr
  <1> QED
    BY <1>1, <1>2, <1>3 DEF Nested

LEMMA NewestPrime ==
    (Len(stack) \in Nat /\ Len(stack) \in 1..Len(stack))' =>
        \A x, y : (bp[x].addr = return_addr)' /\ Active(y)' => Nested(x, y)'
  <1> DEFINE P == Len(stack) \in Nat /\ Len(stack) \in 1..Len(stack) =>
                      \A x, y : bp[x].addr = return_addr /\ Active(y) => Nested(x, y)
  <1>1. P
    BY NewestNested
  <1>2. P'
    BY <1>1, PTL
  <1> QED
    BY <1>2

LEMMA CommandKeepsOrder ==
    ASSUME ListInv, OrderInv, AtPrompt, UNCHANGED <<stack, walk, mode>>, Evolves,
           \A x \in DOMAIN bp' \ DOMAIN bp : IsOff(x)' /\ mode = "line" =>
               \A y \in DOMAIN bp' : IsOff(y)' => Nested(x, y)'
    PROVE  OrderInv'
  <1>1. mode \in {"line", "none"} /\ mode' = mode
    BY DEF AtPrompt
  <1>2. SUFFICES ASSUME mode = "line", NEW x \in DOMAIN bp', NEW y \in DOMAIN bp',
                        IsOff(x)', IsOff(y)', InFront(x, y)'
                 PROVE  Nested(x, y)'
    BY <1>1 DEF OrderInv
  <1>3. CASE x \notin DOMAIN bp
    BY <1>2, <1>3
  <1>4. CASE x \in DOMAIN bp
    <2>1. y \in DOMAIN bp
      BY <1>2, <1>4 DEF Evolves
    <2>2. Alike(bp'[x], bp[x]) /\ Alike(bp'[y], bp[y]) /\ InFront(x, y)
      BY <1>2, <1>4, <2>1 DEF Evolves
    <2>3. IsOff(x) /\ IsOff(y)
      BY <1>2, <2>2 DEF IsOff, Alike
    <2>4. Nested(x, y)
      BY <1>2, <1>4, <2>1, <2>2, <2>3 DEF OrderInv
    <2>5. Len(stack) \in Nat
      BY <1>2, LineIs DEF TypeInv
    <2> QED
      BY <1>4, <2>1, <2>2, <2>4, <2>5, StaysNested
  <1> QED
    BY <1>3, <1>4

LEMMA StepOrder ==
    ASSUME ListInv, OrderInv, NEW N, NEW R, Steps(N, R), mode' \in {"walk", "panic"},
           \A x \in N : IsOff(x)' =>
               \A y \in DOMAIN bp' : IsOff(y)' => Nested(x, y)' /\ bp'[y].addr # walk.at,
           walk.p \in DOMAIN bp' /\ IsOff(walk.p) => bp[walk.p].addr # walk.at
    PROVE  OrderInv'
  <1>1. /\ mode = "walk" /\ walk.p # 0 /\ SameStack /\ walk'.at = walk.at /\ Evolves
        /\ \A x \in DOMAIN bp' : x \in DOMAIN bp \/ x \in N
        /\ Left' = (Left \ {walk.p}) \cap DOMAIN bp'
    BY DEF Steps
  <1>2. Len(stack') \in Nat /\ Len(stack) \in Nat /\ Len(stack) <= Len(stack')
        /\ \A i \in 1..Len(stack) : stack'[i].ret = stack[i].ret
    <2>1. TypeInv
      BY <1>1, LineIs
    <2> QED
      BY <1>1, <2>1 DEF SameStack, TypeInv
  <1>3. ASSUME NEW x \in DOMAIN bp', NEW y \in DOMAIN bp', IsOff(x)', IsOff(y)', InFront(x, y)'
        PROVE  /\ bp'[x].addr # walk.at => Nested(x, y)'
               /\ bp'[y].addr = walk.at /\ y \in Left' => bp'[x].addr = walk.at
    <2>1. CASE x \notin DOMAIN bp
      BY <1>1, <1>3, <2>1
    <2>2. CASE x \in DOMAIN bp
      <3>1. y \in DOMAIN bp
        BY <1>1, <1>3, <2>2 DEF Evolves
      <3>2. Alike(bp'[x], bp[x]) /\ Alike(bp'[y], bp[y]) /\ InFront(x, y)
        BY <1>1, <1>3, <2>2, <3>1 DEF Evolves
      <3>3. IsOff(x) /\ IsOff(y) /\ bp'[x].addr = bp[x].addr /\ bp'[y].addr = bp[y].addr
        BY <1>3, <3>2 DEF IsOff, Alike
      <3>4. /\ bp[x].addr # walk.at => Nested(x, y)
            /\ bp[y].addr = walk.at /\ y \in Left => bp[x].addr = walk.at
        BY <1>1, <2>2, <3>1, <3>2, <3>3 DEF OrderInv
      <3>5. Nested(x, y) => Nested(x, y)'
        BY <1>2, <1>3, <2>2, <3>1, <3>2, StaysNested
      <3> QED
        BY <1>1, <3>3, <3>4, <3>5
    <2> QED
      BY <2>1, <2>2
  <1>4. ASSUME NEW x \in DOMAIN bp', IsOff(x)', x \notin Left'
        PROVE  bp'[x].addr # walk.at
    <2>1. CASE x \notin DOMAIN bp
      BY <1>1, <1>4, <2>1
    <2>2. CASE x \in DOMAIN bp
      <3>1. Alike(bp'[x], bp[x])
        BY <1>1, <1>4, <2>2 DEF Evolves
      <3>2. IsOff(x) /\ bp'[x].addr = bp[x].addr
        BY <1>4, <3>1 DEF IsOff, Alike
      <3> QED
        BY <1>1, <1>4, <2>2, <3>2 DEF OrderInv
    <2> QED
      BY <2>1, <2>2
  <1> QED
    BY <1>1, <1>3, <1>4 DEF OrderInv

LEMMA CommandOrder ==
    ASSUME ~StaleCurfunc, "CALL" \notin Deletable, ListInv, ExitInv, OrderInv, Command
    PROVE  OrderInv'
  <1>0. AtPrompt /\ UNCHANGED <<stack, curfunc, walk, mode>>
    BY Zenon DEF Command, Trace, TraceIn, TraceVar, TraceCalls, StopIf, StopIn, Delete, MayAdd
  <1>1. ASSUME NEW c \in If("ALL_ON"), Trace(c) \/ \E f \in Where : TraceIn(f, c)
        PROVE  \E N : Puts(N) /\ \A e \in N : ~IsOff(e)'
    <2>1. c \in Cond \cup {None}
      BY DEF If
    <2>2. PICK f \in Func : /\ MayAdd /\ addbp(Bp(codeloc(f), "ALL_ON", f, c, None))
                            /\ UNCHANGED <<stack, curfunc, walk, mode>>
      BY <1>1, EventAssumption DEF Trace, TraceIn
    <2>3. PICK e : Puts({e}) /\ bp'[e].type = "ALL_ON"
      BY <2>1, <2>2, TraceList
    <2>4. \A x \in {e} : ~IsOff(x)'
      BY <2>3 DEF IsOff, Offs
    <2> QED
      BY <2>3, <2>4
  <1>2. ASSUME NEW f \in Where, NEW c \in If("TERM_ON"), TraceVar(f, c), curfunc # f
        PROVE  \E N : Puts(N) /\ \A e \in N : ~IsOff(e)'
    <2>1. PICK e : Puts({e}) /\ bp'[e].type = "TERM_ON"
      BY <1>2, TraceVarList
    <2>2. \A x \in {e} : ~IsOff(x)'
      BY <2>1 DEF IsOff, Offs
    <2> QED
      BY <2>1, <2>2
  <1>3. ASSUME NEW f \in Where, NEW g \in Func \ {Main}, NEW c \in If("BLOCK_ON"),
               TraceCalls(f, g, c)
        PROVE  \E N : Puts(N) /\ \A e \in N : ~IsOff(e)'
    <2>1. PICK N : Puts(N) /\ \A e \in N : bp'[e].type \in {"BLOCK_ON", "CALL"}
      BY <1>3, TraceCallsList
    <2>2. \A x \in N : ~IsOff(x)'
      BY <2>1 DEF IsOff, Offs
    <2> QED
      BY <2>1, <2>2
  <1>4. ASSUME NEW f \in Where, NEW c \in Cond, StopIf(f, c)
        PROVE  \E N : Puts(N) /\ \A e \in N : ~IsOff(e)'
    <2>1. PICK e : Puts({e}) /\ bp'[e].type = "STOP_ON"
      BY <1>4, StopIfList
    <2>2. \A x \in {e} : ~IsOff(x)'
      BY <2>1 DEF IsOff, Offs
    <2> QED
      BY <2>1, <2>2
  <1>5. ASSUME NEW f \in Where, NEW c \in If("STOP_BP"), StopIn(f, c)
        PROVE  \E N : Puts(N) /\ \A e \in N : ~IsOff(e)'
    <2>1. PICK e : Puts({e}) /\ bp'[e].type = "STOP_BP"
      BY <1>5, StopInList
    <2>2. \A x \in {e} : ~IsOff(x)'
      BY <2>1 DEF IsOff, Offs
    <2> QED
      BY <2>1, <2>2
  <1>6. ASSUME \E N : Puts(N) /\ \A e \in N : ~IsOff(e)'
        PROVE  OrderInv'
    <2>1. PICK N : Puts(N) /\ \A e \in N : ~IsOff(e)'
      BY <1>6
    <2> QED
      BY <1>0, <2>1, CommandKeepsOrder DEF Puts
  <1>7. ASSUME NEW e \in DOMAIN bp, Delete(e)
        PROVE  OrderInv'
    <2>1. Takes({e})
      BY <1>7, DeleteList
    <2> QED
      BY <1>0, <2>1, CommandKeepsOrder DEF Takes
  <1>8. ASSUME NEW f \in Where, NEW c \in If("TERM_ON"), TraceVar(f, c), curfunc = f
        PROVE  OrderInv'
    <2> DEFINE here == IF stack = <<>> THEN lastaddr ELSE return_addr
    <2>1. PICK e, d : /\ Puts({e, d}) /\ e # d /\ bp'[e].type = "TERM_ON"
                      /\ Alike(bp'[d], Bp(here, "TERM_OFF", f, c, f))
      BY <1>8, TraceVarList
    <2>2. Evolves /\ \A x \in DOMAIN bp' \ DOMAIN bp : x = e \/ x = d
      BY <2>1 DEF Puts
    <2>3. ~IsOff(e)'
      BY <2>1 DEF IsOff, Offs
    <2>4. ASSUME mode = "line", NEW y \in DOMAIN bp', IsOff(y)' PROVE Nested(d, y)'
      <3>1. TypeInv /\ Stacked /\ stack # <<>>
        BY <2>4, LineIs DEF Stacked
      <3>2. Len(stack) \in Nat /\ Len(stack) \in 1..Len(stack)
        BY <3>1, Returns DEF TypeInv
      <3>3. (Len(stack) \in Nat /\ Len(stack) \in 1..Len(stack))'
        BY <1>0, <3>2
      <3>4. (bp[d].addr = return_addr)'
        BY <1>0, <2>1, <3>1 DEF Alike, Bp, return_addr
      <3>5. Active(y)'
        <4>1. ExitInv'
          BY CommandExits
        <4>2. IsExit(y)' /\ mode' = "line"
          BY <1>0, <2>4 DEF IsOff, IsExit, Offs, Exits
        <4> QED
          BY <2>4, <4>1, <4>2 DEF ExitInv
      <3> QED
        BY <3>3, <3>4, <3>5, NewestPrime
    <2> QED
      BY <1>0, <2>2, <2>3, <2>4, CommandKeepsOrder
  <1> QED
    BY <1>1, <1>2, <1>3, <1>4, <1>5, <1>6, <1>7, <1>8 DEF Command

LEMMA RunOrder ==
    ASSUME ListInv, Run
    PROVE  OrderInv'
  <1>1. \A x \in DOMAIN bp' : bp'[x].type \in Temporary => bp'[x].type = "END_BP"
    BY RunList
  <1>2. \A x \in DOMAIN bp' : ~IsOff(x)'
    BY <1>1 DEF IsOff, Offs, Temporary
  <1> QED
    BY <1>2 DEF OrderInv

LEMMA WalkStarts ==
    ASSUME mode = "line", Takes({}), Left' = DOMAIN bp',
           \A x, y \in DOMAIN bp : IsOff(x) /\ IsOff(y) /\ InFront(x, y) =>
               /\ bp[x].addr # walk'.at => Nested(x, y)'
               /\ bp[y].addr = walk'.at => bp[x].addr = walk'.at,
           mode' = "walk"
    PROVE  OrderInv'
  <1>1. DOMAIN bp' = DOMAIN bp /\ Evolves
    BY DEF Takes
  <1>2. ASSUME NEW x \in DOMAIN bp', NEW y \in DOMAIN bp', IsOff(x)', IsOff(y)', InFront(x, y)'
        PROVE  /\ bp'[x].addr # walk'.at => Nested(x, y)'
               /\ bp'[y].addr = walk'.at => bp'[x].addr = walk'.at
    <2>1. Alike(bp'[x], bp[x]) /\ Alike(bp'[y], bp[y]) /\ InFront(x, y)
      BY <1>1, <1>2 DEF Evolves
    <2>2. IsOff(x) /\ IsOff(y) /\ bp'[x].addr = bp[x].addr /\ bp'[y].addr = bp[y].addr
      BY <1>2, <2>1 DEF IsOff, Alike
    <2> QED
      BY <1>1, <2>1, <2>2
  <1> QED
    BY <1>2 DEF OrderInv

LEMMA CallOrder ==
    ASSUME ListInv, OrderInv, NoMutualRecursion, StackInv, NEW g \in Func, Call(g)
    PROVE  OrderInv'
  <1>1. mode = "line" /\ walk'.at = codeloc(g) /\ mode' = "walk"
    BY DEF Call, bpact
  <1>2. Left' = DOMAIN bp' /\ Takes({})
    BY CallList
  <1>3. ASSUME NEW x \in DOMAIN bp, NEW y \in DOMAIN bp, IsOff(x), IsOff(y), InFront(x, y)
        PROVE  Nested(x, y)' /\ bp[y].addr # walk'.at
    <2>1. Nested(x, y)
      BY <1>1, <1>3 DEF OrderInv
    <2>2. x \in DOMAIN bp' /\ y \in DOMAIN bp' /\ Alike(bp'[x], bp[x]) /\ Alike(bp'[y], bp[y])
      BY <1>2, <1>3 DEF Takes, Evolves
    <2>3. Len(stack) \in Nat /\ Len(stack') \in Nat /\ Len(stack) <= Len(stack')
          /\ \A i \in 1..Len(stack) : stack'[i].ret = stack[i].ret
      BY CallStack
    <2>4. bp[y].addr[1] # "entry"
      <3>1. InPlace(bp[y])
        BY <1>1, <1>3, LineIs DEF GoodList, GoodEvents
      <3> QED
        BY <1>3, <3>1 DEF InPlace, IsOff, Offs, Entering
    <2>5. walk'.at[1] = "entry"
      BY <1>1 DEF codeloc
    <2> QED
      BY <1>3, <2>1, <2>2, <2>3, <2>4, <2>5, StaysNested
  <1> QED
    BY <1>1, <1>2, <1>3, WalkStarts

LEMMA ReturnOrder ==
    ASSUME ListInv, OrderInv, NoMutualRecursion, StackInv, Return
    PROVE  OrderInv'
  <1>1. mode = "line" /\ walk'.at = stack[Len(stack)].ret /\ mode' = "walk"
    BY DEF Return, bpact, return_addr
  <1>2. Left' = DOMAIN bp' /\ Takes({})
    BY ReturnList
  <1>3. /\ stack \in Seq(Frame) /\ Len(stack) \in Nat /\ Len(stack') = Len(stack) - 1
        /\ Len(stack) \in 1..Len(stack)
        /\ \A i \in 1..Len(stack') : stack'[i] = stack[i]
    BY ReturnStack
  <1>4. ASSUME NEW x \in DOMAIN bp, NEW y \in DOMAIN bp, IsOff(x), IsOff(y), InFront(x, y)
        PROVE  /\ bp[x].addr # walk'.at => Nested(x, y)'
               /\ bp[y].addr = walk'.at => bp[x].addr = walk'.at
    <2>1. PICK i \in 1..Len(stack), j \in 1..Len(stack) :
             j <= i /\ stack[j].ret = bp[y].addr /\ stack[i].ret = bp[x].addr
      <3>1. Nested(x, y)
        BY <1>1, <1>4 DEF OrderInv
      <3> QED
        BY <3>1 DEF Nested
    <2>2. bp'[x].addr = bp[x].addr /\ bp'[y].addr = bp[y].addr
      BY <1>2, <1>4 DEF Takes, Evolves, Alike
    <2>3. ASSUME bp[x].addr # walk'.at PROVE Nested(x, y)'
      <3>1. i # Len(stack)
        BY <1>1, <2>1, <2>3
      <3>2. i \in 1..Len(stack') /\ j \in 1..Len(stack')
        BY <1>3, <2>1, <3>1
      <3>3. stack'[j].ret = bp'[y].addr /\ stack'[i].ret = bp'[x].addr
        BY <1>3, <2>1, <2>2, <3>2
      <3> QED
        BY <2>1, <3>2, <3>3 DEF Nested
    <2>4. ASSUME bp[y].addr = walk'.at PROVE bp[x].addr = walk'.at
      <3>1. CASE j = Len(stack)
        <4>1. i = Len(stack)
          BY <1>3, <2>1, <3>1
        <4> QED
          BY <1>1, <2>1, <4>1
      <3>2. CASE j # Len(stack)
        <4>1. j < Len(stack) /\ i \in j..Len(stack)
          BY <1>3, <2>1, <3>2
        <4>2. stack[j].ret = stack[Len(stack)].ret
          BY <1>1, <2>1, <2>4
        <4>3. stack[i].ret = stack[j].ret
          BY <1>3, <4>1, <4>2, SameReturn
        <4> QED
          BY <1>1, <2>1, <4>2, <4>3
      <3> QED
        BY <3>1, <3>2
    <2> QED
      BY <2>3, <2>4
  <1> QED
    BY <1>1, <1>2, <1>4, WalkStarts

LEMMA FinishOrder ==
    ASSUME ListInv, OrderInv, Finish
    PROVE  OrderInv'
  <1>1. mode = "line" /\ Len(stack) = 1
    BY DEF Finish
  <1>2. CASE mode' = "none"
    BY <1>2 DEF OrderInv
  <1>3. CASE bpact(lastaddr) /\ UNCHANGED <<stack, list, conds, curfunc>>
    <2>1. mode' = "walk"
      BY <1>3 DEF bpact
    <2>2. Left' = DOMAIN bp' /\ Takes({})
      BY <2>1, FinishList
    <2>3. ASSUME NEW x \in DOMAIN bp, NEW y \in DOMAIN bp, IsOff(x), IsOff(y), InFront(x, y)
          PROVE  Nested(x, y)' /\ bp[x].addr = bp[y].addr
      <3>1. Nested(x, y)
        BY <1>1, <2>3 DEF OrderInv
      <3>2. \A i, j \in 1..Len(stack) : i = j
        BY <1>1
      <3>3. bp[x].addr = bp[y].addr
        BY <3>1, <3>2 DEF Nested
      <3>4. UNCHANGED <<stack, bp>>
        BY <1>3 DEF list
      <3> QED
        BY <3>1, <3>3, <3>4 DEF Nested
    <2> QED
      BY <1>1, <2>1, <2>2, <2>3, WalkStarts
  <1> QED
    BY <1>2, <1>3 DEF Finish

\* The exits that a step at the entry of a routine adds.
LEMMA OnOrder ==
    ASSUME ListInv, ListInv', ExitInv, ExitInv', OrderInv,
           Met("ALL_ON") \/ Met("STOP_ON") \/ Met("TERM_ON"), mode' = mode,
           NEW u \in Offs, NEW e, Steps({e}, {}), Alike(bp'[e], Off(u))
    PROVE  OrderInv'
  <1>1. mode = "walk" /\ walk.p # 0 /\ ev.addr = walk.at /\ ev.type \in Entering
    BY DEF Met, Entering
  <1>2. ev.block = Top /\ walk.at[1] = "entry"
    BY <1>1, EntryIs
  <1>3. TypeInv /\ Stacked /\ stack # <<>> /\ SameStack
    BY <1>1, WalkIs DEF Steps
  <1>4. bp'[e].addr = return_addr /\ return_addr' = return_addr
    BY <1>3, SameTop DEF Alike, Off, Bp
  <1>5. (Len(stack) \in Nat /\ Len(stack) \in 1..Len(stack))'
    <2>1. Len(stack) \in Nat /\ Len(stack) \in 1..Len(stack)
      BY <1>3, Returns DEF TypeInv
    <2> QED
      BY <1>3, <2>1 DEF SameStack
  <1>6. ASSUME NEW y \in DOMAIN bp', IsOff(y)' PROVE Nested(e, y)' /\ bp'[y].addr # walk.at
    <2>1. bp'[y].addr[1] # "entry"
      <3>1. InPlace(bp'[y])
        <4>1. GoodList(Now)'
          BY <1>1, GoodNext
        <4> QED
          BY <4>1 DEF GoodList, GoodEvents, Now
      <3> QED
        BY <1>6, <3>1 DEF InPlace, IsOff, Offs, Entering
    <2>2. bp'[y].addr # walk.at
      BY <1>2, <2>1
    <2>3. walk'.at = walk.at /\ mode' = "walk" /\ IsExit(y)'
      BY <1>1, <1>6 DEF Steps, IsOff, IsExit, Offs, Exits
    <2>4. Active(y)'
      BY <2>2, <2>3 DEF ExitInv
    <2> QED
      BY <1>4, <1>5, <2>2, <2>4, NewestPrime
  <1>7. ~IsOff(walk.p)
    BY DEF Met, IsOff, Offs, ev
  <1> QED
    BY <1>1, <1>6, <1>7, StepOrder

LEMMA WalkOrder ==
    ASSUME ListInv, ListInv', ExitInv, ExitInv', OrderInv, Walk
    PROVE  OrderInv'
  <1>1. mode = "walk"
    BY DEF Walk, Skip, AllOn, AllOff, StopOn, StopOff, TermOn, TermOff, BlockOn, BlockOff,
           CallEvent, ReturnEvent, StopBp, EndBp, Walked, Met
  <1>2. CASE AllOn
    <2>1. Met("ALL_ON") /\ mode' = mode
      BY <1>2 DEF AllOn
    <2>2. PICK e : Steps({e}, {}) /\ Alike(bp'[e], Off("ALL_OFF"))
      BY <1>2, AllOnSays
    <2>3. "ALL_OFF" \in Offs
      BY DEF Offs
    <2> QED
      BY <2>1, <2>2, <2>3, OnOrder
  <1>3. CASE StopOn
    <2>1. Met("STOP_ON") /\ mode' = mode
      BY <1>3 DEF StopOn
    <2>2. PICK e : Steps({e}, {}) /\ Alike(bp'[e], Off("STOP_OFF"))
      BY <1>3, StopOnSays
    <2>3. "STOP_OFF" \in Offs
      BY DEF Offs
    <2> QED
      BY <2>1, <2>2, <2>3, OnOrder
  <1>4. CASE TermOn
    <2>1. Met("TERM_ON") /\ mode' = mode
      BY <1>4 DEF TermOn
    <2>2. PICK e : Steps({e}, {}) /\ Alike(bp'[e], Off("TERM_OFF"))
      BY <1>4, TermOnSays
    <2>3. "TERM_OFF" \in Offs
      BY DEF Offs
    <2> QED
      BY <2>1, <2>2, <2>3, OnOrder
  <1>5. CASE Skip \/ BlockOn \/ CallEvent \/ StopBp
    <2>1. mode' = "walk"
      BY <1>1, <1>5 DEF Skip, BlockOn, CallEvent, StopBp
    <2>2. PICK N : Steps(N, {}) /\ \A e \in N : bp'[e].type \in {"CALL", "BLOCK_OFF"}
      <3>1. \A e \in {} : bp'[e].type \in {"CALL", "BLOCK_OFF"}
        OBVIOUS
      <3> QED
        BY <1>5, <3>1, SkipSays, BlockOnSays, CallEventSays, StopBpSays
    <2>3. \A x \in N : ~IsOff(x)'
      BY <2>2 DEF IsOff, Offs
    <2>4. IsOff(walk.p) => bp[walk.p].addr # walk.at
      BY <1>5 DEF Skip, BlockOn, CallEvent, StopBp, Met, ev, IsOff, Offs, isswitch
    <2> QED
      BY <2>1, <2>2, <2>3, <2>4, StepOrder
  <1>6. CASE AllOff \/ StopOff \/ TermOff \/ ReturnEvent
    <2>1. Steps({}, {walk.p})
      BY <1>6, OffSays
    <2>2. mode' \in {"walk", "panic"}
      BY <1>1, <1>6 DEF AllOff, StopOff, TermOff, ReturnEvent
    <2>3. walk.p \notin DOMAIN bp'
      BY <2>1 DEF Steps
    <2> QED
      BY <2>1, <2>2, <2>3, StepOrder
  <1>7. CASE BlockOff
    <2>1. CASE mode' = "freed"
      BY <2>1 DEF OrderInv
    <2>2. CASE mode' # "freed"
      <3>1. Steps({}, {walk.p, ev.old}) /\ mode' = "walk"
        BY <1>1, <1>7, <2>2, BlockOffSays DEF BlockOff
      <3>2. walk.p \notin DOMAIN bp'
        BY <3>1 DEF Steps
      <3> QED
        BY <3>1, <3>2, StepOrder
    <2> QED
      BY <2>1, <2>2
  <1>8. CASE EndBp
    BY <1>8 DEF EndBp, OrderInv
  <1>9. CASE Walked
    <2>1. mode' = "line" /\ UNCHANGED stack /\ Left = {}
      BY <1>9, WalkedList DEF Walked
    <2>2. Evolves /\ \A x \in DOMAIN bp' : IsOff(x)' => x \in DOMAIN bp
      <3>1. CASE walk.delayed
        <4>1. PICK e : Puts({e}) /\ Alike(bp'[e], Bp(return_addr, "RETURN", curfunc, None, None))
          BY <1>9, <3>1, WalkedList
        <4>2. ~IsOff(e)'
          BY <4>1 DEF Alike, Bp, IsOff, Offs
        <4> QED
          BY <4>1, <4>2 DEF Puts
      <3>2. CASE ~walk.delayed
        BY <1>9, <3>2, WalkedList DEF Takes
      <3> QED
        BY <3>1, <3>2
    <2>3. ASSUME NEW x \in DOMAIN bp', NEW y \in DOMAIN bp', IsOff(x)', IsOff(y)', InFront(x, y)'
          PROVE  Nested(x, y)'
      <3>1. /\ x \in DOMAIN bp /\ y \in DOMAIN bp
            /\ Alike(bp'[x], bp[x]) /\ Alike(bp'[y], bp[y]) /\ InFront(x, y)
        BY <2>2, <2>3 DEF Evolves
      <3>2. IsOff(x) /\ IsOff(y)
        BY <2>3, <3>1 DEF IsOff, Alike
      <3>3. bp[x].addr # walk.at
        BY <1>1, <2>1, <3>1, <3>2 DEF OrderInv
      <3>4. Nested(x, y)
        BY <1>1, <3>1, <3>2, <3>3 DEF OrderInv
      <3>5. Len(stack) \in Nat
        BY <1>1, LineIs DEF TypeInv
      <3> QED
        BY <2>1, <2>3, <3>1, <3>4, <3>5, StaysNested
    <2> QED
      BY <2>1, <2>3 DEF OrderInv
  <1> QED
    BY <1>2, <1>3, <1>4, <1>5, <1>6, <1>7, <1>8, <1>9 DEF Walk

LEMMA SameOrder ==
    ASSUME ListInv, UNCHANGED vars, mode # "freed"
    PROVE  Count' = Count /\ List' = List /\ Left' = Left /\ UNCHANGED <<bp, stack, walk, mode>>
  <1>0. /\ UNCHANGED <<stack, curfunc, walk, mode>> /\ UNCHANGED bp /\ UNCHANGED list
    BY DEF vars, list
  <1>1. GoodList(Now)
    BY LineIs
  <1>2. Count' = Count /\ List' = List
    BY <1>0, <1>1, ListSame
  <1>3. \A k : WalkAt(k)' <=> WalkAt(k)
    BY <1>0, <1>2 DEF WalkAt
  <1>4. \A k : Ahead(k)' = Ahead(k)
    BY <1>2 DEF Ahead
  <1>5. Left' = Left
    BY <1>0, <1>2, <1>3, <1>4 DEF Left
  <1> QED
    BY <1>0, <1>2, <1>5

LEMMA StutterOrder ==
    ASSUME ListInv, OrderInv, UNCHANGED vars
    PROVE  OrderInv'
  <1>1. CASE mode = "freed"
    BY <1>1 DEF OrderInv, vars
  <1>2. CASE mode # "freed"
    BY <1>2, SameOrder DEF OrderInv, IsOff, Nested, InFront, Precedes
  <1> QED
    BY <1>1, <1>2

LEMMA NextKeepsOrder ==
    ASSUME NoMutualRecursion, ~StaleCurfunc, "CALL" \notin Deletable,
           ListInv, ExitInv, StackInv, OrderInv, [Next]_vars
    PROVE  OrderInv'
  <1>0. ListInv' /\ ExitInv'
    BY NextKeepsList, NextKeepsExits
  <1>1. CASE Command
    BY <1>1, CommandOrder
  <1>2. CASE Run
    BY <1>2, RunOrder
  <1>3. CASE \E g \in Func : Call(g)
    BY <1>3, CallOrder
  <1>4. CASE Return
    BY <1>4, ReturnOrder
  <1>5. CASE Finish
    BY <1>5, FinishOrder
  <1>6. CASE Walk
    BY <1>0, <1>6, WalkOrder
  <1>7. CASE UNCHANGED vars
    BY <1>7, StutterOrder
  <1> QED
    BY <1>1, <1>2, <1>3, <1>4, <1>5, <1>6, <1>7 DEF Next

-----------------------------------------------------------------------------
(***************************************************************************)
(* The conditions and variables in force are those of the events.          *)
(***************************************************************************)

\* The events S of the list, in its order, stand for the first entries of l.
Row(n, s, S, key, l) ==
    \E m \in 0..Len(l) : \E v \in [1..m -> S] :
        /\ \A e \in S : \E i \in 1..m : v[i] = e
        /\ \A i, j \in 1..m : i < j => Precedes(n, s, v[i], v[j])
        /\ \A i \in 1..m : l[i] = key[v[i]]

LEMMA RowEmpty ==
    ASSUME NEW n, NEW s, NEW key, NEW T, NEW l \in Seq(T)
    PROVE  Row(n, s, {}, key, l)
  <1>1. 0 \in 0..Len(l) /\ 1..0 = {}
    OBVIOUS
  <1>2. [i \in 1..0 |-> 0] \in [1..0 -> {}]
    BY <1>1
  <1> DEFINE v == [i \in 1..0 |-> 0]
  <1>3. /\ v \in [1..0 -> {}]
        /\ \A e \in {} : \E i \in 1..0 : v[i] = e
        /\ \A i, j \in 1..0 : i < j => Precedes(n, s, v[i], v[j])
        /\ \A i \in 1..0 : l[i] = key[v[i]]
    BY <1>1, <1>2
  <1> HIDE DEF v
  <1> QED
    BY <1>1, <1>3 DEF Row

LEMMA RowSame ==
    ASSUME NEW n, NEW s, NEW S, NEW key, NEW l, Row(n, s, S, key, l),
           NEW n2, NEW s2, NEW key2, \A e \in S : key2[e] = key[e],
           \A x, y \in S : Precedes(n, s, x, y) => Precedes(n2, s2, x, y)
    PROVE  Row(n2, s2, S, key2, l)
  <1>0. PICK m \in 0..Len(l) : \E v \in [1..m -> S] :
            /\ \A e \in S : \E i \in 1..m : v[i] = e
            /\ \A i, j \in 1..m : i < j => Precedes(n, s, v[i], v[j])
            /\ \A i \in 1..m : l[i] = key[v[i]]
    BY DEF Row
  <1>1. PICK v \in [1..m -> S] :
            /\ \A e \in S : \E i \in 1..m : v[i] = e
            /\ \A i, j \in 1..m : i < j => Precedes(n, s, v[i], v[j])
            /\ \A i \in 1..m : l[i] = key[v[i]]
    BY <1>0
  <1>2. /\ \A e \in S : \E i \in 1..m : v[i] = e
        /\ \A i, j \in 1..m : i < j => Precedes(n2, s2, v[i], v[j])
        /\ \A i \in 1..m : l[i] = key2[v[i]]
    BY <1>1
  <1> QED
    BY <1>2 DEF Row

\* A new first event, with its entry.
LEMMA RowPush ==
    ASSUME NEW n, NEW s, NEW S, NEW key, NEW T, NEW l \in Seq(T), Row(n, s, S, key, l),
           NEW n2, NEW s2, NEW key2, \A e \in S : key2[e] = key[e],
           \A x, y \in S : Precedes(n, s, x, y) => Precedes(n2, s2, x, y),
           NEW d, \A y \in S : Precedes(n2, s2, d, y), key2[d] \in T
    PROVE  Row(n2, s2, S \cup {d}, key2, <<key2[d]>> \o l)
  <1>0. PICK m \in 0..Len(l) : \E v \in [1..m -> S] :
            /\ \A e \in S : \E i \in 1..m : v[i] = e
            /\ \A i, j \in 1..m : i < j => Precedes(n, s, v[i], v[j])
            /\ \A i \in 1..m : l[i] = key[v[i]]
    BY DEF Row
  <1>1. PICK v \in [1..m -> S] :
            /\ \A e \in S : \E i \in 1..m : v[i] = e
            /\ \A i, j \in 1..m : i < j => Precedes(n, s, v[i], v[j])
            /\ \A i \in 1..m : l[i] = key[v[i]]
    BY <1>0
  <1> DEFINE l2 == <<key2[d]>> \o l
             w == [i \in 1..m + 1 |-> IF i = 1 THEN d ELSE v[i - 1]]
  <1>2. /\ Len(l) \in Nat /\ Len(l2) = Len(l) + 1 /\ l2[1] = key2[d]
        /\ \A i \in 1..Len(l) : l2[i + 1] = l[i]
    OBVIOUS
  <1> HIDE DEF l2
  <1>3. m \in Nat /\ m + 1 \in 0..Len(l2)
    BY <1>2
  <1>4. \A i \in 1..m + 1 : i = 1 \/ (i - 1 \in 1..m /\ i - 1 \in 1..Len(l) /\ (i - 1) + 1 = i)
    BY <1>2, <1>3
  <1>5. 1 \in 1..m + 1 /\ \A i \in 1..m : i + 1 \in 1..m + 1 /\ (i + 1) - 1 = i /\ i + 1 # 1
    BY <1>3
  <1>6. w \in [1..m + 1 -> S \cup {d}]
    BY <1>4
  <1>7. w[1] = d /\ \A i \in 1..m : w[i + 1] = v[i]
    BY <1>5
  <1>8. \A i \in 1..m + 1 : i # 1 => w[i] = v[i - 1]
    OBVIOUS
  <1> HIDE DEF w
  <1>9. ASSUME NEW e \in S \cup {d} PROVE \E i \in 1..m + 1 : w[i] = e
    <2>1. CASE e = d
      BY <1>5, <1>7, <2>1
    <2>2. CASE e # d
      <3>1. PICK i \in 1..m : v[i] = e
        BY <1>1, <1>9, <2>2
      <3> QED
        BY <1>5, <1>7, <3>1
    <2> QED
      BY <2>1, <2>2
  <1>10. ASSUME NEW i \in 1..m + 1, NEW j \in 1..m + 1, i < j
         PROVE  Precedes(n2, s2, w[i], w[j])
    <2>1. j # 1 /\ j - 1 \in 1..m
      BY <1>4, <1>10
    <2>2. CASE i = 1
      BY <1>7, <1>8, <2>1, <2>2
    <2>3. CASE i # 1
      <3>1. i - 1 \in 1..m /\ i - 1 < j - 1
        BY <1>4, <1>10, <2>3
      <3>2. Precedes(n2, s2, v[i - 1], v[j - 1])
        BY <1>1, <2>1, <3>1
      <3> QED
        BY <1>8, <2>1, <2>3, <3>2
    <2> QED
      BY <2>2, <2>3
  <1>11. ASSUME NEW i \in 1..m + 1 PROVE l2[i] = key2[w[i]]
    <2>1. CASE i = 1
      BY <1>2, <1>7, <2>1
    <2>2. CASE i # 1
      <3>1. i - 1 \in 1..m /\ i - 1 \in 1..Len(l) /\ (i - 1) + 1 = i
        BY <1>4, <2>2
      <3>2. l2[i] = l[i - 1]
        BY <1>2, <3>1
      <3>3. l[i - 1] = key2[v[i - 1]]
        BY <1>1, <3>1
      <3> QED
        BY <1>8, <2>2, <3>2, <3>3
    <2> QED
      BY <2>1, <2>2
  <1>12. Row(n2, s2, S \cup {d}, key2, l2)
    BY <1>3, <1>6, <1>9, <1>10, <1>11 DEF Row
  <1> QED
    BY <1>12 DEF l2

LEMMA CutFirst ==
    ASSUME NEW T, NEW l \in Seq(T), Len(l) >= 1
    PROVE  Cut(l, l[1]) = SubSeq(l, 2, Len(l))
  <1> DEFINE P(i) == l[i] = l[1] /\ \A j \in 1..i - 1 : l[j] # l[1]
             c == CHOOSE i \in 1..Len(l) : P(i)
  <1>1. 1 \in 1..Len(l) /\ 1..1 - 1 = {}
    OBVIOUS
  <1>2. P(1)
    BY <1>1
  <1>3. c \in 1..Len(l) /\ P(c)
    BY <1>1, <1>2
  <1>4. c = 1
    <2>1. c # 1 => 1 \in 1..c - 1
      BY <1>3
    <2> QED
      BY <1>3, <2>1
  <1> HIDE DEF c
  <1>5. Cut(l, l[1]) = SubSeq(l, c + 1, Len(l))
    <2>1. \E i \in 1..Len(l) : l[i] = l[1]
      BY <1>1
    <2> QED
      BY <2>1 DEF Cut, c
  <1> QED
    BY <1>4, <1>5

LEMMA Rest ==
    ASSUME NEW T, NEW l \in Seq(T), Len(l) >= 1
    PROVE  /\ SubSeq(l, 2, Len(l)) \in Seq(T) /\ Len(SubSeq(l, 2, Len(l))) = Len(l) - 1
           /\ \A i \in 1..Len(l) - 1 : SubSeq(l, 2, Len(l))[i] = l[i + 1]
  <1>1. Len(l) \in Nat /\ 2 \in Int /\ \A i \in 2..Len(l) : l[i] \in T
    OBVIOUS
  <1>2. /\ SubSeq(l, 2, Len(l)) \in Seq(T)
        /\ Len(SubSeq(l, 2, Len(l))) = IF 2 <= Len(l) THEN Len(l) - 2 + 1 ELSE 0
        /\ \A i \in 1..Len(l) - 2 + 1 : SubSeq(l, 2, Len(l))[i] = l[2 + i - 1]
    BY <1>1, SubSeqProperties
  <1>3. Len(SubSeq(l, 2, Len(l))) = Len(l) - 1
    <2>1. Len(SubSeq(l, 2, Len(l))) = IF 2 <= Len(l) THEN Len(l) - 2 + 1 ELSE 0
      BY <1>2, Zenon
    <2>2. 2 <= Len(l) => Len(SubSeq(l, 2, Len(l))) = Len(l) - 2 + 1
      BY <2>1, Zenon
    <2>3. ~(2 <= Len(l)) => Len(SubSeq(l, 2, Len(l))) = 0
      BY <2>1, Zenon
    <2> DEFINE a == Len(SubSeq(l, 2, Len(l)))
               b == Len(l)
    <2>4. (2 <= b => a = b - 2 + 1) /\ (~(2 <= b) => a = 0) /\ b \in Nat /\ b >= 1
      BY <1>1, <2>2, <2>3
    <2> HIDE DEF a, b
    <2>5. a = b - 1
      BY <2>4
    <2> QED
      BY <2>5 DEF a, b
  <1>4. ASSUME NEW i \in 1..Len(l) - 1 PROVE SubSeq(l, 2, Len(l))[i] = l[i + 1]
    <2>1. i \in 1..Len(l) - 2 + 1 /\ 2 + i - 1 = i + 1
      BY <1>1
    <2>2. SubSeq(l, 2, Len(l))[i] = l[2 + i - 1]
      BY <1>2, <2>1
    <2> QED
      BY <2>1, <2>2
  <1> QED
    BY <1>2, <1>3, <1>4

\* The first event goes, with its entry.
LEMMA RowTake ==
    ASSUME NEW n, NEW s, NEW S, NEW key, NEW T, NEW l \in Seq(T), Row(n, s, S, key, l),
           NEW n2, NEW s2, NEW key2, NEW d \in S, \A e \in S \ {d} : key2[e] = key[e],
           \A x, y \in S \ {d} : Precedes(n, s, x, y) => Precedes(n2, s2, x, y),
           \A x \in S : ~Precedes(n, s, x, d)
    PROVE  /\ Len(l) >= 1 /\ l[1] = key[d]
           /\ Row(n2, s2, S \ {d}, key2, SubSeq(l, 2, Len(l)))
  <1>0. PICK m \in 0..Len(l) : \E v \in [1..m -> S] :
            /\ \A e \in S : \E i \in 1..m : v[i] = e
            /\ \A i, j \in 1..m : i < j => Precedes(n, s, v[i], v[j])
            /\ \A i \in 1..m : l[i] = key[v[i]]
    BY DEF Row
  <1>1. PICK v \in [1..m -> S] :
            /\ \A e \in S : \E i \in 1..m : v[i] = e
            /\ \A i, j \in 1..m : i < j => Precedes(n, s, v[i], v[j])
            /\ \A i \in 1..m : l[i] = key[v[i]]
    BY <1>0
  <1>2. PICK q \in 1..m : v[q] = d
    BY <1>1
  <1>3. m \in Nat /\ Len(l) \in Nat /\ m >= 1 /\ 1 \in 1..m /\ Len(l) >= 1
    BY <1>2
  <1>4. q = 1
    <2>1. q # 1 => 1 < q
      OBVIOUS
    <2> QED
      BY <1>1, <1>2, <1>3, <2>1
  <1>5. \A i \in 1..m : i # 1 => v[i] # d
    <2>1. SUFFICES ASSUME NEW i \in 1..m, i # 1, v[i] = d PROVE FALSE
      OBVIOUS
    <2>2. 1 < i
      BY <2>1
    <2> QED
      BY <1>1, <1>2, <1>3, <1>4, <2>1, <2>2
  <1>6. l[1] = key[d]
    BY <1>1, <1>2, <1>3, <1>4
  <1> DEFINE l2 == SubSeq(l, 2, Len(l))
             w == [i \in 1..m - 1 |-> v[i + 1]]
  <1>7. Len(l2) = Len(l) - 1 /\ \A i \in 1..Len(l) - 1 : l2[i] = l[i + 1]
    BY <1>3, Rest
  <1> HIDE DEF l2
  <1>8. m - 1 \in 0..Len(l2)
    BY <1>3, <1>7
  <1>9. \A i \in 1..m - 1 : i + 1 \in 1..m /\ i + 1 # 1 /\ i \in 1..Len(l) - 1
    BY <1>3
  <1>10. w \in [1..m - 1 -> S \ {d}] /\ \A i \in 1..m - 1 : w[i] = v[i + 1]
    BY <1>5, <1>9
  <1> HIDE DEF w
  <1>11. ASSUME NEW e \in S \ {d} PROVE \E i \in 1..m - 1 : w[i] = e
    <2>1. PICK i \in 1..m : v[i] = e
      BY <1>1
    <2>2. i # 1 /\ i - 1 \in 1..m - 1 /\ (i - 1) + 1 = i
      BY <1>2, <1>4, <1>11, <2>1
    <2>3. w[i - 1] = e
      BY <1>10, <2>1, <2>2
    <2> QED
      BY <2>2, <2>3
  <1>12. ASSUME NEW i \in 1..m - 1, NEW j \in 1..m - 1, i < j
         PROVE  Precedes(n2, s2, w[i], w[j])
    <2>1. i + 1 \in 1..m /\ j + 1 \in 1..m /\ i + 1 < j + 1
      BY <1>9, <1>12
    <2>2. Precedes(n, s, v[i + 1], v[j + 1])
      BY <1>1, <2>1
    <2> QED
      BY <1>10, <2>2
  <1>13. ASSUME NEW i \in 1..m - 1 PROVE l2[i] = key2[w[i]]
    <2>1. l2[i] = l[i + 1] /\ l[i + 1] = key[v[i + 1]]
      BY <1>1, <1>7, <1>9
    <2> QED
      BY <1>10, <2>1
  <1>14. Row(n2, s2, S \ {d}, key2, l2)
    BY <1>8, <1>10, <1>11, <1>12, <1>13 DEF Row
  <1> QED
    BY <1>3, <1>6, <1>14 DEF l2

\* The entries are pairs.
LEMMA NotLost ==
    ASSUME NEW A, NEW B, NEW l \in Seq(A \X B)
    PROVE  l # Lost
  <1>1. SUFFICES ASSUME l = Lost PROVE FALSE
    OBVIOUS
  <1>2. Len(l) = 1 /\ l[1] = << >>
    BY <1>1 DEF Lost
  <1>3. l[1] \in A \X B
    <2>1. \A i \in 1..Len(l) : l[i] \in A \X B
      OBVIOUS
    <2>2. 1 \in 1..Len(l)
      BY <1>2
    <2> QED
      BY <2>1, <2>2
  <1> QED
    BY <1>2, <1>3

\* The events that stand for an entry of cond_list, or of trinfo, and that entry.
Kinds == {"conds", "vars"}
Entered(t, x) == IF t = "conds" THEN x.type \in {"ALL_OFF", "STOP_OFF"} /\ x.cond # None
                 ELSE x.type = "TERM_OFF"
Entry(t, x) == IF t = "conds" THEN <<IF x.type = "ALL_OFF" THEN "TRPRINT" ELSE "TRSTOP", x.cond>>
               ELSE <<x.node, x.cond>>
Listed(t) == IF t = "conds" THEN cond_list ELSE trinfo

Pair == ({"TRPRINT", "TRSTOP"} \cup Func \cup {None}) \X (Cond \cup {None})
Entries(t) == { e \in DOMAIN bp : Entered(t, bp[e]) }
Keys(t) == [e \in Entries(t) |-> Entry(t, bp[e])]
RowOf(t) == Row(Count, List, Entries(t), Keys(t), Listed(t))

RowInv == mode # "freed" =>
    mode # "panic" /\ \A t \in Kinds : Listed(t) \in Seq(Pair) /\ RowOf(t)

LEMMA EntryOff == \A t \in Kinds, e \in DOMAIN bp : Entered(t, bp[e]) => IsOff(e)
  BY DEF Kinds, Entered, IsOff, Offs

LEMMA AlikeEntry ==
    ASSUME NEW t, NEW x, NEW y, Alike(x, y)
    PROVE  (Entered(t, x) <=> Entered(t, y)) /\ Entry(t, x) = Entry(t, y)
  BY DEF Alike, Entered, Entry

LEMMA EntriesChange ==
    ASSUME NEW N, NEW R, Changes(N, R), NEW t
    PROVE  /\ Entries(t)' = (Entries(t) \ R) \cup { e \in N : Entered(t, bp'[e]) }
           /\ \A e \in Entries(t) \ R : Keys(t)'[e] = Keys(t)[e]
           /\ \A e \in N : Entered(t, bp'[e]) => Keys(t)'[e] = Entry(t, bp'[e])
  <1>1. \A e \in DOMAIN bp' : \/ e \in N
                              \/ e \in DOMAIN bp /\ e \notin R /\ Alike(bp'[e], bp[e])
    BY DEF Changes
  <1>2. \A e \in DOMAIN bp \ R : e \in DOMAIN bp' /\ Alike(bp'[e], bp[e])
    BY DEF Changes
  <1>3. \A e \in N : e \in DOMAIN bp' /\ e \notin DOMAIN bp /\ e \notin R
    BY DEF Changes
  <1>4. \A e \in DOMAIN bp \ R : /\ Entered(t, bp'[e]) <=> Entered(t, bp[e])
                                 /\ Entry(t, bp'[e]) = Entry(t, bp[e])
    BY <1>2, AlikeEntry
  <1>5. Entries(t)' = { e \in DOMAIN bp' : Entered(t, bp'[e]) }
    BY DEF Entries, Entered
  <1>6. Entries(t)' = (Entries(t) \ R) \cup { e \in N : Entered(t, bp'[e]) }
    BY <1>1, <1>2, <1>3, <1>4, <1>5 DEF Entries
  <1>7. Keys(t)' = [e \in Entries(t)' |-> Entry(t, bp'[e])]
    BY DEF Keys, Entry
  <1>8. \A e \in Entries(t) \ R : Keys(t)'[e] = Keys(t)[e]
    <2>1. SUFFICES ASSUME NEW e \in Entries(t) \ R PROVE Keys(t)'[e] = Keys(t)[e]
      OBVIOUS
    <2>2. e \in Entries(t)' /\ e \in DOMAIN bp \ R
      BY <1>6 DEF Entries
    <2> QED
      BY <1>4, <1>7, <2>2 DEF Keys
  <1>9. \A e \in N : Entered(t, bp'[e]) => Keys(t)'[e] = Entry(t, bp'[e])
    BY <1>6, <1>7
  <1> QED
    BY <1>6, <1>8, <1>9

LEMMA RowPrime ==
    \A t : RowOf(t)' <=> Row(Count', List', Entries(t)', Keys(t)', Listed(t)')
  BY DEF RowOf, Row, Precedes

LEMMA OrderStays ==
    ASSUME NEW N, NEW R, Changes(N, R), Evolves, NEW t
    PROVE  /\ \A x, y \in Entries(t) \ R :
                  Precedes(Count, List, x, y) => Precedes(Count', List', x, y)
           /\ \A d \in N, y \in Entries(t) \ R : Precedes(Count', List', d, y)
  <1>1. Entries(t) \ R \subseteq DOMAIN bp \cap DOMAIN bp'
    BY DEF Changes, Entries
  <1>2. N \subseteq DOMAIN bp' \ DOMAIN bp
    BY DEF Changes
  <1>3. \A x, y : InFront(x, y)' <=> Precedes(Count', List', x, y)
    BY DEF InFront, Precedes
  <1> QED
    BY <1>1, <1>2, <1>3 DEF Evolves, InFront

LEMMA RowKeeps ==
    ASSUME NEW t, RowOf(t), NEW N, NEW R, Changes(N, R), Evolves,
           \A x \in N : ~Entered(t, bp'[x]), \A x \in R \cap DOMAIN bp : ~Entered(t, bp[x]),
           Listed(t)' = Listed(t)
    PROVE  RowOf(t)'
  <1>1. Entries(t) \ R = Entries(t)
    BY DEF Entries
  <1>2. Entries(t)' = Entries(t)
    <2>1. { e \in N : Entered(t, bp'[e]) } = {}
      OBVIOUS
    <2>2. Entries(t)' = (Entries(t) \ R) \cup { e \in N : Entered(t, bp'[e]) }
      BY EntriesChange
    <2> QED
      BY <1>1, <2>1, <2>2
  <1>3. \A e \in Entries(t) : Keys(t)'[e] = Keys(t)[e]
    BY <1>1, EntriesChange
  <1>4. \A x, y \in Entries(t) : Precedes(Count, List, x, y) => Precedes(Count', List', x, y)
    BY <1>1, OrderStays
  <1>5. Row(Count, List, Entries(t), Keys(t), Listed(t))
    BY DEF RowOf
  <1>6. Row(Count', List', Entries(t), Keys(t)', Listed(t))
    BY <1>3, <1>4, <1>5, RowSame
  <1> QED
    BY <1>2, <1>6, RowPrime

LEMMA RowAdds ==
    ASSUME NEW t, RowOf(t), Listed(t) \in Seq(Pair), NEW N, NEW d \in N, Changes(N, {}), Evolves,
           \A x \in N : x = d \/ ~Entered(t, bp'[x]),
           Entered(t, bp'[d]), Entry(t, bp'[d]) \in Pair,
           Listed(t)' = <<Entry(t, bp'[d])>> \o Listed(t)
    PROVE  RowOf(t)' /\ Listed(t)' \in Seq(Pair)
  <1>1. Entries(t)' = Entries(t) \cup {d}
    <2>1. { e \in N : Entered(t, bp'[e]) } = {d}
      OBVIOUS
    <2>2. Entries(t)' = (Entries(t) \ {}) \cup { e \in N : Entered(t, bp'[e]) }
      BY EntriesChange
    <2> QED
      BY <2>1, <2>2
  <1>2. /\ \A e \in Entries(t) \ {} : Keys(t)'[e] = Keys(t)[e]
        /\ Keys(t)'[d] = Entry(t, bp'[d])
    BY EntriesChange
  <1>3. /\ \A x, y \in Entries(t) \ {} : Precedes(Count, List, x, y) => Precedes(Count', List', x, y)
        /\ \A y \in Entries(t) \ {} : Precedes(Count', List', d, y)
    BY OrderStays
  <1>4. Row(Count, List, Entries(t), Keys(t), Listed(t))
    BY DEF RowOf
  <1>5. Row(Count', List', Entries(t) \cup {d}, Keys(t)', <<Keys(t)'[d]>> \o Listed(t))
    <2>1. /\ \A e \in Entries(t) : Keys(t)'[e] = Keys(t)[e]
          /\ \A x, y \in Entries(t) : Precedes(Count, List, x, y) => Precedes(Count', List', x, y)
          /\ \A y \in Entries(t) : Precedes(Count', List', d, y)
      BY <1>2, <1>3
    <2>2. Keys(t)'[d] \in Pair
      BY <1>2
    <2> QED
      BY <1>4, <2>1, <2>2, RowPush
  <1>6. RowOf(t)'
    BY <1>1, <1>2, <1>5, RowPrime
  <1>7. Listed(t)' \in Seq(Pair)
    OBVIOUS
  <1> QED
    BY <1>6, <1>7

LEMMA RowDrops ==
    ASSUME NEW t, RowOf(t), Listed(t) \in Seq(Pair), NEW d \in DOMAIN bp, Changes({}, {d}), Evolves,
           Entered(t, bp[d]), \A x \in Entries(t) : ~InFront(x, d),
           Listed(t)' = Cut(Listed(t), Entry(t, bp[d]))
    PROVE  /\ RowOf(t)' /\ Listed(t)' \in Seq(Pair) /\ Listed(t)' # Lost
           /\ Len(Listed(t)') = Len(Listed(t)) - 1
  <1>1. Entries(t)' = Entries(t) \ {d}
    <2>1. Entries(t)' = (Entries(t) \ {d}) \cup { e \in {} : Entered(t, bp'[e]) }
      BY EntriesChange
    <2> QED
      BY <2>1
  <1>2. d \in Entries(t) /\ Keys(t)[d] = Entry(t, bp[d])
    BY DEF Entries, Keys
  <1>3. \A e \in Entries(t) \ {d} : Keys(t)'[e] = Keys(t)[e]
    BY EntriesChange
  <1>4. \A x, y \in Entries(t) \ {d} : Precedes(Count, List, x, y) => Precedes(Count', List', x, y)
    BY OrderStays
  <1>5. \A x \in Entries(t) : ~Precedes(Count, List, x, d)
    BY DEF InFront
  <1>6. Row(Count, List, Entries(t), Keys(t), Listed(t))
    BY DEF RowOf
  <1>7. /\ Len(Listed(t)) >= 1 /\ Listed(t)[1] = Keys(t)[d]
        /\ Row(Count', List', Entries(t) \ {d}, Keys(t)', SubSeq(Listed(t), 2, Len(Listed(t))))
    <2> DEFINE S == Entries(t)
               K == Keys(t)
               K2 == Keys(t)'
               l == Listed(t)
               n2 == Count'
               s2 == List'
    <2>1. /\ l \in Seq(Pair) /\ Row(Count, List, S, K, l) /\ d \in S
          /\ \A e \in S \ {d} : K2[e] = K[e]
          /\ \A x, y \in S \ {d} : Precedes(Count, List, x, y) => Precedes(n2, s2, x, y)
          /\ \A x \in S : ~Precedes(Count, List, x, d)
      BY <1>2, <1>3, <1>4, <1>5, <1>6
    <2> HIDE DEF S, K, K2, l, n2, s2
    <2>2. /\ Len(l) >= 1 /\ l[1] = K[d]
          /\ Row(n2, s2, S \ {d}, K2, SubSeq(l, 2, Len(l)))
      BY <2>1, RowTake, ZenonT(120)
    <2> QED
      BY <2>2 DEF S, K, K2, l, n2, s2
  <1>8. Listed(t)' = SubSeq(Listed(t), 2, Len(Listed(t)))
    <2>1. Cut(Listed(t), Listed(t)[1]) = SubSeq(Listed(t), 2, Len(Listed(t)))
      BY <1>7, CutFirst
    <2> QED
      BY <1>2, <1>7, <2>1
  <1>9. RowOf(t)'
    BY <1>1, <1>7, <1>8, RowPrime
  <1>10. Listed(t)' \in Seq(Pair) /\ Len(Listed(t)') = Len(Listed(t)) - 1
    BY <1>7, <1>8, Rest
  <1>11. Listed(t)' # Lost
    BY <1>10, NotLost DEF Pair
  <1> QED
    BY <1>9, <1>10, <1>11

LEMMA ListedIs == Listed("conds") = cond_list /\ Listed("vars") = trinfo
  BY DEF Listed

LEMMA ListedNext ==
    Listed("conds")' = cond_list' /\ Listed("vars")' = trinfo'
  BY DEF Listed

\* Steps that leave both lists alone.
LEMMA BothKeep ==
    ASSUME RowInv, mode # "freed", NEW N, NEW R, Changes(N, R), Evolves,
           \A x \in N : ~IsOff(x)', \A x \in R \cap DOMAIN bp : ~IsOff(x),
           UNCHANGED <<cond_list, trinfo>>, mode' # "panic"
    PROVE  RowInv' /\ \A t \in Kinds : Listed(t)' = Listed(t)
  <1>1. ASSUME NEW t \in Kinds
        PROVE  RowOf(t)' /\ Listed(t)' = Listed(t) /\ Listed(t)' \in Seq(Pair)
    <2>1. Listed(t)' = Listed(t)
      BY ListedIs, ListedNext DEF Kinds
    <2>2. Listed(t) \in Seq(Pair) /\ RowOf(t)
      BY DEF RowInv
    <2>3. \A x \in N : ~Entered(t, bp'[x])
      BY DEF Kinds, Entered, IsOff, Offs
    <2>4. \A x \in R \cap DOMAIN bp : ~Entered(t, bp[x])
      BY DEF Kinds, Entered, IsOff, Offs
    <2>5. RowOf(t)'
      BY <2>1, <2>2, <2>3, <2>4, RowKeeps
    <2> QED
      BY <2>1, <2>2, <2>5
  <1> QED
    BY <1>1 DEF RowInv

\* Steps that put an event on the list and, if it has one, its entry.
LEMMA OneAdds ==
    ASSUME RowInv, mode # "freed", NEW t \in Kinds, NEW N, NEW d \in N, Changes(N, {}), Evolves,
           \A x \in N : x = d \/ ~IsOff(x)', \A u \in Kinds : Entered(u, bp'[d]) => u = t,
           \A u \in Kinds : u # t => Listed(u)' = Listed(u),
           Entered(t, bp'[d]) => /\ Entry(t, bp'[d]) \in Pair
                                 /\ Listed(t)' = <<Entry(t, bp'[d])>> \o Listed(t),
           ~Entered(t, bp'[d]) => Listed(t)' = Listed(t),
           mode' # "panic"
    PROVE  RowInv' /\ \A u \in Kinds : Len(Listed(u)') >= Len(Listed(u)) - 1
  <1>1. \A u \in Kinds : Listed(u) \in Seq(Pair) /\ RowOf(u)
    BY DEF RowInv
  <1>2. \A u \in Kinds : \A x \in N : x = d \/ ~Entered(u, bp'[x])
    BY DEF Kinds, Entered, IsOff, Offs
  <1>3. ASSUME NEW u \in Kinds, ~Entered(u, bp'[d]), Listed(u)' = Listed(u)
        PROVE  RowOf(u)' /\ Listed(u)' \in Seq(Pair) /\ Len(Listed(u)') >= Len(Listed(u)) - 1
    <2>1. \A x \in N : ~Entered(u, bp'[x])
      BY <1>2, <1>3
    <2>2. \A x \in {} \cap DOMAIN bp : ~Entered(u, bp[x])
      OBVIOUS
    <2>3. RowOf(u)'
      BY <1>1, <1>3, <2>1, <2>2, RowKeeps
    <2>4. Len(Listed(u)) \in Nat
      BY <1>1
    <2> QED
      BY <1>1, <1>3, <2>3, <2>4
  <1>4. CASE Entered(t, bp'[d])
    <2>1. RowOf(t)' /\ Listed(t)' \in Seq(Pair)
      BY <1>1, <1>2, <1>4, RowAdds
    <2>2. Len(Listed(t)') >= Len(Listed(t)) - 1
      <3> DEFINE l == Listed(t)
                 p == Entry(t, bp'[d])
      <3>1. l \in Seq(Pair) /\ p \in Pair /\ Listed(t)' = <<p>> \o l
        BY <1>1, <1>4
      <3> HIDE DEF l, p
      <3>2. Len(<<p>> \o l) = 1 + Len(l) /\ Len(l) \in Nat
        BY <3>1
      <3>3. Len(<<p>> \o l) >= Len(l) - 1
        BY <3>2
      <3> QED
        BY <3>1, <3>3 DEF l
    <2> QED
      BY <1>3, <2>1, <2>2 DEF RowInv
  <1>5. CASE ~Entered(t, bp'[d])
    BY <1>3, <1>5 DEF RowInv
  <1> QED
    BY <1>4, <1>5

\* Steps that take an event off the list and, if it has one, its entry.
LEMMA OneDrops ==
    ASSUME RowInv, mode # "freed", NEW t \in Kinds, NEW d \in DOMAIN bp, Changes({}, {d}), Evolves,
           \A x \in DOMAIN bp : IsOff(x) => ~InFront(x, d),
           \A u \in Kinds : Entered(u, bp[d]) => u = t,
           \A u \in Kinds : u # t => Listed(u)' = Listed(u),
           Entered(t, bp[d]) => Listed(t)' = Cut(Listed(t), Entry(t, bp[d])),
           ~Entered(t, bp[d]) => Listed(t)' = Listed(t),
           mode' = "panic" => Listed(t)' = Lost
    PROVE  RowInv' /\ \A u \in Kinds : Len(Listed(u)') >= Len(Listed(u)) - 1
  <1>1. \A u \in Kinds : Listed(u) \in Seq(Pair) /\ RowOf(u)
    BY DEF RowInv
  <1>2. ASSUME NEW u \in Kinds, ~Entered(u, bp[d]), Listed(u)' = Listed(u)
        PROVE  /\ RowOf(u)' /\ Listed(u)' \in Seq(Pair) /\ Len(Listed(u)') >= Len(Listed(u)) - 1
               /\ Listed(u)' # Lost
    <2>1. \A x \in {} : ~Entered(u, bp'[x])
      OBVIOUS
    <2>2. \A x \in {d} \cap DOMAIN bp : ~Entered(u, bp[x])
      BY <1>2
    <2>3. RowOf(u)'
      BY <1>1, <1>2, <2>1, <2>2, RowKeeps
    <2>4. Listed(u) \in Seq(Pair)
      BY <1>1
    <2>5. Len(Listed(u)) \in Nat
      BY <2>4
    <2>6. Listed(u) # Lost
      BY <2>4, NotLost DEF Pair
    <2> QED
      BY <1>2, <2>3, <2>4, <2>5, <2>6
  <1>3. CASE Entered(t, bp[d])
    <2>1. \A x \in Entries(t) : ~InFront(x, d)
      BY EntryOff DEF Entries
    <2>2. /\ RowOf(t)' /\ Listed(t)' \in Seq(Pair) /\ Listed(t)' # Lost
          /\ Len(Listed(t)') = Len(Listed(t)) - 1
      BY <1>1, <1>3, <2>1, RowDrops
    <2>3. Len(Listed(t)') >= Len(Listed(t)) - 1
      <3>1. Len(Listed(t)) \in Nat
        BY <1>1
      <3> QED
        BY <2>2, <3>1
    <2> QED
      BY <1>2, <2>2, <2>3 DEF RowInv
  <1>4. CASE ~Entered(t, bp[d])
    BY <1>2, <1>4 DEF RowInv
  <1> QED
    BY <1>3, <1>4

LEMMA SettledIs == Settled => Entries("conds") = {}
  BY DEF Settled, Entries, Entered

\* Commands that add a condition while no event waits to take one off.
LEMMA SettledAdds ==
    ASSUME RowInv, mode # "freed", Settled, NEW N, Changes(N, {}), Evolves,
           \A x \in N : ~IsOff(x)', trinfo' = trinfo, cond_list' \in Seq(Pair), mode' # "panic"
    PROVE  RowInv'
  <1>1. Entries("conds")' = {}
    <2>1. Entries("conds")' = (Entries("conds") \ {}) \cup { e \in N : Entered("conds", bp'[e]) }
      BY EntriesChange
    <2>2. \A e \in N : ~Entered("conds", bp'[e])
      BY DEF Entered, IsOff, Offs
    <2> QED
      BY <2>1, <2>2, SettledIs
  <1>2. Listed("conds")' \in Seq(Pair) /\ RowOf("conds")'
    <2>1. Row(Count', List', {}, Keys("conds")', cond_list')
      BY RowEmpty
    <2> QED
      BY <1>1, <2>1, RowPrime, ListedNext
  <1>3. Listed("vars")' \in Seq(Pair) /\ RowOf("vars")'
    <2>1. "vars" \in Kinds /\ Listed("vars")' = Listed("vars")
      BY ListedIs, ListedNext DEF Kinds
    <2>2. \A x \in N : ~Entered("vars", bp'[x])
      BY DEF Entered, IsOff, Offs
    <2>3. \A x \in {} \cap DOMAIN bp : ~Entered("vars", bp[x])
      OBVIOUS
    <2>4. Listed("vars") \in Seq(Pair) /\ RowOf("vars")
      BY <2>1 DEF RowInv
    <2> QED
      BY <2>1, <2>2, <2>3, <2>4, RowKeeps
  <1> QED
    BY <1>2, <1>3 DEF RowInv, Kinds

\* The user deletes neither what waits to turn something off nor a CALL.
NoOffDeleted == Deletable \cap (Offs \cup {"CALL"}) = {}

LEMMA EntryPair ==
    /\ \A c \in Cond : <<"TRPRINT", c>> \in Pair /\ <<"TRSTOP", c>> \in Pair
    /\ \A f \in Func \cup {None}, c \in Cond \cup {None} : <<f, c>> \in Pair
  BY DEF Pair

LEMMA CommandRows ==
    ASSUME ~LateConds, NoOffDeleted, ListInv, RowInv, Command
    PROVE  RowInv'
  <1>0. AtPrompt /\ UNCHANGED <<stack, curfunc, walk, mode>>
    BY Zenon DEF Command, Trace, TraceIn, TraceVar, TraceCalls, StopIf, StopIn, Delete, MayAdd
  <1>1. mode # "freed" /\ mode' # "panic" /\ cond_list \in Seq(Pair) /\ trinfo \in Seq(Pair)
    <2>1. mode # "freed" /\ mode' # "panic"
      BY <1>0 DEF AtPrompt
    <2>2. \A t \in Kinds : Listed(t) \in Seq(Pair)
      BY <2>1 DEF RowInv
    <2> QED
      BY <2>1, <2>2, ListedIs DEF Kinds
  <1>2. ASSUME NEW N, Puts(N), \A x \in N : ~IsOff(x)', UNCHANGED <<cond_list, trinfo>>
        PROVE  RowInv'
    <2>1. Changes(N, {}) /\ Evolves
      BY <1>2, PutsChange DEF Puts
    <2>2. \A x \in {} \cap DOMAIN bp : ~IsOff(x)
      OBVIOUS
    <2> QED
      BY <1>1, <1>2, <2>1, <2>2, BothKeep
  <1>3. ASSUME NEW c \in If("ALL_ON"), Trace(c) \/ \E f \in Where : TraceIn(f, c)
        PROVE  RowInv'
    <2>1. c \in Cond \cup {None}
      BY DEF If
    <2>2. PICK f \in Func : /\ MayAdd /\ addbp(Bp(codeloc(f), "ALL_ON", f, c, None))
                            /\ UNCHANGED <<stack, curfunc, walk, mode>>
      BY <1>3, EventAssumption DEF Trace, TraceIn
    <2>3. PICK e : Puts({e}) /\ bp'[e].type = "ALL_ON"
      BY <2>1, <2>2, TraceList
    <2>4. \A x \in {e} : ~IsOff(x)'
      BY <2>3 DEF IsOff, Offs
    <2>5. CASE UNCHANGED <<cond_list, trinfo>>
      BY <1>2, <2>3, <2>4, <2>5
    <2>6. CASE ~UNCHANGED <<cond_list, trinfo>>
      <3>1. /\ c # None => Settled
            /\ cond_list' = addcond(cond_list, "TRPRINT", c) /\ trinfo' = trinfo
        BY <1>3, <2>6 DEF Trace, TraceIn, conds
      <3>2. c # None /\ c \in Cond
        BY <2>1, <2>6, <3>1 DEF addcond
      <3>3. cond_list' \in Seq(Pair)
        <4>1. <<"TRPRINT", c>> \in Pair
          BY <3>2, EntryPair
        <4> QED
          BY <1>1, <3>1, <3>2, <4>1 DEF addcond
      <3>4. Changes({e}, {}) /\ Evolves
        BY <2>3, PutsChange DEF Puts
      <3> QED
        BY <1>1, <2>4, <3>1, <3>2, <3>3, <3>4, SettledAdds
    <2> QED
      BY <2>5, <2>6
  <1>4. ASSUME NEW f \in Where, NEW c \in If("TERM_ON"), TraceVar(f, c), curfunc # f
        PROVE  RowInv'
    <2>1. PICK e : Puts({e}) /\ bp'[e].type = "TERM_ON"
      BY <1>4, TraceVarList
    <2>2. \A x \in {e} : ~IsOff(x)'
      BY <2>1 DEF IsOff, Offs
    <2>3. UNCHANGED <<cond_list, trinfo>>
      BY <1>4 DEF TraceVar
    <2> QED
      BY <1>2, <2>1, <2>2, <2>3
  <1>5. ASSUME NEW f \in Where, NEW c \in If("TERM_ON"), TraceVar(f, c), curfunc = f
        PROVE  RowInv'
    <2> DEFINE here == IF stack = <<>> THEN lastaddr ELSE return_addr
    <2>1. PICK e, d : /\ Puts({e, d}) /\ e # d /\ bp'[e].type = "TERM_ON"
                      /\ Alike(bp'[d], Bp(here, "TERM_OFF", f, c, f))
      BY <1>5, TraceVarList
    <2>2. f \in Func /\ c \in Cond \cup {None}
      BY EventAssumption DEF If
    <2>3. bp'[d].type = "TERM_OFF" /\ Entry("vars", bp'[d]) = <<f, c>>
      BY <2>1 DEF Alike, Bp, Entry
    <2>4. Entered("vars", bp'[d]) /\ \A u \in Kinds : Entered(u, bp'[d]) => u = "vars"
      BY <2>3 DEF Entered, Kinds
    <2>5. <<f, c>> \in Pair
      BY <2>2, EntryPair
    <2>6. cond_list' = cond_list /\ trinfo' = <<<<f, c>>>> \o trinfo
      BY <1>5 DEF TraceVar, addvar
    <2>7. /\ Listed("vars")' = <<Entry("vars", bp'[d])>> \o Listed("vars")
          /\ \A u \in Kinds : u # "vars" => Listed(u)' = Listed(u)
      BY <2>3, <2>6, ListedIs, ListedNext DEF Kinds
    <2>8. PICK N : N = {e, d}
      OBVIOUS
    <2>9. Changes(N, {}) /\ Evolves /\ d \in N /\ "vars" \in Kinds
      BY <2>1, <2>8, PutsChange DEF Puts, Kinds
    <2>10. \A x \in N : x = d \/ ~IsOff(x)'
      BY <2>1, <2>8 DEF IsOff, Offs
    <2> QED
      BY <1>1, <2>3, <2>4, <2>5, <2>7, <2>9, <2>10, OneAdds
  <1>6. ASSUME NEW f \in Where, NEW g \in Func \ {Main}, NEW c \in If("BLOCK_ON"),
               TraceCalls(f, g, c)
        PROVE  RowInv'
    <2>1. PICK N : Puts(N) /\ \A e \in N : bp'[e].type \in {"BLOCK_ON", "CALL"}
      BY <1>6, TraceCallsList
    <2>2. \A x \in N : ~IsOff(x)'
      BY <2>1 DEF IsOff, Offs
    <2>3. UNCHANGED <<cond_list, trinfo>>
      BY <1>6 DEF TraceCalls, conds
    <2> QED
      BY <1>2, <2>1, <2>2, <2>3
  <1>7. ASSUME NEW f \in Where, NEW c \in Cond, StopIf(f, c)
        PROVE  RowInv'
    <2>1. PICK e : Puts({e}) /\ bp'[e].type = "STOP_ON"
      BY <1>7, StopIfList
    <2>2. \A x \in {e} : ~IsOff(x)'
      BY <2>1 DEF IsOff, Offs
    <2>3. Settled /\ cond_list' = addcond(cond_list, "TRSTOP", c) /\ trinfo' = trinfo
      BY <1>7 DEF StopIf
    <2>4. c # None
      BY EventAssumption
    <2>5. cond_list' \in Seq(Pair)
      <3>1. <<"TRSTOP", c>> \in Pair
        BY EntryPair
      <3> QED
        BY <1>1, <2>3, <2>4, <3>1 DEF addcond
    <2>6. Changes({e}, {}) /\ Evolves
      BY <2>1, PutsChange DEF Puts
    <2> QED
      BY <1>1, <2>2, <2>3, <2>5, <2>6, SettledAdds
  <1>8. ASSUME NEW f \in Where, NEW c \in If("STOP_BP"), StopIn(f, c)
        PROVE  RowInv'
    <2>1. PICK e : Puts({e}) /\ bp'[e].type = "STOP_BP"
      BY <1>8, StopInList
    <2>2. \A x \in {e} : ~IsOff(x)'
      BY <2>1 DEF IsOff, Offs
    <2>3. UNCHANGED <<cond_list, trinfo>>
      BY <1>8 DEF StopIn, conds
    <2> QED
      BY <1>2, <2>1, <2>2, <2>3
  <1>9. ASSUME NEW e \in DOMAIN bp, Delete(e)
        PROVE  RowInv'
    <2>1. "CALL" \notin Deletable /\ bp[e].type \notin Offs
      BY <1>9 DEF Delete, NoOffDeleted
    <2>2. Takes({e}) /\ UNCHANGED <<cond_list, trinfo>>
      BY <1>9, <2>1, DeleteList DEF Delete
    <2>3. Changes({}, {e}) /\ Evolves
      BY <2>2, TakesChange DEF Takes
    <2>4. /\ \A x \in {} : ~IsOff(x)'
          /\ \A x \in {e} \cap DOMAIN bp : ~IsOff(x)
      BY <2>1 DEF IsOff
    <2> QED
      BY <1>1, <2>2, <2>3, <2>4, BothKeep
  <1> QED
    BY <1>3, <1>4, <1>5, <1>6, <1>7, <1>8, <1>9 DEF Command

OwnOnly == \A u \in Kinds : Len(Listed(u)') >= Len(Listed(u)) - 1

LEMMA OwnOnlyIs == OwnOnly => /\ Len(cond_list') >= Len(cond_list) - 1
                              /\ Len(trinfo') >= Len(trinfo) - 1
  BY ListedIs, ListedNext DEF OwnOnly, Kinds

LEMMA SameOwn ==
    ASSUME RowInv, mode # "freed", UNCHANGED <<cond_list, trinfo>>
    PROVE  OwnOnly
  <1>1. \A u \in Kinds : Listed(u) \in Seq(Pair)
    BY DEF RowInv
  <1>2. \A u \in Kinds : Listed(u)' = Listed(u)
    BY ListedIs, ListedNext DEF Kinds
  <1>3. SUFFICES ASSUME NEW u \in Kinds PROVE Len(Listed(u)) >= Len(Listed(u)) - 1
    BY <1>2 DEF OwnOnly
  <1>4. Listed(u) \in Seq(Pair)
    BY <1>1
  <1>5. Len(Listed(u)) \in Nat
    BY <1>4
  <1> QED
    BY <1>5

\* What a step of the walk turns on, and off.
LEMMA OnRows ==
    ASSUME ListInv, RowInv, mode = "walk", walk.p # 0, mode' = mode,
           NEW u \in Offs, NEW e, Steps({e}, {}), Alike(bp'[e], Off(u)),
           IF u = "TERM_OFF"
           THEN cond_list' = cond_list /\ trinfo' = addvar(trinfo, ev.node, ev.cond)
           ELSE /\ trinfo' = trinfo
                /\ cond_list' = addcond(cond_list, IF u = "ALL_OFF" THEN "TRPRINT" ELSE "TRSTOP", ev.cond)
    PROVE  RowInv' /\ OwnOnly
  <1>1. /\ bp'[e].type = u /\ bp'[e].cond = ev.cond /\ bp'[e].node = ev.node
    BY DEF Alike, Off, Bp
  <1>2. ev.cond \in Cond \cup {None} /\ ev.node \in Func \cup {None}
    BY WalkIs DEF Here, Bpinfo
  <1>3. PICK N : N = {e}
    OBVIOUS
  <1>4. Changes(N, {}) /\ Evolves /\ e \in N /\ \A x \in N : x = e
    BY <1>3, StepsChange DEF Steps
  <1>5. "conds" \in Kinds /\ "vars" \in Kinds /\ \A t \in Kinds : t = "conds" \/ t = "vars"
    BY DEF Kinds
  <1>6. mode # "freed" /\ mode' # "panic"
    OBVIOUS
  <1>7. CASE u = "TERM_OFF"
    <2>1. Entered("vars", bp'[e]) /\ \A t \in Kinds : Entered(t, bp'[e]) => t = "vars"
      BY <1>1, <1>7 DEF Entered, Kinds
    <2>2. Entry("vars", bp'[e]) = <<ev.node, ev.cond>>
      BY <1>1 DEF Entry
    <2>3. <<ev.node, ev.cond>> \in Pair
      BY <1>2, EntryPair
    <2>4. /\ Listed("vars")' = <<Entry("vars", bp'[e])>> \o Listed("vars")
          /\ \A t \in Kinds : t # "vars" => Listed(t)' = Listed(t)
      BY <1>5, <1>7, <2>2, ListedIs, ListedNext DEF addvar
    <2> QED
      BY <1>4, <1>5, <1>6, <2>1, <2>2, <2>3, <2>4, OneAdds DEF OwnOnly
  <1>8. CASE u # "TERM_OFF"
    <2> DEFINE k == IF u = "ALL_OFF" THEN "TRPRINT" ELSE "TRSTOP"
    <2>1. /\ Entered("conds", bp'[e]) <=> ev.cond # None
          /\ \A t \in Kinds : Entered(t, bp'[e]) => t = "conds"
      BY <1>1, <1>8 DEF Entered, Kinds, Offs
    <2>2. Entry("conds", bp'[e]) = <<k, ev.cond>>
      BY <1>1, <1>8 DEF Entry, Offs
    <2>3. ev.cond # None => <<k, ev.cond>> \in Pair
      BY <1>2, EntryPair
    <2>4. /\ ev.cond # None => Listed("conds")' = <<Entry("conds", bp'[e])>> \o Listed("conds")
          /\ ev.cond = None => Listed("conds")' = Listed("conds")
          /\ \A t \in Kinds : t # "conds" => Listed(t)' = Listed(t)
      BY <1>5, <1>8, <2>2, ListedIs, ListedNext DEF addcond
    <2> HIDE DEF k
    <2> QED
      BY <1>4, <1>5, <1>6, <2>1, <2>2, <2>3, <2>4, OneAdds DEF OwnOnly
  <1> QED
    BY <1>7, <1>8

LEMMA OffRows ==
    ASSUME ListInv, OrderInv, RowInv, mode = "walk", walk.p # 0, ev.addr = walk.at, ev.type \in Offs,
           Steps({}, {walk.p}),
           IF ev.type = "TERM_OFF"
           THEN /\ cond_list' = cond_list /\ trinfo' = delvar(trinfo, ev.node, ev.cond)
                /\ mode' = "panic" => trinfo' = Lost
           ELSE /\ trinfo' = trinfo
                /\ cond_list' = delcond(cond_list,
                       IF ev.type = "ALL_OFF" THEN "TRPRINT" ELSE "TRSTOP", ev.cond)
                /\ mode' = "panic" => cond_list' = Lost
    PROVE  RowInv' /\ OwnOnly
  <1>1. \A x \in DOMAIN bp : IsOff(x) => ~InFront(x, walk.p)
    BY FirstOff
  <1>2. PICK d : d = walk.p
    OBVIOUS
  <1>3. /\ Changes({}, {d}) /\ Evolves /\ d \in DOMAIN bp /\ bp[d] = ev
        /\ \A x \in DOMAIN bp : IsOff(x) => ~InFront(x, d)
    BY <1>1, <1>2, StepsChange DEF Steps, ev
  <1>5. "conds" \in Kinds /\ "vars" \in Kinds /\ \A t \in Kinds : t = "conds" \/ t = "vars"
    BY DEF Kinds
  <1>6. mode # "freed"
    OBVIOUS
  <1>7. CASE ev.type = "TERM_OFF"
    <2>1. Entered("vars", bp[d]) /\ \A t \in Kinds : Entered(t, bp[d]) => t = "vars"
      BY <1>3, <1>7 DEF Entered, Kinds
    <2>2. Entry("vars", bp[d]) = <<ev.node, ev.cond>>
      BY <1>3 DEF Entry
    <2>3. /\ Listed("vars")' = Cut(Listed("vars"), Entry("vars", bp[d]))
          /\ \A t \in Kinds : t # "vars" => Listed(t)' = Listed(t)
          /\ mode' = "panic" => Listed("vars")' = Lost
      BY <1>5, <1>7, <2>2, ListedIs, ListedNext DEF delvar
    <2> QED
      BY <1>3, <1>5, <1>6, <2>1, <2>3, OneDrops DEF OwnOnly
  <1>8. CASE ev.type # "TERM_OFF"
    <2> DEFINE k == IF ev.type = "ALL_OFF" THEN "TRPRINT" ELSE "TRSTOP"
    <2>1. /\ Entered("conds", bp[d]) <=> ev.cond # None
          /\ \A t \in Kinds : Entered(t, bp[d]) => t = "conds"
      BY <1>3, <1>8 DEF Entered, Kinds, Offs
    <2>2. Entry("conds", bp[d]) = <<k, ev.cond>>
      BY <1>3, <1>8 DEF Entry, Offs
    <2>3. /\ ev.cond # None => Listed("conds")' = Cut(Listed("conds"), Entry("conds", bp[d]))
          /\ ev.cond = None => Listed("conds")' = Listed("conds")
          /\ \A t \in Kinds : t # "conds" => Listed(t)' = Listed(t)
          /\ mode' = "panic" => Listed("conds")' = Lost
      BY <1>5, <1>8, <2>2, ListedIs, ListedNext DEF delcond
    <2> HIDE DEF k
    <2> QED
      BY <1>3, <1>5, <1>6, <2>1, <2>3, OneDrops DEF OwnOnly
  <1> QED
    BY <1>7, <1>8

LEMMA WalkRows ==
    ASSUME ListInv, OrderInv, RowInv, Walk
    PROVE  RowInv' /\ OwnOnly
  <1>1. mode = "walk"
    BY DEF Walk, Skip, AllOn, AllOff, StopOn, StopOff, TermOn, TermOff, BlockOn, BlockOff,
           CallEvent, ReturnEvent, StopBp, EndBp, Walked, Met
  <1>2. CASE AllOn
    <2>1. /\ walk.p # 0 /\ mode' = mode /\ trinfo' = trinfo
          /\ cond_list' = addcond(cond_list, "TRPRINT", ev.cond)
      BY <1>2 DEF AllOn, Met
    <2>2. PICK e : Steps({e}, {}) /\ Alike(bp'[e], Off("ALL_OFF"))
      BY <1>2, AllOnSays
    <2>3. "ALL_OFF" \in Offs
      BY DEF Offs
    <2> QED
      BY <1>1, <2>1, <2>2, <2>3, OnRows
  <1>3. CASE StopOn
    <2>1. /\ walk.p # 0 /\ mode' = mode /\ trinfo' = trinfo
          /\ cond_list' = addcond(cond_list, "TRSTOP", ev.cond)
      BY <1>3 DEF StopOn, Met
    <2>2. PICK e : Steps({e}, {}) /\ Alike(bp'[e], Off("STOP_OFF"))
      BY <1>3, StopOnSays
    <2>3. "STOP_OFF" \in Offs
      BY DEF Offs
    <2> QED
      BY <1>1, <2>1, <2>2, <2>3, OnRows
  <1>4. CASE TermOn
    <2>1. /\ walk.p # 0 /\ mode' = mode /\ cond_list' = cond_list
          /\ trinfo' = addvar(trinfo, ev.node, ev.cond)
      BY <1>4 DEF TermOn, Met
    <2>2. PICK e : Steps({e}, {}) /\ Alike(bp'[e], Off("TERM_OFF"))
      BY <1>4, TermOnSays
    <2>3. "TERM_OFF" \in Offs
      BY DEF Offs
    <2> QED
      BY <1>1, <2>1, <2>2, <2>3, OnRows
  <1>5. CASE AllOff \/ StopOff \/ TermOff
    <2>1. Steps({}, {walk.p})
      BY <1>5, OffSays
    <2>2. walk.p # 0 /\ ev.addr = walk.at /\ ev.type \in Offs
      BY <1>5 DEF AllOff, StopOff, TermOff, Met, Offs
    <2>3. IF ev.type = "TERM_OFF"
          THEN /\ cond_list' = cond_list /\ trinfo' = delvar(trinfo, ev.node, ev.cond)
               /\ mode' = "panic" => trinfo' = Lost
          ELSE /\ trinfo' = trinfo
               /\ cond_list' = delcond(cond_list,
                      IF ev.type = "ALL_OFF" THEN "TRPRINT" ELSE "TRSTOP", ev.cond)
               /\ mode' = "panic" => cond_list' = Lost
      BY <1>1, <1>5 DEF AllOff, StopOff, TermOff, Met
    <2> QED
      BY <1>1, <2>1, <2>2, <2>3, OffRows
  <1>6. CASE Skip \/ BlockOn \/ CallEvent \/ StopBp
    <2>1. mode' = "walk" /\ UNCHANGED <<cond_list, trinfo>>
      BY <1>1, <1>6 DEF Skip, BlockOn, CallEvent, StopBp, conds
    <2>2. PICK N : Steps(N, {}) /\ \A e \in N : bp'[e].type \in {"CALL", "BLOCK_OFF"}
      <3>1. \A e \in {} : bp'[e].type \in {"CALL", "BLOCK_OFF"}
        OBVIOUS
      <3> QED
        BY <1>6, <3>1, SkipSays, BlockOnSays, CallEventSays, StopBpSays
    <2>3. \A x \in N : ~IsOff(x)'
      BY <2>2 DEF IsOff, Offs
    <2>4. Changes(N, {}) /\ Evolves /\ \A x \in {} \cap DOMAIN bp : ~IsOff(x)
      BY <2>2, StepsChange DEF Steps
    <2> QED
      BY <1>1, <2>1, <2>3, <2>4, BothKeep, SameOwn
  <1>7. CASE ReturnEvent
    <2>1. Steps({}, {walk.p}) /\ ev.type = "RETURN"
      BY <1>7, OffSays DEF ReturnEvent, Met
    <2>2. mode' = "walk" /\ UNCHANGED <<cond_list, trinfo>>
      BY <1>1, <1>7 DEF ReturnEvent, conds
    <2>3. \A x \in {walk.p} \cap DOMAIN bp : ~IsOff(x)
      BY <2>1 DEF IsOff, Offs, ev
    <2>4. Changes({}, {walk.p}) /\ Evolves /\ \A x \in {} : ~IsOff(x)'
      BY <2>1, StepsChange DEF Steps
    <2> QED
      BY <1>1, <2>2, <2>3, <2>4, BothKeep, SameOwn
  <1>8. CASE BlockOff
    <2>1. UNCHANGED <<cond_list, trinfo>>
      BY <1>8 DEF BlockOff, conds
    <2>2. CASE mode' = "freed"
      BY <1>1, <2>1, <2>2, SameOwn DEF RowInv
    <2>3. CASE mode' # "freed"
      <3>1. Steps({}, {walk.p, ev.old}) /\ mode' = "walk" /\ bp[ev.old].type = "CALL"
        BY <1>1, <1>8, <2>3, BlockOffSays DEF BlockOff
      <3>2. \A x \in {walk.p, ev.old} \cap DOMAIN bp : ~IsOff(x)
        BY <1>8, <3>1 DEF BlockOff, Met, IsOff, Offs, ev
      <3>3. Changes({}, {walk.p, ev.old}) /\ Evolves /\ \A x \in {} : ~IsOff(x)'
        BY <3>1, StepsChange DEF Steps
      <3> QED
        BY <1>1, <2>1, <3>1, <3>2, <3>3, BothKeep, SameOwn
    <2> QED
      BY <2>2, <2>3
  <1>9. CASE EndBp
    <2>1. UNCHANGED <<bp, list>> /\ UNCHANGED <<cond_list, trinfo>> /\ mode' = "none"
      BY <1>9 DEF EndBp, list, conds
    <2>2. Takes({})
      <3>1. GoodList(Now)
        BY <1>1, LineIs
      <3>2. Count' = Count /\ List' = List
        BY <2>1, <3>1, ListSame
      <3> QED
        BY <2>1, <3>1, <3>2, TakesNone
    <2>3. /\ Changes({}, {}) /\ Evolves /\ \A x \in {} : ~IsOff(x)'
          /\ \A x \in {} \cap DOMAIN bp : ~IsOff(x)
      BY <2>2, TakesChange DEF Takes
    <2> QED
      BY <1>1, <2>1, <2>3, BothKeep, SameOwn
  <1>10. CASE Walked
    <2>1. mode' = "line" /\ UNCHANGED <<cond_list, trinfo>>
      BY <1>10 DEF Walked, conds
    <2>2. PICK N : Puts(N) /\ \A x \in N : ~IsOff(x)'
      <3>1. CASE walk.delayed
        <4>1. PICK e : Puts({e}) /\ Alike(bp'[e], Bp(return_addr, "RETURN", curfunc, None, None))
          BY <1>10, <3>1, WalkedList
        <4>2. \A x \in {e} : ~IsOff(x)'
          BY <4>1 DEF Alike, Bp, IsOff, Offs
        <4> QED
          BY <4>1, <4>2
      <3>2. CASE ~walk.delayed
        <4>1. Takes({})
          BY <1>10, <3>2, WalkedList
        <4>2. Puts({}) /\ \A x \in {} : ~IsOff(x)'
          BY <4>1 DEF Takes, Puts
        <4> QED
          BY <4>2
      <3> QED
        BY <3>1, <3>2
    <2>3. Changes(N, {}) /\ Evolves /\ \A x \in {} \cap DOMAIN bp : ~IsOff(x)
      BY <2>2, PutsChange DEF Puts
    <2> QED
      BY <1>1, <2>1, <2>2, <2>3, BothKeep, SameOwn
  <1> QED
    BY <1>2, <1>3, <1>4, <1>5, <1>6, <1>7, <1>8, <1>9, <1>10 DEF Walk

LEMMA NothingRows ==
    ASSUME RowInv, mode # "freed", Takes({}), UNCHANGED <<cond_list, trinfo>>, mode' # "panic"
    PROVE  RowInv'
  <1>1. /\ Changes({}, {}) /\ Evolves /\ \A x \in {} : ~IsOff(x)'
        /\ \A x \in {} \cap DOMAIN bp : ~IsOff(x)
    BY TakesChange DEF Takes
  <1> QED
    BY <1>1, BothKeep

LEMMA MovesRows ==
    ASSUME ListInv, RowInv, (\E g \in Func : Call(g)) \/ Return \/ Finish
    PROVE  RowInv'
  <1>1. Takes({})
    BY CallList, ReturnList, FinishList
  <1>2. /\ mode = "line" /\ mode' \in {"walk", "none"} /\ UNCHANGED <<cond_list, trinfo>>
    BY DEF Call, Return, Finish, bpact, conds
  <1> QED
    BY <1>1, <1>2, NothingRows

LEMMA StutterRows ==
    ASSUME ListInv, RowInv, UNCHANGED vars
    PROVE  RowInv'
  <1>1. UNCHANGED <<cond_list, trinfo, mode>>
    BY DEF vars, conds
  <1>2. CASE mode = "freed"
    BY <1>1, <1>2 DEF RowInv
  <1>3. CASE mode # "freed"
    <2>1. Takes({})
      BY <1>3, SameOrder, TakesNone
    <2>2. mode # "panic"
      BY <1>3 DEF RowInv
    <2> QED
      BY <1>1, <1>3, <2>1, <2>2, NothingRows
  <1> QED
    BY <1>2, <1>3

\* Nothing is in force where no event waits to turn it off.
LEMMA NoRows ==
    ASSUME \A x \in DOMAIN bp' : ~IsOff(x)', cond_list' = <<>>, trinfo' = <<>>, mode' # "panic"
    PROVE  RowInv'
  <1>1. ASSUME NEW t \in Kinds
        PROVE  Listed(t)' \in Seq(Pair) /\ RowOf(t)'
    <2>1. Listed(t)' = <<>>
      BY ListedNext DEF Kinds
    <2>2. <<>> \in Seq(Pair)
      OBVIOUS
    <2>3. Entries(t)' = {}
      BY DEF Entries, Entered, Kinds, IsOff, Offs
    <2>4. Row(Count', List', {}, Keys(t)', <<>>)
      BY <2>2, RowEmpty
    <2> QED
      BY <2>1, <2>2, <2>3, <2>4, RowPrime
  <1> QED
    BY <1>1 DEF RowInv

LEMMA InitRows == ASSUME Init PROVE RowInv
  <1>1. ASSUME NEW t \in Kinds
        PROVE  Listed(t) \in Seq(Pair) /\ RowOf(t)
    <2>1. Listed(t) = <<>>
      BY ListedIs DEF Init, Kinds
    <2>2. <<>> \in Seq(Pair)
      OBVIOUS
    <2>3. Entries(t) = {}
      BY DEF Init, Entries
    <2>4. Row(Count, List, {}, Keys(t), <<>>)
      BY <2>2, RowEmpty
    <2> QED
      BY <2>1, <2>2, <2>3, <2>4 DEF RowOf
  <1> QED
    BY <1>1 DEF RowInv, Init

\* Of a row of elements, those among the first i of the list are the first of the row.
Passed(n, s, m, v, i, c) == c \in 0..m /\ \A q \in 1..m : q <= c <=> \E j \in 1..i : j <= n /\ s[j] = v[q]

LEMMA PassedSome ==
    ASSUME NEW n \in Nat, NEW s, \A j, k \in 1..n : s[j] = s[k] => j = k,
           NEW m \in Nat, NEW v, \A q, r \in 1..m : q < r => Precedes(n, s, v[q], v[r]),
           NEW i \in Nat
    PROVE  \E c : Passed(n, s, m, v, i, c)
  <1> DEFINE G(q) == \E j \in 1..i : j <= n /\ s[j] = v[q]
             B == { b \in 0..m : \A q \in 1..m : G(q) => q <= b }
  <1>1. B \in SUBSET Nat /\ m \in B
    OBVIOUS
  <1>2. PICK c \in B : \A b \in B : c <= b
    <2>1. B # {}
      BY <1>1
    <2> HIDE DEF B
    <2> QED
      BY <1>1, <2>1, Smallest
  <1>3. c \in 0..m /\ \A q \in 1..m : G(q) => q <= c
    BY <1>2
  <1>4. ASSUME NEW q \in 1..m, NEW r \in 1..m, q < r, G(r)
        PROVE  G(q)
    <2>1. PICK j \in 1..i : j <= n /\ s[j] = v[r]
      BY <1>4
    <2>2. PICK a \in 1..n, b \in 1..n : a < b /\ s[a] = v[q] /\ s[b] = v[r]
      <3>1. Precedes(n, s, v[q], v[r])
        BY <1>4
      <3> QED
        BY <3>1 DEF Precedes
    <2>3. j = b
      <3>1. j \in 1..n
        BY <2>1
      <3> QED
        BY <2>1, <2>2, <3>1
    <2>4. a \in 1..i /\ a <= n
      BY <2>2, <2>3
    <2> QED
      BY <2>2, <2>4
  <1>5. ASSUME c # 0 PROVE c \in 1..m /\ G(c)
    <2>1. c - 1 \in 0..m /\ c - 1 \notin B /\ c \in 1..m
      BY <1>2, <1>3, <1>5
    <2>2. PICK q \in 1..m : G(q) /\ ~(q <= c - 1)
      BY <2>1
    <2>3. q = c
      BY <1>3, <2>1, <2>2
    <2> QED
      BY <2>1, <2>2, <2>3
  <1>6. ASSUME NEW q \in 1..m, q <= c PROVE G(q)
    <2>1. c # 0
      BY <1>3, <1>6
    <2>2. c \in 1..m /\ G(c)
      BY <1>5, <2>1
    <2>3. q = c \/ q < c
      BY <1>6, <2>2
    <2> HIDE DEF G
    <2> QED
      BY <1>4, <2>2, <2>3
  <1> QED
    BY <1>3, <1>6 DEF Passed

LEMMA PassedOne ==
    ASSUME NEW n, NEW s, NEW m \in Nat, NEW v, NEW i, NEW c, NEW d,
           Passed(n, s, m, v, i, c), Passed(n, s, m, v, i, d)
    PROVE  c = d
  <1>1. c \in 0..m /\ d \in 0..m /\ \A q \in 1..m : q <= c <=> q <= d
    BY DEF Passed
  <1>2. c \in 1..m => c <= d
    BY <1>1
  <1>3. d \in 1..m => d <= c
    BY <1>1
  <1> QED
    BY <1>1, <1>2, <1>3

\* At first none; one more when the list comes to the next of the row, or the same.
LEMMA PassedNone ==
    ASSUME NEW n, NEW s, NEW m \in Nat, NEW v, NEW c, Passed(n, s, m, v, 0, c)
    PROVE  c = 0
  <1>1. c \in 0..m /\ \A q \in 1..m : ~(q <= c)
    BY DEF Passed
  <1> QED
    BY <1>1

LEMMA PassedSame ==
    ASSUME NEW n \in Nat, NEW s, NEW m \in Nat, NEW v, NEW i \in Nat, NEW c, NEW d,
           Passed(n, s, m, v, i, c), Passed(n, s, m, v, i + 1, d),
           i + 1 <= n => \A q \in 1..m : v[q] # s[i + 1]
    PROVE  c = d
  <1>1. \A q \in 1..m : (\E j \in 1..i + 1 : j <= n /\ s[j] = v[q]) <=> \E j \in 1..i : j <= n /\ s[j] = v[q]
    <2>1. \A j \in 1..i + 1 : j \in 1..i \/ j = i + 1
      OBVIOUS
    <2>2. \A j \in 1..i : j \in 1..i + 1
      OBVIOUS
    <2> QED
      BY <2>1, <2>2
  <1>2. Passed(n, s, m, v, i, d)
    BY <1>1 DEF Passed
  <1> QED
    BY <1>2, PassedOne

\* No element is in a row twice.
Distinct(n, s) == \A j, k \in 1..n : s[j] = s[k] => j = k

LEMMA PassedNext ==
    ASSUME NEW n \in Nat, NEW s, Distinct(n, s), NEW m \in Nat, NEW v, Distinct(m, v),
           NEW i \in Nat, NEW h, h = i + 1, h <= n, NEW q \in 1..m, v[q] = s[h],
           NEW c, NEW d, Passed(n, s, m, v, i, c), Passed(n, s, m, v, h, d)
    PROVE  q = c + 1 /\ d = c + 1
  <1>0. /\ \A j, k \in 1..n : s[j] = s[k] => j = k
        /\ \A r, k \in 1..m : v[r] = v[k] => r = k
    BY DEF Distinct
  <1> DEFINE G(r, k) == \E j \in 1..k : j <= n /\ s[j] = v[r]
  <1>1. c \in 0..m /\ d \in 0..m
    BY DEF Passed
  <1>2. \A r \in 1..m : r <= c <=> G(r, i)
    BY DEF Passed
  <1>3. \A r \in 1..m : r <= d <=> G(r, i + 1)
    BY DEF Passed
  <1>4. G(q, i + 1)
    <2>1. i + 1 \in 1..i + 1
      OBVIOUS
    <2> QED
      BY <2>1
  <1>5. ~G(q, i)
    <2>1. SUFFICES ASSUME NEW j \in 1..i, j <= n, s[j] = v[q] PROVE FALSE
      OBVIOUS
    <2>2. j \in 1..n /\ i + 1 \in 1..n /\ j # i + 1
      BY <2>1
    <2> QED
      BY <1>0, <2>1, <2>2
  <1>6. ASSUME NEW r \in 1..m, r # q PROVE G(r, i + 1) <=> G(r, i)
    <2>1. \A j \in 1..i + 1 : j \in 1..i \/ j = i + 1
      OBVIOUS
    <2>2. \A j \in 1..i : j \in 1..i + 1
      OBVIOUS
    <2>3. s[i + 1] # v[r]
      BY <1>0, <1>6
    <2> QED
      BY <2>1, <2>2, <2>3
  <1> HIDE DEF G
  <1>7. \A r \in 1..m : r # q => (r <= d <=> r <= c)
    BY <1>2, <1>3, <1>6
  <1>8. q <= d /\ ~(q <= c)
    BY <1>2, <1>3, <1>4, <1>5
  <1>9. c + 1 \in 1..m /\ d \in 1..m
    BY <1>1, <1>8
  <1>10. c + 1 = q
    <2>1. c + 1 <= d /\ ~(c + 1 <= c)
      BY <1>1, <1>8
    <2> QED
      BY <1>7, <1>9, <2>1
  <1>11. d = q
    <2>1. d <= d /\ ~(d <= c)
      BY <1>1, <1>8
    <2> QED
      BY <1>7, <1>9, <2>1
  <1> QED
    BY <1>10, <1>11

\* A list without its first c entries, and without one more.
Past(l, c) == SubSeq(l, c + 1, Len(l))

LEMMA PastMore ==
    ASSUME NEW T, NEW l \in Seq(T), NEW c \in Nat, c + 1 <= Len(l)
    PROVE  Cut(Past(l, c), l[c + 1]) = Past(l, c + 1)
  <1>1. Len(l) \in Nat /\ c + 1 \in 1..Len(l) /\ Len(l) \in c + 1..Len(l) /\ c + 1 \in Int
    OBVIOUS
  <1>2. Head(Past(l, c)) = l[c + 1] /\ Tail(Past(l, c)) = Past(l, c + 1)
    <2>1. /\ Head(SubSeq(l, c + 1, Len(l))) = l[c + 1]
          /\ Tail(SubSeq(l, c + 1, Len(l))) = SubSeq(l, (c + 1) + 1, Len(l))
      BY <1>1, HeadTailOfSubSeq
    <2> QED
      BY <2>1 DEF Past
  <1>3. Past(l, c) \in Seq(T) /\ Len(Past(l, c)) >= 1
    <2>1. \A i \in c + 1..Len(l) : l[i] \in T
      OBVIOUS
    <2>2. /\ SubSeq(l, c + 1, Len(l)) \in Seq(T)
          /\ Len(SubSeq(l, c + 1, Len(l))) = IF c + 1 <= Len(l) THEN Len(l) - (c + 1) + 1 ELSE 0
      BY <1>1, <2>1, SubSeqProperties
    <2>3. Len(SubSeq(l, c + 1, Len(l))) = Len(l) - (c + 1) + 1
      BY <2>2, Zenon
    <2> DEFINE a == Len(SubSeq(l, c + 1, Len(l)))
               b == Len(l)
    <2>4. a = b - (c + 1) + 1 /\ b \in Nat /\ c + 1 <= b
      BY <1>1, <2>3
    <2> HIDE DEF a, b
    <2>5. a >= 1
      BY <2>4
    <2> QED
      BY <2>2, <2>5 DEF Past, a
  <1>4. Past(l, c) # <<>>
    BY <1>3
  <1> DEFINE p == Past(l, c)
  <1>5. p \in Seq(T) /\ Len(p) >= 1 /\ p # <<>>
    BY <1>3, <1>4
  <1>6. Head(p) = l[c + 1] /\ Tail(p) = Past(l, c + 1)
    BY <1>2
  <1> HIDE DEF p
  <1>7. Head(p) = p[1]
    BY <1>5
  <1>8. Cut(p, p[1]) = SubSeq(p, 2, Len(p))
    BY <1>5, CutFirst
  <1>9. Tail(p) = SubSeq(p, 2, Len(p))
    BY <1>5, TailIsSubSeq
  <1> QED
    BY <1>6, <1>7, <1>8, <1>9 DEF p

LEMMA PastType ==
    ASSUME NEW T, NEW l \in Seq(T), NEW c \in Nat
    PROVE  Past(l, c) \in Seq(T) /\ Past(l, 0) = l
  <1>1. /\ c + 1 \in Int /\ Len(l) \in Int /\ 0 + 1 = 1
        /\ \A i \in c + 1..Len(l) : l[i] \in T
    OBVIOUS
  <1>2. SubSeq(l, c + 1, Len(l)) \in Seq(T)
    BY <1>1, SubSeqProperties
  <1>3. SubSeq(l, 1, Len(l)) = l
    BY SubSeqFull
  <1> QED
    BY <1>1, <1>2, <1>3 DEF Past

\* fixbps takes the entries of the events off, one event after the other.
Drop(t, x, l) == IF Entered(t, x) THEN Cut(l, Entry(t, x)) ELSE l
Drops(t, W) ==
    /\ W[0] = Listed(t)
    /\ \A i \in Nat : W[i + 1] = LET e == Nth[i] IN IF e # 0 THEN Drop(t, bp[e], W[i]) ELSE W[i]

Passing(n, s, m, v, c) == \A i \in Nat : Passed(n, s, m, v, i, c[i])

LEMMA PassedStep ==
    ASSUME NEW n \in Nat, NEW s, Distinct(n, s), NEW m \in Nat, NEW v, Distinct(m, v),
           NEW c, Passing(n, s, m, v, c)
    PROVE  \A i \in Nat :
               /\ \A q \in 1..m : i + 1 <= n /\ v[q] = s[i + 1] => q = c[i] + 1 /\ c[i + 1] = c[i] + 1
               /\ (i + 1 <= n => \A q \in 1..m : v[q] # s[i + 1]) => c[i + 1] = c[i]
  <1>1. SUFFICES ASSUME NEW i \in Nat
                 PROVE  /\ \A q \in 1..m : i + 1 <= n /\ v[q] = s[i + 1] =>
                              q = c[i] + 1 /\ c[i + 1] = c[i] + 1
                        /\ (i + 1 <= n => \A q \in 1..m : v[q] # s[i + 1]) => c[i + 1] = c[i]
    OBVIOUS
  <1>2. PICK h : h = i + 1
    OBVIOUS
  <1>3. Passed(n, s, m, v, i, c[i]) /\ Passed(n, s, m, v, h, c[h])
    BY <1>2 DEF Passing
  <1>4. ASSUME NEW q \in 1..m, h <= n, v[q] = s[h] PROVE q = c[i] + 1 /\ c[h] = c[i] + 1
    BY <1>2, <1>3, <1>4, PassedNext
  <1>5. ASSUME h <= n => \A q \in 1..m : v[q] # s[h] PROVE c[h] = c[i]
    <2>1. i + 1 <= n => \A q \in 1..m : v[q] # s[i + 1]
      BY <1>2, <1>5
    <2>2. Passed(n, s, m, v, i + 1, c[h])
      BY <1>2, <1>3
    <2> QED
      BY <1>3, <2>1, <2>2, PassedSame
  <1> QED
    BY <1>2, <1>4, <1>5

LEMMA DropsSeq ==
    ASSUME GoodList(Now), NEW t, Listed(t) \in Seq(Pair), RowOf(t)
    PROVE  \E W \in [Nat -> Seq(Pair)] : Drops(t, W)
  <1> DEFINE l == Listed(t)
             K == Keys(t)
             E == Entries(t)
  <1>0. /\ Linked(bp, bphead, Count, List) /\ DOMAIN bp \subseteq Event
        /\ Count \in Nat /\ \A j, k \in 1..Count : List[j] = List[k] => j = k
    BY GoodIs DEF GoodList, GoodEvents, Now, Linked
  <1>1. Nth = [i \in Nat |-> At(Count, List, i + 1)]
    BY <1>0, LinkedNth
  <1>2. PICK m : m \in 0..Len(l) /\ \E v : v \in [1..m -> E] /\
            /\ \A e \in E : \E i \in 1..m : v[i] = e
            /\ \A i, j \in 1..m : i < j => Precedes(Count, List, v[i], v[j])
            /\ \A i \in 1..m : l[i] = K[v[i]]
    BY DEF RowOf, Row
  <1>3. PICK v : v \in [1..m -> E] /\
            /\ \A e \in E : \E i \in 1..m : v[i] = e
            /\ \A i, j \in 1..m : i < j => Precedes(Count, List, v[i], v[j])
            /\ \A i \in 1..m : l[i] = K[v[i]]
    BY <1>2
  <1>4. m \in Nat /\ Len(l) \in Nat /\ m <= Len(l) /\ l \in Seq(Pair)
    BY <1>2
  <1>5. \A q, r \in 1..m : v[q] = v[r] => q = r
    <2>1. \A x : ~Precedes(Count, List, x, x)
      BY <1>0 DEF Precedes
    <2>2. \A q, r \in 1..m : q < r => v[q] # v[r]
      BY <1>3, <2>1
    <2>3. \A q, r \in 1..m : q # r => q < r \/ r < q
      OBVIOUS
    <2> QED
      BY <2>2, <2>3
  <1>6. \A e \in E : e \in DOMAIN bp /\ Entered(t, bp[e]) /\ K[e] = Entry(t, bp[e])
    BY DEF Entries, Keys
  <1>7. \A e \in DOMAIN bp : Entered(t, bp[e]) => e \in E
    BY DEF Entries
  <1> HIDE DEF l, K, E
  <1>8. PICK c : c \in [Nat -> 0..m] /\ \A i \in Nat : Passed(Count, List, m, v, i, c[i])
    <2> DEFINE C == [i \in Nat |-> CHOOSE k : Passed(Count, List, m, v, i, k)]
    <2>1. \A i \in Nat : \E k : Passed(Count, List, m, v, i, k)
      BY <1>0, <1>3, <1>4, PassedSome
    <2>2. \A i \in Nat : Passed(Count, List, m, v, i, C[i])
      BY <2>1
    <2>3. \A i \in Nat : C[i] \in 0..m
      BY <2>2 DEF Passed
    <2>4. C \in [Nat -> 0..m]
      BY <2>3
    <2> QED
      BY <2>2, <2>4
  <1>12. \A i \in Nat :
            /\ \A q \in 1..m : i + 1 <= Count /\ v[q] = List[i + 1] =>
                   q = c[i] + 1 /\ c[i + 1] = c[i] + 1
            /\ (i + 1 <= Count => \A q \in 1..m : v[q] # List[i + 1]) => c[i + 1] = c[i]
    <2>1. Distinct(Count, List) /\ Distinct(m, v) /\ Passing(Count, List, m, v, c)
      BY <1>0, <1>5, <1>8 DEF Distinct, Passing
    <2>2. Count \in Nat /\ m \in Nat
      BY <1>0, <1>4
    <2> QED
      BY <2>1, <2>2, PassedStep
  <1> DEFINE W == [i \in Nat |-> Past(l, c[i])]
  <1>9. W \in [Nat -> Seq(Pair)]
    <2>1. \A i \in Nat : c[i] \in Nat
      <3>1. 0..m \subseteq Nat
        BY <1>4
      <3> QED
        BY <1>8, <3>1
    <2> QED
      BY <1>4, <2>1, PastType
  <1>10. W[0] = l
    <2>1. c[0] = 0
      BY <1>4, <1>8, PassedNone
    <2> QED
      BY <1>4, <2>1, PastType
  <1>11. ASSUME NEW i \in Nat
         PROVE  W[i + 1] = IF Nth[i] # 0 THEN Drop(t, bp[Nth[i]], W[i]) ELSE W[i]
    <2>0. i + 1 \in Nat /\ W[i] = Past(l, c[i]) /\ W[i + 1] = Past(l, c[i + 1])
      OBVIOUS
    <2>1. Nth[i] = At(Count, List, i + 1)
      BY <1>1
    <2>2. /\ \A q \in 1..m : i + 1 <= Count /\ v[q] = List[i + 1] =>
                q = c[i] + 1 /\ c[i + 1] = c[i] + 1
          /\ (i + 1 <= Count => \A q \in 1..m : v[q] # List[i + 1]) => c[i + 1] = c[i]
          /\ c[i] \in 0..m
      BY <1>8, <1>12
    <2> HIDE DEF W
    <2>3. CASE i + 1 <= Count
      <3> DEFINE e == List[i + 1]
      <3>1. i + 1 \in 1..Count /\ e \in DOMAIN bp /\ Nth[i] = e
        BY <1>0, <2>1, <2>3 DEF Linked, At
      <3>2. e # 0
        <4>1. e \in Event /\ MaxEvents \in Nat
          BY <1>0, <3>1, EventAssumption
        <4> HIDE DEF e
        <4> QED
          BY <4>1 DEF Event
      <3> HIDE DEF e
      <3>3. CASE Entered(t, bp[e])
        <4>1. PICK q \in 1..m : v[q] = e
          BY <1>3, <1>7, <3>1, <3>3
        <4>2. q = c[i] + 1 /\ c[i + 1] = c[i] + 1
          BY <2>2, <2>3, <4>1 DEF e
        <4>3. l[q] = Entry(t, bp[e])
          BY <1>3, <1>6, <1>7, <3>1, <3>3, <4>1
        <4>4. c[i] \in Nat /\ c[i] + 1 <= Len(l)
          BY <1>4, <2>2, <4>2
        <4>5. Cut(Past(l, c[i]), l[c[i] + 1]) = Past(l, c[i] + 1)
          BY <1>4, <4>4, PastMore
        <4> QED
          BY <2>0, <3>1, <3>2, <3>3, <4>2, <4>3, <4>5 DEF Drop
      <3>4. CASE ~Entered(t, bp[e])
        <4>1. \A q \in 1..m : v[q] # e
          BY <1>3, <1>6, <3>4
        <4>2. c[i] = c[i + 1]
          BY <2>2, <4>1 DEF e
        <4> QED
          BY <2>0, <3>1, <3>2, <3>4, <4>2 DEF Drop
      <3> QED
        BY <3>3, <3>4
    <2>4. CASE ~(i + 1 <= Count)
      <3>1. Nth[i] = 0
        BY <1>0, <2>1, <2>4 DEF At
      <3>2. c[i] = c[i + 1]
        BY <2>2, <2>4
      <3> QED
        BY <2>0, <3>1, <3>2
    <2> QED
      BY <2>3, <2>4
  <1> HIDE DEF W
  <1>13. Drops(t, W)
    BY <1>10, <1>11 DEF Drops, l
  <1> QED
    BY <1>9, <1>13

LEMMA DropsOne ==
    ASSUME NEW t, NEW V, NEW W, Drops(t, V), Drops(t, W)
    PROVE  \A i \in Nat : V[i] = W[i]
  <1> DEFINE Bad == { i \in Nat : V[i] # W[i] }
  <1>1. SUFFICES ASSUME Bad # {} PROVE FALSE
    OBVIOUS
  <1>2. PICK i \in Bad : \A k \in Bad : i <= k
    <2>1. Bad \in SUBSET Nat
      OBVIOUS
    <2> HIDE DEF Bad
    <2> QED
      BY <1>1, <2>1, Smallest
  <1>3. i \in Nat /\ V[i] # W[i]
    BY <1>2
  <1>4. i # 0
    BY <1>3 DEF Drops
  <1>5. PICK k \in Nat : i = k + 1
    <2>1. i - 1 \in Nat /\ i = (i - 1) + 1
      BY <1>3, <1>4
    <2> QED
      BY <2>1
  <1>6. V[k] = W[k]
    BY <1>2, <1>5
  <1>7. V[k + 1] = W[k + 1]
    BY <1>6 DEF Drops
  <1> QED
    BY <1>3, <1>5, <1>7

\* What fixbps does with an event, in the words of CondsLeft and VarsLeft.
LEMMA DropIs ==
    /\ \A x, l : Drop("conds", x, l) =
           IF x.type \in {"ALL_OFF", "STOP_OFF"}
           THEN delcond(l, IF x.type = "ALL_OFF" THEN "TRPRINT" ELSE "TRSTOP", x.cond) ELSE l
    /\ \A x, l : Drop("vars", x, l) = IF x.type = "TERM_OFF" THEN delvar(l, x.node, x.cond) ELSE l
  BY DEF Drop, Entered, Entry, delcond, delvar

LEMMA CondsLeftIs ==
    ASSUME NEW W \in [Nat -> Seq(Pair)], Drops("conds", W)
    PROVE  \A i \in Nat : CondsLeft[i] = W[i]
  <1> DEFINE after(l, e) == IF e # 0 /\ bp[e].type \in {"ALL_OFF", "STOP_OFF"}
                            THEN delcond(l, IF bp[e].type = "ALL_OFF" THEN "TRPRINT" ELSE "TRSTOP",
                                         bp[e].cond)
                            ELSE l
             body(f, i) == IF i = 0 THEN cond_list ELSE after(f[i - 1], Nth[i - 1])
  <1>0. \A l, e : (IF e # 0 THEN Drop("conds", bp[e], l) ELSE l) = after(l, e)
    BY DropIs
  <1> HIDE DEF after
  <1>1. \A i \in Nat : W[i] = body(W, i)
    <2>1. SUFFICES ASSUME NEW i \in Nat PROVE W[i] = body(W, i)
      OBVIOUS
    <2>2. CASE i = 0
      BY <2>2, ListedIs DEF Drops
    <2>3. CASE i # 0
      <3>1. PICK k \in Nat : i = k + 1 /\ k = i - 1
        <4>1. i - 1 \in Nat /\ i = (i - 1) + 1
          BY <2>3
        <4> QED
          BY <4>1
      <3>2. W[k + 1] = IF Nth[k] # 0 THEN Drop("conds", bp[Nth[k]], W[k]) ELSE W[k]
        BY DEF Drops
      <3>3. W[k + 1] = after(W[k], Nth[k])
        BY <1>0, <3>2, Zenon
      <3> QED
        BY <2>3, <3>1, <3>3
    <2> QED
      BY <2>2, <2>3
  <1>2. W = [i \in Nat |-> body(W, i)]
    BY <1>1
  <1>3. CondsLeft = [i \in Nat |-> body(CondsLeft, i)]
    BY <1>2, Zenon DEF CondsLeft, after
  <1>4. \A i \in Nat : CondsLeft[i] = body(CondsLeft, i)
    BY <1>3, Zenon
  <1>5. Drops("conds", CondsLeft)
    <2>1. CondsLeft[0] = Listed("conds")
      BY <1>4, ListedIs
    <2>2. ASSUME NEW i \in Nat
          PROVE  CondsLeft[i + 1] =
                     IF Nth[i] # 0 THEN Drop("conds", bp[Nth[i]], CondsLeft[i]) ELSE CondsLeft[i]
      <3>1. i + 1 \in Nat /\ i + 1 # 0 /\ (i + 1) - 1 = i
        OBVIOUS
      <3>2. CondsLeft[i + 1] = after(CondsLeft[i], Nth[i])
        BY <1>4, <3>1
      <3> QED
        BY <1>0, <3>2, Zenon
    <2> QED
      BY <2>1, <2>2 DEF Drops
  <1> QED
    BY <1>5, DropsOne

LEMMA VarsLeftIs ==
    ASSUME NEW W \in [Nat -> Seq(Pair)], Drops("vars", W)
    PROVE  \A i \in Nat : VarsLeft[i] = W[i]
  <1> DEFINE after(l, e) == IF e # 0 /\ bp[e].type = "TERM_OFF"
                            THEN delvar(l, bp[e].node, bp[e].cond) ELSE l
             body(f, i) == IF i = 0 THEN trinfo ELSE after(f[i - 1], Nth[i - 1])
  <1>0. \A l, e : (IF e # 0 THEN Drop("vars", bp[e], l) ELSE l) = after(l, e)
    BY DropIs
  <1> HIDE DEF after
  <1>1. \A i \in Nat : W[i] = body(W, i)
    <2>1. SUFFICES ASSUME NEW i \in Nat PROVE W[i] = body(W, i)
      OBVIOUS
    <2>2. CASE i = 0
      BY <2>2, ListedIs DEF Drops
    <2>3. CASE i # 0
      <3>1. PICK k \in Nat : i = k + 1 /\ k = i - 1
        <4>1. i - 1 \in Nat /\ i = (i - 1) + 1
          BY <2>3
        <4> QED
          BY <4>1
      <3>2. W[k + 1] = IF Nth[k] # 0 THEN Drop("vars", bp[Nth[k]], W[k]) ELSE W[k]
        BY DEF Drops
      <3>3. W[k + 1] = after(W[k], Nth[k])
        BY <1>0, <3>2, Zenon
      <3> QED
        BY <2>3, <3>1, <3>3
    <2> QED
      BY <2>2, <2>3
  <1>2. W = [i \in Nat |-> body(W, i)]
    BY <1>1
  <1>3. VarsLeft = [i \in Nat |-> body(VarsLeft, i)]
    BY <1>2, Zenon DEF VarsLeft, after
  <1>4. \A i \in Nat : VarsLeft[i] = body(VarsLeft, i)
    BY <1>3, Zenon
  <1>5. Drops("vars", VarsLeft)
    <2>1. VarsLeft[0] = Listed("vars")
      BY <1>4, ListedIs
    <2>2. ASSUME NEW i \in Nat
          PROVE  VarsLeft[i + 1] =
                     IF Nth[i] # 0 THEN Drop("vars", bp[Nth[i]], VarsLeft[i]) ELSE VarsLeft[i]
      <3>1. i + 1 \in Nat /\ i + 1 # 0 /\ (i + 1) - 1 = i
        OBVIOUS
      <3>2. VarsLeft[i + 1] = after(VarsLeft[i], Nth[i])
        BY <1>4, <3>1
      <3> QED
        BY <1>0, <3>2, Zenon
    <2> QED
      BY <2>1, <2>2 DEF Drops
  <1> QED
    BY <1>5, DropsOne

\* fixbps finds the entries of all the events.
LEMMA NoneMissing ==
    ASSUME ListInv, RowInv, mode # "freed", NEW i \in Nat
    PROVE  Lost \notin {CondsLeft[i], VarsLeft[i]}
  <1>1. /\ GoodList(Now) /\ Listed("conds") \in Seq(Pair) /\ RowOf("conds")
        /\ Listed("vars") \in Seq(Pair) /\ RowOf("vars")
    BY LineIs DEF RowInv, Kinds
  <1>2. \A l \in Seq(Pair) : l # Lost
    BY NotLost DEF Pair
  <1>3. CondsLeft[i] # Lost
    <2>1. PICK W \in [Nat -> Seq(Pair)] : Drops("conds", W)
      BY <1>1, DropsSeq
    <2>2. CondsLeft[i] = W[i] /\ W[i] \in Seq(Pair)
      BY <2>1, CondsLeftIs
    <2> QED
      BY <1>2, <2>2
  <1>4. VarsLeft[i] # Lost
    <2>1. PICK W \in [Nat -> Seq(Pair)] : Drops("vars", W)
      BY <1>1, DropsSeq
    <2>2. VarsLeft[i] = W[i] /\ W[i] \in Seq(Pair)
      BY <2>1, VarsLeftIs
    <2> QED
      BY <1>2, <2>2
  <1> QED
    BY <1>3, <1>4

LEMMA RunRows ==
    ASSUME ListInv, RowInv, Run
    PROVE  RowInv'
  <1>1. mode # "freed" /\ MaxEvents \in Nat
    BY EventAssumption DEF Run, AtPrompt
  <1>2. mode' # "panic" /\ cond_list' = <<>> /\ trinfo' = <<>>
    <2>1. Lost \notin {CondsLeft[MaxEvents], VarsLeft[MaxEvents]}
      BY <1>1, NoneMissing
    <2> QED
      BY <2>1 DEF Run
  <1>3. \A x \in DOMAIN bp' : bp'[x].type \in Temporary => bp'[x].type = "END_BP"
    BY RunList
  <1>4. \A x \in DOMAIN bp' : ~IsOff(x)'
    BY <1>3 DEF IsOff, Offs, Temporary
  <1> QED
    BY <1>2, <1>4, NoRows

LEMMA NextKeepsRows ==
    ASSUME ~LateConds, NoOffDeleted, ListInv, OrderInv, RowInv, [Next]_vars
    PROVE  RowInv'
  <1>1. CASE Command
    BY <1>1, CommandRows
  <1>2. CASE Run
    BY <1>2, RunRows
  <1>3. CASE (\E g \in Func : Call(g)) \/ Return \/ Finish
    BY <1>3, MovesRows
  <1>4. CASE Walk
    BY <1>4, WalkRows
  <1>5. CASE UNCHANGED vars
    BY <1>5, StutterRows
  <1> QED
    BY <1>1, <1>2, <1>3, <1>4, <1>5 DEF Next

LEMMA InitOrder == ASSUME Init PROVE OrderInv
  BY DEF Init, OrderInv

LEMMA CountInvSays == CountInv /\ mode # "panic" => CountersMatch
  BY DEF CountInv, CountersMatch, Of

LEMMA RowInvSays == RowInv => mode # "panic"
  BY DEF RowInv

\* The counters on which single stepping depends count the events that will turn a
\* trace off again, whoever calls whom and whatever the debugger takes for the
\* current routine: each of them goes up with an event that the list gets and down
\* with one that it loses (handlebp.c, bp.c, fixbps.c).  One more is where "trace if"
\* was in force at once, and one more for each "stop if", as nothing turns these off.
THEOREM CountersCount ==
    ASSUME Deletable \subseteq SafeToDelete, MaxEvents < 65535
    PROVE  Spec => [](/\ tracing - Cardinality(Of({"ALL_OFF"})) \in {0, 1}
                      /\ var_tracing - Cardinality(Of({"STOP_OFF", "TERM_OFF"}))
                             \in 0..Cardinality(Of({"STOP_ON"})))
  <1>1. Init => ListInv /\ CountInv
    BY InitList, InitCounts
  <1>2. ListInv /\ CountInv /\ [Next]_vars => (ListInv /\ CountInv)'
    <2>1. "CALL" \notin Deletable /\ FewEvents
      BY DEF SafeToDelete, FewEvents
    <2> QED
      BY <2>1, NextKeepsList, NextKeepsCounts
  <1>3. CountInv => /\ tracing - Cardinality(Of({"ALL_OFF"})) \in {0, 1}
                    /\ var_tracing - Cardinality(Of({"STOP_OFF", "TERM_OFF"}))
                           \in 0..Cardinality(Of({"STOP_ON"}))
    BY DEF CountInv
  <1> QED
    BY <1>1, <1>2, <1>3, PTL DEF Spec

\* Nothing is missing from the list of conditions, or of variables, when an event
\* takes it off: delcond does not panic (trcond.c:74), delvar does not fail, neither
\* in a walk nor in fixbps at the start of a run; and the counters are right.  The
\* conditions are in the order of their events, for these are in the order in which
\* the program returns.  A condition that is in force at once, while an event still
\* waits, breaks that order, and so does a variable that is traced where curfunc is
\* not the routine that runs: the theorem is for programs without them.
THEOREM CountersAreRight ==
    ASSUME NoMutualRecursion, ~StaleCurfunc, ~LateConds,
           Deletable \subseteq SafeToDelete, MaxEvents < 65535
    PROVE  Spec => []CountersMatch
  <1> DEFINE Inv == ListInv /\ ExitInv /\ CountInv /\ StackInv /\ OrderInv /\ RowInv
  <1>1. Init => Inv
    BY InitList, InitExits, InitCounts, InitTraces, InitOrder, InitRows
  <1>2. Inv /\ [Next]_vars => Inv'
    <2>1. "CALL" \notin Deletable /\ FewEvents /\ NoOffDeleted
      BY DEF SafeToDelete, FewEvents, NoOffDeleted, Offs
    <2> QED
      BY <2>1, NextKeepsList, NextKeepsExits, NextKeepsCounts, NextKeepsStack, NextKeepsOrder,
         NextKeepsRows
  <1>3. Inv => CountersMatch
    BY CountInvSays, RowInvSays
  <1> QED
    BY <1>1, <1>2, <1>3, PTL DEF Spec

\* No event of a walk takes a newer condition or variable off with its own, as
\* delcond and delvar would do (trcond.c:74, trinfo.c): its own is the newest.  Here
\* the user may also delete events that are counted.
THEOREM OffTakesItsOwn ==
    ASSUME NoMutualRecursion, ~StaleCurfunc, ~LateConds, NoOffDeleted
    PROVE  Spec => TakesOffItsOwn
  <1> DEFINE Inv == ListInv /\ ExitInv /\ StackInv /\ OrderInv /\ RowInv
  <1>1. Init => Inv
    BY InitList, InitExits, InitTraces, InitOrder, InitRows
  <1>2. Inv /\ [Next]_vars => Inv'
    <2>1. "CALL" \notin Deletable
      BY DEF NoOffDeleted
    <2> QED
      BY <2>1, NextKeepsList, NextKeepsExits, NextKeepsStack, NextKeepsOrder, NextKeepsRows
  <1>3. Inv /\ [Next]_vars =>
            [mode = "walk" => /\ Len(cond_list') >= Len(cond_list) - 1
                              /\ Len(trinfo') >= Len(trinfo) - 1]_vars
    <2>1. SUFFICES ASSUME Inv, Next, mode = "walk"
                   PROVE  Len(cond_list') >= Len(cond_list) - 1 /\ Len(trinfo') >= Len(trinfo) - 1
      OBVIOUS
    <2>2. Walk
      BY <2>1, Zenon DEF Next, Command, Trace, TraceIn, TraceVar, TraceCalls, StopIf, StopIn, Delete,
         MayAdd, AtPrompt, Run, Call, Return, Finish
    <2> QED
      BY <2>1, <2>2, WalkRows, OwnOnlyIs
  <1> QED
    BY <1>1, <1>2, <1>3, PTL DEF Spec, TakesOffItsOwn
===============================================================================
