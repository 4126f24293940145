------------------------------ MODULE PiProofs ------------------------------
(***************************************************************************)
(* Proofs about two pieces of pi.                                          *)
(*                                                                         *)
(* Labels: one number for each label is enough.  pi reports a label if and *)
(* only if one of its gotos leads into a structured statement, for blocks  *)
(* of every shape and size whose labels are declared in one part.          *)
(*                                                                         *)
(* The code of a for statement, with the opcodes of px, implements the for *)
(* statement for ordinals of every width: while it runs, the shadow stays  *)
(* between the initial and the final value, so that it is never wrapped to *)
(* its width.                                                              *)
(***************************************************************************)
EXTENDS PiLabels, PxForRefine, TLAPS

Kind == {"if", "else", "case", "arm", "other"}

Open == [id : Nat, kind : Kind]

\* The state is well formed, and no statement number is used before it is met.
Known(p) == \A i \in 1..Len(p) : p[i].id <= met

Shape == /\ declared \subseteq Label /\ gotos = declared /\ forwd \subseteq declared
         /\ golev \in [Label -> Nat]
         /\ open \in Seq(Open) /\ level <= MaxLevel /\ met \in Nat
         /\ place \in [Label -> Seq(Open)]
         /\ uses \subseteq declared \X Seq(Open)
         /\ Known(open)
         /\ \A l \in Label : Known(place[l])
         /\ \A u \in uses : Known(u[2])

\* The outermost n statements around p and q are the same ones ...
Common(n, p, q) == /\ n <= Len(p) /\ n <= Len(q)
                   /\ \A i \in 1..n : p[i] = q[i]

\* ... and the next are not.
Parted(n, p, q) == Len(p) > n /\ Len(q) > n => p[n + 1] # q[n + 1]

\* A label still to come has the level its gotos and the present statement
\* have in common (0.h:671-673).
Awaited(l) == /\ \A u \in uses : u[1] = l => Common(golev[l], u[2], open)
              /\ golev[l] # NOTYET => \E u \in uses : u[1] = l /\ Parted(golev[l], u[2], open)
              /\ <<l, "into">> \notin errors

\* A label that has been met is alive while its statement is open.
Placed(l) == /\ golev[l] # DEAD => golev[l] = Len(place[l]) /\ Around(place[l], open)
             /\ golev[l] = DEAD => ~Around(place[l], open)
             /\ \A u \in uses : u[1] = l => Legal(u) \/ <<l, "into">> \in errors
             /\ <<l, "into">> \in errors => \E u \in uses : u[1] = l /\ ~Legal(u)

LabelInv == /\ Shape
            /\ \A l \in Label : IF l \in forwd THEN Awaited(l)
                                ELSE IF l \in declared THEN Placed(l)
                                ELSE golev[l] = NOTYET /\ <<l, "into">> \notin errors

\* No label is declared at the start.
LEMMA InitLabels == Init => LabelInv
  BY LabelAssumption DEF Init, LabelInv, Shape, level, Known, Awaited, Placed, NOTYET

\* A label is not concerned by what happens to other labels in one place.
LEMMA OtherLabel ==
    ASSUME NEW k \in Label, golev'[k] = golev[k], open' = open, place'[k] = place[k],
           \A u : u[1] = k => (u \in uses' <=> u \in uses),
           <<k, "into">> \in errors' <=> <<k, "into">> \in errors
    PROVE  /\ Awaited(k) => Awaited(k)'
           /\ Placed(k) => Placed(k)'
  BY DEF Awaited, Placed, Legal

\* A goto takes the level of its place, or finds its label alive or dead.
LEMMA GotoLabels == ASSUME LabelInv, NEW l \in Label, gotoop(l) PROVE LabelInv'
  <1>1. /\ UNCHANGED <<declared, gotos, forwd, open, met, place>>
        /\ uses' = uses \cup {<<l, open>>} /\ l \in declared
    BY DEF gotoop
  <1>2. Shape'
    BY <1>1, LabelAssumption DEF gotoop, LabelInv, Shape, level, Known
  <1>3. level = Len(open) /\ level \in Nat /\ level < NOTYET /\ golev[l] \in Nat
    BY LabelAssumption DEF LabelInv, Shape, level, NOTYET, DEAD
  <1>4. Common(level, open, open) /\ Parted(level, open, open)
    BY <1>3 DEF Common, Parted
  <1>0. /\ <<l, open>> \in uses' /\ <<l, open>>[1] = l /\ <<l, open>>[2] = open
        /\ \A u \in uses' : u \in uses \/ (u[1] = l /\ u[2] = open)
        /\ \A u \in uses : u \in uses'
    BY <1>1
  <1>5. ASSUME NEW k \in Label, k # l
        PROVE  /\ golev'[k] = golev[k]
               /\ Awaited(k) => Awaited(k)'
               /\ Placed(k) => Placed(k)'
    <2>1. golev'[k] = golev[k] /\ (<<k, "into">> \in errors' <=> <<k, "into">> \in errors)
      BY <1>5 DEF gotoop, LabelInv, Shape
    <2>2. \A u : u[1] = k => (u \in uses' <=> u \in uses)
      BY <1>1, <1>5
    <2> QED
      BY <1>1, <2>1, <2>2, OtherLabel
  <1>6. CASE l \in forwd
    <2>1. Awaited(l) /\ errors' = errors
      BY <1>6 DEF LabelInv, gotoop
    <2>2. ASSUME golev[l] = NOTYET PROVE Awaited(l)'
      <3>1. golev'[l] = level
        BY <1>6, <2>2 DEF gotoop, LabelInv, Shape
      <3>2. \A u \in uses : u[1] # l
        BY <1>3, <2>1, <2>2 DEF Awaited, Common
      <3>3. /\ \A u \in uses' : u[1] = l => Common(level, u[2], open)
            /\ \E u \in uses' : u[1] = l /\ Parted(level, u[2], open)
        BY <1>0, <1>4, <3>2
      <3> QED
        BY <1>1, <2>1, <3>1, <3>3 DEF Awaited
    <2>3. ASSUME golev[l] # NOTYET PROVE Awaited(l)'
      <3>1. golev' = golev
        BY <2>3 DEF gotoop
      <3>2. PICK u \in uses : /\ u[1] = l /\ Parted(golev[l], u[2], open)
                             /\ Common(golev[l], u[2], open)
        BY <2>1, <2>3 DEF Awaited
      <3>3. Common(golev[l], open, open)
        BY <1>3, <3>2 DEF Common
      <3>4. /\ \A w \in uses' : w[1] = l => Common(golev[l], w[2], open)
            /\ \E w \in uses' : w[1] = l /\ Parted(golev[l], w[2], open)
        BY <1>0, <2>1, <3>2, <3>3 DEF Awaited
      <3> QED
        BY <1>1, <2>1, <3>1, <3>4 DEF Awaited
    <2> QED
      BY <1>1, <1>2, <1>5, <1>6, <2>1, <2>2, <2>3 DEF LabelInv
  <1>7. CASE l \notin forwd
    <2>1. Placed(l) /\ golev' = golev /\ place' = place /\ open' = open
      BY <1>1, <1>7 DEF LabelInv, gotoop
    <2>2. errors' = IF golev[l] = DEAD THEN errors \cup {<<l, "into">>} ELSE errors
      BY <1>7 DEF gotoop
    <2>3. golev[l] = DEAD <=> ~Around(place[l], open)
      BY <2>1 DEF Placed
    <2>4. \A u \in uses' : u[1] = l =>
            Around(place[l], u[2]) \/ <<l, "into">> \in errors'
      BY <1>0, <2>1, <2>2, <2>3 DEF Placed, Legal
    <2>5. <<l, "into">> \in errors' => \E u \in uses' : u[1] = l /\ ~Around(place[l], u[2])
      BY <1>0, <2>1, <2>2, <2>3 DEF Placed, Legal
    <2>6. Placed(l)'
      BY <2>1, <2>4, <2>5 DEF Placed, Legal
    <2>7. \A k \in Label \ declared : golev'[k] = NOTYET /\ <<k, "into">> \notin errors'
      BY <1>1, <2>1, <2>2 DEF LabelInv, Shape
    <2> QED
      BY <1>1, <1>2, <1>5, <1>7, <2>6, <2>7 DEF LabelInv
  <1> QED
    BY <1>6, <1>7

\* A label that is met is reported when the gotos before it have less in common
\* than the statements it stands in.
LEMMA LabeledLabels == ASSUME LabelInv, NEW l \in Label, labeled(l) PROVE LabelInv'
  <1>1. UNCHANGED <<declared, gotos, open, met, uses>> /\ l \in declared
    BY DEF labeled
  <1>2. Shape'
    <2>1. Shape /\ level \in Nat
      BY DEF LabelInv, Shape, level
    <2>2. golev' \in [Label -> Nat] /\ forwd' \subseteq forwd
      BY <2>1 DEF labeled, Shape
    <2>3. place' \in [Label -> Seq(Open)] /\ \A k \in Label : place'[k] \in {place[k], open}
      BY <2>1 DEF labeled, Shape
    <2>4. \A k \in Label : Known(place[k])'
      BY <1>1, <2>1, <2>3 DEF Shape, Known
    <2> QED
      BY <1>1, <2>1, <2>2, <2>3, <2>4 DEF Shape, level, Known
  <1>3. ASSUME NEW k \in Label, k # l
        PROVE  /\ golev'[k] = golev[k] /\ (k \in forwd' <=> k \in forwd)
               /\ <<k, "into">> \in errors' <=> <<k, "into">> \in errors
               /\ Awaited(k) => Awaited(k)'
               /\ Placed(k) => Placed(k)'
    <2>1. /\ golev'[k] = golev[k] /\ (k \in forwd' <=> k \in forwd)
          /\ place'[k] = place[k]
          /\ <<k, "into">> \in errors' <=> <<k, "into">> \in errors
      BY <1>3 DEF labeled, LabelInv, Shape
    <2> QED
      BY <1>1, <2>1, OtherLabel
  <1>4. ASSUME l \in forwd PROVE l \notin forwd' /\ Placed(l)'
    <2>1. /\ golev'[l] = level /\ place'[l] = open /\ l \notin forwd'
          /\ errors' = IF golev[l] # NOTYET /\ golev[l] < level
                        THEN errors \cup {<<l, "into">>} ELSE errors
      BY <1>4 DEF labeled, LabelInv, Shape
    <2>2. Awaited(l) /\ level = Len(open) /\ level \in Nat /\ golev[l] \in Nat /\ level < DEAD
      <3>1. Shape /\ Awaited(l)
        BY <1>4 DEF LabelInv
      <3> QED
        BY <3>1, LabelAssumption DEF Shape, level, DEAD
    <2>3. Around(open, open)
      BY <2>2 DEF Around
    <2>4. ASSUME NEW u \in uses, u[1] = l, ~(golev[l] < level) PROVE Around(open, u[2])
      BY <2>2, <2>4 DEF Awaited, Common, Around
    <2>5. ASSUME golev[l] # NOTYET, golev[l] < level
          PROVE  \E u \in uses : u[1] = l /\ ~Around(open, u[2])
      <3>1. PICK u \in uses : u[1] = l /\ Parted(golev[l], u[2], open)
        BY <2>2, <2>5 DEF Awaited
      <3>2. Len(u[2]) \in Nat
        BY <3>1 DEF LabelInv, Shape
      <3>3. ~Around(open, u[2])
        BY <2>2, <2>5, <3>1, <3>2 DEF Parted, Around
      <3> QED
        BY <3>1, <3>3
    <2>6. ASSUME NEW u \in uses, u[1] = l, golev[l] = NOTYET PROVE FALSE
      <3>1. golev[l] <= level
        BY <2>2, <2>6 DEF Awaited, Common
      <3> QED
        BY <2>2, <2>6, <3>1 DEF NOTYET, DEAD
    <2>7. \A u \in uses : u[1] = l => Around(open, u[2]) \/ <<l, "into">> \in errors'
      BY <2>1, <2>4, <2>6
    <2>8. <<l, "into">> \in errors' => \E u \in uses : u[1] = l /\ ~Around(open, u[2])
      BY <2>1, <2>2, <2>5 DEF Awaited
    <2> QED
      BY <1>1, <2>1, <2>2, <2>3, <2>7, <2>8 DEF Placed, Legal, level
  <1>5. ASSUME l \notin forwd PROVE l \notin forwd' /\ Placed(l)'
    <2>1. /\ UNCHANGED <<forwd, golev, place>>
          /\ <<l, "into">> \in errors' <=> <<l, "into">> \in errors
      BY <1>5 DEF labeled
    <2>2. Placed(l)
      BY <1>1, <1>5 DEF LabelInv
    <2> QED
      BY <1>1, <1>5, <2>1, <2>2, OtherLabel
  <1> QED
    BY <1>1, <1>2, <1>3, <1>4, <1>5 DEF LabelInv

\* Statements are left down to level n, and perhaps a new one is entered: what
\* ungoto does to the levels is what becomes of the labels and gotos.
LEMMA MovedLabel ==
    ASSUME LabelInv, NEW n \in 0..level, ungoto(n),
           UNCHANGED <<declared, gotos, forwd, errors, place, uses>>,
           open' \in Seq(Open), Len(open') \in n..n + 1,
           \A i \in 1..n : open'[i] = open[i],
           Len(open') = n + 1 => open'[n + 1].id > met,
           NEW l \in Label
    PROVE  /\ l \in forwd => Awaited(l)'
           /\ l \in declared \ forwd => Placed(l)'
           /\ l \notin declared => golev'[l] = NOTYET
  <1>1. /\ golev' = [k \in Label |-> IF k \notin gotos \/ golev[k] <= n THEN golev[k]
                                    ELSE IF k \notin forwd THEN DEAD
                                    ELSE IF golev[k] # NOTYET THEN n ELSE NOTYET]
        /\ gotos = declared /\ Shape /\ golev[l] \in Nat /\ n \in Nat /\ n < DEAD
        /\ level \in Nat /\ level = Len(open) /\ n <= level
    <2>1. Shape /\ level = Len(open)
      BY DEF LabelInv, level
    <2>2. level \in Nat /\ level < DEAD /\ golev[l] \in Nat /\ gotos = declared
      BY <2>1, LabelAssumption DEF Shape, DEAD
    <2> QED
      BY <2>1, <2>2 DEF ungoto, DEAD
  <1>2. ASSUME NEW u \in uses
        PROVE  /\ Len(u[2]) \in Nat
               /\ \A i \in 1..Len(u[2]) : u[2][i].id <= met /\ u[2][i].id \in Nat
    <2>1. u[2] \in Seq(Open) /\ Known(u[2])
      BY <1>1 DEF Shape
    <2>2. \A i \in 1..Len(u[2]) : u[2][i] \in Open
      BY <2>1
    <2> QED
      BY <2>1, <2>2 DEF Known, Open
  <1>3. ASSUME l \in forwd PROVE Awaited(l)'
    <2>1. Awaited(l) /\ l \in gotos
      BY <1>1, <1>3 DEF LabelInv, Shape
    <2>2. CASE golev[l] = NOTYET
      <3>1. golev'[l] = NOTYET
        BY <1>1, <1>3, <2>1, <2>2
      <3>2. \A u \in uses : u[1] # l
        <4>1. ~(golev[l] <= level)
          BY <1>1, <2>2, LabelAssumption DEF Shape, NOTYET, DEAD
        <4> QED
          BY <1>1, <2>1, <4>1 DEF Awaited, Common
      <3> QED
        BY <2>1, <3>1, <3>2 DEF Awaited
    <2>3. CASE golev[l] # NOTYET
      <3>1. PICK m \in Nat : m = golev'[l] /\ m <= n /\ m <= golev[l] /\ (m < n => m = golev[l])
        BY <1>1, <1>3, <2>1, <2>3
      <3>2. ASSUME NEW u \in uses, u[1] = l PROVE Common(m, u[2], open')
        BY <1>1, <1>2, <2>1, <3>1, <3>2 DEF Awaited, Common
      <3>3. PICK u \in uses : u[1] = l /\ Parted(golev[l], u[2], open)
        BY <2>1, <2>3 DEF Awaited
      <3>4. Parted(m, u[2], open')
        <4>1. CASE m < n
          BY <1>1, <1>2, <3>1, <3>3, <4>1 DEF Parted
        <4>2. CASE m = n
          <5>1. met \in Nat /\ Len(open') \in Nat
            BY <1>1 DEF Shape
          <5> QED
            BY <1>1, <1>2, <4>2, <5>1 DEF Parted
        <4> QED
          BY <1>1, <3>1, <4>1, <4>2
      <3> QED
        BY <2>1, <3>1, <3>2, <3>3, <3>4 DEF Awaited
    <2> QED
      BY <2>2, <2>3
  <1>4. ASSUME l \in declared \ forwd PROVE Placed(l)'
    <2>1. Placed(l) /\ l \in gotos
      BY <1>1, <1>4 DEF LabelInv
    <2>2. /\ Len(place[l]) \in Nat
          /\ \A i \in 1..Len(place[l]) : place[l][i].id <= met /\ place[l][i].id \in Nat
      <3> DEFINE p == place[l]
      <3>1. p \in Seq(Open) /\ Known(p)
        BY <1>1 DEF Shape
      <3> HIDE DEF p
      <3>2. Len(p) \in Nat /\ \A i \in 1..Len(p) : p[i] \in Open
        BY <3>1
      <3>3. \A i \in 1..Len(p) : p[i].id <= met /\ p[i].id \in Nat
        BY <3>1, <3>2 DEF Known, Open
      <3> QED
        BY <3>2, <3>3 DEF p
    <2>3. Around(place[l], open') <=> Len(place[l]) <= n /\ Around(place[l], open)
      BY <1>1, <2>2 DEF Around, Shape, Open
    <2>4. golev'[l] # DEAD => golev'[l] = Len(place[l]) /\ Around(place[l], open')
      BY <1>1, <1>4, <2>1, <2>2, <2>3 DEF Placed
    <2>5. golev'[l] = DEAD => ~Around(place[l], open')
      BY <1>1, <1>4, <2>1, <2>2, <2>3 DEF Placed
    <2> QED
      BY <2>1, <2>4, <2>5 DEF Placed, Legal
  <1>5. ASSUME l \notin declared PROVE golev'[l] = NOTYET
    BY <1>1, <1>5 DEF LabelInv, Shape
  <1> QED
    BY <1>3, <1>4, <1>5

\* Beginning and ending statements, parts and arms.
LEMMA MoveLabels ==
    ASSUME LabelInv,
           Arm \/ Else \/ Leave \/ \E kind \in {"if", "case", "other"} : Structured(kind)
    PROVE  LabelInv'
  <1>1. /\ UNCHANGED <<declared, gotos, forwd, errors, place, uses>> /\ met' \in met..met + 1
        /\ Shape /\ level = Len(open) /\ level \in Nat /\ met \in Nat
    BY DEF Arm, Else, Leave, Structured, Enter, LabelInv, Shape, level
  <1>2. PICK n \in 0..level :
          /\ ungoto(n) /\ open' \in Seq(Open) /\ Len(open') \in n..n + 1
          /\ \A i \in 1..n : open'[i] = open[i]
          /\ Len(open') = n + 1 => open'[n + 1].id > met /\ open'[n + 1].id <= met'
          /\ Len(open') <= MaxLevel
    <2>1. ASSUME NEW kind \in Kind, Enter(kind), level < MaxLevel
          PROVE  /\ ungoto(level) /\ open' \in Seq(Open) /\ Len(open') = level + 1
                 /\ \A i \in 1..level : open'[i] = open[i]
                 /\ open'[level + 1].id = met + 1 /\ met' = met + 1
      <3>1. /\ open' = Append(open, [id |-> met + 1, kind |-> kind])
            /\ met' = met + 1 /\ golev' = golev
        BY <2>1 DEF Enter, Statement
      <3>2. [id |-> met + 1, kind |-> kind] \in Open
        BY <1>1 DEF Open
      <3>3. open \in Seq(Open) /\ golev \in [Label -> Nat]
        BY <1>1 DEF Shape
      <3>4. ASSUME NEW l \in Label PROVE golev[l] <= level \/ golev[l] = NOTYET
        <4>1. CASE l \in forwd
          <5>1. Awaited(l)
            BY <4>1 DEF LabelInv
          <5>2. golev[l] = NOTYET \/ \E u \in uses : Common(golev[l], u[2], open)
            BY <5>1 DEF Awaited
          <5> QED
            BY <1>1, <5>2 DEF Common
        <4>2. CASE l \in declared \ forwd
          <5>1. Placed(l)
            BY <4>2 DEF LabelInv
          <5>2. CASE golev[l] = DEAD
            BY <5>2 DEF NOTYET, DEAD
          <5>3. CASE golev[l] # DEAD
            <6>1. golev[l] = Len(place[l]) /\ Around(place[l], open)
              BY <5>1, <5>3 DEF Placed
            <6> QED
              BY <1>1, <6>1 DEF Around
          <5> QED
            BY <5>2, <5>3
        <4>3. CASE l \notin declared
          BY <1>1, <4>3 DEF LabelInv, Shape
        <4> QED
          BY <4>1, <4>2, <4>3
      <3>5. ungoto(level)
        BY <3>1, <3>3, <3>4 DEF ungoto, NOTYET, DEAD
      <3> QED
        BY <1>1, <3>1, <3>2, <3>3, <3>5
    <2>2. CASE Arm \/ \E kind \in {"if", "case", "other"} : Structured(kind)
      <3>1. PICK kind \in Kind : Enter(kind) /\ level < MaxLevel
        BY <1>1, <2>2, LabelAssumption DEF Arm, Structured, Kind
      <3> QED
        BY <1>1, <2>1, <3>1, LabelAssumption
    <2>3. CASE Else
      <3>1. /\ level > 0 /\ ungoto(level - 1) /\ met' = met + 1
            /\ open' = [open EXCEPT ![level] = [id |-> met + 1, kind |-> "else"]]
        BY <2>3 DEF Else, Statement
      <3>2. [id |-> met + 1, kind |-> "else"] \in Open
        BY <1>1 DEF Open, Kind
      <3>3. open \in Seq(Open) /\ level <= MaxLevel
        BY <1>1 DEF Shape
      <3> QED
        BY <1>1, <3>1, <3>2, <3>3
    <2>4. CASE Leave
      <3>1. level > 0 /\ ungoto(level - 1) /\ open' = SubSeq(open, 1, level - 1)
        BY <2>4 DEF Leave
      <3>2. open \in Seq(Open) /\ level <= MaxLevel
        BY <1>1 DEF Shape
      <3> QED
        BY <1>1, <3>1, <3>2, LabelAssumption
    <2> QED
      BY <2>2, <2>3, <2>4
  <1>3. Shape'
    <2>1. golev' \in [Label -> Nat]
      BY <1>1, <1>2 DEF ungoto, Shape, NOTYET, DEAD
    <2>2. ASSUME NEW p \in Seq(Open), Known(p)
          PROVE  \A i \in 1..Len(p) : p[i].id \in Nat /\ p[i].id <= met'
      <3>1. \A i \in 1..Len(p) : p[i] \in Open
        OBVIOUS
      <3> QED
        BY <1>1, <2>2, <3>1 DEF Known, Open
    <2>3. Known(open)'
      <3>1. open \in Seq(Open) /\ Known(open) /\ Len(open') \in Nat
        BY <1>1, <1>2 DEF Shape
      <3>2. \A i \in 1..level : open[i].id <= met'
        BY <1>1, <2>2, <3>1
      <3>3. ASSUME NEW i \in 1..Len(open') PROVE open'[i].id <= met'
        <4>1. i \in 1..n \/ (i = n + 1 /\ Len(open') = n + 1)
          BY <1>1, <1>2, <3>1
        <4> QED
          BY <1>1, <1>2, <3>2, <4>1
      <3> QED
        BY <3>3 DEF Known
    <2>4. (\A l \in Label : Known(place[l])') /\ \A u \in uses : Known(u[2])'
      BY <1>1, <2>2 DEF Shape, Known
    <2> QED
      BY <1>1, <1>2, <2>1, <2>3, <2>4 DEF Shape, level
  <1>4. ASSUME NEW l \in Label
        PROVE  /\ l \in forwd => Awaited(l)'
               /\ l \in declared \ forwd => Placed(l)'
               /\ l \notin declared => golev'[l] = NOTYET
    BY <1>1, <1>2, MovedLabel
  <1> QED
    BY <1>1, <1>3, <1>4 DEF LabelInv, Shape

\* The labels of the one label part are still to come.
LEMMA PartLabels ==
    ASSUME LabelInv, OneLabelPart, NEW ls \in SUBSET Label, LabelPart(ls) PROVE LabelInv'
  <1>1. /\ declared = {} /\ declared' = ls /\ gotos' = ls /\ forwd' = ls
        /\ UNCHANGED <<golev, open, met, errors, place, uses>> /\ uses = {}
    BY DEF LabelPart, LabelInv, Shape
  <1>2. Shape'
    BY <1>1 DEF LabelInv, Shape, level, Known
  <1>3. \A l \in Label : golev[l] = NOTYET /\ <<l, "into">> \notin errors
    BY <1>1 DEF LabelInv, Shape
  <1> QED
    BY <1>1, <1>2, <1>3 DEF LabelInv, Awaited

\* The invariant is kept by every step.
LEMMA NextLabels == ASSUME LabelInv, OneLabelPart, [Next]_vars PROVE LabelInv'
  <1>1. CASE Begin \/ End \/ UNCHANGED vars
    <2>1. /\ UNCHANGED <<declared, gotos, forwd, golev, open, met, place, uses>>
          /\ \A l \in Label : <<l, "into">> \in errors' <=> <<l, "into">> \in errors
      BY <1>1 DEF Begin, End, vars
    <2>2. Shape'
      BY <2>1 DEF LabelInv, Shape, level, Known
    <2> QED
      BY <2>1, <2>2, OtherLabel DEF LabelInv, Shape
  <1> QED
    BY <1>1, GotoLabels, LabeledLabels, MoveLabels, PartLabels DEF Next

\* What golev says of each label, in blocks with one label part (0.h:651-675).
THEOREM LabelInvariant == ASSUME OneLabelPart PROVE Spec => []LabelInv
  BY InitLabels, NextLabels, PTL DEF Spec

\* Every goto into a structured statement of its block is found, however the
\* statements are nested and in whatever order labels and gotos come.
THEOREM GotosAreFound == ASSUME OneLabelPart PROVE Spec => []GotosAreLegal
  <1>1. LabelInv => GotosAreLegal
    BY DEF LabelInv, Shape, Placed, GotosAreLegal
  <1> QED
    BY <1>1, LabelInvariant, PTL

\* ... and no other goto is taken for one.
THEOREM LegalGotosAreAccepted == ASSUME OneLabelPart PROVE Spec => []LegalGotosPass
  <1>1. LabelInv => LegalGotosPass
    BY DEF LabelInv, Shape, Awaited, Placed, LegalGotosPass
  <1> QED
    BY <1>1, LabelInvariant, PTL

-----------------------------------------------------------------------------
(***************************************************************************)
(* For statements.                                                         *)
(***************************************************************************)

\* The shadow has come from the initial value and has not passed the final one.
Between == IF loop.up THEN temp1 <= shadow /\ shadow <= temp2
                      ELSE temp1 >= shadow /\ shadow >= temp2

ForInv ==
    /\ loop \in Loop
    /\ temp1 \in Stored(Long) /\ temp2 \in Stored(Long) /\ shadow \in Int
    /\ at \in {"initial", "final", "if", "check", "enter", "top", "body", "for",
               "behind", "left", "error"}
    /\ at \in {"check", "enter", "top", "body", "for", "left"} => InOrder
    /\ at = "check" => loop.tests
    /\ at = "enter" /\ loop.tests => temp2 \in loop.lo..loop.hi
    /\ at \in {"top", "body", "for", "left"} /\ loop.tests => Compatible
    /\ Running => Between

\* A number that is within a range is its own remainder.
LEMMA OwnRemainder ==
    ASSUME NEW a \in Int, NEW m \in Int, 0 <= a, a < m PROVE a % m = a
  OBVIOUS

\* The values of a type are stored as they are.
LEMMA StoredAsIs == ASSUME loop \in Loop, NEW x \in loop.lo..loop.hi
                    PROVE  Wrap(x, loop.half) = x
  <1>1. PICK h \in Nat \ {0} : h = loop.half
    BY WidthAssumption DEF Loop
  <1>2. x \in -h..h - 1
    BY <1>1 DEF Loop, Stored
  <1>3. (x + h) % (2 * h) = x + h
    BY <1>2, OwnRemainder
  <1> QED
    BY <1>1, <1>2, <1>3 DEF Wrap

\* Whatever is stored is a number.
LEMMA WrapInt == ASSUME loop \in Loop, NEW x \in Int PROVE Wrap(x, loop.half) \in Int
  <1>1. PICK h \in Nat \ {0} : h = loop.half
    BY WidthAssumption DEF Loop
  <1> QED
    BY <1>1 DEF Wrap

\* The types are ranges of longs.
LEMMA LoopFacts ==
    ASSUME loop \in Loop
    PROVE  /\ loop.lo \in Int /\ loop.hi \in Int /\ Stored(Long) \subseteq Int
           /\ loop.up \in BOOLEAN /\ loop.tests \in BOOLEAN
  BY WidthAssumption DEF Loop, Stored

\* While the shadow differs from the final value, the next value of the type is
\* still between the two and is stored as it is (O_FOR1U to O_FOR4D).
LEMMA StepsBetween ==
    ASSUME ForInv, Running, shadow # temp2
    PROVE  /\ Wrap(shadow + Step, loop.half) = shadow + Step
           /\ IF loop.up THEN temp1 <= shadow + Step /\ shadow + Step <= temp2
                         ELSE temp1 >= shadow + Step /\ shadow + Step >= temp2
  <1>1. Compatible /\ Between /\ loop \in Loop
    BY DEF ForInv, Running
  <1>2. shadow + Step \in loop.lo..loop.hi
    BY <1>1, LoopFacts DEF ForInv, Between, Step, Compatible
  <1>3. IF loop.up THEN temp1 <= shadow + Step /\ shadow + Step <= temp2
                   ELSE temp1 >= shadow + Step /\ shadow + Step >= temp2
    BY <1>1, LoopFacts DEF ForInv, Between, Step
  <1> QED
    BY <1>1, <1>2, <1>3, StoredAsIs

\* The invariant holds at the start and is kept by every step.
LEMMA InitFor == ForInit => ForInv
  BY WidthAssumption DEF ForInit, ForInv, Running, Stored

LEMMA NextFor == ASSUME ForInv, [ForNext]_forvars PROVE ForInv'
  <1>0. loop' = loop /\ loop \in Loop
    BY DEF ForInv, ForNext, Run, EvalInitial, EvalFinal, Skip, Go, CheckFinal,
           StoreInitial, Top, Threaten, BodyEnds, GotoOut, For, forvars
  <1>1. ASSUME NEW e \in Stored(Long), EvalInitial(e) \/ EvalFinal(e) PROVE ForInv'
    BY <1>0, <1>1, LoopFacts DEF ForInv, EvalInitial, EvalFinal, Running
  <1>2. CASE Skip \/ Go
    BY <1>0, <1>2, LoopFacts DEF ForInv, Skip, Go, InOrder, Running
  <1>3. CASE CheckFinal
    <2>1. shadow' \in Int
      BY <1>0, <1>3, WrapInt, LoopFacts DEF CheckFinal, Store, ForInv
    <2> QED
      BY <1>0, <1>3, <2>1 DEF CheckFinal, Store, ForInv, Running, InOrder
  <1>4. CASE StoreInitial
    <2>1. shadow' \in Int
      BY <1>0, <1>4, WrapInt, LoopFacts DEF StoreInitial, Store, ForInv
    <2>2. at' \in {"top", "error"} /\ InOrder' /\ UNCHANGED <<temp1, temp2>>
      BY <1>0, <1>4 DEF StoreInitial, Store, ForInv, InOrder
    <2>3. at' = "top" /\ loop.tests => Compatible'
      BY <1>0, <1>4 DEF StoreInitial, Store, ForInv, Compatible
    <2>4. ASSUME Running' PROVE Between'
      <3>1. Compatible' /\ at' = "top"
        BY <1>0, <2>2, <2>3, <2>4 DEF Running
      <3>2. shadow' = temp1
        BY <1>0, <1>4, <2>2, <3>1, StoredAsIs DEF StoreInitial, Store, Compatible
      <3> QED
        BY <1>0, <2>2, <3>2, LoopFacts DEF Between, InOrder, ForInv
    <2> QED
      BY <1>0, <2>1, <2>2, <2>3, <2>4 DEF ForInv
  <1>5. CASE Top \/ BodyEnds \/ GotoOut \/ \E x \in loop.lo..loop.hi : Threaten(x)
    <2>1. /\ UNCHANGED <<temp1, temp2, shadow>>
          /\ at \in {"top", "body"} /\ at' \in {"top", "body", "for", "left"}
      BY <1>5 DEF Top, BodyEnds, GotoOut, Threaten
    <2> QED
      BY <1>0, <2>1 DEF ForInv, InOrder, Compatible, Running, Between
  <1>6. CASE For
    <2>1. /\ UNCHANGED <<temp1, temp2>> /\ at = "for" /\ at' \in {"top", "behind"}
          /\ shadow' \in {shadow, Wrap(shadow + Step, loop.half)}
      BY <1>6 DEF For
    <2>2. shadow + Step \in Int
      BY DEF Step, ForInv
    <2>3. shadow' \in Int
      BY <1>0, <2>1, <2>2, WrapInt DEF ForInv
    <2>4. ASSUME Running' PROVE Between'
      <3>1. Running /\ at' = "top" /\ shadow # temp2
        BY <1>0, <1>6, <2>1, <2>4 DEF Running, For, Compatible
      <3>2. shadow' = shadow + Step
        BY <1>6, <3>1, StepsBetween DEF For
      <3> QED
        BY <1>0, <2>1, <3>1, <3>2, StepsBetween DEF Between
    <2> QED
      BY <1>0, <2>1, <2>3, <2>4 DEF ForInv, InOrder, Compatible
  <1>7. CASE UNCHANGED forvars
    BY <1>7 DEF ForInv, forvars, InOrder, Compatible, Running, Between
  <1> QED
    BY <1>1, <1>2, <1>3, <1>4, <1>5, <1>6, <1>7 DEF ForNext, Run

\* While the loop runs, the shadow lies between the two values, for every
\* width, type and direction.
THEOREM ForInvariant == ForSpec => []ForInv
  BY InitFor, NextFor, PTL DEF ForSpec

-----------------------------------------------------------------------------
(***************************************************************************)
(* The steps of the loop are steps of the statement, or none.              *)
(***************************************************************************)

\* A loop that is entered stays between the values it was entered with.
LEMMA StepImplements ==
    ASSUME ForInv, [ForNext]_forvars PROVE [Standard!Next]_(Standard!vars)
  <1> USE DEF Standard!vars
  <1>0. loop' = loop /\ ForInv'
    BY NextFor DEF ForNext, Run, EvalInitial, EvalFinal, Skip, Go, CheckFinal,
           StoreInitial, Top, Threaten, BodyEnds, GotoOut, For, forvars
  <1>1. ASSUME NEW e \in Stored(Long), EvalInitial(e) \/ EvalFinal(e)
        PROVE  UNCHANGED Standard!vars
    BY <1>0, <1>1 DEF EvalInitial, EvalFinal, Running, Entered
  <1>2. CASE Go
    BY <1>0, <1>2 DEF Go, Running, Entered
  <1>3. CASE Skip
    <2>1. Standard!Skip
      BY <1>0, <1>3 DEF Skip, Running, Entered, InOrder, Standard!Skip, Standard!Leave
    <2> QED
      BY <2>1 DEF Standard!Next
  <1>4. CASE CheckFinal
    <2>1. CASE at' = "enter"
      BY <1>0, <1>4, <2>1 DEF CheckFinal, Running, Entered
    <2>2. CASE at' # "enter"
      <3>1. /\ loop.tests /\ temp2 \notin loop.lo..loop.hi /\ InOrder
            /\ at = "check" /\ at' = "error"
        BY <1>4, <2>2 DEF CheckFinal, Store, ForInv
      <3>2. Standard!Enter(temp1, temp2)
        BY <1>0, <3>1 DEF Running, Entered, InOrder, Standard!Enter, Standard!Leave,
                          Standard!InOrder, Standard!InType
      <3> QED
        BY <3>2 DEF Standard!Next, ForInv
    <2> QED
      BY <2>1, <2>2
  <1>5. CASE StoreInitial
    <2>1. /\ at = "enter" /\ at' \in {"top", "error"} /\ InOrder
          /\ UNCHANGED <<temp1, temp2>>
          /\ loop.tests => temp2 \in loop.lo..loop.hi
          /\ at' = "error" <=> loop.tests /\ temp1 \notin loop.lo..loop.hi
      BY <1>5 DEF StoreInitial, Store, ForInv
    <2>2. at' = "top" /\ Compatible => shadow' = temp1
      BY <1>0, <1>5, <2>1, StoredAsIs DEF StoreInitial, Store, Compatible, ForInv
    <2>3. Standard!Enter(temp1, temp2)
      BY <1>0, <2>1, <2>2 DEF Running, Entered, InOrder, Compatible, Standard!Enter,
                              Standard!Leave, Standard!InOrder, Standard!InType
    <2> QED
      BY <2>3 DEF Standard!Next, ForInv
  <1>6. CASE Top \/ BodyEnds \/ \E x \in loop.lo..loop.hi : Threaten(x)
    <2>1. UNCHANGED <<temp1, temp2, shadow>> /\ {at, at'} \subseteq {"top", "body", "for"}
      BY <1>6 DEF Top, BodyEnds, Threaten
    <2> QED
      BY <1>0, <2>1 DEF Running, Entered, Compatible
  <1>7. CASE GotoOut
    <2>1. at = "body" /\ at' = "left" /\ UNCHANGED <<temp1, temp2, shadow>>
      BY <1>7 DEF GotoOut
    <2>2. CASE Running
      <3>1. Standard!GotoOut
        BY <1>0, <2>1, <2>2 DEF Running, Entered, Compatible, ForInv,
                                Standard!GotoOut, Standard!Leave
      <3> QED
        BY <3>1 DEF Standard!Next
    <2>3. CASE ~Running
      BY <1>0, <2>1, <2>3 DEF Running, Entered, Compatible
    <2> QED
      BY <2>2, <2>3
  <1>8. CASE For
    <2>1. /\ at = "for" /\ UNCHANGED <<temp1, temp2>> /\ InOrder
          /\ InOrder' /\ Compatible' = Compatible
      BY <1>0, <1>8 DEF For, ForInv, InOrder, Compatible
    <2>2. CASE ~Running
      BY <1>0, <1>8, <2>1, <2>2 DEF For, Running, Entered
    <2>3. CASE Running /\ shadow = temp2
      <3>1. Standard!Finish
        BY <1>0, <1>8, <2>1, <2>3 DEF For, Running, Entered, ForInv,
                                      Standard!Finish, Standard!Leave
      <3> QED
        BY <3>1 DEF Standard!Next
    <2>4. CASE Running /\ shadow # temp2
      <3>1. at' = "top" /\ shadow' = shadow + Step
        BY <1>8, <2>4, StepsBetween DEF For
      <3>2. Standard!NextValue
        BY <1>0, <2>1, <2>4, <3>1 DEF Running, Entered, Step, ForInv,
                                      Standard!NextValue, Standard!succ
      <3> QED
        BY <3>2 DEF Standard!Next
    <2> QED
      BY <2>2, <2>3, <2>4
  <1>9. CASE UNCHANGED forvars
    BY <1>9 DEF forvars, Running, Entered, Compatible, InOrder
  <1> QED
    BY <1>1, <1>2, <1>3, <1>4, <1>5, <1>6, <1>7, <1>8, <1>9 DEF ForNext, Run

\* px runs the for statement of the standard, for ordinals of every width, and
\* for every type, direction and option t (forop.c:66-79).
THEOREM ForLoopImplements == ForSpec => ImplementsForStatement
  <1>1. ForInit => Standard!Init
    BY DEF ForInit, Running, Entered, Standard!Init
  <1> QED
    BY <1>1, ForInvariant, StepImplements, PTL
    DEF ForSpec, ImplementsForStatement, Standard!Spec
=============================================================================
