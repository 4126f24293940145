------------------------------ MODULE PiLabels ------------------------------
(***************************************************************************)
(* How pi finds gotos into structured statements in its one pass over the  *)
(* body of a block (src/src/lab.c, statement and ungoto of src/src/stat.c, *)
(* src/src/0.h:651).                                                       *)
(*                                                                         *)
(* The compiler keeps one number for each label: the level of the label,   *)
(* DEAD once its statement has been left, and before the label is met the  *)
(* least level since its first goto.  The model keeps the statements that  *)
(* are open, outermost first, each with a number of its own, and remembers *)
(* where labels and gotos were, which the compiler does not.  The parts of *)
(* an if and the arms of a case are statements of their own.               *)
(***************************************************************************)
EXTENDS Naturals, Sequences, FiniteSets

CONSTANTS
    Label,          \* the labels of the block
    MaxLevel,       \* bound: how deep statements nest
    MaxStatements,  \* bound: structured statements, parts and arms in all
    MaxGotos,       \* bound: gotos with places of their own
    OneLabelPart    \* the labels are declared in one part (option s)

\* NOTYET and DEAD are the same number: NFORWD tells them apart.
NOTYET == 10000
DEAD == 10000

ASSUME LabelAssumption == /\ MaxLevel \in Nat /\ MaxStatements \in Nat
                          /\ MaxGotos \in Nat
                          /\ MaxLevel < DEAD
                          /\ OneLabelPart \in BOOLEAN

VARIABLES
    phase,      \* the part of the block: declarations, body, or it has ended
    declared,   \* the labels in the namelist
    gotos,      \* those on the list gotos[cbn]
    forwd,      \* the labels with the flag NFORWD
    golev,      \* value[NL_GOLEV]
    open,       \* the open statements: records with `id' and `kind'
    met,        \* the number of statements met so far
    errors,     \* the errors about labels
    place,      \* where each label that has been met stands
    uses        \* the gotos of this block: label and place

vars == <<phase, declared, gotos, forwd, golev, open, met, errors, place, uses>>

level == Len(open)

Init == /\ phase = "declarations"
        /\ declared = {} /\ gotos = {} /\ forwd = {}
        /\ golev = [l \in Label |-> NOTYET]
        /\ open = <<>> /\ met = 0
        /\ errors = {}
        /\ place = [l \in Label |-> <<>>]
        /\ uses = {}

\* label(): each part makes a list of its own labels.
LabelPart(ls) == /\ phase = "declarations"
                 /\ ls # {}
                 /\ declared \cap ls = {}
                 /\ OneLabelPart => declared = {}
                 /\ declared' = declared \cup ls
                 /\ gotos' = ls
                 /\ forwd' = forwd \cup ls
                 /\ UNCHANGED <<phase, golev, open, met, errors, place, uses>>

Begin == /\ phase = "declarations"
         /\ phase' = "body"
         /\ UNCHANGED <<declared, gotos, forwd, golev, open, met, errors, place, uses>>

\* A statement may stand anywhere but between the arms of a case.
MayStand == phase = "body" /\ (level > 0 => open[level].kind # "case")

\* gotoop(): a goto in the block that declares the label.
gotoop(l) == /\ MayStand
             /\ l \in declared
             /\ Cardinality(uses) < MaxGotos
             /\ uses' = uses \cup {<<l, open>>}
             /\ golev' = IF l \in forwd /\ golev[l] = NOTYET
                         THEN [golev EXCEPT ![l] = level] ELSE golev
             /\ errors' = IF l \notin forwd /\ golev[l] = DEAD
                          THEN errors \cup {<<l, "into">>} ELSE errors
             /\ UNCHANGED <<phase, declared, gotos, forwd, open, met, place>>

\* labeled(): the statement that follows has the label.
labeled(l) ==
    /\ MayStand
    /\ l \in declared
    /\ IF l \in forwd
       THEN /\ forwd' = forwd \ {l}
            /\ errors' = IF golev[l] # NOTYET /\ golev[l] < level
                         THEN errors \cup {<<l, "into">>} ELSE errors
            /\ golev' = [golev EXCEPT ![l] = level]
            /\ place' = [place EXCEPT ![l] = open]
       ELSE /\ errors' = errors \cup {<<l, "redefined">>}
            /\ UNCHANGED <<forwd, golev, place>>
    /\ UNCHANGED <<phase, declared, gotos, open, met, uses>>

\* Faulty: labels that are still to come are forgotten as well.
ungotoForgets(lv) == golev' = [l \in Label |-> IF l \in gotos /\ golev[l] > lv THEN DEAD
                                               ELSE golev[l]]

\* Faulty: `>' became `>='.
ungotoEarly(lv) ==
    golev' = [l \in Label |-> IF l \notin gotos \/ golev[l] < lv THEN golev[l]
                              ELSE IF l \notin forwd THEN DEAD
                              ELSE IF golev[l] # NOTYET THEN lv
                              ELSE NOTYET]

\* ungoto(): the labels and gotos above a level are out of reach.
ungoto(lv) ==
    golev' = [l \in Label |-> IF l \notin gotos \/ golev[l] <= lv THEN golev[l]
                              ELSE IF l \notin forwd THEN DEAD
                              ELSE IF golev[l] # NOTYET THEN lv
                              ELSE NOTYET]

\* statement(), ifop(), caseop() and the like: a structured statement begins.
Statement(kind) == [id |-> met + 1, kind |-> kind]

Enter(kind) == /\ met < MaxStatements
               /\ met' = met + 1
               /\ open' = Append(open, Statement(kind))
               /\ UNCHANGED <<phase, declared, gotos, forwd, golev, errors, place, uses>>

Structured(kind) == MayStand /\ level < MaxLevel /\ Enter(kind)

Arm == /\ level \in 1..MaxLevel - 1
       /\ open[level].kind = "case"
       /\ Enter("arm")

\* ifop(): the then part has ended and the else part begins.
Else == /\ level > 0
        /\ open[level].kind = "if"
        /\ met < MaxStatements
        /\ met' = met + 1
        /\ open' = [open EXCEPT ![level] = Statement("else")]
        /\ ungoto(level - 1)
        /\ UNCHANGED <<phase, declared, gotos, forwd, errors, place, uses>>

\* The end of a structured statement, or of an arm.
Leave == /\ level > 0
         /\ open' = SubSeq(open, 1, level - 1)
         /\ ungoto(level - 1)
         /\ UNCHANGED <<phase, declared, gotos, forwd, met, errors, place, uses>>

\* funcend(): labels without a place are reported.
End == /\ phase = "body"
       /\ level = 0
       /\ phase' = "ended"
       /\ errors' = errors \cup { <<l, "undefined">> : l \in forwd }
       /\ UNCHANGED <<declared, gotos, forwd, golev, open, met, place, uses>>

Next == \/ \E ls \in SUBSET Label : LabelPart(ls)
        \/ \E l \in Label : gotoop(l) \/ labeled(l)
        \/ \E kind \in {"if", "case", "other"} : Structured(kind)
        \/ Begin \/ Arm \/ Else \/ Leave \/ End

Spec == Init /\ [][Next]_vars

-----------------------------------------------------------------------------
\* Every statement around the label is around the goto too.
Around(p, q) == Len(p) <= Len(q) /\ \A i \in 1..Len(p) : p[i] = q[i]

Legal(u) == Around(place[u[1]], u[2])

\* As soon as label and goto have both been met, a goto into a structured
\* statement has been reported (0.h:666-675).
GotosAreLegal == \A u \in uses : u[1] \in forwd \/ Legal(u) \/ <<u[1], "into">> \in errors

\* Only labels with a goto into a structured statement are reported.
LegalGotosPass == \A l \in Label :
                    <<l, "into">> \in errors => \E u \in uses : u[1] = l /\ ~Legal(u)
=============================================================================
