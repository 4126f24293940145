----------------------------- MODULE PascalSets -----------------------------
(***************************************************************************)
(* Set expressions of Pascal: operands are sets of values of a base type,  *)
(* an operator makes one of two, a comparison, a membership or card takes  *)
(* them and leaves a number.  PcSets implements it with words and masks.   *)
(***************************************************************************)
EXTENDS Integers, Sequences, FiniteSets

CONSTANTS Base,         \* the values of the base type
          Nothing, OutOfBounds

VARIABLES todo,      \* what the program evaluates next, or Nothing
          operands,  \* the sets it is evaluated with
          answer     \* the number it gave, Nothing, or OutOfBounds

vars == <<todo, operands, answer>>

SetOperator == {"+", "-", "*"}
Relation == {"=", "<>", "<", ">", "<=", ">="}

Denotes(es) == UNION { es[i].lo..es[i].hi : i \in DOMAIN es }
InBounds(es) == \A i \in DOMAIN es : es[i].lo \in Base /\ es[i].hi \in Base

Init == todo = Nothing /\ operands = <<>> /\ answer = Nothing

\* Which expressions the sets that wait allow; what stands in them is up to the
\* program.  Between [ and ] are ranges, a single value is a range of one.
Ask == /\ todo = Nothing
       /\ todo' # Nothing
       /\ \/ Len(operands) = 0 /\ todo'.op \in {"set", "in set"}
          \/ Len(operands) = 1 /\ todo'.op \in {"set", "in", "card"}
          \/ Len(operands) = 2 /\ todo'.op \in SetOperator \cup Relation
       /\ answer' = Nothing
       /\ UNCHANGED operands

Done(s, a) == todo' = Nothing /\ operands' = s /\ answer' = a
Doing(ops) == todo # Nothing /\ todo.op \in ops
Number(b) == IF b THEN 1 ELSE 0

\* A set with a bound that is no value of the base type is an error, even when
\* the range it belongs to is empty.
Construct == /\ Doing({"set"})
             /\ IF InBounds(todo.es) THEN Done(Append(operands, Denotes(todo.es)), Nothing)
                                     ELSE Done(operands, OutOfBounds)

Operate == /\ Doing(SetOperator)
           /\ LET l == operands[1]
                  r == operands[2]
              IN Done(<<CASE todo.op = "+" -> l \cup r
                          [] todo.op = "-" -> l \ r
                          [] todo.op = "*" -> l \cap r>>, Nothing)

Compare == /\ Doing(Relation)
           /\ LET l == operands[1]
                  r == operands[2]
              IN Done(<<>>, Number(CASE todo.op = "="  -> l = r
                                     [] todo.op = "<>" -> l # r
                                     [] todo.op = "<"  -> l \subseteq r /\ l # r
                                     [] todo.op = ">"  -> r \subseteq l /\ l # r
                                     [] todo.op = "<=" -> l \subseteq r
                                     [] todo.op = ">=" -> r \subseteq l))

Member == /\ Doing({"in"})
          /\ Done(<<>>, Number(todo.x \in operands[1]))

\* A membership in a set that is written out needs no set: bounds outside of the
\* base type are an error only where the compiler knows them.
MemberOf == /\ Doing({"in set"})
            /\ \/ Done(operands, Number(todo.x \in Denotes(todo.es)))
               \/ ~InBounds(todo.es) /\ Done(operands, OutOfBounds)

Card == /\ Doing({"card"})
        /\ Done(<<>>, Cardinality(operands[1]))

Next == Ask \/ Construct \/ Operate \/ Compare \/ Member \/ MemberOf \/ Card

Spec == Init /\ [][Next]_vars
=============================================================================
