------------------------------- MODULE PcSets -------------------------------
(***************************************************************************)
(* Sets of programs that px interprets or that are compiled to call libpc: *)
(* `result' is an array of longs, element x of the base type is the bit    *)
(* x - lwrb in it.  A constructor is worked out by pi (cset.c) when its    *)
(* elements are constants, by CTTOT otherwise.  px has libpc's routines    *)
(* behind its opcodes, with the exception of INCT: O_INCT is an error.     *)
(* A long is the set of its bits, numbered as the elements are; the table  *)
(* of masks has one half for either order of bytes, and both are this      *)
(* numbering.                                                              *)
(***************************************************************************)
EXTENDS Integers, Sequences, FiniteSets

CONSTANTS BitsPerLong, BitsPerByte,
          MaxInt,       \* the largest int, the smallest is -(MaxInt + 1)
          lwrb, uprbp,  \* lower bound, and upper - lower bound, of the set
          CompSetSze,   \* longs in the constant sets of pi
          Left, Right,  \* what may stand between [ and ] in the two operands:
                        \* sequences of ranges; `single' ones were written as
                        \* one value, `con' are the ends pi can evaluate
          Nothing, OutOfBounds,
          InctError     \* "-- INCT used --"

VARIABLES interpreted,  \* px runs the program; if not, it is compiled
          todo, operands, answer

vars == <<interpreted, todo, operands, answer>>

Bit == 0..(BitsPerLong - 1)
Value == -(MaxInt + 1)..MaxInt
\* An int that wraps around.
int(x) == ((x + MaxInt + 1) % (2 * (MaxInt + 1))) - (MaxInt + 1)

\* A long is some bytes, and the values of the base type and what an int makes of
\* their distance are ints.
ASSUME WordAssumption ==
    /\ BitsPerByte \in Nat /\ BitsPerByte > 0
    /\ BitsPerLong \in Nat /\ BitsPerLong > 0
    /\ BitsPerLong % BitsPerByte = 0
    /\ MaxInt \in Nat
    /\ lwrb \in Value
    /\ uprbp \in Nat
    /\ uprbp \in Value
    /\ lwrb + uprbp \in Value

BytesPerLong == BitsPerLong \div BitsPerByte
\* The bytes a set takes, some multiple of longs.
width == ((uprbp \div BitsPerByte + 1 + BytesPerLong - 1) \div BytesPerLong) * BytesPerLong
Longs == 0..(width \div BytesPerLong - 1)
Byte(s, n) == { b \in 0..(BitsPerByte - 1) :
                  (n % BytesPerLong) * BitsPerByte + b \in s[n \div BytesPerLong] }

-----------------------------------------------------------------------------
\* mask[i] has the low i bits turned off.
mask(i) == i..(BitsPerLong - 1)

\* Faulty: the mask ends one bit too early.
RangeBitsShort(lower, upper, w) ==
    LET lowerdiv == lower \div BitsPerLong
        lowermod == lower % BitsPerLong
        upperdiv == upper \div BitsPerLong
        uppermod == upper % BitsPerLong
    IN  { b \in Bit : /\ lower <= upper
                     /\ lowerdiv <= w /\ w <= upperdiv
                     /\ (w = lowerdiv => b \in mask(lowermod))
                     /\ (w = upperdiv => b \notin mask(uppermod)) }

\* The bits a range ors into long w: in the first long those from lowermod on, in
\* the last one those up to uppermod, in the longs between all of them.
RangeBits(lower, upper, w) ==
    LET lowerdiv == lower \div BitsPerLong
        lowermod == lower % BitsPerLong
        upperdiv == upper \div BitsPerLong
        uppermod == upper % BitsPerLong
    IN  { b \in Bit : /\ lower <= upper
                     /\ lowerdiv <= w /\ w <= upperdiv
                     /\ (w = lowerdiv => b \in mask(lowermod))
                     /\ (w = upperdiv => b \notin mask(uppermod + 1)) }

\* A single value is set in a byte.
SingleBits(lower, w) ==
    IF (lower \div BitsPerByte) \div BytesPerLong = w
    THEN {((lower \div BitsPerByte) % BytesPerLong) * BitsPerByte + (lower % BitsPerByte)}
    ELSE {}

ElementBits(e, w) == IF e.single THEN SingleBits(int(e.lo - lwrb), w)
                     ELSE RangeBits(int(e.lo - lwrb), int(e.hi - lwrb), w)

Collect(es, longs) == [w \in longs |-> UNION { ElementBits(es[i], w) : i \in DOMAIN es }]

-----------------------------------------------------------------------------
\* pi builds the set when all of its elements are constants and it is small.  A
\* constant out of bounds is an error where it is met before any other element;
\* a set of integers of unknown type is left to run time instead.
End == {"lo", "hi"}
InSet(x) == lwrb <= x /\ x <= lwrb + uprbp
Fits == (uprbp + 1) \div BitsPerLong < CompSetSze
comptime(es) ==
    Fits /\ \A i \in DOMAIN es : \A b \in End : b \in es[i].con /\ InSet(es[i][b])
Refused(es, ofint) ==
    /\ Fits
    /\ ~ofint
    /\ \E i \in DOMAIN es : \E b \in es[i].con :
         /\ ~InSet(es[i][b])
         /\ b = "lo" => "hi" \in es[i].con
         /\ \A j \in 1..(i - 1) : es[j].con = End
postcset(es) == Collect(es, 0..(uprbp \div BitsPerLong))

\* CTTOT checks every bound before it uses it.
Outside(x) == int(x - lwrb) < 0 \/ int(x - lwrb) > uprbp
OutOfSet(es) == \E i \in DOMAIN es : Outside(es[i].lo) \/ Outside(es[i].hi)
CTTOT(es) == Collect(es, 0..((uprbp + BitsPerLong) \div BitsPerLong - 1))

-----------------------------------------------------------------------------
\* Operators and relations go from long to long, = and <> from byte to byte.
ADDT(l, r) == [w \in Longs |-> l[w] \cup r[w]]
SUBT(l, r) == [w \in Longs |-> l[w] \cap (Bit \ r[w])]
MULT(l, r) == [w \in Longs |-> l[w] \cap r[w]]

RELEQ(l, r) == \A n \in 0..(width - 1) : Byte(l, n) = Byte(r, n)
RELTLE(l, r) == \A w \in Longs : l[w] \cap (Bit \ r[w]) = {}
\* The first long in which right has more decides; before and behind it, and in
\* it, left must not have more.
RELTLT(l, r) == \E w \in Longs :
                  /\ r[w] \cap (Bit \ l[w]) # {}
                  /\ \A v \in Longs : l[v] \cap (Bit \ r[v]) = {}

In(x, s) == LET indx == int(x - lwrb)
            IN  /\ 0 <= indx
                /\ indx <= uprbp
                /\ indx % BitsPerByte \in Byte(s, indx \div BitsPerByte)
INCT(x, es) == \E i \in DOMAIN es : es[i].lo <= x /\ x <= es[i].hi
\* The bits of one byte after another.
CARD(s) == LET cnt[n \in 0..width] == IF n = 0 THEN 0
                                       ELSE cnt[n - 1] + Cardinality(Byte(s, n - 1))
           IN  cnt[width]

-----------------------------------------------------------------------------
SetOperator == {"+", "-", "*"}
Relation == {"=", "<>", "<", ">", "<=", ">="}

Init == /\ interpreted \in BOOLEAN
        /\ todo = Nothing /\ operands = <<>> /\ answer = Nothing

\* What the program may evaluate with no, one and two sets waiting.
Constructed(side) == [op : {"set"}, es : side, ofint : BOOLEAN]
WithNone == Constructed(Left)
            \cup [op : {"in set"}, es : Left, ofint : BOOLEAN, x : Value]
WithOne == Constructed(Right) \cup [op : {"in"}, x : Value] \cup [op : {"card"}]
WithTwo == [op : SetOperator \cup Relation]

ASSUME ExpressionAssumption ==
    /\ Nothing \notin WithNone \cup WithOne \cup WithTwo
    /\ \A es \in Left \cup Right : \A i \in DOMAIN es :
          /\ es[i] \in [lo : Value, hi : Value, con : SUBSET End, single : BOOLEAN]
          /\ es[i].single => es[i].lo = es[i].hi

Ask == /\ todo = Nothing
       /\ \/ Len(operands) = 0 /\ todo' \in WithNone
          \/ Len(operands) = 1 /\ todo' \in WithOne
          \/ Len(operands) = 2 /\ todo' \in WithTwo
       /\ answer' = Nothing
       /\ UNCHANGED <<interpreted, operands>>

Done(s, a) == /\ todo' = Nothing /\ operands' = s /\ answer' = a
              /\ UNCHANGED interpreted
Doing(ops) == todo # Nothing /\ todo.op \in ops
push2(b) == Done(<<>>, IF b THEN 1 ELSE 0)

Refuse == /\ Doing({"set", "in set"})
          /\ Refused(todo.es, todo.ofint)
          /\ Done(operands, OutOfBounds)

Push(s) == Done(Append(operands, s), Nothing)
ConstantSet == /\ Doing({"set"})
               /\ comptime(todo.es)
               /\ Push(postcset(todo.es))
Construct == /\ Doing({"set"})
             /\ ~comptime(todo.es)
             /\ ~Refused(todo.es, todo.ofint)
             /\ IF OutOfSet(todo.es) THEN Done(operands, OutOfBounds)
                                     ELSE Push(CTTOT(todo.es))

\* The upper operand is the right one.
Operate == /\ Doing(SetOperator)
           /\ LET l == operands[1]
                  r == operands[2]
              IN Done(<<CASE todo.op = "+" -> ADDT(l, r)
                          [] todo.op = "-" -> SUBT(l, r)
                          [] todo.op = "*" -> MULT(l, r)>>, Nothing)

Compare == /\ Doing(Relation)
           /\ LET l == operands[1]
                  r == operands[2]
              IN push2(CASE todo.op = "="  -> RELEQ(l, r)
                         [] todo.op = "<>" -> ~RELEQ(l, r)
                         [] todo.op = "<"  -> RELTLT(l, r)
                         [] todo.op = ">"  -> RELTLT(r, l)
                         [] todo.op = "<=" -> RELTLE(l, r)
                         [] todo.op = ">=" -> RELTLE(r, l))

Member == Doing({"in"}) /\ push2(In(todo.x, operands[1]))

\* A set that pi builds is looked up; any other one is compared with as it stands
\* in a compiled program,
MemberOf == /\ Doing({"in set"})
            /\ ~Refused(todo.es, todo.ofint)
            /\ \/ comptime(todo.es) /\ push2(In(todo.x, postcset(todo.es)))
               \/ ~comptime(todo.es) /\ ~interpreted /\ push2(INCT(todo.x, todo.es))

\* ... and stops px: ERROR does not return, and nothing is answered.
InctUsed == /\ Doing({"in set"})
            /\ ~Refused(todo.es, todo.ofint)
            /\ ~comptime(todo.es)
            /\ interpreted
            /\ Done(<<>>, InctError)

Card == Doing({"card"}) /\ Done(<<>>, CARD(operands[1]))

Next == \/ Ask \/ Refuse \/ ConstantSet \/ Construct \/ Operate \/ Compare
        \/ Member \/ MemberOf \/ InctUsed \/ Card

Spec == Init /\ [][Next]_vars

-----------------------------------------------------------------------------
\* What the longs stand for.
Elements(s) == { x \in lwrb..(lwrb + uprbp) :
                   (x - lwrb) % BitsPerLong \in s[(x - lwrb) \div BitsPerLong] }

\* Every set expression has the value that set theory gives it, whatever way its
\* constants were built, with empty and reversed ranges and at every border of
\* bytes and longs (the comments at CTTOT.c:66 and cset.c:64); but px gives none
\* to a membership in a constructor that pi cannot evaluate (interp.c:1530).
Sets == INSTANCE PascalSets WITH
          Base <- lwrb..(lwrb + uprbp),
          operands <- [i \in DOMAIN operands |-> Elements(operands[i])]
ImplementsSets == Sets!Init /\ [][Sets!Next \/ InctUsed]_(Sets!vars)
=============================================================================
