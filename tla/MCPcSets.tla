------------------------------ MODULE MCPcSets ------------------------------
(***************************************************************************)
(* Sets of nine values in three longs of two bytes, ints of five bits.     *)
(***************************************************************************)
EXTENDS PcSets

\* Ranges and single values with every choice of ends that pi can evaluate.
Range(values) ==
    [lo : values, hi : values, con : SUBSET {"lo", "hi"}, single : {FALSE}]
Single(values) ==
    { [lo |-> x, hi |-> x, con |-> c, single |-> TRUE] :
        x \in values, c \in {{}, {"lo", "hi"}} }

\* Both sides of the bounds of the type and of a border between two longs.
Edge == {lwrb - 1, lwrb, lwrb + BitsPerLong - 1, lwrb + BitsPerLong,
         lwrb + uprbp, lwrb + uprbp + 1}

MClwrb == -2

\* All values of the type, those next to them, and the ends of the ints.
Near == (lwrb - 1)..(lwrb + uprbp + 1) \cup {-(MaxInt + 1), MaxInt}

One == Range(Near) \cup Single(Near)
Two == { <<d, e>> : d \in Range(Edge), e \in Single(Edge) }
       \cup { <<e, d>> : d \in Range(Edge), e \in Single(Edge) }

MCLeft == { <<e>> : e \in One } \cup Two \cup {<<>>}
MCRight == { <<e>> : e \in { d \in One : d.con = {} } }
=============================================================================
