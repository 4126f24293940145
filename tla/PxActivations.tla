---------------------------- MODULE PxActivations ----------------------------
(***************************************************************************)
(* What Pascal promises of procedure calls, with no display: every         *)
(* activation of a block knows its environment, the activations of the     *)
(* enclosing blocks it was created in.  A procedure passed as a parameter  *)
(* takes its environment along; a goto ends every activation younger than  *)
(* the one that declares the label; an activation that ends closes its     *)
(* files and gives back the current file of its caller.                    *)
(***************************************************************************)
EXTENDS PxProgram

VARIABLES acts,   \* the activations, oldest first
          open,   \* the activations whose file is open
          cur     \* the activation whose file is current, 0: standard output

avars == <<acts, open, cur>>

NoProc == [rtn |-> Main, env |-> <<>>]

me == acts[Len(acts)]

AInit == /\ acts = <<[rtn |-> Main, env |-> <<1>>, formal |-> NoProc, file |-> 0]>>
         /\ open = {}
         /\ cur = 0

Enter(r, env, formal) ==
    /\ Len(acts) < MaxDepth
    /\ acts' = Append(acts, [rtn |-> r, env |-> Append(env, Len(acts) + 1),
                             formal |-> formal, file |-> cur])
    /\ UNCHANGED <<open, cur>>

ProcValue(q) == [rtn |-> q, env |-> SubSeq(me.env, 1, Level(q) - 1)]

ProcValues == { ProcValue(q) : q \in { p \in Passable : Visible(p, me.rtn) } }
              \cup { acts[me.env[l]].formal :
                       l \in { k \in 1..Len(me.env) : Nest[me.rtn][k] \in TakesFormal } }

ACall(q) == /\ acts # <<>>
            /\ Visible(q, me.rtn)
            /\ \E f \in IF q \in TakesFormal THEN ProcValues ELSE {NoProc} :
                 Enter(q, ProcValue(q).env, f)

ACallFormal(l) == /\ Nest[me.rtn][l] \in TakesFormal
                  /\ LET f == acts[me.env[l]].formal IN Enter(f.rtn, f.env, NoProc)

\* Activations younger than n end; the oldest of them gives the file back.
Leave(n) == /\ acts' = SubSeq(acts, 1, n)
            /\ open' = { f \in open : f <= n }
            /\ cur' = IF n < Len(acts) THEN acts[n + 1].file ELSE cur

AReturn == acts # <<>> /\ Leave(Len(acts) - 1)

AGoto(l) == Nest[me.rtn][l] \in HasLabel /\ Leave(me.env[l])

AUse(l) == /\ Nest[me.rtn][l] \in HasFile
           /\ open' = open \cup {me.env[l]}
           /\ cur' = me.env[l]
           /\ UNCHANGED acts

AUseOutput == acts # <<>> /\ cur' = 0 /\ UNCHANGED <<acts, open>>

ANext == \/ \E q \in Routine : ACall(q)
         \/ /\ acts # <<>>
            /\ \E l \in 1..Len(me.env) : ACallFormal(l) \/ AGoto(l) \/ AUse(l)
         \/ AReturn
         \/ AUseOutput

ASpec == AInit /\ [][ANext]_avars
=============================================================================
