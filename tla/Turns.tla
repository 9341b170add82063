---------------------------------- MODULE Turns ----------------------------------
(****************************************************************************)
(* What the cooperative multitasking programs promise (examples/coop1.cc,    *)
(* coop2.cc, single_core/09 and 10): NumTasks endless loops take strict      *)
(* turns, and each keeps what is its own from turn to turn.                  *)
(****************************************************************************)
EXTENDS Integers

CONSTANTS NumTasks,
          Limit    \* executions are counted modulo Limit

VARIABLES turn,    \* the task that ran last, -1 before the first
          shown    \* shown[i]: the number task i showed last

vars == <<turn, shown>>

Init == /\ turn = -1
        /\ shown = [i \in 0 .. NumTasks - 1 |-> 0]

Execute == /\ turn' = (turn + 1) % NumTasks
           /\ shown' = [shown EXCEPT ![turn'] = (@ + 1) % Limit]

Spec == Init /\ [][Execute]_vars
==================================================================================
