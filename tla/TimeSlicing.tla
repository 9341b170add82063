------------------------------ MODULE TimeSlicing -------------------------------
(****************************************************************************)
(* What single_core/11_os_preempt_two_stacks promises: NumTasks endless      *)
(* loops share one CPU in turns.  A switch may come between any two steps of *)
(* a task and a task resumes where it was interrupted.                       *)
(****************************************************************************)
EXTENDS Integers

CONSTANTS NumTasks,
          Steps     \* a task's loop is Steps steps long

VARIABLES running,  \* the task that has the CPU, -1 before the first
          position  \* how far each task is in its loop

vars == <<running, position>>

Init == /\ running = -1
        /\ position = [i \in 0 .. NumTasks - 1 |-> 0]

Step == /\ running # -1
        /\ position' = [position EXCEPT ![running] = (@ + 1) % Steps]
        /\ UNCHANGED running

Switch == /\ running' = (running + 1) % NumTasks
          /\ UNCHANGED position

Next == Step \/ Switch
Spec == Init /\ [][Next]_vars
=================================================================================
