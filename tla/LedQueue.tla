------------------------------- MODULE LedQueue --------------------------------
(****************************************************************************)
(* What exercises/dual_core/01_multi_core_mailboxes promises: messages go    *)
(* from one core to the other, none is lost or merged with the next, each    *)
(* toggles the LED once.  The sender may be up to Capacity messages ahead.   *)
(****************************************************************************)
EXTENDS Integers

CONSTANT Capacity

VARIABLES waiting,  \* messages sent and not yet shown
          led       \* TRUE: on

vars == <<waiting, led>>

Init == waiting = 0 /\ led = FALSE

Send == /\ waiting < Capacity
        /\ waiting' = waiting + 1
        /\ UNCHANGED led

Show == /\ waiting > 0
        /\ waiting' = waiting - 1
        /\ led' = ~led

Next == Send \/ Show

Spec == Init /\ [][Next]_vars
================================================================================
