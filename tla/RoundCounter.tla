----------------------------- MODULE RoundCounter ------------------------------
(****************************************************************************)
(* What exercises/dual_core/04_atomic_increment promises its reader, with    *)
(* neither flags nor semaphore: a round is N increments of every core, made  *)
(* in one of two modes, and then one line that reports their final total.    *)
(* In ATOMIC mode an increment is one step; in RACY mode it may bring the    *)
(* total back to any smaller value, because its core loaded it earlier.      *)
(****************************************************************************)
EXTENDS Integers

CONSTANTS N, M4, M0P

Core == {M4, M0P}

VARIABLES running,  \* a round is under way
          atomic,   \* its mode
          share,    \* increments each core has made in it
          total,    \* what the counter shows
          report    \* the last line, <<>> before the first

vars == <<running, atomic, share, total, report>>

Init == /\ running = FALSE
        /\ atomic = 0
        /\ share = [c \in Core |-> 0]
        /\ total = 0
        /\ report = <<>>

Start == /\ ~running
         /\ running' = TRUE
         /\ atomic' \in {0, 1}
         /\ UNCHANGED <<share, total, report>>

Increment(c) == /\ running /\ share[c] < N
                /\ share' = [share EXCEPT ![c] = @ + 1]
                /\ total' \in IF atomic = 1 THEN {total + 1}
                              ELSE 1 .. share[M4] + share[M0P] + 1
                /\ UNCHANGED <<running, atomic, report>>

Report == /\ running /\ \A c \in Core : share[c] = N
          /\ report' = <<[atomic |-> atomic, actual |-> total, lost |-> 2 * N - total]>>
          /\ running' = FALSE
          /\ atomic' = 0
          /\ share' = [c \in Core |-> 0]
          /\ total' = 0

Next == Start \/ (\E c \in Core : Increment(c)) \/ Report

Spec == Init /\ [][Next]_vars
================================================================================
