------------------------------- MODULE LedPatterns -------------------------------
(****************************************************************************)
(* The LEDs without input:                                                   *)
(*   blink   single_core/00_simple_led, both images;                         *)
(*   scan    single_core/01_led_patterns, both images: one light runs up and *)
(*           down the LEDs.                                                  *)
(****************************************************************************)
EXTENDS Integers

CONSTANT Leds    \* n

VARIABLES pattern,    \* "blink" or "scan"
          index,      \* led_index, i
          direction,  \* direction, dir
          lit         \* the LEDs that are on

vars == <<pattern, index, direction, lit>>

Init == /\ pattern \in {"blink", "scan"}
        /\ index = 0 /\ direction = 1
        /\ lit = {}

Blink == /\ pattern = "blink"
         /\ lit' = {0} \ lit
         /\ UNCHANGED <<pattern, index, direction>>

TurnOn == /\ pattern = "scan" /\ lit = {}
          /\ lit' = {index}
          /\ UNCHANGED <<pattern, index, direction>>

\* Slip: the ends are tested before the step.
MoveBlind == /\ pattern = "scan" /\ lit # {}
             /\ lit' = lit \ {index}
             /\ index' = index + direction
             /\ direction' = IF index \in {0, Leds - 1} THEN -direction ELSE direction
             /\ UNCHANGED pattern
Move == /\ pattern = "scan" /\ lit # {}
        /\ lit' = lit \ {index}
        /\ index' = index + direction
        /\ direction' = IF index' \in {0, Leds - 1} THEN -direction ELSE direction
        /\ UNCHANGED pattern

Next == Blink \/ TurnOn \/ Move

----------------------------------------------------------------------------

\* The type invariant: no access to leds[] outside the array, one LED at a time, and
\* the direction at an end is inward.
TypeOK == /\ pattern \in {"blink", "scan"}
          /\ index \in 0 .. Leds - 1 /\ direction \in {-1, 1}
          /\ index + direction \in 0 .. Leds - 1
          /\ lit \subseteq {index}
=================================================================================
