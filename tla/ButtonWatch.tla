------------------------------- MODULE ButtonWatch -------------------------------
(****************************************************************************)
(* Loops that poll buttons:                                                  *)
(*   watch    single_core/02_buttons_test, both images: a line on the serial *)
(*            port for every change of a pin;                                *)
(*   follow   single_core/04_buttons_and_leds, both images: LD1 is on while  *)
(*            B1 is pressed.                                                 *)
(****************************************************************************)
EXTENDS Integers

CONSTANT Pins     \* N, the number of pins watched

VARIABLES poller,   \* "watch" or "follow"
          level,    \* what the pins read
          last,     \* the levels last seen, -1 before the first
          button,   \* the loop's index
          phase,    \* "baseline", "sample", or "tell"
          sample,   \* level, s
          told      \* told[i]: the level the lines, or the LED, tell of pin i

vars == <<poller, level, last, button, phase, sample, told>>

Button == 0 .. (IF poller = "follow" THEN 0 ELSE Pins - 1)

Init == /\ poller \in {"watch", "follow"}
        /\ level \in [0 .. Pins - 1 -> {0, 1}]
        /\ last = [b \in 0 .. Pins - 1 |-> -1]
        /\ button = 0
        /\ phase = IF poller = "watch" THEN "baseline" ELSE "sample"
        /\ sample = 1
        /\ told = [b \in 0 .. Pins - 1 |-> 1]

Move == /\ \E b \in Button : level' = [level EXCEPT ![b] = 1 - @]
        /\ UNCHANGED <<poller, last, button, phase, sample, told>>

NextButton == button' = IF button + 1 \in Button THEN button + 1 ELSE 0

\* The levels before the first line; a reader of the lines starts from them.
Baseline == /\ phase = "baseline"
            /\ last' = [last EXCEPT ![button] = level[button]]
            /\ told' = [told EXCEPT ![button] = level[button]]
            /\ NextButton
            /\ phase' = IF button' = 0 THEN "sample" ELSE "baseline"
            /\ UNCHANGED <<poller, level, sample>>

Sample == /\ phase = "sample"
          /\ sample' = level[button]
          /\ IF poller = "watch" /\ sample' = last[button]
             THEN NextButton /\ UNCHANGED <<phase, last>>
             ELSE /\ phase' = "tell"
                  /\ last' = [last EXCEPT ![button] = sample']
                  /\ UNCHANGED button
          /\ UNCHANGED <<poller, level, told>>

\* Slip: the pin is read again for the line.
TellPin == /\ phase = "tell" /\ phase' = "sample"
           /\ told' = [told EXCEPT ![button] = level[button]]
           /\ NextButton
           /\ UNCHANGED <<poller, level, last, sample>>
\* The line, sent a character at a time; BSRR or BRR.
Tell == /\ phase = "tell" /\ phase' = "sample"
        /\ told' = [told EXCEPT ![button] = sample]
        /\ NextButton
        /\ UNCHANGED <<poller, level, last, sample>>

Loop == Baseline \/ Sample \/ Tell
Next == Move \/ Loop

----------------------------------------------------------------------------

\* The type invariant; what was told is what was seen, but for the line under way.
TypeOK == /\ poller \in {"watch", "follow"}
          /\ level \in [0 .. Pins - 1 -> {0, 1}] /\ told \in [0 .. Pins - 1 -> {0, 1}]
          /\ last \in [0 .. Pins - 1 -> {-1, 0, 1}]
          /\ button \in Button /\ sample \in {0, 1}
          /\ phase \in {"baseline", "sample", "tell"}
          /\ \A b \in Button : last[b] # told[b] =>
                 last[b] = -1 \/ (phase = "tell" /\ button = b)

\* "Print every state change" (02/main_bare.c), "on while B1 is held" (04/main_hal.c):
\* when a pin comes to rest, the lines, or the LED, come to tell its level for good,
\* whatever it did while a line was being sent.
LevelsReported == \A b \in 0 .. Pins - 1, x \in {0, 1} :
    []<>(level[b] # x) \/ <>[](b \in Button => told[b] = x)
=================================================================================
