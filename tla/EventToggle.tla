------------------------------- MODULE EventToggle -------------------------------
(****************************************************************************)
(* An interrupt handler toggles the LED, main does nothing:                  *)
(*   button  single_core/05_interrupts, both images: a falling edge on PA0   *)
(*           sets EXTI's pending bit PIF0;                                   *)
(*   timer   single_core/06_timing_leds/main_bare.c: TIM16 sets UIF.         *)
(* The NVIC latches the request when the bit goes up, and again if the bit   *)
(* is up when the handler returns.                                           *)
(****************************************************************************)
EXTENDS Integers

VARIABLES source,   \* "button" or "timer"
          setUp,    \* set-up done: "none", "edges" are caught, "interrupts" taken
          wire,     \* PA0; low while the button is pressed
          flag,     \* PIF0, UIF
          pend,     \* the NVIC's pending bit
          isr,      \* the handler's next step, or "idle"
          owed      \* history: an event has not been followed by a toggle

vars == <<source, setUp, wire, flag, pend, isr, owed>>

Init == /\ source \in {"button", "timer"}
        /\ setUp = "none"
        /\ wire \in {0, 1}
        /\ flag = FALSE /\ pend = FALSE /\ isr = "idle" /\ owed = FALSE

\* IMR1 and FTSR1, or DIER and CR1.
CatchEvents == /\ setUp = "none" /\ setUp' = "edges"
               /\ UNCHANGED <<source, wire, flag, pend, isr, owed>>

TakeInterrupts == /\ setUp = "edges" /\ setUp' = "interrupts"
                  /\ UNCHANGED <<source, wire, flag, pend, isr, owed>>

Event == /\ flag' = TRUE /\ pend' = (pend \/ ~flag) /\ owed' = TRUE

\* Presses come at any time, bounces included.
Press == /\ source = "button" /\ wire = 1 /\ wire' = 0
         /\ IF setUp = "none" THEN UNCHANGED <<flag, pend, owed>> ELSE Event
         /\ UNCHANGED <<source, setUp, isr>>
LetGo == /\ source = "button" /\ wire = 0 /\ wire' = 1
         /\ UNCHANGED <<source, setUp, flag, pend, isr, owed>>

\* An update a second; the handler is through long before.  (So nothing is lost when it
\* reads SR and writes it back.)
Update == /\ source = "timer" /\ setUp # "none"
          /\ isr = "idle" /\ ~flag
          /\ Event
          /\ UNCHANGED <<source, setUp, wire, isr>>

Enter == /\ setUp = "interrupts" /\ pend /\ isr = "idle"
         /\ pend' = FALSE /\ isr' = "test"
         /\ UNCHANGED <<source, setUp, wire, flag, owed>>

\* Slip: toggle, then clear.
LateClear == [test |-> "toggle", toggle |-> "clear", clear |-> "return"]
\* The statements of the handlers; HAL_GPIO_EXTI_IRQHandler's callback is last, too.
Order == [test |-> "clear", clear |-> "toggle", toggle |-> "return"]

Handler ==
    \/ /\ isr = "test"
       /\ isr' = IF flag THEN Order["test"] ELSE "return"
       /\ UNCHANGED <<flag, pend, owed>>
    \/ /\ isr = "clear" /\ isr' = Order["clear"]
       /\ flag' = FALSE
       /\ UNCHANGED <<pend, owed>>
    \/ /\ isr = "toggle" /\ isr' = Order["toggle"]
       /\ owed' = FALSE
       /\ UNCHANGED <<flag, pend>>
    \/ /\ isr = "return" /\ isr' = "idle"
       /\ pend' = (pend \/ flag)
       /\ UNCHANGED <<flag, owed>>

Cpu == \/ CatchEvents
       \/ TakeInterrupts
       \/ Enter
       \/ Handler /\ UNCHANGED <<source, setUp, wire>>

Next == Press \/ LetGo \/ Update \/ Cpu

----------------------------------------------------------------------------

\* The type invariant; a bit that is up has a request or a handler to it, and nothing is
\* owed but by a bit or by the handler that has cleared it.
TypeOK == /\ source \in {"button", "timer"}
          /\ setUp \in {"none", "edges", "interrupts"}
          /\ wire \in {0, 1}
          /\ {flag, pend, owed} \subseteq BOOLEAN
          /\ isr \in {"idle", "test", "clear", "toggle", "return"}
          /\ flag => pend \/ isr # "idle"
          /\ owed => flag \/ isr = "toggle"

\* "The button press will automatically trigger a specific function to control the
\* LED" (exercise.md of 05): every event is followed by a toggle, wherever in the
\* handler it falls.
EventsToggle == owed ~> ~owed
=================================================================================
