------------------------------- MODULE SingleCore -------------------------------
(****************************************************************************)
(* The single-core programs with small state side by side: Init chooses the  *)
(* one on the board, the variables of the others rest.  (Exercise 11 has a   *)
(* run of its own.)                                                          *)
(****************************************************************************)
EXTENDS CoopKernel

CONSTANTS Word,               \* TickTasks
          Slow, Fast, Stall,  \* TickTasks
          Pins,               \* ButtonWatch
          Leds,               \* LedPatterns
          Largest, Room       \* SerialCounter, whose counter has a width of its own

Power[k \in 0 .. Room] == IF k = 0 THEN 1 ELSE 10 * Power[k - 1]

\* The loops of 07 are much faster than the tick wraps; buf holds the largest number.
ASSUME PaceAssumption == /\ {Word, Stall, Slow, Fast, Pins, Leds, Largest, Room} \subseteq Nat \ {0}
                         /\ Fast <= Slow /\ Slow + 1 + 4 * Stall < Word
                         /\ Leds >= 2 /\ 4 <= Largest /\ Largest < Power[Room]

VARIABLES program,                                                    \* on the board
          jumpers, here, self, filled, word, ran, runs, printed,      \* 09, coop1
          timing, tick, gap, task, due, lastRun, since,               \* 06 (HAL), 07
          source, setUp, wire, flag, pend, isr, owed,                 \* 05, 06 (bare)
          poller, level, last, button, phase, sample, told,           \* 02, 04
          pattern, index, direction, lit,                             \* 00, 01
          i, step, value, buf, line                                   \* 03

Peers == INSTANCE CoopSingleStack
Ticks == INSTANCE TickTasks
Events == INSTANCE EventToggle
Buttons == INSTANCE ButtonWatch
Patterns == INSTANCE LedPatterns
Counter == INSTANCE SerialCounter WITH Word <- Largest + 1

peerVars == <<jumpers, here, self, filled, word, ran, runs, printed>>
tickVars == <<timing, tick, gap, task, due, lastRun, since>>
eventVars == <<source, setUp, wire, flag, pend, isr, owed>>
buttonVars == <<poller, level, last, button, phase, sample, told>>
patternVars == <<pattern, index, direction, lit>>
counterVars == <<i, step, value, buf, line>>
singleVars == <<program, kernelVars, peerVars, tickVars, eventVars, buttonVars, patternVars, counterVars>>

Program == {"kernel", "peers", "ticks", "events", "buttons", "patterns", "counter"}

\* Those at rest are in one of their initial states, always the same.
SingleInit ==
    /\ program \in Program
    /\ KernelInit /\ (program # "kernel" => kernel = "setjmp")
    /\ Peers!Init /\ (program # "peers" => jumpers = "led")
    /\ Ticks!Init /\ (program # "ticks" => timing = "bare")
    /\ Events!Init /\ (program # "events" => source = "button" /\ wire = 1)
    /\ Buttons!Init /\ (program # "buttons" => poller = "watch" /\ \A b \in 0 .. Pins - 1 : level[b] = 1)
    /\ Patterns!Init /\ (program # "patterns" => pattern = "blink")
    /\ Counter!Init

InKernel(A) == /\ program = "kernel" /\ A
               /\ UNCHANGED <<program, peerVars, tickVars, eventVars, buttonVars, patternVars, counterVars>>
InPeers(A) == /\ program = "peers" /\ A
              /\ UNCHANGED <<program, kernelVars, tickVars, eventVars, buttonVars, patternVars, counterVars>>
InTicks(A) == /\ program = "ticks" /\ A
              /\ UNCHANGED <<program, kernelVars, peerVars, eventVars, buttonVars, patternVars, counterVars>>
InEvents(A) == /\ program = "events" /\ A
               /\ UNCHANGED <<program, kernelVars, peerVars, tickVars, buttonVars, patternVars, counterVars>>
InButtons(A) == /\ program = "buttons" /\ A
                /\ UNCHANGED <<program, kernelVars, peerVars, tickVars, eventVars, patternVars, counterVars>>
InPatterns(A) == /\ program = "patterns" /\ A
                 /\ UNCHANGED <<program, kernelVars, peerVars, tickVars, eventVars, buttonVars, counterVars>>
InCounter(A) == /\ program = "counter" /\ A
                /\ UNCHANGED <<program, kernelVars, peerVars, tickVars, eventVars, buttonVars, patternVars>>

SingleNext == \/ InKernel(KernelNext)
              \/ InPeers(Peers!Next)
              \/ InTicks(Ticks!Next)
              \/ InEvents(Events!Next)
              \/ InButtons(Buttons!Next)
              \/ InPatterns(Patterns!Next)
              \/ InCounter(Counter!Next)

\* The CPU executes; nobody need press a button and no timer need run.
SingleFairness == /\ WF_singleVars(InKernel(KernelNext))
                  /\ WF_singleVars(InPeers(Peers!Next))
                  /\ WF_singleVars(InEvents(Events!Cpu))
                  /\ WF_singleVars(InButtons(Buttons!Loop))

SingleSpec == SingleInit /\ [][SingleNext]_singleVars /\ SingleFairness

----------------------------------------------------------------------------
(* What the modules state of their programs.                                *)

\* Every variable keeps its type, and what the modules add to it: no jump into a context
\* that was never saved (09), no request forgotten by the NVIC (05), no line but of a
\* change that was seen (02), no LED outside leds[] (01), no digit outside buf[] (03).
SingleTypeOK == /\ KernelTypeOK /\ Peers!TypeOK /\ Ticks!TypeOK /\ Events!TypeOK
                /\ Buttons!TypeOK /\ Patterns!TypeOK /\ Counter!TypeOK

\* 10, coop2: yield always finds the way back, the turns go on for ever.
TurnsGoOn == program = "kernel" => \A k \in Task : []<>(turn = k)

\* 09, coop1: the two tasks alternate.
PingPong == Peers!PingPong

\* 06, 07: no task early, none late, across the wrap of the tick.
KeepsPeriod == program = "ticks" => Ticks!KeepsPeriod

\* 05, 06: every event is followed by a toggle.
EventsToggle == Events!EventsToggle

\* 02, 04: the level a pin comes to rest at is the one that is told.
LevelsReported == program = "buttons" => Buttons!LevelsReported

\* 03: a line shows the number whose turn it is.
NumberShown == Counter!NumberShown
=================================================================================
