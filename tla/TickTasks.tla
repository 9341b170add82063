-------------------------------- MODULE TickTasks --------------------------------
(****************************************************************************)
(* Loops that are paced by a counter of ticks which wraps:                   *)
(*   bare    single_core/07_cooperative_scheduling/main_bare.c, whose        *)
(*           GetTick is no clock but counts its own calls;                   *)
(*   hal     its HAL image, where the SysTick handler counts;                *)
(*   delay   single_core/06_timing_leds/main_hal.c, toggle and HAL_Delay.    *)
(****************************************************************************)
EXTENDS Integers

CONSTANTS Word,        \* 2^32
          Slow, Fast,  \* the periods of task 1 and task 2, in ticks
          Stall        \* ticks the CPU may take from one step to its next

VARIABLES timing,   \* "bare", "hal" or "delay"
          tick,     \* uwTick, fake_tick
          gap,      \* ticks since the CPU's last step
          task,     \* the task that is called
          due,      \* it has found its period over
          lastRun,  \* last_run, last; in HAL_Delay tickstart
          since     \* history: since[i] ticks have passed since lastRun[i] was set

vars == <<timing, tick, gap, task, due, lastRun, since>>

Tasks == IF timing = "delay" THEN {1} ELSE {1, 2}

\* "> 500"; HAL_Delay adds a tick to the time it is asked for.
Least(i) == (IF i = 1 THEN Slow ELSE Fast) + (IF timing = "hal" THEN 0 ELSE 1)

\* For "delay", the state after the first toggle.
Init == /\ timing \in {"bare", "hal", "delay"}
        /\ tick = 0 /\ gap = 0
        /\ task = 1 /\ due = FALSE
        /\ lastRun = [i \in {1, 2} |-> 0] /\ since = [i \in {1, 2} |-> 0]

\* HAL_IncTick.  Ticks of one run that never comes are counted up to Word only.
Count == /\ tick' = (tick + 1) % Word
         /\ since' = [i \in {1, 2} |-> IF i \in Tasks /\ since[i] < Word THEN since[i] + 1 ELSE since[i]]

SysTick == /\ timing # "bare" /\ gap < Stall
           /\ gap' = gap + 1
           /\ Count
           /\ UNCHANGED <<timing, task, due, lastRun>>

\* The value is tick'.
GetTick == IF timing = "bare" THEN Count ELSE UNCHANGED <<tick, since>>

Return == task' = IF timing = "delay" THEN 1 ELSE 3 - task

\* Slip: no difference, so that the test is wrong once the counter has wrapped.
TestByDeadline == /\ ~due /\ GetTick /\ gap' = 0
                  /\ IF tick' >= lastRun[task] + Least(task)
                     THEN due' = TRUE /\ UNCHANGED task
                     ELSE Return /\ UNCHANGED due
                  /\ UNCHANGED <<timing, lastRun>>
Test == /\ ~due /\ GetTick /\ gap' = 0
        /\ IF (tick' - lastRun[task]) % Word >= Least(task)
           THEN due' = TRUE /\ UNCHANGED task
           ELSE Return /\ UNCHANGED due
        /\ UNCHANGED <<timing, lastRun>>

\* The LED is toggled and the counter read again.
Run == /\ due /\ due' = FALSE /\ gap' = 0
       /\ IF timing = "bare" THEN tick' = (tick + 1) % Word ELSE UNCHANGED tick
       /\ lastRun' = [lastRun EXCEPT ![task] = tick']
       /\ since' = [i \in {1, 2} |-> IF i = task THEN 0
                                     ELSE IF timing = "bare" THEN since[i] + 1 ELSE since[i]]
       /\ Return
       /\ UNCHANGED timing

Next == SysTick \/ Test \/ Run

----------------------------------------------------------------------------

\* The type invariant.
TypeOK == /\ timing \in {"bare", "hal", "delay"}
          /\ tick \in 0 .. Word - 1 /\ gap \in 0 .. Stall
          /\ task \in Tasks /\ due \in BOOLEAN
          /\ lastRun \in [{1, 2} -> 0 .. Word - 1]
          /\ since \in [{1, 2} -> Nat]

\* "Blink slowly (every 500 ms)", "quickly (every 100 ms)" (07/main_hal.c): no task
\* runs before its period is over and none is later than a pass of the loop, also when
\* the counter wraps in between or moves on between its two reads.
KeepsPeriod == /\ due => since[task] >= Least(task)
               /\ \A i \in Tasks : since[i] < Least(i) + 4 * Stall
=================================================================================
