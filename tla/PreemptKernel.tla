----------------------------- MODULE PreemptKernel ------------------------------
(****************************************************************************)
(* single_core/11_os_preempt_two_stacks: SysTick pends PendSV and PendSV      *)
(* swaps the tasks' registers and stack pointers.  The Cortex-M4's exception *)
(* entry, priorities and return are modelled as far as the kernel uses them. *)
(*                                                                           *)
(* A task's registers are two halves, the eight that exception entry stacks  *)
(* (PC among them) and R4-R11, each shown as <<task, position in its loop>>.  *)
(* Stacks are counted in halves of a frame; at odd positions a task is in a  *)
(* call, with its locals on the stack.                                       *)
(****************************************************************************)
EXTENDS Integers, Sequences

CONSTANTS NumTasks,  \* NUM_TASKS
          Steps,     \* positions of a task's loop
          Halves,    \* size of a task's stack (uint32_t stack[256])
          Prompt     \* TRUE: main is through with its set-up before the first tick

ASSUME TasksAssumption == NumTasks \in Nat \ {0}
ASSUME StepsAssumption == Steps \in Nat \ {0} /\ Steps % 2 = 0
ASSUME HalvesAssumption == Halves \in Nat /\ Halves >= 3
ASSUME PromptAssumption == Prompt \in BOOLEAN

Task == 0 .. NumTasks - 1
Exception == {"pendsv", "systick"}

VARIABLES image,    \* "bare" or "hal"
          apart,    \* no tick comes before the CPU is through with the last one
          main,     \* statements of main executed
          prio,     \* priority of each exception, 0 the highest
          pending,  \* exceptions that are pending
          active,   \* exceptions being handled, the newest first
          pos,      \* where each handler is
          hw, sw,   \* the CPU's registers: R0-R3, R12, LR, PC, xPSR and R4-R11
          psp,      \* <<task whose stack it points into, depth>>
          onPsp,    \* Thread mode uses the PSP
          msp,      \* frames stacked on the main stack
          mem,      \* mem[i]: stack of task i, from its bottom
          sp,       \* tasks[i].sp
          current,
          fault     \* the CPU has taken a fault, whose handler loops for ever

regs == <<hw, sw, psp, onPsp, msp, mem>>
kernel == <<sp, current>>
build == <<image, apart>>
vars == <<build, main, prio, pending, active, pos, regs, kernel, fault>>

Null == <<-1, 0>>
InMain == <<-1, 0>>      \* registers of main
InHandler == <<-1, 1>>   \* registers of a handler

Init == /\ image \in {"bare", "hal"}
        /\ apart \in BOOLEAN
        /\ main = 0
        /\ prio = [e \in Exception |-> 0]
        /\ pending = {} /\ active = <<>>
        /\ pos = [e \in Exception |-> "return"]
        /\ hw = InMain /\ sw = InMain
        /\ psp = Null /\ onPsp = FALSE
        /\ msp = <<>>
        /\ mem = [i \in Task |-> [d \in 1 .. Halves |-> Null]]
        /\ sp = [i \in Task |-> Null]
        /\ current = -1
        /\ fault = FALSE

----------------------------------------------------------------------------
(* The processor.                                                           *)

Level == IF active = <<>> THEN 16 ELSE prio[Head(active)]
Takeable == {e \in pending : prio[e] < Level}

\* The next instruction is executed, not preempted.
Quiet == ~fault /\ Takeable = {}
Handling(e) == Quiet /\ active # <<>> /\ Head(active) = e
Thread == Quiet /\ active = <<>>

\* Statements of main that the kernel depends on.
Program == IF image = "bare" THEN <<"stacks", "shp", "systick_config">>
                             ELSE <<"hal_init", "stacks", "pendsv_priority">>
Ticking == \E k \in 1 .. main : Program[k] \in {"systick_config", "hal_init"}

Tick == /\ Ticking
        /\ Prompt => main = Len(Program)
        /\ apart => fault \/ (pending = {} /\ active = <<>>)
        /\ pending' = pending \cup {"systick"}
        /\ UNCHANGED <<build, main, prio, active, pos, regs, kernel, fault>>

\* Of several, the highest priority, then the lowest number: PendSV is 14, SysTick 15.
Enter(e) == /\ ~fault /\ e \in Takeable
            /\ \A f \in Takeable : prio[e] < prio[f] \/ (prio[e] = prio[f] /\ (e = "pendsv" \/ e = f))
            /\ active' = <<e>> \o active
            /\ pending' = pending \ {e}
            /\ pos' = [pos EXCEPT ![e] = IF e = "pendsv" THEN "save" ELSE "pend"]
            /\ IF active = <<>> /\ onPsp
               THEN /\ psp' = <<psp[1], psp[2] + 1>>
                    /\ mem' = [mem EXCEPT ![psp[1]][psp[2] + 1] = hw]
                    /\ UNCHANGED msp
               ELSE /\ msp' = <<hw>> \o msp
                    /\ UNCHANGED <<psp, mem>>
            /\ hw' = InHandler
            /\ UNCHANGED <<build, main, prio, sw, onPsp, kernel, fault>>

Unstack(toPsp) == IF toPsp
                  THEN /\ hw' = mem[psp[1]][psp[2]]
                       /\ psp' = <<psp[1], psp[2] - 1>>
                       /\ UNCHANGED msp
                  ELSE /\ hw' = Head(msp)
                       /\ msp' = Tail(msp)
                       /\ UNCHANGED psp

----------------------------------------------------------------------------
(* main and the tasks.                                                      *)

\* xPSR, PC and the zeroes below them: the task at the start of its loop.
BuildStacks == /\ mem' = [i \in Task |-> [mem[i] EXCEPT ![1] = <<i, 0>>, ![2] = <<i, 0>>]]
               /\ sp' = [i \in Task |-> <<i, 2>>]
               /\ UNCHANGED prio

\* SHP[1] is BusFault's priority; SysTick_Config sets SysTick's to the lowest,
\* HAL_Init to TICK_INT_PRIORITY.
SetPriority(e, p) == prio' = [prio EXCEPT ![e] = p] /\ UNCHANGED <<mem, sp>>

Main == /\ Thread /\ hw = InMain
        /\ main < Len(Program)
        /\ main' = main + 1
        /\ CASE Program[main + 1] = "stacks" -> BuildStacks
             [] Program[main + 1] = "shp" -> UNCHANGED <<mem, sp, prio>>
             [] Program[main + 1] = "systick_config" -> SetPriority("systick", 15)
             [] Program[main + 1] = "hal_init" -> SetPriority("systick", 0)
             [] Program[main + 1] = "pendsv_priority" -> SetPriority("pendsv", 15)
        /\ UNCHANGED <<build, pending, active, pos, hw, sw, psp, onPsp, msp, current, fault>>

\* One step of a task's loop, into a call or out of it; what it does to the LED is left
\* out.
TaskStep(i) == /\ Thread /\ hw[1] = i
               /\ hw' = <<i, (hw[2] + 1) % Steps>>
               /\ sw' = <<sw[1], (sw[2] + 1) % Steps>>
               /\ IF hw[2] % 2 = 0
                  THEN /\ psp' = <<psp[1], psp[2] + 1>>
                       /\ mem' = [mem EXCEPT ![psp[1]][psp[2] + 1] = <<i, hw[2] + 1>>]
                  ELSE /\ psp' = <<psp[1], psp[2] - 1>>
                       /\ UNCHANGED mem
               /\ UNCHANGED <<build, main, prio, pending, active, pos, onPsp, msp, kernel, fault>>

----------------------------------------------------------------------------
(* The handlers.                                                            *)

\* The HAL image's handler also counts HAL's tick, which only HAL_Delay reads: how many
\* steps a task spends waiting is left open.
SysTick == /\ Handling("systick") /\ pos["systick"] = "pend"
           /\ pending' = pending \cup {"pendsv"}
           /\ pos' = [pos EXCEPT !["systick"] = "return"]
           /\ UNCHANGED <<build, main, prio, active, regs, kernel, fault>>

\* The store to ICSR takes effect an instruction or two later (there is no barrier
\* after it): the handler may return before PendSV, though pending, is taken.
ReturnSysTick == /\ ~fault /\ active # <<>> /\ Head(active) = "systick"
                 /\ pos["systick"] = "return"
                 /\ active' = Tail(active)
                 /\ Unstack(Tail(active) = <<>> /\ onPsp)
                 /\ UNCHANGED <<build, main, prio, pending, pos, sw, onPsp, mem, kernel, fault>>

PendSV(from, to) == /\ Handling("pendsv") /\ pos["pendsv"] = from
                    /\ pos' = [pos EXCEPT !["pendsv"] = to]
                    /\ UNCHANGED <<build, main, prio, pending, active, hw, onPsp, msp, fault>>

\* Slip: room is made for R4-R11 and nothing stored there.
SaveNoRegisters == /\ PendSV("save", "pick")
                   /\ sp' = IF current < 0 THEN sp
                            ELSE [sp EXCEPT ![current] = <<psp[1], psp[2] + 1>>]
                   /\ UNCHANGED <<sw, psp, mem, current>>
\* stmdb leaves PSP as it is: the new top is in r0 and goes to tasks[current].sp.
Save == /\ PendSV("save", "pick")
        /\ IF current < 0
           THEN UNCHANGED <<mem, sp>>
           ELSE /\ mem' = [mem EXCEPT ![psp[1]][psp[2] + 1] = sw]
                /\ sp' = [sp EXCEPT ![current] = <<psp[1], psp[2] + 1>>]
        /\ UNCHANGED <<sw, psp, current>>

\* Slip: the round robin index is not advanced.
PickFirst == /\ PendSV("pick", "load")
             /\ current' = 0
             /\ UNCHANGED <<sw, psp, mem, sp>>
Pick == /\ PendSV("pick", "load")
        /\ current' = IF current + 1 >= NumTasks THEN 0 ELSE current + 1
        /\ UNCHANGED <<sw, psp, mem, sp>>

\* Slip: ldmia without the write-back of r0.
LoadNoWriteBack == /\ PendSV("load", "return")
                   /\ sw' = mem[sp[current][1]][sp[current][2]]
                   /\ psp' = sp[current]
                   /\ UNCHANGED <<mem, kernel>>
\* A stack pointer that was never set points at the vector table.
Load == /\ PendSV("load", "return")
        /\ IF sp[current] = Null
           THEN sw' = Null /\ psp' = Null
           ELSE /\ sw' = mem[sp[current][1]][sp[current][2]]
                /\ psp' = <<sp[current][1], sp[current][2] - 1>>
        /\ UNCHANGED <<mem, kernel>>

\* EXC_RETURN 0xFFFFFFFD, a return to Thread mode on the PSP.  It faults if another
\* exception is active (INVPC) or if there is no frame where the PSP points.
ReturnPendSV == /\ Handling("pendsv") /\ pos["pendsv"] = "return"
                /\ IF Len(active) > 1 \/ psp = Null
                   THEN fault' = TRUE /\ UNCHANGED <<active, hw, psp, onPsp, msp>>
                   ELSE /\ active' = <<>> /\ onPsp' = TRUE
                        /\ Unstack(TRUE)
                        /\ UNCHANGED fault
                /\ UNCHANGED <<build, main, prio, pending, pos, sw, mem, kernel>>

PendSVHandler == Save \/ Pick \/ Load \/ ReturnPendSV
Cpu == \/ \E e \in Exception : Enter(e)
       \/ Main
       \/ \E i \in Task : TaskStep(i)
       \/ SysTick
       \/ ReturnSysTick
       \/ PendSVHandler
Next == Tick \/ Cpu

\* The timer runs, the CPU executes, and a task that is given the CPU again and again
\* executes: a slice is 40000 cycles, in the HAL image 4000.
Fairness == /\ WF_vars(Tick) /\ WF_vars(Cpu)
            /\ \A i \in Task : SF_vars(TaskStep(i))

Spec == Init /\ [][Next]_vars
FairSpec == Spec /\ Fairness

----------------------------------------------------------------------------

Value == {-1} \X {0, 1} \cup Task \X (0 .. Steps - 1)
Pointer == {Null} \cup Task \X (0 .. Halves)

\* The type invariant; no task's stack grows past its end.
TypeOK == /\ image \in {"bare", "hal"} /\ apart \in BOOLEAN
          /\ main \in 0 .. Len(Program)
          /\ prio \in [Exception -> 0 .. 15]
          /\ pending \subseteq Exception
          /\ active \in {<<>>, <<"pendsv">>, <<"systick">>, <<"systick", "pendsv">>,
                         <<"pendsv", "systick">>}
          /\ pos \in [Exception -> {"pend", "save", "pick", "load", "return"}]
          /\ hw \in Value /\ sw \in Value
          /\ psp \in Pointer /\ onPsp \in BOOLEAN
          /\ mem \in [Task -> [1 .. Halves -> Value]]
          /\ sp \in [Task -> Pointer]
          /\ current \in -1 .. NumTasks - 1
          /\ fault \in BOOLEAN

\* Where a task's registers are: in the CPU or on its stack.
HwOf(i) == IF psp[1] # i THEN mem[i][sp[i][2] - 1]
           ELSE IF active = <<>> THEN hw ELSE mem[i][psp[2]]
SwOf(i) == IF psp[1] # i THEN mem[i][sp[i][2]] ELSE sw

\* How far the task is; -1 if its registers are not both its own and in step.
Position(i) == IF sp[i] = Null THEN 0
               ELSE IF HwOf(i) = SwOf(i) /\ HwOf(i)[1] = i THEN HwOf(i)[2] ELSE -1

Slices == INSTANCE TimeSlicing WITH running <- psp[1],
                                    position <- [i \in Task |-> Position(i)]

\* "The next task resumes at exactly the instruction it was interrupted on"
\* (exercise.md), with all its registers, and the tasks take turns: wherever the
\* tick falls, also inside PendSV.
ImplementsSlices == Slices!Spec

\* "They just loop. Preemption is the only reason both ever get to run"
\* (main_bare.c), in the HAL image: every task goes through its loop for ever, if a
\* tick's handlers are through before the next tick.
EveryTaskRuns == image = "hal" /\ apart =>
    \A i \in Task : \A k \in 0 .. Steps - 1 : []<>(Position(i) = k)

\* "It runs only once everything else has finished" (main_bare.c): the switch never
\* preempts another handler.
SwitchIsLast == \A k \in 1 .. Len(active) - 1 : active[k] # "pendsv"
=================================================================================
