------------------------------- MODULE CoopKernel -------------------------------
(****************************************************************************)
(* The cooperative kernels with a stack for each task:                       *)
(*   setjmp    single_core/10_os_coop_two_stacks, both images;               *)
(*   ucontext  examples/coop2.cc.                                            *)
(* A context is a saved stack pointer and program counter; what the stack    *)
(* holds is not saved with it.  yield() is a call: its return address, and   *)
(* with it the way back into the task and the task's locals, is on the stack *)
(* of the task, in a frame nobody protects.                                  *)
(****************************************************************************)
EXTENDS Integers

CONSTANTS NumTasks,   \* NUM_TASKS
          Limit       \* counters run modulo Limit

ASSUME KernelAssumption == NumTasks \in Nat \ {0} /\ Limit \in Nat \ {0}

VARIABLES kernel,     \* which of the two
          cpu,        \* what the CPU executes: "main", "dispatch", a task's "work" and
                      \* "yield", or the "return" from yield
          sp,         \* the stack it executes on: a task's, or Main
          current,    \* current, current_task
          next,       \* ucontext: the scheduler's local
          started,    \* setjmp: tasks[i].started
          context,    \* tasks[i].context, task_ctx[i]
          scheduler,  \* scheduler_context: where a yield goes on, or "nowhere"
          frame,      \* frame[i]: whose frame is on stack i, and its counter
          turn, shown \* output: the task that executed last, its number

kernelVars == <<kernel, cpu, sp, current, next, started, context, scheduler, frame, turn, shown>>

Main == -1
Task == 0 .. NumTasks - 1
NoContext == [sp |-> Main, at |-> "nowhere"]
NewFrame(i) == [task |-> i, count |-> 0]

KernelInit ==
    /\ kernel \in {"setjmp", "ucontext"}
    /\ cpu = "main" /\ sp = Main
    /\ current = 0 /\ next = 0
    /\ started = [i \in Task |-> FALSE]
    /\ context = [i \in Task |-> NoContext]
    /\ scheduler = "nowhere"
    /\ frame = [i \in Task |-> NewFrame(Main)]
    /\ turn = -1 /\ shown = [i \in Task |-> 0]

\* Slip: setjmp(scheduler_context) in main, ahead of the call: a yield goes on behind the
\* call, in `while (1);`.
EnterSchedulerLate ==
    /\ kernel = "setjmp" /\ cpu = "main"
    /\ current' = -1
    /\ scheduler' = "end"
    /\ cpu' = "dispatch"
    /\ UNCHANGED <<kernel, sp, next, started, context, frame, turn, shown>>

\* main calls scheduler, whose first statement is setjmp(scheduler_context).
EnterScheduler ==
    /\ kernel = "setjmp" /\ cpu = "main"
    /\ current' = -1
    /\ scheduler' = "dispatch"
    /\ cpu' = "dispatch"
    /\ UNCHANGED <<kernel, sp, next, started, context, frame, turn, shown>>

\* getcontext and makecontext for every task.
MakeContexts ==
    /\ kernel = "ucontext" /\ cpu = "main"
    /\ context' = [i \in Task |-> [sp |-> i, at |-> "entry"]]
    /\ cpu' = "dispatch"
    /\ UNCHANGED <<kernel, sp, current, next, started, scheduler, frame, turn, shown>>

\* start_on_stack, or the first swapcontext: task i begins on stack s.
Enter(i, s) == /\ sp' = s /\ cpu' = "work"
               /\ frame' = [frame EXCEPT ![s] = NewFrame(i)]

\* longjmp, or a later swapcontext: on in yield, on the stack that was saved.
Resume(i) == /\ sp' = context[i].sp /\ cpu' = "return"
             /\ UNCHANGED frame

\* Slip: every task is started on the first stack.
SchedulerOneStack ==
    /\ kernel = "setjmp" /\ cpu = "dispatch"
    /\ current' = (current + 1) % NumTasks
    /\ IF started[current'] THEN Resume(current') ELSE Enter(current', 0)
    /\ started' = [started EXCEPT ![current'] = TRUE]
    /\ UNCHANGED <<kernel, next, context, scheduler, turn, shown>>

Scheduler ==
    /\ kernel = "setjmp" /\ cpu = "dispatch"
    /\ current' = (current + 1) % NumTasks
    /\ IF started[current'] THEN Resume(current') ELSE Enter(current', current')
    /\ started' = [started EXCEPT ![current'] = TRUE]
    /\ UNCHANGED <<kernel, next, context, scheduler, turn, shown>>

SwapIn ==
    /\ kernel = "ucontext" /\ cpu = "dispatch"
    /\ current' = next
    /\ next' = (next + 1) % NumTasks
    /\ scheduler' = "dispatch"
    /\ IF context[next].at = "entry" THEN Enter(next, context[next].sp) ELSE Resume(next)
    /\ UNCHANGED <<kernel, started, context, turn, shown>>

\* The body of the loop of the task whose frame is on the stack: coop2 counts and
\* prints, 10 sets or toggles the LED (its count is what a local would hold).
Work == /\ cpu = "work" /\ cpu' = "yield"
        /\ frame' = [frame EXCEPT ![sp].count = (@ + 1) % Limit]
        /\ turn' = frame[sp].task
        /\ shown' = [shown EXCEPT ![turn'] = frame'[sp].count]
        /\ UNCHANGED <<kernel, sp, current, next, started, context, scheduler>>

\* Slip: the context is saved for the task whose turn comes.
YieldToNext == /\ cpu = "yield" /\ cpu' = scheduler
               /\ context' = [context EXCEPT ![(current + 1) % NumTasks] = [sp |-> sp, at |-> "yield"]]
               /\ sp' = Main
               /\ UNCHANGED <<kernel, current, next, started, scheduler, frame, turn, shown>>
\* setjmp(tasks[current].context) and longjmp(scheduler_context), or swapcontext.
Yield == /\ cpu = "yield" /\ cpu' = scheduler
         /\ context' = [context EXCEPT ![current] = [sp |-> sp, at |-> "yield"]]
         /\ sp' = Main
         /\ UNCHANGED <<kernel, current, next, started, scheduler, frame, turn, shown>>

\* yield returns by the address in its frame.
ReturnFromYield == /\ cpu = "return" /\ cpu' = "work"
                   /\ UNCHANGED <<kernel, sp, current, next, started, context, scheduler, frame, turn, shown>>

KernelNext == \/ EnterScheduler
              \/ MakeContexts
              \/ Scheduler
              \/ SwapIn
              \/ Work
              \/ Yield
              \/ ReturnFromYield

KernelSpec == KernelInit /\ [][KernelNext]_kernelVars

----------------------------------------------------------------------------

\* The type invariant.
KernelTypeOK ==
    /\ kernel \in {"setjmp", "ucontext"}
    /\ cpu \in {"main", "dispatch", "work", "yield", "return"}
    /\ sp \in Task \cup {Main}
    /\ current \in Task \cup {-1} /\ next \in Task
    /\ started \in [Task -> BOOLEAN]
    /\ context \in [Task -> [sp : Task \cup {Main}, at : {"nowhere", "entry", "yield"}]]
    /\ scheduler \in {"nowhere", "dispatch"}
    /\ frame \in [Task -> [task : Task \cup {Main}, count : 0 .. Limit - 1]]
    /\ turn \in Task \cup {-1} /\ shown \in [Task -> 0 .. Limit - 1]

Running == cpu \in {"work", "yield", "return"}

\* "longjmp always restores an SP that still points at valid memory" (exercise.md):
\* the running task is on its own stack with its own frame on it, and a context the
\* scheduler can jump to was filled by that task's own yield, on its own stack, whose
\* frame is still that task's.  A yield goes back into the scheduler's loop.
OwnFrames ==
    /\ Running => /\ sp = current /\ frame[sp].task = current
                  /\ scheduler = "dispatch"
    /\ \A i \in Task : context[i].at = "yield" => context[i].sp = i /\ frame[i].task = i
    /\ cpu = "dispatch" /\ kernel = "setjmp" =>
           \A i \in Task : started[i] => context[i].at = "yield"

Promise == INSTANCE Turns

\* "Dead-simple round robin" (main_bare.c) and "tasks never clobber one another"
\* (coop2.cc): turns in order, and every task counts its own executions.
ImplementsTurns == Promise!Spec
=================================================================================
