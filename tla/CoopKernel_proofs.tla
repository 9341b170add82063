---------------------------- MODULE CoopKernel_proofs ----------------------------
(****************************************************************************)
(* Proofs about both cooperative kernels, for any number of tasks and any    *)
(* bound of their counters: types, frames, and the strict turns.             *)
(****************************************************************************)
EXTENDS CoopKernel, TLAPS

\* The scheduler's own counter goes round with the turns.
TurnInv == /\ cpu = "yield" => turn = current
           /\ cpu \in {"work", "return"} => current = (turn + 1) % NumTasks
           /\ cpu = "main" => turn = -1 /\ next = 0
           /\ kernel = "setjmp" /\ cpu = "dispatch" => current = turn
           /\ kernel = "ucontext" /\ cpu \in {"dispatch", "yield"} => next = (turn + 1) % NumTasks
           /\ kernel = "ucontext" /\ cpu \in {"work", "return"} => next = (current + 1) % NumTasks

\* Task i has been entered.
Live(i) == context[i].at = "yield" \/ (Running /\ current = i)

\* A task that has been entered has its frame on its own stack, with the number it
\* showed last; the others have shown nothing.
FrameInv == /\ Running => current \in Task /\ sp = current /\ scheduler = "dispatch"
            /\ \A i \in Task :
                 /\ Live(i) => frame[i] = [task |-> i, count |-> shown[i]]
                 /\ ~Live(i) => shown[i] = 0
                 /\ context[i].at # "nowhere" => context[i].sp = i

\* What tells the kernel that a task has been entered.
ContextInv == \A i \in Task :
    /\ cpu = "main" => context[i].at = "nowhere" /\ ~started[i]
    /\ kernel = "setjmp" => (started[i] <=> Live(i)) /\ context[i].at # "entry"
    /\ kernel = "ucontext" /\ cpu # "main" => context[i].at # "nowhere"
    /\ cpu = "return" => context[current].at = "yield"

SchedulerInv == kernel = "setjmp" /\ cpu # "main" => scheduler = "dispatch"

IInv == KernelTypeOK /\ TurnInv /\ FrameInv /\ ContextInv /\ SchedulerInv

----------------------------------------------------------------------------

\* Round robin stays within the table.
LEMMA NextInTable == \A k \in Int : k % NumTasks \in Task
  BY KernelAssumption DEF Task
\* A counter modulo Limit.
LEMMA CountInRange == \A k \in Int : k % Limit \in 0 .. Limit - 1
  BY KernelAssumption

\* Both kernels begin in IInv.
LEMMA InitInv == KernelInit => IInv
<1> SUFFICES ASSUME KernelInit PROVE IInv
  OBVIOUS
<1>1. 0 \in Task /\ 0 \in 0 .. Limit - 1 /\ (-1 + 1) % NumTasks = 0
  BY KernelAssumption DEF Task
<1>2. KernelTypeOK
  BY <1>1 DEF KernelInit, KernelTypeOK, NoContext, NewFrame
<1>3. TurnInv /\ FrameInv /\ ContextInv /\ SchedulerInv
  BY <1>1 DEF KernelInit, TurnInv, FrameInv, ContextInv, SchedulerInv, Live, Running, NoContext
<1>4. QED
  BY <1>2, <1>3 DEF IInv

\* A task begins on its own stack.
LEMMA EnterKeeps ==
    ASSUME IInv, cpu = "dispatch", NEW i \in Task, ~Live(i), Enter(i, i)
    PROVE  /\ frame' = [frame EXCEPT ![i] = [task |-> i, count |-> shown[i]]]
           /\ frame' \in [Task -> [task : Task \cup {Main}, count : 0 .. Limit - 1]]
           /\ sp' = i /\ cpu' = "work"
<1>1. shown[i] = 0
  BY DEF IInv, FrameInv
<1>2. 0 \in 0 .. Limit - 1
  BY KernelAssumption
<1>3. QED
  BY <1>1, <1>2 DEF IInv, KernelTypeOK, Enter, NewFrame

\* The work of the running task, on its own frame.
LEMMA WorkDoes ==
    ASSUME IInv, Work
    PROVE  /\ cpu = "work" /\ sp = current /\ current \in Task /\ current = (turn + 1) % NumTasks
           /\ frame[current] = [task |-> current, count |-> shown[current]]
           /\ frame' = [frame EXCEPT ![current] =
                            [task |-> current, count |-> (shown[current] + 1) % Limit]]
           /\ turn' = current
           /\ shown' = [shown EXCEPT ![current] = (shown[current] + 1) % Limit]
<1>1. /\ cpu = "work" /\ sp = current /\ current \in Task /\ current = (turn + 1) % NumTasks
      /\ frame[current] = [task |-> current, count |-> shown[current]]
  BY DEF Work, IInv, FrameInv, TurnInv, Live, Running
<1> DEFINE n == (shown[current] + 1) % Limit
<1>2. frame[current].count = shown[current] /\ frame[current].task = current
  BY <1>1
<1>3. [frame[current] EXCEPT !.count = n] = [task |-> current, count |-> n]
  <2>1. \A k, a, b : [[task |-> k, count |-> a] EXCEPT !.count = b] = [task |-> k, count |-> b]
    OBVIOUS
  <2> HIDE DEF n
  <2>2. QED
    BY <1>1, <2>1
<1>4. /\ frame' = [frame EXCEPT ![current] = [frame[current] EXCEPT !.count = n]]
      /\ turn' = current
      /\ shown' = [shown EXCEPT ![current] = frame'[current].count]
  BY <1>1, <1>2 DEF Work
<1> HIDE DEF n
<1>5. frame' = [frame EXCEPT ![current] = [task |-> current, count |-> n]]
  BY <1>3, <1>4
<1>6. frame'[current] = [task |-> current, count |-> n]
  BY <1>1, <1>5 DEF IInv, KernelTypeOK
<1>7. shown' = [shown EXCEPT ![current] = n]
  <2>1. frame'[current].count = n
    BY <1>6
  <2>2. QED
    BY <1>4, <2>1
<1>8. QED
  BY <1>1, <1>4, <1>5, <1>7 DEF n

\* No step leaves IInv.
LEMMA StepInv == IInv /\ [KernelNext]_kernelVars => IInv'
<1> SUFFICES ASSUME IInv, [KernelNext]_kernelVars PROVE IInv'
  OBVIOUS
<1> USE DEF IInv
<1>1. CASE EnterScheduler
  <2>1. KernelTypeOK' /\ SchedulerInv'
    BY <1>1 DEF EnterScheduler, KernelTypeOK, SchedulerInv
  <2>2. TurnInv' /\ FrameInv' /\ ContextInv'
    BY <1>1 DEF EnterScheduler, TurnInv, FrameInv, ContextInv, Live, Running
  <2>3. QED
    BY <2>1, <2>2
<1>2. CASE MakeContexts
  <2>1. KernelTypeOK' /\ SchedulerInv'
    BY <1>2 DEF MakeContexts, KernelTypeOK, SchedulerInv
  <2>2. \A i \in Task : context'[i] = [sp |-> i, at |-> "entry"]
    BY <1>2 DEF MakeContexts
  <2>3. TurnInv'
    <3>1. (-1 + 1) % NumTasks = 0
      BY KernelAssumption
    <3>2. QED
      BY <1>2, <3>1 DEF MakeContexts, TurnInv
  <2>4. FrameInv' /\ ContextInv'
    BY <1>2, <2>2 DEF MakeContexts, FrameInv, ContextInv, Live, Running
  <2>5. QED
    BY <2>1, <2>3, <2>4
<1>3. CASE Scheduler
  <2> DEFINE c == (current + 1) % NumTasks
  <2>1. /\ kernel = "setjmp" /\ cpu = "dispatch" /\ current' = c /\ c \in Task
        /\ started' = [started EXCEPT ![c] = TRUE]
        /\ UNCHANGED <<kernel, next, context, scheduler, turn, shown>>
    BY <1>3, NextInTable DEF Scheduler, KernelTypeOK, Task
  <2>2. scheduler = "dispatch" /\ turn = current /\ \A i \in Task : started[i] <=> Live(i)
    BY <2>1 DEF SchedulerInv, TurnInv, ContextInv
  <2>3. CASE started[c]
    <3>1. Resume(c) /\ context[c].at = "yield"
      BY <1>3, <2>1, <2>2, <2>3 DEF Scheduler, Live, Running
    <3>2. sp' = c /\ cpu' = "return" /\ frame' = frame
      BY <2>1, <3>1 DEF Resume, FrameInv
    <3>3. KernelTypeOK' /\ SchedulerInv' /\ TurnInv'
      BY <2>1, <2>2, <3>2 DEF KernelTypeOK, SchedulerInv, TurnInv
    <3>4. FrameInv'
      BY <2>1, <2>2, <3>1, <3>2 DEF FrameInv, Live, Running
    <3>5. ContextInv'
      BY <2>1, <2>2, <3>1, <3>2 DEF ContextInv, Live, Running, KernelTypeOK
    <3>6. QED
      BY <3>3, <3>4, <3>5
  <2>4. CASE ~started[c]
    <3>1. Enter(c, c) /\ ~Live(c)
      BY <1>3, <2>1, <2>2, <2>4 DEF Scheduler
    <3>2. /\ frame' = [frame EXCEPT ![c] = [task |-> c, count |-> shown[c]]]
          /\ frame' \in [Task -> [task : Task \cup {Main}, count : 0 .. Limit - 1]]
          /\ sp' = c /\ cpu' = "work"
      BY <2>1, <3>1, EnterKeeps
    <3>3. KernelTypeOK' /\ SchedulerInv' /\ TurnInv'
      BY <2>1, <2>2, <3>2 DEF KernelTypeOK, SchedulerInv, TurnInv
    <3>4. FrameInv'
      BY <2>1, <2>2, <3>1, <3>2 DEF FrameInv, Live, Running, KernelTypeOK
    <3>5. ContextInv'
      BY <2>1, <2>2, <3>1, <3>2 DEF ContextInv, Live, Running, KernelTypeOK
    <3>6. QED
      BY <3>3, <3>4, <3>5
  <2>5. QED
    BY <2>3, <2>4
<1>4. CASE SwapIn
  <2>1. /\ kernel = "ucontext" /\ cpu = "dispatch" /\ current' = next /\ next \in Task
        /\ next' = (next + 1) % NumTasks /\ next' \in Task /\ scheduler' = "dispatch"
        /\ next = (turn + 1) % NumTasks
        /\ UNCHANGED <<kernel, started, context, turn, shown>>
    BY <1>4, NextInTable DEF SwapIn, KernelTypeOK, Task, TurnInv
  <2>2. context[next].at \in {"entry", "yield"} /\ context[next].sp = next
    BY <2>1 DEF ContextInv, FrameInv, KernelTypeOK
  <2>3. CASE context[next].at = "yield"
    <3>1. sp' = next /\ cpu' = "return" /\ frame' = frame
      BY <1>4, <2>2, <2>3 DEF SwapIn, Resume
    <3>2. KernelTypeOK' /\ SchedulerInv' /\ TurnInv'
      BY <2>1, <3>1 DEF KernelTypeOK, SchedulerInv, TurnInv
    <3>3. FrameInv'
      BY <2>1, <2>3, <3>1 DEF FrameInv, Live, Running
    <3>4. ContextInv'
      BY <2>1, <2>3, <3>1 DEF ContextInv, Live, Running
    <3>5. QED
      BY <3>2, <3>3, <3>4
  <2>4. CASE context[next].at = "entry"
    <3>1. Enter(next, next) /\ ~Live(next)
      BY <1>4, <2>1, <2>2, <2>4 DEF SwapIn, Live, Running
    <3>2. /\ frame' = [frame EXCEPT ![next] = [task |-> next, count |-> shown[next]]]
          /\ frame' \in [Task -> [task : Task \cup {Main}, count : 0 .. Limit - 1]]
          /\ sp' = next /\ cpu' = "work"
      BY <2>1, <3>1, EnterKeeps
    <3>3. KernelTypeOK' /\ SchedulerInv' /\ TurnInv'
      BY <2>1, <3>2 DEF KernelTypeOK, SchedulerInv, TurnInv
    <3>4. FrameInv'
      BY <2>1, <3>1, <3>2 DEF FrameInv, Live, Running, KernelTypeOK
    <3>5. ContextInv'
      BY <2>1, <3>2 DEF ContextInv, Live, Running
    <3>6. QED
      BY <3>3, <3>4, <3>5
  <2>5. QED
    BY <2>2, <2>3, <2>4
<1>5. CASE Work
  <2> DEFINE n == (shown[current] + 1) % Limit
  <2>1. /\ cpu' = "yield" /\ UNCHANGED <<kernel, sp, current, next, started, context, scheduler>>
    BY <1>5 DEF Work
  <2>2. shown[current] \in 0 .. Limit - 1 /\ n \in 0 .. Limit - 1
    BY <1>5, WorkDoes, CountInRange DEF KernelTypeOK
  <2>3. /\ cpu = "work" /\ sp = current /\ current \in Task /\ current = (turn + 1) % NumTasks
        /\ frame' = [frame EXCEPT ![current] = [task |-> current, count |-> n]]
        /\ turn' = current /\ shown' = [shown EXCEPT ![current] = n]
    BY <1>5, WorkDoes
  <2> HIDE DEF n
  <2>4. KernelTypeOK' /\ SchedulerInv' /\ TurnInv'
    BY <2>1, <2>2, <2>3 DEF KernelTypeOK, SchedulerInv, TurnInv
  <2>5. FrameInv'
    BY <2>1, <2>3 DEF FrameInv, Live, Running, KernelTypeOK
  <2>6. ContextInv'
    BY <2>1, <2>3 DEF ContextInv, Live, Running
  <2>7. QED
    BY <2>4, <2>5, <2>6
<1>6. CASE Yield
  <2>1. /\ cpu = "yield" /\ cpu' = "dispatch" /\ sp = current /\ current \in Task
        /\ turn = current /\ scheduler = "dispatch" /\ sp' = Main
        /\ context' = [context EXCEPT ![current] = [sp |-> current, at |-> "yield"]]
        /\ UNCHANGED <<kernel, current, next, started, scheduler, frame, turn, shown>>
    BY <1>6 DEF Yield, FrameInv, TurnInv, Running
  <2>2. \A i \in Task : Live(i)' <=> Live(i)
    BY <2>1 DEF Live, Running, KernelTypeOK
  <2>3. KernelTypeOK' /\ SchedulerInv' /\ TurnInv'
    BY <2>1 DEF KernelTypeOK, SchedulerInv, TurnInv
  <2>4. FrameInv'
    BY <2>1, <2>2 DEF FrameInv, Running, KernelTypeOK
  <2>5. ContextInv'
    BY <2>1, <2>2 DEF ContextInv, KernelTypeOK
  <2>6. QED
    BY <2>3, <2>4, <2>5
<1>7. CASE ReturnFromYield
  BY <1>7 DEF ReturnFromYield, KernelTypeOK, SchedulerInv, TurnInv, FrameInv, ContextInv, Live, Running
<1>8. CASE UNCHANGED kernelVars
  BY <1>8 DEF kernelVars, KernelTypeOK, SchedulerInv, TurnInv, FrameInv, ContextInv, Live, Running
<1>9. QED
  BY <1>1, <1>2, <1>3, <1>4, <1>5, <1>6, <1>7, <1>8 DEF KernelNext

\* IInv holds in every state of both kernels.
THEOREM Invariance == KernelSpec => []IInv
  BY InitInv, StepInv, PTL DEF KernelSpec

\* No stack pointer, context or counter leaves its type, for any number of tasks.
THEOREM TypeCorrect == KernelSpec => []KernelTypeOK
<1>1. IInv => KernelTypeOK
  BY DEF IInv
<1>2. QED
  BY <1>1, Invariance, PTL

\* Every jump goes into a frame that is still its task's own, on that task's stack.
THEOREM FramesAreOwn == KernelSpec => []OwnFrames
<1>1. IInv => OwnFrames
  <2> SUFFICES ASSUME IInv PROVE OwnFrames
    OBVIOUS
  <2>1. \A i \in Task : Live(i) => frame[i].task = i
    <3> SUFFICES ASSUME NEW i \in Task, Live(i) PROVE frame[i].task = i
      OBVIOUS
    <3>1. frame[i] = [task |-> i, count |-> shown[i]]
      BY DEF IInv, FrameInv
    <3>2. QED
      BY <3>1
  <2>2. Running => sp = current /\ frame[sp].task = current /\ scheduler = "dispatch"
    BY <2>1 DEF IInv, FrameInv, Live
  <2>3. \A i \in Task : context[i].at = "yield" => context[i].sp = i /\ frame[i].task = i
    BY <2>1 DEF IInv, FrameInv, Live
  <2>4. cpu = "dispatch" /\ kernel = "setjmp" =>
            \A i \in Task : started[i] => context[i].at = "yield"
    BY DEF IInv, ContextInv, Live, Running
  <2>5. QED
    BY <2>2, <2>3, <2>4 DEF OwnFrames
<1>2. QED
  BY <1>1, Invariance, PTL

\* The tasks take strict turns and each counts its own executions, for any number of
\* tasks: Work is the turn, every other step of kernel or main is invisible.
THEOREM StrictTurns == KernelSpec => ImplementsTurns
<1>1. KernelInit => Promise!Init
  BY DEF KernelInit, Promise!Init, Task
<1>2. IInv /\ [KernelNext]_kernelVars => [Promise!Execute]_(Promise!vars)
  <2> SUFFICES ASSUME IInv, [KernelNext]_kernelVars PROVE [Promise!Execute]_(Promise!vars)
    OBVIOUS
  <2>1. CASE Work
    BY <2>1, WorkDoes DEF Promise!Execute
  <2>2. CASE UNCHANGED <<turn, shown>>
    BY <2>2 DEF Promise!vars
  <2>3. QED
    BY <2>1, <2>2 DEF KernelNext, EnterScheduler, MakeContexts, Scheduler, SwapIn, Yield,
                      ReturnFromYield, kernelVars
<1>3. QED
  BY <1>1, <1>2, Invariance, PTL DEF KernelSpec, ImplementsTurns, Promise!Spec
=================================================================================
