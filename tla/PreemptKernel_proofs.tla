--------------------------- MODULE PreemptKernel_proofs --------------------------
(****************************************************************************)
(* Proofs about the preemptive kernel, for any number of tasks, any loops    *)
(* and stacks that hold a local and a frame: with the stacks built before    *)
(* the first tick, which the bare image's own order of set-up sees to, both   *)
(* images implement the slicing of time.                                     *)
(****************************************************************************)
EXTENDS PreemptKernel, SequenceTheorems, TLAPS

P == "pendsv"
S == "systick"

\* No tick comes before main is through.
Ready == Prompt \/ image = "bare"

InPendSV == active \in {<<P>>, <<P, S>>, <<S, P>>}
Position0 == 0 .. Steps - 1

\* What the set-up has done so far.
Built == main >= IF image = "bare" THEN 1 ELSE 2
MainInv ==
    /\ main < 3 => pending = {} /\ active = <<>> /\ psp = Null
    /\ prio = [e \in Exception |-> IF main = 3 /\ e = (IF image = "hal" THEN P ELSE S) THEN 15 ELSE 0]
    /\ ~Built => \A i \in Task : sp[i] = Null

\* The image's priorities decide which of the two handlers can preempt the other.
ActiveInv ==
    /\ active \in {<<>>, <<P>>, <<S>>, IF image = "bare" THEN <<P, S>> ELSE <<S, P>>}
    /\ pos[P] # "return" => InPendSV
    /\ image = "hal" => ~fault

\* On the main stack: main's registers, once main has been interrupted for good, and
\* those of a handler that has been preempted.
MainStackInv ==
    /\ active = <<>> => msp = IF onPsp THEN <<InMain>> ELSE <<>>
    /\ active \in {<<P>>, <<S>>} => msp = <<InMain>>
    /\ active \in {<<P, S>>, <<S, P>>} => msp = <<InHandler, InMain>>
    /\ active # <<>> => hw = InHandler

\* The task whose stack PSP points into, and the one the kernel takes for it.
CurrentInv ==
    /\ current = IF pos[P] = "load" THEN (psp[1] + 1) % NumTasks ELSE psp[1]
    /\ onPsp => psp # Null
    /\ ~onPsp /\ ~InPendSV => psp = Null
    /\ InPendSV /\ pos[P] = "return" => psp # Null
    /\ active = <<>> /\ psp = Null => hw = InMain

\* The local of the call that a task is in at an odd position.
Local(p) == p % 2

\* A task that waits at position p: both halves of its registers on top of its stack.
SavedAt(i, p) == /\ sp[i] = <<i, Local(p) + 2>>
                 /\ mem[i][Local(p) + 1] = <<i, p>> /\ mem[i][Local(p) + 2] = <<i, p>>

\* The task that runs, at position p, or has been interrupted there.
RunsAt(p) == /\ sw = <<psp[1], p>> /\ psp[1] \in Task /\ sp[psp[1]] # Null
             /\ IF active = <<>> THEN hw = <<psp[1], p>> /\ psp = <<psp[1], Local(p)>>
                ELSE psp = <<psp[1], Local(p) + 1>> /\ mem[psp[1]][Local(p) + 1] = <<psp[1], p>>

\* Where task i is.  Before the stacks are built every task is at its start.
At(i, p) == IF i = psp[1] THEN RunsAt(p) /\ (pos[P] \in {"pick", "load"} => SavedAt(i, p))
            ELSE IF Built THEN SavedAt(i, p) ELSE p = 0
TasksInv == \A i \in Task : \E p \in Position0 : At(i, p)

IInv == TypeOK /\ MainInv /\ ActiveInv /\ MainStackInv /\ CurrentInv /\ TasksInv

\* What every step but a task's own does to the tasks: nothing.
Kept == \A i \in Task, p \in Position0 : At(i, p) => At(i, p)'

----------------------------------------------------------------------------
(* The data.                                                                *)

\* What is assumed of the constants.
LEMMA Sizes == /\ NumTasks \in Nat \ {0} /\ Steps \in Nat \ {0} /\ Steps % 2 = 0
               /\ Halves \in Nat /\ Halves >= 3
  BY TasksAssumption, StepsAssumption, HalvesAssumption

\* Calls and returns alternate along a task's loop.
LEMMA LocalIs == \A p \in Position0 :
    /\ Local(p) \in {0, 1} /\ p \in Nat /\ Local(0) = 0 /\ 0 \in Position0
    /\ ((p + 1) % Steps) \in Position0
    /\ Local((p + 1) % Steps) = 1 - Local(p)
<1> SUFFICES ASSUME NEW p \in Position0
             PROVE  /\ Local(p) \in {0, 1} /\ p \in Nat /\ Local(0) = 0 /\ 0 \in Position0
                    /\ ((p + 1) % Steps) \in Position0
                    /\ Local((p + 1) % Steps) = 1 - Local(p)
  OBVIOUS
<1>1. p \in Nat /\ p < Steps /\ 0 \in Position0
  BY Sizes DEF Position0
<1>2. Local(p) \in {0, 1} /\ Local(0) = 0 /\ Local(p + 1) = 1 - Local(p)
  <2>1. \A n \in Nat : Local(n) \in {0, 1} /\ Local(n + 1) = 1 - Local(n)
    BY DEF Local
  <2>2. Local(0) = 0
    BY DEF Local
  <2>3. QED
    BY <1>1, <2>1, <2>2
<1>3. CASE p + 1 < Steps
  <2>1. (p + 1) % Steps = p + 1
    BY <1>1, <1>3, Sizes
  <2>2. QED
    BY <1>1, <1>2, <1>3, <2>1, Sizes DEF Position0
<1>4. CASE p + 1 = Steps
  <2>1. Local(p) = 1
    BY <1>2, <1>4, Sizes DEF Local
  <2>2. (p + 1) % Steps = 0
    BY <1>4, Sizes
  <2>3. QED
    BY <1>1, <1>2, <2>1, <2>2
<1>5. QED
  BY <1>1, <1>3, <1>4, Sizes

\* Values on a stack.
LEMMA ValuesAre == /\ InMain \in Value /\ InHandler \in Value /\ Null \in Value
                   /\ \A i \in Task, p \in Position0 : <<i, p>> \in Value
  BY DEF InMain, InHandler, Null, Value, Position0

\* Stack pointers and the null one.
LEMMA PointersAre ==
    /\ Null \in Pointer /\ Null[1] = -1 /\ -1 \notin Task
    /\ \A i \in Task, d \in {0, 1, 2, 3} : <<i, d>> \in Pointer /\ <<i, d>> # Null
    /\ \A x \in Pointer : x # Null => x[1] \in Task
    /\ \A x \in Pointer : x[1] \in Task \cup {-1}
  BY Sizes DEF Null, Pointer, Task

\* Stacks of one or two.
LEMMA Pairs == \A x, y : <<x>> \o <<y>> = <<x, y>>
<1> SUFFICES ASSUME NEW x, NEW y PROVE <<x>> \o <<y>> = <<x, y>>
  OBVIOUS
<1> DEFINE s == <<x>> \o <<y>>
           t == <<x, y>>
           T == {x, y}
<1>1. s \in Seq(T) /\ t \in Seq(T)
  OBVIOUS
<1>2. Len(s) = 2 /\ Len(t) = 2
  OBVIOUS
<1>3. s[1] = t[1] /\ s[2] = t[2]
  OBVIOUS
<1> HIDE DEF s, t, T
<1>4. \A k \in 1 .. Len(s) : s[k] = t[k]
  BY <1>2, <1>3
<1>5. s = t
  BY <1>1, <1>2, <1>4, SeqEqual
<1>6. QED
  BY <1>5 DEF s, t
\* Sequences of one and of two elements.
LEMMA Stacks ==
    /\ \A x : Head(<<x>>) = x /\ Tail(<<x>>) = <<>> /\ Len(<<x>>) = 1 /\ <<x>> \o <<>> = <<x>>
    /\ \A x, y : Head(<<x, y>>) = x /\ Tail(<<x, y>>) = <<y>> /\ Len(<<x, y>>) = 2
<1>1. \A x : Head(<<x>>) = x /\ Len(<<x>>) = 1
  OBVIOUS
<1>2. \A x : Tail(<<x>>) = <<>>
  OBVIOUS
<1>3. \A x : <<x>> \o <<>> = <<x>>
  OBVIOUS
<1>4. \A x, y : Head(<<x, y>>) = x /\ Len(<<x, y>>) = 2
  OBVIOUS
<1>5. \A x, y : Tail(<<x, y>>) = <<y>>
  OBVIOUS
<1>6. QED
  BY <1>1, <1>2, <1>3, <1>4, <1>5

\* The stacks of active exceptions, written out.
LEMMA StacksAre ==
    /\ Head(<<P>>) = P /\ Head(<<S>>) = S /\ Head(<<P, S>>) = P /\ Head(<<S, P>>) = S
    /\ Tail(<<P>>) = <<>> /\ Tail(<<S>>) = <<>> /\ Tail(<<P, S>>) = <<S>> /\ Tail(<<S, P>>) = <<P>>
    /\ Len(<<P>>) = 1 /\ Len(<<S>>) = 1 /\ Len(<<P, S>>) = 2 /\ Len(<<S, P>>) = 2
    /\ <<P>> \o <<>> = <<P>> /\ <<S>> \o <<>> = <<S>>
    /\ <<P>> \o <<S>> = <<P, S>> /\ <<S>> \o <<P>> = <<S, P>>
  BY Stacks, Pairs, Zenon
\* And told apart.
LEMMA StacksDiffer ==
    /\ P # S
    /\ <<P>> # <<>> /\ <<S>> # <<>> /\ <<P, S>> # <<>> /\ <<S, P>> # <<>>
    /\ <<P>> # <<S>> /\ <<P, S>> # <<S, P>>
    /\ {<<P, S>>, <<S, P>>} \cap {<<P>>, <<S>>} = {}
<1>1. P # S
  BY DEF P, S
<1>2. QED
  BY <1>1

\* What can be on the main stack, written out.
LEMMA FramesAre ==
    /\ <<InMain>> \o <<>> = <<InMain>>
    /\ <<InHandler>> \o <<InMain>> = <<InHandler, InMain>>
    /\ Head(<<InMain>>) = InMain /\ Tail(<<InMain>>) = <<>>
    /\ Head(<<InHandler, InMain>>) = InHandler /\ Tail(<<InHandler, InMain>>) = <<InMain>>
  BY Stacks, Pairs, Zenon

\* The set-up of each image.
LEMMA ProgramIs ==
    ASSUME image \in {"bare", "hal"}
    PROVE  /\ Len(Program) = 3
           /\ Program[1] = IF image = "bare" THEN "stacks" ELSE "hal_init"
           /\ Program[2] = IF image = "bare" THEN "shp" ELSE "stacks"
           /\ Program[3] = IF image = "bare" THEN "systick_config" ELSE "pendsv_priority"
  BY DEF Program

\* A push changes one place of one stack.
LEMMA MemUpdate ==
    ASSUME mem \in [Task -> [1 .. Halves -> Value]],
           NEW j \in Task, NEW d \in 1 .. Halves, NEW x \in Value,
           mem' = [mem EXCEPT ![j][d] = x]
    PROVE  /\ mem' \in [Task -> [1 .. Halves -> Value]]
           /\ \A i \in Task, e \in 1 .. Halves :
                  mem'[i][e] = IF i = j /\ e = d THEN x ELSE mem[i][e]
  OBVIOUS

\* Position is where the task is.
LEMMA PositionIs ==
    ASSUME IInv, NEW i \in Task, NEW p \in Position0, At(i, p)
    PROVE  Position(i) = p
<1>1. psp \in Pointer /\ Local(p) \in {0, 1} /\ p \in Nat
  BY LocalIs DEF IInv, TypeOK
<1>2. CASE i = psp[1]
  <2>1. RunsAt(p)
    BY <1>2 DEF At
  <2>2. /\ sw = <<i, p>> /\ sp[i] # Null
        /\ IF active = <<>> THEN hw = <<i, p>>
           ELSE psp = <<i, Local(p) + 1>> /\ mem[i][Local(p) + 1] = <<i, p>>
    BY <1>2, <2>1 DEF RunsAt
  <2>3. HwOf(i) = <<i, p>> /\ SwOf(i) = <<i, p>>
    BY <1>2, <2>2 DEF HwOf, SwOf
  <2>4. QED
    BY <2>2, <2>3 DEF Position
<1>3. CASE i # psp[1] /\ Built
  <2>1. /\ sp[i] = <<i, Local(p) + 2>>
        /\ mem[i][Local(p) + 1] = <<i, p>> /\ mem[i][Local(p) + 2] = <<i, p>>
    BY <1>3 DEF At, SavedAt
  <2>2. sp[i][2] - 1 = Local(p) + 1 /\ sp[i][2] = Local(p) + 2
    BY <1>1, <2>1
  <2>3. HwOf(i) = <<i, p>> /\ SwOf(i) = <<i, p>>
    BY <1>3, <2>1, <2>2 DEF HwOf, SwOf
  <2>4. sp[i] # Null
    BY <1>1, <2>1, PointersAre
  <2>5. QED
    BY <2>3, <2>4 DEF Position
<1>4. CASE i # psp[1] /\ ~Built
  <2>1. p = 0 /\ sp[i] = Null
    BY <1>4 DEF At, IInv, MainInv
  <2>2. QED
    BY <2>1 DEF Position
<1>5. QED
  BY <1>2, <1>3, <1>4

\* Both images begin in IInv.
LEMMA InitInv == Init => IInv
<1> SUFFICES ASSUME Init PROVE IInv
  OBVIOUS
<1> USE Sizes, ValuesAre, PointersAre, StacksDiffer
<1>1. ~Built /\ Len(Program) = 3
  BY ProgramIs DEF Init, Built
<1>2. TypeOK
  <2>1. mem \in [Task -> [1 .. Halves -> Value]] /\ sp \in [Task -> Pointer]
    BY DEF Init
  <2>2. current \in -1 .. NumTasks - 1 /\ main \in 0 .. Len(Program)
    BY <1>1 DEF Init
  <2>3. /\ prio \in [Exception -> 0 .. 15]
        /\ pos \in [Exception -> {"pend", "save", "pick", "load", "return"}]
    BY DEF Init
  <2>4. QED
    BY <2>1, <2>2, <2>3 DEF Init, TypeOK
<1>3. MainInv /\ ActiveInv /\ MainStackInv
  BY <1>1 DEF Init, MainInv, ActiveInv, MainStackInv, Exception, P, S
<1>4. CurrentInv
  BY DEF Init, CurrentInv, Exception, P, Null, InPendSV
<1>5. TasksInv
  BY <1>1 DEF Init, TasksInv, At, Position0
<1>6. QED
  BY <1>2, <1>3, <1>4, <1>5 DEF IInv

----------------------------------------------------------------------------
(* Steps that leave the tasks' registers and stacks alone.                  *)

\* A step that leaves stacks, saved pointers and R4-R11 alone keeps every task where it is.
LEMMA Framed ==
    ASSUME UNCHANGED <<sw, psp, mem, sp>>, Built' = Built,
           psp # Null => (active = <<>> <=> active' = <<>>) /\ (active = <<>> => hw' = hw),
           psp \in Pointer,
           pos'[P] \in {"pick", "load"} => pos[P] \in {"pick", "load"}
    PROVE  Kept
<1> SUFFICES ASSUME NEW i \in Task, NEW p \in Position0, At(i, p) PROVE At(i, p)'
  BY DEF Kept
<1>1. CASE i = psp[1]
  <2>1. psp # Null
    BY <1>1, PointersAre
  <2>2. RunsAt(p)'
    BY <1>1, <2>1 DEF At, RunsAt
  <2>3. QED
    BY <1>1, <2>2 DEF At, SavedAt
<1>2. CASE i # psp[1]
  BY <1>2 DEF At, SavedAt
<1>3. QED
  BY <1>1, <1>2

\* Exceptions come when main is through.
LEMMA Handled ==
    ASSUME IInv, active # <<>>
    PROVE  main = 3 /\ P \in Exception /\ S \in Exception /\ P # S
           /\ \A e \in Exception : \A x :
                  /\ [pos EXCEPT ![e] = x][e] = x
                  /\ \A f \in Exception \ {e} : [pos EXCEPT ![e] = x][f] = pos[f]
<1>1. main \in 0 .. 3
  BY ProgramIs DEF IInv, TypeOK
<1>2. main = 3
  BY <1>1 DEF IInv, MainInv
<1>3. pos \in [Exception -> {"pend", "save", "pick", "load", "return"}]
  BY DEF IInv, TypeOK
<1>4. QED
  BY <1>2, <1>3 DEF Exception, P, S

\* Where every task is kept, TasksInv is.
LEMMA KeptSuffices == TasksInv /\ Kept => TasksInv'
  BY DEF TasksInv, Kept

\* The tick pends SysTick.
LEMMA TickStep == ASSUME Ready, IInv, Tick PROVE IInv' /\ Kept
<1>0. main = 3
  <2>1. main \in 0 .. 3 /\ Len(Program) = 3 /\ image \in {"bare", "hal"}
    BY ProgramIs DEF IInv, TypeOK
  <2>2. CASE Prompt
    BY <2>1, <2>2 DEF Tick
  <2>3. CASE image = "bare"
    <3>1. PICK k \in 1 .. main : Program[k] \in {"systick_config", "hal_init"}
      BY DEF Tick, Ticking
    <3>2. k \notin {1, 2}
      BY <2>3, <3>1, ProgramIs
    <3>3. QED
      BY <2>1, <3>1, <3>2
  <2>4. QED
    BY <2>2, <2>3 DEF Ready
<1>1. /\ main = 3 /\ pending' = pending \cup {S}
      /\ UNCHANGED <<image, apart, main, prio, active, pos, hw, sw, psp, onPsp, msp, mem, sp, current, fault>>
  BY <1>0 DEF Tick, build, regs, kernel, IInv, TypeOK, S
<1>2. TypeOK'
  BY <1>1 DEF IInv, TypeOK, Program, Exception, S
<1>3. MainInv' /\ ActiveInv' /\ MainStackInv' /\ CurrentInv'
  BY <1>1 DEF IInv, MainInv, Built, ActiveInv, InPendSV, MainStackInv, CurrentInv
<1>4. Kept
  BY <1>1, Framed DEF Built, IInv, TypeOK
<1>5. QED
  BY <1>2, <1>3, <1>4, KeptSuffices DEF IInv

\* SysTick pends PendSV.
LEMMA SysTickStep == ASSUME IInv, SysTick PROVE IInv' /\ Kept
<1>1. /\ active # <<>> /\ pending' = pending \cup {P}
      /\ pos' = [pos EXCEPT ![S] = "return"]
      /\ UNCHANGED <<image, apart, main, prio, active, hw, sw, psp, onPsp, msp, mem, sp, current, fault>>
  BY DEF SysTick, Handling, build, regs, kernel, P, S
<1>2. main = 3 /\ pos'[P] = pos[P]
  BY <1>1, Handled
<1>3. TypeOK'
  BY <1>1 DEF IInv, TypeOK, Program, Exception, P, S
<1>4. MainInv' /\ ActiveInv' /\ MainStackInv' /\ CurrentInv'
  BY <1>1, <1>2 DEF IInv, MainInv, Built, ActiveInv, InPendSV, MainStackInv, CurrentInv
<1>5. Kept
  BY <1>1, <1>2, Framed DEF Built, IInv, TypeOK
<1>6. QED
  BY <1>3, <1>4, <1>5, KeptSuffices DEF IInv

\* PendSV takes the next task for current.
LEMMA PickStep == ASSUME IInv, Pick PROVE IInv' /\ Kept
<1>1. /\ active # <<>> /\ pos[P] = "pick" /\ pos' = [pos EXCEPT ![P] = "load"]
      /\ current' = IF current + 1 >= NumTasks THEN 0 ELSE current + 1
      /\ UNCHANGED <<image, apart, main, prio, pending, active, hw, sw, psp, onPsp, msp, mem, sp, fault>>
  BY DEF Pick, PendSV, Handling, build, P
<1>2. main = 3 /\ pos'[P] = "load"
  BY <1>1, Handled
<1>3. /\ current = psp[1] /\ current \in -1 .. NumTasks - 1
      /\ current' = (psp[1] + 1) % NumTasks /\ current' \in -1 .. NumTasks - 1
  <2>1. current = psp[1] /\ current \in -1 .. NumTasks - 1
    BY <1>1 DEF IInv, TypeOK, CurrentInv
  <2>2. NumTasks % NumTasks = 0
    BY Sizes
  <2>3. \A x \in 0 .. NumTasks - 1 : x % NumTasks = x
    BY Sizes
  <2>4. (current + 1) % NumTasks = IF current + 1 >= NumTasks THEN 0 ELSE current + 1
    <3>1. CASE current + 1 >= NumTasks
      <4>1. current + 1 = NumTasks
        BY <2>1, <3>1, Sizes
      <4>2. QED
        BY <2>2, <3>1, <4>1
    <3>2. CASE ~(current + 1 >= NumTasks)
      BY <2>1, <2>3, <3>2, Sizes
    <3>3. QED
      BY <3>1, <3>2
  <2>5. (IF current + 1 >= NumTasks THEN 0 ELSE current + 1) \in -1 .. NumTasks - 1
    BY <2>1, Sizes
  <2>6. QED
    BY <1>1, <2>1, <2>4, <2>5
<1>4. TypeOK'
  BY <1>1, <1>3 DEF IInv, TypeOK, Program, Exception, P
<1>5. MainInv' /\ ActiveInv' /\ MainStackInv'
  BY <1>1, <1>2 DEF IInv, MainInv, Built, ActiveInv, InPendSV, MainStackInv
<1>6. CurrentInv'
  BY <1>1, <1>2, <1>3 DEF IInv, CurrentInv, ActiveInv, InPendSV
<1>7. Kept
  BY <1>1, <1>2, Framed DEF Built, IInv, TypeOK
<1>8. QED
  BY <1>4, <1>5, <1>6, <1>7, KeptSuffices DEF IInv

----------------------------------------------------------------------------
(* Exception entry and the return of the tick's handler.                    *)

\* The running task is interrupted and goes on where it was.
LEMMA EnterStep == ASSUME IInv, NEW e \in Exception, Enter(e) PROVE IInv' /\ Kept
<1>1. /\ ~fault /\ e \in pending /\ prio[e] < Level
      /\ active' = <<e>> \o active /\ pending' = pending \ {e}
      /\ pos' = [pos EXCEPT ![e] = IF e = P THEN "save" ELSE "pend"]
      /\ hw' = InHandler
      /\ UNCHANGED <<image, apart, main, prio, sw, onPsp, sp, current, fault>>
  BY DEF Enter, Takeable, build, kernel, P
<1>2. IF active = <<>> /\ onPsp
      THEN /\ psp' = <<psp[1], psp[2] + 1>>
           /\ mem' = [mem EXCEPT ![psp[1]][psp[2] + 1] = hw]
           /\ UNCHANGED msp
      ELSE msp' = <<hw>> \o msp /\ UNCHANGED <<psp, mem>>
  BY DEF Enter
<1>3. main = 3 /\ e \in {P, S} /\ P # S
  <2>1. main \in 0 .. 3
    BY ProgramIs DEF IInv, TypeOK
  <2>2. QED
    BY <1>1, <2>1 DEF IInv, MainInv, Exception, P, S
<1>4. /\ e = P => pos'[P] = "save" /\ pos'[S] = pos[S]
      /\ e = S => pos'[P] = pos[P]
  <2>1. pos \in [Exception -> {"pend", "save", "pick", "load", "return"}]
    BY DEF IInv, TypeOK
  <2>2. QED
    BY <1>1, <1>3, <2>1 DEF Exception, P, S
<1>5. \/ active = <<>> /\ active' = <<e>>
      \/ active = <<S>> /\ e = P /\ active' = <<P, S>> /\ image = "bare"
      \/ active = <<P>> /\ e = S /\ active' = <<S, P>> /\ image = "hal"
  <2>1. prio[P] = (IF image = "hal" THEN 15 ELSE 0) /\ prio[S] = IF image = "hal" THEN 0 ELSE 15
    BY <1>3 DEF IInv, MainInv, Exception, P, S
  <2>2. active \in {<<>>, <<P>>, <<S>>, IF image = "bare" THEN <<P, S>> ELSE <<S, P>>}
        /\ image \in {"bare", "hal"}
    BY DEF IInv, ActiveInv, TypeOK
  <2>3. CASE active = <<>>
    BY <1>1, <1>3, <2>3, StacksAre
  <2>4. CASE active = <<S>>
    BY <1>1, <1>3, <2>1, <2>2, <2>4, StacksAre, StacksDiffer DEF Level
  <2>5. CASE active = <<P>>
    BY <1>1, <1>3, <2>1, <2>2, <2>5, StacksAre, StacksDiffer DEF Level
  <2>6. CASE active \in {<<P, S>>, <<S, P>>}
    BY <1>1, <1>3, <2>1, <2>2, <2>6, StacksAre, StacksDiffer DEF Level
  <2>7. QED
    BY <2>2, <2>3, <2>4, <2>5, <2>6
<1>6. psp'[1] = psp[1] /\ (psp' = Null <=> psp = Null) /\ psp' \in Pointer /\ Kept
      /\ mem' \in [Task -> [1 .. Halves -> Value]]
  <2>1. CASE active = <<>> /\ onPsp
    <3>1. psp # Null /\ psp \in Pointer /\ psp[1] \in Task
      BY <2>1, PointersAre DEF IInv, TypeOK, CurrentInv
    <3>2. PICK p \in Position0 : At(psp[1], p)
      BY <3>1 DEF IInv, TasksInv
    <3>3. /\ sw = <<psp[1], p>> /\ sp[psp[1]] # Null /\ hw = <<psp[1], p>>
          /\ psp = <<psp[1], Local(p)>> /\ psp[2] = Local(p) /\ Local(p) \in {0, 1}
      BY <2>1, <3>1, <3>2, LocalIs DEF At, RunsAt
    <3>4. psp' = <<psp[1], Local(p) + 1>> /\ psp' \in Pointer /\ psp' # Null /\ psp'[1] = psp[1]
      <4>1. psp' = <<psp[1], Local(p) + 1>>
        BY <1>2, <2>1, <3>3
      <4>2. Local(p) + 1 \in {0, 1, 2, 3}
        BY <3>3
      <4>3. QED
        BY <3>1, <4>1, <4>2, PointersAre
    <3>5. /\ mem' \in [Task -> [1 .. Halves -> Value]]
          /\ \A i \in Task, d \in 1 .. Halves :
                 mem'[i][d] = IF i = psp[1] /\ d = Local(p) + 1 THEN hw ELSE mem[i][d]
      <4>1. Local(p) + 1 \in 1 .. Halves /\ hw \in Value /\ mem \in [Task -> [1 .. Halves -> Value]]
        BY <3>3, Sizes DEF IInv, TypeOK
      <4>2. mem' = [mem EXCEPT ![psp[1]][Local(p) + 1] = hw]
        BY <1>2, <2>1, <3>3
      <4>3. QED
        BY <3>1, <4>1, <4>2, MemUpdate
    <3>6. active' # <<>> /\ pos'[P] \notin {"pick", "load"} /\ pos[P] = "return"
      BY <1>3, <1>4, <1>5, <2>1, StacksDiffer DEF IInv, ActiveInv, InPendSV
    <3>7. ASSUME NEW i \in Task, NEW q \in Position0, At(i, q) PROVE At(i, q)'
      <4>1. CASE i = psp[1]
        <5>1. q = p
          BY <3>3, <3>7, <4>1 DEF At, RunsAt
        <5>2. mem'[i][Local(p) + 1] = <<i, p>>
          <6>1. Local(p) + 1 \in 1 .. Halves
            BY <3>3, Sizes
          <6>2. mem'[i][Local(p) + 1] = hw
            BY <3>5, <4>1, <6>1
          <6>3. QED
            BY <3>3, <4>1, <6>2
        <5>3. RunsAt(p)'
          BY <1>1, <3>1, <3>3, <3>4, <3>6, <4>1, <5>2 DEF RunsAt, Local
        <5>4. QED
          BY <3>4, <3>6, <4>1, <5>1, <5>3 DEF At
      <4>2. CASE i # psp[1]
        <5>1. Local(q) \in {0, 1}
          BY LocalIs
        <5>2. \A d \in {1, 2, 3} : mem'[i][d] = mem[i][d]
          BY <3>5, <4>2, Sizes
        <5>3. SavedAt(i, q) => SavedAt(i, q)'
          BY <1>1, <5>1, <5>2 DEF SavedAt, Local
        <5>4. QED
          BY <1>1, <3>4, <3>7, <4>2, <5>3 DEF At, Built
      <4>3. QED
        BY <4>1, <4>2
    <3>8. QED
      BY <3>1, <3>4, <3>5, <3>7 DEF Kept
  <2>2. CASE ~(active = <<>> /\ onPsp)
    <3>1. active = <<>> => psp = Null
      BY <2>2, StacksDiffer DEF IInv, CurrentInv, InPendSV
    <3>2. active' # <<>>
      BY <1>5, <1>3, StacksDiffer
    <3>3. Kept
      BY <1>1, <1>2, <1>3, <1>4, <2>2, <3>1, <3>2, Framed DEF IInv, TypeOK, Built
    <3>4. QED
      BY <1>2, <2>2, <3>3 DEF IInv, TypeOK
  <2>3. QED
    BY <2>1, <2>2
<1>7. TypeOK'
  <2>1. pos' \in [Exception -> {"pend", "save", "pick", "load", "return"}] /\ pending' \subseteq Exception
    BY <1>1 DEF IInv, TypeOK
  <2>2. active' \in {<<>>, <<"pendsv">>, <<"systick">>, <<"systick", "pendsv">>, <<"pendsv", "systick">>}
    BY <1>3, <1>5 DEF P, S
  <2>3. QED
    BY <1>1, <1>6, <2>1, <2>2, ValuesAre DEF IInv, TypeOK, Program
<1>8. MainInv' /\ ActiveInv'
  BY <1>1, <1>3, <1>4, <1>5, StacksDiffer DEF IInv, TypeOK, MainInv, Built, ActiveInv, InPendSV
<1>9. MainStackInv'
  BY <1>1, <1>2, <1>3, <1>5, StacksDiffer, FramesAre DEF IInv, MainStackInv, CurrentInv, InPendSV
<1>10. CurrentInv'
  BY <1>1, <1>3, <1>4, <1>5, <1>6, StacksDiffer DEF IInv, CurrentInv, ActiveInv, InPendSV
<1>11. QED
  BY <1>6, <1>7, <1>8, <1>9, <1>10, KeptSuffices DEF IInv

\* A return to the PSP gives the task back what it had.
LEMMA BackToTask ==
    ASSUME IInv, psp # Null, active # <<>>, active' = <<>>,
           hw' = mem[psp[1]][psp[2]], psp' = <<psp[1], psp[2] - 1>>,
           UNCHANGED <<sw, mem, sp, main, image>>, pos' = pos, pos[P] = "return"
    PROVE  Kept /\ psp' \in Pointer /\ psp' # Null /\ psp'[1] = psp[1] /\ hw' \in Value
<1>1. psp[1] \in Task
  BY PointersAre DEF IInv, TypeOK
<1>2. PICK p \in Position0 : At(psp[1], p)
  BY <1>1 DEF IInv, TasksInv
<1>3. /\ sw = <<psp[1], p>> /\ sp[psp[1]] # Null
      /\ psp = <<psp[1], Local(p) + 1>> /\ psp[2] = Local(p) + 1 /\ Local(p) \in {0, 1}
      /\ mem[psp[1]][Local(p) + 1] = <<psp[1], p>>
  <2>1. RunsAt(p)
    BY <1>1, <1>2 DEF At
  <2>2. /\ sw = <<psp[1], p>> /\ sp[psp[1]] # Null
        /\ psp = <<psp[1], Local(p) + 1>> /\ mem[psp[1]][Local(p) + 1] = <<psp[1], p>>
    BY <2>1 DEF RunsAt
  <2>3. psp[2] = Local(p) + 1 /\ Local(p) \in {0, 1}
    BY <2>2, LocalIs
  <2>4. QED
    BY <2>2, <2>3
<1>4. hw' = <<psp[1], p>> /\ psp' = <<psp[1], Local(p)>>
  BY <1>3
<1>5. psp' \in Pointer /\ psp' # Null /\ psp'[1] = psp[1] /\ hw' \in Value
  <2>1. Local(p) \in {0, 1, 2, 3}
    BY <1>3
  <2>2. <<psp[1], Local(p)>> \in Pointer /\ <<psp[1], Local(p)>> # Null
    BY <1>1, <2>1, PointersAre
  <2>3. <<psp[1], p>> \in Value
    BY <1>1, ValuesAre
  <2>4. QED
    BY <1>4, <2>2, <2>3
<1>6. ASSUME NEW i \in Task, NEW q \in Position0, At(i, q) PROVE At(i, q)'
  <2>1. CASE i = psp[1]
    <3>1. q = p
      BY <1>3, <1>6, <2>1 DEF At, RunsAt
    <3>2. RunsAt(p)'
      BY <1>1, <1>3, <1>4, <1>5 DEF RunsAt, Local
    <3>3. QED
      BY <1>5, <2>1, <3>1, <3>2 DEF At
  <2>2. CASE i # psp[1]
    BY <1>5, <1>6, <2>2 DEF At, SavedAt, Built, Local
  <2>3. QED
    BY <2>1, <2>2
<1>7. QED
  BY <1>5, <1>6 DEF Kept

\* SysTick returns, to what it interrupted or straight into PendSV.
LEMMA ReturnSysTickStep == ASSUME IInv, ReturnSysTick PROVE IInv' /\ Kept
<1>1. /\ active # <<>> /\ Head(active) = S /\ active' = Tail(active)
      /\ UNCHANGED <<image, apart, main, prio, pending, pos, sw, onPsp, mem, sp, current, fault>>
  BY DEF ReturnSysTick, build, kernel, S
<1>2. IF Tail(active) = <<>> /\ onPsp
      THEN hw' = mem[psp[1]][psp[2]] /\ psp' = <<psp[1], psp[2] - 1>> /\ UNCHANGED msp
      ELSE hw' = Head(msp) /\ msp' = Tail(msp) /\ UNCHANGED psp
  BY DEF ReturnSysTick, Unstack
<1>3. \/ active = <<S>> /\ active' = <<>>
      \/ active = <<S, P>> /\ active' = <<P>> /\ image = "hal"
  <2>1. active \in {<<>>, <<P>>, <<S>>, IF image = "bare" THEN <<P, S>> ELSE <<S, P>>}
        /\ image \in {"bare", "hal"}
    BY DEF IInv, ActiveInv, TypeOK
  <2>2. QED
    BY <1>1, <2>1, StacksAre, StacksDiffer
<1>4. main = 3
  BY <1>1, Handled
<1>5. CASE active = <<S>>
  <2>1. ~InPendSV /\ active' = <<>> /\ pos[P] = "return"
    BY <1>3, <1>5, StacksDiffer DEF IInv, ActiveInv, InPendSV
  <2>2. CASE onPsp
    <3>1. psp # Null /\ hw' = mem[psp[1]][psp[2]] /\ psp' = <<psp[1], psp[2] - 1>> /\ UNCHANGED msp
      BY <1>1, <1>2, <2>1, <2>2 DEF IInv, CurrentInv
    <3>2. Kept /\ psp' \in Pointer /\ psp' # Null /\ psp'[1] = psp[1] /\ hw' \in Value
      BY <1>1, <2>1, <3>1, BackToTask
    <3>3. TypeOK'
      BY <1>1, <2>1, <3>2 DEF IInv, TypeOK, Program
    <3>4. MainInv' /\ ActiveInv' /\ MainStackInv'
      BY <1>1, <1>4, <1>5, <2>1, <2>2, <3>1, StacksDiffer
      DEF IInv, MainInv, Built, ActiveInv, InPendSV, MainStackInv
    <3>5. CurrentInv'
      BY <1>1, <2>1, <2>2, <3>2, StacksDiffer DEF IInv, CurrentInv, InPendSV
    <3>6. QED
      BY <3>2, <3>3, <3>4, <3>5, KeptSuffices DEF IInv
  <2>3. CASE ~onPsp
    <3>1. psp = Null /\ psp' = Null /\ hw' = InMain /\ msp' = <<>>
      BY <1>1, <1>2, <1>5, <2>1, <2>3, FramesAre DEF IInv, CurrentInv, MainStackInv
    <3>2. TypeOK'
      BY <1>1, <2>1, <3>1, ValuesAre, PointersAre DEF IInv, TypeOK, Program
    <3>3. MainInv' /\ ActiveInv' /\ MainStackInv'
      BY <1>1, <1>4, <2>1, <2>3, <3>1, StacksDiffer
      DEF IInv, MainInv, Built, ActiveInv, InPendSV, MainStackInv
    <3>4. CurrentInv'
      BY <1>1, <2>1, <2>3, <3>1, StacksDiffer DEF IInv, CurrentInv, InPendSV
    <3>5. Kept
      BY <1>1, <3>1, Framed DEF Built, IInv, TypeOK
    <3>6. QED
      BY <3>2, <3>3, <3>4, <3>5, KeptSuffices DEF IInv
  <2>4. QED
    BY <2>2, <2>3
<1>6. CASE active = <<S, P>>
  <2>1. active' = <<P>> /\ active' # <<>> /\ psp' = psp /\ hw' = InHandler /\ msp' = <<InMain>>
    BY <1>1, <1>2, <1>3, <1>6, StacksDiffer, FramesAre DEF IInv, MainStackInv
  <2>2. TypeOK'
    BY <1>1, <2>1, ValuesAre DEF IInv, TypeOK, Program, P
  <2>3. MainInv' /\ ActiveInv' /\ MainStackInv' /\ CurrentInv'
    BY <1>1, <1>4, <1>6, <2>1, StacksDiffer
    DEF IInv, MainInv, Built, ActiveInv, InPendSV, MainStackInv, CurrentInv
  <2>4. Kept
    BY <1>1, <2>1, Framed DEF Built, IInv, TypeOK
  <2>5. QED
    BY <2>2, <2>3, <2>4, KeptSuffices DEF IInv
<1>7. QED
  BY <1>3, <1>5, <1>6

\* Only at the end of the bare image's switch inside the tick's handler is there a fault.
LEMMA ReturnPendSVStep == ASSUME IInv, ReturnPendSV PROVE IInv' /\ Kept
<1>1. /\ active # <<>> /\ Head(active) = P /\ pos[P] = "return"
      /\ UNCHANGED <<image, apart, main, prio, pending, pos, sw, mem, sp, current>>
      /\ IF Len(active) > 1 \/ psp = Null
         THEN fault' = TRUE /\ UNCHANGED <<active, hw, psp, onPsp, msp>>
         ELSE /\ active' = <<>> /\ onPsp' = TRUE /\ fault' = fault
              /\ hw' = mem[psp[1]][psp[2]] /\ psp' = <<psp[1], psp[2] - 1>> /\ UNCHANGED msp
  BY DEF ReturnPendSV, Handling, Unstack, build, kernel, P
<1>2. active = <<P>> \/ (active = <<P, S>> /\ image = "bare")
  <2>1. active \in {<<>>, <<P>>, <<S>>, IF image = "bare" THEN <<P, S>> ELSE <<S, P>>}
        /\ image \in {"bare", "hal"}
    BY DEF IInv, ActiveInv, TypeOK
  <2>2. QED
    BY <1>1, <2>1, StacksAre, StacksDiffer
<1>3. main = 3 /\ psp # Null
  BY <1>1, <1>2, Handled DEF IInv, CurrentInv, InPendSV
<1>4. CASE active = <<P, S>>
  <2>1. fault' = TRUE /\ image = "bare" /\ UNCHANGED <<active, hw, psp, onPsp, msp>>
    BY <1>1, <1>2, <1>4, StacksAre, StacksDiffer
  <2>2. TypeOK'
    BY <1>1, <2>1 DEF IInv, TypeOK, Program
  <2>3. MainInv' /\ ActiveInv' /\ MainStackInv' /\ CurrentInv'
    BY <1>1, <2>1 DEF IInv, MainInv, Built, ActiveInv, InPendSV, MainStackInv, CurrentInv
  <2>4. Kept
    BY <1>1, <2>1, Framed DEF Built, IInv, TypeOK
  <2>5. QED
    BY <2>2, <2>3, <2>4, KeptSuffices DEF IInv
<1>5. CASE active = <<P>>
  <2>1. /\ active' = <<>> /\ onPsp' = TRUE /\ fault' = fault
        /\ hw' = mem[psp[1]][psp[2]] /\ psp' = <<psp[1], psp[2] - 1>> /\ UNCHANGED msp
    BY <1>1, <1>3, <1>5, StacksAre
  <2>2. Kept /\ psp' \in Pointer /\ psp' # Null /\ psp'[1] = psp[1] /\ hw' \in Value
    BY <1>1, <1>3, <2>1, BackToTask
  <2>3. TypeOK'
    BY <1>1, <2>1, <2>2 DEF IInv, TypeOK, Program
  <2>4. MainInv' /\ ActiveInv' /\ MainStackInv'
    BY <1>1, <1>3, <1>5, <2>1, StacksDiffer
    DEF IInv, MainInv, Built, ActiveInv, InPendSV, MainStackInv
  <2>5. CurrentInv'
    BY <1>1, <2>1, <2>2, StacksDiffer DEF IInv, CurrentInv, InPendSV
  <2>6. QED
    BY <2>2, <2>3, <2>4, <2>5, KeptSuffices DEF IInv
<1>6. QED
  BY <1>2, <1>4, <1>5

----------------------------------------------------------------------------
(* The set-up, the switch and the tasks.                                    *)

\* What main's steps do, in either image.
LEMMA MainDoes ==
    ASSUME IInv, Main
    PROVE  /\ active = <<>> /\ psp = Null /\ pending = {} /\ main \in {0, 1, 2} /\ main' = main + 1
           /\ UNCHANGED <<image, apart, pending, active, pos, hw, sw, psp, onPsp, msp, current, fault>>
           /\ \/ image = "bare" /\ main = 0 /\ BuildStacks
              \/ image = "hal" /\ main = 1 /\ BuildStacks
              \/ image = "bare" /\ main = 1 /\ UNCHANGED <<mem, sp, prio>>
              \/ image = "bare" /\ main = 2 /\ SetPriority(S, 15)
              \/ image = "hal" /\ main = 0 /\ SetPriority(S, 0)
              \/ image = "hal" /\ main = 2 /\ SetPriority(P, 15)
<1>1. /\ image \in {"bare", "hal"} /\ main \in {0, 1, 2} /\ main' = main + 1
      /\ UNCHANGED <<image, apart, pending, active, pos, hw, sw, psp, onPsp, msp, current, fault>>
  <2>1. image \in {"bare", "hal"} /\ main \in 0 .. Len(Program)
    BY DEF IInv, TypeOK
  <2>2. main \in {0, 1, 2}
    <3>1. main < Len(Program)
      BY DEF Main
    <3>2. Len(Program) = 3
      BY <2>1, ProgramIs
    <3>3. QED
      BY <2>1, <3>1, <3>2
  <2>3. QED
    BY <2>1, <2>2 DEF Main, build
<1>2. active = <<>> /\ psp = Null /\ pending = {}
  BY <1>1 DEF IInv, MainInv
<1>3. Program[main + 1] = IF image = "bare"
                          THEN IF main = 0 THEN "stacks" ELSE IF main = 1 THEN "shp" ELSE "systick_config"
                          ELSE IF main = 0 THEN "hal_init" ELSE IF main = 1 THEN "stacks" ELSE "pendsv_priority"
  BY <1>1, ProgramIs
<1>4. CASE Program[main + 1] = "stacks"
  <2>1. BuildStacks
    BY <1>4 DEF Main
  <2>2. QED
    BY <1>1, <1>2, <1>3, <1>4, <2>1
<1>5. CASE Program[main + 1] = "shp"
  <2>1. UNCHANGED <<mem, sp, prio>>
    BY <1>5 DEF Main
  <2>2. QED
    BY <1>1, <1>2, <1>3, <1>5, <2>1
<1>6. CASE Program[main + 1] = "systick_config"
  <2>1. SetPriority(S, 15)
    BY <1>6 DEF Main, S
  <2>2. QED
    BY <1>1, <1>2, <1>3, <1>6, <2>1
<1>7. CASE Program[main + 1] = "hal_init"
  <2>1. SetPriority(S, 0)
    BY <1>7 DEF Main, S
  <2>2. QED
    BY <1>1, <1>2, <1>3, <1>7, <2>1
<1>8. CASE Program[main + 1] = "pendsv_priority"
  <2>1. SetPriority(P, 15)
    BY <1>8 DEF Main, P
  <2>2. QED
    BY <1>1, <1>2, <1>3, <1>8, <2>1
<1>9. QED
  BY <1>1, <1>3, <1>4, <1>5, <1>6, <1>7, <1>8

\* The steps of main, which come before any interrupt.
LEMMA MainStep == ASSUME IInv, Main PROVE IInv' /\ Kept
<1>1. /\ active = <<>> /\ psp = Null /\ pending = {} /\ main \in {0, 1, 2} /\ main' = main + 1
      /\ UNCHANGED <<image, apart, pending, active, pos, hw, sw, psp, onPsp, msp, current, fault>>
      /\ image \in {"bare", "hal"}
  BY MainDoes DEF IInv, TypeOK
<1>2. prio' = [e \in Exception |-> IF main' = 3 /\ e = (IF image' = "hal" THEN P ELSE S) THEN 15 ELSE 0]
  <2>1. prio = [e \in Exception |-> 0]
    BY <1>1 DEF IInv, MainInv
  <2>2. CASE main = 2
    BY <1>1, <2>1, <2>2, MainDoes DEF SetPriority, Exception, P, S
  <2>3. CASE main # 2
    BY <1>1, <2>1, <2>3, MainDoes DEF SetPriority, BuildStacks, Exception, P, S
  <2>4. QED
    BY <2>2, <2>3
<1>3. ASSUME BuildStacks, main = IF image = "bare" THEN 0 ELSE 1
      PROVE  /\ Kept /\ mem' \in [Task -> [1 .. Halves -> Value]] /\ sp' \in [Task -> Pointer]
             /\ ~Built' => \A i \in Task : sp'[i] = Null
  <2>1. ~Built /\ Built'
    BY <1>1, <1>3 DEF Built
  <2>2. /\ mem' = [i \in Task |-> [mem[i] EXCEPT ![1] = <<i, 0>>, ![2] = <<i, 0>>]]
        /\ sp' = [i \in Task |-> <<i, 2>>]
    BY <1>3 DEF BuildStacks
  <2>3. ASSUME NEW i \in Task
        PROVE  /\ mem'[i] \in [1 .. Halves -> Value] /\ mem'[i][1] = <<i, 0>> /\ mem'[i][2] = <<i, 0>>
               /\ sp'[i] = <<i, 2>> /\ <<i, 2>> \in Pointer /\ 0 \in Position0
    <3>1. <<i, 0>> \in Value /\ <<i, 2>> \in Pointer /\ 0 \in Position0
      <4>1. 0 \in Position0 /\ 2 \in {0, 1, 2, 3}
        BY Sizes DEF Position0
      <4>2. QED
        BY <4>1, ValuesAre, PointersAre
    <3>2. mem[i] \in [1 .. Halves -> Value]
      BY DEF IInv, TypeOK
    <3>3. 1 \in 1 .. Halves /\ 2 \in 1 .. Halves
      BY Sizes
    <3>4. mem'[i] = [mem[i] EXCEPT ![1] = <<i, 0>>, ![2] = <<i, 0>>]
      BY <2>2
    <3>5. QED
      BY <2>2, <3>1, <3>2, <3>3, <3>4
  <2>4. mem' \in [Task -> [1 .. Halves -> Value]] /\ sp' \in [Task -> Pointer]
    <3>1. mem' = [i \in Task |-> mem'[i]]
      BY <2>2
    <3>2. QED
      BY <2>2, <2>3, <3>1
  <2>5. ASSUME NEW i \in Task, NEW p \in Position0, At(i, p) PROVE At(i, p)'
    <3>1. i # psp[1] /\ i # psp'[1]
      BY <1>1, PointersAre
    <3>2. p = 0 /\ Local(0) = 0
      BY <2>1, <2>5, <3>1, LocalIs DEF At
    <3>3. SavedAt(i, 0)'
      <4>1. (0 % 2) + 1 = 1 /\ (0 % 2) + 2 = 2
        OBVIOUS
      <4>2. QED
        BY <2>3, <4>1 DEF SavedAt, Local
    <3>4. QED
      BY <2>1, <3>1, <3>2, <3>3 DEF At
  <2>6. QED
    BY <2>1, <2>4, <2>5 DEF Kept
<1>4. ASSUME UNCHANGED <<mem, sp>>, Built' = Built
      PROVE  /\ Kept /\ mem' \in [Task -> [1 .. Halves -> Value]] /\ sp' \in [Task -> Pointer]
             /\ ~Built' => \A i \in Task : sp'[i] = Null
  <2>1. Kept
    BY <1>1, <1>4, Framed DEF IInv, TypeOK
  <2>2. QED
    BY <1>4, <2>1 DEF IInv, MainInv, TypeOK
<1>5. /\ Kept /\ mem' \in [Task -> [1 .. Halves -> Value]] /\ sp' \in [Task -> Pointer]
      /\ ~Built' => \A i \in Task : sp'[i] = Null
  <2>1. CASE BuildStacks /\ main = IF image = "bare" THEN 0 ELSE 1
    BY <1>3, <2>1
  <2>2. CASE ~(BuildStacks /\ main = IF image = "bare" THEN 0 ELSE 1)
    <3>1. UNCHANGED <<mem, sp>> /\ Built' = Built
      BY <1>1, <2>2, MainDoes DEF SetPriority, Built
    <3>2. QED
      BY <1>4, <3>1
  <2>3. QED
    BY <2>1, <2>2
<1>6. TypeOK'
  <2>1. prio' \in [Exception -> 0 .. 15]
    BY <1>2
  <2>2. main' \in 0 .. Len(Program)'
    BY <1>1, ProgramIs DEF Program
  <2>3. QED
    BY <1>1, <1>5, <2>1, <2>2 DEF IInv, TypeOK
<1>7. MainInv' /\ ActiveInv' /\ MainStackInv' /\ CurrentInv'
  BY <1>1, <1>2, <1>5 DEF IInv, MainInv, ActiveInv, InPendSV, MainStackInv, CurrentInv
<1>8. QED
  BY <1>5, <1>6, <1>7, KeptSuffices DEF IInv

\* The outgoing task's other half goes on its stack; PSP still points to it.
LEMMA SaveStep == ASSUME IInv, Save PROVE IInv' /\ Kept
<1>1. /\ active # <<>> /\ pos[P] = "save" /\ pos' = [pos EXCEPT ![P] = "pick"]
      /\ UNCHANGED <<image, apart, main, prio, pending, active, hw, sw, psp, onPsp, msp, current, fault>>
      /\ IF current < 0 THEN UNCHANGED <<mem, sp>>
         ELSE /\ mem' = [mem EXCEPT ![psp[1]][psp[2] + 1] = sw]
              /\ sp' = [sp EXCEPT ![current] = <<psp[1], psp[2] + 1>>]
  BY DEF Save, PendSV, Handling, build, P
<1>2. main = 3 /\ pos'[P] = "pick" /\ Built /\ Built'
  <2>1. main = 3 /\ pos'[P] = "pick"
    BY <1>1, Handled
  <2>2. QED
    BY <1>1, <2>1 DEF Built
<1>3. current = psp[1] /\ psp \in Pointer /\ (current < 0 <=> psp = Null)
  <2>1. current = psp[1] /\ psp \in Pointer
    BY <1>1 DEF IInv, TypeOK, CurrentInv
  <2>2. psp # Null => psp[1] \in Task
    BY <2>1, PointersAre
  <2>3. QED
    BY <2>1, <2>2, PointersAre, Sizes DEF Task
<1>4. Kept /\ mem' \in [Task -> [1 .. Halves -> Value]] /\ sp' \in [Task -> Pointer]
  <2>1. CASE psp = Null
    <3>1. ASSUME NEW i \in Task, NEW p \in Position0, At(i, p) PROVE At(i, p)'
      BY <1>1, <1>2, <1>3, <2>1, <3>1, PointersAre DEF At, SavedAt
    <3>2. QED
      BY <1>1, <1>3, <2>1, <3>1 DEF Kept, IInv, TypeOK
  <2>2. CASE psp # Null
    <3>1. psp[1] \in Task
      BY <1>3, <2>2, PointersAre
    <3>2. PICK p \in Position0 : At(psp[1], p)
      BY <3>1 DEF IInv, TasksInv
    <3>3. RunsAt(p)
      BY <3>2 DEF At
    <3>4. /\ sw = <<psp[1], p>> /\ sp[psp[1]] # Null
          /\ psp = <<psp[1], Local(p) + 1>> /\ mem[psp[1]][Local(p) + 1] = <<psp[1], p>>
      BY <1>1, <3>3 DEF RunsAt
    <3>5. psp[2] + 1 = Local(p) + 2 /\ Local(p) \in {0, 1}
      BY <3>4, LocalIs
    <3>6. /\ Local(p) + 2 \in 1 .. Halves /\ Local(p) + 1 \in 1 .. Halves
          /\ sw \in Value /\ mem \in [Task -> [1 .. Halves -> Value]] /\ sp \in [Task -> Pointer]
      BY <3>5, Sizes DEF IInv, TypeOK
    <3>7. /\ mem' = [mem EXCEPT ![psp[1]][Local(p) + 2] = sw]
          /\ sp' = [sp EXCEPT ![psp[1]] = <<psp[1], Local(p) + 2>>]
      BY <1>1, <1>3, <2>2, <3>5
    <3>8. /\ mem' \in [Task -> [1 .. Halves -> Value]]
          /\ \A i \in Task, d \in 1 .. Halves :
                 mem'[i][d] = IF i = psp[1] /\ d = Local(p) + 2 THEN sw ELSE mem[i][d]
      BY <3>1, <3>6, <3>7, MemUpdate
    <3>9. <<psp[1], Local(p) + 2>> \in Pointer /\ <<psp[1], Local(p) + 2>> # Null
      <4>1. Local(p) + 2 \in {0, 1, 2, 3}
        BY <3>5
      <4>2. QED
        BY <3>1, <4>1, PointersAre
    <3>10. /\ sp' \in [Task -> Pointer] /\ sp'[psp[1]] = <<psp[1], Local(p) + 2>>
           /\ \A i \in Task \ {psp[1]} : sp'[i] = sp[i]
      BY <3>1, <3>6, <3>7, <3>9
    <3>11. ASSUME NEW i \in Task, NEW q \in Position0, At(i, q) PROVE At(i, q)'
      <4>1. CASE i = psp[1]
        <5>1. q = p
          BY <3>4, <3>11, <4>1 DEF At, RunsAt
        <5>2. /\ mem'[i][Local(p) + 1] = <<i, p>> /\ mem'[i][Local(p) + 2] = <<i, p>>
              /\ sp'[i] = <<i, Local(p) + 2>> /\ sp'[i] # Null
          <6>1. mem'[i][Local(p) + 1] = mem[i][Local(p) + 1] /\ mem'[i][Local(p) + 2] = sw
            BY <3>5, <3>6, <3>8, <4>1
          <6>2. QED
            BY <3>4, <3>9, <3>10, <4>1, <6>1
        <5>3. SavedAt(i, p)'
          BY <5>2 DEF SavedAt, Local
        <5>4. RunsAt(p)'
          BY <1>1, <3>1, <3>4, <4>1, <5>2 DEF RunsAt, Local
        <5>5. QED
          BY <1>1, <4>1, <5>1, <5>3, <5>4 DEF At
      <4>2. CASE i # psp[1]
        <5>1. Local(q) \in {0, 1}
          BY LocalIs
        <5>2. \A d \in {1, 2, 3} : mem'[i][d] = mem[i][d]
          BY <3>8, <4>2, Sizes
        <5>3. SavedAt(i, q) => SavedAt(i, q)'
          BY <3>10, <4>2, <5>1, <5>2 DEF SavedAt, Local
        <5>4. QED
          BY <1>1, <1>2, <3>11, <4>2, <5>3 DEF At
      <4>3. QED
        BY <4>1, <4>2
    <3>12. QED
      BY <3>8, <3>10, <3>11 DEF Kept
  <2>3. QED
    BY <2>1, <2>2
<1>5. TypeOK'
  BY <1>1, <1>4 DEF IInv, TypeOK, Program, Exception, P
<1>6. MainInv' /\ ActiveInv' /\ MainStackInv'
  BY <1>1, <1>2 DEF IInv, MainInv, ActiveInv, InPendSV, MainStackInv
<1>7. CurrentInv'
  BY <1>1, <1>2, <1>3 DEF IInv, CurrentInv, ActiveInv, InPendSV
<1>8. QED
  BY <1>4, <1>5, <1>6, <1>7, KeptSuffices DEF IInv

\* The switch: the next task's registers and stack, the others wait with theirs.
LEMMA LoadStep ==
    ASSUME IInv, Load
    PROVE  IInv' /\ Kept /\ psp'[1] = (psp[1] + 1) % NumTasks
<1>1. /\ active # <<>> /\ Head(active) = P /\ pos[P] = "load" /\ pos' = [pos EXCEPT ![P] = "return"]
      /\ UNCHANGED <<image, apart, main, prio, pending, active, hw, onPsp, msp, mem, sp, current, fault>>
      /\ sp[current] # Null => /\ sw' = mem[sp[current][1]][sp[current][2]]
                              /\ psp' = <<sp[current][1], sp[current][2] - 1>>
  BY DEF Load, PendSV, Handling, build, kernel, P
<1>2. main = 3 /\ pos'[P] = "return" /\ Built /\ Built'
  <2>1. main = 3 /\ pos'[P] = "return"
    BY <1>1, Handled
  <2>2. QED
    BY <1>1, <2>1 DEF Built
<1>3. current = (psp[1] + 1) % NumTasks /\ current \in Task
  <2>1. current = (psp[1] + 1) % NumTasks
    BY <1>1 DEF IInv, CurrentInv
  <2>2. psp[1] \in Int
    BY PointersAre DEF IInv, TypeOK, Task
  <2>3. \A x \in Int : x % NumTasks \in Task
    BY Sizes DEF Task
  <2>4. QED
    BY <2>1, <2>2, <2>3
<1>4. \A i \in Task, q \in Position0 : At(i, q) => SavedAt(i, q)
  BY <1>1, <1>2 DEF At
<1>5. PICK p \in Position0 : At(current, p)
  BY <1>3 DEF IInv, TasksInv
<1>6. /\ sp[current] = <<current, Local(p) + 2>> /\ Local(p) \in {0, 1}
      /\ mem[current][Local(p) + 1] = <<current, p>> /\ mem[current][Local(p) + 2] = <<current, p>>
  BY <1>3, <1>4, <1>5, LocalIs DEF SavedAt
<1>7. /\ <<current, Local(p) + 2>> # Null /\ <<current, Local(p) + 1>> \in Pointer
      /\ <<current, Local(p) + 1>> # Null /\ <<current, p>> \in Value
  <2>1. Local(p) + 1 \in {0, 1, 2, 3} /\ Local(p) + 2 \in {0, 1, 2, 3}
    BY <1>6
  <2>2. QED
    BY <1>3, <2>1, PointersAre, ValuesAre
<1>8. sw' = <<current, p>> /\ psp' = <<current, Local(p) + 1>>
  <2>1. sp[current][1] = current /\ sp[current][2] = Local(p) + 2 /\ sp[current][2] - 1 = Local(p) + 1
    BY <1>6
  <2>2. QED
    BY <1>1, <1>6, <1>7, <2>1
<1>9. psp'[1] = current /\ psp' \in Pointer /\ psp' # Null /\ sw' \in Value
  BY <1>7, <1>8
<1>10. ASSUME NEW i \in Task, NEW q \in Position0, At(i, q) PROVE At(i, q)'
  <2>1. SavedAt(i, q)
    BY <1>4, <1>10
  <2>2. CASE i = current
    <3>1. q = p
      <4>1. Local(q) \in {0, 1}
        BY LocalIs
      <4>2. /\ sp[i] = <<i, Local(q) + 2>> /\ mem[i][Local(q) + 2] = <<i, q>>
        BY <2>1 DEF SavedAt
      <4>3. Local(q) + 2 = Local(p) + 2
        BY <1>6, <2>2, <4>2
      <4>4. QED
        BY <1>6, <2>2, <4>2, <4>3
    <3>2. RunsAt(p)'
      BY <1>1, <1>3, <1>6, <1>7, <1>8, <1>9 DEF RunsAt, Local
    <3>3. QED
      BY <1>2, <1>9, <2>2, <3>1, <3>2 DEF At
  <2>3. CASE i # current
    BY <1>1, <1>2, <1>9, <2>1, <2>3 DEF At, SavedAt, Local
  <2>4. QED
    BY <2>2, <2>3
<1>11. TypeOK'
  BY <1>1, <1>9 DEF IInv, TypeOK, Program, Exception, P
<1>12. MainInv' /\ ActiveInv' /\ MainStackInv'
  BY <1>1, <1>2 DEF IInv, MainInv, ActiveInv, InPendSV, MainStackInv
<1>13. InPendSV
  BY <1>1 DEF IInv, ActiveInv
<1>14. CurrentInv'
  BY <1>1, <1>2, <1>9, <1>13 DEF CurrentInv, InPendSV
<1>15. QED
  BY <1>3, <1>9, <1>10, <1>11, <1>12, <1>14, KeptSuffices DEF IInv, Kept

\* The running task moves on, the others stay.
LEMMA TaskStepStep ==
    ASSUME IInv, NEW t \in Task, TaskStep(t)
    PROVE  /\ IInv' /\ psp[1] = t /\ psp'[1] = t
           /\ \A i \in Task, p \in Position0 :
                  At(i, p) => At(i, IF i = t THEN (p + 1) % Steps ELSE p)'
<1>1. /\ active = <<>> /\ hw[1] = t
      /\ hw' = <<t, (hw[2] + 1) % Steps>> /\ sw' = <<sw[1], (sw[2] + 1) % Steps>>
      /\ IF hw[2] % 2 = 0
         THEN /\ psp' = <<psp[1], psp[2] + 1>>
              /\ mem' = [mem EXCEPT ![psp[1]][psp[2] + 1] = <<t, hw[2] + 1>>]
         ELSE psp' = <<psp[1], psp[2] - 1>> /\ UNCHANGED mem
      /\ UNCHANGED <<image, apart, main, prio, pending, active, pos, onPsp, msp, sp, current, fault>>
  BY DEF TaskStep, Thread, build, kernel
<1>2. /\ psp # Null /\ psp \in Pointer /\ psp[1] \in Task /\ pos[P] = "return"
      /\ hw \in Value /\ sw \in Value /\ mem \in [Task -> [1 .. Halves -> Value]]
  <2>1. hw # InMain
    BY <1>1, PointersAre DEF InMain, Null
  <2>2. psp # Null /\ psp \in Pointer /\ hw \in Value /\ sw \in Value
        /\ mem \in [Task -> [1 .. Halves -> Value]]
    BY <1>1, <2>1 DEF IInv, TypeOK, CurrentInv
  <2>3. pos[P] = "return"
    BY <1>1, StacksDiffer DEF IInv, ActiveInv, InPendSV
  <2>4. QED
    BY <2>2, <2>3, PointersAre
<1>3. PICK p \in Position0 : At(psp[1], p)
  BY <1>2 DEF IInv, TasksInv
<1> DEFINE n == (p + 1) % Steps
<1>4. /\ psp[1] = t /\ sw = <<t, p>> /\ sp[t] # Null /\ hw = <<t, p>>
      /\ psp = <<t, Local(p)>> /\ psp[2] = Local(p)
  <2>1. RunsAt(p)
    BY <1>2, <1>3 DEF At
  <2>2. /\ sw = <<psp[1], p>> /\ sp[psp[1]] # Null /\ hw = <<psp[1], p>> /\ psp = <<psp[1], Local(p)>>
    BY <1>1, <2>1 DEF RunsAt
  <2>3. psp[1] = t
    BY <1>1, <2>2
  <2>4. QED
    BY <2>2, <2>3
<1>5. Local(p) \in {0, 1} /\ p \in Nat /\ n \in Position0 /\ Local(n) = 1 - Local(p)
  BY LocalIs
<1>6. /\ hw' = <<t, n>> /\ sw' = <<t, n>> /\ psp' = <<t, Local(n)>>
      /\ mem' \in [Task -> [1 .. Halves -> Value]]
      /\ \A i \in Task \ {t}, d \in 1 .. Halves : mem'[i][d] = mem[i][d]
  <2>1. hw' = <<t, n>> /\ sw' = <<t, n>>
    BY <1>1, <1>4
  <2>2. CASE Local(p) = 0
    <3>1. psp' = <<t, 1>> /\ mem' = [mem EXCEPT ![t][1] = <<t, p + 1>>]
      <4>1. hw[2] % 2 = 0 /\ psp[2] + 1 = 1 /\ hw[2] + 1 = p + 1
        BY <1>4, <2>2 DEF Local
      <4>2. QED
        BY <1>1, <1>4, <4>1
    <3>2. <<t, p + 1>> \in Value
      <4>1. p + 1 \in Position0
        BY <1>5, <2>2, Sizes DEF Position0, Local
      <4>2. QED
        BY <4>1, ValuesAre
    <3>3. 1 \in 1 .. Halves
      BY Sizes
    <3>4. QED
      BY <1>2, <1>5, <2>1, <2>2, <3>1, <3>2, <3>3, MemUpdate
  <2>3. CASE Local(p) = 1
    <3>1. hw[2] % 2 = 1 /\ psp[2] - 1 = 0
      BY <1>4, <2>3 DEF Local
    <3>2. QED
      BY <1>1, <1>2, <1>4, <1>5, <2>1, <2>3, <3>1
  <2>4. QED
    BY <1>5, <2>2, <2>3
<1>7. psp' \in Pointer /\ psp' # Null /\ psp'[1] = t /\ hw' \in Value /\ sw' \in Value
  <2>1. Local(n) \in {0, 1, 2, 3}
    BY <1>5
  <2>2. <<t, Local(n)>> \in Pointer /\ <<t, Local(n)>> # Null /\ <<t, n>> \in Value
    BY <1>5, <2>1, PointersAre, ValuesAre
  <2>3. QED
    BY <1>6, <2>2
<1>8. ASSUME NEW i \in Task, NEW q \in Position0, At(i, q)
      PROVE  At(i, IF i = t THEN (q + 1) % Steps ELSE q)'
  <2>1. CASE i = t
    <3>1. q = p
      BY <1>4, <1>8, <2>1 DEF At, RunsAt
    <3> HIDE DEF n
    <3>2. RunsAt(n)'
      BY <1>1, <1>4, <1>6, <1>7 DEF RunsAt, Local
    <3>3. At(i, n)'
      BY <1>1, <1>2, <1>7, <2>1, <3>2 DEF At
    <3>4. QED
      BY <2>1, <3>1, <3>3 DEF n
  <2>2. CASE i # t
    <3>1. \A d \in {1, 2, 3} : mem'[i][d] = mem[i][d]
      BY <1>6, <2>2, Sizes
    <3>2. Local(q) \in {0, 1}
      BY LocalIs
    <3>3. SavedAt(i, q) => SavedAt(i, q)'
      BY <1>1, <3>1, <3>2 DEF SavedAt, Local
    <3>4. At(i, q)'
      BY <1>1, <1>4, <1>7, <1>8, <2>2, <3>3 DEF At, Built
    <3>5. QED
      BY <2>2, <3>4
  <2>3. QED
    BY <2>1, <2>2
<1>9. TypeOK'
  BY <1>1, <1>6, <1>7 DEF IInv, TypeOK, Program
<1>10. MainInv' /\ ActiveInv' /\ MainStackInv' /\ CurrentInv'
  <2>1. main = 3
    <3>1. main \in 0 .. 3
      BY ProgramIs DEF IInv, TypeOK
    <3>2. QED
      BY <1>2, <3>1 DEF IInv, MainInv
  <2>2. QED
    BY <1>1, <1>2, <1>4, <1>7, <2>1
    DEF IInv, MainInv, Built, ActiveInv, InPendSV, MainStackInv, CurrentInv
<1>11. TasksInv'
  <2>1. ASSUME NEW i \in Task PROVE \E q \in Position0 : At(i, q)'
    <3>1. PICK q \in Position0 : At(i, q)
      BY DEF IInv, TasksInv
    <3>2. (IF i = t THEN (q + 1) % Steps ELSE q) \in Position0
      BY LocalIs
    <3>3. QED
      BY <1>8, <3>1, <3>2
  <2>2. QED
    BY <2>1 DEF TasksInv, Position0
<1>12. QED
  BY <1>4, <1>7, <1>8, <1>9, <1>10, <1>11 DEF IInv
----------------------------------------------------------------------------
(* The theorems.                                                            *)

\* Nothing happens.
LEMMA StutterStep == ASSUME IInv, UNCHANGED vars PROVE IInv' /\ Kept
<1>1. UNCHANGED <<image, apart, main, prio, pending, active, pos, hw, sw, psp, onPsp, msp, mem, sp,
                  current, fault>>
  BY DEF vars, build, regs, kernel
<1>2. TypeOK' /\ MainInv' /\ ActiveInv' /\ MainStackInv' /\ CurrentInv'
  BY <1>1 DEF IInv, TypeOK, Program, MainInv, Built, ActiveInv, InPendSV, MainStackInv, CurrentInv
<1>3. Kept
  BY <1>1, Framed DEF Built, IInv, TypeOK
<1>4. QED
  BY <1>2, <1>3, KeptSuffices DEF IInv

\* Only Load changes the task that runs.
LEMMA RunningStays ==
    ASSUME [Next]_vars, ~Load
    PROVE  psp'[1] = psp[1] \/ \E t \in Task : TaskStep(t)
<1>1. CASE \E e \in Exception : Enter(e)
  BY <1>1 DEF Enter
<1>2. CASE ReturnSysTick \/ ReturnPendSV
  BY <1>2 DEF ReturnSysTick, ReturnPendSV, Unstack
<1>3. CASE Tick \/ SysTick \/ Main \/ Save \/ Pick \/ UNCHANGED vars
  BY <1>3 DEF Tick, SysTick, Main, Save, Pick, vars, regs
<1>4. QED
  BY <1>1, <1>2, <1>3 DEF Next, Cpu, PendSVHandler

\* Every step but a task's own keeps every task where it is.
LEMMA OthersKeep ==
    ASSUME Ready, IInv, [Next]_vars, ~(\E t \in Task : TaskStep(t))
    PROVE  IInv' /\ Kept
<1>1. CASE Tick
  BY <1>1, TickStep
<1>2. CASE \E e \in Exception : Enter(e)
  BY <1>2, EnterStep
<1>3. CASE Main
  BY <1>3, MainStep
<1>4. CASE SysTick
  BY <1>4, SysTickStep
<1>5. CASE ReturnSysTick
  BY <1>5, ReturnSysTickStep
<1>6. CASE Save
  BY <1>6, SaveStep
<1>7. CASE Pick
  BY <1>7, PickStep
<1>8. CASE Load
  BY <1>8, LoadStep
<1>9. CASE ReturnPendSV
  BY <1>9, ReturnPendSVStep
<1>10. CASE UNCHANGED vars
  BY <1>10, StutterStep
<1>11. QED
  BY <1>1, <1>2, <1>3, <1>4, <1>5, <1>6, <1>7, <1>8, <1>9, <1>10 DEF Next, Cpu, PendSVHandler

\* No step leaves IInv.
LEMMA StepInv == Ready /\ IInv /\ [Next]_vars => IInv'
<1>1. ASSUME IInv, NEW t \in Task, TaskStep(t) PROVE IInv'
  BY <1>1, TaskStepStep
<1>2. QED
  BY <1>1, OthersKeep

\* The image and the order of its set-up do not change.
LEMMA ReadyStays == Ready /\ [Next]_vars => Ready'
<1>1. [Next]_vars => image' = image
  BY DEF Next, Cpu, Tick, Enter, Main, TaskStep, SysTick, ReturnSysTick, PendSVHandler, Save, Pick, Load,
         PendSV, ReturnPendSV, vars, build
<1>2. QED
  BY <1>1 DEF Ready

\* IInv holds in every state of the bare image, and of the HAL image if main is through
\* before the first tick.
THEOREM Invariance == Spec /\ Ready => [](IInv /\ Ready)
  BY InitInv, StepInv, ReadyStays, PTL DEF Spec

\* No register, stack pointer or stack leaves its type and no stack grows past its end,
\* for any number of tasks.
THEOREM TypeCorrect == Spec /\ Ready => []TypeOK
<1>1. IInv => TypeOK
  BY DEF IInv
<1>2. QED
  BY <1>1, Invariance, PTL

HalSafe == image = "hal" => SwitchIsLast /\ ~fault

\* HAL's image, which sets PendSV's priority, never switches in the middle of another
\* handler and never faults.  (main_bare.c sets BusFault's instead, see preempt_priority.)
THEOREM HalSwitchIsLast == Spec /\ Ready => []HalSafe
<1>1. IInv => HalSafe
  <2> SUFFICES ASSUME IInv, image = "hal" PROVE SwitchIsLast /\ ~fault
    BY DEF HalSafe
  <2>1. ~fault /\ active \in {<<>>, <<P>>, <<S>>, <<S, P>>}
    BY DEF IInv, ActiveInv
  <2>2. ASSUME NEW k \in 1 .. Len(active) - 1 PROVE active[k] # "pendsv"
    BY <2>1 DEF P, S
  <2>3. QED
    BY <2>1, <2>2 DEF SwitchIsLast
<1>2. QED
  BY <1>1, Invariance, PTL

\* The refinement mapping's positions.
PositionsAre == \A i \in Task, p \in Position0 : At(i, p) => Position(i) = p

\* The refinement mapping reads off what TasksInv says.
LEMMA PositionsHold == IInv => PositionsAre
  BY PositionIs DEF PositionsAre
\* Also after a step.
LEMMA PositionsHoldNext == IInv' => PositionsAre'
  BY PositionsHold, PTL

\* The slicing of time: a task's step is a step of its loop, Load is the switch and
\* whatever else the CPU, main and the handlers do is invisible.  So a task resumes where
\* it was interrupted and the tasks take turns, for any number of tasks.
THEOREM SlicesImplemented == Spec /\ Ready => ImplementsSlices
<1>1. Init => Slices!Init
  BY DEF Init, Slices!Init, Position, Null, Task
<1>2. IInv /\ Ready /\ [Next]_vars => [Slices!Next]_(Slices!vars)
  <2> SUFFICES ASSUME IInv, Ready, [Next]_vars PROVE [Slices!Next]_(Slices!vars)
    OBVIOUS
  <2> DEFINE position == [i \in Task |-> Position(i)]
  <2>1. IInv' /\ PositionsAre /\ PositionsAre'
    BY StepInv, PositionsHold, PositionsHoldNext
  <2>2. CASE \E t \in Task : TaskStep(t)
    <3>1. PICK t \in Task : TaskStep(t)
      BY <2>2
    <3>2. psp[1] = t /\ psp'[1] = t /\ t # -1
      BY <3>1, TaskStepStep DEF Task
    <3>3. ASSUME NEW i \in Task
          PROVE  Position(i)' = IF i = t THEN (Position(i) + 1) % Steps ELSE Position(i)
      <4>1. PICK p \in Position0 : At(i, p)
        BY DEF IInv, TasksInv
      <4>2. (IF i = t THEN (p + 1) % Steps ELSE p) \in Position0
        BY LocalIs
      <4>3. At(i, IF i = t THEN (p + 1) % Steps ELSE p)'
        BY <3>1, <4>1, TaskStepStep
      <4>4. Position(i) = p /\ Position(i)' = IF i = t THEN (p + 1) % Steps ELSE p
        BY <2>1, <4>1, <4>2, <4>3 DEF PositionsAre, Position0
      <4>5. QED
        BY <4>4
    <3>4. position' = [position EXCEPT ![t] = (@ + 1) % Steps]
      BY <3>3
    <3>5. QED
      BY <3>2, <3>4 DEF Slices!Next, Slices!Step
  <2>3. CASE ~(\E t \in Task : TaskStep(t))
    <3>1. Kept
      BY <2>3, OthersKeep
    <3>2. ASSUME NEW i \in Task PROVE Position(i)' = Position(i)
      <4>1. PICK p \in Position0 : At(i, p)
        BY DEF IInv, TasksInv
      <4>2. At(i, p)'
        BY <3>1, <4>1 DEF Kept
      <4>3. QED
        BY <2>1, <4>1, <4>2 DEF PositionsAre, Position0
    <3>3. position' = position
      BY <3>2
    <3>4. CASE Load
      BY <3>3, <3>4, LoadStep DEF Slices!Next, Slices!Switch
    <3>5. CASE ~Load
      BY <2>3, <3>3, <3>5, RunningStays DEF Slices!vars
    <3>6. QED
      BY <3>4, <3>5
  <2>4. QED
    BY <2>2, <2>3
<1>3. QED
  BY <1>1, <1>2, Invariance, PTL DEF Spec, ImplementsSlices, Slices!Spec
=================================================================================
