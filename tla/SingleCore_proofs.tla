---------------------------- MODULE SingleCore_proofs ----------------------------
(****************************************************************************)
(* Proofs about the programs of SingleCore, which rest or run side by side:   *)
(* the periods of TickTasks, for counters of any width and any periods that  *)
(* fit into it; the turns of CoopSingleStack; the lines of SerialCounter,    *)
(* for numbers of any length; what CoopKernel_proofs proves of the kernels;  *)
(* and the types of all of them.                                             *)
(****************************************************************************)
EXTENDS SingleCore, CoopKernel_proofs, Sequences, WellFoundedInduction, TLAPS

TickTypeInv ==
    /\ timing \in {"bare", "hal", "delay"}
    /\ tick \in 0 .. Word - 1 /\ gap \in 0 .. Stall
    /\ task \in Ticks!Tasks /\ due \in BOOLEAN
    /\ lastRun \in [{1, 2} -> 0 .. Word - 1] /\ since \in [{1, 2} -> Nat]
    /\ timing = "bare" => gap = 0

\* The difference the code takes is the time that has passed.
DifferenceInv == \A k \in Ticks!Tasks : (tick - lastRun[k]) % Word = since[k]

\* How late a task can be, by what the loop has yet to do before it comes to its test:
\* each step takes up to Stall ticks, gap of which have passed.
Late(k) == gap + (IF k = task THEN (IF due THEN 3 ELSE 2) ELSE (IF due THEN 1 ELSE 0)) * Stall
LateInv == \A k \in Ticks!Tasks : since[k] < Ticks!Least(k) + Late(k)

DueInv == due => since[task] >= Ticks!Least(task)

TickInv == TickTypeInv /\ DifferenceInv /\ LateInv /\ DueInv

----------------------------------------------------------------------------

\* What is assumed of the tick and the periods.
LEMMA Widths ==
    /\ Word \in Nat \ {0} /\ Stall \in Nat \ {0} /\ Slow \in Nat \ {0} /\ Fast \in Nat \ {0}
    /\ Fast <= Slow /\ Slow + 1 + 4 * Stall < Word
  BY PaceAssumption

\* The unsigned difference moves on with the counter, also when that wraps.
LEMMA WrappedDifference ==
    ASSUME NEW t \in 0 .. Word - 1, NEW l \in 0 .. Word - 1, ((t - l) % Word) + 1 < Word
    PROVE  (((t + 1) % Word) - l) % Word = ((t - l) % Word) + 1
<1> Word \in Nat \ {0}
  BY Widths
<1>1. \A x \in 0 .. Word - 1 : x % Word = x
  OBVIOUS
<1>2. \A x \in -Word .. -1 : x % Word = x + Word
  OBVIOUS
<1>3. (t + 1) % Word = IF t + 1 = Word THEN 0 ELSE t + 1
  <2>1. Word % Word = 0
    OBVIOUS
  <2>2. QED
    BY <1>1, <2>1
<1>4. QED
  BY <1>1, <1>2, <1>3

\* The tasks of each image and the least time between two runs of each.
LEMMA LeastIs ==
    /\ Ticks!Tasks = IF timing = "delay" THEN {1} ELSE {1, 2}
    /\ \A k \in {1, 2} : Ticks!Least(k) = (IF k = 1 THEN Slow ELSE Fast) + (IF timing = "hal" THEN 0 ELSE 1)
  BY DEF Ticks!Tasks, Ticks!Least

\* No task has waited for as long as the counter takes to wrap.
LEMMA BelowWord ==
    ASSUME TickInv, NEW k \in Ticks!Tasks
    PROVE  /\ since[k] \in Nat /\ since[k] < Ticks!Least(k) + 4 * Stall
           /\ since[k] + 1 < Word
<1>1. k \in {1, 2} /\ task \in {1, 2} /\ gap \in 0 .. Stall /\ since[k] \in Nat
  BY LeastIs DEF TickInv, TickTypeInv
<1>2. since[k] < Ticks!Least(k) + gap + 3 * Stall
  BY <1>1, Widths, LeastIs DEF TickInv, LateInv, Late
<1>3. QED
  BY <1>1, <1>2, Widths, LeastIs

\* Every image begins in TickInv.
LEMMA TickInitInv == Ticks!Init => TickInv
<1> SUFFICES ASSUME Ticks!Init PROVE TickInv
  OBVIOUS
<1>1. 0 % Word = 0
  BY Widths
<1>2. TickTypeInv
  <2>1. 0 \in 0 .. Word - 1 /\ 0 \in 0 .. Stall /\ 1 \in Ticks!Tasks
    BY Widths, LeastIs
  <2>2. QED
    BY <2>1 DEF Ticks!Init, TickTypeInv
<1>3. DifferenceInv /\ LateInv /\ DueInv
  BY <1>1, Widths, LeastIs DEF Ticks!Init, DifferenceInv, LateInv, Late, DueInv
<1>4. QED
  BY <1>2, <1>3 DEF TickInv

\* A tick that the counter takes.
LEMMA CountDoes ==
    ASSUME TickInv, Ticks!Count
    PROVE  /\ tick' \in 0 .. Word - 1 /\ since' \in [{1, 2} -> Nat]
           /\ \A k \in Ticks!Tasks : /\ since'[k] = since[k] + 1
                                     /\ (tick' - lastRun[k]) % Word = since'[k]
<1>1. tick' \in 0 .. Word - 1
  BY Widths DEF Ticks!Count, TickInv, TickTypeInv
<1>2. since' \in [{1, 2} -> Nat]
  BY DEF Ticks!Count, TickInv, TickTypeInv
<1>3. ASSUME NEW k \in Ticks!Tasks
      PROVE  since'[k] = since[k] + 1 /\ (tick' - lastRun[k]) % Word = since'[k]
  <2>1. since'[k] = since[k] + 1 /\ k \in {1, 2}
    BY BelowWord, LeastIs, Widths DEF Ticks!Count
  <2>2. /\ tick \in 0 .. Word - 1 /\ lastRun[k] \in 0 .. Word - 1
        /\ (tick - lastRun[k]) % Word = since[k] /\ since[k] + 1 < Word
    BY <2>1, BelowWord DEF TickInv, TickTypeInv, DifferenceInv
  <2>3. QED
    BY <2>1, <2>2, WrappedDifference DEF Ticks!Count
<1>4. QED
  BY <1>1, <1>2, <1>3

\* A tick adds one to every difference, which Stall keeps below Word.
LEMMA SysTickStep == TickInv /\ Ticks!SysTick => TickInv'
<1> SUFFICES ASSUME TickInv, Ticks!SysTick PROVE TickInv'
  OBVIOUS
<1>1. /\ timing # "bare" /\ gap < Stall /\ gap' = gap + 1 /\ Ticks!Count
      /\ UNCHANGED <<timing, task, due, lastRun>>
  BY DEF Ticks!SysTick
<1>2. Ticks!Tasks' = Ticks!Tasks /\ \A k \in {1, 2} : Ticks!Least(k)' = Ticks!Least(k)
  BY <1>1 DEF Ticks!Tasks, Ticks!Least
<1>3. /\ tick' \in 0 .. Word - 1 /\ since' \in [{1, 2} -> Nat]
      /\ \A k \in Ticks!Tasks : /\ since'[k] = since[k] + 1
                                /\ (tick' - lastRun[k]) % Word = since'[k]
  BY <1>1, CountDoes
<1>4. TickTypeInv'
  BY <1>1, <1>2, <1>3, Widths DEF TickInv, TickTypeInv
<1>5. DifferenceInv'
  BY <1>1, <1>2, <1>3 DEF DifferenceInv
<1>6. LateInv'
  BY <1>1, <1>2, <1>3, Widths, LeastIs DEF TickInv, TickTypeInv, LateInv, Late
<1>7. DueInv'
  <2> SUFFICES ASSUME due' PROVE since'[task'] >= Ticks!Least(task)'
    BY DEF DueInv
  <2>1. task' = task /\ task \in Ticks!Tasks /\ Ticks!Least(task)' = Ticks!Least(task)
    BY <1>1 DEF TickInv, TickTypeInv, Ticks!Least
  <2>2. since[task] >= Ticks!Least(task) /\ since[task] \in Nat /\ Ticks!Least(task) \in Nat
    BY <1>1, <2>1, Widths, LeastIs DEF TickInv, TickTypeInv, DueInv
  <2>3. QED
    BY <1>3, <2>1, <2>2
<1>8. QED
  BY <1>4, <1>5, <1>6, <1>7 DEF TickInv

\* The counter that is read has moved on by a tick in the bare image of 07.
LEMMA TestStep == TickInv /\ Ticks!Test => TickInv'
<1> SUFFICES ASSUME TickInv, Ticks!Test PROVE TickInv'
  OBVIOUS
<1> DEFINE d == IF timing = "bare" THEN 1 ELSE 0
<1>1. /\ ~due /\ Ticks!GetTick /\ gap' = 0 /\ timing' = timing /\ lastRun' = lastRun
      /\ IF (tick' - lastRun[task]) % Word >= Ticks!Least(task)
         THEN due' = TRUE /\ task' = task
         ELSE Ticks!Return /\ due' = due
  BY DEF Ticks!Test
<1>2. Ticks!Tasks' = Ticks!Tasks /\ \A k \in {1, 2} : Ticks!Least(k)' = Ticks!Least(k)
  BY <1>1 DEF Ticks!Tasks, Ticks!Least
<1>3. /\ tick' \in 0 .. Word - 1 /\ since' \in [{1, 2} -> Nat]
      /\ \A k \in Ticks!Tasks : /\ since'[k] = since[k] + d
                                /\ (tick' - lastRun[k]) % Word = since'[k]
  <2>1. CASE timing = "bare"
    BY <1>1, <2>1, CountDoes DEF Ticks!GetTick
  <2>2. CASE timing # "bare"
    BY <1>1, <2>2, LeastIs DEF Ticks!GetTick, TickInv, TickTypeInv, DifferenceInv
  <2>3. QED
    BY <2>1, <2>2
<1>4. /\ task \in Ticks!Tasks /\ task \in {1, 2} /\ gap \in 0 .. Stall /\ since \in [{1, 2} -> Nat]
      /\ timing = "bare" => gap = 0
  BY LeastIs DEF TickInv, TickTypeInv
<1>5. CASE since'[task] >= Ticks!Least(task)
  <2>1. due' = TRUE /\ task' = task
    BY <1>1, <1>3, <1>4, <1>5
  <2>2. TickTypeInv'
    BY <1>1, <1>2, <1>3, <2>1, Widths DEF TickInv, TickTypeInv
  <2>3. DifferenceInv' /\ DueInv'
    BY <1>1, <1>2, <1>3, <1>4, <1>5, <2>1 DEF DifferenceInv, DueInv
  <2>4. LateInv'
    BY <1>1, <1>2, <1>3, <1>4, <2>1, Widths, LeastIs DEF TickInv, LateInv, Late
  <2>5. QED
    BY <2>2, <2>3, <2>4 DEF TickInv
<1>6. CASE ~(since'[task] >= Ticks!Least(task))
  <2>1. due' = FALSE /\ task' = IF timing = "delay" THEN 1 ELSE 3 - task
    BY <1>1, <1>3, <1>4, <1>6 DEF Ticks!Return
  <2>2. TickTypeInv'
    BY <1>1, <1>2, <1>3, <1>4, <2>1, Widths, LeastIs DEF TickInv, TickTypeInv
  <2>3. DifferenceInv' /\ DueInv'
    BY <1>1, <1>2, <1>3, <2>1 DEF DifferenceInv, DueInv
  <2>4. LateInv'
    BY <1>1, <1>2, <1>3, <1>4, <1>6, <2>1, Widths, LeastIs DEF TickInv, LateInv, Late
  <2>5. QED
    BY <2>2, <2>3, <2>4 DEF TickInv
<1>7. QED
  BY <1>5, <1>6

\* A task that runs is due, and its difference starts again at 0.
LEMMA RunStep == TickInv /\ Ticks!Run => TickInv'
<1> SUFFICES ASSUME TickInv, Ticks!Run PROVE TickInv'
  OBVIOUS
<1> DEFINE d == IF timing = "bare" THEN 1 ELSE 0
<1>1. /\ due /\ due' = FALSE /\ gap' = 0 /\ timing' = timing
      /\ tick' = IF timing = "bare" THEN (tick + 1) % Word ELSE tick
      /\ lastRun' = [lastRun EXCEPT ![task] = tick']
      /\ since' = [k \in {1, 2} |-> IF k = task THEN 0
                                    ELSE IF timing = "bare" THEN since[k] + 1 ELSE since[k]]
      /\ task' = IF timing = "delay" THEN 1 ELSE 3 - task
  BY DEF Ticks!Run, Ticks!Return
<1>2. Ticks!Tasks' = Ticks!Tasks /\ \A k \in {1, 2} : Ticks!Least(k)' = Ticks!Least(k)
  BY <1>1 DEF Ticks!Tasks, Ticks!Least
<1>3. /\ task \in Ticks!Tasks /\ task \in {1, 2} /\ gap \in 0 .. Stall /\ since \in [{1, 2} -> Nat]
      /\ lastRun \in [{1, 2} -> 0 .. Word - 1] /\ tick \in 0 .. Word - 1
      /\ timing = "bare" => gap = 0
  BY LeastIs DEF TickInv, TickTypeInv
<1>4. /\ tick' \in 0 .. Word - 1 /\ since' \in [{1, 2} -> Nat]
      /\ lastRun' \in [{1, 2} -> 0 .. Word - 1]
  BY <1>1, <1>3, Widths
<1>5. ASSUME NEW k \in Ticks!Tasks \ {task}
      PROVE  since'[k] = since[k] + d /\ (tick' - lastRun'[k]) % Word = since'[k]
  <2>1. since'[k] = since[k] + d /\ lastRun'[k] = lastRun[k] /\ lastRun[k] \in 0 .. Word - 1
    BY <1>1, <1>3, LeastIs
  <2>2. (tick - lastRun[k]) % Word = since[k] /\ since[k] + 1 < Word /\ since[k] \in Nat
    BY BelowWord DEF TickInv, DifferenceInv
  <2>3. QED
    BY <1>1, <1>3, <2>1, <2>2, WrappedDifference
<1>6. since'[task] = 0 /\ (tick' - lastRun'[task]) % Word = 0
  <2>1. 0 % Word = 0
    BY Widths
  <2>2. since'[task] = 0 /\ lastRun'[task] = tick'
    BY <1>1, <1>3
  <2>3. QED
    BY <1>4, <2>1, <2>2
<1>7. TickTypeInv'
  <2>1. task' \in Ticks!Tasks /\ 0 \in 0 .. Stall
    BY <1>1, <1>3, Widths, LeastIs
  <2>2. QED
    BY <1>1, <1>2, <1>4, <2>1 DEF TickInv, TickTypeInv
<1>8. DifferenceInv' /\ DueInv'
  BY <1>1, <1>2, <1>5, <1>6 DEF DifferenceInv, DueInv
<1>9. LateInv'
  BY <1>1, <1>2, <1>3, <1>5, <1>6, Widths, LeastIs DEF TickInv, LateInv, Late
<1>10. QED
  BY <1>7, <1>8, <1>9 DEF TickInv

\* No step of the board leaves TickInv.
LEMMA TickStep == TickInv /\ [SingleNext]_singleVars => TickInv'
<1> SUFFICES ASSUME TickInv, [SingleNext]_singleVars PROVE TickInv'
  OBVIOUS
<1>1. CASE Ticks!Next
  BY <1>1, SysTickStep, TestStep, RunStep DEF Ticks!Next
<1>2. CASE UNCHANGED tickVars
  BY <1>2 DEF tickVars, TickInv, TickTypeInv, DifferenceInv, LateInv, Late, DueInv,
     Ticks!Tasks, Ticks!Least
<1>3. QED
  BY <1>1, <1>2 DEF SingleNext, InKernel, InPeers, InTicks, InEvents, InButtons, InPatterns,
     InCounter, singleVars

\* No task of 06 or 07 runs early and none is late by more than a pass of the loop, for
\* a counter of any width, and so across its wrap.
THEOREM PeriodsKept == SingleSpec => []KeepsPeriod
<1>1. SingleInit => TickInv
  BY TickInitInv DEF SingleInit
<1>2. TickInv => KeepsPeriod
  <2> SUFFICES ASSUME TickInv PROVE Ticks!KeepsPeriod
    BY DEF KeepsPeriod
  <2>1. \A k \in Ticks!Tasks : since[k] < Ticks!Least(k) + 4 * Stall
    BY BelowWord
  <2>2. QED
    BY <2>1 DEF Ticks!KeepsPeriod, TickInv, DueInv
<1>3. QED
  BY <1>1, <1>2, TickStep, PTL DEF SingleSpec

----------------------------------------------------------------------------
(* Exercise 09 and coop1.                                                   *)

\* When the tasks come to jump, main has filled both contexts; the one that is resumed
\* is the one that did not run last.
PeerInv ==
    /\ here \in {"call_one", "call_two", "start", "work", "switch"}
    /\ here = "call_one" => filled = {}
    /\ here = "call_two" => filled = {0}
    /\ here \in {"start", "work", "switch"} => filled = {0, 1}
    /\ here \in {"call_one", "call_two", "start"} => ran = -1
    /\ here = "work" => self \in {0, 1} /\ self = (ran + 1) % 2
    /\ here = "switch" => self \in {0, 1} /\ ran = self

\* Of two tasks the next is the other.
LEMMA OtherOfTwo == (-1 + 1) % 2 = 0 /\ \A k \in {0, 1} : 1 - k = (k + 1) % 2
  OBVIOUS

\* Every step keeps the turns, and is an execution of the promise or none.
LEMMA PeerStep ==
    ASSUME PeerInv, Peers!Next
    PROVE  PeerInv' /\ (Peers!Promise!Execute \/ UNCHANGED <<ran, runs>>)
<1>1. CASE Peers!TaskOne
  BY <1>1 DEF PeerInv, Peers!TaskOne, Peers!Bootstrap
<1>2. CASE Peers!TaskTwo
  BY <1>2 DEF PeerInv, Peers!TaskTwo, Peers!Bootstrap
<1>3. CASE Peers!Start
  BY <1>3, OtherOfTwo DEF PeerInv, Peers!Start, Peers!JumpTo
<1>4. CASE Peers!Execute
  <2>1. /\ here = "work" /\ here' = "switch" /\ ran' = self /\ self = (ran + 1) % 2
        /\ runs' = [runs EXCEPT ![self] = (runs[self] + 1) % Limit]
        /\ self' = self /\ filled' = filled
    BY <1>4 DEF PeerInv, Peers!Execute
  <2>2. Peers!Promise!Execute
    BY <2>1 DEF Peers!Promise!Execute
  <2>3. PeerInv'
    BY <2>1 DEF PeerInv
  <2>4. QED
    BY <2>2, <2>3
<1>5. CASE Peers!Switch
  BY <1>5, OtherOfTwo DEF PeerInv, Peers!Switch, Peers!JumpTo
<1>6. QED
  BY <1>1, <1>2, <1>3, <1>4, <1>5 DEF Peers!Next

\* The two tasks of 09 and coop1 alternate, whatever their counters are counted modulo.
THEOREM TasksAlternate == SingleSpec => PingPong
<1> DEFINE Inv == program = "peers" => PeerInv
<1>1. SingleInit => Inv /\ Peers!Promise!Init
  <2> SUFFICES ASSUME SingleInit PROVE PeerInv /\ Peers!Promise!Init
    OBVIOUS
  <2>1. PeerInv
    BY DEF SingleInit, Peers!Init, PeerInv
  <2>2. {0, 1} = 0 .. 2 - 1
    OBVIOUS
  <2>3. Peers!Promise!Init
    BY <2>2 DEF SingleInit, Peers!Init, Peers!Task, Peers!Promise!Init
  <2>4. QED
    BY <2>1, <2>3
<1>2. Inv /\ [SingleNext]_singleVars => Inv' /\ [Peers!Promise!Execute]_(Peers!Promise!vars)
  <2> SUFFICES ASSUME Inv, [SingleNext]_singleVars
               PROVE  Inv' /\ (Peers!Promise!Execute \/ UNCHANGED <<ran, runs>>)
    BY DEF Peers!Promise!vars
  <2>1. CASE InPeers(Peers!Next)
    BY <2>1, PeerStep DEF InPeers
  <2>2. CASE UNCHANGED <<program, peerVars>>
    BY <2>2 DEF peerVars, PeerInv
  <2>3. QED
    BY <2>1, <2>2 DEF SingleNext, InKernel, InTicks, InEvents, InButtons, InPatterns,
       InCounter, singleVars
<1>3. QED
  BY <1>1, <1>2, PTL DEF SingleSpec, PingPong, Peers!PingPong, Peers!Promise!Spec

----------------------------------------------------------------------------
(* What the digits of exercise 03 make.                                     *)

\* Induction over the naturals, for a set of them.
LEMMA SetInduction ==
    ASSUME NEW S \in SUBSET Nat, 0 \in S, \A n \in S : n + 1 \in S
    PROVE  S = Nat
<1> DEFINE R == OpToRel(<, Nat)
           T == Nat \ S
<1>1. IsWellFoundedOn(R, Nat)
  BY NatLessThanWellFounded
<1>2. \A x, y \in Nat : x < y => <<x, y>> \in R
  BY DEF OpToRel
<1> SUFFICES ASSUME T # {} PROVE FALSE
  OBVIOUS
<1> HIDE DEF R
<1>3. PICK x \in T : \A y \in T : <<y, x>> \notin R
  <2>1. T \subseteq Nat
    OBVIOUS
  <2> HIDE DEF T
  <2>2. QED
    BY <1>1, <2>1, WFMin
<1>4. x \in Nat /\ x # 0 /\ x \notin S
  OBVIOUS
<1>5. x - 1 \in Nat /\ x - 1 < x
  BY <1>4
<1>6. x - 1 \in S
  BY <1>2, <1>3, <1>5
<1>7. QED
  BY <1>4, <1>6

\* f collects, digit by digit, what the first m digits make of n.
Collects(n, digits, m, f) ==
    /\ f \in [0 .. m -> Nat] /\ f[0] = n
    /\ \A k \in 1 .. m : f[k] = 10 * f[k - 1] + digits[k]

\* There is such a function for digits of any number.
LEMMA Collected ==
    ASSUME NEW n \in Nat, NEW digits \in Seq(Nat)
    PROVE  \E f : Collects(n, digits, Len(digits), f)
<1> DEFINE S == {m \in Nat : m <= Len(digits) => \E f : Collects(n, digits, m, f)}
<1>1. 0 \in S
  <2>1. 0 .. 0 = {0}
    OBVIOUS
  <2>2. Collects(n, digits, 0, [k \in 0 .. 0 |-> n])
    BY <2>1 DEF Collects
  <2>3. QED
    BY <2>2
<1>2. ASSUME NEW m \in S PROVE m + 1 \in S
  <2> SUFFICES ASSUME m + 1 <= Len(digits) PROVE \E f : Collects(n, digits, m + 1, f)
    OBVIOUS
  <2>1. PICK f : Collects(n, digits, m, f)
    OBVIOUS
  <2> DEFINE g == [k \in 0 .. m + 1 |-> IF k = m + 1 THEN 10 * f[m] + digits[m + 1] ELSE f[k]]
  <2>2. m \in Nat /\ f \in [0 .. m -> Nat] /\ f[m] \in Nat /\ digits[m + 1] \in Nat
    BY <2>1 DEF Collects
  <2>3. g \in [0 .. m + 1 -> Nat] /\ g[0] = n
    BY <2>1, <2>2 DEF Collects
  <2>4. \A k \in 1 .. m + 1 : g[k] = 10 * g[k - 1] + digits[k]
    <3> SUFFICES ASSUME NEW k \in 1 .. m + 1 PROVE g[k] = 10 * g[k - 1] + digits[k]
      OBVIOUS
    <3>1. CASE k = m + 1
      BY <2>2, <3>1
    <3>2. CASE k # m + 1
      <4>1. k \in 1 .. m /\ k - 1 \in 0 .. m
        BY <2>2, <3>2
      <4>2. g[k] = f[k] /\ g[k - 1] = f[k - 1]
        BY <2>2, <4>1
      <4>3. QED
        BY <2>1, <4>1, <4>2 DEF Collects
    <3>3. QED
      BY <3>1, <3>2
  <2> HIDE DEF g
  <2>5. QED
    BY <2>3, <2>4 DEF Collects
<1> HIDE DEF S
<1>3. S = Nat
  <2>1. S \subseteq Nat
    BY DEF S
  <2>2. QED
    BY <1>1, <1>2, <2>1, SetInduction
<1>4. Len(digits) \in S
  BY <1>3
<1>5. QED
  BY <1>4 DEF S

\* The recursive function exists, and so is what its definition says.
LEMMA ContinuedIs ==
    ASSUME NEW n \in Nat, NEW digits \in Seq(Nat)
    PROVE  \E f : Collects(n, digits, Len(digits), f) /\ Counter!Continued(n, digits) = f[Len(digits)]
<1> DEFINE Chain(f) == f = [k \in 0 .. Len(digits) |-> IF k = 0 THEN n ELSE 10 * f[k - 1] + digits[k]]
<1>1. \E f : Chain(f)
  <2>1. PICK f : Collects(n, digits, Len(digits), f)
    BY Collected
  <2>2. Chain(f)
    BY <2>1 DEF Collects
  <2>3. QED
    BY <2>2
<1>2. PICK f : Chain(f) /\ Counter!Continued(n, digits) = f[Len(digits)]
  BY <1>1 DEF Counter!Continued
<1>3. ASSUME NEW g, Collects(n, digits, Len(digits), g) PROVE g = f
  <2> DEFINE S == {m \in Nat : m <= Len(digits) => g[m] = f[m]}
  <2>1. 0 \in S
    BY <1>2, <1>3 DEF Collects
  <2>2. ASSUME NEW m \in S PROVE m + 1 \in S
    <3> SUFFICES ASSUME m + 1 <= Len(digits) PROVE g[m + 1] = f[m + 1]
      OBVIOUS
    <3>1. m \in Nat /\ g[m] = f[m] /\ m + 1 \in 1 .. Len(digits) /\ (m + 1) - 1 = m
      OBVIOUS
    <3>2. g[m + 1] = 10 * g[m] + digits[m + 1]
      BY <1>3, <3>1 DEF Collects
    <3>3. f[m + 1] = 10 * f[m] + digits[m + 1]
      BY <1>2, <3>1
    <3>4. QED
      BY <3>1, <3>2, <3>3
  <2> HIDE DEF S
  <2>3. S = Nat
    <3>1. S \subseteq Nat
      BY DEF S
    <3>2. QED
      BY <2>1, <2>2, <3>1, SetInduction
  <2>4. \A m \in 0 .. Len(digits) : g[m] = f[m]
    BY <2>3 DEF S
  <2>5. g \in [0 .. Len(digits) -> Nat] /\ DOMAIN f = 0 .. Len(digits) /\ f = [k \in 0 .. Len(digits) |-> f[k]]
    BY <1>2, <1>3 DEF Collects
  <2>6. QED
    BY <2>4, <2>5
<1>4. PICK g : Collects(n, digits, Len(digits), g)
  BY Collected
<1>5. g = f
  BY <1>3, <1>4
<1>6. QED
  BY <1>2, <1>4, <1>5

\* No digits continue a number to itself.
LEMMA ContinuedEmpty == \A n \in Nat : Counter!Continued(n, <<>>) = n
<1> SUFFICES ASSUME NEW n \in Nat PROVE Counter!Continued(n, <<>>) = n
  OBVIOUS
<1>1. <<>> \in Seq(Nat) /\ Len(<<>>) = 0
  OBVIOUS
<1>2. PICK f : Collects(n, <<>>, Len(<<>>), f) /\ Counter!Continued(n, <<>>) = f[Len(<<>>)]
  BY <1>1, ContinuedIs
<1>3. QED
  BY <1>1, <1>2 DEF Collects

\* A digit put in front of the others is one more digit of the number before them.
LEMMA ContinuedPrepend ==
    ASSUME NEW n \in Nat, NEW d \in 0 .. 9, NEW digits \in Seq(0 .. 9)
    PROVE  Counter!Continued(n, <<d>> \o digits) = Counter!Continued(10 * n + d, digits)
<1> DEFINE all == <<d>> \o digits
           L == Len(digits)
<1>1. /\ all \in Seq(Nat) /\ digits \in Seq(Nat) /\ Len(all) = L + 1 /\ L \in Nat /\ 10 * n + d \in Nat
      /\ all[1] = d /\ \A k \in 1 .. L : all[k + 1] = digits[k] 
  OBVIOUS
<1>2. PICK f : Collects(n, all, L + 1, f) /\ Counter!Continued(n, all) = f[L + 1]
  BY <1>1, ContinuedIs
<1>3. PICK g : Collects(10 * n + d, digits, L, g) /\ Counter!Continued(10 * n + d, digits) = g[L]
  BY <1>1, ContinuedIs
<1> DEFINE S == {m \in Nat : m <= L => f[m + 1] = g[m]}
<1>4. 0 \in S
  <2>1. f[1] = 10 * f[0] + all[1] 
    BY <1>1, <1>2 DEF Collects
  <2>2. QED
    BY <1>1, <1>2, <1>3, <2>1 DEF Collects
<1>5. ASSUME NEW m \in S PROVE m + 1 \in S
  <2> SUFFICES ASSUME m + 1 <= L PROVE f[m + 2] = g[m + 1]
    OBVIOUS
  <2> HIDE DEF all, L
  <2>1. m \in Nat /\ m + 1 \in 1 .. L /\ m + 2 \in 1 .. L + 1 /\ f[m + 1] = g[m]
    BY <1>1
  <2>2. f[m + 2] = 10 * f[m + 1] + all[m + 2]
    BY <1>2, <2>1 DEF Collects
  <2>3. g[m + 1] = 10 * g[m] + digits[m + 1]
    BY <1>3, <2>1 DEF Collects
  <2>4. all[m + 2] = digits[m + 1]
    <3>1. (m + 1) + 1 = m + 2
      BY <2>1
    <3>2. all[(m + 1) + 1] = digits[m + 1]
      BY <1>1, <2>1
    <3>3. QED
      BY <3>1, <3>2
  <2>5. QED
    BY <2>1, <2>2, <2>3, <2>4
<1> HIDE DEF S, all, L
<1>6. S = Nat
  <2>1. S \subseteq Nat
    BY DEF S
  <2>2. QED
    BY <1>4, <1>5, <2>1, SetInduction
<1>7. f[L + 1] = g[L]
  <2>1. L \in Nat
    BY <1>1
  <2>2. L \in S
    BY <1>6, <2>1
  <2>3. L <= L => f[L + 1] = g[L]
    BY <2>2 DEF S
  <2>4. QED
    BY <2>1, <2>3
<1>8. QED
  BY <1>2, <1>3, <1>7 DEF all

\* Power is the powers of ten, which its recursive definition by itself does not tell a prover.
LEMMA PowerIs == /\ Power[0] = 1
                 /\ \A k \in 1 .. Room : Power[k] \in Nat /\ Power[k - 1] \in Nat /\ Power[k] = 10 * Power[k - 1]
<1> DEFINE zeros == [k \in 1 .. Room |-> 0]
           Chain(f) == f = [k \in 0 .. Room |-> IF k = 0 THEN 1 ELSE 10 * f[k - 1]]
<1>1. zeros \in Seq(Nat) /\ Len(zeros) = Room /\ Room \in Nat
  BY PaceAssumption
<1>2. \E f : Chain(f)
  <2>1. PICK f : Collects(1, zeros, Room, f)
    BY <1>1, Collected
  <2>2. \A k \in 1 .. Room : f[k] = 10 * f[k - 1] /\ f[k - 1] \in Nat
    BY <2>1, <1>1 DEF Collects
  <2>3. Chain(f)
    BY <2>1, <2>2 DEF Collects
  <2>4. QED
    BY <2>3
<1>3. Chain(Power)
  BY <1>2 DEF Power
<1> HIDE DEF zeros
<1>4. Power[0] = 1 /\ \A k \in 1 .. Room : Power[k] = 10 * Power[k - 1]
  BY <1>1, <1>3
<1> DEFINE S == {m \in Nat : m <= Room => Power[m] \in Nat}
<1>5. 0 \in S /\ \A m \in S : m + 1 \in S
  <2>1. ASSUME NEW m \in S, m + 1 <= Room PROVE Power[m + 1] \in Nat
    <3>1. m + 1 \in 1 .. Room /\ (m + 1) - 1 = m /\ Power[m] \in Nat
      BY <1>1, <2>1
    <3>2. QED
      BY <1>4, <3>1
  <2>2. QED
    BY <1>4, <2>1
<1> HIDE DEF S
<1>6. S = Nat
  <2>1. S \subseteq Nat
    BY DEF S
  <2>2. QED
    BY <1>5, <2>1, SetInduction
<1>7. \A m \in 0 .. Room : Power[m] \in Nat
  BY <1>6 DEF S
<1>8. QED
  BY <1>1, <1>4, <1>7

----------------------------------------------------------------------------
(* Exercise 03.                                                             *)

\* What is left of the number, continued by the digits made, is the number; and what is
\* left fits into the room that is left.
CounterInv ==
    /\ i \in 0 .. Largest /\ value \in 0 .. Largest
    /\ step \in {"count", "digits", "send"}
    /\ buf \in Seq(0 .. 9) /\ line \in Seq(0 .. 9) /\ Len(buf) <= Room
    /\ step = "digits" => /\ Counter!Continued(value, buf) = i
                          /\ value < Power[Room - Len(buf)]
                          /\ value > 0 \/ buf = <<>>
    /\ step = "send" => /\ Counter!Number(buf) = i /\ buf # <<>>
                        /\ Len(buf) > 1 => Head(buf) # 0
    /\ Counter!NumberShown

\* What is assumed of the counter and its buffer.
LEMMA DigitBounds == /\ Room \in Nat \ {0} /\ Largest \in Nat /\ 4 <= Largest
                /\ Largest < Power[Room] /\ Largest + 1 - 1 = Largest
  BY PaceAssumption

\* The counter begins in CounterInv.
LEMMA CounterInitInv == Counter!Init => CounterInv
<1> SUFFICES ASSUME Counter!Init PROVE CounterInv
  OBVIOUS
<1>1. i = 4 /\ step = "count" /\ value = 0 /\ buf = <<>> /\ line = <<3>>
  BY DEF Counter!Init
<1>2. 4 % (Largest + 1) = 4
  BY DigitBounds
<1>3. Counter!Number(<<3>>) = 3
  <2>1. <<3>> \o <<>> = <<3>> /\ <<>> \in Seq(0 .. 9) /\ 3 \in 0 .. 9
    OBVIOUS
  <2>2. Counter!Continued(0, <<3>>) = Counter!Continued(10 * 0 + 3, <<>>)
    BY <2>1, ContinuedPrepend
  <2>3. 10 * 0 + 3 = 3 /\ 3 \in Nat
    OBVIOUS
  <2>4. QED
    BY <2>2, <2>3, ContinuedEmpty DEF Counter!Number
<1>4. Counter!NumberShown
  BY <1>1, <1>2, <1>3 DEF Counter!NumberShown
<1>5. QED
  BY <1>1, <1>4, DigitBounds DEF CounterInv

\* Before the first digit the number is all there is to be shown.
LEMMA SendUintStep == CounterInv /\ Counter!SendUint => CounterInv'
<1> SUFFICES ASSUME CounterInv, Counter!SendUint PROVE CounterInv'
  OBVIOUS
<1>1. /\ step' = "digits" /\ value' = i /\ buf' = <<>> /\ i' = i /\ line' = line
  BY DEF Counter!SendUint
<1>2. Counter!Continued(i, <<>>) = i
  BY ContinuedEmpty DEF CounterInv
<1>3. Len(buf') = 0 /\ i < Power[Room - Len(buf')]
  <2>1. Len(<<>>) = 0 /\ Room - 0 = Room
    BY DigitBounds
  <2>2. i < Power[Room]
    <3>1. Power[Room] \in Nat
      BY DigitBounds, PowerIs
    <3>2. QED
      BY <3>1, DigitBounds DEF CounterInv
  <2>3. QED
    BY <1>1, <2>1, <2>2
<1>4. Counter!NumberShown'
  BY <1>1 DEF CounterInv, Counter!NumberShown
<1>5. QED
  BY <1>1, <1>2, <1>3, <1>4, DigitBounds DEF CounterInv

\* A digit made goes from the number left to the front of the digits.
LEMMA MakeDigitStep == CounterInv /\ Counter!MakeDigit => CounterInv'
<1> SUFFICES ASSUME CounterInv, Counter!MakeDigit PROVE CounterInv'
  OBVIOUS
<1> DEFINE d == value % 10
           n == value \div 10
<1>1. /\ step = "digits" /\ buf' = <<d>> \o buf /\ value' = n
      /\ step' = IF n = 0 THEN "send" ELSE "digits"
      /\ i' = i /\ line' = line
  BY DEF Counter!MakeDigit
<1>2. /\ value \in 0 .. Largest /\ buf \in Seq(0 .. 9) /\ Len(buf) <= Room /\ Len(buf) \in Nat
      /\ Counter!Continued(value, buf) = i /\ value < Power[Room - Len(buf)]
      /\ value > 0 \/ buf = <<>>
  BY <1>1 DEF CounterInv
<1>3. d \in 0 .. 9 /\ n \in 0 .. Largest /\ value = 10 * n + d /\ value \in Nat /\ n \in Nat
  BY <1>2, DigitBounds
<1> HIDE DEF d, n
<1>4. /\ buf' \in Seq(0 .. 9) /\ Len(buf') = Len(buf) + 1 /\ Head(buf') = d /\ buf' # <<>>
  BY <1>1, <1>2, <1>3
<1>5. Counter!Continued(n, buf') = i
  BY <1>1, <1>2, <1>3, ContinuedPrepend
<1>6. Len(buf) < Room
  <2>1. CASE value > 0
    <3>1. Len(buf) # Room
      BY <1>2, <2>1, DigitBounds, PowerIs
    <3>2. QED
      BY <1>2, <3>1, DigitBounds
  <2>2. CASE buf = <<>>
    BY <2>2, DigitBounds
  <2>3. QED
    BY <1>2, <2>1, <2>2
<1>7. n < Power[Room - Len(buf')]
  <2> DEFINE k == Room - Len(buf)
  <2>1. k \in 1 .. Room /\ Room - Len(buf') = k - 1 /\ value < Power[k]
    BY <1>2, <1>4, <1>6, DigitBounds
  <2> HIDE DEF k
  <2>2. Power[k] = 10 * Power[k - 1] /\ Power[k - 1] \in Nat
    BY <2>1, PowerIs
  <2>3. n < Power[k - 1]
    BY <1>3, <2>1, <2>2
  <2>4. QED
    BY <2>1, <2>3
<1>8. n = 0 => Counter!Number(buf') = i /\ (Len(buf') > 1 => Head(buf') # 0)
  BY <1>2, <1>3, <1>4, <1>5 DEF Counter!Number
<1>9. Counter!NumberShown'
  BY <1>1 DEF CounterInv, Counter!NumberShown
<1>10. QED
  BY <1>1, <1>2, <1>3, <1>4, <1>5, <1>6, <1>7, <1>8, <1>9, DigitBounds DEF CounterInv

\* A line that is sent shows the number, and the counter goes on to the next.
LEMMA SendLineStep == CounterInv /\ Counter!SendLine => CounterInv'
<1> SUFFICES ASSUME CounterInv, Counter!SendLine PROVE CounterInv'
  OBVIOUS
<1>1. /\ step = "send" /\ step' = "count" /\ line' = buf /\ i' = (i + 1) % (Largest + 1)
      /\ value' = value /\ buf' = buf
  BY DEF Counter!SendLine
<1>2. i' \in 0 .. Largest
  BY <1>1, DigitBounds DEF CounterInv
<1>3. Counter!NumberShown'
  BY <1>1 DEF CounterInv, Counter!NumberShown
<1>4. QED
  BY <1>1, <1>2, <1>3 DEF CounterInv

\* No step of the board leaves CounterInv.
LEMMA CounterStep == CounterInv /\ [SingleNext]_singleVars => CounterInv'
<1> SUFFICES ASSUME CounterInv, [SingleNext]_singleVars PROVE CounterInv'
  OBVIOUS
<1>1. CASE Counter!Next
  BY <1>1, SendUintStep, MakeDigitStep, SendLineStep DEF Counter!Next
<1>2. CASE UNCHANGED counterVars
  BY <1>2 DEF counterVars, CounterInv, Counter!NumberShown
<1>3. QED
  BY <1>1, <1>2 DEF SingleNext, InKernel, InPeers, InTicks, InEvents, InButtons, InPatterns,
     InCounter, singleVars

\* Every line of exercise 03 shows the number whose turn it is, without a leading zero,
\* for a counter of any width and a buffer that just holds its largest number.
THEOREM NumbersShown == SingleSpec => []NumberShown
<1>1. SingleInit => CounterInv
  BY CounterInitInv DEF SingleInit
<1>2. CounterInv => NumberShown
  BY DEF CounterInv, NumberShown
<1>3. QED
  BY <1>1, <1>2, CounterStep, PTL DEF SingleSpec

----------------------------------------------------------------------------
(* Exercises 10 and coop2, whose proofs CoopKernel_proofs has.              *)

\* What the kernels do on the board they do by themselves.
LEMMA KernelAlone == SingleSpec => KernelSpec
<1>1. SingleInit => KernelInit
  BY DEF SingleInit
<1>2. [SingleNext]_singleVars => [KernelNext]_kernelVars
  BY DEF SingleNext, InKernel, InPeers, InTicks, InEvents, InButtons, InPatterns, InCounter, singleVars
<1>3. QED
  BY <1>1, <1>2, PTL DEF SingleSpec, KernelSpec

\* The kernels keep every task on its own stack among the programs of the board, too.
THEOREM FramesOnBoard == SingleSpec => []OwnFrames
  BY KernelAlone, FramesAreOwn

\* So do they their strict turns.
THEOREM TurnsOnBoard == SingleSpec => ImplementsTurns
  BY KernelAlone, StrictTurns

----------------------------------------------------------------------------
(* The types of the other programs.                                         *)

\* What is assumed of the other constants.
LEMMA Bounds ==
    /\ Limit \in Nat \ {0} /\ Pins \in Nat \ {0} /\ Leds \in Nat /\ Leds >= 2
    /\ 0 \in 0 .. Limit - 1 /\ \A n \in Nat : (n + 1) % Limit \in 0 .. Limit - 1
  BY KernelAssumption, PaceAssumption

PeerTypeInv == PeerInv /\ Peers!TypeOK

\* Tasks on one stack: contexts, counters and lines keep their types.
LEMMA PeerTypeStep == PeerTypeInv /\ Peers!Next => PeerTypeInv'
<1> SUFFICES ASSUME PeerTypeInv, Peers!Next PROVE PeerTypeInv'
  OBVIOUS
<1>1. PeerInv'
  BY PeerStep DEF PeerTypeInv
<1>2. Peers!TypeOK'
  <2>1. CASE Peers!TaskOne \/ Peers!TaskTwo
    BY <2>1, Bounds DEF PeerTypeInv, Peers!TypeOK, Peers!Task, Peers!TaskOne, Peers!TaskTwo, Peers!Bootstrap
  <2>2. CASE Peers!Start
    BY <2>2 DEF PeerTypeInv, PeerInv, Peers!TypeOK, Peers!Task, Peers!Start, Peers!JumpTo
  <2>3. CASE Peers!Execute
    <3>1. /\ self \in Peers!Task /\ word \in Nat /\ word' \in 0 .. Limit - 1
          /\ (runs[self] + 1) % Limit \in 0 .. Limit - 1
      BY <2>3, Bounds DEF PeerTypeInv, PeerInv, Peers!TypeOK, Peers!Task, Peers!Execute
    <3>2. QED
      BY <2>3, <3>1 DEF PeerTypeInv, Peers!TypeOK, Peers!Execute
  <2>4. CASE Peers!Switch
    BY <2>4 DEF PeerTypeInv, PeerInv, Peers!TypeOK, Peers!Task, Peers!Switch, Peers!JumpTo
  <2>5. QED
    BY <2>1, <2>2, <2>3, <2>4 DEF Peers!Next
<1>3. QED
  BY <1>1, <1>2 DEF PeerTypeInv

EventTypes == /\ source \in {"button", "timer"}
              /\ setUp \in {"none", "edges", "interrupts"}
              /\ wire \in {0, 1}
              /\ flag \in BOOLEAN /\ pend \in BOOLEAN /\ owed \in BOOLEAN
              /\ isr \in {"idle", "test", "clear", "toggle", "return"}
Requested == flag => pend \/ isr # "idle"
Owed == owed => flag \/ isr = "toggle"

\* The type invariant of the events in three parts.
LEMMA EventTypeOK == Events!TypeOK <=> EventTypes /\ Requested /\ Owed
  BY Zenon DEF Events!TypeOK, EventTypes, Requested, Owed

\* Events: a flag that is up has its cause, and every toggle owed its request.
LEMMA EventsStep == Events!TypeOK /\ Events!Next => Events!TypeOK'
<1> SUFFICES ASSUME EventTypes, Requested, Owed, Events!Next
             PROVE  EventTypes' /\ Requested' /\ Owed'
  BY EventTypeOK DEF Events!TypeOK, EventTypes, Requested, Owed
<1> USE DEF EventTypes, Requested, Owed
<1>1. CASE Events!CatchEvents
  BY <1>1 DEF Events!CatchEvents
<1>2. CASE Events!TakeInterrupts
  BY <1>2 DEF Events!TakeInterrupts
<1>3. CASE Events!Enter
  BY <1>3 DEF Events!Enter
<1>4. CASE Events!Press
  BY <1>4 DEF Events!Press, Events!Event
<1>5. CASE Events!LetGo
  BY <1>5 DEF Events!LetGo
<1>6. CASE Events!Update
  BY <1>6 DEF Events!Update, Events!Event
<1>7. CASE Events!Handler /\ UNCHANGED <<source, setUp, wire>>
  <2>1. Events!Order["test"] = "clear" /\ Events!Order["clear"] = "toggle"
        /\ Events!Order["toggle"] = "return"
    BY DEF Events!Order
  <2>2. CASE isr = "test"
    BY <1>7, <2>1, <2>2 DEF Events!Handler
  <2>3. CASE isr = "clear"
    BY <1>7, <2>1, <2>3 DEF Events!Handler
  <2>4. CASE isr = "toggle"
    BY <1>7, <2>1, <2>4 DEF Events!Handler
  <2>5. CASE isr = "return"
    BY <1>7, <2>5 DEF Events!Handler
  <2>6. QED
    BY <1>7, <2>2, <2>3, <2>4, <2>5 DEF Events!Handler
<1>8. QED
  BY <1>1, <1>2, <1>3, <1>4, <1>5, <1>6, <1>7 DEF Events!Next, Events!Cpu

\* While a line is under way the level it tells is the one last seen.
ButtonInv == Buttons!TypeOK /\ (phase = "tell" => last[button] = sample)

\* The buttons are polled in a circle.
LEMMA NextButtonIs ==
    ASSUME Buttons!NextButton, UNCHANGED poller, button \in Buttons!Button
    PROVE  button' \in Buttons!Button'
  BY Bounds DEF Buttons!NextButton, Buttons!Button

\* Buttons: levels, samples and what has been told keep their types.
LEMMA ButtonsStep == ButtonInv /\ Buttons!Next => ButtonInv'
<1> SUFFICES ASSUME ButtonInv, Buttons!Next PROVE ButtonInv'
  OBVIOUS
<1>1. Buttons!Button \subseteq 0 .. Pins - 1 /\ Buttons!Button' = Buttons!Button
  BY Bounds DEF Buttons!Button, Buttons!Next, Buttons!Loop, Buttons!Move, Buttons!Baseline,
                Buttons!Sample, Buttons!Tell
<1>2. /\ button \in Buttons!Button /\ button \in 0 .. Pins - 1
      /\ level \in [0 .. Pins - 1 -> {0, 1}] /\ level[button] \in {0, 1}
  BY <1>1 DEF ButtonInv, Buttons!TypeOK
<1>3. CASE Buttons!Move
  BY <1>1, <1>3 DEF ButtonInv, Buttons!TypeOK, Buttons!Move
<1>4. CASE Buttons!Baseline
  <2>1. button' \in Buttons!Button'
    BY <1>2, <1>4, NextButtonIs DEF Buttons!Baseline
  <2>2. QED
    BY <1>1, <1>2, <1>4, <2>1 DEF ButtonInv, Buttons!TypeOK, Buttons!Baseline
<1>5. CASE Buttons!Sample
  <2>1. button' \in Buttons!Button'
    BY <1>1, <1>2, <1>5, NextButtonIs DEF Buttons!Sample
  <2>2. QED
    BY <1>1, <1>2, <1>5, <2>1 DEF ButtonInv, Buttons!TypeOK, Buttons!Sample
<1>6. CASE Buttons!Tell
  <2>1. button' \in Buttons!Button'
    BY <1>2, <1>6, NextButtonIs DEF Buttons!Tell
  <2>2. QED
    BY <1>1, <1>2, <1>6, <2>1 DEF ButtonInv, Buttons!TypeOK, Buttons!Tell
<1>7. QED
  BY <1>3, <1>4, <1>5, <1>6 DEF Buttons!Next, Buttons!Loop

\* The program with one LED does not move its light.
PatternInv == Patterns!TypeOK /\ (pattern = "blink" => index = 0)

\* Patterns: the index stays in range, whichever end the light turns at.
LEMMA PatternsStep == PatternInv /\ Patterns!Next => PatternInv'
<1> SUFFICES ASSUME PatternInv, Patterns!Next PROVE PatternInv'
  OBVIOUS
<1>1. CASE Patterns!Blink \/ Patterns!TurnOn
  BY <1>1 DEF PatternInv, Patterns!TypeOK, Patterns!Blink, Patterns!TurnOn
<1>2. CASE Patterns!Move
  BY <1>2, Bounds DEF PatternInv, Patterns!TypeOK, Patterns!Move
<1>3. QED
  BY <1>1, <1>2 DEF Patterns!Next

\* The programs but for the kernels, each with what keeps its types.
BoardInv == PeerTypeInv /\ TickInv /\ Events!TypeOK /\ ButtonInv /\ PatternInv /\ CounterInv

\* The seven programs begin in BoardInv.
LEMMA BoardInitInv == SingleInit => BoardInv
<1> SUFFICES ASSUME SingleInit PROVE BoardInv
  OBVIOUS
<1>1. PeerTypeInv
  BY Bounds DEF SingleInit, Peers!Init, PeerTypeInv, PeerInv, Peers!TypeOK, Peers!Task
<1>2. TickInv
  BY TickInitInv DEF SingleInit
<1>3. Events!TypeOK
  BY DEF SingleInit, Events!Init, Events!TypeOK
<1>4. ButtonInv
  <2>1. Buttons!Init
    BY DEF SingleInit
  <2>2. 0 \in Buttons!Button
    BY Bounds DEF Buttons!Button
  <2>3. \A b \in Buttons!Button : b \in 0 .. Pins - 1
    BY Bounds DEF Buttons!Button
  <2>4. QED
    BY <2>1, <2>2, <2>3 DEF Buttons!Init, ButtonInv, Buttons!TypeOK
<1>5. PatternInv
  BY Bounds DEF SingleInit, Patterns!Init, PatternInv, Patterns!TypeOK
<1>6. CounterInv
  BY CounterInitInv DEF SingleInit
<1>7. QED
  BY <1>1, <1>2, <1>3, <1>4, <1>5, <1>6 DEF BoardInv

\* And no step leaves it.
LEMMA BoardStep == BoardInv /\ [SingleNext]_singleVars => BoardInv'
<1> SUFFICES ASSUME BoardInv, [SingleNext]_singleVars PROVE BoardInv'
  OBVIOUS
<1>1. /\ Peers!Next \/ UNCHANGED peerVars
      /\ Events!Next \/ UNCHANGED eventVars
      /\ Buttons!Next \/ UNCHANGED buttonVars
      /\ Patterns!Next \/ UNCHANGED patternVars
  BY DEF SingleNext, InKernel, InPeers, InTicks, InEvents, InButtons, InPatterns, InCounter, singleVars
<1>2. PeerTypeInv'
  BY <1>1, PeerTypeStep DEF BoardInv, PeerTypeInv, PeerInv, Peers!TypeOK, peerVars
<1>3. TickInv'
  BY TickStep DEF BoardInv
<1>4. Events!TypeOK'
  BY <1>1, EventsStep DEF BoardInv, Events!TypeOK, eventVars
<1>5. ButtonInv'
  BY <1>1, ButtonsStep DEF BoardInv, ButtonInv, Buttons!TypeOK, Buttons!Button, buttonVars
<1>6. PatternInv'
  BY <1>1, PatternsStep DEF BoardInv, PatternInv, Patterns!TypeOK, patternVars
<1>7. CounterInv'
  BY CounterStep DEF BoardInv
<1>8. QED
  BY <1>2, <1>3, <1>4, <1>5, <1>6, <1>7 DEF BoardInv

\* No variable of a single-core program leaves its type, and with it: no jump into a
\* context that was never saved (09), no request forgotten (05), no line but of a change
\* that was seen (02), no LED outside leds[] (01), no digit outside buf[] (03).
THEOREM BoardTypes == SingleSpec => []SingleTypeOK
<1>1. SingleSpec => []KernelTypeOK
  BY KernelAlone, TypeCorrect
<1>2. BoardInv => /\ Peers!TypeOK /\ Ticks!TypeOK /\ Events!TypeOK
                  /\ Buttons!TypeOK /\ Patterns!TypeOK /\ Counter!TypeOK
  <2> SUFFICES ASSUME BoardInv
               PROVE  /\ Peers!TypeOK /\ Ticks!TypeOK /\ Events!TypeOK
                      /\ Buttons!TypeOK /\ Patterns!TypeOK /\ Counter!TypeOK
    OBVIOUS
  <2>1. Ticks!TypeOK
    BY DEF BoardInv, TickInv, TickTypeInv, Ticks!TypeOK
  <2>2. Counter!TypeOK
    BY DigitBounds DEF BoardInv, CounterInv, Counter!TypeOK
  <2>3. QED
    BY <2>1, <2>2 DEF BoardInv, PeerTypeInv, ButtonInv, PatternInv
<1>3. KernelTypeOK /\ BoardInv => SingleTypeOK
  BY <1>2 DEF SingleTypeOK
<1>4. QED
  BY <1>1, <1>3, BoardInitInv, BoardStep, PTL DEF SingleSpec
=================================================================================
