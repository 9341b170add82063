# Formal models of demos-hw-stm32

TLA+ specifications, TLC runs and TLAPS proofs for the exercises of this
repository: firmware for the dual-core STM32WL55 (Cortex-M4 = CPU1 and
Cortex-M0+ = CPU2), and the scripts that build and flash it.

## Inventory of the system

| part | state it keeps | operations | what it shares, with whom | what is hard in it | what makes it correct |
| --- | --- | --- | --- | --- | --- |
| `dual_core/04_atomic_increment` | `shared_t` in SRAM2 (counter, mode, round, two done-flags, ready flag), one HSEM semaphore | boot handshake, start of a round, N increments per core (guarded or not), done, print, button poll | the two cores: SRAM2 and HSEM | lost updates, stale flags, a round missed, a mode read on two sides, a print of a total that is not final, spinning on each other | mutual exclusion in ATOMIC mode, exact total, `lost` never wraps, every round taken and printed, both cores in one mode |
| `dual_core/02_semaphores` | IPCC channel 2 (one flag per direction), LPUART1 | acquire, send, release | both cores: IPCC flags and the serial port | test-then-set on a flag, each core tests another flag, who may clear which flag | the two cores' lines do not interleave; neither core waits for ever |
| `dual_core/01_multi_core_mailboxes` | IPCC channel 1 | post, poll, acknowledge, toggle LED | M4 to M0+ | the acknowledgement precedes the effect; the driver's init clears the flag | one toggle per message, no message posted over another |
| `dual_core/03_basic_shared_memory` | one flag in SRAM2 | boot, press edge toggles, print | SRAM2, GPIOA configuration registers | the M0+ zeroes the flag after boot, register read-modify-writes of both cores | every press edge is seen; both pin configurations survive |
| `dual_core/00_dual_blink` | GPIOB configuration and output | boot the M0+, configure, blink | GPIOB registers of both cores | read-modify-write of MODER by both cores | both LEDs stay configured |
| `single_core/11_os_preempt_two_stacks` | two task stacks and saved stack pointers, `current` | init of a stack, SysTick, PendSV switch | tasks and two exceptions | exception priorities and tail-chaining, a tick before the stacks exist | no switch to a stack that was not built; a task resumes where it stopped |
| `single_core/10_os_coop_two_stacks`, `examples/coop2.cc` | a context and a stack per task, the scheduler's context | start on a stack, yield, schedule | tasks and scheduler | `longjmp` into a buffer not yet filled or a frame that is gone | strict round robin, each task on its own stack |
| `single_core/09_os_coop_single_stack`, `examples/coop1.cc` | two `jmp_buf`s, one stack | set-up of both contexts, jump to the other task | two tasks on one stack | frames that are dead when jumped to, and the locals in them | the tasks alternate, none jumps into an empty context; in coop1 each counts its own executions |
| `single_core/07_cooperative_scheduling` | last-run ticks | run a task when its period is over | the tick counter | 32-bit wrap of the tick, which is read twice | periods kept across the wrap |
| `single_core/05_interrupts`, `06_timing_leds` | pending bits of EXTI, TIM16 and the NVIC | handlers clear the bit and toggle an LED | hardware and main | an event between any two steps of the handler | a toggle after every event |
| `single_core/02_buttons_test`, `04_buttons_and_leds` | levels seen last | poll, print a line or set the LED | the pins | a change while a line is being sent | the level a pin rests at is the one told |
| `single_core/03_serial_counter` | a counter, a digit buffer | decimal printing, counting | none | digits of 0 and of the largest number, the wrap | printed digits are the value |
| `single_core/00_simple_led`, `01_led_patterns` | LED index and direction | toggle; move the light | none | the turn at both ends | index in range |
| `single_core/08_preemption` | none (stub) | | | | |
| `exercises/common` | vector table, `.data`, `.bss`, clock variables | reset handler, `SystemCoreClockUpdate` | linker script | order of set-up | main sees initialised data |
| `scripts/clone_cubewl.sh`, `rsc_build_hal_lib.sh`, `rsc_build_image.sh` | a checkout and a lock beside it, objects and a library per core | fetch under the lock, compile what is out of date in parallel, archive | several make jobs on one tree | the unlocked fast path, a failed compilation among parallel ones, a job killed between two steps | whoever waited for the lock gets a whole tree; a library is what its sources are; nobody waits for ever |
| other `scripts` | files downloaded, boards attached | download of the IDE, flash, terminal, reset | external tools | | |

The cores run freely and at any relative speed; what they share is memory, the
HSEM and IPCC peripherals and GPIO and UART registers.  Interrupt handlers share
a core with the main program.

## How the code is modelled

A step of a model is one access to what two actors share (a word of SRAM2, a
flag of a peripheral, a read or a write of a whole register) or one block of
instructions of a handler; what an actor does on its own between two such
accesses belongs to the next one.  The cores have no data cache and the accesses
are `volatile` or go through the drivers, so each core's accesses happen in
program order and the two cores' in any order between them.

Most exercises have a register-level image (`*_bare.c`) and a HAL image
(`*_hal.c`).  Where the two make the same accesses in the same order one model
stands for both; elsewhere a variable `image`, chosen in `Init` and never
changed, says which program is running, and a run checks both.

Peripherals are not in this repository.  HSEM, IPCC, GPIO, LPUART1, the release
of CPU2 from reset and the Cortex-M's exceptions are modelled from the way the
code uses them, and marked external in `PROJECT.json`: the same holds for the
drivers of the vendor tree, whose submodule is empty here.

The lines marked "Slip:" define a plausible mistake in the definition that
follows: each property has one that breaks it.

A board runs one program.  The exercises with little state share a module that
puts them side by side, `DualCore` and `SingleCore`: `Init` chooses the program
(and its image), the variables of the others keep an initial value, and each step
is one of the chosen program's.  This is a choice between programs, not an
interaction; it lets one run check all of them.

| module | part of the code | state and actions |
| --- | --- | --- |
| `AtomicIncrement` | `dual_core/04_atomic_increment` | `shared_t` word by word, the HSEM semaphore, a program counter, loop index, loaded value and local `atomic` for each core. One action per access: the six stores before C2BOOT, the handshake, the four stores that start a round, `do_increments` as lock, load, store, unlock, the done-flags, the poll loop with the button, the two reads of the counter for one line |
| `RoundCounter` | its promise | a round is N increments of each core and then a line with their final total |
| `MCAtomicIncrement` | | value of `Garbage` for TLC |
| `IpccSemaphore` | `dual_core/02_semaphores` | the two occupied flags of channel 2, the port's one-character buffer, each core's place in acquire, send, release |
| `Mailbox`, `LedQueue` | `dual_core/01_multi_core_mailboxes` and its promise | the occupied flag of channel 1, the LED; a queue of two messages |
| `PinSetup` | the pin configuration of exercises 00 and 03 | MODER and PUPDR, the register each core has read and not written back, the edits each has left; shared by the next two |
| `DualBlink` | `dual_core/00_dual_blink` | the port, the LEDs' output bits, which cores run |
| `SharedFlag` | `dual_core/03_basic_shared_memory` | the flag, the button's wire, the M4's last sample and loaded value, the M0+'s snapshot |
| `DualCore` | composes the last three | the exercise on the board |
| `PreemptKernel`, `TimeSlicing` | `single_core/11_os_preempt_two_stacks` and its promise | the CPU (stacked and other registers, PSP, MSP, pending and active exceptions, priorities, fault), the task stacks, `tasks[i].sp`, `current`; tick, entry, return, each block of `PendSV_Handler`, the steps of `main` and of the tasks. `TimeSlicing` is endless loops that take turns |
| `CoopKernel`, `Turns` | `single_core/10_os_coop_two_stacks` with `examples/coop2.cc`, and their promise | where the CPU is, the stack it is on, the frame on each stack, each task's context and the scheduler's; first entry, resumption, work, yield. `Turns` is strict turns with a count of each task's own executions |
| `CoopSingleStack` | `single_core/09_os_coop_single_stack`, `examples/coop1.cc` | the contexts saved, who runs, the stack word that both frames have their counter in |
| `TickTasks` | `single_core/07_cooperative_scheduling`, HAL image of `06_timing_leds` | the tick, the last runs, a task found due and not yet run |
| `EventToggle` | `single_core/05_interrupts`, bare image of `06_timing_leds` | the peripheral's bit, the NVIC's, the handler step by step |
| `ButtonWatch` | `single_core/02_buttons_test`, `04_buttons_and_leds` | the pins, the levels seen last, the sample, what has been told |
| `LedPatterns` | `single_core/00_simple_led`, `01_led_patterns` | index, direction, the LEDs that are on |
| `SerialCounter` | `single_core/03_serial_counter` | the counter, `SendUint` digit by digit, the line |
| `SingleCore` | composes the last seven | the program on the board |
| `VendorBuild` | `scripts/clone_cubewl.sh`, `rsc_build_hal_lib.sh`, the fetch in `rsc_build_image.sh` | the clone, the files of the tree, the lock; for each job its place in the script, its compilations, objects and library; failures, kills and edited sources |

`AtomicIncrement_proofs`, `IpccSemaphore_proofs`, `Mailbox_proofs`,
`CoopKernel_proofs`, `PreemptKernel_proofs`, `SingleCore_proofs`, `DualCore_proofs` and
`VendorBuild_proofs` hold the theorems.

Notes on single points:

- `AtomicIncrement`: `round` and `m0p_ready` start with whatever SRAM2 held
  (`.shared` is NOLOAD).  The semaphore is granted to whoever reads RLR while it is
  free; nothing promises a fair share.  The set-up of pins and UART is left out; it
  is the subject of `SharedFlag`, which has the same two set-ups.
- `PinSetup`: an edit is the read of a whole register and the later write of it.  The
  bare images edit what they write; `HAL_GPIO_Init` (external) edits pin by pin, the pull and
  then the mode.  Left out of the port are OSPEEDR and OTYPER, where every pin of the
  two exercises gets its reset value or only the M0+ writes, and AFR, which only the M0+
  writes; and the clock enables, where both cores set the same bit.
- `SharedFlag`: without its pull-up PA0 floats while B1 is up, so IDR reads either level;
  an analog pin reads 0.  In the HAL images both cores write PUPDR, and the pull-up and PA2's
  mode can be lost in one behaviour; `OneSurvives` claims the modes, and the pull-up for the
  bare image only.
- `SharedFlag`: the HAL image declares the flag without `volatile`, and its comments
  (`main_cm0p_hal.c:23-26`, `69-71`) say that it therefore prints the boot value for ever.
  But the flag has external linkage and the loop calls `HAL_UART_Transmit` and `HAL_Delay`,
  compiled apart without `-flto`, so the load stays in the loop: run `shared_flag_boot`.
  `SendHoisted` shows what a build that could see through those calls would do.
- `Mailbox`, `IpccSemaphore`: the bare M4 of exercises 01 and 02 never sets C2BOOT.
  Their comments leave the M0+'s start to "the bootloader or M4 startup code"; no
  such code is in the repository.  `StartM0p` is that outside help.
- `PreemptKernel`: registers travel in two halves, those the hardware stacks and
  R4-R11, each shown as the task and the position it belongs to, so a restored task
  with one stale half is seen.  Stacks are counted in such halves.  The store that
  pends PendSV may take effect at once or after the handler's return (there is no
  barrier after it).
- `CoopKernel`: a context is a stack pointer and a place, and nothing of what the
  stack holds; the return address of `yield` and the task's local are in a frame that
  any task on the same stack would overwrite.
- `CoopSingleStack`: `main` calls both tasks from the same depth, so the two frames
  are one piece of memory, and so are coop1's two counters.  A compiler keeps a local
  of a function that calls `setjmp` in memory; `main`'s own later call may write there.
- `TickTasks`: `GetTick` of the bare image of 07 is no clock, it counts its own
  calls.  `HAL_Delay` adds a tick to the time it is asked for.
- `DualBlink`, `SharedFlag`: both cores write the whole of a MODER back, though
  `00_dual_blink/exercise.md:19-20` says that each touches its own pin.  In exercise 04
  `m0p_done` has two writers, the M4 clears it, though `exercise.md:119-121` says each
  flag has one; `DoneFlagTells` is what holds all the same.
- `VendorBuild`: git promises no order in which a checkout's files appear, and both
  scripts take one file for the whole tree.  A `git clone` that fails removes what it
  made, or keeps a `.git` it could not check out; one that is killed leaves a `.git` that
  makes every later run fail.  The update of the submodules fails before the first
  file or after any (the disk is full, the other submodule's commit cannot be fetched).
  Where it ends, failed or killed, with the marker there and not the rest, the half
  tree passes every later test, also the one under the lock, and nobody completes it:
  `torn` says so, and `LockedSeeTree` excepts this case and no other failure.
  Compilations run in the background; the script leaves at the first that failed and
  the others go on, and the model has them ended before that job is started again.
  An `ar` that fails leaves no library.

## The runs

| run | question | result |
| --- | --- | --- |
| `increment` | any relative speed of the cores, any reset content of SRAM2, any button: do the rounds, their mode, their totals and the done-flags hold together, and does it go on for ever? If the poll delays outlast the print (`paced`): is every line final, do the programs implement `RoundCounter`? | holds |
| `semaphore` | what does the IPCC "semaphore" ensure? | a turnstile: no core begins three lines while the other begins none; under the bare lock both print for ever |
| `semaphore_lines` | do the two cores' lines stay apart? | no: both cores of the bare image in mid-line |
| `semaphore_stops` | does the HAL M4 print for ever? | no: both cores can come to wait for a flag nobody will clear |
| `dual_core` | 01: are messages merged, lost or shown twice, do both images implement `LedQueue`? 00 and 03: can the set-ups of two pins undo each other? 03: does the flag count the toggles, is each a press, do presses become toggles, is its value printed? | holds, but for one message the HAL's init may clear (variable `erased`); one pin's mode can be lost, never both; the button's pull-up can be lost in the HAL image; nothing is if the M0+ starts after the M4's set-up, and then every toggle is a press; only toggles before the M0+'s clear can be undone |
| `shared_flag_boot` | does the HAL image of 03, without `volatile`, print the boot value for ever? | no: the calls in its loop keep the load there |
| `preempt` | with a tick between any two steps of a task or handler: does every task resume where it was, with all its registers and in turns, on stacks that do not grow, and does each run for ever (HAL)? | holds |
| `preempt_priority` | is the switch never taken inside another handler? | no, in the bare image: `SHP[1]` is not PendSV's byte |
| `single_core` | 10, coop2: does every jump go into a frame of its own task, do the tasks take strict turns for ever? 09, coop1: do the tasks alternate? 06, 07: are periods kept across the wrap? 05, 06: does a toggle follow every event? 02, 04: is a level that lasts told? 03: are the digits the number's? | holds |
| `coop1_counts` | do coop1's tasks print the numbers of their own executions? | no: the two counters are one word |
| `vendor` | jobs in parallel that fail, are killed and run again: does who waits for the lock find a whole tree, is a library what its sources are, does every wait end? | holds, the first until an update ends with the marker there and not the rest, the second as long as no job was killed |
| `vendor_ready` | does no job build from half a tree? | no: the test of one file, without the lock, can pass in the middle of a checkout |

### Bounds, and why they are enough

- `N = 2`: the smallest for which a core can overwrite an increment the other made
  before its own last one, which is what the floor of two increments is about; the
  proofs are for every N.  `Word = 5 = 2N + 1`: the smallest word the counter fits,
  so `round` wraps within a few rounds.  `PollTurns = 1`: the poll loop
  ends after one turn, and the next round's loop sees the release.  `Garbage = {0, 1}`: a flag that looks
  cleared, or set.
- `Chars = 2`: a core can be stopped after its first character, before its last.
  `MaxRun = 5`: `run` is capped well past the bound of two that is claimed.
- `Count = 16`: counters of messages modulo 16, where at most two can be behind.
- `preempt`: `NumTasks = 3` (2 in the code), a round robin that is not a mere
  exchange.  `Steps = 4`: two calls in a loop, so tasks are interrupted at different
  depths.  `Halves = 3`: the smallest stack for a call's local and two halves of a
  frame, so a push without its pop leaves the type.  `preempt_priority` uses 2 tasks
  and 2 steps, enough for a counterexample.
- `DualBlink` and `SharedFlag` have no bound; parities stand for counts, so the run
  is exhaustive.
- `single_core`: `NumTasks = 3` as above.  `Limit = 4`: executions modulo 4, more than
  one turn can add.  `Word = 16`, `Slow = 5`, `Fast = 3`, `Stall = 2`: a tick that wraps
  every few periods, and a loop slow enough to miss the exact tick; the bound
  `Slow + 1 + 4 * Stall < Word` is an ASSUME that the code meets by far.  `Pins = 2`:
  one changes while the other's line is sent.  `Leds = 3` as in the code.  `Largest =
  127`, `Room = 3`: a counter that wraps and fills its buffer, as 2^32 - 1 fills ten
  digits; that `Largest` is below `Power[Room]`, ten to that power, is an ASSUME.  `coop1_counts` has `Limit = 4`.
- `vendor`: two jobs (there are two, one per core), a source next to the marker, so that
  a checkout has a file before, at and after it, and an archive can miss one of two.

No symmetry is used: in most systems the two sides run different code, and the runs of
the others check liveness or are small.

### Fairness

A core that has an instruction to execute executes it: weak fairness of each core's
next step.  Nothing is assumed of relative speeds.  Apart from that:

- `IpccSemaphore`: strong fairness of a core's test of TXE, which the other core may
  keep finding full; each core leaves the port alone for half a second and more
  after each line.  The port itself keeps shifting.
- `PreemptKernel`: strong fairness of each task's step: a slice is 40000 cycles (4000
  in the HAL image).  `EveryTaskRuns` is stated for behaviours in which a tick's
  handlers are through before the next tick (`apart`); without it a tick at every
  return would take all the time.  The safety properties do not assume it.
- The HSEM semaphore needs no strong fairness: a core adds N times and then stops
  asking, so the other gets its turn.
- `single_core` (`SingleFairness`): the CPU executes.  Nobody need press a button, no
  timer need run.  `dual_core` (`DualFairness`): the fairness of its three modules.
- `VendorBuild`: a job that was started goes on or is killed (weak fairness of its
  steps; git and the compiler end), and a `flock` that is released again and again is
  granted to each that waits (strong fairness of `Flock`).
- Something starts the bare M0+ of exercises 01 and 02.  Nobody need press a button.

### What the code leaves to timing

Three orders are nowhere enforced by the code; the models name them.

- `paced` (exercise 04): the M4's poll delays (about 0.4 s bare, 0.2 s HAL) outlast
  the M0+'s reads of the counter and its print of about 60 ms.  `Init`
  chooses whether they do; only `LineIsFinal` and `ImplementsRounds` assume it: without
  it the M4 clears the counter under a print.
- `apart` (exercises 00 and 03): the M0+'s reset handler takes longer than the M4's
  few statements after C2BOOT.  A history variable says so; properties that need it
  name it and the others hold without.
- `Prompt` (exercise 11): `main` has built the stacks and set the priorities before
  the first tick.  In the bare image that is the program's order; in the HAL image
  `HAL_Init` starts the tick first, 4000 cycles ahead of the first one.  With `Prompt
  = FALSE` the same run fails: PendSV loads a stack pointer that is still null.  The
  theorems assume `Ready`, `Prompt` or the bare image, whose order needs no help.

## What is proved

The theorems hold for every value of the constants under the ASSUMEs of the modules
(`2 * N < Word` and so on).

`AtomicIncrement_proofs`: `Invariance` shows `Spec => []IInv`; every safety theorem
follows from `IInv`, the conjunction of

- `TypeInv`: the types, the loop index (`LoopInv`: below N inside the loop, N behind
  it) and the boot handshake (`BootInv`);
- `HandshakeInv`: which positions of the two cores go together.  The done-flags and
  the two values of `round` are what tells the cores apart, and none of the other
  parts is inductive without it: the M0+ is a round behind only while the M4 has not
  finished its own share, so the M4's clear of `m0p_done` never erases a set;
- `LockInv`: in ATOMIC mode a core inside the section holds the semaphore, and both
  cores have the same mode once both have read it (the button acts only in the
  poll loop, when both shares are made);
- `AtMostInv`: the counter, and any value a core has loaded, is at most the
  increments completed;
- `ExactInv`: in ATOMIC mode the counter is their number and a value loaded is current;
- `FloorInv`: a counter is positive after the first store, a value loaded by a core
  that has stored before is positive, so the counter is 2 unless some core has
  stored once at most;
- `PrintInv`: if `paced`, the counter does not change while the line is built.

From it: `TypeCorrect`, `SameMode`, `MutualExclusion`, `AtomicLosesNone`,
`LostNeverWraps`, `RaceHasFloor`, `DoneFlagIsTrue`, `NoRoundMissed` (an action
property), and for `paced` behaviours `LinesAreFinal` and `Refinement`, that the programs
implement `RoundCounter`, step by step (`StepRefines`).  `NoDeadlock`: the two cores never
wait for each other.  `SignalInv` is what `IInv` leaves open: the M4 raises
`m4_done` before it waits, also for an M0+ that is still at the line of an earlier
round, and the M0+ `m0p_ready` before its first wait.

`IpccSemaphore_proofs`: `TypeCorrect`, `Turns` and `OneCanPrint`.  The invariant
(`TurnInv`) says that a core in its second line in a row has its flag set while the
other has begun no line it has not released, and that after the first line the
flag is clear only in that situation: so the second line is the last until the
other core begins one and releases.  `OpenInv`: between lines one flag of the bare
image is clear, as the core that released last has cleared the other's.

`Mailbox_proofs`: `MessagesApart` and `QueueOfTwo`.  `PhaseInv` says who waits for what:
the M4 is about to post only into a free channel, the M0+ to acknowledge only an
occupied one, and before it polls it has shown nothing; `NoneMerged` itself is then
inductive, for every modulus above 3 (`Differences` and `Successors` are the modular
arithmetic).

`CoopKernel_proofs`: `FramesAreOwn` and `StrictTurns`, for any number of tasks.
`FrameInv`: a task that has been entered (`Live`) has its frame on its own stack with
the number it showed last.  `ContextInv`: `started`, or the context's place, tells the
kernel exactly which tasks those are.  `TurnInv` ties `current` and ucontext's
`next` to the turn.  A frame stays its owner's because a task is entered once, on its own
stack; that is what makes the three parts inductive together.

`PreemptKernel_proofs`: under `Ready`, `TypeCorrect`, `HalSwitchIsLast` and
`SlicesImplemented`, for any number of tasks, any even loop and any stack of three
halves or more.  `TasksInv` says where each task is: the one PSP belongs to is
in the CPU, or has its hardware frame above its local (`RunsAt`) and, once saved,
R4-R11 above that; every other has both halves on its own stack (`SavedAt`).
`CurrentInv` ties `current` to PSP and says in which phase of PendSV it is one ahead;
`ActiveInv` says which handler can be inside which in each image, `MainStackInv` what is on
the main stack then.  Every step but a task's own leaves each task where it is
(`Kept`), so `Position` moves only by `TaskStep` and `running` only by `Load`.

`SingleCore_proofs`: `PeriodsKept`, for a counter of any width.  `DifferenceInv` says that the
difference modulo `Word` is the time that has passed; it is inductive only together
with `LateInv`, how late a task can be by what the loop has yet to do, which keeps
the time below `Word`.  `TasksAlternate`: what is in the two contexts and who executed
last determine each other.  `NumbersShown`, for a counter and a buffer of any size:
`CounterInv` says that what is left of the number, continued by the digits made so far, is
the number (`Continued`), and that it is below the power of ten the room left in the
buffer can hold; so the division ends in time, and a first digit of 0 is made only of
0.  `Continued` and `Power` are recursive functions; that they are what their definitions
say, and that a digit put in front goes with the number before it
(`ContinuedPrepend`), is shown by induction over a *set* of naturals
(`SetInduction`, from the least element of its complement).  `BoardTypes` has all
seven programs' types; for the events that includes that a bit that is up has its
request or its handler.  `FramesOnBoard` and `TurnsOnBoard` carry the theorems on the kernels
over: a behaviour of the board is one of `KernelSpec` (`KernelAlone`).

`DualCore_proofs`: `OneModeSurvives`.  `Expected` is the mode that a core's pin has by the
edits it has made, and a pin is spoilt (`Bad`) when its mode is another; a core's
copy of the register can be right or wrong about either pin (`BadView`).  `RaceInv`: the
pin of a core that has not begun is right everywhere; never are both spoilt; and a
core that has more edits to make while its pin is spoilt, or has read it so, finds the
other core settled, which will not write again over what it reads now.  The last
part is what a repair depends on (the bare M0+ of 03 clears its pins' mode and then sets it).
`ApartInv` makes `ApartKeepsBoth`: where the M0+ starts after the M4's set-up nothing is
spoilt.  `PullInv` is the same for PA0's pull-up, which only HAL's M0+ can undo.
`FlagCountsToggles`: by `FlagInv` the value the M4 has loaded counts the toggles,
too, unless the M0+'s clear came after the load, and that clear comes once; by
`PressInv` a toggle under way has its own press, as long as IDR shows the wire.  `DualTypes`, and
`MessagesApartOnBoard` and `QueueOnBoard`, which carry over the theorems on 01 (`MailboxesAlone`).

`VendorBuild_proofs`: `FetchesExclude`, `WaitersSeeTree` and `LibrariesAreCurrent`, for any
jobs and sources.  `LockInv`: the holder is the one job in the locked part, also after
kills.  `TreeInv`: unless
`torn`, the marker is there without the rest only while a checkout is under way, so
who finds it under the lock finds everything.
`RunningInv`, `WholeInv`, `ArchiveInv`: nothing found by the glob is dropped on its
way to the archive.  `SoundInv` is the reason why a failed run does no harm: a library that
lacks an object newer than itself exists only while some source still has none,
so the next run compiles and archives anew.

Every invariant and every other property without fairness that a passing run checks is
stated by a theorem.  Only model-checked is liveness: `EveryRoundIsPrinted`,
`RoundsGoOn`, `ModeTakesEffect`, `BothPrint`, `MessagesShown`, `ApartBothBlink`,
`HeldPressToggles`, `RestsPrinted`, `EveryTaskRuns`, `TurnsGoOn`, `EventsToggle`,
`LevelsReported` and `JobsEnd`.  They rest on weak and strong fairness, which is defined by
ENABLED, and tlapm 1.4.5 cannot reason about that.  The refinements that are proved are
those of the safety part (initial states and steps), as the runs check them.  Of three of the
liveness properties the theorems have the half that is safety, that there is always somebody
who can go on: `NoDeadlock`, `OneCanPrint`, `FetchesExclude`.

## Plan

Done, in this order: `AtomicIncrement` with `RoundCounter` and proofs, `Mailbox`
with `LedQueue`, `IpccSemaphore` with proofs, `PinSetup` composed into `DualBlink` and
`SharedFlag`, `PreemptKernel` with `TimeSlicing`; then `CoopKernel` with `Turns`, the
smaller single-core programs, `SingleCore` and `DualCore`, `VendorBuild`, and the proofs of
`CoopKernel`, `Mailbox`, `VendorBuild`, `TickTasks`, `CoopSingleStack`, `PreemptKernel`,
`SerialCounter`, `DualBlink` and `SharedFlag`.

Proved last: the programs of `SingleCore` and the exercises of `DualCore`, their types and
what their runs check.  Left to prove: nothing that a run checks and the prover can reach.

## Not modelled

- `single_core/08_preemption`: a stub, whose PendSV handler does nothing; exercise 11 is
  the kernel it announces.
- `exercises/common`: start-up files, clock code and HAL configuration of the vendor,
  lightly adapted.  They run once before `main`, share nothing with another actor and
  have no state the programs come back to; `stm32wlxx_hal_conf.h` is declarations.
  That `.shared` is not initialised is in `AtomicIncrement` and `SharedFlag`.
- the set-up of pins, clocks and UART of the single-core programs: one write after the
  other by the only actor there is.
- the linking of images and the rules of `Makefile`: one command each, ordered by make.
- `download_cubeide.py`: drives ST's web site; what can go wrong is on the other side.
- flashing, terminals, reset and board checks: each runs one external tool.
- contents of printed lines other than their numbers, and what a kill of a build
  leaves behind beyond what `VendorBuild` says: the scripts do not claim to mend it.
