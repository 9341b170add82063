---------------------------- MODULE AtomicIncrement ----------------------------
(****************************************************************************)
(* exercises/dual_core/04_atomic_increment: the Cortex-M4 and the Cortex-M0+ *)
(* of an STM32WL55 each add N to one counter in the shared SRAM2, round      *)
(* after round.  The M4 starts the rounds and reads the button that toggles  *)
(* RACY and ATOMIC; the M0+ prints what the round lost.  There is nothing    *)
(* between the two but six words of memory and one HSEM semaphore.           *)
(*                                                                           *)
(* A step is one access to what the cores share, in program order on each    *)
(* core and in any order between them (no data cache; `volatile` accesses).  *)
(* The *_bare.c and *_hal.c images make the same accesses in the same order. *)
(****************************************************************************)
EXTENDS Integers, Sequences

CONSTANTS N,          \* increments per core and round (#define N)
          Word,       \* 2^32: the cores compute modulo Word
          PollTurns,  \* button samples between two rounds (100 bare, 50 HAL)
          Garbage     \* what SRAM2 can hold at reset (.shared is NOLOAD)

ASSUME NAssumption == N \in Nat \ {0}
ASSUME WordAssumption == Word \in Nat /\ 2 * N < Word
ASSUME PollAssumption == PollTurns \in Nat
ASSUME GarbageAssumption == Garbage \subseteq 0 .. Word - 1

M4 == "m4"
M0P == "m0p"
Core == {M4, M0P}
Free == "free"

VARIABLES counter, mode, round, m4_done, m0p_done, m0p_ready,  \* shared_t
          hsem,               \* core that holds semaphore HSEM_ID, or Free
          pc, i, reg, atomic, \* each core: position, loop index, loaded value
          prev, t,            \* M4: last button level, poll turn
          paced,              \* its poll delays outlast the M0+'s printing; never changes
          last_round,         \* M0+: the round it took last
          actual, lost,       \* M0+: the two numbers of the line being built
          uart                \* the last line sent, <<>> before the first

flags == <<m4_done, m0p_done, m0p_ready>>
shared == <<counter, mode, round, flags>>
work == <<i, reg, atomic>>
button == <<prev, t, paced>>
print == <<last_round, actual, lost, uart>>
vars == <<shared, hsem, pc, work, button, print>>

\* uint32_t addition of one and subtraction.
Inc(x) == IF x + 1 = Word THEN 0 ELSE x + 1
Minus(x, y) == IF y <= x THEN x - y ELSE x + Word - y

Goto(c, from, to) == pc[c] = from /\ pc' = [pc EXCEPT ![c] = to]

Init == /\ counter \in Garbage /\ mode \in Garbage /\ round \in Garbage
        /\ m4_done \in Garbage /\ m0p_done \in Garbage /\ m0p_ready \in Garbage
        /\ hsem = Free
        /\ pc = [c \in Core |-> IF c = M4 THEN "init" ELSE "off"]
        /\ i = [c \in Core |-> 0]
        /\ reg = [c \in Core |-> 0]
        /\ atomic = [c \in Core |-> 0]
        /\ prev = 1 /\ t = 0 /\ paced \in BOOLEAN
        /\ last_round = 0 /\ actual = 0 /\ lost = 0 /\ uart = <<>>

----------------------------------------------------------------------------
(* do_increments: the same code on both cores.                              *)

InLoop == {"lock", "load", "store", "unlock"}

\* Slip: only the M4 looks at mode.
ReadModeM4Only(c) ==
    LET a == IF mode # 0 /\ c = M4 THEN 1 ELSE 0
    IN /\ Goto(c, "read_mode", IF a = 1 THEN "lock" ELSE "load")
       /\ atomic' = [atomic EXCEPT ![c] = a]
       /\ i' = [i EXCEPT ![c] = 0]
       /\ UNCHANGED <<shared, hsem, reg, button, print>>
\* Slip: the M4 zeroes counter once it has bumped round.
ReadModeLateClear(c) ==
    /\ Goto(c, "read_mode", IF mode # 0 THEN "lock" ELSE "load")
    /\ counter' = IF c = M4 THEN 0 ELSE counter
    /\ atomic' = [atomic EXCEPT ![c] = IF mode # 0 THEN 1 ELSE 0]
    /\ i' = [i EXCEPT ![c] = 0]
    /\ UNCHANGED <<mode, round, flags, hsem, reg, button, print>>

\* `int atomic = mode ? 1 : 0` and the call of do_increments.
ReadMode(c) == /\ Goto(c, "read_mode", IF mode # 0 THEN "lock" ELSE "load")
               /\ atomic' = [atomic EXCEPT ![c] = IF mode # 0 THEN 1 ELSE 0]
               /\ i' = [i EXCEPT ![c] = 0]
               /\ UNCHANGED <<shared, hsem, reg, button, print>>

\* Slip: the value read from RLR is not tested.
HsemLockUntested(c) == /\ Goto(c, "lock", "load")
                       /\ hsem' = IF hsem = Free THEN c ELSE hsem
                       /\ UNCHANGED <<shared, work, button, print>>

\* The spin ends on the read of HSEM->RLR that answers LOCK | own COREID.
HsemLock(c) == /\ hsem \in {Free, c}
               /\ Goto(c, "lock", "load")
               /\ hsem' = c
               /\ UNCHANGED <<shared, work, button, print>>

Load(c) == /\ Goto(c, "load", "store")
           /\ reg' = [reg EXCEPT ![c] = counter]
           /\ UNCHANGED <<shared, hsem, i, atomic, button, print>>

\* Slip: `i <= N`.
AfterOneMore(c, n) == IF n > N THEN "set_done"
                      ELSE IF atomic[c] = 1 THEN "lock" ELSE "load"

\* Where the for loop goes after its n-th increment.
AfterIncrement(c, n) == IF n = N THEN "set_done"
                        ELSE IF atomic[c] = 1 THEN "lock" ELSE "load"

Store(c) == /\ Goto(c, "store", IF atomic[c] = 1 THEN "unlock"
                                ELSE AfterIncrement(c, i[c] + 1))
            /\ counter' = Inc(reg[c])
            /\ i' = IF atomic[c] = 1 THEN i ELSE [i EXCEPT ![c] = @ + 1]
            /\ UNCHANGED <<mode, round, flags, hsem, reg, atomic, button, print>>

\* The write of HSEM->R[HSEM_ID] releases only what the writing core holds.
HsemUnlock(c) == /\ Goto(c, "unlock", AfterIncrement(c, i[c] + 1))
                 /\ hsem' = IF hsem = c THEN Free ELSE hsem
                 /\ i' = [i EXCEPT ![c] = @ + 1]
                 /\ UNCHANGED <<shared, reg, atomic, button, print>>

DoIncrements(c) == \/ HsemLock(c)
                   \/ Load(c)
                   \/ Store(c)
                   \/ HsemUnlock(c)

----------------------------------------------------------------------------
(* The M4.                                                                  *)

\* Slip: m0p_ready keeps what SRAM2 held.
InitBlockKeepsReady == /\ Goto(M4, "init", "boot")
                       /\ counter' = 0 /\ mode' = 0 /\ round' = 0
                       /\ m4_done' = 0 /\ m0p_done' = 0
                       /\ UNCHANGED <<m0p_ready, hsem, work, button, print>>

\* The six stores before C2BOOT: the M0+ is in reset, nobody sees between them.
InitBlock == /\ Goto(M4, "init", "boot")
             /\ counter' = 0 /\ mode' = 0 /\ round' = 0
             /\ m4_done' = 0 /\ m0p_done' = 0 /\ m0p_ready' = 0
             /\ UNCHANGED <<hsem, work, button, print>>

BootM0p == /\ pc[M4] = "boot"
           /\ pc' = [pc EXCEPT ![M4] = "button", ![M0P] = "sample"]
           /\ UNCHANGED <<shared, hsem, work, button, print>>

FirstSample == /\ Goto(M4, "button", "wait_ready")
               /\ prev' \in {0, 1}
               /\ UNCHANGED <<shared, hsem, work, t, paced, print>>

WaitReady == /\ m0p_ready # 0
             /\ Goto(M4, "wait_ready", "clear_counter")
             /\ UNCHANGED <<shared, hsem, work, button, print>>

\* Slip: the counter runs on.
KeepCounter == /\ Goto(M4, "clear_counter", "clear_m4_done")
               /\ UNCHANGED <<shared, hsem, work, button, print>>

ClearCounter == /\ Goto(M4, "clear_counter", "clear_m4_done")
                /\ counter' = 0
                /\ UNCHANGED <<mode, round, flags, hsem, work, button, print>>

ClearM4Done == /\ Goto(M4, "clear_m4_done", "clear_m0p_done")
               /\ m4_done' = 0
               /\ UNCHANGED <<counter, mode, round, m0p_done, m0p_ready, hsem,
                              work, button, print>>

\* Slip: the M4 leaves the M0+'s flag to the M0+.
KeepM0pDone == /\ Goto(M4, "clear_m0p_done", "bump_round")
               /\ UNCHANGED <<shared, hsem, work, button, print>>

ClearM0pDone == /\ Goto(M4, "clear_m0p_done", "bump_round")
                /\ m0p_done' = 0
                /\ UNCHANGED <<counter, mode, round, m4_done, m0p_ready, hsem,
                               work, button, print>>

\* `round += 1` is a load and a store, and only the M4 stores to round.
BumpRound == /\ Goto(M4, "bump_round", "read_mode")
             /\ round' = Inc(round)
             /\ UNCHANGED <<counter, mode, flags, hsem, work, button, print>>

SetM4Done == /\ Goto(M4, "set_done", "wait_m0p")
             /\ m4_done' = 1
             /\ UNCHANGED <<counter, mode, round, m0p_done, m0p_ready, hsem,
                            work, button, print>>

\* Slip: the M4 does not wait for the M0+'s share.
SkipM0p == /\ Goto(M4, "wait_m0p", "poll")
           /\ t' = 0
           /\ UNCHANGED <<shared, hsem, work, prev, paced, print>>

WaitM0p == /\ m0p_done # 0
           /\ Goto(M4, "wait_m0p", "poll")
           /\ t' = 0
           /\ UNCHANGED <<shared, hsem, work, prev, paced, print>>

\* Slip: the loop variable is set back on every turn.
PollForever == /\ pc[M4] = "poll" /\ t < PollTurns
               /\ \E level \in {0, 1} :
                    /\ mode' = IF prev = 1 /\ level = 0 THEN 1 - mode ELSE mode
                    /\ prev' = level
               /\ UNCHANGED <<counter, round, flags, hsem, pc, work, t, paced, print>>

\* One turn of the poll loop; level is the pin's, and only the M4 stores to mode.
PollTurn == /\ pc[M4] = "poll" /\ t < PollTurns
            /\ \E level \in {0, 1} :
                 /\ mode' = IF prev = 1 /\ level = 0 THEN 1 - mode ELSE mode
                 /\ prev' = level
            /\ t' = t + 1
            /\ UNCHANGED <<counter, round, flags, hsem, pc, work, paced, print>>

\* Slip: the loop keeps its turns and loses its delay.
PollUnpaced == /\ t = PollTurns
               /\ Goto(M4, "poll", "clear_counter")
               /\ UNCHANGED <<shared, hsem, work, button, print>>

\* The delays of the poll loop (about 0.4 s bare, 0.2 s HAL) against the two
\* reads of counter that the M0+ makes once it sees m4_done, and its 60 ms of
\* serial output: nothing in the code orders them, paced says who wins.
PollDone == /\ t = PollTurns
            /\ paced => pc[M0P] \notin {"wait_m4", "read_actual", "read_lost", "send"}
            /\ Goto(M4, "poll", "clear_counter")
            /\ UNCHANGED <<shared, hsem, work, button, print>>

StartRound == \/ ClearCounter
              \/ ClearM4Done
              \/ ClearM0pDone
              \/ BumpRound

M4Next == \/ InitBlock
          \/ BootM0p
          \/ FirstSample
          \/ WaitReady
          \/ StartRound
          \/ ReadMode(M4)
          \/ DoIncrements(M4)
          \/ SetM4Done
          \/ WaitM0p
          \/ PollTurn
          \/ PollDone

----------------------------------------------------------------------------
(* The M0+.                                                                 *)

SampleRound == /\ Goto(M0P, "sample", "ready")
               /\ last_round' = round
               /\ UNCHANGED <<shared, hsem, work, button, actual, lost, uart>>

AnnounceReady == /\ Goto(M0P, "ready", "wait_round")
                 /\ m0p_ready' = 1
                 /\ UNCHANGED <<counter, mode, round, m4_done, m0p_done, hsem,
                                work, button, print>>

WaitRound == /\ round # last_round
             /\ Goto(M0P, "wait_round", "take_round")
             /\ UNCHANGED <<shared, hsem, work, button, print>>

\* A second read of round, not the one that ended the spin.
TakeRound == /\ Goto(M0P, "take_round", "read_mode")
             /\ last_round' = round
             /\ UNCHANGED <<shared, hsem, work, button, actual, lost, uart>>

SetM0pDone == /\ Goto(M0P, "set_done", "wait_m4")
              /\ m0p_done' = 1
              /\ UNCHANGED <<counter, mode, round, m4_done, m0p_ready, hsem,
                             work, button, print>>

\* Slip: the M0+ prints as soon as its own share is made.
SkipM4 == /\ Goto(M0P, "wait_m4", "read_actual")
          /\ UNCHANGED <<shared, hsem, work, button, print>>

WaitM4 == /\ m4_done # 0
          /\ Goto(M0P, "wait_m4", "read_actual")
          /\ UNCHANGED <<shared, hsem, work, button, print>>

\* The line reads counter twice, once for actual= and once for lost=.
ReadActual == /\ Goto(M0P, "read_actual", "read_lost")
              /\ actual' = counter
              /\ UNCHANGED <<shared, hsem, work, button, last_round, lost, uart>>

ReadLost == /\ Goto(M0P, "read_lost", "send")
            /\ lost' = Minus(2 * N, counter)
            /\ UNCHANGED <<shared, hsem, work, button, last_round, actual, uart>>

SendLine == /\ Goto(M0P, "send", "wait_round")
            /\ uart' = <<[atomic |-> atomic[M0P], actual |-> actual, lost |-> lost]>>
            /\ UNCHANGED <<shared, hsem, work, button, last_round, actual, lost>>

PrintLine == \/ ReadActual
         \/ ReadLost
         \/ SendLine

M0pNext == \/ SampleRound
           \/ AnnounceReady
           \/ WaitRound
           \/ TakeRound
           \/ ReadMode(M0P)
           \/ DoIncrements(M0P)
           \/ SetM0pDone
           \/ WaitM4
           \/ PrintLine

----------------------------------------------------------------------------

Next == M4Next \/ M0pNext

\* Each core keeps executing; nothing is assumed about their relative speed.
Fairness == WF_vars(M4Next) /\ WF_vars(M0pNext)

Spec == Init /\ [][Next]_vars
FairSpec == Spec /\ Fairness

----------------------------------------------------------------------------
(* Where the cores are.                                                     *)

Booting == {"init", "boot", "button", "wait_ready"}
Preparing == {"clear_counter", "clear_m4_done", "clear_m0p_done", "bump_round"}
M4Pc == Booting \cup Preparing \cup {"read_mode"} \cup InLoop
          \cup {"set_done", "wait_m0p", "poll"}

Printing == {"wait_m4", "read_actual", "read_lost", "send"}
M0pPc == {"off", "sample", "ready", "wait_round", "take_round", "read_mode"}
           \cup InLoop \cup {"set_done"} \cup Printing

\* The core is between the load and the store of one `counter + 1`, or still
\* holds the semaphore after it.
Inside(c) == pc[c] \in {"load", "store", "unlock"}

\* The M0+ has taken the round the M4 is in and still adds its share.
Adding == {"read_mode"} \cup InLoop \cup {"set_done"}

\* Increments the core has completed in the round the M4 is in.
Share(c) == IF \/ pc[M4] \in Booting \cup Preparing \cup (IF c = M4 THEN {"read_mode"} ELSE {})
               \/ c = M0P /\ (last_round # round \/ pc[M0P] = "read_mode")
            THEN 0
            ELSE IF pc[c] = "unlock" THEN i[c] + 1 ELSE i[c]

UInt == 0 .. Word - 1
Line == [atomic : {0, 1}, actual : UInt, lost : UInt]

----------------------------------------------------------------------------
(* Properties.                                                              *)

\* The type invariant.
TypeOK == /\ counter \in UInt /\ mode \in UInt /\ round \in UInt
          /\ m4_done \in UInt /\ m0p_done \in UInt /\ m0p_ready \in UInt
          /\ hsem \in Core \cup {Free}
          /\ pc \in [Core -> M4Pc \cup M0pPc]
          /\ pc[M4] \in M4Pc /\ pc[M0P] \in M0pPc
          /\ i \in [Core -> 0 .. N]
          /\ reg \in [Core -> UInt]
          /\ atomic \in [Core -> {0, 1}]
          /\ prev \in {0, 1} /\ t \in 0 .. PollTurns /\ paced \in BOOLEAN
          /\ last_round \in UInt /\ actual \in UInt /\ lost \in UInt
          /\ uart \in {<<>>} \cup {<<l>> : l \in Line}

\* Both cores run a round in the same mode: a core that locks never meets one
\* that does not (the button may only act between the two shares).
ModeAgreement ==
    pc[M0P] \in InLoop /\ pc[M4] \in InLoop \cup {"set_done", "wait_m0p"}
        => atomic[M4] = atomic[M0P]

\* "Only one core can hold the lock at a time, so the two cores'
\* load/modify/store sequences can never interleave" (exercise.md): the two
\* cores are never both inside when one of them is in ATOMIC mode.
Exclusion == (\E c \in Core : atomic[c] = 1 /\ Inside(c)) => ~ \A c \in Core : Inside(c)

\* No increment is lost in ATOMIC mode: at any moment of a round the counter is
\* the number of increments the two cores have completed.
NoneLost == /\ pc[M4] \notin Booting \cup Preparing
            /\ atomic[M4] = 1 /\ pc[M4] # "read_mode"
            => counter = Share(M4) + Share(M0P)

\* In either mode the counter never exceeds the increments made, so that the
\* uint32 subtraction 2N - counter printed as lost never wraps.
NeverTooMany == pc[M4] \notin Booting \cup {"clear_counter"}
                  => counter <= Share(M4) + Share(M0P)

\* However the unguarded sequences interleave, a finished round kept at least
\* two increments (one if N = 1): the last load of each core follows a store.
RacyFloor == pc[M4] \in {"wait_m0p", "poll"} /\ Share(M0P) = N
               => counter >= IF N = 1 THEN 1 ELSE 2

\* The done-flag the M4 waits for is neither stale nor erased: once the round is
\* bumped, m0p_done is up exactly when the M0+ has made its share of it.
DoneFlagTells == pc[M4] \notin Booting \cup Preparing
                   => (m0p_done = 1 <=> Share(M0P) = N /\ pc[M0P] # "set_done"
                                                      /\ pc[M0P] \notin InLoop)

\* The M0+ takes every round, once and in order, although it only compares two
\* samples of round and its second read is not the one that ended the spin.
RoundsInOrder == [][last_round' \in {last_round, Inc(last_round)}]_last_round

\* With the poll delays outlasting the print, a line reports a final total: its
\* two reads of counter agree and an ATOMIC round prints lost=0 (exercise.md).
LineIsFinal == paced /\ pc[M0P] = "send" => /\ actual + lost = 2 * N
                                            /\ atomic[M0P] = 1 => lost = 0

\* No handshake ever blocks the two cores for good: every round that starts is
\* taken by the M0+ and brought to a line.
EveryRoundIsPrinted == \A r \in UInt :
    (pc[M4] = "read_mode" /\ round = r) ~> (pc[M0P] = "send" /\ last_round = r)

\* ... and the M4 starts rounds for ever.
RoundsGoOn == []<>(pc[M4] = "clear_counter")

\* The mode the button left is the mode of a line ("the change takes effect
\* from the next round").
ModeTakesEffect == \A m \in {0, 1} :
    (pc[M4] = "clear_counter" /\ mode = m) ~> (pc[M0P] = "send" /\ atomic[M0P] = m)

----------------------------------------------------------------------------
(* The two programs implement RoundCounter if they are paced (nothing is said *)
(* of a run that is not: it is mapped to the initial state).  A round is under *)
(* way from the M4's clearing of counter to the line the M0+ sends; in between *)
(* the flags and the semaphore are invisible.                                 *)

Running == /\ paced
           /\ pc[M4] \notin Booting \cup {"clear_counter"}
           /\ pc[M4] \in {"wait_m0p", "poll"} /\ pc[M0P] = "wait_round"
                => last_round # round

RoundMode == IF pc[M4] \in Preparing \cup {"read_mode"} THEN mode ELSE atomic[M4]

Rounds == INSTANCE RoundCounter
            WITH running <- Running,
                 atomic <- IF Running THEN RoundMode ELSE 0,
                 share <- [c \in Core |-> IF Running THEN Share(c) ELSE 0],
                 total <- IF Running THEN counter ELSE 0,
                 report <- IF paced THEN uart ELSE <<>>

\* Every step of the two programs, when paced, is a step of RoundCounter or changes nothing
\* it can see.
ImplementsRounds == Rounds!Spec
================================================================================
