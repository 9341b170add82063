----------------------------- MODULE IpccSemaphore -----------------------------
(****************************************************************************)
(* exercises/dual_core/02_semaphores: the M4 and the M0+ print lines through *)
(* one LPUART1 and use IPCC channel 2 as "a simple binary semaphore".        *)
(*                                                                           *)
(* A channel has one occupied flag per direction.  A core sets the flag of   *)
(* the direction it sends in (CnSCR.CH2S) and clears the flag of the         *)
(* direction it receives in (CnSCR.CH2C): it cannot clear what it has set.   *)
(*   bare: each core tests and sets its own flag, and releases with CH2C,    *)
(*         which clears the other core's flag;                               *)
(*   hal:  both cores test the M4's flag; the M4 acquires and releases with  *)
(*         NotifyCPU(TX), which sets it, the M0+ with NotifyCPU(RX), which   *)
(*         clears it.                                                        *)
(****************************************************************************)
EXTENDS Integers

CONSTANTS Chars,   \* characters of a line
          MaxRun   \* run counts to MaxRun and stays there

ASSUME CharsAssumption == Chars \in Nat \ {0}
ASSUME MaxRunAssumption == MaxRun \in Nat /\ MaxRun > 3

M4 == "m4"
M0P == "m0p"
Core == {M4, M0P}
Other(c) == IF c = M4 THEN M0P ELSE M4

VARIABLES image,    \* "bare" or "hal", on both cores
          pc,       \* where each core is
          occupied, \* occupied[c]: the channel-2 flag of the direction c sends in
          sent,     \* characters of its line the core has written
          txe,      \* LPUART1 can take a character
          run       \* lines the core has begun since the other began one

vars == <<image, pc, occupied, sent, txe, run>>

Sending == {"wait_txe", "write", "release"}

Init == /\ image \in {"bare", "hal"}
        /\ pc = [c \in Core |-> IF c = M4 /\ image = "hal" THEN "boot"
                                ELSE IF c = M4 THEN "acquire" ELSE "off"]
        /\ occupied = [c \in Core |-> FALSE]
        /\ sent = [c \in Core |-> 0]
        /\ txe = TRUE
        /\ run = [c \in Core |-> 0]

Goto(c, from, to) == pc[c] = from /\ pc' = [pc EXCEPT ![c] = to]

\* LL_PWR_EnableBootC2; HAL_IPCC_Init then clears the flag the caller receives on.
BootM0p == /\ pc[M4] = "boot"
           /\ pc' = [pc EXCEPT ![M4] = "init", ![M0P] = "init"]
           /\ UNCHANGED <<image, occupied, sent, txe, run>>
InitIpcc(c) == /\ Goto(c, "init", "acquire")
               /\ occupied' = [occupied EXCEPT ![Other(c)] = FALSE]
               /\ UNCHANGED <<image, sent, txe, run>>

\* External: what starts CPU2 under the bare image, whose M4 does not.
StartM0p == /\ image = "bare"
            /\ Goto(M0P, "off", "acquire")
            /\ UNCHANGED <<image, occupied, sent, txe, run>>

\* The flag that acquire_lock spins on.
Tested(c) == IF image = "bare" THEN c ELSE M4

SpinExit(c) == /\ ~occupied[Tested(c)]
               /\ Goto(c, "acquire", "take")
               /\ UNCHANGED <<image, occupied, sent, txe, run>>

\* The write that ends acquire_lock.
Take(c) == /\ Goto(c, "take", "wait_txe")
           /\ occupied' = IF image = "hal" /\ c = M0P
                          THEN [occupied EXCEPT ![M4] = FALSE]
                          ELSE [occupied EXCEPT ![c] = TRUE]
           /\ sent' = [sent EXCEPT ![c] = 0]
           /\ run' = [d \in Core |-> IF d # c THEN 0
                                     ELSE IF run[c] = MaxRun THEN MaxRun ELSE run[c] + 1]
           /\ UNCHANGED <<image, txe>>

WaitTxe(c) == /\ txe
              /\ Goto(c, "wait_txe", "write")
              /\ UNCHANGED <<image, occupied, sent, txe, run>>

\* Slip: the string is sent with its terminator.
WriteTerminator(c) == /\ Goto(c, "write", IF sent[c] = Chars THEN "release" ELSE "wait_txe")
                      /\ sent' = [sent EXCEPT ![c] = @ + 1]
                      /\ txe' = FALSE
                      /\ UNCHANGED <<image, occupied, run>>
Write(c) == /\ Goto(c, "write", IF sent[c] + 1 = Chars THEN "release" ELSE "wait_txe")
            /\ sent' = [sent EXCEPT ![c] = @ + 1]
            /\ txe' = FALSE
            /\ UNCHANGED <<image, occupied, run>>

\* External: LPUART1 moves the character to its shift register.
Shift == /\ ~txe /\ txe' = TRUE
         /\ UNCHANGED <<image, pc, occupied, sent, run>>

\* Slip: release_lock frees the flag the core itself tests.
ReleaseOwn(c) == /\ Goto(c, "release", "acquire")
                 /\ occupied' = [occupied EXCEPT ![c] = FALSE]
                 /\ UNCHANGED <<image, sent, txe, run>>
\* Slip: the M0+ too ends its line with a set.
ReleaseBySetting(c) == /\ Goto(c, "release", "acquire")
                       /\ occupied' = [occupied EXCEPT ![Other(c)] = TRUE]
                       /\ UNCHANGED <<image, sent, txe, run>>
Release(c) == /\ Goto(c, "release", "acquire")
              /\ occupied' = IF image = "hal" THEN [occupied EXCEPT ![M4] = c = M4]
                             ELSE [occupied EXCEPT ![Other(c)] = FALSE]
              /\ UNCHANGED <<image, sent, txe, run>>

CoreNext(c) == \/ InitIpcc(c)
               \/ SpinExit(c)
               \/ Take(c)
               \/ WaitTxe(c)
               \/ Write(c)
               \/ Release(c)

Next == BootM0p \/ StartM0p \/ Shift \/ (\E c \in Core : CoreNext(c))

\* Both cores keep executing, the port keeps shifting and something starts the
\* bare M0+.  A core that polls TXE sees it in the end: the other core leaves
\* the port alone for half a second and more after each of its lines.
Fairness == /\ WF_vars(BootM0p) /\ WF_vars(StartM0p) /\ WF_vars(Shift)
            /\ \A c \in Core : WF_vars(CoreNext(c)) /\ SF_vars(WaitTxe(c))

Spec == Init /\ [][Next]_vars
FairSpec == Spec /\ Fairness

----------------------------------------------------------------------------

\* The type invariant.
TypeOK == /\ image \in {"bare", "hal"}
          /\ pc \in [Core -> {"off", "boot", "init", "acquire", "take"} \cup Sending]
          /\ occupied \in [Core -> BOOLEAN]
          /\ sent \in [Core -> 0 .. Chars]
          /\ txe \in BOOLEAN
          /\ run \in [Core -> 0 .. MaxRun]

\* The lock excludes nobody but is a turnstile.  Bare: a core's flag is cleared
\* only by the other core's release, so no core begins three lines while the
\* other begins none.  HAL: the M4 only ever sets the flag, so that holds for it.
TakesTurns == \A c \in Core : image = "bare" \/ c = M4 => run[c] <= 2

\* ... and under the bare lock the two never block each other for good.
BothPrint == image = "bare" => \A c \in Core : []<>(pc[c] = "release")

\* "An IPCC channel is used as a binary semaphore so their lines don't
\* interleave" (main_cm4_hal.c): the cores are never both in mid-line.
LinesApart == ~ \A c \in Core : pc[c] \in {"wait_txe", "write"} /\ sent[c] > 0

\* "Then loops: take the lock, print, release" (main_cm4_hal.c): the M4 prints
\* for ever.
M4PrintsOn == image = "hal" => []<>(pc[M4] = "release")
================================================================================
