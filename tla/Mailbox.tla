-------------------------------- MODULE Mailbox --------------------------------
(****************************************************************************)
(* exercises/dual_core/01_multi_core_mailboxes: the M4 posts messages on     *)
(* IPCC channel 1 and the M0+ acknowledges each and toggles LD3.  A message  *)
(* carries nothing: it is the channel's CPU1-to-CPU2 occupied flag.          *)
(*                                                                           *)
(* The two images differ in their start.  The HAL M4 boots the M0+ itself,   *)
(* and HAL_IPCC_Init clears the flags the calling core receives on; the bare *)
(* M0+ is started from outside ("by the bootloader or M4 startup code").     *)
(****************************************************************************)
EXTENDS Integers

CONSTANT Count   \* the two message counters run modulo Count

ASSUME CountAssumption == Count \in Nat /\ Count > 3

VARIABLES image,     \* "bare" or "hal", on both cores
          m4, m0p,   \* where the cores are
          occupied,  \* C1TOC2SR.CH1F
          led,       \* GPIOB output bit 11, 0 or 1
          posted, toggled,  \* messages, modulo Count
          erased     \* HAL_IPCC_Init has cleared a posted message

vars == <<image, m4, m0p, occupied, led, posted, toggled, erased>>

Init == /\ image \in {"bare", "hal"}
        /\ m4 = IF image = "hal" THEN "boot" ELSE "wait"
        /\ m0p = "off"
        /\ occupied = FALSE
        /\ led = 0
        /\ posted = 0 /\ toggled = 0
        /\ erased = FALSE

\* LL_PWR_EnableBootC2; the HAL M0+ has HAL_IPCC_Init ahead of it.  The M4's own
\* HAL_IPCC_Init clears flags of the other direction only.
BootM0p == /\ m4 = "boot" /\ m4' = "wait"
           /\ m0p' = "init"
           /\ UNCHANGED <<image, occupied, led, posted, toggled, erased>>

\* Slip: the M4 posts at its own pace.
PostAnyway == /\ m4 = "wait"
              /\ m4' = "post"
              /\ UNCHANGED <<image, m0p, occupied, led, posted, toggled, erased>>

WaitFree == /\ m4 = "wait" /\ ~occupied
            /\ m4' = "post"
            /\ UNCHANGED <<image, m0p, occupied, led, posted, toggled, erased>>

Post == /\ m4 = "post" /\ m4' = "wait"
        /\ occupied' = TRUE
        /\ posted' = (posted + 1) % Count
        /\ UNCHANGED <<image, m0p, led, toggled, erased>>

\* External: what starts CPU2 under the bare image.
StartM0p == /\ image = "bare" /\ m0p = "off"
            /\ m0p' = "poll"
            /\ UNCHANGED <<image, m4, occupied, led, posted, toggled, erased>>

\* HAL_IPCC_Init on the M0+ writes C2SCR and so empties channel 1.
InitIpcc == /\ m0p = "init" /\ m0p' = "poll"
            /\ occupied' = FALSE
            /\ erased' = occupied
            /\ UNCHANGED <<image, m4, led, posted, toggled>>

Poll == /\ m0p = "poll" /\ occupied
        /\ m0p' = "ack"
        /\ UNCHANGED <<image, m4, occupied, led, posted, toggled, erased>>

\* Slip: only the acknowledgement is in the `if`.
AcknowledgeOnly == /\ m0p = "ack" /\ m0p' = "poll"
                   /\ occupied' = FALSE
                   /\ UNCHANGED <<image, m4, led, posted, toggled, erased>>

Acknowledge == /\ m0p = "ack" /\ m0p' = "toggle"
               /\ occupied' = FALSE
               /\ UNCHANGED <<image, m4, led, posted, toggled, erased>>

\* Slip: `ODR += OD11` carries into the next pin.
ToggleByAdding == /\ m0p = "toggle" /\ m0p' = "poll"
                  /\ led' = led + 1
                  /\ toggled' = (toggled + 1) % Count
                  /\ UNCHANGED <<image, m4, occupied, posted, erased>>

Toggle == /\ m0p = "toggle" /\ m0p' = "poll"
          /\ led' = 1 - led
          /\ toggled' = (toggled + 1) % Count
          /\ UNCHANGED <<image, m4, occupied, posted, erased>>

M4Next == BootM0p \/ WaitFree \/ Post
M0pNext == InitIpcc \/ Poll \/ Acknowledge \/ Toggle
Next == M4Next \/ StartM0p \/ M0pNext

\* Both cores keep executing and something does start the bare M0+.
Fairness == WF_vars(M4Next) /\ WF_vars(M0pNext) /\ WF_vars(StartM0p)

Spec == Init /\ [][Next]_vars
FairSpec == Spec /\ Fairness

----------------------------------------------------------------------------

\* The type invariant.
TypeOK == /\ image \in {"bare", "hal"}
          /\ m4 \in {"boot", "wait", "post"}
          /\ m0p \in {"off", "init", "poll", "ack", "toggle"}
          /\ occupied \in BOOLEAN /\ led \in {0, 1} /\ erased \in BOOLEAN
          /\ posted \in 0 .. Count - 1 /\ toggled \in 0 .. Count - 1

\* Messages posted and not yet shown by the LED, apart from an erased one.
Behind == (posted - toggled - IF erased THEN 1 ELSE 0) % Count

\* No message is posted over one that is still in the channel and none is shown
\* twice: what is behind is the one in the channel and the one acknowledged but
\* not yet shown.  (The acknowledgement precedes the toggle, so the M4 can be two
\* messages ahead of the LED, not one.)
NoneMerged == Behind = (IF occupied /\ m0p # "toggle" THEN 1 ELSE 0)
                       + (IF m0p = "toggle" THEN IF occupied THEN 2 ELSE 1 ELSE 0)

\* Messages the M0+ is through with: shown, or erased by its own HAL_IPCC_Init.
Consumed == (toggled + IF erased THEN 1 ELSE 0) % Count

\* "The M0+ toggles LD3 each time it receives one" (main_cm4_hal.c): neither core is
\* ever stuck, the LED goes from one message to the next for ever.
AllShown == \A n \in 0 .. Count - 1 : Consumed = n ~> Consumed = (n + 1) % Count

----------------------------------------------------------------------------
(* Both images implement a queue of two messages in front of the LED; a      *)
(* message that HAL_IPCC_Init will erase never entered it.                   *)

Messages == INSTANCE LedQueue
              WITH Capacity <- 2,
                   waiting <- IF m0p = "init" THEN 0 ELSE Behind,
                   led <- led = 1

\* Every step of the two programs is a Send, a Show, or changes neither the queue
\* nor the LED.
ImplementsQueue == Messages!Spec
================================================================================
