------------------------------ MODULE Mailbox_proofs -----------------------------
(****************************************************************************)
(* Proofs about both images of 01_multi_core_mailboxes, for message counters *)
(* of any modulus: no message is merged or shown twice, and the programs     *)
(* implement the queue of two messages.                                      *)
(****************************************************************************)
EXTENDS Mailbox, TLAPS

\* Messages the M4 is ahead, told from the channel and the M0+ alone.
Ahead == (IF occupied /\ m0p # "toggle" THEN 1 ELSE 0)
         + (IF m0p = "toggle" THEN IF occupied THEN 2 ELSE 1 ELSE 0)

\* Who waits for what: the M4 is about to post only into a free channel, the M0+ to
\* acknowledge only an occupied one; before the M0+ polls it has shown nothing, and the
\* HAL M4 posts nothing before it has booted the M0+.
PhaseInv == /\ m4 = "post" => ~occupied
            /\ m0p = "ack" => occupied
            /\ m0p \in {"off", "init"} => toggled = 0 /\ ~erased
            /\ m4 = "boot" => image = "hal" /\ m0p = "off" /\ posted = 0 /\ ~occupied

IInv == TypeOK /\ PhaseInv /\ NoneMerged

----------------------------------------------------------------------------

\* Differences of counters that have wrapped, or not.
LEMMA Differences ==
    \A p, t \in 0 .. Count - 1, e \in {0, 1} :
        (p - t - e) % Count = IF p - t - e < 0 THEN p - t - e + Count ELSE p - t - e
<1>1. \A x \in 0 .. Count - 1 : x % Count = x
  BY CountAssumption
<1>2. \A x \in -Count .. -1 : x % Count = x + Count
  BY CountAssumption
<1>3. QED
  BY <1>1, <1>2, CountAssumption

\* The next message's number.
LEMMA Successors == \A p \in 0 .. Count - 1 :
    (p + 1) % Count = IF p + 1 = Count THEN 0 ELSE p + 1
<1>1. Count % Count = 0
  BY CountAssumption
<1>2. \A x \in 0 .. Count - 1 : x % Count = x
  BY CountAssumption
<1>3. QED
  BY <1>1, <1>2, CountAssumption

\* How far the LED is behind the posts, without the modulus.
LEMMA BehindIs ==
    ASSUME TypeOK
    PROVE  LET x == posted - toggled - IF erased THEN 1 ELSE 0
           IN  Behind = IF x < 0 THEN x + Count ELSE x
  BY Differences DEF TypeOK, Behind

\* The same after a step.
LEMMA BehindIsNext ==
    ASSUME TypeOK'
    PROVE  LET x == posted' - toggled' - IF erased' THEN 1 ELSE 0
           IN  Behind' = IF x < 0 THEN x + Count ELSE x
  BY Differences DEF TypeOK, Behind

\* Both images begin in IInv.
LEMMA InitInv == Init => IInv
<1> SUFFICES ASSUME Init PROVE IInv
  OBVIOUS
<1>1. TypeOK /\ PhaseInv
  <2>1. 0 \in 0 .. Count - 1
    BY CountAssumption
  <2>2. CASE image = "bare"
    BY <2>1, <2>2 DEF Init, TypeOK, PhaseInv
  <2>3. CASE image = "hal"
    BY <2>1, <2>3 DEF Init, TypeOK, PhaseInv
  <2>4. QED
    BY <2>2, <2>3 DEF Init
<1>2. posted = 0 /\ toggled = 0 /\ erased = FALSE /\ occupied = FALSE /\ m0p = "off"
  BY DEF Init
<1>3. Behind = 0
  BY <1>2, CountAssumption DEF Behind
<1>4. NoneMerged
  BY <1>2, <1>3 DEF NoneMerged
<1>5. QED
  BY <1>1, <1>4 DEF IInv

\* No step leaves IInv.
LEMMA StepInv == IInv /\ [Next]_vars => IInv'
<1> SUFFICES ASSUME IInv, [Next]_vars PROVE IInv'
  OBVIOUS
<1> USE CountAssumption DEF IInv
<1>1. TypeOK' /\ PhaseInv'
  <2>1. CASE BootM0p
    BY <2>1 DEF BootM0p, TypeOK, PhaseInv
  <2>2. CASE WaitFree
    BY <2>2 DEF WaitFree, TypeOK, PhaseInv
  <2>3. CASE Post
    BY <2>3, Successors DEF Post, TypeOK, PhaseInv
  <2>4. CASE StartM0p
    BY <2>4 DEF StartM0p, TypeOK, PhaseInv
  <2>5. CASE InitIpcc
    BY <2>5 DEF InitIpcc, TypeOK, PhaseInv
  <2>6. CASE Poll
    BY <2>6 DEF Poll, TypeOK, PhaseInv
  <2>7. CASE Acknowledge
    BY <2>7 DEF Acknowledge, TypeOK, PhaseInv
  <2>8. CASE Toggle
    BY <2>8, Successors DEF Toggle, TypeOK, PhaseInv
  <2>9. CASE UNCHANGED vars
    BY <2>9 DEF vars, TypeOK, PhaseInv
  <2>10. QED
    BY <2>1, <2>2, <2>3, <2>4, <2>5, <2>6, <2>7, <2>8, <2>9
       DEF Next, M4Next, M0pNext
<1>2. NoneMerged'
  <2>1. CASE Post
    <3>1. Behind' = Behind + 1
      BY <1>1, <2>1, BehindIs, BehindIsNext, Successors DEF Post, TypeOK, PhaseInv, NoneMerged
    <3>2. QED
      BY <2>1, <3>1 DEF Post, PhaseInv, NoneMerged
  <2>2. CASE InitIpcc
    <3>1. Behind' = 0
      BY <1>1, <2>2, BehindIs, BehindIsNext DEF InitIpcc, TypeOK, PhaseInv, NoneMerged
    <3>2. QED
      BY <2>2, <3>1 DEF InitIpcc, NoneMerged
  <2>3. CASE Toggle
    <3>1. Behind' = Behind - 1
      BY <1>1, <2>3, BehindIs, BehindIsNext, Successors DEF Toggle, TypeOK, NoneMerged
    <3>2. QED
      BY <2>3, <3>1 DEF Toggle, NoneMerged
  <2>4. CASE BootM0p \/ WaitFree \/ StartM0p \/ Poll \/ Acknowledge \/ UNCHANGED vars
    BY <2>4 DEF BootM0p, WaitFree, StartM0p, Poll, Acknowledge, vars, NoneMerged, Behind, PhaseInv
  <2>5. QED
    BY <2>1, <2>2, <2>3, <2>4 DEF Next, M4Next, M0pNext
<1>3. QED
  BY <1>1, <1>2

\* IInv holds in every state of both images.
THEOREM Invariance == Spec => []IInv
  BY InitInv, StepInv, PTL DEF Spec

\* What is behind is in the channel or acknowledged and about to be shown: no message is
\* posted over another, none is shown twice, whatever the modulus of the counters.
THEOREM MessagesApart == Spec => []NoneMerged
<1>1. IInv => NoneMerged
  BY DEF IInv
<1>2. QED
  BY <1>1, Invariance, PTL

\* Both images implement the queue of two messages in front of the LED: Post is a Send, or
\* nothing while HAL_IPCC_Init is still to come, Toggle is a Show, the rest is invisible.
THEOREM QueueOfTwo == Spec => ImplementsQueue
<1>1. Init => Messages!Init
  <2> SUFFICES ASSUME Init PROVE Messages!Init
    OBVIOUS
  <2>1. Behind = 0
    BY InitInv DEF Init, IInv, NoneMerged
  <2>2. QED
    BY <2>1 DEF Init, Messages!Init
<1>2. IInv /\ [Next]_vars => [Messages!Next]_(Messages!vars)
  <2> SUFFICES ASSUME IInv, [Next]_vars PROVE [Messages!Next]_(Messages!vars)
    OBVIOUS
  <2>1. IInv'
    BY StepInv
  <2>2. Behind = Ahead /\ Behind' = Ahead'
    BY <2>1 DEF IInv, NoneMerged, Ahead
  <2> HIDE DEF Behind
  <2>3. CASE Post
    BY <2>2, <2>3 DEF Post, IInv, PhaseInv, Ahead, Messages!Next, Messages!Send, Messages!vars
  <2>4. CASE Toggle
    BY <2>2, <2>4 DEF Toggle, IInv, TypeOK, Ahead, Messages!Next, Messages!Show, Messages!vars
  <2>5. CASE BootM0p \/ WaitFree \/ StartM0p \/ InitIpcc \/ Poll \/ Acknowledge \/ UNCHANGED vars
    BY <2>2, <2>5 DEF BootM0p, WaitFree, StartM0p, InitIpcc, Poll, Acknowledge, vars, IInv,
                      PhaseInv, Ahead, Messages!vars
  <2>6. QED
    BY <2>3, <2>4, <2>5 DEF Next, M4Next, M0pNext
<1>3. QED
  BY <1>1, <1>2, Invariance, PTL DEF Spec, ImplementsQueue, Messages!Spec
=================================================================================
