-------------------------- MODULE IpccSemaphore_proofs -------------------------
(****************************************************************************)
(* What the IPCC lock of 02_semaphores does guarantee, for lines of any      *)
(* length: no core begins three lines in a row against an idle other core.   *)
(****************************************************************************)
EXTENDS IpccSemaphore, TLAPS

\* The cores whose own flag is the one they test.
Turning == IF image = "bare" THEN Core ELSE {M4}

\* The core has begun no line that it has not released.
Idle == {"off", "acquire", "take"}

TypeInv == /\ TypeOK
           /\ \A c \in Core : pc[c] \in {"wait_txe", "write"} => sent[c] < Chars
           /\ image = "bare" => \A c \in Core : pc[c] \notin {"boot", "init"}
           /\ image = "hal" => (pc[M4] = "boot" <=> pc[M0P] = "off")
           /\ pc[M0P] # "boot" /\ pc[M4] # "off"
           /\ pc[M4] = "boot" => run[M4] = 0

\* A core that has begun one line goes on only when the other one has released,
\* and then waits, its flag set, until the other begins and releases again.
TurnInv == \A c \in Turning :
             /\ pc[c] = "take" => ~occupied[c]
             /\ run[c] <= 2
             /\ run[c] = 2 => occupied[c] /\ pc[Other(c)] \in Idle
             /\ run[c] = 1 /\ ~occupied[c] => pc[Other(c)] \in Idle

IInv == TypeInv /\ TurnInv

\* IInv holds in every state of both images.
THEOREM Invariance == Spec => []IInv
<1> USE CharsAssumption, MaxRunAssumption
    DEF IInv, TypeInv, TypeOK, TurnInv, Turning, Idle, Core, M4, M0P, Other, Sending, Goto
<1>1. Init => IInv
  <2>1. Init => TypeOK
    BY DEF Init
  <2>2. Init => TypeInv
    BY <2>1 DEF Init
  <2>3. Init => TurnInv
    BY DEF Init
  <2>4. QED
    BY <2>2, <2>3
<1>2. IInv /\ [Next]_vars => IInv'
  <2> SUFFICES ASSUME IInv, [Next]_vars PROVE IInv'
    OBVIOUS
  <2>1. CASE BootM0p
    BY <2>1 DEF BootM0p
  <2>2. CASE StartM0p
    BY <2>2 DEF StartM0p
  <2>3. CASE Shift
    BY <2>3 DEF Shift
  <2>4. ASSUME NEW c \in Core, InitIpcc(c) PROVE IInv'
    BY <2>4 DEF InitIpcc
  <2>5. ASSUME NEW c \in Core, SpinExit(c) PROVE IInv'
    BY <2>5 DEF SpinExit, Tested
  <2>6. ASSUME NEW c \in Core, Take(c) PROVE IInv'
    <3>1. TypeInv'
      BY <2>6 DEF Take
    <3>2. TurnInv'
      BY <2>6 DEF Take
    <3>3. QED
      BY <3>1, <3>2
  <2>7. ASSUME NEW c \in Core, WaitTxe(c) PROVE IInv'
    BY <2>7 DEF WaitTxe
  <2>8. ASSUME NEW c \in Core, Write(c) PROVE IInv'
    <3>1. sent[c] + 1 \in 0 .. Chars
      BY <2>8 DEF Write
    <3>2. TypeOK'
      <4>1. sent' \in [Core -> 0 .. Chars]
        BY <2>8, <3>1 DEF Write
      <4>2. pc' \in [Core -> {"off", "boot", "init", "acquire", "take"} \cup Sending]
        BY <2>8 DEF Write
      <4>3. QED
        BY <2>8, <4>1, <4>2 DEF Write
    <3>3. TypeInv'
      BY <2>8, <3>1, <3>2 DEF Write
    <3>4. TurnInv'
      BY <2>8 DEF Write
    <3>5. QED
      BY <3>3, <3>4
  <2>9. ASSUME NEW c \in Core, Release(c) PROVE IInv'
    BY <2>9 DEF Release
  <2>10. CASE UNCHANGED vars
    BY <2>10 DEF vars
  <2>11. QED
    BY <2>1, <2>2, <2>3, <2>4, <2>5, <2>6, <2>7, <2>8, <2>9, <2>10 DEF Next, CoreNext
<1>3. QED
  BY <1>1, <1>2, PTL DEF Spec

\* Under the bare lock no core begins three lines while the other begins none;
\* under the HAL lock the M4 does not either.
THEOREM Turns == Spec => []TakesTurns
<1>1. IInv => TakesTurns
  BY DEF IInv, TurnInv, Turning, TakesTurns, Core
<1>2. QED
  BY <1>1, Invariance, PTL

\* Every variable keeps its type: a core sends Chars characters and no more.
THEOREM TypeCorrect == Spec => []TypeOK
<1>1. IInv => TypeOK
  BY DEF IInv, TypeInv
<1>2. QED
  BY <1>1, Invariance, PTL

\* The safety half of BothPrint, for any lines: the bare cores never both wait for the
\* other's release, since the core that released last has cleared the other's flag.
NeverBothBarred ==
    image = "bare" => ~ \A c \in Core : pc[c] = "acquire" /\ occupied[Tested(c)]

\* Between lines one of the two flags is clear.
OpenInv == image = "bare" /\ (\A c \in Core : pc[c] \in Idle) => \E c \in Core : ~occupied[c]

\* A core's release opens the turnstile for the other, wherever that core is.
LEMMA OpenStep == IInv /\ OpenInv /\ [Next]_vars => OpenInv'
<1> SUFFICES ASSUME IInv, OpenInv, [Next]_vars PROVE OpenInv'
  OBVIOUS
<1> USE DEF IInv, TypeInv, TypeOK, OpenInv, Idle, Core, M4, M0P, Other, Sending, Goto
<1>1. CASE BootM0p
  BY <1>1 DEF BootM0p
<1>2. CASE StartM0p
  BY <1>2 DEF StartM0p
<1>3. CASE Shift \/ UNCHANGED vars
  BY <1>3 DEF Shift, vars
<1>4. ASSUME NEW c \in Core, InitIpcc(c) \/ SpinExit(c) PROVE OpenInv'
  BY <1>4 DEF InitIpcc, SpinExit
<1>5. ASSUME NEW c \in Core, Take(c) \/ WaitTxe(c) \/ Write(c) PROVE OpenInv'
  BY <1>5 DEF Take, WaitTxe, Write
<1>6. ASSUME NEW c \in Core, Release(c) PROVE OpenInv'
  BY <1>6 DEF Release
<1>7. QED
  BY <1>1, <1>2, <1>3, <1>4, <1>5, <1>6 DEF Next, CoreNext

\* Whatever the two bare programs have printed, one of them can take the lock.
THEOREM OneCanPrint == Spec => []NeverBothBarred
<1>1. Init => OpenInv
  BY DEF Init, OpenInv, Core
<1>2. OpenInv => NeverBothBarred
  BY DEF OpenInv, NeverBothBarred, Idle, Tested
<1>3. QED
  BY <1>1, <1>2, OpenStep, Invariance, PTL DEF Spec
================================================================================
