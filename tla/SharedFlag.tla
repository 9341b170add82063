------------------------------- MODULE SharedFlag -------------------------------
(****************************************************************************)
(* exercises/dual_core/03_basic_shared_memory: the M4 toggles one word of    *)
(* SRAM2 at every press of B1 (PA0, low while pressed), the M0+ prints it.   *)
(* Both clear the word at start-up and both configure pins of port A: the M4 *)
(* the button with its pull-up, the M0+ the pins of LPUART1.                 *)
(*                                                                           *)
(* The M0+'s HAL image declares the word without `volatile`, and says that   *)
(* -O2 then hoists the load out of the loop.  But the word has external      *)
(* linkage and the loop calls HAL_UART_Transmit and HAL_Delay, which are     *)
(* compiled apart without -flto and may write the word for all the compiler  *)
(* knows: the load stays in the loop, as in the bare image, where the word   *)
(* is volatile.                                                              *)
(****************************************************************************)
EXTENDS Integers, Sequences

M4 == "m4"
M0P == "m0p"
Core == {M4, M0P}

VARIABLES gpio, read, todo,   \* see PinSetup
          image,     \* "bare" or "hal"
          flag,      \* SHARED_FLAG
          level,     \* of the wire at PA0, 0 while B1 is pressed
          pc,        \* where each core is
          prev, reg, \* M4: the last level sampled, the flag it has loaded
          v, line,   \* M0+: its snapshot, the value in the last line on the wire
          \* What the properties speak about:
          apart,     \* the M4 had set up PA0 when the M0+ started
          pressed,   \* B1 has gone down since the last toggle
          parity,    \* toggles made, modulo 2
          wiped      \* the M0+'s clear undid an odd number of toggles

pinVars == <<gpio, read, todo>>
m4Vars == <<prev, reg>>
m0pVars == <<v, line>>
history == <<apart, pressed, parity, wiped>>
vars == <<pinVars, image, flag, level, pc, m4Vars, m0pVars, history>>

Port == INSTANCE PinSetup

Goto(c, from, to) == pc[c] = from /\ pc' = [pc EXCEPT ![c] = to]

\* bare: the mode, then the pull cleared and set.
ButtonEdits(im) ==
    IF im = "bare"
    THEN <<Port!Modify("moder", {"PA0"}, {0, 1}, Port!Input),
           Port!Modify("pupdr", {"PA0"}, {0, 1}, {}),
           Port!Modify("pupdr", {"PA0"}, {}, Port!PullUp)>>
    ELSE Port!HalInit("PA0", Port!Input, Port!PullUp)

\* Slip: the pins are made outputs, not alternate functions.
UartEditsOutput(im) == <<Port!Modify("moder", {"PA2", "PA3"}, {0, 1}, Port!Output)>>
\* bare: the mode of both pins cleared, then set.  hal: HAL_GPIO_Init, pin by pin.
UartEdits(im) ==
    IF im = "bare"
    THEN <<Port!Modify("moder", {"PA2", "PA3"}, {0, 1}, {}),
           Port!Modify("moder", {"PA2", "PA3"}, {}, Port!Alternate)>>
    ELSE Port!HalInit("PA2", Port!Alternate, Port!NoPull)
             \o Port!HalInit("PA3", Port!Alternate, Port!NoPull)

Init == /\ Port!PinInit
        /\ image \in {"bare", "hal"}
        /\ todo = [c \in Core |-> IF c = M4 THEN ButtonEdits(image) ELSE UartEdits(image)]
        /\ flag \in {0, 1} /\ level \in {0, 1}
        /\ pc = [c \in Core |-> IF c = M4 THEN "clear" ELSE "off"]
        /\ prev = 1 /\ reg = 0 /\ v = 0 /\ line = 2
        /\ apart = FALSE /\ pressed = FALSE /\ parity = 0 /\ wiped = 0

\* External: a finger on B1.
PressOrRelease == /\ level' = 1 - level
                  /\ pressed' = (pressed \/ level = 1)
                  /\ UNCHANGED <<pinVars, image, flag, pc, m4Vars, m0pVars, apart, parity, wiped>>

\* External: CPU2 leaves reset, runs its reset handler and enters main.
StartM0p == /\ pc[M4] \notin {"clear", "boot"}
            /\ Goto(M0P, "off", "clear")
            /\ apart' = Port!SetUp(M4)
            /\ UNCHANGED <<pinVars, image, flag, level, m4Vars, m0pVars, pressed, parity, wiped>>

----------------------------------------------------------------------------
(* The M4.                                                                  *)

ClearFlag == /\ Goto(M4, "clear", "boot")
             /\ flag' = 0
             /\ UNCHANGED <<pinVars, image, level, m4Vars, m0pVars, history>>

BootM0p == /\ Goto(M4, "boot", "pins")
           /\ UNCHANGED <<pinVars, image, flag, level, m4Vars, m0pVars, history>>

\* What GPIOA->IDR can say of PA0: an analog pin reads 0, and without the pull-up the
\* wire floats unless B1 ties it to ground.
IDR == IF gpio["moder"]["PA0"] # Port!Input THEN {0}
       ELSE IF gpio["pupdr"]["PA0"] = Port!PullUp THEN {level} ELSE {0, level}

FirstSample == /\ Port!SetUp(M4)
               /\ Goto(M4, "pins", "poll")
               /\ prev' \in IDR
               /\ UNCHANGED <<pinVars, image, flag, level, reg, m0pVars, history>>

\* Slip: the release is taken for the press.
SampleRelease == /\ prev' \in IDR
                 /\ Goto(M4, "poll", IF prev = 0 /\ prev' = 1 THEN "load" ELSE "poll")
                 /\ UNCHANGED <<pinVars, image, flag, level, reg, m0pVars, history>>
\* `prev = level` follows the toggle; nobody else looks at prev.
Sample == /\ prev' \in IDR
          /\ Goto(M4, "poll", IF prev = 1 /\ prev' = 0 THEN "load" ELSE "poll")
          /\ UNCHANGED <<pinVars, image, flag, level, reg, m0pVars, history>>

LoadFlag == /\ Goto(M4, "load", "store")
            /\ reg' = flag
            /\ UNCHANGED <<pinVars, image, flag, level, prev, m0pVars, history>>

StoreFlag == /\ Goto(M4, "store", "poll")
             /\ flag' = 1 - reg
             /\ pressed' = FALSE
             /\ parity' = 1 - parity
             /\ UNCHANGED <<pinVars, image, level, m4Vars, m0pVars, apart, wiped>>

----------------------------------------------------------------------------
(* The M0+.                                                                 *)

ClearFlagM0p == /\ Goto(M0P, "clear", "pins")
                /\ flag' = 0
                /\ wiped' = IF pc[M4] = "store" THEN 0 ELSE flag
                /\ UNCHANGED <<pinVars, image, level, m4Vars, m0pVars, apart, pressed, parity>>

EnterLoop == /\ Port!SetUp(M0P)
             /\ Goto(M0P, "pins", "take")
             /\ UNCHANGED <<pinVars, image, flag, level, m4Vars, m0pVars, history>>

TakeFlag == /\ Goto(M0P, "take", "send")
            /\ v' = flag
            /\ UNCHANGED <<pinVars, image, flag, level, m4Vars, line, history>>

\* Slip: the M0+ clears the flag it has printed.
SendAndClear == /\ Goto(M0P, "send", "take")
                /\ flag' = 0
                /\ line' = IF gpio["moder"]["PA2"] = Port!Alternate THEN v ELSE line
                /\ UNCHANGED <<pinVars, image, level, m4Vars, v, history>>
\* Slip: the snapshot is taken once, before the loop.
SendHoisted == /\ Goto(M0P, "send", "send")
               /\ line' = IF gpio["moder"]["PA2"] = Port!Alternate THEN v ELSE line
               /\ UNCHANGED <<pinVars, image, flag, level, m4Vars, v, history>>
\* Without its pin the line goes nowhere.
SendLine == /\ Goto(M0P, "send", "take")
            /\ line' = IF gpio["moder"]["PA2"] = Port!Alternate THEN v ELSE line
            /\ UNCHANGED <<pinVars, image, flag, level, m4Vars, v, history>>

----------------------------------------------------------------------------

ConfigurePins(c) == /\ pc[c] = "pins"
                    /\ Port!ReadRegister(c) \/ Port!WriteRegister(c)
                    /\ UNCHANGED <<image, flag, level, pc, m4Vars, m0pVars, history>>

M4Next == \/ ClearFlag
          \/ BootM0p
          \/ ConfigurePins(M4)
          \/ FirstSample
          \/ Sample
          \/ LoadFlag
          \/ StoreFlag
M0pNext == \/ ClearFlagM0p
           \/ ConfigurePins(M0P)
           \/ EnterLoop
           \/ TakeFlag
           \/ SendLine
Next == PressOrRelease \/ StartM0p \/ M4Next \/ M0pNext

\* Both cores keep executing and C2BOOT does start the M0+.  Nobody need press B1.
Fairness == WF_vars(StartM0p) /\ WF_vars(M4Next) /\ WF_vars(M0pNext)

Spec == Init /\ [][Next]_vars
FairSpec == Spec /\ Fairness

----------------------------------------------------------------------------

\* The type invariant.
TypeOK == /\ Port!PinTypeOK
          /\ image \in {"bare", "hal"}
          /\ flag \in {0, 1} /\ level \in {0, 1} /\ prev \in {0, 1} /\ reg \in {0, 1}
          /\ pc \in [Core -> {"off", "clear", "boot", "pins", "poll", "load", "store",
                              "take", "send"}]
          /\ v \in {0, 1} /\ line \in {0, 1, 2}
          /\ apart \in BOOLEAN /\ pressed \in BOOLEAN
          /\ parity \in {0, 1} /\ wiped \in {0, 1}

\* However the two pin set-ups interleave, one of the two modes at least is in force:
\* PA0 is an input or the M0+ can be heard.  PUPDR is the M4's alone in the bare images,
\* which so keep the pull-up; in the HAL images it can be lost, even together with the
\* mode of PA2.
OneSurvives == (\A c \in Core : Port!SetUp(c)) =>
                   /\ \/ gpio["moder"]["PA0"] = Port!Input
                      \/ gpio["moder"]["PA2"] = Port!Alternate
                   /\ image = "bare" => gpio["pupdr"]["PA0"] = Port!PullUp

\* The toggle is a load and a store and the M0+ clears the flag at its own time,
\* yet the flag counts the toggles; only those before that clear can be undone.  And
\* every toggle is a press of its own, if the M4 had set up PA0 when the M0+ started.
TogglesCount == /\ pc[M4] \notin {"clear", "store"} => flag = (parity + wiped) % 2
                /\ apart /\ pc[M4] \in {"load", "store"} => pressed

\* A press that lasts is a toggle, and what the flag comes to rest at is printed.
HeldPress == apart /\ pc[M4] = "poll" /\ prev = 1 /\ level = 0
PressServed == level = 1 \/ pc[M4] = "store"
HeldPressToggles == HeldPress ~> PressServed
RestsPrinted == <>apart => \A b \in {0, 1} : <>[](flag = b) => <>[](line = b)

\* "The M0+ prints the boot value FOREVER no matter how many times the M4 toggles the
\* shared integer" (main_cm0p_hal.c, of its image without `volatile`): after the first
\* line no line says anything else, whatever B1 does to an M4 with its pin in order.
BootValueForever == [][image = "hal" /\ apart => line = 2]_line
=================================================================================
