------------------------------- MODULE DualBlink --------------------------------
(****************************************************************************)
(* exercises/dual_core/00_dual_blink: the M4 boots the M0+, then each core   *)
(* configures its own LED pin on port B and blinks it.  "The only            *)
(* interaction is the one unavoidable bootstrap step"; both write MODER, and *)
(* the HAL images PUPDR.                                                     *)
(* An LED is lit when its pin is an output and its output bit is set.        *)
(****************************************************************************)
EXTENDS Sequences

M4 == "m4"
M0P == "m0p"
Core == {M4, M0P}
Led(c) == IF c = M4 THEN "PB15" ELSE "PB9"

VARIABLES gpio, read, todo,    \* see PinSetup
          running,             \* cores in main, the M4 past C2BOOT
          odr,                 \* output bit of each core's LED
          apart                \* the M4 had set up its pin when the M0+ started

pinVars == <<gpio, read, todo>>
vars == <<pinVars, running, odr, apart>>

Port == INSTANCE PinSetup

\* bare: `MODER &= ~MODEx_1; MODER |= MODEx_0`.  hal: HAL_GPIO_Init.
LedEdits(image, c) ==
    IF image = "bare"
    THEN <<Port!Modify("moder", {Led(c)}, {1}, {}), Port!Modify("moder", {Led(c)}, {}, {0})>>
    ELSE Port!HalInit(Led(c), Port!Output, Port!NoPull)

Init == /\ Port!PinInit
        /\ \E image \in {"bare", "hal"} : todo = [c \in Core |-> LedEdits(image, c)]
        /\ running = {}
        /\ odr = [c \in Core |-> FALSE]
        /\ apart = FALSE

\* C2BOOT is the M4's first statement.
BootM0p == /\ running = {}
           /\ running' = {M4}
           /\ UNCHANGED <<pinVars, odr, apart>>

\* External: CPU2 leaves reset, runs its reset handler and enters main.
StartM0p == /\ running = {M4}
            /\ running' = Core
            /\ apart' = Port!SetUp(M4)
            /\ UNCHANGED <<pinVars, odr>>

ConfigureLed(c) == /\ c \in running
                   /\ Port!ReadRegister(c) \/ Port!WriteRegister(c)
                   /\ UNCHANGED <<running, odr, apart>>

\* Slip: the LED is only ever switched on.
SwitchOn(c) == /\ c \in running /\ Port!SetUp(c)
               /\ odr' = [odr EXCEPT ![c] = TRUE]
               /\ UNCHANGED <<pinVars, running, apart>>

\* BSRR sets or resets one bit and leaves the others: no race on this write.
Blink(c) == /\ c \in running /\ Port!SetUp(c)
            /\ odr' = [odr EXCEPT ![c] = ~@]
            /\ UNCHANGED <<pinVars, running, apart>>

CoreNext(c) == ConfigureLed(c) \/ Blink(c)
Next == BootM0p \/ StartM0p \/ (\E c \in Core : CoreNext(c))

\* Both cores keep executing and C2BOOT does start the M0+.
Fairness == /\ WF_vars(BootM0p) /\ WF_vars(StartM0p)
            /\ \A c \in Core : WF_vars(CoreNext(c))

Spec == Init /\ [][Next]_vars
FairSpec == Spec /\ Fairness

----------------------------------------------------------------------------

\* The type invariant.
TypeOK == /\ Port!PinTypeOK
          /\ running \subseteq Core
          /\ odr \in [Core -> BOOLEAN]
          /\ apart \in BOOLEAN

\* The cores can undo each other's pin set-up, but never both: once both are
\* through, one LED at least is an output.
OneSurvives == (\A c \in Core : Port!SetUp(c)) =>
                   \E c \in Core : gpio["moder"][Led(c)] = Port!Output

Lit(c) == gpio["moder"][Led(c)] = Port!Output /\ odr[c]
Blinks(c) == []<>Lit(c) /\ []<>~Lit(c)

\* "Seeing two LEDs blink" (exercise.md): both do, if the M0+ starts after the M4
\* has set up its pin.
ApartBothBlink == <>apart => \A c \in Core : Blinks(c)
=================================================================================
