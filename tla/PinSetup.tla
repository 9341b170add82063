-------------------------------- MODULE PinSetup --------------------------------
(****************************************************************************)
(* Pin configuration on a GPIO port that both cores configure at start-up:   *)
(* each core makes its edits of the mode register MODER and of the pull      *)
(* register PUPDR as a read of the whole register and a later write of the   *)
(* whole register.  The port's speed, output type and alternate function     *)
(* registers are left out: what is written there for a pin is its reset      *)
(* value, or only one of the cores writes the register.                      *)
(****************************************************************************)
EXTENDS Sequences

CONSTANT Core

\* The pins the two exercises configure: three of port A, or two of port B.
Pin == {"PA0", "PA2", "PA3", "PB9", "PB15"}
Reg == {"moder", "pupdr"}

VARIABLES gpio,   \* each register: the two bits of each pin, as the set of those that are 1
          read,   \* read[c]: what c has read and not yet written back, or <<>>
          todo    \* todo[c]: the edits c has yet to make, see Edit

\* Modes; Analog is the reset value.
Analog == {0, 1}
Output == {0}
Alternate == {1}
Input == {}
\* Pulls; NoPull is the reset value.
NoPull == {}
PullUp == {0}

\* `r &= ~clear; r |= set` on some pins of a register.
Edit == [reg : Reg, pins : SUBSET Pin, clear : SUBSET {0, 1}, set : SUBSET {0, 1}]
Modify(reg, pins, clear, set) == [reg |-> reg, pins |-> pins, clear |-> clear, set |-> set]
Apply(r, e) == [p \in Pin |-> IF p \in e.pins THEN (r[p] \ e.clear) \cup e.set ELSE r[p]]

\* External: HAL_GPIO_Init of one pin, the pull first and then the mode.
HalInit(pin, mode, pull) == <<Modify("pupdr", {pin}, {0, 1}, pull),
                              Modify("moder", {pin}, {0, 1}, mode)>>

PinInit == /\ gpio = [reg \in Reg |-> [p \in Pin |-> IF reg = "moder" THEN Analog ELSE NoPull]]
           /\ read = [c \in Core |-> <<>>]

SetUp(c) == todo[c] = <<>>

ReadRegister(c) == /\ ~SetUp(c) /\ read[c] = <<>>
                   /\ read' = [read EXCEPT ![c] = <<gpio[Head(todo[c]).reg]>>]
                   /\ UNCHANGED <<gpio, todo>>

WriteRegister(c) == /\ read[c] # <<>>
                    /\ gpio' = [gpio EXCEPT ![Head(todo[c]).reg] = Apply(read[c][1], Head(todo[c]))]
                    /\ read' = [read EXCEPT ![c] = <<>>]
                    /\ todo' = [todo EXCEPT ![c] = Tail(@)]

Register == [Pin -> SUBSET {0, 1}]
PinTypeOK == /\ gpio \in [Reg -> Register]
             /\ read \in [Core -> {<<>>} \cup {<<r>> : r \in Register}]
             /\ \A c \in Core : \A k \in DOMAIN todo[c] : todo[c][k] \in Edit
=================================================================================
