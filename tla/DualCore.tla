-------------------------------- MODULE DualCore --------------------------------
(****************************************************************************)
(* The board runs the exercise that was flashed last.  This module puts the  *)
(* three dual-core exercises with the smallest state, 00_dual_blink,         *)
(* 01_multi_core_mailboxes and 03_basic_shared_memory, side by side: Init    *)
(* chooses one, the variables of the others rest.  00 and 03 share PinSetup. *)
(****************************************************************************)
EXTENDS Mailbox

VARIABLES program,                    \* the exercise on the board
          gpio, read, todo, apart,    \* PinSetup, of 00 and 03
          running, odr,               \* 00
          flag, level, pc, prev, reg, v, line, pressed, parity, wiped  \* 03

Blink == INSTANCE DualBlink
Shared == INSTANCE SharedFlag

pinState == <<gpio, read, todo, apart>>
blinkState == <<running, odr>>
flagState == <<flag, level, pc, prev, reg, v, line, pressed, parity, wiped>>
dualVars == <<program, vars, pinState, blinkState, flagState>>

DualInit ==
    /\ program \in {"dual_blink", "mailboxes", "shared_memory"}
    /\ Init
    /\ \/ /\ program = "dual_blink"
          /\ Blink!Init
          /\ flag = 0 /\ level = 1 /\ pc = [c \in Blink!Core |-> "off"] /\ prev = 1 /\ reg = 0
          /\ v = 0 /\ line = 2 /\ pressed = FALSE /\ parity = 0 /\ wiped = 0
       \/ /\ program # "dual_blink"
          /\ Shared!Init
          /\ running = {} /\ odr = [c \in Blink!Core |-> FALSE]
          /\ program = "mailboxes" => flag = 0 /\ level = 1

InMailboxes(A) == /\ program = "mailboxes" /\ A
                  /\ UNCHANGED <<program, pinState, blinkState, flagState>>
InBlink(A) == /\ program = "dual_blink" /\ A
              /\ UNCHANGED <<program, vars, flagState>>
InShared(A) == /\ program = "shared_memory" /\ A
               /\ UNCHANGED <<program, vars, blinkState>>

DualNext == InMailboxes(Next) \/ InBlink(Blink!Next) \/ InShared(Shared!Next)

\* The fairness of the three modules.
DualFairness ==
    /\ WF_dualVars(InMailboxes(M4Next)) /\ WF_dualVars(InMailboxes(M0pNext))
    /\ WF_dualVars(InMailboxes(StartM0p))
    /\ WF_dualVars(InBlink(Blink!BootM0p)) /\ WF_dualVars(InBlink(Blink!StartM0p))
    /\ \A c \in Blink!Core : WF_dualVars(InBlink(Blink!CoreNext(c)))
    /\ WF_dualVars(InShared(Shared!StartM0p))
    /\ WF_dualVars(InShared(Shared!M4Next)) /\ WF_dualVars(InShared(Shared!M0pNext))

DualSpec == DualInit /\ [][DualNext]_dualVars /\ DualFairness

----------------------------------------------------------------------------
(* What the modules state of their exercise.                                *)

\* Every variable of the exercise on the board keeps its type.
DualTypeOK == /\ program = "mailboxes" => TypeOK
              /\ program = "dual_blink" => Blink!TypeOK
              /\ program = "shared_memory" => Shared!TypeOK

\* Both cores configure pins of one port by reading and writing back the whole
\* register (00: two LEDs; 03: button and UART).  When both are through, one of the
\* two set-ups at least is in force.
OneSurvives == /\ program = "dual_blink" => Blink!OneSurvives
               /\ program = "shared_memory" => Shared!OneSurvives

\* 01: the LED goes from one message to the next for ever.
MessagesShown == program = "mailboxes" => AllShown

\* 00: "seeing two LEDs blink" (exercise.md), if the M0+ starts after the M4 has set
\* up its pin.
ApartBothBlink == program = "dual_blink" => Blink!ApartBothBlink

\* 03: the flag counts the toggles; only those before the M0+'s clear can be undone.
TogglesCount == program = "shared_memory" => Shared!TogglesCount

\* 03: a press that lasts becomes a toggle.
HeldPressToggles == (program = "shared_memory" /\ Shared!HeldPress)
                        ~> (program = "shared_memory" /\ Shared!PressServed)

\* 03: the value the flag comes to rest at is printed.
RestsPrinted == program = "shared_memory" => Shared!RestsPrinted
=================================================================================
