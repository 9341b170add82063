------------------------------ MODULE SerialCounter ------------------------------
(****************************************************************************)
(* single_core/03_serial_counter: "i is 4", "i is 5", ... over the UART.  The *)
(* bare image makes the digits itself, last one first, in a buffer that just *)
(* holds the largest number; the HAL image has snprintf do it.               *)
(****************************************************************************)
EXTENDS Integers, Sequences

CONSTANTS Word,   \* 2^32
          Room    \* digits the buffer has room for (10)

VARIABLES i,       \* i
          step,    \* "count", "digits" or "send"
          value,   \* SendUint's argument, divided as it goes
          buf,     \* the digits made, buf[pos] first
          line     \* the digits of the line sent last

vars == <<i, step, value, buf, line>>

Init == i = 4 /\ step = "count" /\ value = 0 /\ buf = <<>> /\ line = <<3>>

\* Slip: while instead of do-while, which makes no digit of 0.
SendUintWhile == /\ step = "count"
                 /\ step' = IF i = 0 THEN "send" ELSE "digits"
                 /\ value' = i /\ buf' = <<>>
                 /\ UNCHANGED <<i, line>>
SendUint == /\ step = "count" /\ step' = "digits"
            /\ value' = i /\ buf' = <<>>
            /\ UNCHANGED <<i, line>>

MakeDigit == /\ step = "digits"
             /\ buf' = <<value % 10>> \o buf
             /\ value' = value \div 10
             /\ step' = IF value' = 0 THEN "send" ELSE "digits"
             /\ UNCHANGED <<i, line>>

\* SendString, the rest of the line, i++ and the delay.
SendLine == /\ step = "send" /\ step' = "count"
            /\ line' = buf
            /\ i' = (i + 1) % Word
            /\ UNCHANGED <<value, buf>>

Next == SendUint \/ MakeDigit \/ SendLine

----------------------------------------------------------------------------

\* What a reader makes of digits that follow those of n.
Continued(n, digits) ==
    LET upTo[k \in 0 .. Len(digits)] == IF k = 0 THEN n ELSE 10 * upTo[k - 1] + digits[k]
    IN  upTo[Len(digits)]
Number(digits) == Continued(0, digits)

\* The type invariant; the digits never reach below the buffer ("enough for 2^32-1").
TypeOK == /\ i \in 0 .. Word - 1 /\ value \in 0 .. Word - 1
          /\ step \in {"count", "digits", "send"}
          /\ {buf, line} \subseteq Seq(0 .. 9)
          /\ Len(buf) <= Room

\* A line shows the number whose turn it is, in decimal without a leading zero ("Print
\* 'i is 4', 'i is 5', ... forever"), on past the wrap of the counter.
NumberShown == /\ line # <<>> /\ (Number(line) + 1) % Word = i
               /\ Len(line) > 1 => Head(line) # 0
=================================================================================
