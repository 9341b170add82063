----------------------------- MODULE DualCore_proofs -----------------------------
(****************************************************************************)
(* Proofs about the dual-core exercises with small state: the pin set-ups of  *)
(* 00 and 03 race for two registers and one mode of the two survives, the     *)
(* flag of 03 counts the toggles, each toggle is a press, and 01 keeps among  *)
(* them what Mailbox_proofs proves.                                           *)
(****************************************************************************)
EXTENDS DualCore, Mailbox_proofs, SequenceTheorems

Core == {"m4", "m0p"}
Other(c) == IF c = "m4" THEN "m0p" ELSE "m4"
Pin == {"PA0", "PA2", "PA3", "PB9", "PB15"}
Reg == {"moder", "pupdr"}
Register == [Pin -> SUBSET {0, 1}]
Analog == {0, 1}
Edit == [reg : Reg, pins : SUBSET Pin, clear : SUBSET {0, 1}, set : SUBSET {0, 1}]
Modify(which, pins, clear, set) == [reg |-> which, pins |-> pins, clear |-> clear, set |-> set]
Apply(r, e) == [p \in Pin |-> IF p \in e.pins THEN (r[p] \ e.clear) \cup e.set ELSE r[p]]

OnBlink == program = "dual_blink"

\* The pin by which the properties know a core's set-up, and its mode in the end.
Own(c) == IF OnBlink THEN IF c = "m4" THEN "PB15" ELSE "PB9"
                     ELSE IF c = "m4" THEN "PA0" ELSE "PA2"
Goal(c) == IF OnBlink THEN {0} ELSE IF c = "m4" THEN {} ELSE {1}

\* The edits.  00: an LED, bare and HAL.
LedClear(c) == Modify("moder", {Own(c)}, {1}, {})
LedSet(c) == Modify("moder", {Own(c)}, {}, {0})
LedPull(c) == Modify("pupdr", {Own(c)}, {0, 1}, {})
LedMode(c) == Modify("moder", {Own(c)}, {0, 1}, {0})
\* 03: the button; its mode is the same edit in both images.
ButtonMode == Modify("moder", {"PA0"}, {0, 1}, {})
PullClear == Modify("pupdr", {"PA0"}, {0, 1}, {})
PullSet == Modify("pupdr", {"PA0"}, {}, {0})
ButtonPull == Modify("pupdr", {"PA0"}, {0, 1}, {0})
\* 03: the UART's pins.
UartClear == Modify("moder", {"PA2", "PA3"}, {0, 1}, {})
UartSet == Modify("moder", {"PA2", "PA3"}, {}, {1})
UartPull(p) == Modify("pupdr", {p}, {0, 1}, {})
UartMode(p) == Modify("moder", {p}, {0, 1}, {1})

\* The edits each image begins with, and what can be left of them.
Edits(im, c) == IF OnBlink THEN Blink!LedEdits(im, c)
                ELSE IF c = "m4" THEN Shared!ButtonEdits(im) ELSE Shared!UartEdits(im)
LedScript(c) == {<<LedClear(c), LedSet(c)>>, <<LedSet(c)>>,
                 <<LedPull(c), LedMode(c)>>, <<LedMode(c)>>, <<>>}
ButtonScript == {<<ButtonMode, PullClear, PullSet>>, <<PullClear, PullSet>>, <<PullSet>>,
                 <<ButtonPull, ButtonMode>>, <<ButtonMode>>, <<>>}
BareUart == {<<UartClear, UartSet>>, <<UartSet>>, <<>>}
UartScript == BareUart \cup
    {<<UartPull("PA2"), UartMode("PA2"), UartPull("PA3"), UartMode("PA3")>>,
     <<UartMode("PA2"), UartPull("PA3"), UartMode("PA3")>>,
     <<UartPull("PA3"), UartMode("PA3")>>, <<UartMode("PA3")>>}
Script(c) == IF OnBlink THEN LedScript(c) ELSE IF c = "m4" THEN ButtonScript ELSE UartScript

\* The core has not written the mode of its own pin; the bare M0+ of 03 has cleared it and
\* not set it; there are modes to write yet.
AtStart(c, s) ==
    s \in IF OnBlink THEN {<<LedClear(c), LedSet(c)>>, <<LedPull(c), LedMode(c)>>, <<LedMode(c)>>}
          ELSE IF c = "m4" THEN {<<ButtonMode, PullClear, PullSet>>, <<ButtonPull, ButtonMode>>,
                                 <<ButtonMode>>}
          ELSE {<<UartClear, UartSet>>,
                <<UartPull("PA2"), UartMode("PA2"), UartPull("PA3"), UartMode("PA3")>>,
                <<UartMode("PA2"), UartPull("PA3"), UartMode("PA3")>>}
Cleared(c, s) == ~OnBlink /\ c = "m0p" /\ s = <<UartSet>>
More(c, s) == s # <<>> /\ (~OnBlink /\ c = "m4" => AtStart(c, s))

\* The mode the own pin has by the edits made, if nobody interferes.
Expected(c, s) == IF AtStart(c, s) THEN Analog ELSE IF Cleared(c, s) THEN {} ELSE Goal(c)
Settled(c, s) == ~AtStart(c, s) /\ ~Cleared(c, s)

\* The pull PA0 has in 03 by the edits the M4 has made.
Pull(s) == IF s \in {<<>>, <<ButtonMode>>} THEN {0} ELSE {}

----------------------------------------------------------------------------

\* Head and tail of the sequences the scripts are.
LEMMA Short == /\ \A a : Head(<<a>>) = a /\ Tail(<<a>>) = <<>>
               /\ \A a, b : Head(<<a, b>>) = a /\ Tail(<<a, b>>) = <<b>>
               /\ \A a, b, d : Head(<<a, b, d>>) = a /\ Tail(<<a, b, d>>) = <<b, d>>
               /\ \A a, b, d, e : Head(<<a, b, d, e>>) = a /\ Tail(<<a, b, d, e>>) = <<b, d, e>>
<1>1. \A a : Head(<<a>>) = a /\ Tail(<<a>>) = <<>>
  OBVIOUS
<1>2. \A a, b : Head(<<a, b>>) = a /\ Tail(<<a, b>>) = <<b>>
  OBVIOUS
<1>3. \A a, b, d : Head(<<a, b, d>>) = a /\ Tail(<<a, b, d>>) = <<b, d>>
  OBVIOUS
<1>4. \A a, b, d, e : Head(<<a, b, d, e>>) = a /\ Tail(<<a, b, d, e>>) = <<b, d, e>>
  OBVIOUS
<1>5. QED
  BY <1>1, <1>2, <1>3, <1>4

\* Which of them differ.
LEMMA Differ == /\ \A a : <<a>> # <<>> /\ \A x : <<a>> = <<x>> => a = x
                /\ \A a, b : /\ <<a, b>> # <<>> /\ \A x : <<a, b>> # <<x>>
                             /\ \A x, y : <<a, b>> = <<x, y>> => a = x
                /\ \A a, b, d : /\ <<a, b, d>> # <<>> /\ \A x : <<a, b, d>> # <<x>>
                                /\ \A x, y : <<a, b, d>> # <<x, y>>
                /\ \A a, b, d, e : /\ <<a, b, d, e>> # <<>> /\ \A x : <<a, b, d, e>> # <<x>>
                                   /\ \A x, y : <<a, b, d, e>> # <<x, y>>
                                   /\ \A x, y, z : <<a, b, d, e>> # <<x, y, z>>
  OBVIOUS

\* Two calls of HAL_GPIO_Init make four edits.
LEMMA FourEdits ==
    ASSUME NEW a, NEW b, NEW d, NEW e
    PROVE  <<a, b>> \o <<d, e>> = <<a, b, d, e>>
<1> DEFINE S == {a, b, d, e}
<1>1. <<a, b>> \in Seq(S) /\ <<d, e>> \in Seq(S) /\ <<a, b, d, e>> \in Seq(S)
  OBVIOUS
<1>2. Len(<<a, b>>) = 2 /\ Len(<<d, e>>) = 2 /\ Len(<<a, b, d, e>>) = 4
  OBVIOUS
<1>3. <<a, b>> \o <<d, e>> \in Seq(S) /\ Len(<<a, b>> \o <<d, e>>) = 4
      /\ \A i \in 1 .. 4 : (<<a, b>> \o <<d, e>>)[i] = IF i <= 2 THEN <<a, b>>[i] ELSE <<d, e>>[i - 2]
  BY <1>1, <1>2, ConcatProperties
<1>4. \A i \in 1 .. 4 : (<<a, b>> \o <<d, e>>)[i] = <<a, b, d, e>>[i]
  BY <1>3
<1>5. QED
  BY <1>1, <1>2, <1>3, <1>4, SeqEqual

\* Every image begins at the start of its script, and only the HAL M0+ pulls pins.
LEMMA EditsBegin ==
    ASSUME NEW im \in {"bare", "hal"}, NEW c \in Core
    PROVE  /\ Edits(im, c) \in Script(c) /\ AtStart(c, Edits(im, c))
           /\ ~OnBlink => Pull(Edits(im, "m4")) = {} /\ Edits("bare", "m0p") \in BareUart
<1> USE DEF Modify, Blink!Port!Modify, Shared!Port!Modify
<1>1. CASE OnBlink
  <2>1. Own(c) = Blink!Led(c) /\ Edits(im, c) = Blink!LedEdits(im, c)
    BY <1>1 DEF Core, Own, Edits, Blink!Led, Blink!M4, Blink!M0P
  <2>2. Edits(im, c) = IF im = "bare" THEN <<LedClear(c), LedSet(c)>> ELSE <<LedPull(c), LedMode(c)>>
    BY <2>1 DEF Blink!LedEdits, Blink!Port!HalInit, Blink!Port!Output, Blink!Port!NoPull,
                LedClear, LedSet, LedPull, LedMode
  <2>3. QED
    BY <1>1, <2>2 DEF Script, LedScript, AtStart
<1>2. CASE ~OnBlink
  <2>1. \A i \in {"bare", "hal"} : Edits(i, "m4") =
            IF i = "bare" THEN <<ButtonMode, PullClear, PullSet>> ELSE <<ButtonPull, ButtonMode>>
    BY <1>2 DEF Edits, Shared!ButtonEdits, Shared!Port!HalInit, Shared!Port!Input, Shared!Port!PullUp,
                ButtonMode, PullClear, PullSet, ButtonPull
  <2>2. Edits("bare", "m0p") = <<UartClear, UartSet>>
    BY <1>2 DEF Edits, Shared!UartEdits, Shared!Port!Alternate, UartClear, UartSet
  <2>3. Edits("hal", "m0p") = <<UartPull("PA2"), UartMode("PA2")>> \o <<UartPull("PA3"), UartMode("PA3")>>
    BY <1>2 DEF Edits, Shared!UartEdits, Shared!Port!HalInit, Shared!Port!Alternate, Shared!Port!NoPull,
                UartPull, UartMode
  <2>4. Edits("hal", "m0p") = <<UartPull("PA2"), UartMode("PA2"), UartPull("PA3"), UartMode("PA3")>>
    BY <2>3, FourEdits
  <2>5. Edits("bare", "m0p") \in BareUart
    BY <2>2 DEF BareUart
  <2>6. Pull(Edits(im, "m4")) = {}
    BY <2>1, Differ DEF Pull
  <2>7. CASE c = "m4"
    BY <1>2, <2>1, <2>5, <2>6, <2>7 DEF Script, ButtonScript, AtStart
  <2>8. CASE c = "m0p"
    BY <1>2, <2>2, <2>4, <2>5, <2>6, <2>8 DEF Script, UartScript, BareUart, AtStart
  <2>9. QED
    BY <2>7, <2>8 DEF Core
<1>3. QED
  BY <1>1, <1>2

\* What the properties of the exercises rest on: an edit is of pins of the core's own; one
\* of modes takes its pin from the one expected mode to the next, and those that are settled
\* stay; one of pulls changes nothing about the modes.
EditDoes(c, s) ==
    LET e == Head(s)  t == Tail(s)
    IN  /\ t \in Script(c) /\ e \in Edit /\ Own(Other(c)) \notin e.pins
        /\ e.reg = "moder" =>
              /\ More(c, s) /\ ~AtStart(c, t) /\ (Settled(c, s) => Settled(c, t))
              /\ \A r \in Register : r[Own(c)] = Expected(c, s) => Apply(r, e)[Own(c)] = Expected(c, t)
        /\ e.reg = "pupdr" =>
              /\ AtStart(c, t) <=> AtStart(c, s)
              /\ Settled(c, t) <=> Settled(c, s)
              /\ More(c, t) => More(c, s)

\* The edits of 00.
LEMMA EditsDoBlink ==
    ASSUME OnBlink, NEW c \in Core, NEW s \in Script(c), s # <<>>
    PROVE  EditDoes(c, s)
<1> DEFINE first == LedClear(c)  second == LedSet(c)  pull == LedPull(c)  only == LedMode(c)
<1>1. Own(c) \in Pin /\ Own(Other(c)) # Own(c) /\ Goal(c) = {0} /\ \A t : ~Cleared(c, t)
  BY DEF Own, Other, Core, Pin, Goal, Cleared
<1>2. /\ first \in Edit /\ second \in Edit /\ pull \in Edit /\ only \in Edit
      /\ first.reg = "moder" /\ second.reg = "moder" /\ pull.reg = "pupdr" /\ only.reg = "moder"
  BY <1>1 DEF Edit, Reg, Modify, LedClear, LedSet, LedPull, LedMode
<1>3. second # only
  <2>1. 0 \in only.clear /\ 0 \notin second.clear
    BY DEF Modify, LedSet, LedMode
  <2>2. QED
    BY <2>1
<1>4. /\ \A r \in Register : r[Own(c)] = Analog => Apply(r, first)[Own(c)] = {0}
      /\ \A r \in Register : r[Own(c)] = {0} => Apply(r, second)[Own(c)] = {0}
      /\ \A r \in Register : Apply(r, only)[Own(c)] = {0}
  BY <1>1 DEF Apply, Analog, Register, Modify, LedClear, LedSet, LedMode
<1>5. \A e \in {first, second, pull, only} : Own(Other(c)) \notin e.pins
  BY <1>1 DEF Modify, LedClear, LedSet, LedPull, LedMode
<1>6. /\ \A t : AtStart(c, t) <=> t = <<first, second>> \/ t = <<pull, only>> \/ t = <<only>>
      /\ Script(c) = {<<first, second>>, <<second>>, <<pull, only>>, <<only>>, <<>>}
      /\ \A t : More(c, t) <=> t # <<>>
  BY DEF AtStart, Script, LedScript, More
<1> HIDE DEF first, second, pull, only
<1>7. /\ AtStart(c, <<first, second>>) /\ AtStart(c, <<pull, only>>) /\ AtStart(c, <<only>>)
      /\ ~AtStart(c, <<second>>) /\ ~AtStart(c, <<>>)
  BY <1>3, <1>6, Differ
<1>8. /\ Expected(c, <<first, second>>) = Analog /\ Expected(c, <<only>>) = Analog
      /\ Expected(c, <<second>>) = {0} /\ Expected(c, <<>>) = {0}
  BY <1>1, <1>7 DEF Expected
<1>9. CASE s = <<first, second>>
  <2>1. Head(s) = first /\ Tail(s) = <<second>>
    BY <1>9, Short
  <2>2. QED
    BY <1>1, <1>2, <1>4, <1>5, <1>6, <1>7, <1>8, <1>9, <2>1 DEF EditDoes, Settled
<1>10. CASE s = <<second>>
  <2>1. Head(s) = second /\ Tail(s) = <<>>
    BY <1>10, Short
  <2>2. QED
    BY <1>1, <1>2, <1>4, <1>5, <1>6, <1>7, <1>8, <1>10, <2>1 DEF EditDoes, Settled
<1>11. CASE s = <<pull, only>>
  <2>1. Head(s) = pull /\ Tail(s) = <<only>>
    BY <1>11, Short
  <2>2. QED
    BY <1>1, <1>2, <1>5, <1>6, <1>7, <1>11, <2>1 DEF EditDoes, Settled
<1>12. CASE s = <<only>>
  <2>1. Head(s) = only /\ Tail(s) = <<>>
    BY <1>12, Short
  <2>2. QED
    BY <1>1, <1>2, <1>4, <1>5, <1>6, <1>7, <1>8, <1>12, <2>1 DEF EditDoes, Settled
<1>13. QED
  BY <1>6, <1>9, <1>10, <1>11, <1>12

\* The edits of the M4 in 03.
LEMMA EditsDoButton ==
    ASSUME ~OnBlink, NEW s \in Script("m4"), s # <<>>
    PROVE  EditDoes("m4", s)
<1> DEFINE in == ButtonMode  off == PullClear  on == PullSet  pull == ButtonPull
<1>1. Own("m4") = "PA0" /\ Own(Other("m4")) = "PA2" /\ Goal("m4") = {} /\ \A t : ~Cleared("m4", t)
  BY DEF Own, Other, Goal, Cleared
<1>2. /\ in \in Edit /\ off \in Edit /\ on \in Edit /\ pull \in Edit
      /\ in.reg = "moder" /\ off.reg = "pupdr" /\ on.reg = "pupdr" /\ pull.reg = "pupdr"
      /\ \A e \in {in, off, on, pull} : "PA2" \notin e.pins
  BY DEF Edit, Pin, Reg, Modify, ButtonMode, PullClear, PullSet, ButtonPull
<1>3. off # pull
  <2>1. 0 \in pull.set /\ 0 \notin off.set
    BY DEF Modify, PullClear, ButtonPull
  <2>2. QED
    BY <2>1
<1>4. \A r \in Register : Apply(r, in)["PA0"] = {}
  BY DEF Apply, Register, Pin, Modify, ButtonMode
<1>5. /\ \A t : AtStart("m4", t) <=> t = <<in, off, on>> \/ t = <<pull, in>> \/ t = <<in>>
      /\ Script("m4") = {<<in, off, on>>, <<off, on>>, <<on>>, <<pull, in>>, <<in>>, <<>>}
      /\ \A t : More("m4", t) <=> t # <<>> /\ AtStart("m4", t)
  BY DEF AtStart, Script, ButtonScript, More
<1> HIDE DEF in, off, on, pull
<1>6. /\ AtStart("m4", <<in, off, on>>) /\ AtStart("m4", <<pull, in>>) /\ AtStart("m4", <<in>>)
      /\ ~AtStart("m4", <<off, on>>) /\ ~AtStart("m4", <<on>>) /\ ~AtStart("m4", <<>>)
  BY <1>2, <1>3, <1>5, Differ
<1>7. Expected("m4", <<off, on>>) = {} /\ Expected("m4", <<>>) = {}
  BY <1>1, <1>6 DEF Expected
<1>8. CASE s = <<in, off, on>>
  <2>1. Head(s) = in /\ Tail(s) = <<off, on>>
    BY <1>8, Short
  <2>2. QED
    BY <1>1, <1>2, <1>4, <1>5, <1>6, <1>7, <1>8, <2>1, Differ DEF EditDoes, Settled
<1>9. CASE s = <<off, on>>
  <2>1. Head(s) = off /\ Tail(s) = <<on>>
    BY <1>9, Short
  <2>2. QED
    BY <1>1, <1>2, <1>5, <1>6, <1>9, <2>1 DEF EditDoes, Settled
<1>10. CASE s = <<on>>
  <2>1. Head(s) = on /\ Tail(s) = <<>>
    BY <1>10, Short
  <2>2. QED
    BY <1>1, <1>2, <1>5, <1>6, <1>10, <2>1 DEF EditDoes, Settled
<1>11. CASE s = <<pull, in>>
  <2>1. Head(s) = pull /\ Tail(s) = <<in>>
    BY <1>11, Short
  <2>2. QED
    BY <1>1, <1>2, <1>5, <1>6, <1>11, <2>1, Differ DEF EditDoes, Settled
<1>12. CASE s = <<in>>
  <2>1. Head(s) = in /\ Tail(s) = <<>>
    BY <1>12, Short
  <2>2. QED
    BY <1>1, <1>2, <1>4, <1>5, <1>6, <1>7, <1>12, <2>1, Differ DEF EditDoes, Settled
<1>13. QED
  BY <1>5, <1>8, <1>9, <1>10, <1>11, <1>12

\* The edits of the M0+ in 03.
LEMMA EditsDoUart ==
    ASSUME ~OnBlink, NEW s \in Script("m0p"), s # <<>>
    PROVE  EditDoes("m0p", s)
<1> DEFINE clear == UartClear  set == UartSet
           txPull == UartPull("PA2")  tx == UartMode("PA2")
           rxPull == UartPull("PA3")  rx == UartMode("PA3")
<1>1. Own("m0p") = "PA2" /\ Own(Other("m0p")) = "PA0" /\ Goal("m0p") = {1}
  BY DEF Own, Other, Goal
<1>2. /\ clear \in Edit /\ set \in Edit /\ txPull \in Edit /\ tx \in Edit /\ rxPull \in Edit /\ rx \in Edit
      /\ clear.reg = "moder" /\ set.reg = "moder" /\ txPull.reg = "pupdr" /\ tx.reg = "moder"
      /\ rxPull.reg = "pupdr" /\ rx.reg = "moder"
      /\ \A e \in {clear, set, txPull, tx, rxPull, rx} : "PA0" \notin e.pins
  BY DEF Edit, Pin, Reg, Modify, UartClear, UartSet, UartPull, UartMode
<1>3. set # rx
  <2>1. 0 \in rx.clear /\ 0 \notin set.clear
    BY DEF Modify, UartSet, UartMode
  <2>2. QED
    BY <2>1
<1>4. rxPull # txPull
  <2>1. "PA2" \in txPull.pins /\ "PA2" \notin rxPull.pins
    BY DEF Modify, UartPull
  <2>2. QED
    BY <2>1
<1>5. /\ \A r \in Register : Apply(r, clear)["PA2"] = {}
      /\ \A r \in Register : r["PA2"] = {} => Apply(r, set)["PA2"] = {1}
      /\ \A r \in Register : Apply(r, tx)["PA2"] = {1}
      /\ \A r \in Register : Apply(r, rx)["PA2"] = r["PA2"]
  BY DEF Apply, Register, Pin, Modify, UartClear, UartSet, UartMode
<1>6. /\ \A t : AtStart("m0p", t) <=> \/ t = <<clear, set>> \/ t = <<txPull, tx, rxPull, rx>>
                                      \/ t = <<tx, rxPull, rx>>
      /\ \A t : Cleared("m0p", t) <=> t = <<set>>
      /\ Script("m0p") = {<<clear, set>>, <<set>>, <<>>, <<txPull, tx, rxPull, rx>>,
                          <<tx, rxPull, rx>>, <<rxPull, rx>>, <<rx>>}
      /\ \A t : More("m0p", t) <=> t # <<>>
  BY DEF AtStart, Cleared, Script, UartScript, BareUart, More
<1> HIDE DEF clear, set, txPull, tx, rxPull, rx
<1>7. /\ AtStart("m0p", <<clear, set>>) /\ AtStart("m0p", <<txPull, tx, rxPull, rx>>)
      /\ AtStart("m0p", <<tx, rxPull, rx>>)
      /\ ~AtStart("m0p", <<set>>) /\ ~AtStart("m0p", <<rx>>) /\ ~AtStart("m0p", <<>>)
  BY <1>6, Differ
<1>8. ~AtStart("m0p", <<rxPull, rx>>)
  BY <1>2, <1>6, Differ
<1>9. Cleared("m0p", <<set>>) /\ ~Cleared("m0p", <<rxPull, rx>>) /\ ~Cleared("m0p", <<rx>>)
      /\ ~Cleared("m0p", <<>>) /\ ~Cleared("m0p", <<txPull, tx, rxPull, rx>>)
      /\ ~Cleared("m0p", <<tx, rxPull, rx>>) /\ ~Cleared("m0p", <<clear, set>>)
  BY <1>3, <1>6, Differ
<1>10. /\ Expected("m0p", <<set>>) = {} /\ Expected("m0p", <<rxPull, rx>>) = {1}
       /\ Expected("m0p", <<rx>>) = {1} /\ Expected("m0p", <<>>) = {1}
  BY <1>1, <1>7, <1>8, <1>9 DEF Expected
<1>11. CASE s = <<clear, set>>
  <2>1. Head(s) = clear /\ Tail(s) = <<set>>
    BY <1>11, Short
  <2>2. QED
    BY <1>1, <1>2, <1>5, <1>6, <1>7, <1>9, <1>10, <1>11, <2>1 DEF EditDoes, Settled
<1>12. CASE s = <<set>>
  <2>1. Head(s) = set /\ Tail(s) = <<>>
    BY <1>12, Short
  <2>2. QED
    BY <1>1, <1>2, <1>5, <1>6, <1>7, <1>9, <1>10, <1>12, <2>1 DEF EditDoes, Settled
<1>13. CASE s = <<txPull, tx, rxPull, rx>>
  <2>1. Head(s) = txPull /\ Tail(s) = <<tx, rxPull, rx>>
    BY <1>13, Short
  <2>2. QED
    BY <1>1, <1>2, <1>6, <1>7, <1>9, <1>13, <2>1 DEF EditDoes, Settled
<1>14. CASE s = <<tx, rxPull, rx>>
  <2>1. Head(s) = tx /\ Tail(s) = <<rxPull, rx>>
    BY <1>14, Short
  <2>2. QED
    BY <1>1, <1>2, <1>5, <1>6, <1>7, <1>8, <1>9, <1>10, <1>14, <2>1 DEF EditDoes, Settled
<1>15. CASE s = <<rxPull, rx>>
  <2>1. Head(s) = rxPull /\ Tail(s) = <<rx>>
    BY <1>15, Short
  <2>2. QED
    BY <1>1, <1>2, <1>6, <1>7, <1>8, <1>9, <1>15, <2>1 DEF EditDoes, Settled
<1>16. CASE s = <<rx>>
  <2>1. Head(s) = rx /\ Tail(s) = <<>>
    BY <1>16, Short
  <2>2. QED
    BY <1>1, <1>2, <1>5, <1>6, <1>7, <1>9, <1>10, <1>16, <2>1 DEF EditDoes, Settled
<1>17. QED
  BY <1>6, <1>11, <1>12, <1>13, <1>14, <1>15, <1>16

\* Every edit of every script does what EditDoes says.
LEMMA EditsDo ==
    ASSUME NEW c \in Core, NEW s \in Script(c), s # <<>>
    PROVE  EditDoes(c, s)
  BY EditsDoBlink, EditsDoButton, EditsDoUart DEF Core

\* The pull of PA0 is the M4's affair: its edits take it from the expected one to the next,
\* and the bare M0+ makes no edits of pulls.
LEMMA PullEdits ==
    ASSUME ~OnBlink
    PROVE  /\ \A s \in Script("m4") \ {<<>>} :
                 /\ Head(s).reg = "moder" => Pull(Tail(s)) = Pull(s)
                 /\ Head(s).reg = "pupdr" =>
                       \A r \in Register : r["PA0"] = Pull(s) => Apply(r, Head(s))["PA0"] = Pull(Tail(s))
           /\ \A s \in BareUart \ {<<>>} : Head(s).reg = "moder" /\ Tail(s) \in BareUart
<1> DEFINE in == ButtonMode  off == PullClear  on == PullSet  pull == ButtonPull
<1>1. /\ \A r \in Register : Apply(r, off)["PA0"] = {} /\ Apply(r, pull)["PA0"] = {0}
      /\ \A r \in Register : r["PA0"] = {} => Apply(r, on)["PA0"] = {0}
  BY DEF Apply, Register, Pin, Modify, PullClear, PullSet, ButtonPull
<1>2. /\ in.reg = "moder" /\ off.reg = "pupdr" /\ on.reg = "pupdr" /\ pull.reg = "pupdr"
      /\ UartClear.reg = "moder" /\ UartSet.reg = "moder"
  BY DEF Modify, ButtonMode, PullClear, PullSet, ButtonPull, UartClear, UartSet
<1>3. /\ Script("m4") = {<<in, off, on>>, <<off, on>>, <<on>>, <<pull, in>>, <<in>>, <<>>}
      /\ \A s : Pull(s) = IF s = <<>> \/ s = <<in>> THEN {0} ELSE {}
  BY DEF Script, ButtonScript, Pull
<1>4. ASSUME NEW s \in BareUart \ {<<>>}
      PROVE  Head(s).reg = "moder" /\ Tail(s) \in BareUart
  <2>1. CASE s = <<UartClear, UartSet>>
    <3>1. Head(s) = UartClear /\ Tail(s) = <<UartSet>>
      BY <2>1, Short
    <3>2. QED
      BY <1>2, <3>1 DEF BareUart
  <2>2. CASE s = <<UartSet>>
    <3>1. Head(s) = UartSet /\ Tail(s) = <<>>
      BY <2>2, Short
    <3>2. QED
      BY <1>2, <3>1 DEF BareUart
  <2>3. QED
    BY <2>1, <2>2 DEF BareUart
<1> HIDE DEF in, off, on, pull
<1>5. /\ Pull(<<in, off, on>>) = {} /\ Pull(<<off, on>>) = {} /\ Pull(<<on>>) = {}
      /\ Pull(<<pull, in>>) = {} /\ Pull(<<in>>) = {0} /\ Pull(<<>>) = {0}
  <2>1. \A s : s # <<>> /\ s # <<in>> => Pull(s) = {}
    BY <1>3
  <2>2. Pull(<<in, off, on>>) = {} /\ Pull(<<off, on>>) = {} /\ Pull(<<pull, in>>) = {}
    BY <2>1, Differ
  <2>3. Pull(<<on>>) = {}
    BY <1>2, <2>1, Differ
  <2>4. Pull(<<in>>) = {0} /\ Pull(<<>>) = {0}
    BY <1>3
  <2>5. QED
    BY <2>2, <2>3, <2>4
<1>6. ASSUME NEW s \in Script("m4") \ {<<>>}
      PROVE  /\ Head(s).reg = "moder" => Pull(Tail(s)) = Pull(s)
             /\ Head(s).reg = "pupdr" =>
                   \A r \in Register : r["PA0"] = Pull(s) => Apply(r, Head(s))["PA0"] = Pull(Tail(s))
  <2>1. CASE s = <<in, off, on>>
    <3>1. Head(s) = in /\ Tail(s) = <<off, on>>
      BY <2>1, Short
    <3>2. QED
      BY <1>2, <1>5, <2>1, <3>1
  <2>2. CASE s = <<off, on>>
    <3>1. Head(s) = off /\ Tail(s) = <<on>>
      BY <2>2, Short
    <3>2. QED
      BY <1>1, <1>2, <1>5, <2>2, <3>1
  <2>3. CASE s = <<on>>
    <3>1. Head(s) = on /\ Tail(s) = <<>>
      BY <2>3, Short
    <3>2. QED
      BY <1>1, <1>2, <1>5, <2>3, <3>1
  <2>4. CASE s = <<pull, in>>
    <3>1. Head(s) = pull /\ Tail(s) = <<in>>
      BY <2>4, Short
    <3>2. QED
      BY <1>1, <1>2, <1>5, <2>4, <3>1
  <2>5. CASE s = <<in>>
    <3>1. Head(s) = in /\ Tail(s) = <<>>
      BY <2>5, Short
    <3>2. QED
      BY <1>2, <1>5, <2>5, <3>1
  <2>6. QED
    BY <1>3, <2>1, <2>2, <2>3, <2>4, <2>5
<1>7. QED
  BY <1>4, <1>6

\* The scripts end with every edit made.
LEMMA EndReached == \A c \in Core : Expected(c, <<>>) = Goal(c)
  BY Differ DEF Expected, AtStart, Cleared, Core

\* A script is made of edits.
LEMMA ScriptEdits ==
    ASSUME NEW c \in Core, NEW s \in Script(c)
    PROVE  \A k \in DOMAIN s : s[k] \in Edit
<1> DEFINE P(q) == \A k \in DOMAIN q : q[k] \in Edit
<1>1. P(<<>>)
  OBVIOUS
<1>2. \A a \in Edit : P(<<a>>)
  OBVIOUS
<1>3. \A a, b \in Edit : P(<<a, b>>)
  OBVIOUS
<1>4. \A a, b, d \in Edit : P(<<a, b, d>>)
  OBVIOUS
<1>5. \A a, b, d, e \in Edit : P(<<a, b, d, e>>)
  OBVIOUS
<1> HIDE DEF P
<1>6. CASE OnBlink
  <2>1. Own(c) \in Pin
    BY DEF Own, Pin
  <2>2. LedClear(c) \in Edit /\ LedSet(c) \in Edit /\ LedPull(c) \in Edit /\ LedMode(c) \in Edit
    BY <2>1 DEF Edit, Reg, Modify, LedClear, LedSet, LedPull, LedMode
  <2>3. P(s)
    BY <1>1, <1>2, <1>3, <1>6, <2>2 DEF Script, LedScript
  <2>4. QED
    BY <2>3 DEF P
<1>7. CASE ~OnBlink /\ c = "m4"
  <2>1. ButtonMode \in Edit /\ PullClear \in Edit /\ PullSet \in Edit /\ ButtonPull \in Edit
    BY DEF Edit, Pin, Reg, Modify, ButtonMode, PullClear, PullSet, ButtonPull
  <2>2. P(s)
    BY <1>1, <1>2, <1>3, <1>4, <1>7, <2>1 DEF Script, ButtonScript
  <2>3. QED
    BY <2>2 DEF P
<1>8. CASE ~OnBlink /\ c = "m0p"
  <2>1. /\ UartClear \in Edit /\ UartSet \in Edit
        /\ \A p \in {"PA2", "PA3"} : UartPull(p) \in Edit /\ UartMode(p) \in Edit
    BY DEF Edit, Pin, Reg, Modify, UartClear, UartSet, UartPull, UartMode
  <2>2. P(s)
    BY <1>1, <1>2, <1>3, <1>4, <1>5, <1>8, <2>1 DEF Script, UartScript, BareUart
  <2>3. QED
    BY <2>2 DEF P
<1>9. QED
  BY <1>6, <1>7, <1>8 DEF Core

----------------------------------------------------------------------------
(* The race for the registers.                                              *)

Bad(c) == gpio["moder"][Own(c)] # Expected(c, todo[c])
View(x) == read[x][1]
BadView(c, x) == /\ read[x] # <<>> /\ Head(todo[x]).reg = "moder"
                 /\ View(x)[Own(c)] # Expected(c, todo[c])

ScriptInv ==
    /\ gpio \in [Reg -> Register]
    /\ read \in [Core -> {<<>>} \cup {<<r>> : r \in Register}]
    /\ todo = [c \in Core |-> todo[c]]
    /\ \A c \in Core : todo[c] \in Script(c) /\ (read[c] # <<>> => todo[c] # <<>>)

\* Nobody spoils the mode of a pin whose core has not begun.  Of two modes one is in order,
\* and who has modes to write while its own is spoilt, or has read it so, finds the other
\* core settled.
RaceInv ==
    /\ \A c \in Core : AtStart(c, todo[c]) => ~Bad(c) /\ \A x \in Core : ~BadView(c, x)
    /\ \A c \in Core : Bad(c) => /\ ~Bad(Other(c))
                                 /\ More(c, todo[c]) => Settled(Other(c), todo[Other(c)])
    /\ \A c \in Core : BadView(c, c) => /\ ~BadView(Other(c), c)
                                        /\ Settled(Other(c), todo[Other(c)])

Started == IF OnBlink THEN "m0p" \in running ELSE pc["m0p"] # "off"

\* If the M0+ starts late, no pin is ever spoilt.
ApartInv ==
    /\ ~Started => AtStart("m0p", todo["m0p"]) /\ read["m0p"] = <<>> /\ ~apart
    /\ apart => todo["m4"] = <<>>
    /\ apart \/ ~Started => \A c \in Core : ~Bad(c) /\ \A x \in Core : ~BadView(c, x)

PinsInv == ScriptInv /\ RaceInv /\ ApartInv

ReadStep(c) == /\ todo[c] # <<>> /\ read[c] = <<>>
               /\ read' = [read EXCEPT ![c] = <<gpio[Head(todo[c]).reg]>>]
               /\ UNCHANGED <<gpio, todo>>
WriteStep(c) == /\ read[c] # <<>>
                /\ gpio' = [gpio EXCEPT ![Head(todo[c]).reg] = Apply(read[c][1], Head(todo[c]))]
                /\ read' = [read EXCEPT ![c] = <<>>]
                /\ todo' = [todo EXCEPT ![c] = Tail(todo[c])]

\* Each core has one other.
LEMMA Cores == \A c \in Core : /\ Other(c) \in Core /\ Other(c) # c /\ Other(Other(c)) = c
                               /\ \A x \in Core : x = c \/ x = Other(c)
  BY DEF Core, Other

\* The board runs one program only.
LEMMA SameProgram ==
    ASSUME UNCHANGED program
    PROVE  /\ \A c : Own(c)' = Own(c) /\ Script(c)' = Script(c)
           /\ \A c, s : /\ AtStart(c, s)' <=> AtStart(c, s)
                        /\ Settled(c, s)' <=> Settled(c, s)
                        /\ More(c, s)' <=> More(c, s)
                        /\ Expected(c, s)' = Expected(c, s)
<1>1. (OnBlink' <=> OnBlink) /\ \A c : Own(c)' = Own(c) /\ Goal(c)' = Goal(c)
  BY DEF OnBlink, Own, Goal
<1>2. \A c : /\ LedClear(c)' = LedClear(c) /\ LedSet(c)' = LedSet(c)
             /\ LedPull(c)' = LedPull(c) /\ LedMode(c)' = LedMode(c)
  BY <1>1 DEF LedClear, LedSet, LedPull, LedMode, Modify
<1>3. \A c : Script(c)' = Script(c)
  BY <1>1, <1>2 DEF Script, LedScript, ButtonScript, UartScript, BareUart, Modify, ButtonMode, PullClear,
                    PullSet, ButtonPull, UartClear, UartSet, UartPull, UartMode
<1>4. \A c, s : (AtStart(c, s)' <=> AtStart(c, s)) /\ (Cleared(c, s)' <=> Cleared(c, s))
  BY <1>1, <1>2 DEF AtStart, Cleared, Modify, ButtonMode, PullClear,
                    PullSet, ButtonPull, UartClear, UartSet, UartPull, UartMode
<1>5. QED
  BY <1>1, <1>3, <1>4 DEF Settled, More, Expected

\* What is left of the script of a settled core no longer matters to its pin.
LEMMA SettledStays ==
    ASSUME NEW c, NEW s, NEW t, Settled(c, s), Settled(c, t)
    PROVE  Expected(c, s) = Expected(c, t)
  BY DEF Settled, Expected

\* A core that has written a mode finds the other either at its start, or with no more modes
\* to write, or is through with its own pin.
LEMMA OtherUnderWay ==
    ASSUME NEW c \in Core, NEW s \in Script(c), ~AtStart(c, s),
           NEW z \in Script(Other(c)), More(Other(c), z), ~AtStart(Other(c), z)
    PROVE  Settled(c, s)
<1>1. CASE OnBlink
  BY <1>1 DEF Settled, Cleared
<1>2. CASE ~OnBlink /\ c = "m4"
  BY <1>2 DEF Settled, Cleared
<1>3. CASE ~OnBlink /\ c = "m0p"
  BY <1>3 DEF Other, More
<1>4. QED
  BY <1>1, <1>2, <1>3 DEF Core

\* A core that reads the modes has read the other's pin as it is, spoilt or not.
LEMMA ReadKeeps ==
    ASSUME ScriptInv, RaceInv, NEW c \in Core, ReadStep(c), UNCHANGED program
    PROVE  ScriptInv' /\ RaceInv' /\ \A x, y \in Core :
               /\ Bad(x)' <=> Bad(x)
               /\ BadView(x, y)' => Bad(x) \/ BadView(x, y)
<1> DEFINE which == Head(todo[c]).reg
<1>1. /\ todo[c] # <<>> /\ gpio' = gpio /\ todo' = todo
      /\ read' = [read EXCEPT ![c] = <<gpio[which]>>]
      /\ read'[c] = <<gpio[which]>> /\ \A y \in Core : y # c => read'[y] = read[y]
  BY DEF ReadStep, ScriptInv
<1>2. /\ which \in Reg /\ (which = "moder" => More(c, todo[c]))
  <2>1. EditDoes(c, todo[c])
    BY <1>1, EditsDo DEF ScriptInv
  <2>2. QED
    BY <2>1 DEF EditDoes, Edit
<1> HIDE DEF which
<1>3. ScriptInv'
  <2>1. gpio[which] \in Register
    BY <1>2 DEF ScriptInv
  <2>2. gpio' \in [Reg -> Register] /\ read' \in [Core -> {<<>>} \cup {<<r>> : r \in Register}]
    BY <1>1, <2>1 DEF ScriptInv, Register, Pin
  <2>3. \A x \in Core : todo'[x] \in Script(x)' /\ (read'[x] # <<>> => todo'[x] # <<>>)
    BY <1>1, SameProgram DEF ScriptInv
  <2>4. QED
    BY <1>1, <2>2, <2>3 DEF ScriptInv, Register, Pin, Reg
<1>4. \A x \in Core : Bad(x)' <=> Bad(x)
  BY <1>1, SameProgram DEF Bad
<1>5. \A x \in Core : BadView(x, c)' <=> which = "moder" /\ Bad(x)
  <2>1. View(c)' = gpio[which] /\ read'[c] # <<>>
    BY <1>1 DEF View
  <2>2. QED
    BY <1>1, <2>1, SameProgram DEF BadView, Bad, which
<1>6. \A x, y \in Core : y # c => (BadView(x, y)' <=> BadView(x, y))
  BY <1>1, SameProgram DEF BadView, View
<1>7. \A x \in Core : /\ AtStart(x, todo[x])' <=> AtStart(x, todo[x])
                      /\ Settled(x, todo[x])' <=> Settled(x, todo[x])
                      /\ More(x, todo[x])' <=> More(x, todo[x])
  BY <1>1, SameProgram
<1>8. RaceInv'
  <2>1. \A x \in Core : AtStart(x, todo[x])' => ~Bad(x)' /\ \A y \in Core : ~BadView(x, y)'
    BY <1>4, <1>5, <1>6, <1>7 DEF RaceInv
  <2>2. \A x \in Core : Bad(x)' => /\ ~Bad(Other(x))'
                                   /\ More(x, todo[x])' => Settled(Other(x), todo[Other(x)])'
    BY <1>4, <1>7, Cores DEF RaceInv
  <2>3. \A x \in Core : BadView(x, x)' => /\ ~BadView(Other(x), x)'
                                          /\ Settled(Other(x), todo[Other(x)])'
    BY <1>2, <1>5, <1>6, <1>7, Cores DEF RaceInv
  <2>4. QED
    BY <2>1, <2>2, <2>3, Cores DEF RaceInv
<1>9. QED
  BY <1>3, <1>4, <1>5, <1>6, <1>8

\* What a write does to the scripts and the types of the registers.
LEMMA WriteTypes ==
    ASSUME ScriptInv, NEW c \in Core, WriteStep(c), UNCHANGED program
    PROVE  ScriptInv'
<1>1. /\ todo[c] \in Script(c) /\ todo[c] # <<>> /\ read[c] # <<>> /\ EditDoes(c, todo[c])
      /\ View(c) \in Register
  BY EditsDo DEF WriteStep, ScriptInv, View
<1>2. Head(todo[c]) \in Edit /\ Tail(todo[c]) \in Script(c)
  BY <1>1 DEF EditDoes
<1>3. Apply(View(c), Head(todo[c])) \in Register /\ Head(todo[c]).reg \in Reg
  BY <1>1, <1>2 DEF Apply, Register, Edit
<1>4. gpio' \in [Reg -> Register]
  BY <1>3 DEF WriteStep, ScriptInv, View
<1>5. read' \in [Core -> {<<>>} \cup {<<q>> : q \in Register}]
  BY DEF WriteStep, ScriptInv
<1>6. todo' = [x \in Core |-> todo'[x]]
  BY DEF WriteStep, ScriptInv
<1>7. \A x \in Core : todo'[x] \in Script(x)' /\ (read'[x] # <<>> => todo'[x] # <<>>)
  <2>1. /\ todo'[c] = Tail(todo[c]) /\ read'[c] = <<>>
        /\ \A x \in Core : x # c => todo'[x] = todo[x] /\ read'[x] = read[x]
    BY DEF WriteStep, ScriptInv
  <2>2. QED
    BY <1>2, <2>1, SameProgram DEF ScriptInv
<1>8. QED
  BY <1>4, <1>5, <1>6, <1>7 DEF ScriptInv, Register, Pin, Reg

\* A core that writes the modes back puts the other's pin as it had read it.
LEMMA ModeKeeps ==
    ASSUME ScriptInv, RaceInv, NEW c \in Core, WriteStep(c), UNCHANGED program,
           Head(todo[c]).reg = "moder"
    PROVE  /\ RaceInv'
           /\ Bad(c)' => BadView(c, c)
           /\ Bad(Other(c))' <=> BadView(Other(c), c)
           /\ \A x \in Core : ~BadView(x, c)' /\ (read[Other(c)] = <<>> => ~BadView(x, Other(c))')
           /\ BadView(Other(c), Other(c))' <=> BadView(Other(c), Other(c))
<1> DEFINE o == Other(c)
           s == todo[c]
           t == Tail(todo[c])
           r == View(c)
<1>1. /\ o \in Core /\ o # c /\ c = Other(o) /\ \A x \in Core : x = c \/ x = o
  BY Cores
<1>2. /\ s \in Script(c) /\ s # <<>> /\ r \in Register /\ read[c] # <<>> /\ EditDoes(c, s)
  BY EditsDo DEF WriteStep, ScriptInv, View
<1>3. /\ gpio'["moder"] = Apply(r, Head(s)) /\ read' = [read EXCEPT ![c] = <<>>]
      /\ todo' = [todo EXCEPT ![c] = t] /\ Head(s).reg = "moder"
  BY DEF WriteStep, View, ScriptInv, Reg
<1> HIDE DEF o, s, t, r
<1>4. /\ todo'[c] = t /\ todo'[o] = todo[o] /\ read'[c] = <<>> /\ read'[o] = read[o]
  BY <1>1, <1>3 DEF ScriptInv
<1>5. /\ t \in Script(c) /\ ~AtStart(c, t) /\ Head(s) \in Edit /\ Own(o) \notin Head(s).pins
      /\ r[Own(c)] = Expected(c, s) => gpio'["moder"][Own(c)] = Expected(c, t)
      /\ Settled(c, s) => Settled(c, t)
  BY <1>2, <1>3 DEF EditDoes, o, s, t
<1>6. Own(o) \in Pin /\ gpio'["moder"][Own(o)] = r[Own(o)]
  <2>1. Own(o) \in Pin
    BY DEF Own, Pin
  <2>2. QED
    BY <1>3, <1>5, <2>1 DEF Apply
<1>7. Bad(c)' => BadView(c, c)
  BY <1>2, <1>3, <1>4, <1>5, SameProgram DEF Bad, BadView, r, s
<1>8. Bad(o)' <=> BadView(o, c)
  BY <1>2, <1>3, <1>4, <1>6, SameProgram DEF Bad, BadView, r, s
<1>9. \A x \in Core : ~BadView(x, c)' /\ (read[o] = <<>> => ~BadView(x, o)')
  BY <1>4 DEF BadView
<1>10. BadView(o, o)' <=> BadView(o, o)
  BY <1>4, SameProgram DEF BadView, View
<1>11. /\ ~AtStart(c, todo[c])' /\ (AtStart(o, todo[o])' <=> AtStart(o, todo[o]))
       /\ Settled(o, todo[o])' <=> Settled(o, todo[o])
       /\ More(o, todo[o])' <=> More(o, todo[o])
       /\ Settled(c, todo[c])' <=> Settled(c, t)
  BY <1>4, <1>5, SameProgram
<1>12. BadView(o, c) /\ More(o, todo[o]) => Settled(c, t)
  <2> SUFFICES ASSUME BadView(o, c), More(o, todo[o]) PROVE Settled(c, t)
    OBVIOUS
  <2>1. ~AtStart(o, todo[o]) /\ todo[o] \in Script(o)
    BY <1>1 DEF RaceInv, ScriptInv
  <2>2. QED
    BY <1>5, <2>1, OtherUnderWay DEF o
<1>13. BadView(o, o) => ~BadView(c, o)' /\ Settled(c, t)
  <2> SUFFICES ASSUME BadView(o, o) PROVE ~BadView(c, o)' /\ Settled(c, t)
    OBVIOUS
  <2>1. Settled(c, s) /\ ~BadView(c, o)
    BY <1>1 DEF RaceInv, s
  <2>2. Settled(c, t) /\ Expected(c, t) = Expected(c, s)
    BY <1>5, <2>1, SettledStays
  <2>3. QED
    BY <1>4, <2>1, <2>2, SameProgram DEF BadView, View, s
<1>14. RaceInv'
  <2>1. \A x \in Core : AtStart(x, todo[x])' => ~Bad(x)' /\ \A y \in Core : ~BadView(x, y)'
    BY <1>1, <1>8, <1>9, <1>10, <1>11 DEF RaceInv
  <2>2. Bad(c)' => ~Bad(o)' /\ Settled(o, todo[o])'
    BY <1>1, <1>7, <1>8, <1>11 DEF RaceInv, o
  <2>3. Bad(o)' => ~Bad(c)' /\ (More(o, todo[o])' => Settled(c, todo[c])')
    BY <1>4, <1>8, <1>11, <1>12, <2>2
  <2>4. BadView(o, o)' => ~BadView(c, o)' /\ Settled(c, todo[c])'
    BY <1>10, <1>11, <1>13
  <2>5. Other(c) = o /\ Other(o) = c
    BY <1>1 DEF o
  <2>6. QED
    BY <1>1, <1>9, <2>1, <2>2, <2>3, <2>4, <2>5 DEF RaceInv
<1>15. QED
  BY <1>7, <1>8, <1>9, <1>10, <1>11, <1>14 DEF o

\* A core that writes the pulls back leaves the modes as they are.
LEMMA PullKeeps ==
    ASSUME ScriptInv, RaceInv, NEW c \in Core, WriteStep(c), UNCHANGED program,
           Head(todo[c]).reg = "pupdr"
    PROVE  /\ RaceInv'
           /\ \A x \in Core : /\ Bad(x)' <=> Bad(x)
                              /\ \A y \in Core : BadView(x, y)' => BadView(x, y)
<1> DEFINE t == Tail(todo[c])
<1>1. todo[c] # <<>> /\ EditDoes(c, todo[c])
  BY EditsDo DEF WriteStep, ScriptInv
<1>2. /\ gpio'["moder"] = gpio["moder"] /\ todo'[c] = t /\ read'[c] = <<>>
      /\ \A x \in Core : x # c => todo'[x] = todo[x] /\ read'[x] = read[x]
  BY DEF WriteStep, ScriptInv, Reg
<1>3. /\ AtStart(c, t) <=> AtStart(c, todo[c])
      /\ Settled(c, t) <=> Settled(c, todo[c])
      /\ More(c, t) => More(c, todo[c])
  BY <1>1 DEF EditDoes
<1> HIDE DEF t
<1>4. Expected(c, t) = Expected(c, todo[c])
  BY <1>3 DEF Expected, Settled
<1>5. \A x \in Core : /\ AtStart(x, todo[x])' <=> AtStart(x, todo[x])
                      /\ Settled(x, todo[x])' <=> Settled(x, todo[x])
                      /\ More(x, todo[x])' => More(x, todo[x])
                      /\ Expected(x, todo[x])' = Expected(x, todo[x])
  BY <1>2, <1>3, <1>4, SameProgram
<1>6. \A x \in Core : Bad(x)' <=> Bad(x)
  BY <1>2, <1>5, SameProgram DEF Bad
<1>7. \A x \in Core : ~BadView(x, c)' /\ \A y \in Core : y # c => (BadView(x, y)' <=> BadView(x, y))
  BY <1>2, <1>5, SameProgram DEF BadView, View
<1>8. \A x \in Core : \A y \in Core : BadView(x, y)' => BadView(x, y)
  BY <1>7
<1>9. RaceInv'
  <2>1. \A x \in Core : AtStart(x, todo[x])' => ~Bad(x)' /\ \A y \in Core : ~BadView(x, y)'
    BY <1>5, <1>6, <1>8 DEF RaceInv
  <2>2. \A x \in Core : Bad(x)' => /\ ~Bad(Other(x))'
                                   /\ More(x, todo[x])' => Settled(Other(x), todo[Other(x)])'
    BY <1>5, <1>6, Cores DEF RaceInv
  <2>3. \A x \in Core : BadView(x, x)' => /\ ~BadView(Other(x), x)'
                                          /\ Settled(Other(x), todo[Other(x)])'
    BY <1>5, <1>8, Cores DEF RaceInv
  <2>4. QED
    BY <2>1, <2>2, <2>3, Cores DEF RaceInv
<1>10. QED
  BY <1>6, <1>8, <1>9

\* Either way a pin is spoilt only if it was or its writer had read it so.
LEMMA WriteKeeps ==
    ASSUME ScriptInv, RaceInv, NEW c \in Core, WriteStep(c), UNCHANGED program
    PROVE  /\ ScriptInv' /\ RaceInv'
           /\ \A x \in Core : /\ Bad(x)' => Bad(x) \/ BadView(x, c)
                              /\ ~BadView(x, c)'
                              /\ read[Other(c)] = <<>> => ~BadView(x, Other(c))'
<1>1. ScriptInv'
  BY WriteTypes
<1>2. read'[c] = <<>> /\ read'[Other(c)] = read[Other(c)]
  BY Cores DEF WriteStep, ScriptInv
<1>3. \A x \in Core : ~BadView(x, c)' /\ (read[Other(c)] = <<>> => ~BadView(x, Other(c))')
  BY <1>2 DEF BadView
<1>4. CASE Head(todo[c]).reg = "moder"
  <2>1. RaceInv' /\ (Bad(c)' => BadView(c, c)) /\ (Bad(Other(c))' <=> BadView(Other(c), c))
    BY <1>4, ModeKeeps
  <2>2. QED
    BY <1>1, <1>3, <2>1, Cores
<1>5. CASE Head(todo[c]).reg = "pupdr"
  <2>1. RaceInv' /\ \A x \in Core : Bad(x)' <=> Bad(x)
    BY <1>5, PullKeeps
  <2>2. QED
    BY <1>1, <1>3, <2>1
<1>6. Head(todo[c]).reg \in Reg
  <2>1. EditDoes(c, todo[c])
    BY EditsDo DEF WriteStep, ScriptInv
  <2>2. QED
    BY <2>1 DEF EditDoes, Edit
<1>7. QED
  BY <1>4, <1>5, <1>6 DEF Reg

\* Where registers, views and scripts stay, so does what is said of them.
LEMMA Undisturbed ==
    ASSUME UNCHANGED <<program, gpio, read, todo>>
    PROVE  /\ ScriptInv => ScriptInv'
           /\ RaceInv => RaceInv'
           /\ \A c \in Core : (Bad(c)' <=> Bad(c)) /\ \A x \in Core : BadView(c, x)' <=> BadView(c, x)
<1>1. /\ \A c : (Bad(c)' <=> Bad(c)) /\ \A x : BadView(c, x)' <=> BadView(c, x)
  BY SameProgram DEF Bad, BadView, View
<1>2. ScriptInv => ScriptInv'
  BY SameProgram DEF ScriptInv, Register, Pin, Reg
<1>3. RaceInv => RaceInv'
  BY <1>1, SameProgram DEF RaceInv
<1>4. QED
  BY <1>1, <1>2, <1>3

\* A core reads or writes a register; the M0+ does not before it has started.
LEMMA PinsStep ==
    ASSUME PinsInv, NEW c \in Core, ReadStep(c) \/ WriteStep(c), UNCHANGED <<program, apart>>,
           Started' <=> Started, Started \/ c = "m4"
    PROVE  PinsInv'
<1>1. ScriptInv /\ RaceInv /\ ApartInv
  BY DEF PinsInv
<1>2. /\ "m4" \in Core /\ "m0p" \in Core /\ Other("m4") = "m0p" /\ Other("m0p") = "m4"
      /\ c = "m4" \/ c = "m0p"
  BY DEF Core, Other
<1>3. CASE ReadStep(c)
  <2>1. ScriptInv' /\ RaceInv' /\ \A x, y \in Core :
            /\ Bad(x)' <=> Bad(x)
            /\ BadView(x, y)' => Bad(x) \/ BadView(x, y)
    BY <1>1, <1>3, ReadKeeps
  <2>2. todo' = todo /\ \A x \in Core : x # c => read'[x] = read[x]
    BY <1>1, <1>3 DEF ReadStep, ScriptInv
  <2>3. ApartInv'
    <3>1. ~Started' => AtStart("m0p", todo["m0p"])' /\ read'["m0p"] = <<>> /\ ~apart'
      BY <1>1, <1>2, <2>2, SameProgram DEF ApartInv
    <3>2. apart' => todo'["m4"] = <<>>
      BY <1>1, <2>2 DEF ApartInv
    <3>3. apart' \/ ~Started' => \A x \in Core : ~Bad(x)' /\ \A y \in Core : ~BadView(x, y)'
      <4>1. apart' \/ ~Started' => \A x \in Core : ~Bad(x) /\ \A y \in Core : ~BadView(x, y)
        BY <1>1 DEF ApartInv
      <4>2. apart' \/ ~Started' => apart \/ ~Started
        OBVIOUS
      <4>3. ASSUME NEW x \in Core, ~Bad(x), \A y \in Core : ~BadView(x, y)
            PROVE  ~Bad(x)' /\ \A y \in Core : ~BadView(x, y)'
        BY <2>1, <4>3
      <4>4. QED
        BY <4>1, <4>2, <4>3
    <3>4. QED
      BY <3>1, <3>2, <3>3 DEF ApartInv
  <2>4. QED
    BY <2>1, <2>3 DEF PinsInv
<1>4. CASE WriteStep(c)
  <2> DEFINE o == Other(c)
  <2>1. o \in Core /\ o # c /\ \A x \in Core : x = c \/ x = o
    BY Cores
  <2>2. /\ ScriptInv' /\ RaceInv'
        /\ \A x \in Core : /\ Bad(x)' => Bad(x) \/ BadView(x, c)
                           /\ ~BadView(x, c)' /\ (read[o] = <<>> => ~BadView(x, o)')
    BY <1>1, <1>4, WriteKeeps
  <2>3. /\ read[c] # <<>> /\ todo[c] # <<>>
        /\ todo'[o] = todo[o] /\ read'[o] = read[o]
    BY <1>1, <1>4, <2>1 DEF WriteStep, ScriptInv
  <2>4. (apart => c = "m0p" /\ o = "m4") /\ (~Started => c = "m4" /\ o = "m0p")
    BY <1>1, <1>2, <2>3 DEF ApartInv
  <2>5. apart \/ ~Started => read[o] = <<>>
    BY <1>1, <1>2, <2>4 DEF ApartInv, ScriptInv
  <2> HIDE DEF o
  <2>6. ApartInv'
    <3>1. ~Started' => AtStart("m0p", todo["m0p"])' /\ read'["m0p"] = <<>> /\ ~apart'
      BY <1>1, <2>3, <2>4, SameProgram DEF ApartInv
    <3>2. apart' => todo'["m4"] = <<>>
      BY <1>1, <2>3, <2>4 DEF ApartInv
    <3>3. apart' \/ ~Started' => \A x \in Core : ~Bad(x)' /\ \A y \in Core : ~BadView(x, y)'
      BY <1>1, <2>1, <2>2, <2>5 DEF ApartInv
    <3>4. QED
      BY <3>1, <3>2, <3>3 DEF ApartInv
  <2>7. QED
    BY <2>2, <2>6 DEF PinsInv
<1>5. QED
  BY <1>3, <1>4

\* The M0+ starts, or nothing happens to pins and cores.
LEMMA PinsRest ==
    ASSUME PinsInv, UNCHANGED <<program, gpio, read, todo>>,
           \/ UNCHANGED apart /\ (Started' <=> Started)
           \/ ~Started /\ Started' /\ (apart' => todo["m4"] = <<>>)
    PROVE  PinsInv'
<1>1. /\ ScriptInv' /\ RaceInv'
      /\ \A c \in Core : (Bad(c)' <=> Bad(c)) /\ \A x \in Core : BadView(c, x)' <=> BadView(c, x)
  BY Undisturbed DEF PinsInv
<1>2. AtStart("m0p", todo["m0p"])' <=> AtStart("m0p", todo["m0p"])
  BY SameProgram
<1>3. ApartInv'
  <2>1. ~Started' => AtStart("m0p", todo["m0p"])' /\ read'["m0p"] = <<>> /\ ~apart'
    BY <1>2 DEF PinsInv, ApartInv
  <2>2. apart' => todo'["m4"] = <<>>
    BY DEF PinsInv, ApartInv
  <2>3. apart' \/ ~Started' => apart \/ ~Started
    OBVIOUS
  <2>4. apart' \/ ~Started' => \A x \in Core : ~Bad(x)' /\ \A y \in Core : ~BadView(x, y)'
    BY <1>1, <2>3 DEF PinsInv, ApartInv
  <2>5. QED
    BY <2>1, <2>2, <2>4 DEF ApartInv
<1>4. QED
  BY <1>1, <1>3 DEF PinsInv

\* Out of reset no pin is spoilt.
LEMMA PinsInit ==
    ASSUME gpio = [which \in Reg |-> [p \in Pin |-> IF which = "moder" THEN Analog ELSE {}]],
           read = [c \in Core |-> <<>>],
           NEW im \in {"bare", "hal"}, todo = [c \in Core |-> Edits(im, c)], ~Started, ~apart
    PROVE  PinsInv
<1>1. /\ \A c \in Core : /\ todo[c] = Edits(im, c) /\ read[c] = <<>> /\ todo[c] \in Script(c)
                         /\ AtStart(c, todo[c])
      /\ gpio["moder"] = [p \in Pin |-> Analog] /\ gpio \in [Reg -> Register]
  <2>1. gpio["moder"] = [p \in Pin |-> Analog] /\ gpio \in [Reg -> Register]
    BY DEF Reg, Register, Analog
  <2>2. QED
    BY <2>1, EditsBegin
<1>2. \A c \in Core : Own(c) \in Pin
  BY DEF Own, Pin
<1>3. \A c \in Core : ~Bad(c) /\ \A x \in Core : ~BadView(c, x)
  BY <1>1, <1>2 DEF Bad, BadView, Expected
<1>4. ScriptInv
  <2>1. read \in [Core -> {<<>>} \cup {<<q>> : q \in Register}]
    OBVIOUS
  <2>2. QED
    BY <1>1, <2>1 DEF ScriptInv
<1>5. RaceInv /\ ApartInv
  BY <1>1, <1>3 DEF RaceInv, ApartInv, Core
<1>6. QED
  BY <1>4, <1>5 DEF PinsInv

----------------------------------------------------------------------------
(* 00_dual_blink.                                                           *)

BlinkInv == /\ PinsInv
            /\ running \subseteq Core /\ odr \in [Core -> BOOLEAN] /\ apart \in BOOLEAN

\* The instance's names for the cores.
LEMMA BlinkNames == Blink!M4 = "m4" /\ Blink!M0P = "m0p" /\ Blink!Core = Core
  BY DEF Blink!M4, Blink!M0P, Blink!Core, Core

\* Every step of 00 keeps its invariant.
LEMMA BlinkStep ==
    ASSUME OnBlink, BlinkInv, UNCHANGED program, Blink!Next
    PROVE  BlinkInv'
<1>1. CASE Blink!BootM0p
  <2>1. /\ UNCHANGED <<gpio, read, todo, odr, apart>> /\ running = {} /\ running' = {"m4"}
    BY <1>1, BlinkNames DEF Blink!BootM0p, Blink!pinVars
  <2>2. PinsInv'
    BY <2>1, PinsRest DEF BlinkInv, Started, OnBlink
  <2>3. QED
    BY <2>1, <2>2 DEF BlinkInv, Core
<1>2. CASE Blink!StartM0p
  <2>1. /\ UNCHANGED <<gpio, read, todo, odr>> /\ running = {"m4"} /\ running' = Core
        /\ apart' => todo["m4"] = <<>>
        /\ apart' \in BOOLEAN
    BY <1>2, BlinkNames DEF Blink!StartM0p, Blink!pinVars, Blink!Port!SetUp
  <2>2. PinsInv'
    BY <2>1, PinsRest DEF BlinkInv, Started, OnBlink, Core
  <2>3. QED
    BY <2>1, <2>2 DEF BlinkInv
<1>3. ASSUME NEW c \in Core, Blink!ConfigureLed(c) PROVE BlinkInv'
  <2>1. /\ c \in running /\ UNCHANGED <<running, odr, apart>>
        /\ ReadStep(c) \/ WriteStep(c)
    BY <1>3 DEF Blink!ConfigureLed, Blink!Port!ReadRegister, Blink!Port!WriteRegister, Blink!Port!SetUp,
                Blink!Port!Apply, Blink!Port!Pin, ReadStep, WriteStep, Apply, Pin
  <2>2. PinsInv'
    <3>1. (Started' <=> Started) /\ (Started \/ c = "m4")
      BY <2>1 DEF Started, OnBlink, Core
    <3>2. QED
      BY <2>1, <3>1, PinsStep DEF BlinkInv
  <2>3. QED
    BY <2>1, <2>2 DEF BlinkInv
<1>4. ASSUME NEW c \in Core, Blink!Blink(c) PROVE BlinkInv'
  <2>1. /\ UNCHANGED <<gpio, read, todo, running, apart>> /\ odr' = [odr EXCEPT ![c] = ~@]
    BY <1>4 DEF Blink!Blink, Blink!pinVars
  <2>2. PinsInv'
    BY <2>1, PinsRest DEF BlinkInv, Started, OnBlink
  <2>3. odr' \in [Core -> BOOLEAN]
    BY <2>1 DEF BlinkInv
  <2>4. QED
    BY <2>1, <2>2, <2>3 DEF BlinkInv
<1>5. QED
  BY <1>1, <1>2, <1>3, <1>4, BlinkNames DEF Blink!Next, Blink!CoreNext

----------------------------------------------------------------------------
(* 03_basic_shared_memory.                                                  *)

SharedTypes ==
    /\ image \in {"bare", "hal"}
    /\ flag \in {0, 1} /\ level \in {0, 1} /\ prev \in {0, 1} /\ reg \in {0, 1}
    /\ pc \in [Core -> {"off", "clear", "boot", "pins", "poll", "load", "store", "take", "send"}]
    /\ v \in {0, 1} /\ line \in {0, 1, 2}
    /\ apart \in BOOLEAN /\ pressed \in BOOLEAN
    /\ parity \in {0, 1} /\ wiped \in {0, 1}

\* The pull of PA0 is as the M4's edits have it, unless the M0+'s HAL_GPIO_Init overlaps
\* them: nobody will write another.
PullOK == /\ gpio["pupdr"]["PA0"] = Pull(todo["m4"])
          /\ \A x \in Core : read[x] # <<>> /\ Head(todo[x]).reg = "pupdr"
                                => View(x)["PA0"] = Pull(todo["m4"])
PullInv == /\ image = "bare" => todo["m0p"] \in BareUart
           /\ apart \/ ~Started \/ image = "bare" => PullOK

\* With PA0 in order, a toggle under way has its own press.
PressInv == /\ pc["m4"] \in {"poll", "load", "store"} => todo["m4"] = <<>>
            /\ pc["m4"] \in {"load", "store"} => prev = 0
            /\ apart \/ ~Started => /\ pc["m4"] \in {"load", "store"} => pressed
                                    /\ pc["m4"] = "poll" /\ prev = 1 /\ level = 0 => pressed

\* The flag that the M4 has loaded counts the toggles too, unless the M0+'s clear has come
\* in between; that clear is the M0+'s first act and comes once.
FlagInv ==
    /\ pc["m0p"] # "off" => pc["m4"] \notin {"clear", "boot"}
    /\ pc["m0p"] \in {"off", "clear"} => wiped = 0
    /\ pc["m4"] \in {"clear", "boot"} => parity = 0
    /\ pc["m4"] = "store" => reg = (parity + wiped) % 2
    /\ pc["m4"] \notin {"clear", "store"} => flag = (parity + wiped) % 2

SharedInv == PinsInv /\ SharedTypes /\ FlagInv /\ PullInv /\ PressInv

\* The instance's names for the cores.
LEMMA SharedNames == /\ Shared!M4 = "m4" /\ Shared!M0P = "m0p" /\ Shared!Core = Core
                     /\ "m4" \in Core /\ "m0p" \in Core
  BY DEF Shared!M4, Shared!M0P, Shared!Core, Core

\* Sums modulo 2.
LEMMA Parities == \A a, b \in {0, 1} : /\ (a + b) % 2 = IF a = b THEN 0 ELSE 1
                                      /\ 1 - a \in {0, 1}
  OBVIOUS

\* Goto moves one core and leaves the other where it is.
LEMMA GotoIs ==
    ASSUME SharedTypes, NEW c \in Core, NEW x, NEW y, Shared!Goto(c, x, y)
    PROVE  /\ pc[c] = x /\ pc'[c] = y /\ pc'[Other(c)] = pc[Other(c)]
           /\ \A d \in Core : d # c => pc'[d] = pc[d]
           /\ y \in {"off", "clear", "boot", "pins", "poll", "load", "store", "take", "send"} =>
                 pc' \in [Core -> {"off", "clear", "boot", "pins", "poll", "load", "store", "take", "send"}]
  BY Cores DEF SharedTypes, Shared!Goto

\* A step of 03 that leaves the registers alone.
LEMMA SharedRest ==
    ASSUME ~OnBlink, SharedInv, UNCHANGED <<program, image, gpio, read, todo>>,
           apart' \/ ~Started' => apart \/ ~Started
    PROVE  /\ PullInv'
           /\ pc'["m4"] = pc["m4"] /\ prev' = prev /\ pressed' = pressed /\ level' = level => PressInv'
<1>1. PullInv /\ PressInv
  BY DEF SharedInv
<1>2. PullOK => PullOK'
  BY DEF PullOK, View, Pull, Modify, ButtonMode
<1>3. PullInv'
  BY <1>1, <1>2 DEF PullInv, BareUart, Modify, UartClear, UartSet
<1>4. ASSUME pc'["m4"] = pc["m4"], prev' = prev, pressed' = pressed, level' = level
      PROVE  PressInv'
  BY <1>1, <1>4 DEF PressInv
<1>5. QED
  BY <1>3, <1>4

\* One that starts no core either.
LEMMA SharedPins ==
    ASSUME ~OnBlink, SharedInv, UNCHANGED <<program, image, gpio, read, todo, apart>>,
           pc'["m0p"] # "off" <=> pc["m0p"] # "off"
    PROVE  /\ PinsInv' /\ PullInv' /\ (Started' <=> Started)
           /\ pc'["m4"] = pc["m4"] /\ prev' = prev /\ pressed' = pressed /\ level' = level => PressInv'
<1>1. Started' <=> Started
  BY DEF Started, OnBlink
<1>2. PinsInv'
  BY <1>1, PinsRest DEF SharedInv
<1>3. QED
  BY <1>1, <1>2, SharedRest

\* The M4 samples the wire when PA0 is in order.
LEMMA SampleIsLevel ==
    ASSUME ~OnBlink, SharedInv, todo["m4"] = <<>>, apart \/ ~Started
    PROVE  Shared!IDR = {level}
<1>1. gpio["moder"]["PA0"] = {}
  <2>1. ~Bad("m4")
    BY SharedNames DEF SharedInv, PinsInv, ApartInv
  <2>2. Expected("m4", <<>>) = {} /\ Own("m4") = "PA0"
    BY EndReached, SharedNames DEF Goal, Own
  <2>3. QED
    BY <2>1, <2>2 DEF Bad
<1>2. gpio["pupdr"]["PA0"] = {0}
  BY DEF SharedInv, PullInv, PullOK, Pull
<1>3. QED
  BY <1>1, <1>2 DEF Shared!IDR, Shared!Port!Input, Shared!Port!PullUp

\* The edits of 03 and the pull of PA0.
LEMMA PullStep ==
    ASSUME ~OnBlink, SharedInv, NEW c \in Core, ReadStep(c) \/ WriteStep(c),
           UNCHANGED <<program, image, apart>>, Started' <=> Started
    PROVE  PullInv'
<1>1. /\ ScriptInv /\ ApartInv /\ PullInv
      /\ "m4" \in Core /\ "m0p" \in Core /\ (c = "m4" \/ c = "m0p") /\ "m4" # "m0p"
  BY DEF SharedInv, PinsInv, Core
<1>2. /\ todo[c] # <<>> /\ todo[c] \in Script(c) /\ EditDoes(c, todo[c])
  BY <1>1, EditsDo DEF ScriptInv, ReadStep, WriteStep
<1>4. BareUart' = BareUart /\ \A s : Pull(s)' = Pull(s)
  BY DEF BareUart, Modify, UartClear, UartSet, Pull, ButtonMode
<1>5. image' = "bare" => todo'["m0p"] \in BareUart'
  <2> SUFFICES ASSUME image = "bare" PROVE todo'["m0p"] \in BareUart
    BY <1>4
  <2>1. todo["m0p"] \in BareUart
    BY <1>1 DEF PullInv
  <2>2. todo'["m0p"] = todo["m0p"] \/ (c = "m0p" /\ todo'["m0p"] = Tail(todo["m0p"]))
    BY <1>1 DEF ReadStep, WriteStep, ScriptInv
  <2>3. QED
    BY <1>2, <2>1, <2>2, PullEdits
<1>6. ASSUME apart \/ ~Started \/ image = "bare" PROVE PullOK'
  <2>1. PullOK
    BY <1>1, <1>6 DEF PullInv
  <2>2. CASE ReadStep(c)
    <3>1. /\ gpio' = gpio /\ todo' = todo /\ read'[c] = <<gpio[Head(todo[c]).reg]>>
          /\ \A x \in Core : x # c => read'[x] = read[x]
      BY <1>1, <2>2 DEF ReadStep, ScriptInv
    <3>2. QED
      BY <1>4, <2>1, <3>1 DEF PullOK, View
  <2>3. CASE WriteStep(c)
    <3> DEFINE e == Head(todo[c])
    <3>1. /\ read[c] # <<>> /\ View(c) \in Register
          /\ gpio' = [gpio EXCEPT ![e.reg] = Apply(View(c), e)] /\ gpio \in [Reg -> Register]
          /\ todo'[c] = Tail(todo[c]) /\ read'[c] = <<>>
          /\ \A x \in Core : x # c => todo'[x] = todo[x] /\ read'[x] = read[x]
      BY <1>1, <2>3 DEF WriteStep, ScriptInv, View
    <3>2. e.reg \in Reg /\ e \in Edit
      BY <1>2 DEF EditDoes, Edit
    <3> HIDE DEF e
    <3>3. CASE c = "m4"
      <4>1. read["m0p"] # <<>> => Head(todo["m0p"]).reg # "pupdr"
        <5>1. CASE image = "bare"
          <6>1. todo["m0p"] \in BareUart /\ (read["m0p"] # <<>> => todo["m0p"] # <<>>)
            BY <1>1, <5>1 DEF PullInv, ScriptInv
          <6>2. QED
            BY <6>1, PullEdits
        <5>2. CASE apart
          BY <1>1, <1>2, <3>3, <5>2 DEF ApartInv
        <5>3. CASE ~Started
          BY <1>1, <5>3 DEF ApartInv
        <5>4. QED
          BY <1>6, <5>1, <5>2, <5>3
      <4>2. gpio'["pupdr"]["PA0"] = Pull(todo'["m4"])
        <5>1. CASE e.reg = "moder"
          <6>1. gpio'["pupdr"] = gpio["pupdr"]
            BY <3>1, <5>1 DEF Reg
          <6>2. Pull(todo'["m4"]) = Pull(todo["m4"])
            BY <1>2, <3>1, <3>3, <5>1, PullEdits DEF e
          <6>3. QED
            BY <2>1, <6>1, <6>2 DEF PullOK
        <5>2. CASE e.reg = "pupdr"
          <6>1. gpio'["pupdr"] = Apply(View(c), e)
            BY <3>1, <5>2 DEF Reg
          <6>2. View(c)["PA0"] = Pull(todo["m4"])
            BY <1>1, <2>1, <3>1, <3>3, <5>2 DEF PullOK, e
          <6>3. QED
            BY <1>2, <3>1, <3>3, <5>2, <6>1, <6>2, PullEdits DEF e
        <5>3. QED
          BY <3>2, <5>1, <5>2 DEF Reg
      <4>3. QED
        BY <1>1, <1>4, <3>1, <3>3, <4>1, <4>2 DEF PullOK, Core
    <3>4. CASE c = "m0p"
      <4>1. "PA0" \notin e.pins
        BY <1>2, <3>4 DEF EditDoes, Own, Other, e
      <4>2. gpio'["pupdr"]["PA0"] = Pull(todo["m4"])
        <5>1. CASE e.reg = "moder"
          BY <2>1, <3>1, <5>1 DEF PullOK, Reg
        <5>2. CASE e.reg = "pupdr"
          <6>1. gpio'["pupdr"] = Apply(View(c), e)
            BY <3>1, <5>2 DEF Reg
          <6>2. View(c)["PA0"] = Pull(todo["m4"])
            BY <1>1, <2>1, <3>1, <5>2 DEF PullOK, e
          <6>3. QED
            BY <4>1, <6>1, <6>2 DEF Apply, Pin
        <5>3. QED
          BY <3>2, <5>1, <5>2 DEF Reg
      <4>3. QED
        BY <1>1, <1>4, <2>1, <3>1, <3>4, <4>2 DEF PullOK, View
    <3>5. QED
      BY <1>1, <3>3, <3>4
  <2>4. QED
    BY <2>2, <2>3
<1>7. QED
  BY <1>5, <1>6 DEF PullInv

\* The M4's steps other than its edits: the toggle is in LoadFlag and StoreFlag.
LEMMA M4Step ==
    ASSUME ~OnBlink, SharedInv, UNCHANGED program,
           \/ Shared!ClearFlag \/ Shared!BootM0p \/ Shared!FirstSample \/ Shared!Sample
           \/ Shared!LoadFlag \/ Shared!StoreFlag
    PROVE  SharedInv'
<1> USE SharedNames DEF Shared!pinVars, Shared!m4Vars, Shared!m0pVars, Shared!history
<1>1. SharedTypes /\ FlagInv /\ PullInv /\ PressInv /\ "m4" # "m0p"
  BY DEF SharedInv
<1>2. Shared!IDR \subseteq {0, 1}
  BY <1>1 DEF Shared!IDR, SharedTypes
<1>3. CASE Shared!ClearFlag
  <2>1. pc["m4"] = "clear" /\ pc'["m4"] = "boot" /\ pc'["m0p"] = pc["m0p"] /\ SharedTypes'
    BY <1>1, <1>3, GotoIs DEF Shared!ClearFlag, SharedTypes
  <2>2. FlagInv'
    BY <1>1, <1>3, <2>1, Parities DEF FlagInv, Shared!ClearFlag
  <2>3. PinsInv' /\ PullInv' /\ (Started' <=> Started)
    BY <1>3, <2>1, SharedPins DEF Shared!ClearFlag
  <2>4. PressInv'
    BY <1>1, <2>1 DEF PressInv
  <2>5. QED
    BY <2>1, <2>2, <2>3, <2>4 DEF SharedInv
<1>4. CASE Shared!BootM0p
  <2>1. pc["m4"] = "boot" /\ pc'["m4"] = "pins" /\ pc'["m0p"] = pc["m0p"] /\ SharedTypes'
    BY <1>1, <1>4, GotoIs DEF Shared!BootM0p, SharedTypes
  <2>2. FlagInv'
    BY <1>1, <1>4, <2>1 DEF FlagInv, Shared!BootM0p
  <2>3. PinsInv' /\ PullInv' /\ (Started' <=> Started)
    BY <1>4, <2>1, SharedPins DEF Shared!BootM0p
  <2>4. PressInv'
    BY <1>1, <2>1 DEF PressInv
  <2>5. QED
    BY <2>1, <2>2, <2>3, <2>4 DEF SharedInv
<1>5. CASE Shared!FirstSample
  <2>1. pc["m4"] = "pins" /\ pc'["m4"] = "poll" /\ pc'["m0p"] = pc["m0p"] /\ SharedTypes'
    BY <1>1, <1>2, <1>5, GotoIs DEF Shared!FirstSample, SharedTypes
  <2>2. FlagInv'
    BY <1>1, <1>5, <2>1 DEF FlagInv, Shared!FirstSample
  <2>3. PinsInv' /\ PullInv' /\ (Started' <=> Started)
    BY <1>5, <2>1, SharedPins DEF Shared!FirstSample
  <2>4. PressInv'
    <3>1. /\ todo["m4"] = <<>> /\ prev' \in Shared!IDR
          /\ UNCHANGED <<todo, apart, level>>
      BY <1>5 DEF Shared!FirstSample, Shared!Port!SetUp
    <3>2. apart \/ ~Started => prev' = level
      BY <3>1, SampleIsLevel
    <3>3. QED
      BY <2>1, <2>3, <3>1, <3>2 DEF PressInv
  <2>5. QED
    BY <2>1, <2>2, <2>3, <2>4 DEF SharedInv
<1>6. CASE Shared!Sample
  <2>1. /\ pc["m4"] = "poll" /\ pc'["m4"] \in {"load", "poll"} /\ pc'["m0p"] = pc["m0p"]
        /\ SharedTypes'
    BY <1>1, <1>2, <1>6, GotoIs DEF Shared!Sample, SharedTypes
  <2>2. FlagInv'
    BY <1>1, <1>6, <2>1 DEF FlagInv, Shared!Sample
  <2>3. PinsInv' /\ PullInv' /\ (Started' <=> Started)
    BY <1>6, <2>1, SharedPins DEF Shared!Sample
  <2>4. PressInv'
    <3>1. /\ todo["m4"] = <<>> /\ prev' \in Shared!IDR
          /\ UNCHANGED <<todo, apart, level, pressed>>
          /\ pc'["m4"] = IF prev = 1 /\ prev' = 0 THEN "load" ELSE "poll"
      BY <1>1, <1>6, <2>1, GotoIs DEF Shared!Sample, PressInv
    <3>2. apart \/ ~Started => prev' = level
      BY <3>1, SampleIsLevel
    <3>3. pc["m4"] = "poll" /\ (apart \/ ~Started => (prev = 1 /\ level = 0 => pressed))
      BY <1>1, <2>1 DEF PressInv
    <3>4. QED
      BY <2>3, <3>1, <3>2, <3>3 DEF PressInv
  <2>5. QED
    BY <2>1, <2>2, <2>3, <2>4 DEF SharedInv
<1>7. CASE Shared!LoadFlag
  <2>1. pc["m4"] = "load" /\ pc'["m4"] = "store" /\ pc'["m0p"] = pc["m0p"] /\ SharedTypes'
    BY <1>1, <1>7, GotoIs DEF Shared!LoadFlag, SharedTypes
  <2>2. FlagInv'
    BY <1>1, <1>7, <2>1 DEF FlagInv, Shared!LoadFlag
  <2>3. PinsInv' /\ PullInv' /\ (Started' <=> Started)
    BY <1>7, <2>1, SharedPins DEF Shared!LoadFlag
  <2>4. PressInv'
    <3>1. UNCHANGED <<prev, pressed, level, todo, apart>>
      BY <1>7 DEF Shared!LoadFlag
    <3>2. QED
      BY <1>1, <2>1, <2>3, <3>1 DEF PressInv
  <2>5. QED
    BY <2>1, <2>2, <2>3, <2>4 DEF SharedInv
<1>8. CASE Shared!StoreFlag
  <2>1. pc["m4"] = "store" /\ pc'["m4"] = "poll" /\ pc'["m0p"] = pc["m0p"] /\ SharedTypes'
    <3>1. 1 - reg \in {0, 1} /\ 1 - parity \in {0, 1}
      BY <1>1, Parities DEF SharedTypes
    <3>2. /\ pc["m4"] = "store" /\ pc'["m4"] = "poll" /\ pc'["m0p"] = pc["m0p"]
          /\ pc' \in [Core -> {"off", "clear", "boot", "pins", "poll", "load", "store", "take", "send"}]
      BY <1>1, <1>8, GotoIs DEF Shared!StoreFlag
    <3>3. QED
      BY <1>1, <1>8, <3>1, <3>2 DEF Shared!StoreFlag, SharedTypes
  <2>2. /\ reg = (parity + wiped) % 2 /\ flag' = 1 - reg /\ parity' = 1 - parity /\ wiped' = wiped
        /\ parity \in {0, 1} /\ wiped \in {0, 1}
    BY <1>1, <1>8, <2>1 DEF FlagInv, SharedTypes, Shared!StoreFlag
  <2>3. flag' = (parity' + wiped') % 2
    BY <2>2, Parities
  <2>4. FlagInv'
    BY <1>1, <2>1, <2>2, <2>3 DEF FlagInv
  <2>5. PinsInv' /\ PullInv' /\ (Started' <=> Started)
    BY <1>8, <2>1, SharedPins DEF Shared!StoreFlag
  <2>6. PressInv'
    <3>1. UNCHANGED <<prev, todo>>
      BY <1>8 DEF Shared!StoreFlag
    <3>2. QED
      BY <1>1, <2>1, <3>1 DEF PressInv
  <2>7. QED
    BY <2>1, <2>4, <2>5, <2>6 DEF SharedInv
<1>9. QED
  BY <1>3, <1>4, <1>5, <1>6, <1>7, <1>8

\* The M0+'s steps other than its edits: its clear can come between those two.
LEMMA M0pStep ==
    ASSUME ~OnBlink, SharedInv, UNCHANGED program,
           \/ Shared!ClearFlagM0p \/ Shared!EnterLoop \/ Shared!TakeFlag \/ Shared!SendLine
    PROVE  SharedInv'
<1> USE SharedNames DEF Shared!pinVars, Shared!m4Vars, Shared!m0pVars, Shared!history
<1>1. SharedTypes /\ FlagInv /\ "m4" # "m0p"
  BY DEF SharedInv
<1>2. CASE Shared!ClearFlagM0p
  <2>1. pc["m0p"] = "clear" /\ pc'["m0p"] = "pins" /\ pc'["m4"] = pc["m4"] /\ SharedTypes'
    BY <1>1, <1>2, GotoIs DEF Shared!ClearFlagM0p, SharedTypes
  <2>2. /\ wiped = 0 /\ flag' = 0 /\ parity' = parity /\ parity \in {0, 1} /\ flag \in {0, 1}
        /\ wiped' = (IF pc["m4"] = "store" THEN 0 ELSE flag) /\ reg' = reg
        /\ pc["m4"] \notin {"clear", "boot"}
    BY <1>1, <1>2, <2>1 DEF FlagInv, SharedTypes, Shared!ClearFlagM0p
  <2>3. pc["m4"] = "store" => reg' = (parity' + wiped') % 2
    BY <1>1, <2>2 DEF FlagInv
  <2>4. pc["m4"] # "store" => flag' = (parity' + wiped') % 2
    <3> SUFFICES ASSUME pc["m4"] # "store" PROVE 0 = (parity + flag) % 2
      BY <2>2
    <3>1. flag = (parity + 0) % 2
      BY <1>1, <2>2 DEF FlagInv
    <3>2. QED
      BY <2>2, <3>1, Parities
  <2>5. FlagInv'
    BY <1>1, <2>1, <2>2, <2>3, <2>4 DEF FlagInv
  <2>6. PinsInv' /\ PullInv' /\ PressInv'
    BY <1>2, <2>1, SharedPins DEF Shared!ClearFlagM0p
  <2>7. QED
    BY <2>1, <2>5, <2>6 DEF SharedInv
<1>3. CASE Shared!EnterLoop
  <2>1. pc["m0p"] = "pins" /\ pc'["m0p"] = "take" /\ pc'["m4"] = pc["m4"] /\ SharedTypes'
    BY <1>1, <1>3, GotoIs DEF Shared!EnterLoop, SharedTypes
  <2>2. FlagInv' /\ PinsInv' /\ PullInv' /\ PressInv'
    BY <1>1, <1>3, <2>1, SharedPins DEF FlagInv, Shared!EnterLoop
  <2>3. QED
    BY <2>1, <2>2 DEF SharedInv
<1>4. CASE Shared!TakeFlag
  <2>1. pc["m0p"] = "take" /\ pc'["m0p"] = "send" /\ pc'["m4"] = pc["m4"] /\ SharedTypes'
    BY <1>1, <1>4, GotoIs DEF Shared!TakeFlag, SharedTypes
  <2>2. FlagInv' /\ PinsInv' /\ PullInv' /\ PressInv'
    BY <1>1, <1>4, <2>1, SharedPins DEF FlagInv, Shared!TakeFlag
  <2>3. QED
    BY <2>1, <2>2 DEF SharedInv
<1>5. CASE Shared!SendLine
  <2>1. pc["m0p"] = "send" /\ pc'["m0p"] = "take" /\ pc'["m4"] = pc["m4"] /\ SharedTypes'
    BY <1>1, <1>5, GotoIs DEF Shared!SendLine, SharedTypes
  <2>2. FlagInv' /\ PinsInv' /\ PullInv' /\ PressInv'
    BY <1>1, <1>5, <2>1, SharedPins DEF FlagInv, Shared!SendLine
  <2>3. QED
    BY <2>1, <2>2 DEF SharedInv
<1>6. QED
  BY <1>2, <1>3, <1>4, <1>5

\* Every step of 03 keeps its invariant.
LEMMA SharedStep ==
    ASSUME ~OnBlink, SharedInv, UNCHANGED program, Shared!Next
    PROVE  SharedInv'
<1> USE SharedNames DEF Shared!pinVars, Shared!m4Vars, Shared!m0pVars, Shared!history
<1>1. SharedTypes /\ FlagInv /\ PressInv /\ "m4" # "m0p"
  BY DEF SharedInv
<1>2. CASE Shared!PressOrRelease
  <2>1. /\ UNCHANGED <<gpio, read, todo, image, flag, pc, prev, reg, v, line, apart, parity, wiped>>
        /\ level' = 1 - level /\ (pressed' <=> (pressed \/ level = 1))
        /\ pressed' \in BOOLEAN
    BY <1>2 DEF Shared!PressOrRelease
  <2>2. SharedTypes' /\ FlagInv'
    BY <1>1, <2>1, Parities DEF SharedTypes, FlagInv
  <2>3. PinsInv' /\ PullInv' /\ (Started' <=> Started)
    BY <2>1, SharedPins
  <2>4. PressInv'
    <3>1. level' = 0 => level = 1
      BY <1>1, <2>1 DEF SharedTypes
    <3>2. QED
      BY <1>1, <2>1, <2>3, <3>1 DEF PressInv
  <2>5. QED
    BY <2>2, <2>3, <2>4 DEF SharedInv
<1>3. CASE Shared!StartM0p
  <2>1. /\ UNCHANGED <<gpio, read, todo, image, flag, level, prev, reg, v, line, pressed, parity, wiped>>
        /\ pc["m4"] \notin {"clear", "boot"} /\ apart' \in BOOLEAN
        /\ apart' => todo["m4"] = <<>>
    BY <1>3 DEF Shared!StartM0p, Shared!Port!SetUp
  <2>2. /\ pc["m0p"] = "off" /\ pc'["m0p"] = "clear" /\ pc'["m4"] = pc["m4"]
        /\ pc' \in [Core -> {"off", "clear", "boot", "pins", "poll", "load", "store", "take", "send"}]
    BY <1>1, <1>3, GotoIs DEF Shared!StartM0p
  <2>3. SharedTypes' /\ FlagInv'
    BY <1>1, <2>1, <2>2 DEF SharedTypes, FlagInv
  <2>4. PinsInv' /\ PullInv' /\ PressInv'
    <3>1. ~Started /\ Started'
      BY <2>2 DEF Started, OnBlink
    <3>2. QED
      BY <2>1, <2>2, <3>1, PinsRest, SharedRest DEF SharedInv
  <2>5. QED
    BY <2>3, <2>4 DEF SharedInv
<1>4. ASSUME NEW c \in Core, Shared!ConfigurePins(c) PROVE SharedInv'
  <2>1. /\ pc[c] = "pins"
        /\ ReadStep(c) \/ WriteStep(c)
        /\ UNCHANGED <<image, flag, level, pc, prev, reg, v, line, apart, pressed, parity, wiped>>
    BY <1>4 DEF Shared!ConfigurePins, Shared!Port!ReadRegister, Shared!Port!WriteRegister, Shared!Port!SetUp,
                Shared!Port!Apply, Shared!Port!Pin, ReadStep, WriteStep, Apply, Pin
  <2>2. Started' <=> Started
    BY <2>1 DEF Started, OnBlink
  <2>3. Started \/ c = "m4"
    <3>1. CASE c = "m0p"
      BY <2>1, <3>1 DEF Started
    <3>2. c = "m0p" \/ c = "m4"
      BY DEF Core
    <3>3. QED
      BY <3>1, <3>2
  <2>4. PinsInv'
    BY <2>1, <2>2, <2>3, PinsStep DEF SharedInv
  <2>5. SharedTypes' /\ FlagInv'
    BY <1>1, <2>1 DEF SharedTypes, FlagInv
  <2>6. PullInv'
    BY <2>1, <2>2, PullStep
  <2>7. PressInv'
    <3>1. pc["m4"] \in {"poll", "load", "store"} => todo'["m4"] = todo["m4"]
      <4>1. todo' = todo \/ todo' = [todo EXCEPT ![c] = Tail(todo[c])]
        BY <2>1 DEF ReadStep, WriteStep
      <4>2. pc["m4"] \in {"poll", "load", "store"} => c # "m4"
        BY <2>1
      <4>3. QED
        BY <4>1, <4>2 DEF SharedInv, PinsInv, ScriptInv
    <3>2. QED
      BY <1>1, <2>1, <2>2, <3>1 DEF PressInv
  <2>8. QED
    BY <2>4, <2>5, <2>6, <2>7 DEF SharedInv
<1>5. QED
  BY <1>2, <1>3, <1>4, M4Step, M0pStep DEF Shared!Next, Shared!M4Next, Shared!M0pNext

----------------------------------------------------------------------------
(* The board.                                                               *)

DualInv == /\ program \in {"dual_blink", "mailboxes", "shared_memory"}
           /\ program = "dual_blink" => BlinkInv
           /\ program = "shared_memory" => SharedInv

\* The three programs begin in DualInv.
LEMMA DualInitInv == DualInit => DualInv
<1> SUFFICES ASSUME DualInit PROVE DualInv
  OBVIOUS
<1>1. CASE program = "dual_blink"
  <2>1. Blink!Init /\ OnBlink
    BY <1>1 DEF DualInit, OnBlink
  <2>2. PICK im \in {"bare", "hal"} : todo = [c \in Blink!Core |-> Blink!LedEdits(im, c)]
    BY <2>1 DEF Blink!Init
  <2>3. todo = [c \in Core |-> Edits(im, c)]
    BY <2>1, <2>2, BlinkNames DEF Edits
  <2>4. gpio = [which \in Reg |-> [p \in Pin |-> IF which = "moder" THEN Analog ELSE {}]]
        /\ read = [c \in Core |-> <<>>]
    BY <2>1, BlinkNames DEF Blink!Init, Blink!Port!PinInit, Blink!Port!Pin, Blink!Port!Reg, Blink!Port!Analog,
                                Blink!Port!NoPull, Pin, Reg, Analog
  <2>5. ~Started /\ ~apart /\ running = {} /\ odr = [c \in Core |-> FALSE] /\ apart = FALSE
    BY <2>1, BlinkNames DEF Blink!Init, Started
  <2>6. PinsInv
    BY <2>3, <2>4, <2>5, PinsInit
  <2>7. BlinkInv
    BY <2>5, <2>6 DEF BlinkInv
  <2>8. QED
    BY <1>1, <2>7 DEF DualInv
<1>2. CASE program = "shared_memory"
  <2>1. Shared!Init /\ ~OnBlink
    BY <1>2 DEF DualInit, OnBlink
  <2>2. image \in {"bare", "hal"}
    BY <2>1 DEF Shared!Init
  <2>3. todo = [c \in Core |-> Edits(image, c)]
    BY <2>1, SharedNames DEF Shared!Init, Edits
  <2>4. gpio = [which \in Reg |-> [p \in Pin |-> IF which = "moder" THEN Analog ELSE {}]]
        /\ read = [c \in Core |-> <<>>]
    BY <2>1, SharedNames DEF Shared!Init, Shared!Port!PinInit, Shared!Port!Pin, Shared!Port!Reg, Shared!Port!Analog,
                                Shared!Port!NoPull, Pin, Reg, Analog
  <2>5. pc = [c \in Core |-> IF c = "m4" THEN "clear" ELSE "off"]
    BY <2>1, SharedNames DEF Shared!Init
  <2>6. pc["m4"] = "clear" /\ pc["m0p"] = "off"
    BY <2>5, SharedNames
  <2>7. ~Started /\ ~apart
    BY <2>1, <2>6 DEF Shared!Init, Started
  <2>8. PinsInv
    BY <2>2, <2>3, <2>4, <2>7, PinsInit
  <2>9. SharedTypes
    BY <2>1, <2>5 DEF Shared!Init, SharedTypes
  <2>10. FlagInv
    BY <2>1, <2>6 DEF Shared!Init, FlagInv
  <2>11. PullInv /\ PressInv
    <3>1. /\ gpio["pupdr"]["PA0"] = {} /\ todo["m4"] = Edits(image, "m4") /\ todo["m0p"] = Edits(image, "m0p")
          /\ \A x \in Core : read[x] = <<>>
      BY <2>3, <2>4, SharedNames DEF Reg, Pin
    <3>2. Pull(todo["m4"]) = {} /\ (image = "bare" => todo["m0p"] \in BareUart)
      BY <2>1, <2>2, <3>1, EditsBegin, SharedNames
    <3>3. QED
      BY <2>6, <3>1, <3>2 DEF PullInv, PullOK, PressInv
  <2>12. QED
    BY <1>2, <2>8, <2>9, <2>10, <2>11 DEF DualInv, SharedInv
<1>3. CASE program = "mailboxes"
  BY <1>3 DEF DualInv
<1>4. QED
  BY <1>1, <1>2, <1>3 DEF DualInit

\* And no step leaves it.
LEMMA DualStep == DualInv /\ [DualNext]_dualVars => DualInv'
<1> SUFFICES ASSUME DualInv, [DualNext]_dualVars PROVE DualInv'
  OBVIOUS
<1>1. CASE InMailboxes(Next)
  BY <1>1 DEF InMailboxes, DualInv
<1>2. CASE InBlink(Blink!Next)
  <2>1. program = "dual_blink" /\ UNCHANGED program /\ Blink!Next /\ OnBlink
    BY <1>2 DEF InBlink, OnBlink
  <2>2. BlinkInv'
    BY <2>1, BlinkStep DEF DualInv
  <2>3. QED
    BY <2>1, <2>2 DEF DualInv
<1>3. CASE InShared(Shared!Next)
  <2>1. program = "shared_memory" /\ UNCHANGED program /\ Shared!Next /\ ~OnBlink
    BY <1>3 DEF InShared, OnBlink
  <2>2. SharedInv'
    BY <2>1, SharedStep DEF DualInv
  <2>3. QED
    BY <2>1, <2>2 DEF DualInv
<1>4. CASE UNCHANGED dualVars
  <2>1. /\ UNCHANGED <<program, gpio, read, todo, apart, running, odr, flag, level, pc, prev, reg, v,
                       line, pressed, parity, wiped, image>>
    BY <1>4 DEF dualVars, vars, pinState, blinkState, flagState
  <2>2. Started' <=> Started
    BY <2>1 DEF Started, OnBlink
  <2>3. PinsInv => PinsInv'
    BY <2>1, <2>2, PinsRest
  <2>4. SharedTypes => SharedTypes'
    BY <2>1 DEF SharedTypes
  <2>5. FlagInv => FlagInv'
    BY <2>1 DEF FlagInv
  <2>6. program = "shared_memory" /\ SharedInv => PullInv' /\ PressInv'
    BY <2>1, <2>2, SharedRest DEF OnBlink
  <2>7. QED
    BY <2>1, <2>3, <2>4, <2>5, <2>6 DEF DualInv, BlinkInv, SharedInv
<1>5. QED
  BY <1>1, <1>2, <1>3, <1>4 DEF DualNext

\* DualInv holds in every state of the three programs.
THEOREM DualInvariance == DualSpec => []DualInv
  BY DualInitInv, DualStep, PTL DEF DualSpec

\* 01 on the board does what it does by itself.
LEMMA MailboxesAlone == DualSpec => Spec
<1>1. DualInit => Init
  BY DEF DualInit
<1>2. [DualNext]_dualVars => [Next]_vars
  BY DEF DualNext, InMailboxes, InBlink, InShared, dualVars
<1>3. QED
  BY <1>1, <1>2, PTL DEF DualSpec, Spec

\* However the cores' reads and writes of the port's registers interleave: when both are
\* through, the mode of one of the two pins is in force, and in the bare images of 03, where
\* only the M4 writes pulls, the pull-up of the button.
THEOREM OneModeSurvives == DualSpec => []OneSurvives
<1>1. DualInv => OneSurvives
  <2> SUFFICES ASSUME DualInv PROVE OneSurvives
    OBVIOUS
  <2> DEFINE InForce(c) == gpio["moder"][Own(c)] = Goal(c)
  <2>1. ASSUME PinsInv, todo["m4"] = <<>>, todo["m0p"] = <<>>
        PROVE  InForce("m4") \/ InForce("m0p")
    <3>1. ~Bad("m4") \/ ~Bad("m0p")
      BY <2>1 DEF PinsInv, RaceInv, Core, Other
    <3>2. \A c \in Core : Expected(c, <<>>) = Goal(c)
      BY EndReached
    <3>3. QED
      BY <2>1, <3>1, <3>2 DEF Bad, Core
  <2>2. CASE program = "dual_blink"
    <3>1. PinsInv /\ OnBlink
      BY <2>2 DEF DualInv, BlinkInv, OnBlink
    <3>2. (\A c \in Blink!Core : Blink!Port!SetUp(c)) => InForce("m4") \/ InForce("m0p")
      BY <2>1, <3>1, BlinkNames DEF Blink!Port!SetUp, Core
    <3>3. \A c \in Core : InForce(c) => gpio["moder"][Blink!Led(c)] = Blink!Port!Output
      BY <3>1 DEF Own, Goal, Core, Blink!Led, Blink!M4, Blink!M0P, Blink!Port!Output
    <3>4. QED
      BY <2>2, <3>2, <3>3, BlinkNames DEF OneSurvives, Blink!OneSurvives, Core
  <2>3. CASE program = "shared_memory"
    <3>1. PinsInv /\ PullInv /\ ~OnBlink
      BY <2>3 DEF DualInv, SharedInv, OnBlink
    <3>2. (\A c \in Shared!Core : Shared!Port!SetUp(c)) => InForce("m4") \/ InForce("m0p")
      BY <2>1, <3>1, SharedNames DEF Shared!Port!SetUp, Core
    <3>3. /\ InForce("m4") => gpio["moder"]["PA0"] = Shared!Port!Input
          /\ InForce("m0p") => gpio["moder"]["PA2"] = Shared!Port!Alternate
      BY <3>1 DEF Own, Goal, Shared!Port!Input, Shared!Port!Alternate
    <3>4. (\A c \in Shared!Core : Shared!Port!SetUp(c)) /\ image = "bare" =>
              gpio["pupdr"]["PA0"] = Shared!Port!PullUp
      <4>1. (\A c \in Shared!Core : Shared!Port!SetUp(c)) => todo["m4"] = <<>>
        BY SharedNames DEF Shared!Port!SetUp
      <4>2. QED
        BY <3>1, <4>1 DEF PullInv, PullOK, Pull, Shared!Port!PullUp
    <3>5. QED
      BY <2>3, <3>2, <3>3, <3>4 DEF OneSurvives, Shared!OneSurvives
  <2>4. QED
    BY <2>2, <2>3 DEF OneSurvives
<1>2. QED
  BY <1>1, DualInvariance, PTL

\* If the M0+ starts after the M4 has set up its pin, nothing is lost: whoever is through
\* finds its mode in force, then and for good, and so does the button its pull-up.
ApartInForce == program # "mailboxes" /\ apart =>
                    /\ \A c \in Core : todo[c] = <<>> => gpio["moder"][Own(c)] = Goal(c)
                    /\ program = "shared_memory" => gpio["pupdr"]["PA0"] = {0}

\* The order of the two set-ups is all that both pins need, in 00 and in 03.
THEOREM ApartKeepsBoth == DualSpec => []ApartInForce
<1>1. DualInv => ApartInForce
  <2> SUFFICES ASSUME DualInv, program # "mailboxes", apart PROVE ApartInForce
    BY DEF ApartInForce
  <2>1. PinsInv
    BY DEF DualInv, BlinkInv, SharedInv
  <2>2. ASSUME NEW c \in Core, todo[c] = <<>> PROVE gpio["moder"][Own(c)] = Goal(c)
    <3>1. ~Bad(c)
      BY <2>1 DEF PinsInv, ApartInv
    <3>2. QED
      BY <2>2, <3>1, EndReached DEF Bad
  <2>3. program = "shared_memory" => gpio["pupdr"]["PA0"] = {0}
    <3>1. todo["m4"] = <<>>
      BY <2>1 DEF PinsInv, ApartInv
    <3>2. QED
      BY <3>1 DEF DualInv, SharedInv, PullInv, PullOK, Pull
  <2>4. QED
    BY <2>2, <2>3 DEF ApartInForce
<1>2. QED
  BY <1>1, DualInvariance, PTL

\* The flag of 03 counts the toggles although each is a load and a later store and the M0+
\* clears the flag at a time of its own; that clear can undo only what came before it.  With
\* PA0 in order every toggle has a press of its own.
THEOREM FlagCountsToggles == DualSpec => []TogglesCount
<1>1. DualInv => TogglesCount
  BY SharedNames DEF DualInv, SharedInv, FlagInv, PressInv, TogglesCount, Shared!TogglesCount
<1>2. QED
  BY <1>1, DualInvariance, PTL

\* No variable of the program on the board leaves its type.
THEOREM DualTypes == DualSpec => []DualTypeOK
<1>1. DualSpec => []TypeOK
  <2>1. IInv => TypeOK
    BY DEF IInv
  <2>2. QED
    BY <2>1, MailboxesAlone, Invariance, PTL
<1>2. DualInv /\ TypeOK => DualTypeOK
  <2> SUFFICES ASSUME DualInv, TypeOK PROVE DualTypeOK
    OBVIOUS
  <2>1. \A c \in Core : \A s \in Script(c) : \A k \in DOMAIN s : s[k] \in Edit
    BY ScriptEdits
  <2>2. CASE program = "dual_blink"
    <3>1. BlinkInv /\ ScriptInv
      BY <2>2 DEF DualInv, BlinkInv, PinsInv
    <3>2. Blink!Port!PinTypeOK
      <4>1. Blink!Port!Edit = Edit /\ Blink!Port!Register = Register /\ Blink!Port!Reg = Reg
        BY DEF Blink!Port!Edit, Blink!Port!Register, Blink!Port!Pin, Blink!Port!Reg, Edit, Register, Pin, Reg
      <4>2. QED
        BY <2>1, <3>1, <4>1, BlinkNames DEF ScriptInv, Blink!Port!PinTypeOK
    <3>3. QED
      BY <2>2, <3>1, <3>2, BlinkNames DEF BlinkInv, Blink!TypeOK, DualTypeOK
  <2>3. CASE program = "shared_memory"
    <3>1. SharedInv /\ ScriptInv /\ SharedTypes
      BY <2>3 DEF DualInv, SharedInv, PinsInv
    <3>2. Shared!Port!PinTypeOK
      <4>1. Shared!Port!Edit = Edit /\ Shared!Port!Register = Register /\ Shared!Port!Reg = Reg
        BY DEF Shared!Port!Edit, Shared!Port!Register, Shared!Port!Pin, Shared!Port!Reg, Edit, Register, Pin, Reg
      <4>2. QED
        BY <2>1, <3>1, <4>1, SharedNames DEF ScriptInv, Shared!Port!PinTypeOK
    <3>3. QED
      BY <2>3, <3>1, <3>2, SharedNames DEF SharedTypes, Shared!TypeOK, DualTypeOK
  <2>4. QED
    BY <2>2, <2>3 DEF DualTypeOK
<1>3. QED
  BY <1>1, <1>2, DualInvariance, PTL

\* 01 keeps its messages apart on the board, too.
THEOREM MessagesApartOnBoard == DualSpec => []NoneMerged
  BY MailboxesAlone, MessagesApart

\* And implements the queue of two messages there.
THEOREM QueueOnBoard == DualSpec => ImplementsQueue
  BY MailboxesAlone, QueueOfTwo
=================================================================================
