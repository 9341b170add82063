------------------------- MODULE AtomicIncrement_proofs ------------------------
(****************************************************************************)
(* Proofs about AtomicIncrement for every N, Word, number of poll turns and  *)
(* content of SRAM2 at reset, whether or not the poll delays outlast the     *)
(* print.  IInv is the inductive invariant.                                  *)
(****************************************************************************)
EXTENDS AtomicIncrement, TLAPS

\* The M4 has bumped the round it is in.
InRound == {"read_mode"} \cup InLoop \cup {"set_done", "wait_m0p", "poll"}

\* The M0+ is done with the round it took last, or only has to print it.
Resting == Printing \cup {"wait_round"}

\* The loop index: below N inside the loop, N behind it.
LoopInv == /\ \A c \in Core : pc[c] \in InLoop => i[c] < N
           /\ pc[M4] \in {"set_done", "wait_m0p", "poll"} => i[M4] = N
           /\ pc[M0P] \in Printing \cup {"set_done"} => i[M0P] = N

\* Before the first round the M0+ samples round 0 and says so.
BootInv == /\ pc[M4] # "init" => mode \in {0, 1} /\ m0p_done \in {0, 1}
           /\ pc[M4] \in {"init", "boot"} => pc[M0P] = "off"
           /\ pc[M4] = "boot" => m0p_ready = 0
           /\ pc[M4] \in {"boot", "button", "wait_ready"} => round = 0
           /\ pc[M0P] \in {"off", "sample"} => last_round = 0
           /\ pc[M4] \in {"button", "wait_ready"} =>
                /\ pc[M0P] \in {"sample", "ready", "wait_round"}
                /\ m0p_ready # 0 => pc[M0P] = "wait_round"
                /\ pc[M0P] # "sample" => last_round = round

\* The three states of the M0+ against a round the M4 has started.
NotTaken == /\ last_round # round /\ Inc(last_round) = round /\ m0p_done = 0
            /\ pc[M0P] \in Resting \cup {"take_round"}
Taken == /\ last_round = round /\ m0p_done = 0
         /\ pc[M0P] \in Adding
Finished == /\ last_round = round /\ m0p_done = 1
            /\ pc[M0P] \in Resting /\ i[M0P] = N

HandshakeInv == /\ pc[M4] \in Preparing => last_round = round /\ pc[M0P] \in Resting
                /\ pc[M4] = "bump_round" => m0p_done = 0
                /\ pc[M4] \in InRound \ {"poll"} => NotTaken \/ Taken \/ Finished
                /\ pc[M4] = "poll" => Finished

\* Each core runs its share in the mode of the round, and holds the semaphore
\* exactly from the lock to the unlock.
LockInv == /\ pc[M4] \in InLoop \cup {"set_done", "wait_m0p"} => atomic[M4] = mode
           /\ pc[M0P] \in InLoop \cup {"set_done"} => atomic[M0P] = mode
           /\ \A c \in Core : /\ pc[c] \in {"lock", "unlock"} => atomic[c] = 1
                              /\ hsem = c <=> atomic[c] = 1 /\ Inside(c)

\* The counter against the completed increments, a loaded value against both.
Sum == Share(M4) + Share(M0P)
AtMostInv == pc[M4] \notin Booting \cup {"clear_counter"} =>
                 /\ counter <= Sum
                 /\ \A c \in Core : pc[c] = "store" => reg[c] <= Sum
                 /\ pc[M4] \in Preparing => counter = 0
ExactInv == pc[M4] \in InRound /\ (IF pc[M4] = "read_mode" THEN mode ELSE atomic[M4]) = 1 =>
                /\ counter = Sum
                /\ \A c \in Core : pc[c] = "store" => reg[c] = counter

\* When the poll delays outlast the print, the M0+ reads counter for its line
\* only while the M4 waits or polls, in the mode and with the total of the round.
PrintInv == paced =>
    /\ pc[M4] \in Preparing => pc[M0P] = "wait_round"
    /\ m4_done # 0 /\ pc[M4] # "init"
         => pc[M4] \in {"wait_m0p", "poll", "clear_counter", "clear_m4_done"}
    /\ pc[M0P] \in Printing
         => Finished /\ atomic[M0P] = IF pc[M4] = "read_mode" THEN mode ELSE atomic[M4]
    /\ pc[M0P] \in {"read_actual", "read_lost", "send"} => pc[M4] \in {"wait_m0p", "poll"}
    /\ pc[M0P] \in {"read_lost", "send"} => actual = counter
    /\ pc[M0P] = "send" => lost = 2 * N - counter
    /\ pc[M4] \in InRound \ {"wait_m0p", "poll"} /\ pc[M0P] = "wait_round"
         => last_round # round

\* A core that stores for the second time loaded a counter it had itself made
\* positive: counter is 2 unless some core has stored once at most.
FloorInv == pc[M4] \in InRound =>
    /\ Sum > 0 => counter >= 1
    /\ \A c \in Core : pc[c] = "store" /\ Share(c) > 0 => reg[c] >= 1
    /\ counter >= 2 \/ \E c \in Core : Share(c) <= 1

TypeInv == TypeOK /\ LoopInv /\ BootInv
FlowInv == TypeInv /\ HandshakeInv /\ LockInv
IInv == FlowInv /\ AtMostInv /\ ExactInv /\ PrintInv /\ FloorInv

----------------------------------------------------------------------------

\* The next round number is a word and differs from this one.
LEMMA IncFacts == ASSUME NEW x \in UInt
                  PROVE  Inc(x) \in UInt /\ Inc(x) # x
BY NAssumption, WordAssumption DEF UInt, Inc

\* The difference printed as lost is a word.
LEMMA MinusFacts == ASSUME NEW x \in UInt, NEW y \in UInt
                    PROVE  Minus(x, y) \in UInt
BY NAssumption, WordAssumption DEF UInt, Minus

\* Whatever SRAM2 holds at reset, the types are right.
LEMMA InitTypeInv == Init => TypeInv
BY NAssumption, WordAssumption, PollAssumption, GarbageAssumption
   DEF Init, TypeInv, TypeOK, LoopInv, BootInv, UInt, Core, M4, M0P, Free,
       M4Pc, M0pPc, Booting, Preparing, InLoop, Printing

\* Types, loop bounds and the boot handshake are kept.
LEMMA TypeStep == FlowInv /\ [Next]_vars => TypeInv'
<1> SUFFICES ASSUME FlowInv, [Next]_vars PROVE TypeInv'
  OBVIOUS
<1> USE NAssumption, WordAssumption, PollAssumption
      DEF FlowInv, TypeInv, TypeOK, LoopInv, BootInv, HandshakeInv, Goto, Core, M4, M0P,
          Free, M4Pc, M0pPc, Booting, Preparing, InLoop, Printing, Adding, Inside, InRound,
          Resting, shared, flags, work, button, print
<1>1. CASE InitBlock
  BY <1>1 DEF InitBlock, UInt
<1>2. CASE BootM0p
  BY <1>2 DEF BootM0p
<1>3. CASE FirstSample
  BY <1>3 DEF FirstSample
<1>4. CASE WaitReady
  BY <1>4 DEF WaitReady
<1>5. CASE ClearCounter
  BY <1>5 DEF ClearCounter, UInt
<1>6. CASE ClearM4Done
  BY <1>6 DEF ClearM4Done, UInt
<1>7. CASE ClearM0pDone
  BY <1>7 DEF ClearM0pDone, UInt
<1>8. CASE BumpRound
  BY <1>8, IncFacts DEF BumpRound, UInt
<1>9. CASE SetM4Done
  BY <1>9 DEF SetM4Done, UInt
<1>10. CASE WaitM0p
  BY <1>10 DEF WaitM0p
<1>11. CASE PollTurn
  BY <1>11 DEF PollTurn, UInt
<1>12. CASE PollDone
  BY <1>12 DEF PollDone
<1>13. CASE SampleRound
  BY <1>13 DEF SampleRound
<1>14. CASE AnnounceReady
  BY <1>14 DEF AnnounceReady, UInt
<1>15. CASE WaitRound
  BY <1>15 DEF WaitRound
<1>16. CASE TakeRound
  BY <1>16 DEF TakeRound
<1>17. CASE SetM0pDone
  BY <1>17 DEF SetM0pDone, UInt
<1>18. CASE WaitM4
  BY <1>18 DEF WaitM4
<1>19. CASE ReadActual
  BY <1>19 DEF ReadActual
<1>20. CASE ReadLost
  BY <1>20, MinusFacts DEF ReadLost, UInt
<1>21. CASE SendLine
  BY <1>21 DEF SendLine, Line
<1>22. ASSUME NEW c \in Core, ReadMode(c) PROVE TypeInv'
  BY <1>22 DEF ReadMode
<1>23. ASSUME NEW c \in Core, HsemLock(c) PROVE TypeInv'
  BY <1>23 DEF HsemLock
<1>24. ASSUME NEW c \in Core, Load(c) PROVE TypeInv'
  BY <1>24 DEF Load
<1>25. ASSUME NEW c \in Core, Store(c) PROVE TypeInv'
  BY <1>25 DEF Store, AfterIncrement, Inc, UInt
<1>26. ASSUME NEW c \in Core, HsemUnlock(c) PROVE TypeInv'
  BY <1>26 DEF HsemUnlock, AfterIncrement
<1>27. CASE UNCHANGED vars
  BY <1>27 DEF vars, shared, flags, work, button, print
<1>28. QED
  BY <1>1, <1>2, <1>3, <1>4, <1>5, <1>6, <1>7, <1>8, <1>9, <1>10, <1>11, <1>12, <1>13,
     <1>14, <1>15, <1>16, <1>17, <1>18, <1>19, <1>20, <1>21, <1>22, <1>23, <1>24, <1>25,
     <1>26, <1>27
     DEF Next, M4Next, M0pNext, StartRound, PrintLine, DoIncrements

\* The M0+ stays in one of its three relations to the round.
LEMMA HandshakeStep == FlowInv /\ [Next]_vars => HandshakeInv'
<1> SUFFICES ASSUME FlowInv, [Next]_vars PROVE HandshakeInv'
  OBVIOUS
<1> USE NAssumption, WordAssumption
      DEF FlowInv, TypeInv, LoopInv, BootInv, HandshakeInv, NotTaken, Taken, Finished,
          TypeOK, Goto, Core, M4, M0P, Free, M4Pc, M0pPc, Booting, Preparing, InLoop,
          Printing, Adding, Inside, InRound, Resting, shared, flags, work, button, print
<1>1. CASE InitBlock
  BY <1>1 DEF InitBlock
<1>2. CASE BootM0p
  BY <1>2 DEF BootM0p
<1>3. CASE FirstSample
  BY <1>3 DEF FirstSample
<1>4. CASE WaitReady
  BY <1>4 DEF WaitReady
<1>5. CASE ClearCounter
  BY <1>5 DEF ClearCounter
<1>6. CASE ClearM4Done
  BY <1>6 DEF ClearM4Done
<1>7. CASE ClearM0pDone
  BY <1>7 DEF ClearM0pDone
<1>8. CASE BumpRound
  BY <1>8, IncFacts DEF BumpRound
<1>9. CASE SetM4Done
  BY <1>9 DEF SetM4Done
<1>10. CASE WaitM0p
  BY <1>10 DEF WaitM0p
<1>11. CASE PollTurn
  BY <1>11 DEF PollTurn
<1>12. CASE PollDone
  BY <1>12 DEF PollDone
<1>13. CASE SampleRound
  BY <1>13 DEF SampleRound
<1>14. CASE AnnounceReady
  BY <1>14 DEF AnnounceReady
<1>15. CASE WaitRound
  BY <1>15 DEF WaitRound
<1>16. CASE TakeRound
  BY <1>16 DEF TakeRound
<1>17. CASE SetM0pDone
  BY <1>17 DEF SetM0pDone
<1>18. CASE WaitM4
  BY <1>18 DEF WaitM4
<1>19. CASE ReadActual
  BY <1>19 DEF ReadActual
<1>20. CASE ReadLost
  BY <1>20 DEF ReadLost
<1>21. CASE SendLine
  BY <1>21 DEF SendLine
<1>22. ASSUME NEW c \in Core, ReadMode(c) PROVE HandshakeInv'
  BY <1>22 DEF ReadMode
<1>23. ASSUME NEW c \in Core, HsemLock(c) PROVE HandshakeInv'
  BY <1>23 DEF HsemLock
<1>24. ASSUME NEW c \in Core, Load(c) PROVE HandshakeInv'
  BY <1>24 DEF Load
<1>25. ASSUME NEW c \in Core, Store(c) PROVE HandshakeInv'
  BY <1>25 DEF Store, AfterIncrement
<1>26. ASSUME NEW c \in Core, HsemUnlock(c) PROVE HandshakeInv'
  BY <1>26 DEF HsemUnlock, AfterIncrement
<1>27. CASE UNCHANGED vars
  BY <1>27 DEF vars, shared, flags, work, button, print
<1>28. QED
  BY <1>1, <1>2, <1>3, <1>4, <1>5, <1>6, <1>7, <1>8, <1>9, <1>10, <1>11, <1>12, <1>13,
     <1>14, <1>15, <1>16, <1>17, <1>18, <1>19, <1>20, <1>21, <1>22, <1>23, <1>24, <1>25,
     <1>26, <1>27
     DEF Next, M4Next, M0pNext, StartRound, PrintLine, DoIncrements

\* Modes agree and the semaphore follows the core that is inside.
LEMMA LockStep == FlowInv /\ [Next]_vars => LockInv'
<1> SUFFICES ASSUME FlowInv, [Next]_vars PROVE LockInv'
  OBVIOUS
<1> USE NAssumption, WordAssumption
      DEF FlowInv, TypeInv, LoopInv, BootInv, HandshakeInv, LockInv, NotTaken, Taken,
          Finished, TypeOK, Goto, Core, M4, M0P, Free, M4Pc, M0pPc, Booting, Preparing,
          InLoop, Printing, Adding, Inside, InRound, Resting, shared, flags, work, button,
          print
<1>1. CASE InitBlock
  BY <1>1 DEF InitBlock
<1>2. CASE BootM0p
  BY <1>2 DEF BootM0p
<1>3. CASE FirstSample
  BY <1>3 DEF FirstSample
<1>4. CASE WaitReady
  BY <1>4 DEF WaitReady
<1>5. CASE ClearCounter
  BY <1>5 DEF ClearCounter
<1>6. CASE ClearM4Done
  BY <1>6 DEF ClearM4Done
<1>7. CASE ClearM0pDone
  BY <1>7 DEF ClearM0pDone
<1>8. CASE BumpRound
  BY <1>8 DEF BumpRound
<1>9. CASE SetM4Done
  BY <1>9 DEF SetM4Done
<1>10. CASE WaitM0p
  BY <1>10 DEF WaitM0p
<1>11. CASE PollTurn
  BY <1>11 DEF PollTurn
<1>12. CASE PollDone
  BY <1>12 DEF PollDone
<1>13. CASE SampleRound
  BY <1>13 DEF SampleRound
<1>14. CASE AnnounceReady
  BY <1>14 DEF AnnounceReady
<1>15. CASE WaitRound
  BY <1>15 DEF WaitRound
<1>16. CASE TakeRound
  BY <1>16 DEF TakeRound
<1>17. CASE SetM0pDone
  BY <1>17 DEF SetM0pDone
<1>18. CASE WaitM4
  BY <1>18 DEF WaitM4
<1>19. CASE ReadActual
  BY <1>19 DEF ReadActual
<1>20. CASE ReadLost
  BY <1>20 DEF ReadLost
<1>21. CASE SendLine
  BY <1>21 DEF SendLine
<1>22. ASSUME NEW c \in Core, ReadMode(c) PROVE LockInv'
  BY <1>22 DEF ReadMode
<1>23. ASSUME NEW c \in Core, HsemLock(c) PROVE LockInv'
  BY <1>23 DEF HsemLock
<1>24. ASSUME NEW c \in Core, Load(c) PROVE LockInv'
  BY <1>24 DEF Load
<1>25. ASSUME NEW c \in Core, Store(c) PROVE LockInv'
  BY <1>25 DEF Store, AfterIncrement
<1>26. ASSUME NEW c \in Core, HsemUnlock(c) PROVE LockInv'
  BY <1>26 DEF HsemUnlock, AfterIncrement
<1>27. CASE UNCHANGED vars
  BY <1>27 DEF vars, shared, flags, work, button, print
<1>28. QED
  BY <1>1, <1>2, <1>3, <1>4, <1>5, <1>6, <1>7, <1>8, <1>9, <1>10, <1>11, <1>12, <1>13,
     <1>14, <1>15, <1>16, <1>17, <1>18, <1>19, <1>20, <1>21, <1>22, <1>23, <1>24, <1>25,
     <1>26, <1>27
     DEF Next, M4Next, M0pNext, StartRound, PrintLine, DoIncrements

\* A store completes one increment of a round the M4 is in, and no other step
\* of do_increments completes any.
LEMMA StoreAddsOne == ASSUME FlowInv, NEW c \in Core, Store(c)
                      PROVE  /\ pc[M4] \in InRound \ {"read_mode"} \/ c = M0P
                             /\ pc[M4] \in InRound /\ pc'[M4] \in InRound
                             /\ Sum \in 0 .. 2 * N - 1
                             /\ Sum' = Sum + 1
                             /\ \A d \in Core : Share(d) \in 0 .. N
                             /\ Share(c) < N /\ Share(c)' = Share(c) + 1
                             /\ \A d \in Core \ {c} : Share(d)' = Share(d)
<1> USE NAssumption
    DEF FlowInv, TypeInv, TypeOK, LoopInv, HandshakeInv, BootInv, LockInv, Store,
        AfterIncrement, Goto, NotTaken, Taken, Finished, Core, M4, M0P, Free, M4Pc, M0pPc,
        Booting, Preparing, InLoop, Printing, Adding, Inside, InRound, Resting
<1>1. pc[M4] \in InRound /\ pc'[M4] \in InRound /\ (pc[M4] # "read_mode" \/ c = M0P)
  OBVIOUS
<1>2. /\ Share(M4) \in 0 .. N /\ Share(M0P) \in 0 .. N /\ Share(c) < N
      /\ Share(c)' = Share(c) + 1
      /\ \A d \in Core \ {c} : Share(d)' = Share(d)
  BY <1>1 DEF Share, shared, flags, work, button, print
<1>3. QED
  BY <1>1, <1>2 DEF Sum


\* No step makes the counter exceed the completed increments.
LEMMA AtMostStep == FlowInv /\ AtMostInv /\ [Next]_vars => AtMostInv'
<1> SUFFICES ASSUME FlowInv /\ AtMostInv, [Next]_vars PROVE AtMostInv'
  OBVIOUS
<1> USE NAssumption, WordAssumption
      DEF FlowInv, TypeInv, LoopInv, BootInv, HandshakeInv, LockInv, NotTaken, Taken,
          Finished, AtMostInv, ExactInv, Sum, Share, UInt, TypeOK, Goto, Core, M4, M0P,
          Free, M4Pc, M0pPc, Booting, Preparing, InLoop, Printing, Adding, Inside, InRound,
          Resting, shared, flags, work, button, print
<1>1. CASE InitBlock
  BY <1>1 DEF InitBlock
<1>2. CASE BootM0p
  BY <1>2 DEF BootM0p
<1>3. CASE FirstSample
  BY <1>3 DEF FirstSample
<1>4. CASE WaitReady
  BY <1>4 DEF WaitReady
<1>5. CASE ClearCounter
  BY <1>5 DEF ClearCounter
<1>6. CASE ClearM4Done
  BY <1>6 DEF ClearM4Done
<1>7. CASE ClearM0pDone
  BY <1>7 DEF ClearM0pDone
<1>8. CASE BumpRound
  BY <1>8, IncFacts DEF BumpRound
<1>9. CASE SetM4Done
  BY <1>9 DEF SetM4Done
<1>10. CASE WaitM0p
  BY <1>10 DEF WaitM0p
<1>11. CASE PollTurn
  BY <1>11 DEF PollTurn
<1>12. CASE PollDone
  BY <1>12 DEF PollDone
<1>13. CASE SampleRound
  BY <1>13 DEF SampleRound
<1>14. CASE AnnounceReady
  BY <1>14 DEF AnnounceReady
<1>15. CASE WaitRound
  BY <1>15 DEF WaitRound
<1>16. CASE TakeRound
  BY <1>16 DEF TakeRound
<1>17. CASE SetM0pDone
  BY <1>17 DEF SetM0pDone
<1>18. CASE WaitM4
  BY <1>18 DEF WaitM4
<1>19. CASE ReadActual
  BY <1>19 DEF ReadActual
<1>20. CASE ReadLost
  BY <1>20 DEF ReadLost
<1>21. CASE SendLine
  BY <1>21 DEF SendLine
<1>22. ASSUME NEW c \in Core, ReadMode(c) PROVE AtMostInv'
  BY <1>22 DEF ReadMode
<1>23. ASSUME NEW c \in Core, HsemLock(c) PROVE AtMostInv'
  BY <1>23 DEF HsemLock
<1>24. ASSUME NEW c \in Core, Load(c) PROVE AtMostInv'
  BY <1>24 DEF Load
<1>25. ASSUME NEW c \in Core, Store(c) PROVE AtMostInv'
  <2>1. Sum \in 0 .. 2 * N - 1 /\ Sum' = Sum + 1 /\ pc[M4] \in InRound /\ pc'[M4] \in InRound
    BY <1>25, StoreAddsOne
  <2>2. reg[c] <= Sum /\ reg[c] \in Nat /\ reg' = reg /\ counter' = reg[c] + 1
    BY <1>25, <2>1 DEF Store, Inc
  <2>3. \A d \in Core : pc'[d] = "store" => reg[d] <= Sum
    BY <1>25, <2>1 DEF Store, AfterIncrement
  <2>4. pc'[M4] \notin Preparing
    BY <2>1
  <2>5. \A d \in Core : reg[d] \in Nat
    OBVIOUS
  <2> HIDE DEF FlowInv, TypeInv, HandshakeInv, LockInv, Sum, Preparing, InRound
  <2>6. Sum' \in Nat /\ counter' <= Sum' /\ \A d \in Core : pc'[d] = "store" => reg'[d] <= Sum'
    BY <2>1, <2>2, <2>3, <2>5
  <2>7. QED
    BY <2>4, <2>6 DEF AtMostInv
<1>26. ASSUME NEW c \in Core, HsemUnlock(c) PROVE AtMostInv'
  BY <1>26 DEF HsemUnlock, AfterIncrement
<1>27. CASE UNCHANGED vars
  BY <1>27 DEF vars, shared, flags, work, button, print
<1>28. QED
  BY <1>1, <1>2, <1>3, <1>4, <1>5, <1>6, <1>7, <1>8, <1>9, <1>10, <1>11, <1>12, <1>13,
     <1>14, <1>15, <1>16, <1>17, <1>18, <1>19, <1>20, <1>21, <1>22, <1>23, <1>24, <1>25,
     <1>26, <1>27
     DEF Next, M4Next, M0pNext, StartRound, PrintLine, DoIncrements

\* No step of an ATOMIC round loses one.
LEMMA ExactStep == FlowInv /\ AtMostInv /\ ExactInv /\ [Next]_vars => ExactInv'
<1> SUFFICES ASSUME FlowInv /\ AtMostInv /\ ExactInv, [Next]_vars PROVE ExactInv'
  OBVIOUS
<1> USE NAssumption, WordAssumption
      DEF FlowInv, TypeInv, LoopInv, BootInv, HandshakeInv, LockInv, NotTaken, Taken,
          Finished, AtMostInv, ExactInv, Sum, Share, UInt, TypeOK, Goto, Core, M4, M0P,
          Free, M4Pc, M0pPc, Booting, Preparing, InLoop, Printing, Adding, Inside, InRound,
          Resting, shared, flags, work, button, print
<1>1. CASE InitBlock
  BY <1>1 DEF InitBlock
<1>2. CASE BootM0p
  BY <1>2 DEF BootM0p
<1>3. CASE FirstSample
  BY <1>3 DEF FirstSample
<1>4. CASE WaitReady
  BY <1>4 DEF WaitReady
<1>5. CASE ClearCounter
  BY <1>5 DEF ClearCounter
<1>6. CASE ClearM4Done
  BY <1>6 DEF ClearM4Done
<1>7. CASE ClearM0pDone
  BY <1>7 DEF ClearM0pDone
<1>8. CASE BumpRound
  BY <1>8, IncFacts DEF BumpRound
<1>9. CASE SetM4Done
  BY <1>9 DEF SetM4Done
<1>10. CASE WaitM0p
  BY <1>10 DEF WaitM0p
<1>11. CASE PollTurn
  BY <1>11 DEF PollTurn
<1>12. CASE PollDone
  BY <1>12 DEF PollDone
<1>13. CASE SampleRound
  BY <1>13 DEF SampleRound
<1>14. CASE AnnounceReady
  BY <1>14 DEF AnnounceReady
<1>15. CASE WaitRound
  BY <1>15 DEF WaitRound
<1>16. CASE TakeRound
  BY <1>16 DEF TakeRound
<1>17. CASE SetM0pDone
  BY <1>17 DEF SetM0pDone
<1>18. CASE WaitM4
  BY <1>18 DEF WaitM4
<1>19. CASE ReadActual
  BY <1>19 DEF ReadActual
<1>20. CASE ReadLost
  BY <1>20 DEF ReadLost
<1>21. CASE SendLine
  BY <1>21 DEF SendLine
<1>22. ASSUME NEW c \in Core, ReadMode(c) PROVE ExactInv'
  BY <1>22 DEF ReadMode
<1>23. ASSUME NEW c \in Core, HsemLock(c) PROVE ExactInv'
  BY <1>23 DEF HsemLock
<1>24. ASSUME NEW c \in Core, Load(c) PROVE ExactInv'
  BY <1>24 DEF Load
<1>25. ASSUME NEW c \in Core, Store(c) PROVE ExactInv'
  <2> DEFINE Mode == IF pc[M4] = "read_mode" THEN mode ELSE atomic[M4]
  <2>1. /\ Sum \in 0 .. 2 * N - 1 /\ Sum' = Sum + 1 /\ pc[M4] \in InRound /\ pc'[M4] \in InRound
        /\ pc[M4] # "read_mode" \/ c = M0P
    BY <1>25, StoreAddsOne
  <2>2. Mode' = Mode /\ pc[c] = "store"
    BY <1>25, <2>1 DEF Store, AfterIncrement
  <2> SUFFICES ASSUME Mode = 1
               PROVE  counter' = Sum' /\ \A d \in Core : pc'[d] = "store" => reg'[d] = counter'
    BY <2>2
  <2>3. \A d \in Core : pc[d] \in InLoop => atomic[d] = 1
    BY <2>1
  <2>4. \A d \in Core : pc'[d] # "store"
    BY <1>25, <2>2, <2>3 DEF Store
  <2>5. reg[c] = Sum /\ counter' = Inc(reg[c])
    BY <1>25, <2>1, <2>2 DEF Store
  <2>6. QED
    BY <2>1, <2>4, <2>5 DEF Inc
<1>26. ASSUME NEW c \in Core, HsemUnlock(c) PROVE ExactInv'
  BY <1>26 DEF HsemUnlock, AfterIncrement
<1>27. CASE UNCHANGED vars
  BY <1>27 DEF vars, shared, flags, work, button, print
<1>28. QED
  BY <1>1, <1>2, <1>3, <1>4, <1>5, <1>6, <1>7, <1>8, <1>9, <1>10, <1>11, <1>12, <1>13,
     <1>14, <1>15, <1>16, <1>17, <1>18, <1>19, <1>20, <1>21, <1>22, <1>23, <1>24, <1>25,
     <1>26, <1>27
     DEF Next, M4Next, M0pNext, StartRound, PrintLine, DoIncrements
\* The M4 stays out of counter while the M0+ reads it for its line.
LEMMA PrintStep == FlowInv /\ AtMostInv /\ PrintInv /\ [Next]_vars => PrintInv'
<1> SUFFICES ASSUME FlowInv /\ AtMostInv /\ PrintInv, [Next]_vars PROVE PrintInv'
  OBVIOUS
<1> USE NAssumption, WordAssumption
      DEF FlowInv, TypeInv, LoopInv, BootInv, HandshakeInv, LockInv, NotTaken, Taken,
          Finished, AtMostInv, PrintInv, Sum, Share, UInt, TypeOK, Goto, Core, M4, M0P,
          Free, M4Pc, M0pPc, Booting, Preparing, InLoop, Printing, Adding, Inside, InRound,
          Resting, shared, flags, work, button, print
<1>1. CASE InitBlock
  BY <1>1 DEF InitBlock
<1>2. CASE BootM0p
  BY <1>2 DEF BootM0p
<1>3. CASE FirstSample
  BY <1>3 DEF FirstSample
<1>4. CASE WaitReady
  BY <1>4 DEF WaitReady
<1>5. CASE ClearCounter
  BY <1>5 DEF ClearCounter
<1>6. CASE ClearM4Done
  BY <1>6 DEF ClearM4Done
<1>7. CASE ClearM0pDone
  BY <1>7 DEF ClearM0pDone
<1>8. CASE BumpRound
  BY <1>8, IncFacts DEF BumpRound
<1>9. CASE SetM4Done
  BY <1>9 DEF SetM4Done
<1>10. CASE WaitM0p
  BY <1>10 DEF WaitM0p
<1>11. CASE PollTurn
  BY <1>11 DEF PollTurn
<1>12. CASE PollDone
  BY <1>12 DEF PollDone
<1>13. CASE SampleRound
  BY <1>13 DEF SampleRound
<1>14. CASE AnnounceReady
  BY <1>14 DEF AnnounceReady
<1>15. CASE WaitRound
  BY <1>15 DEF WaitRound
<1>16. CASE TakeRound
  BY <1>16 DEF TakeRound
<1>17. CASE SetM0pDone
  BY <1>17 DEF SetM0pDone
<1>18. CASE WaitM4
  BY <1>18 DEF WaitM4
<1>19. CASE ReadActual
  BY <1>19 DEF ReadActual
<1>20. CASE ReadLost
  BY <1>20 DEF ReadLost, Minus
<1>21. CASE SendLine
  BY <1>21 DEF SendLine
<1>22. ASSUME NEW c \in Core, ReadMode(c) PROVE PrintInv'
  BY <1>22 DEF ReadMode
<1>23. ASSUME NEW c \in Core, HsemLock(c) PROVE PrintInv'
  BY <1>23 DEF HsemLock
<1>24. ASSUME NEW c \in Core, Load(c) PROVE PrintInv'
  BY <1>24 DEF Load
<1>25. ASSUME NEW c \in Core, Store(c) PROVE PrintInv'
  BY <1>25 DEF Store, AfterIncrement
<1>26. ASSUME NEW c \in Core, HsemUnlock(c) PROVE PrintInv'
  BY <1>26 DEF HsemUnlock, AfterIncrement
<1>27. CASE UNCHANGED vars
  BY <1>27 DEF vars, shared, flags, work, button, print
<1>28. QED
  BY <1>1, <1>2, <1>3, <1>4, <1>5, <1>6, <1>7, <1>8, <1>9, <1>10, <1>11, <1>12, <1>13,
     <1>14, <1>15, <1>16, <1>17, <1>18, <1>19, <1>20, <1>21, <1>22, <1>23, <1>24, <1>25,
     <1>26, <1>27
     DEF Next, M4Next, M0pNext, StartRound, PrintLine, DoIncrements
\* The second store of a core leaves counter at two or more.
LEMMA FloorStep == FlowInv /\ AtMostInv /\ FloorInv /\ [Next]_vars => FloorInv'
<1> SUFFICES ASSUME FlowInv /\ AtMostInv /\ FloorInv, [Next]_vars PROVE FloorInv'
  OBVIOUS
<1> USE NAssumption, WordAssumption
      DEF FlowInv, TypeInv, LoopInv, BootInv, HandshakeInv, LockInv, NotTaken, Taken,
          Finished, AtMostInv, FloorInv, Sum, Share, UInt, TypeOK, Goto, Core, M4, M0P,
          Free, M4Pc, M0pPc, Booting, Preparing, InLoop, Printing, Adding, Inside, InRound,
          Resting, shared, flags, work, button, print
<1>1. CASE InitBlock
  BY <1>1 DEF InitBlock
<1>2. CASE BootM0p
  BY <1>2 DEF BootM0p
<1>3. CASE FirstSample
  BY <1>3 DEF FirstSample
<1>4. CASE WaitReady
  BY <1>4 DEF WaitReady
<1>5. CASE ClearCounter
  BY <1>5 DEF ClearCounter
<1>6. CASE ClearM4Done
  BY <1>6 DEF ClearM4Done
<1>7. CASE ClearM0pDone
  BY <1>7 DEF ClearM0pDone
<1>8. CASE BumpRound
  BY <1>8, IncFacts DEF BumpRound
<1>9. CASE SetM4Done
  BY <1>9 DEF SetM4Done
<1>10. CASE WaitM0p
  BY <1>10 DEF WaitM0p
<1>11. CASE PollTurn
  BY <1>11 DEF PollTurn
<1>12. CASE PollDone
  BY <1>12 DEF PollDone
<1>13. CASE SampleRound
  BY <1>13 DEF SampleRound
<1>14. CASE AnnounceReady
  BY <1>14 DEF AnnounceReady
<1>15. CASE WaitRound
  BY <1>15 DEF WaitRound
<1>16. CASE TakeRound
  BY <1>16 DEF TakeRound
<1>17. CASE SetM0pDone
  BY <1>17 DEF SetM0pDone
<1>18. CASE WaitM4
  BY <1>18 DEF WaitM4
<1>19. CASE ReadActual
  BY <1>19 DEF ReadActual
<1>20. CASE ReadLost
  BY <1>20 DEF ReadLost
<1>21. CASE SendLine
  BY <1>21 DEF SendLine
<1>22. ASSUME NEW c \in Core, ReadMode(c) PROVE FloorInv'
  BY <1>22 DEF ReadMode
<1>23. ASSUME NEW c \in Core, HsemLock(c) PROVE FloorInv'
  BY <1>23 DEF HsemLock
<1>24. ASSUME NEW c \in Core, Load(c) PROVE FloorInv'
  BY <1>24 DEF Load
<1>25. ASSUME NEW c \in Core, Store(c) PROVE FloorInv'
  <2>1. /\ Sum' = Sum + 1 /\ Sum \in 0 .. 2 * N - 1 /\ pc[M4] \in InRound
        /\ \A d \in Core : Share(d) \in 0 .. N
        /\ Share(c)' = Share(c) + 1 /\ \A d \in Core \ {c} : Share(d)' = Share(d)
    BY <1>25, StoreAddsOne
  <2>2. reg[c] \in Nat /\ reg' = reg /\ counter' = reg[c] + 1
    BY <1>25, <2>1 DEF Store, Inc
  <2>3. pc[c] = "store" /\ \A d \in Core \ {c} : pc'[d] = pc[d]
    BY <1>25 DEF Store
  <2>4. pc'[c] # "store"
    BY <1>25 DEF Store, AfterIncrement
  <2> HIDE DEF Share, Sum
  <2>5. QED
    BY <2>1, <2>2, <2>3, <2>4
<1>26. ASSUME NEW c \in Core, HsemUnlock(c) PROVE FloorInv'
  BY <1>26 DEF HsemUnlock, AfterIncrement
<1>27. CASE UNCHANGED vars
  BY <1>27 DEF vars, shared, flags, work, button, print
<1>28. QED
  BY <1>1, <1>2, <1>3, <1>4, <1>5, <1>6, <1>7, <1>8, <1>9, <1>10, <1>11, <1>12, <1>13,
     <1>14, <1>15, <1>16, <1>17, <1>18, <1>19, <1>20, <1>21, <1>22, <1>23, <1>24, <1>25,
     <1>26, <1>27
     DEF Next, M4Next, M0pNext, StartRound, PrintLine, DoIncrements

----------------------------------------------------------------------------

\* IInv holds in every state of the two programs.
THEOREM Invariance == Spec => []IInv
<1>1. Init => IInv
  <2> USE NAssumption, WordAssumption
      DEF Init, Core, M4, M0P, Free, Booting, Preparing, InLoop, Printing, Inside, InRound
  <2>1. Init => HandshakeInv /\ LockInv
    BY DEF HandshakeInv, LockInv
  <2>2. Init => AtMostInv /\ ExactInv /\ PrintInv /\ FloorInv
    BY DEF AtMostInv, ExactInv, PrintInv, FloorInv
  <2>3. QED
    BY <2>1, <2>2, InitTypeInv DEF IInv, FlowInv
<1>2. IInv /\ [Next]_vars => IInv'
  BY TypeStep, HandshakeStep, LockStep, AtMostStep, ExactStep, PrintStep,
     FloorStep DEF IInv, FlowInv
<1>3. QED
  BY <1>1, <1>2, PTL DEF Spec

\* Every variable keeps its type: in particular both loops stop at N and no
\* word overflows.
THEOREM TypeCorrect == Spec => []TypeOK
<1>1. IInv => TypeOK
  BY DEF IInv, FlowInv, TypeInv
<1>2. QED
  BY <1>1, Invariance, PTL

\* The cores never work on one round in two modes.
THEOREM SameMode == Spec => []ModeAgreement
<1>1. IInv => ModeAgreement
  BY DEF IInv, FlowInv, LockInv, ModeAgreement
<1>2. QED
  BY <1>1, Invariance, PTL

\* The semaphore keeps the load/add/store sequences of an ATOMIC round apart.
THEOREM MutualExclusion == Spec => []Exclusion
<1>1. IInv => Exclusion
  <2> SUFFICES ASSUME IInv, NEW c \in Core, atomic[c] = 1, \A d \in Core : Inside(d)
               PROVE  FALSE
    BY DEF Exclusion
  <2>1. atomic[M4] = mode /\ atomic[M0P] = mode
    BY DEF IInv, FlowInv, LockInv, Inside, InLoop, Core
  <2>2. hsem = M4 /\ hsem = M0P
    BY <2>1 DEF IInv, FlowInv, LockInv, Core
  <2>3. QED
    BY <2>2 DEF M4, M0P
<1>2. QED
  BY <1>1, Invariance, PTL

\* An ATOMIC round loses no increment.
THEOREM AtomicLosesNone == Spec => []NoneLost
<1>1. IInv => NoneLost
  BY DEF IInv, FlowInv, TypeInv, TypeOK, ExactInv, NoneLost, Sum, InRound, M4Pc, Booting,
         Preparing, InLoop
<1>2. QED
  BY <1>1, Invariance, PTL

\* In either mode counter stays within the increments made, so lost never wraps.
THEOREM LostNeverWraps == Spec => []NeverTooMany
<1>1. IInv => NeverTooMany
  BY DEF IInv, AtMostInv, NeverTooMany, Sum
<1>2. QED
  BY <1>1, Invariance, PTL

\* A finished round shows at least two increments, one if N = 1.
THEOREM RaceHasFloor == Spec => []RacyFloor
<1>1. IInv => RacyFloor
  <2> SUFFICES ASSUME IInv, pc[M4] \in {"wait_m0p", "poll"}, Share(M0P) = N
               PROVE  counter >= IF N = 1 THEN 1 ELSE 2
    BY DEF RacyFloor
  <2>1. Share(M4) = N
    BY DEF IInv, FlowInv, TypeInv, LoopInv, Share, Booting, Preparing, M4, M0P
  <2>2. counter \in Nat /\ pc[M4] \in InRound
    BY WordAssumption DEF IInv, FlowInv, TypeInv, TypeOK, UInt, InRound
  <2>3. QED
    BY <2>1, <2>2, NAssumption DEF IInv, FloorInv, Sum, Core
<1>2. QED
  BY <1>1, Invariance, PTL

\* m0p_done tells the M4 the truth about the round it waits for.
THEOREM DoneFlagIsTrue == Spec => []DoneFlagTells
<1>1. IInv => DoneFlagTells
  BY NAssumption
     DEF IInv, FlowInv, TypeInv, TypeOK, LoopInv, HandshakeInv, NotTaken, Taken, Finished,
         DoneFlagTells, Share, Core, M4, M0P, M4Pc, Booting, Preparing, InLoop, InRound,
         Printing, Resting, Adding
<1>2. QED
  BY <1>1, Invariance, PTL

\* The M0+ takes the rounds one after the other and misses none.
THEOREM NoRoundMissed == Spec => RoundsInOrder
<1>1. IInv /\ [Next]_vars => [last_round' \in {last_round, Inc(last_round)}]_last_round
  <2> SUFFICES ASSUME IInv, [Next]_vars, last_round' # last_round
               PROVE  last_round' = Inc(last_round)
    OBVIOUS
  <2>1. (SampleRound \/ TakeRound) /\ last_round' = round
    BY
       DEF Next, M4Next, M0pNext, StartRound, PrintLine, DoIncrements, vars, print,
           button, work,
           shared, InitBlock, BootM0p, FirstSample, WaitReady, ClearCounter, ClearM4Done,
           ClearM0pDone, BumpRound, ReadMode, HsemLock, Load, Store, HsemUnlock, SetM4Done,
           WaitM0p, PollTurn, PollDone, SampleRound, AnnounceReady, WaitRound, TakeRound,
           SetM0pDone, WaitM4, ReadActual, ReadLost, SendLine
  <2> USE <2>1 DEF IInv, FlowInv, TypeInv, TypeOK, BootInv, HandshakeInv, M4Pc, Booting,
          Preparing, InLoop, InRound, Resting, Printing, Adding, NotTaken, Taken, Finished, Goto
  <2>2. ~ SampleRound
    BY DEF SampleRound
  <2>3. CASE TakeRound
    BY <2>3 DEF TakeRound
  <2>4. QED
    BY <2>1, <2>2, <2>3
<1>2. QED
  BY <1>1, Invariance, PTL DEF Spec, RoundsInOrder

\* When the poll delays outlast the print, every line reports a final total.
THEOREM LinesAreFinal == Spec => []LineIsFinal
<1>1. IInv => LineIsFinal
  <2> SUFFICES ASSUME IInv, paced, pc[M0P] = "send"
               PROVE  actual + lost = 2 * N /\ (atomic[M0P] = 1 => lost = 0)
    BY DEF LineIsFinal
  <2> USE NAssumption DEF Printing
  <2>1. /\ Finished /\ pc[M4] \in {"wait_m0p", "poll"} /\ atomic[M0P] = atomic[M4]
        /\ actual = counter /\ lost = 2 * N - counter
    BY DEF IInv, PrintInv
  <2>2. counter \in Nat
    BY WordAssumption DEF IInv, FlowInv, TypeInv, TypeOK, UInt
  <2>3. Sum = 2 * N
    BY <2>1
       DEF IInv, FlowInv, TypeInv, LoopInv, Finished, Sum, Share, Booting, Preparing,
           M4, M0P
  <2>4. atomic[M0P] = 1 => counter = 2 * N
    BY <2>1, <2>3 DEF IInv, ExactInv, InRound
  <2>5. QED
    BY <2>1, <2>2, <2>4
<1>2. QED
  BY <1>1, Invariance, PTL

----------------------------------------------------------------------------
(* Refinement of RoundCounter.                                              *)

\* The initial states of the two programs are initial states of RoundCounter.
LEMMA InitRefines == Init => Rounds!Init
BY DEF Init, Rounds!Init, Rounds!Core, Running, Core, M4, M0P, Booting

\* No step changes the delays of the board.
LEMMA PacedStays == [Next]_vars => UNCHANGED paced
BY DEF Next, M4Next, M0pNext, StartRound, PrintLine, DoIncrements, vars, button,
       InitBlock, BootM0p, FirstSample, WaitReady, ClearCounter, ClearM4Done,
       ClearM0pDone, BumpRound, ReadMode, HsemLock, Load, Store, HsemUnlock, SetM4Done,
       WaitM0p, PollTurn, PollDone, SampleRound, AnnounceReady, WaitRound, TakeRound,
       SetM0pDone, WaitM4, ReadActual, ReadLost, SendLine

\* Every step of a paced run is a step of RoundCounter or leaves all it sees unchanged.
LEMMA StepRefines == ASSUME paced, IInv, [Next]_vars
                     PROVE  [Rounds!Next]_(Rounds!vars)
<1>0. paced'
  BY PacedStays
<1> DEFINE Same == /\ UNCHANGED <<Running, uart>>
                   /\ Running => /\ UNCHANGED <<RoundMode, counter>>
                                 /\ \A c \in Core : Share(c)' = Share(c)
<1>1. Same => UNCHANGED Rounds!vars
  BY <1>0 DEF Rounds!vars
<1> USE NAssumption, <1>0
    DEF IInv, FlowInv, TypeInv, TypeOK, LoopInv, BootInv, HandshakeInv, LockInv, PrintInv,
        NotTaken, Taken, Finished, Running, RoundMode, Share, Goto, Core, M4, M0P, M4Pc,
        M0pPc, Booting, Preparing, InLoop, InRound, Printing, Resting, Adding, Inside,
        shared, flags, work, button, print
<1>2. CASE InitBlock
  <2> Same
    BY <1>2 DEF InitBlock
  <2> QED
    BY <1>1
<1>3. CASE BootM0p
  <2> Same
    BY <1>3 DEF BootM0p
  <2> QED
    BY <1>1
<1>4. CASE FirstSample
  <2> Same
    BY <1>4 DEF FirstSample
  <2> QED
    BY <1>1
<1>5. CASE WaitReady
  <2> Same
    BY <1>5 DEF WaitReady
  <2> QED
    BY <1>1
<1>6. CASE ClearM4Done
  <2> Same
    BY <1>6 DEF ClearM4Done
  <2> QED
    BY <1>1
<1>7. CASE ClearM0pDone
  <2> Same
    BY <1>7 DEF ClearM0pDone
  <2> QED
    BY <1>1
<1>8. CASE BumpRound
  <2> Same
    BY <1>8, IncFacts DEF BumpRound
  <2> QED
    BY <1>1
<1>9. CASE SetM4Done
  <2> Same
    BY <1>9 DEF SetM4Done
  <2> QED
    BY <1>1
<1>10. CASE WaitM0p
  <2> Same
    BY <1>10 DEF WaitM0p
  <2> QED
    BY <1>1
<1>11. CASE PollTurn
  <2> Same
    BY <1>11 DEF PollTurn
  <2> QED
    BY <1>1
<1>12. CASE PollDone
  <2> Same
    BY <1>12 DEF PollDone
  <2> QED
    BY <1>1
<1>13. CASE SampleRound
  <2> Same
    BY <1>13 DEF SampleRound
  <2> QED
    BY <1>1
<1>14. CASE AnnounceReady
  <2> Same
    BY <1>14 DEF AnnounceReady
  <2> QED
    BY <1>1
<1>15. CASE WaitRound
  <2> Same
    BY <1>15 DEF WaitRound
  <2> QED
    BY <1>1
<1>16. CASE TakeRound
  <2> Same
    BY <1>16 DEF TakeRound
  <2> QED
    BY <1>1
<1>17. CASE SetM0pDone
  <2> Same
    BY <1>17 DEF SetM0pDone
  <2> QED
    BY <1>1
<1>18. CASE WaitM4
  <2> Same
    BY <1>18 DEF WaitM4
  <2> QED
    BY <1>1
<1>19. CASE ReadActual
  <2> Same
    BY <1>19 DEF ReadActual
  <2> QED
    BY <1>1
<1>20. CASE ReadLost
  <2> Same
    BY <1>20 DEF ReadLost
  <2> QED
    BY <1>1
<1>21. ASSUME NEW c \in Core, ReadMode(c) PROVE Same
  BY <1>21 DEF ReadMode
<1>22. ASSUME NEW c \in Core, HsemLock(c) PROVE Same
  BY <1>22 DEF HsemLock
<1>23. ASSUME NEW c \in Core, Load(c) PROVE Same
  BY <1>23 DEF Load
<1>24. ASSUME NEW c \in Core, HsemUnlock(c) PROVE Same
  BY <1>24 DEF HsemUnlock, AfterIncrement
<1>25. CASE ClearCounter
  <2>1. ~Running /\ Running' /\ RoundMode' \in {0, 1} /\ counter' = 0 /\ uart' = uart
        /\ \A c \in Core : Share(c)' = 0
    BY <1>25 DEF ClearCounter
  <2>2. QED
    BY <2>1 DEF Rounds!Next, Rounds!Start, Rounds!Core
<1>26. ASSUME NEW c \in Core, Store(c) PROVE Rounds!Increment(c)
  <2>1. /\ pc[M4] \in InRound /\ pc'[M4] \in InRound /\ Sum \in 0 .. 2 * N - 1
        /\ \A d \in Core : Share(d) \in 0 .. N
        /\ Share(c) < N /\ Share(c)' = Share(c) + 1 /\ \A d \in Core \ {c} : Share(d)' = Share(d)
    BY <1>26, StoreAddsOne
  <2>2. Running /\ Running' /\ RoundMode' = RoundMode /\ uart' = uart
    BY <1>26, <2>1 DEF Store, AfterIncrement
  <2>3. reg[c] \in Nat /\ reg[c] <= Sum /\ counter' = reg[c] + 1
    BY <1>26, <2>1, WordAssumption DEF Store, AtMostInv, Inc, UInt
  <2>4. RoundMode = 1 => reg[c] = counter
    BY <1>26, <2>1 DEF Store, ExactInv
  <2>5. counter' \in IF RoundMode = 1 THEN {counter + 1} ELSE 1 .. Share(M4) + Share(M0P) + 1
    BY <2>1, <2>3, <2>4 DEF Sum
  <2> HIDE DEF Share, Running, RoundMode
  <2>6. QED
    BY <2>1, <2>2, <2>5 DEF Rounds!Increment, Rounds!Core
<1>27. CASE SendLine
  <2>1. /\ Finished /\ pc[M4] \in {"wait_m0p", "poll"} /\ atomic[M0P] = atomic[M4]
        /\ actual = counter /\ lost = 2 * N - counter
    BY <1>27 DEF SendLine
  <2>2. Running /\ ~Running' /\ RoundMode = atomic[M4] /\ \A c \in Core : Share(c) = N
    BY <1>27, <2>1 DEF SendLine
  <2>3. uart' = <<[atomic |-> RoundMode, actual |-> counter, lost |-> 2 * N - counter]>>
    BY <1>27, <2>1, <2>2 DEF SendLine
  <2> HIDE DEF Share, Running, RoundMode
  <2>4. QED
    BY <2>2, <2>3 DEF Rounds!Next, Rounds!Report, Rounds!Core
<1>28. CASE UNCHANGED vars
  <2> Same
    BY <1>28 DEF vars
  <2> QED
    BY <1>1
<1>29. QED
  BY <1>1, <1>2, <1>3, <1>4, <1>5, <1>6, <1>7, <1>8, <1>9, <1>10, <1>11, <1>12, <1>13,
     <1>14, <1>15, <1>16, <1>17, <1>18, <1>19, <1>20, <1>21, <1>22, <1>23, <1>24, <1>25,
     <1>26, <1>27, <1>28
     DEF Next, M4Next, M0pNext, StartRound, PrintLine, DoIncrements, Rounds!Next,
         Rounds!Core

\* When the poll delays outlast the print, the two programs implement
\* RoundCounter: every round is N increments per core, whole in ATOMIC mode, and
\* one line with their final total.
THEOREM Refinement == Spec => ImplementsRounds
<1>1. ~paced /\ [Next]_vars => UNCHANGED Rounds!vars
  BY PacedStays DEF Running, Rounds!vars
<1>2. IInv /\ [Next]_vars => [Rounds!Next]_(Rounds!vars)
  BY <1>1, StepRefines
<1>3. QED
  BY <1>2, InitRefines, Invariance, PTL DEF Spec, ImplementsRounds, Rounds!Spec

----------------------------------------------------------------------------
(* Nobody waits for ever at the same time as the other.                     *)

\* The core waits in a loop that the state of memory and semaphore does not end.
Waits(c) == \/ pc[c] = "lock" /\ hsem \notin {Free, c}
            \/ c = M4 /\ \/ pc[c] = "wait_ready" /\ m0p_ready = 0
                         \/ pc[c] = "wait_m0p" /\ m0p_done = 0
                         \/ pc[c] = "poll" /\ t = PollTurns /\ paced
                              /\ pc[M0P] \in {"wait_m4", "read_actual", "read_lost", "send"}
            \/ c = M0P /\ \/ pc[c] = "off" /\ pc[M4] \notin {"init", "boot"}
                          \/ pc[c] = "wait_round" /\ round = last_round
                          \/ pc[c] = "wait_m4" /\ m4_done = 0

\* The safety half of EveryRoundIsPrinted: the cores never wait for each other, whatever
\* flags of an earlier round the one still looks at while the other goes on.
NeverBothWait == ~ \A c \in Core : Waits(c)

\* A flag somebody waits for is up once its writer waits for something itself.
SignalInv == /\ pc[M4] \in {"wait_m0p", "poll"} => m4_done # 0
             /\ pc[M4] \in {"button", "wait_ready"} /\ pc[M0P] = "wait_round" => m0p_ready # 0

\* Only the M4 lowers m4_done, and raises it again before it waits.
LEMMA SignalStep == IInv /\ SignalInv /\ [Next]_vars => SignalInv'
<1> SUFFICES ASSUME IInv, SignalInv, [Next]_vars PROVE SignalInv'
  OBVIOUS
<1> USE DEF IInv, FlowInv, TypeInv, TypeOK, BootInv, SignalInv, Goto, Core, M4, M0P, M4Pc, M0pPc,
            Booting, Preparing, InLoop, Printing, shared, flags, work, button, print
<1>1. CASE InitBlock \/ BootM0p \/ FirstSample \/ WaitReady
  BY <1>1 DEF InitBlock, BootM0p, FirstSample, WaitReady
<1>2. CASE StartRound
  BY <1>2 DEF StartRound, ClearCounter, ClearM4Done, ClearM0pDone, BumpRound
<1>3. CASE SetM4Done \/ WaitM0p
  BY <1>3 DEF SetM4Done, WaitM0p
<1>4. CASE PollTurn \/ PollDone
  BY <1>4 DEF PollTurn, PollDone
<1>5. ASSUME NEW c \in Core, ReadMode(c) PROVE SignalInv'
  BY <1>5 DEF ReadMode
<1>6. ASSUME NEW c \in Core, DoIncrements(c) PROVE SignalInv'
  <2>1. CASE HsemLock(c) \/ Load(c)
    BY <2>1 DEF HsemLock, Load
  <2>2. CASE Store(c)
    BY <2>2 DEF Store, AfterIncrement
  <2>3. CASE HsemUnlock(c)
    BY <2>3 DEF HsemUnlock, AfterIncrement
  <2>4. QED
    BY <1>6, <2>1, <2>2, <2>3 DEF DoIncrements
<1>7. CASE SampleRound \/ AnnounceReady
  BY <1>7 DEF SampleRound, AnnounceReady
<1>8. CASE WaitRound \/ TakeRound
  BY <1>8 DEF WaitRound, TakeRound
<1>9. CASE SetM0pDone \/ WaitM4
  BY <1>9 DEF SetM0pDone, WaitM4
<1>10. CASE PrintLine
  BY <1>10 DEF PrintLine, ReadActual, ReadLost, SendLine
<1>11. CASE UNCHANGED vars
  BY <1>11 DEF vars
<1>12. QED
  BY <1>1, <1>2, <1>3, <1>4, <1>5, <1>6, <1>7, <1>8, <1>9, <1>10, <1>11
     DEF Next, M4Next, M0pNext

\* No state of the protocol is a deadlock, for any N and however the cores' speeds differ.
THEOREM NoDeadlock == Spec => []NeverBothWait
<1>1. Init => SignalInv
  BY DEF Init, SignalInv, Core, M4, M0P
<1>2. IInv /\ SignalInv => NeverBothWait
  <2> SUFFICES ASSUME IInv, SignalInv, Waits(M4), Waits(M0P) PROVE FALSE
    BY DEF NeverBothWait, Core
  <2> USE DEF IInv, FlowInv, M4, M0P, Core
  <2>1. CASE pc[M4] = "lock"
    BY <2>1 DEF Waits, TypeInv, TypeOK, LockInv, Inside, HandshakeInv, NotTaken, Taken, Finished, Resting,
                Adding, Printing, InRound, InLoop, SignalInv, Free
  <2>2. CASE pc[M4] = "wait_ready"
    BY <2>2 DEF Waits, TypeInv, BootInv, SignalInv
  <2>3. CASE pc[M4] = "wait_m0p"
    BY <2>3 DEF Waits, HandshakeInv, NotTaken, Taken, Finished, Resting, Adding, Printing,
                InRound, InLoop, SignalInv, LockInv, Inside, TypeInv, TypeOK
  <2>4. CASE pc[M4] = "poll"
    BY <2>4 DEF Waits, SignalInv
  <2>5. QED
    BY <2>1, <2>2, <2>3, <2>4 DEF Waits
<1>3. QED
  BY <1>1, <1>2, SignalStep, Invariance, PTL DEF Spec
================================================================================
