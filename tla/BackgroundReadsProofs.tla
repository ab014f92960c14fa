------------------------- MODULE BackgroundReadsProofs -------------------------
(*****************************************************************************)
(* Proofs, for every value of the constants, that the state of background    *)
(* reads is well typed, that the slots of its queue are accounted for, that  *)
(* the serial line has one user at a time, and that a search is over when    *)
(* TMR_stopReading has returned.                                             *)
(*****************************************************************************)
EXTENDS BackgroundReads, TLAPS

(* A failed TMR_read leaves the flags and the counters well typed.         *)
LEMMA ReadFailedType ==
  ASSUME NEW status, BgReadFailed(status), reader \in ReaderFlags
  PROVE  /\ reader' \in ReaderFlags
         /\ acks \in Nat => acks' \in Nat
         /\ tagsRemaining \in Nat => tagsRemaining' \in Nat
<1>1. reader' \in ReaderFlags
  <2>1. (reader.backgroundEnabled /\ status # "fatal") \in BOOLEAN
    OBVIOUS
  <2>2. CASE status = "antenna"
    BY <2>2 DEF BgReadFailed, ReaderFlags
  <2>3. CASE status # "antenna" /\ reader.searchStatus
    BY <2>1, <2>3 DEF BgReadFailed, ReaderFlags
  <2>4. CASE status # "antenna" /\ ~reader.searchStatus
    BY <2>4 DEF BgReadFailed, ReaderFlags
  <2>5. QED
    BY <2>2, <2>3, <2>4
<1>2. acks \in Nat => acks' \in Nat
  BY DEF BgReadFailed
<1>3. tagsRemaining \in Nat => tagsRemaining' \in Nat
  BY DEF BgReadFailed
<1>4. QED
  BY <1>1, <1>2, <1>3

(* TypeOK is inductive: whatever the interleaving, every flag, counter and *)
(* queue entry of background reads keeps its type.                         *)
THEOREM TypeCorrect == Spec => []TypeOK
<1> USE DEF queueVars, waitVars, linkVars, serialVars, moduleVars, parseVars,
            appVars
<1>1. Init => TypeOK
  <2> SUFFICES ASSUME Init PROVE TypeOK
    OBVIOUS
  <2>1. reader \in ReaderFlags
    BY DEF Init, ReaderFlags
  <2>2. apc \in AppControl
    BY DEF Init, AppControl
  <2>3. queue \in Seq(Int) /\ delivered \in Seq(Int)
    BY DEF Init
  <2>4. session \in BOOLEAN /\ searching \in BOOLEAN
    BY DEF Init
  <2>5. QED
    BY <2>1, <2>2, <2>3, <2>4, BoundsAssumption
    DEF Init, TypeOK, ReaderControl, ParserControl, Stale
<1>2. TypeOK /\ [Next]_vars => TypeOK'
  <2> SUFFICES ASSUME TypeOK, [Next]_vars PROVE TypeOK'
    OBVIOUS
  <2> USE SlotsAssumption, BoundsAssumption
  <2>1. reader \in ReaderFlags /\ apc \in AppControl
    BY DEF TypeOK
  <2>2. ASSUME NEW a \in Apps, StartReading(a) PROVE TypeOK'
    <3>1. reader' \in ReaderFlags
      BY <2>2, <2>1 DEF StartReading, ReaderFlags
    <3>2. apc' \in AppControl
      BY <2>2, <2>1 DEF StartReading, AppControl, Running, Closing, Goto
    <3>3. QED
      BY SMTT(30), <2>2, <3>1, <3>2 DEF StartReading, TypeOK, ReaderControl, ParserControl
  <2>3. ASSUME NEW a \in Apps, StartParser(a) PROVE TypeOK'
    <3>1. reader' \in ReaderFlags
      BY <2>3, <2>1 DEF StartParser, ReaderFlags
    <3>2. apc' \in AppControl
      BY <2>3, <2>1 DEF StartParser, AppControl, Running, Closing, Goto
    <3>3. QED
      BY SMTT(30), <2>3, <3>1, <3>2 DEF StartParser, TypeOK, ReaderControl, ParserControl
  <2>4. ASSUME NEW a \in Apps, StartReader(a) PROVE TypeOK'
    <3>1. reader' \in ReaderFlags
      BY <2>4, <2>1 DEF StartReader, ReaderFlags
    <3>2. apc' \in AppControl
      BY <2>4, <2>1 DEF StartReader, AppControl, Running, Closing, Goto
    <3>3. QED
      BY <2>4, <3>1, <3>2 DEF StartReader, TypeOK, ReaderControl, ParserControl
  <2>5. ASSUME NEW a \in Apps, StartWait(a) PROVE TypeOK'
    <3>1. apc' \in AppControl
      BY <2>5, <2>1 DEF StartWait, AwaitRead, AppControl, Running, Closing, Goto
    <3>2. QED
      BY <2>5, <3>1
      DEF StartWait, AwaitRead, TypeOK, ReaderControl, ParserControl
  <2>6. ASSUME NEW a \in Apps, StopReading(a) PROVE TypeOK'
    <3>1. reader' \in ReaderFlags
      BY <2>6, <2>1 DEF StopReading, ReaderFlags
    <3>2. apc' \in AppControl
      BY <2>6, <2>1 DEF StopReading, AppControl, Running, Closing, Goto
    <3>3. QED
      BY ZenonT(40), <2>6, <3>1, <3>2 DEF StopReading, TypeOK, ReaderControl, ParserControl
  <2>7. ASSUME NEW a \in Apps, StopStarted(a) PROVE TypeOK'
    <3>1. apc' \in AppControl
      BY <2>7, <2>1
      DEF StopStarted, AwaitRead, AppControl, Running, Closing, Goto
    <3>2. QED
      BY <2>7, <3>1
      DEF StopStarted, AwaitRead, TypeOK, ReaderControl, ParserControl
  <2>8. ASSUME NEW a \in Apps, StopCheck(a) PROVE TypeOK'
    <3>1. apc' \in AppControl
      BY <2>8, <2>1 DEF StopCheck, AppControl, Running, Closing, Goto
    <3>2. QED
      BY <2>8, <3>1 DEF StopCheck, TypeOK, ReaderControl, ParserControl
  <2>9. ASSUME NEW a \in Apps, StopSend(a) PROVE TypeOK'
    <3>1. apc' \in AppControl
      BY <2>9, <2>1 DEF StopSend, AppControl, Running, Goto
    <3>2. searching' \in BOOLEAN
      BY <2>9 DEF StopSend, StopModule, TypeOK
    <3>3. acks' \in Nat
      BY <2>9 DEF StopSend, StopModule, TypeOK
    <3>4. QED
      BY <2>9, <3>1, <3>2, <3>3 DEF StopSend, TypeOK
  <2>10. ASSUME NEW a \in Apps, StopDone(a) PROVE TypeOK'
    <3>1. apc' \in AppControl
      BY <2>10, <2>1 DEF StopDone, AwaitRead, AppControl, Running, Closing, Goto
    <3>2. QED
      BY <2>10, <3>1
      DEF StopDone, AwaitRead, TypeOK, ReaderControl, ParserControl
  <2>11. ASSUME NEW a \in Apps, StopDisable(a) PROVE TypeOK'
    <3>1. reader' \in ReaderFlags
      BY <2>11, <2>1 DEF StopDisable, AwaitIdle, ReaderFlags
    <3>2. apc' \in AppControl
      BY <2>11, <2>1
      DEF StopDisable, AwaitIdle, AppControl, Running, Closing, Goto
    <3>3. QED
      BY SMTT(30), <2>11, <3>1, <3>2
      DEF StopDisable, AwaitIdle, TypeOK, ReaderControl, ParserControl
  <2>12. ASSUME NEW a \in Apps, StopIdle(a) PROVE TypeOK'
    <3>1. apc' \in AppControl
      BY <2>12, <2>1 DEF StopIdle, AwaitIdle, AppControl, Running, Closing, Goto
    <3>2. QED
      BY <2>12, <3>1
      DEF StopIdle, AwaitIdle, TypeOK, ReaderControl, ParserControl
  <2>13. ASSUME NEW a \in Apps, StopReset(a) PROVE TypeOK'
    <3>1. reader' \in ReaderFlags
      BY <2>13, <2>1 DEF StopReset, ReaderFlags
    <3>2. apc' \in AppControl
      BY <2>13, <2>1 DEF StopReset, AppControl, Running, Closing, Goto
    <3>3. QED
      BY <2>13, <3>1, <3>2 DEF StopReset, TypeOK, ReaderControl, ParserControl
  <2>14. ASSUME NEW a \in Apps, Destroy(a) PROVE TypeOK'
    <3>1. reader' \in ReaderFlags
      BY <2>14, <2>1 DEF Destroy, ReaderFlags
    <3>2. apc' \in AppControl
      BY <2>14, <2>1 DEF Destroy, AppControl, Running, Closing, Goto
    <3>3. QED
      BY <2>14, <3>1, <3>2 DEF Destroy, TypeOK, ReaderControl, ParserControl
  <2>15. ASSUME NEW a \in Apps, Cleanup(a) PROVE TypeOK'
    <3>1. reader' \in ReaderFlags
      BY <2>15, <2>1 DEF Cleanup, ReaderFlags
    <3>2. apc' \in AppControl
      BY <2>15, <2>1 DEF Cleanup, AppControl, Running, Closing, Goto
    <3>3. QED
      BY <2>15, <3>1, <3>2 DEF Cleanup, TypeOK, ReaderControl, ParserControl
  <2>16. ASSUME NEW a \in Apps, Join(a) PROVE TypeOK'
    <3>1. apc' \in AppControl
      BY <2>16, <2>1 DEF Join, AppControl, Running, Closing, Goto
    <3>2. QED
      BY <2>16, <3>1 DEF Join, TypeOK, ReaderControl, ParserControl
  <2>17. ASSUME NEW a \in Apps, CancelParser(a) PROVE TypeOK'
    <3>1. apc' \in AppControl
      BY <2>17, <2>1 DEF CancelParser, AppControl, Running, Closing, Goto
    <3>2. QED
      BY <2>17, <3>1 DEF CancelParser, TypeOK, ReaderControl, ParserControl
  <2>18. CASE BgTop
    <3>1. reader' \in ReaderFlags
      BY ZenonT(40), <2>18, <2>1 DEF BgTop, Proceed, ReaderFlags
    <3>2. QED
      BY <2>18, <3>1 DEF BgTop, Proceed, TypeOK, ReaderControl, ParserControl
  <2>19. CASE BgWake
    <3>1. reader' \in ReaderFlags
      BY ZenonT(40), <2>19, <2>1 DEF BgWake, Proceed, ReaderFlags
    <3>2. QED
      BY <2>19, <3>1 DEF BgWake, Proceed, TypeOK, ReaderControl, ParserControl
  <2>20. CASE BgReadDone
    <3>1. reader' \in ReaderFlags
      BY <2>20, <2>1 DEF BgReadDone, SearchDone, ReaderFlags
    <3>2. searching' \in BOOLEAN
      BY <2>20 DEF BgReadDone, SearchDone, TypeOK
    <3>3. acks' \in Nat
      BY SMTT(30), <2>20 DEF BgReadDone, SearchDone, TypeOK
    <3>4. tagsRemaining' \in Nat /\ unread' \in Nat /\ nextTag' \in Nat \ {0}
      <4>1. unread \in Nat /\ nextTag \in Nat \ {0}
        BY DEF TypeOK
      <4>2. CASE reader.continuousReading
        BY <2>20, <4>1, <4>2 DEF BgReadDone, SearchDone
      <4>3. CASE ~reader.continuousReading
        BY <2>20, <4>1, <4>3 DEF BgReadDone, SearchDone
      <4>4. QED
        BY <4>2, <4>3
    <3>5. QED
      BY <2>20, <3>1, <3>2, <3>3, <3>4 DEF BgReadDone, SearchDone, TypeOK, ReaderControl
  <2>21. ASSUME NEW status \in {"retry", "fatal", "antenna"},
               BgReadFailed(status)
        PROVE TypeOK'
    <3>1. reader' \in ReaderFlags
      BY <2>21, <2>1, ReadFailedType
    <3>2. acks' \in Nat /\ tagsRemaining' \in Nat
      BY <2>21, ReadFailedType DEF TypeOK
    <3>3. bpc' \in ReaderControl /\ readWaiters' \subseteq Apps
      BY <2>21 DEF BgReadFailed, TypeOK, ReaderControl
    <3>4. /\ backgroundLock' = "free"
          /\ UNCHANGED <<apc, session, starts, ppc, hand, delivered,
               backgroundWaiters, queue, queue_depth, queue_length,
               queue_slots, searching, nextTag, unread,
               tagsRemainingInBuffer, bufResponse>>
      BY <2>21 DEF BgReadFailed
    <3>5. QED
      BY <3>1, <3>2, <3>3, <3>4 DEF TypeOK
  <2>22. CASE BgDispatch
    BY <2>22 DEF BgDispatch, TypeOK, ReaderControl, ParserControl
  <2>23. CASE BgBottom
    BY <2>23 DEF BgBottom, TypeOK, ReaderControl, ParserControl
  <2>24. CASE StreamTag
    BY <2>24 DEF StreamTag, ReceiveTag, TypeOK, ReaderControl, ParserControl
  <2>25. CASE StreamStatus
    BY <2>25 DEF StreamStatus, Status, TypeOK, ReaderControl, ParserControl
  <2>26. CASE StreamLeftover
    BY <2>26 DEF StreamLeftover, TypeOK, ReaderControl, ParserControl
  <2>27. CASE StreamQuiet
    BY <2>27 DEF StreamQuiet, TypeOK, ReaderControl, ParserControl
  <2>28. CASE StreamCrc
    BY <2>28 DEF StreamCrc, TypeOK, ReaderControl, ParserControl
  <2>29. CASE StreamFull
    BY <2>29 DEF StreamFull, TypeOK, ReaderControl, ParserControl
  <2>30. CASE BgBufferFull
    BY <2>30 DEF BgBufferFull, TypeOK, ReaderControl, ParserControl
  <2>31. CASE BgResubmit
    <3>1. reader' \in ReaderFlags
      BY <2>31, <2>1 DEF BgResubmit, ReaderFlags
    <3>2. acks' \in Nat /\ nextTag' \in Nat \ {0}
      <4>1. acks \in Nat /\ nextTag \in Nat \ {0}
        BY DEF TypeOK
      <4>2. /\ acks' = acks \/ (acks > 0 /\ acks' = acks - 1)
            /\ nextTag' = nextTag \/ nextTag' = nextTag + 1
        BY <2>31 DEF BgResubmit, ReceiveTag
      <4>3. QED
        BY <4>1, <4>2
    <3>3. tagsRemainingInBuffer' \in Int /\ bufResponse' \in Int
      <4>1. /\ tagsRemainingInBuffer \in Int /\ bufResponse \in Int
            /\ nextTag \in Int
        BY DEF TypeOK
      <4>2. /\ tagsRemainingInBuffer' \in {1, tagsRemainingInBuffer}
            /\ bufResponse' \in {nextTag, bufResponse}
        BY <2>31 DEF BgResubmit, ReceiveTag
      <4>3. QED
        BY <4>1, <4>2
    <3>4. QED
      BY <2>31, <3>1, <3>2, <3>3 DEF BgResubmit, TypeOK, ReaderControl
  <2>32. CASE StreamEnd
    <3>1. reader' \in ReaderFlags
      BY <2>32, <2>1 DEF StreamEnd, ReaderFlags
    <3>2. QED
      BY SMTT(30), <2>32, <3>1 DEF StreamEnd, TypeOK, ReaderControl, ParserControl
  <2>33. CASE BgDrain
    <3>1. reader' \in ReaderFlags
      BY <2>33, <2>1 DEF BgDrain, ReadingDone, ReaderFlags
    <3>2. QED
      BY <2>33, <3>1
      DEF BgDrain, ReadingDone, TypeOK, ReaderControl, ParserControl
  <2>34. CASE StreamLost
    <3>1. searching' \in BOOLEAN
      BY <2>34 DEF StreamLost, StopModule, TypeOK
    <3>2. acks' \in Nat
      BY <2>34 DEF StreamLost, StopModule, TypeOK
    <3>3. QED
      BY <2>34, <3>1, <3>2 DEF StreamLost, TypeOK, ReaderControl
  <2>35. CASE BgForced
    <3>1. reader' \in ReaderFlags
      BY <2>35, <2>1 DEF BgForced, ReadingDone, ReaderFlags
    <3>2. QED
      BY <2>35, <3>1
      DEF BgForced, ReadingDone, TypeOK, ReaderControl, ParserControl
  <2>36. CASE BgForcedSearch
    <3>1. reader' \in ReaderFlags
      BY <2>36, <2>1 DEF BgForcedSearch, ReaderFlags
    <3>2. QED
      BY <2>36, <3>1 DEF BgForcedSearch, TypeOK, ReaderControl, ParserControl
  <2>37. CASE BgForcedReset
    <3>1. reader' \in ReaderFlags
      BY <2>37, <2>1 DEF BgForcedReset, ReaderFlags
    <3>2. QED
      BY <2>37, <3>1 DEF BgForcedReset, TypeOK, ReaderControl, ParserControl
  <2>38. CASE BgProbe
    BY <2>38 DEF BgProbe, TypeOK, ReaderControl, ParserControl
  <2>39. CASE BgNoSlot
    <3>1. reader' \in ReaderFlags
      BY <2>39, <2>1 DEF BgNoSlot, ReaderFlags
    <3>2. QED
      BY <2>39, <3>1 DEF BgNoSlot, TypeOK, ReaderControl, ParserControl
  <2>40. CASE BgVerify
    <3>1. searching' \in BOOLEAN
      BY <2>40 DEF BgVerify, StopModule
    <3>2. acks' \in Nat
      BY <2>40 DEF BgVerify, StopModule, TypeOK
    <3>3. nextTag' \in Nat \ {0}
      BY <2>40 DEF BgVerify, TypeOK
    <3>4. QED
      BY <2>40, <3>1, <3>2, <3>3 DEF BgVerify, TypeOK, ReaderControl, Stale
  <2>41. CASE BgRefill
    <3>1. reader' \in ReaderFlags
      BY <2>41, <2>1 DEF BgRefill, ReaderFlags
    <3>2. QED
      BY <2>41, <3>1 DEF BgRefill, TypeOK, ReaderControl, ParserControl
  <2>42. CASE BgTakeSlot
    BY <2>42 DEF BgTakeSlot, TypeOK, ReaderControl, ParserControl
  <2>43. CASE BgEnqueue
    BY <2>43 DEF BgEnqueue, TypeOK, ReaderControl, ParserControl
  <2>44. CASE BgSignal
    BY <2>44 DEF BgSignal, Holds, TypeOK, ReaderControl, ParserControl
  <2>45. CASE PollTag
    <3>1. delivered' \in Seq(Int)
      <4>1. delivered \in Seq(Int) /\ bufResponse \in Int
        BY DEF TypeOK
      <4>2. PICK tag \in Int : delivered' = Append(delivered, tag)
        <5>1. nextTag - unread \in Int
          BY DEF TypeOK
        <5>2. QED
          BY <2>45, <4>1, <5>1 DEF PollTag
      <4>3. QED
        BY <4>1, <4>2
    <3>2. /\ tagsRemaining' \in Nat /\ tagsRemainingInBuffer' \in Int
          /\ unread' \in Nat
      BY <2>45 DEF PollTag, TypeOK
    <3>3. QED
      BY <2>45, <3>1, <3>2 DEF PollTag, TypeOK
  <2>46. CASE PollFailed
    <3>1. reader' \in ReaderFlags
      BY <2>46, <2>1 DEF PollFailed, ReaderFlags
    <3>2. QED
      BY SMTT(30), <2>46, <3>1 DEF PollFailed, TypeOK, ReaderControl, ParserControl
  <2>47. CASE PollEnd
    BY <2>47 DEF PollEnd, TypeOK, ReaderControl, ParserControl
  <2>48. CASE ParserWait
    BY <2>48 DEF ParserWait, TypeOK, ReaderControl, ParserControl
  <2>49. CASE ParserTake
    <3>1. CASE queue = <<>>
      BY <2>49, <3>1 DEF ParserTake, TypeOK, ParserControl
    <3>2. CASE queue # <<>>
      <4>1. queue \in Seq(Int)
        BY DEF TypeOK
      <4>2. Head(queue) \in Int
        BY <3>2, <4>1
      <4>3. Tail(queue) \in Seq(Int)
        BY <3>2, <4>1
      <4>4. queue' \in Seq(Int) /\ hand' \in Int
        BY <2>49, <3>2, <4>2, <4>3 DEF ParserTake
      <4>5. queue_depth' \in Int /\ ppc' \in ParserControl
        BY <2>49, <3>2 DEF ParserTake, TypeOK, ParserControl
      <4>6. QED
        BY <2>49, <4>4, <4>5 DEF ParserTake, TypeOK
    <3>3. QED
      BY <3>1, <3>2
  <2>50. CASE ParserNotify
    BY <2>50 DEF ParserNotify, TypeOK, ReaderControl, ParserControl
  <2>51. CASE ParserRelease
    BY <2>51 DEF ParserRelease, TypeOK, ReaderControl, ParserControl
  <2>52. CASE SpuriousWakeup
    BY <2>52 DEF SpuriousWakeup, TypeOK, ReaderControl, ParserControl
  <2>53. CASE Terminated
    BY <2>53 DEF Terminated, TypeOK, vars
  <2>54. CASE UNCHANGED vars
    BY <2>54 DEF vars, TypeOK
  <2>55. QED
    BY <2>2, <2>3, <2>4, <2>5, <2>6, <2>7, <2>8, <2>9, <2>10, <2>11, <2>12,
       <2>13, <2>14, <2>15, <2>16, <2>17, <2>18, <2>19, <2>20, <2>21, <2>22,
       <2>23, <2>24, <2>25, <2>26, <2>27, <2>28, <2>29, <2>30, <2>31, <2>32,
       <2>33, <2>34, <2>35, <2>36, <2>37, <2>38, <2>39, <2>40, <2>41, <2>42,
       <2>43, <2>44, <2>45, <2>46, <2>47, <2>48, <2>49, <2>50, <2>51, <2>52,
       <2>53, <2>54
    DEF Next, Call, Calling, ReaderThread, Parser
<1>3. QED
  BY <1>1, <1>2, PTL DEF Spec


--------------------------------------------------------------------------------
(* From the choice between posting and giving up to the posted slot.       *)
Receiving ==
  {"stream", "bufferFull", "got", "noSlot", "post", "enqueue", "signal"}

(* The inductive strengthening of SlotsAccounted: as long as there is no   *)
(* parser nothing streams, so the queue it will serve is still empty; and  *)
(* there is only one reader thread.                                        *)
SlotsInv ==
  /\ SlotsAccounted
  /\ reader.parserSetup <=> ppc # "none"
  /\ bpc # "none" => reader.backgroundSetup
  /\ ppc = "none" => /\ ~reader.continuousReading /\ queue = <<>>
                     /\ bpc \notin Receiving

(* Every action preserves SlotsInv: a slot and its semaphore count move     *)
(* together with the control state of the thread that takes or posts them. *)
LEMMA SlotsStep ==
  ASSUME TypeOK, SlotsInv, [Next]_vars PROVE SlotsInv'
<1> USE DEF queueVars, waitVars, linkVars, serialVars, moduleVars, parseVars,
            appVars
<1>1. /\ reader \in ReaderFlags /\ queue \in Seq(Int)
      /\ queue_depth \in Int /\ queue_length \in Int /\ queue_slots \in Int
  BY DEF TypeOK
<1>2. ASSUME NEW a \in Apps, StartReading(a) PROVE SlotsInv'
  BY <1>2, <1>1, SlotsAssumption
  DEF StartReading, SlotsInv, SlotsAccounted, Holds, Receiving, ReaderFlags
<1>3. ASSUME NEW a \in Apps, StartParser(a) PROVE SlotsInv'
  BY <1>3, <1>1, SlotsAssumption
  DEF StartParser, SlotsInv, SlotsAccounted, Holds, Receiving, ReaderFlags
<1>4. ASSUME NEW a \in Apps, StartReader(a) PROVE SlotsInv'
  BY <1>4, <1>1, SlotsAssumption
  DEF StartReader, SlotsInv, SlotsAccounted, Holds, Receiving, ReaderFlags
<1>5. ASSUME NEW a \in Apps, StartWait(a) PROVE SlotsInv'
  BY <1>5, <1>1, SlotsAssumption
  DEF StartWait, AwaitRead, SlotsInv, SlotsAccounted, Holds, Receiving
<1>6. ASSUME NEW a \in Apps, StopReading(a) PROVE SlotsInv'
  BY <1>6, <1>1, SlotsAssumption
  DEF StopReading, SlotsInv, SlotsAccounted, Holds, Receiving, ReaderFlags
<1>7. ASSUME NEW a \in Apps, StopStarted(a) PROVE SlotsInv'
  BY <1>7, <1>1, SlotsAssumption
  DEF StopStarted, AwaitRead, SlotsInv, SlotsAccounted, Holds, Receiving
<1>8. ASSUME NEW a \in Apps, StopCheck(a) PROVE SlotsInv'
  BY <1>8, <1>1, SlotsAssumption
  DEF StopCheck, SlotsInv, SlotsAccounted, Holds, Receiving
<1>9. ASSUME NEW a \in Apps, StopSend(a) PROVE SlotsInv'
  BY <1>9, <1>1, SlotsAssumption
  DEF StopSend, StopModule, SlotsInv, SlotsAccounted, Holds, Receiving
<1>10. ASSUME NEW a \in Apps, StopDone(a) PROVE SlotsInv'
  BY <1>10, <1>1, SlotsAssumption
  DEF StopDone, AwaitRead, SlotsInv, SlotsAccounted, Holds, Receiving
<1>11. ASSUME NEW a \in Apps, StopDisable(a) PROVE SlotsInv'
  BY <1>11, <1>1, SlotsAssumption
  DEF StopDisable, AwaitIdle, SlotsInv, SlotsAccounted, Holds, Receiving,
      ReaderFlags
<1>12. ASSUME NEW a \in Apps, StopIdle(a) PROVE SlotsInv'
  BY <1>12, <1>1, SlotsAssumption
  DEF StopIdle, AwaitIdle, SlotsInv, SlotsAccounted, Holds, Receiving
<1>13. ASSUME NEW a \in Apps, StopReset(a) PROVE SlotsInv'
  BY <1>13, <1>1, SlotsAssumption
  DEF StopReset, SlotsInv, SlotsAccounted, Holds, Receiving, ReaderFlags
<1>14. ASSUME NEW a \in Apps, Destroy(a) PROVE SlotsInv'
  BY <1>14, <1>1, SlotsAssumption
  DEF Destroy, SlotsInv, SlotsAccounted, Holds, Receiving, ReaderFlags
<1>15. ASSUME NEW a \in Apps, Cleanup(a) PROVE SlotsInv'
  BY <1>15, <1>1, SlotsAssumption
  DEF Cleanup, SlotsInv, SlotsAccounted, Holds, Receiving, ReaderFlags
<1>16. ASSUME NEW a \in Apps, Join(a) PROVE SlotsInv'
  BY <1>16, <1>1, SlotsAssumption
  DEF Join, SlotsInv, SlotsAccounted, Holds, Receiving
<1>17. ASSUME NEW a \in Apps, CancelParser(a) PROVE SlotsInv'
  BY <1>17, <1>1, SlotsAssumption
  DEF CancelParser, SlotsInv, SlotsAccounted, Holds, Receiving
<1>18. CASE BgTop
  BY <1>18, <1>1, SlotsAssumption
  DEF BgTop, Proceed, LockFree, SlotsInv, SlotsAccounted, Holds, Receiving,
      ReaderFlags
<1>19. CASE BgWake
  BY <1>19, <1>1, SlotsAssumption
  DEF BgWake, Proceed, SlotsInv, SlotsAccounted, Holds, Receiving, ReaderFlags
<1>20. CASE BgReadDone
  BY <1>20, <1>1, SlotsAssumption
  DEF BgReadDone, SearchDone, SlotsInv, SlotsAccounted, Holds, Receiving, ReaderFlags
<1>21. ASSUME NEW status \in {"retry", "fatal", "antenna"},
              BgReadFailed(status)
      PROVE SlotsInv'
  BY ZenonT(40), <1>21, <1>1, SlotsAssumption
  DEF BgReadFailed, SlotsInv, SlotsAccounted, Holds, Receiving, ReaderFlags
<1>22. CASE BgDispatch
  BY <1>22, <1>1, SlotsAssumption
  DEF BgDispatch, SlotsInv, SlotsAccounted, Holds, Receiving
<1>23. CASE BgBottom
  BY <1>23, <1>1, SlotsAssumption
  DEF BgBottom, SlotsInv, SlotsAccounted, Holds, Receiving
<1>24. CASE StreamTag
  BY <1>24, <1>1, SlotsAssumption
  DEF StreamTag, ReceiveTag, Streaming, SlotsInv, SlotsAccounted, Holds,
      Receiving
<1>25. CASE StreamStatus
  BY <1>25, <1>1, SlotsAssumption
  DEF StreamStatus, Status, Streaming, SlotsInv, SlotsAccounted, Holds,
      Receiving
<1>26. CASE StreamLeftover
  BY <1>26, <1>1, SlotsAssumption
  DEF StreamLeftover, SlotsInv, SlotsAccounted, Holds, Receiving
<1>27. CASE StreamQuiet
  BY <1>27, <1>1, SlotsAssumption
  DEF StreamQuiet, Streaming, SlotsInv, SlotsAccounted, Holds, Receiving
<1>28. CASE StreamCrc
  BY <1>28, <1>1, SlotsAssumption
  DEF StreamCrc, Streaming, SlotsInv, SlotsAccounted, Holds, Receiving
<1>29. CASE StreamFull
  BY <1>29, <1>1, SlotsAssumption
  DEF StreamFull, Streaming, SlotsInv, SlotsAccounted, Holds, Receiving
<1>30. CASE BgBufferFull
  BY <1>30, <1>1, SlotsAssumption
  DEF BgBufferFull, SlotsInv, SlotsAccounted, Holds, Receiving
<1>31. CASE BgResubmit
  BY <1>31, <1>1, SlotsAssumption
  DEF BgResubmit, ReceiveTag, SlotsInv, SlotsAccounted, Holds, Receiving,
      ReaderFlags
<1>32. CASE StreamEnd
  BY <1>32, <1>1, SlotsAssumption
  DEF StreamEnd, Streaming, SlotsInv, SlotsAccounted, Holds, Receiving,
      ReaderFlags
<1>33. CASE BgDrain
  BY <1>33, <1>1, SlotsAssumption
  DEF BgDrain, ReadingDone, SlotsInv, SlotsAccounted, Holds, Receiving,
      ReaderFlags
<1>34. CASE StreamLost
  BY <1>34, <1>1, SlotsAssumption
  DEF StreamLost, StopModule, Streaming, SlotsInv, SlotsAccounted, Holds,
      Receiving
<1>35. CASE BgForced
  BY <1>35, <1>1, SlotsAssumption
  DEF BgForced, ReadingDone, SlotsInv, SlotsAccounted, Holds, Receiving,
      ReaderFlags
<1>36. CASE BgForcedSearch
  BY <1>36, <1>1, SlotsAssumption
  DEF BgForcedSearch, SlotsInv, SlotsAccounted, Holds, Receiving, ReaderFlags
<1>37. CASE BgForcedReset
  BY <1>37, <1>1, SlotsAssumption
  DEF BgForcedReset, SlotsInv, SlotsAccounted, Holds, Receiving, ReaderFlags
<1>38. CASE BgProbe
  BY <1>38, <1>1, SlotsAssumption
  DEF BgProbe, SlotsInv, SlotsAccounted, Holds, Receiving
<1>39. CASE BgNoSlot
  BY <1>39, <1>1, SlotsAssumption
  DEF BgNoSlot, SlotsInv, SlotsAccounted, Holds, Receiving, ReaderFlags
<1>40. CASE BgVerify
  BY <1>40, <1>1, SlotsAssumption
  DEF BgVerify, StopModule, Stale, SlotsInv, SlotsAccounted, Holds, Receiving
<1>41. CASE BgRefill
  BY <1>41, <1>1, SlotsAssumption
  DEF BgRefill, SlotsInv, SlotsAccounted, Holds, Receiving, ReaderFlags
<1>42. CASE BgTakeSlot
  BY <1>42, <1>1, SlotsAssumption
  DEF BgTakeSlot, SlotsInv, SlotsAccounted, Holds, Receiving
<1>43. CASE BgEnqueue
  BY <1>43, <1>1, SlotsAssumption
  DEF BgEnqueue, SlotsInv, SlotsAccounted, Holds, Receiving
<1>44. CASE BgSignal
  BY <1>44, <1>1, SlotsAssumption
  DEF BgSignal, SlotsInv, SlotsAccounted, Holds, Receiving
<1>45. CASE PollTag
  BY <1>45, <1>1, SlotsAssumption
  DEF PollTag, SlotsInv, SlotsAccounted, Holds, Receiving
<1>46. CASE PollFailed
  BY <1>46, <1>1, SlotsAssumption
  DEF PollFailed, SlotsInv, SlotsAccounted, Holds, Receiving, ReaderFlags
<1>47. CASE PollEnd
  BY <1>47, <1>1, SlotsAssumption
  DEF PollEnd, SlotsInv, SlotsAccounted, Holds, Receiving
<1>48. CASE ParserWait
  BY <1>48, <1>1, SlotsAssumption
  DEF ParserWait, SlotsInv, SlotsAccounted, Holds, Receiving
<1>49. CASE ParserTake
  <2>1. queue # <<>> /\ Len(queue) >= 1
    BY <1>49, <1>1 DEF ParserTake, SlotsInv, SlotsAccounted, Holds
  <2>2. Len(Tail(queue)) = Len(queue) - 1
    BY <1>1, <2>1
  <2>3. /\ ppc' = "notify" /\ queue' = Tail(queue)
        /\ queue_depth' = queue_depth - 1
        /\ UNCHANGED <<reader, bpc, queue_length, queue_slots>>
        /\ ppc = "take"
    BY <1>49, <2>1 DEF ParserTake
  <2>4. /\ Len(queue') = Len(queue) - 1 /\ Len(queue) \in Nat
    BY <1>1, <2>2, <2>3
  <2>5. /\ queue_depth = Len(queue)
        /\ queue_slots + Holds(bpc = "enqueue") + Len(queue) = Slots
        /\ queue_length + Holds(bpc = "signal") + 1 = Len(queue)
        /\ queue_slots >= 0 /\ queue_length >= 0
    BY <1>1, <2>3 DEF SlotsInv, SlotsAccounted, Holds
  <2>6. /\ Holds(ppc' \in {"notify", "release"}) = 1 /\ Holds(ppc' = "take") = 0
        /\ Holds(bpc' = "enqueue") = Holds(bpc = "enqueue")
        /\ Holds(bpc' = "signal") = Holds(bpc = "signal")
    BY <2>3 DEF Holds
  <2>7. Holds(bpc = "enqueue") \in Nat /\ Holds(bpc = "signal") \in Nat
    BY DEF Holds
  <2> HIDE DEF queueVars
  <2>8. queue_depth' = Len(queue')
    BY <2>3, <2>4, <2>5
  <2>9. queue_slots' + Holds(bpc' = "enqueue") + Len(queue')
          + Holds(ppc' \in {"notify", "release"}) = Slots
    BY SMTT(30), <1>1, <2>3, <2>4, <2>5, <2>6, <2>7
  <2>10. /\ queue_length' + Holds(bpc' = "signal") + Holds(ppc' = "take")
               = Len(queue')
         /\ queue_slots' >= 0 /\ queue_length' >= 0
    BY <1>1, <2>3, <2>4, <2>5, <2>6, <2>7
  <2>11. SlotsAccounted'
    BY <2>8, <2>9, <2>10 DEF SlotsAccounted
  <2>12. QED
    BY <1>49, <2>3, <2>11 DEF ParserTake, SlotsInv
<1>50. CASE ParserNotify
  BY <1>50, <1>1, SlotsAssumption
  DEF ParserNotify, SlotsInv, SlotsAccounted, Holds, Receiving
<1>51. CASE ParserRelease
  BY <1>51, <1>1, SlotsAssumption
  DEF ParserRelease, SlotsInv, SlotsAccounted, Holds, Receiving
<1>52. CASE SpuriousWakeup
  BY <1>52, <1>1, SlotsAssumption
  DEF SpuriousWakeup, SlotsInv, SlotsAccounted, Holds, Receiving
<1>53. CASE Terminated
  BY <1>53, <1>1, SlotsAssumption
  DEF Terminated, vars, SlotsInv, SlotsAccounted, Holds, Receiving
<1>54. CASE UNCHANGED vars
  BY <1>54 DEF vars, SlotsInv, SlotsAccounted, Holds, Receiving
<1>55. QED
  BY <1>2, <1>3, <1>4, <1>5, <1>6, <1>7, <1>8, <1>9, <1>10, <1>11, <1>12, <1>13,
     <1>14, <1>15, <1>16, <1>17, <1>18, <1>19, <1>20, <1>21, <1>22, <1>23,
     <1>24, <1>25, <1>26, <1>27, <1>28, <1>29, <1>30, <1>31, <1>32, <1>33,
     <1>34, <1>35, <1>36, <1>37, <1>38, <1>39, <1>40, <1>41, <1>42, <1>43,
     <1>44, <1>45, <1>46, <1>47, <1>48, <1>49, <1>50, <1>51, <1>52, <1>53, <1>54
  DEF Next, Call, Calling, ReaderThread, Parser

(* SlotsInv holds in every state.                                          *)
LEMMA SlotsInvariant == Spec => []SlotsInv
<1>1. Init => SlotsInv
  BY DEF Init, SlotsInv, SlotsAccounted, Receiving
<1>2. TypeOK /\ SlotsInv /\ [Next]_vars => SlotsInv'
  BY SlotsStep
<1>3. QED
  BY <1>1, <1>2, TypeCorrect, PTL DEF Spec

(* The queue's semaphores, its depth and its contents agree in every state *)
(* (SlotsAccounted), for any number of slots and application threads.      *)
THEOREM SlotsCorrect == Spec => []SlotsAccounted
<1>1. SlotsInv => SlotsAccounted
  BY DEF SlotsInv
<1>2. QED
  BY <1>1, SlotsInvariant, PTL

(* A consequence: the queue never outgrows TMR_MAX_QUEUE_SLOTS, and the     *)
(* unsigned queue_depth that the parser decrements is never zero then.     *)
THEOREM QueueBounded ==
  Spec => [](ppc # "none" => /\ Len(queue) <= Slots
                             /\ ppc = "take" => queue_depth > 0)
<1>1. ASSUME TypeOK, SlotsAccounted, ppc # "none"
      PROVE  Len(queue) <= Slots /\ (ppc = "take" => queue_depth > 0)
  <2>1. Len(queue) \in Nat
    BY <1>1 DEF TypeOK
  <2>2. /\ Holds(bpc = "enqueue") \in {0, 1} /\ Holds(bpc = "signal") \in {0, 1}
        /\ Holds(ppc \in {"notify", "release"}) \in {0, 1}
    BY DEF Holds
  <2>3. /\ Holds(ppc = "take") \in {0, 1}
        /\ ppc = "take" => Holds(ppc = "take") = 1
    BY DEF Holds
  <2>4. queue_length \in Int /\ queue_slots \in Int /\ queue_depth \in Int
    BY <1>1 DEF TypeOK
  <2>5. QED
    BY <1>1, <2>1, <2>2, <2>3, <2>4, SlotsAssumption DEF SlotsAccounted
<1>2. TypeOK /\ SlotsAccounted =>
        (ppc # "none" => /\ Len(queue) <= Slots
                         /\ ppc = "take" => queue_depth > 0)
  BY <1>1
<1>3. QED
  BY <1>2, TypeCorrect, SlotsCorrect, PTL

--------------------------------------------------------------------------------
(* The reader thread is in a search it has started.                        *)
Searching ==
  {"dispatch", "poll", "drain", "forced", "forcedSearch", "resubmit",
   "overflow", "refill"} \cup Receiving

Starting == {"startParser", "startReader"}
Stopping == {"stopStarted", "stopCheck", "stopSend", "stopDone",
             "stopDisable", "stopIdle", "stopReset"}

(* Nothing has the reader thread read, and it does not.                    *)
Off == ~reader.backgroundEnabled /\ bpc \notin Searching \cup {"reading"}

(* The inductive strengthening of LineExclusive.                           *)
LineInv ==
  /\ bpc = "reading" => backgroundLock = "bg" /\ reader.backgroundEnabled
  /\ bpc \in Searching => reader.backgroundRunning
  /\ bpc = "forcedSearch" => ~reader.backgroundEnabled
  /\ reader.searchStatus => reader.backgroundSetup
  /\ ~session => Off /\ ~reader.searchStatus
  /\ \A a \in Apps :
       /\ apc[a] \in Starting =>
            /\ Off /\ ~reader.searchStatus /\ session
            /\ \A b \in Apps \ {a} : apc[b] = "idle"
       /\ apc[a] \in Stopping => ~reader.searchStatus
       /\ apc[a] \in {"stopIdle", "stopReset"} => ~reader.backgroundEnabled
       /\ apc[a] = "stopReset" => ~reader.backgroundRunning
  /\ session /\ ~reader.searchStatus
       /\ (\A a \in Apps : apc[a] \in {"idle", "startWait"})
     => Off

(* Every action preserves LineInv.  The reader thread enters a search only  *)
(* while backgroundEnabled holds, only TMR_startReading sets that flag, and *)
(* TMR_stopReading clears it before it waits for backgroundRunning.        *)
LEMMA LineStep ==
  ASSUME TypeOK, LineInv, [Next]_vars PROVE LineInv'
<1> USE DEF queueVars, waitVars, linkVars, serialVars, moduleVars, parseVars,
            appVars
<1>1. reader \in ReaderFlags /\ apc \in AppControl
  BY DEF TypeOK
<1>2. ASSUME NEW a \in Apps, StartReading(a) PROVE LineInv'
  BY <1>2, <1>1
  DEF StartReading, LineInv, Off, Searching, Receiving, Starting, Stopping,
      ReaderFlags, AppControl, Goto, Quiet, LockFree
<1>3. ASSUME NEW a \in Apps, StartParser(a) PROVE LineInv'
  BY <1>3, <1>1
  DEF StartParser, LineInv, Off, Searching, Receiving, Starting, Stopping,
      ReaderFlags, AppControl, Goto, Quiet, LockFree
<1>4. ASSUME NEW a \in Apps, StartReader(a) PROVE LineInv'
  BY <1>4, <1>1
  DEF StartReader, LineInv, Off, Searching, Receiving, Starting, Stopping,
      ReaderFlags, AppControl, Goto, Quiet, LockFree
<1>5. ASSUME NEW a \in Apps, StartWait(a) PROVE LineInv'
  BY <1>5, <1>1
  DEF StartWait, AwaitRead, LineInv, Off, Searching, Receiving, Starting,
      Stopping, AppControl, Goto, Quiet, LockFree
<1>6. ASSUME NEW a \in Apps, StopReading(a) PROVE LineInv'
  BY <1>6, <1>1
  DEF StopReading, LineInv, Off, Searching, Receiving, Starting, Stopping,
      ReaderFlags, AppControl, Goto, Quiet, LockFree
<1>7. ASSUME NEW a \in Apps, StopStarted(a) PROVE LineInv'
  BY <1>7, <1>1
  DEF StopStarted, AwaitRead, LineInv, Off, Searching, Receiving, Starting,
      Stopping, AppControl, Goto, Quiet, LockFree
<1>8. ASSUME NEW a \in Apps, StopCheck(a) PROVE LineInv'
  BY <1>8, <1>1
  DEF StopCheck, LineInv, Off, Searching, Receiving, Starting, Stopping,
      AppControl, Goto, Quiet, LockFree
<1>9. ASSUME NEW a \in Apps, StopSend(a) PROVE LineInv'
  BY <1>9, <1>1
  DEF StopSend, StopModule, LineInv, Off, Searching, Receiving, Starting,
      Stopping, AppControl, Goto, Quiet, LockFree
<1>10. ASSUME NEW a \in Apps, StopDone(a) PROVE LineInv'
  BY <1>10, <1>1
  DEF StopDone, AwaitRead, LineInv, Off, Searching, Receiving, Starting,
      Stopping, AppControl, Goto, Quiet, LockFree
<1>11. ASSUME NEW a \in Apps, StopDisable(a) PROVE LineInv'
  BY <1>11, <1>1
  DEF StopDisable, AwaitIdle, LineInv, Off, Searching, Receiving, Starting,
      Stopping, ReaderFlags, AppControl, Goto, Quiet, LockFree
<1>12. ASSUME NEW a \in Apps, StopIdle(a) PROVE LineInv'
  BY <1>12, <1>1
  DEF StopIdle, AwaitIdle, LineInv, Off, Searching, Receiving, Starting,
      Stopping, AppControl, Goto, Quiet, LockFree
<1>13. ASSUME NEW a \in Apps, StopReset(a) PROVE LineInv'
  BY <1>13, <1>1
  DEF StopReset, LineInv, Off, Searching, Receiving, Starting, Stopping,
      ReaderFlags, AppControl, Goto, Quiet, LockFree
<1>14. ASSUME NEW a \in Apps, Destroy(a) PROVE LineInv'
  BY <1>14, <1>1
  DEF Destroy, LineInv, Off, Searching, Receiving, Starting, Stopping,
      ReaderFlags, AppControl, Goto, Quiet, LockFree
<1>15. ASSUME NEW a \in Apps, Cleanup(a) PROVE LineInv'
  BY <1>15, <1>1
  DEF Cleanup, LineInv, Off, Searching, Receiving, Starting, Stopping,
      ReaderFlags, AppControl, Goto, Quiet, LockFree
<1>16. ASSUME NEW a \in Apps, Join(a) PROVE LineInv'
  BY <1>16, <1>1
  DEF Join, LineInv, Off, Searching, Receiving, Starting, Stopping, AppControl,
      Goto, Quiet, LockFree
<1>17. ASSUME NEW a \in Apps, CancelParser(a) PROVE LineInv'
  BY <1>17, <1>1
  DEF CancelParser, LineInv, Off, Searching, Receiving, Starting, Stopping,
      AppControl, Goto, Quiet, LockFree
<1>18. CASE BgTop
  <2>1. CASE reader.backgroundEnabled /\ reader.trueAsyncflag
    BY <1>18, <2>1, <1>1
    DEF BgTop, Proceed, LockFree, LineInv, Off, Searching, Receiving, Starting,
        Stopping, ReaderFlags
  <2>2. CASE reader.backgroundEnabled /\ ~reader.trueAsyncflag
    BY <1>18, <2>2, <1>1
    DEF BgTop, Proceed, LockFree, LineInv, Off, Searching, Receiving, Starting,
        Stopping, ReaderFlags
  <2>3. CASE ~reader.backgroundEnabled
    <3>1. /\ ~reader'.backgroundEnabled /\ ~reader'.backgroundRunning
          /\ reader'.searchStatus = reader.searchStatus
          /\ reader'.backgroundSetup = reader.backgroundSetup
          /\ bpc' = "disabled" /\ UNCHANGED <<apc, session>>
      BY <1>18, <2>3, <1>1 DEF BgTop, ReaderFlags
    <3>2. QED
      BY <3>1, <1>1 DEF LineInv, Off, Searching, Receiving, Starting, Stopping
  <2>4. QED
    BY <2>1, <2>2, <2>3
<1>19. CASE BgWake
  BY <1>19, <1>1
  DEF BgWake, Proceed, LineInv, Off, Searching, Receiving, Starting, Stopping,
      ReaderFlags
<1>20. CASE BgReadDone
  BY <1>20, <1>1
  DEF BgReadDone, SearchDone, LineInv, Off, Searching, Receiving, Starting, Stopping,
      ReaderFlags
<1>21. ASSUME NEW status \in {"retry", "fatal", "antenna"},
              BgReadFailed(status)
      PROVE LineInv'
  BY ZenonT(40), <1>21, <1>1
  DEF BgReadFailed, LineInv, Off, Searching, Receiving, Starting, Stopping,
      ReaderFlags
<1>22. CASE BgDispatch
  BY <1>22, <1>1
  DEF BgDispatch, LineInv, Off, Searching, Receiving, Starting, Stopping
<1>23. CASE BgBottom
  BY <1>23, <1>1
  DEF BgBottom, LineInv, Off, Searching, Receiving, Starting, Stopping
<1>24. CASE StreamTag
  BY <1>24, <1>1
  DEF StreamTag, ReceiveTag, Streaming, LineInv, Off, Searching, Receiving,
      Starting, Stopping
<1>25. CASE StreamStatus
  BY <1>25, <1>1
  DEF StreamStatus, Status, Streaming, LineInv, Off, Searching, Receiving,
      Starting, Stopping
<1>26. CASE StreamLeftover
  BY <1>26, <1>1
  DEF StreamLeftover, LineInv, Off, Searching, Receiving, Starting, Stopping
<1>27. CASE StreamQuiet
  BY <1>27, <1>1
  DEF StreamQuiet, Streaming, LineInv, Off, Searching, Receiving, Starting,
      Stopping
<1>28. CASE StreamCrc
  BY <1>28, <1>1
  DEF StreamCrc, Streaming, LineInv, Off, Searching, Receiving, Starting,
      Stopping
<1>29. CASE StreamFull
  BY <1>29, <1>1
  DEF StreamFull, Streaming, LineInv, Off, Searching, Receiving, Starting,
      Stopping
<1>30. CASE BgBufferFull
  BY <1>30, <1>1
  DEF BgBufferFull, LineInv, Off, Searching, Receiving, Starting, Stopping
<1>31. CASE BgResubmit
  BY <1>31, <1>1
  DEF BgResubmit, ReceiveTag, LineInv, Off, Searching, Receiving, Starting,
      Stopping, ReaderFlags
<1>32. CASE StreamEnd
  BY <1>32, <1>1
  DEF StreamEnd, Streaming, LineInv, Off, Searching, Receiving, Starting,
      Stopping, ReaderFlags
<1>33. CASE BgDrain
  BY <1>33, <1>1
  DEF BgDrain, ReadingDone, LineInv, Off, Searching, Receiving, Starting,
      Stopping, ReaderFlags
<1>34. CASE StreamLost
  BY <1>34, <1>1
  DEF StreamLost, StopModule, Streaming, LineInv, Off, Searching, Receiving,
      Starting, Stopping
<1>35. CASE BgForced
  BY <1>35, <1>1
  DEF BgForced, ReadingDone, LineInv, Off, Searching, Receiving, Starting,
      Stopping, ReaderFlags
<1>36. CASE BgForcedSearch
  BY <1>36, <1>1
  DEF BgForcedSearch, LineInv, Off, Searching, Receiving, Starting, Stopping,
      ReaderFlags
<1>37. CASE BgForcedReset
  BY <1>37, <1>1
  DEF BgForcedReset, LineInv, Off, Searching, Receiving, Starting, Stopping,
      ReaderFlags
<1>38. CASE BgProbe
  BY <1>38, <1>1
  DEF BgProbe, LineInv, Off, Searching, Receiving, Starting, Stopping
<1>39. CASE BgNoSlot
  BY <1>39, <1>1
  DEF BgNoSlot, LineInv, Off, Searching, Receiving, Starting, Stopping,
      ReaderFlags
<1>40. CASE BgVerify
  BY <1>40, <1>1
  DEF BgVerify, StopModule, Stale, LineInv, Off, Searching, Receiving, Starting,
      Stopping
<1>41. CASE BgRefill
  BY <1>41, <1>1
  DEF BgRefill, LineInv, Off, Searching, Receiving, Starting, Stopping,
      ReaderFlags
<1>42. CASE BgTakeSlot
  BY <1>42, <1>1
  DEF BgTakeSlot, LineInv, Off, Searching, Receiving, Starting, Stopping
<1>43. CASE BgEnqueue
  BY <1>43, <1>1
  DEF BgEnqueue, LineInv, Off, Searching, Receiving, Starting, Stopping
<1>44. CASE BgSignal
  BY <1>44, <1>1
  DEF BgSignal, LineInv, Off, Searching, Receiving, Starting, Stopping
<1>45. CASE PollTag
  BY <1>45, <1>1
  DEF PollTag, LineInv, Off, Searching, Receiving, Starting, Stopping
<1>46. CASE PollFailed
  BY <1>46, <1>1
  DEF PollFailed, LineInv, Off, Searching, Receiving, Starting, Stopping,
      ReaderFlags
<1>47. CASE PollEnd
  BY <1>47, <1>1
  DEF PollEnd, LineInv, Off, Searching, Receiving, Starting, Stopping
<1>48. CASE ParserWait
  BY <1>48, <1>1
  DEF ParserWait, LineInv, Off, Searching, Receiving, Starting, Stopping
<1>49. CASE ParserTake
  BY <1>49, <1>1
  DEF ParserTake, LineInv, Off, Searching, Receiving, Starting, Stopping
<1>50. CASE ParserNotify
  BY <1>50, <1>1
  DEF ParserNotify, LineInv, Off, Searching, Receiving, Starting, Stopping
<1>51. CASE ParserRelease
  BY <1>51, <1>1
  DEF ParserRelease, LineInv, Off, Searching, Receiving, Starting, Stopping
<1>52. CASE SpuriousWakeup
  BY <1>52, <1>1
  DEF SpuriousWakeup, LineInv, Off, Searching, Receiving, Starting, Stopping
<1>53. CASE Terminated
  BY <1>53, <1>1
  DEF Terminated, vars, LineInv, Off, Searching, Receiving, Starting, Stopping
<1>54. CASE UNCHANGED vars
  BY <1>54 DEF vars, LineInv, Off, Searching, Receiving, Starting, Stopping
<1>55. QED
  BY <1>2, <1>3, <1>4, <1>5, <1>6, <1>7, <1>8, <1>9, <1>10, <1>11, <1>12, <1>13,
     <1>14, <1>15, <1>16, <1>17, <1>18, <1>19, <1>20, <1>21, <1>22, <1>23,
     <1>24, <1>25, <1>26, <1>27, <1>28, <1>29, <1>30, <1>31, <1>32, <1>33,
     <1>34, <1>35, <1>36, <1>37, <1>38, <1>39, <1>40, <1>41, <1>42, <1>43,
     <1>44, <1>45, <1>46, <1>47, <1>48, <1>49, <1>50, <1>51, <1>52, <1>53, <1>54
  DEF Next, Call, Calling, ReaderThread, Parser

(* LineInv holds in every state.                                           *)
LEMMA LineInvariant == Spec => []LineInv
<1>1. Init => LineInv
  <2> SUFFICES ASSUME Init PROVE LineInv
    OBVIOUS
  <2>1. ~reader.backgroundEnabled /\ ~reader.searchStatus
    BY DEF Init
  <2>2. bpc = "none" /\ ~session /\ \A a \in Apps : apc[a] = "idle"
    BY DEF Init
  <2>3. QED
    BY <2>1, <2>2
    DEF LineInv, Off, Searching, Receiving, Starting, Stopping
<1>2. TypeOK /\ LineInv /\ [Next]_vars => LineInv'
  BY LineStep
<1>3. QED
  BY <1>1, <1>2, TypeCorrect, PTL DEF Spec

(* The application never talks to the module in the middle of an exchange  *)
(* of the reader thread (LineExclusive), though the line has no lock.      *)
THEOREM LineCorrect == Spec => []LineExclusive
<1>1. LineInv => LineExclusive
  BY DEF LineInv, LineExclusive, OnLine, Off, Searching, Receiving
<1>2. QED
  BY <1>1, LineInvariant, PTL

--------------------------------------------------------------------------------
(* The end of a search.  What follows is about a module that neither falls *)
(* silent in the middle of a search nor ends it with a full buffer.        *)

(* The streams the theorem is about.  A stream that is lost, or that the   *)
(* module ends, is stopped by force, and then TMR_stopReading may return   *)
(* with an answer still on the line.                                       *)
Undisturbed == StreamEvents \cap {"full", "lost"} = {}

AppIn(states) == \E a \in Apps : apc[a] \in states
Streams == reader.trueAsyncflag /\ reader.readState = "ACTIVE"

(* What the flags say about where the reader thread is, and the other way  *)
(* around.                                                                 *)
FlagsInv ==
  /\ bpc \notin {"bufferFull", "resubmit", "overflow", "refill", "forced",
                 "forcedSearch", "forcedReset"}
  /\ bpc = "bottom" => reader.backgroundRunning
  /\ bpc \in {"none", "disabled", "reading"} => ~reader.backgroundRunning
  /\ reader.trueAsyncflag => /\ reader.backgroundRunning
                             /\ reader.continuousReading
                             /\ reader.readState \in {"ACTIVE", "DONE"}
  /\ Streams => reader.backgroundEnabled
  /\ reader.backgroundEnabled => reader.readState \in {"STARTING", "ACTIVE"}
  /\ reader.continuousReading /\ reader.readState = "ACTIVE"
       => reader.trueAsyncflag
  /\ bpc \in Searching => reader.readState = "ACTIVE"
  /\ bpc \in Receiving \cup {"drain"} => reader.continuousReading
  /\ bpc = "poll" => ~reader.continuousReading
  /\ bpc = "dispatch" =>
       (reader.continuousReading <=> reader.trueAsyncflag)

(* What is left of a search: in the module, on the line, in the queue.     *)
LeftInv ==
  /\ searching \/ queue # <<>> => Streams
  /\ bpc = "drain" => ~searching /\ acks = 0 /\ AppIn({"stopDone"})
  /\ reader.trueAsyncflag /\ reader.readState = "DONE" =>
       AppIn({"stopDone", "stopDisable", "stopIdle"})
  /\ acks > 0 => /\ acks = 1 /\ reader.readState = "ACTIVE"
                 /\ AppIn({"stopDone"})

(* How far a call of TMR_stopReading has come, and what it knows by then.  *)
CallsInv ==
  /\ \A a \in Apps :
       /\ apc[a] \in Starting => reader.readState = "STARTING"
       /\ apc[a] \in Stopping \ {"stopStarted"} => reader.readState # "STARTING"
       /\ apc[a] \in {"stopSend", "stopDone"} => reader.continuousReading
       /\ apc[a] = "stopSend" => acks = 0 /\ reader.readState = "ACTIVE"
       /\ apc[a] \in {"stopDone", "stopDisable", "stopIdle", "stopReset"}
            => ~searching
       /\ apc[a] \in {"stopDisable", "stopIdle", "stopReset"} => ~Streams
       /\ apc[a] \in Stopping => \A b \in Apps \ {a} : apc[b] \notin Stopping
       /\ apc[a] \in Stopping \cup Starting => session
  /\ session /\ ~reader.searchStatus => AppIn(Starting \cup Stopping)
  /\ ~session => ~reader.backgroundRunning

(* The inductive strengthening of StopQuiesces.                            *)
StopInv ==
  ~reader.isBufferOverFlow => FlagsInv /\ LeftInv /\ CallsInv

(* Every action preserves StopInv.                                         *)
LEMMA StopStep ==
  ASSUME Undisturbed, TypeOK, SlotsInv, LineInv, StopInv, [Next]_vars
  PROVE  StopInv'
<1> USE DEF queueVars, waitVars, linkVars, serialVars, moduleVars, parseVars,
            appVars
<1>1. reader \in ReaderFlags /\ apc \in AppControl /\ acks \in Nat
  BY DEF TypeOK
<1>2. ASSUME NEW a \in Apps, StartReading(a) PROVE StopInv'
  BY <1>2, <1>1
  DEF StartReading, StopInv, FlagsInv, LeftInv, CallsInv, Streams, AppIn,
      LineInv, Off, Searching, Receiving, Starting, Stopping, AppControl, Goto,
      Quiet, LockFree, ReaderFlags
<1>3. ASSUME NEW a \in Apps, StartParser(a) PROVE StopInv'
  BY <1>3, <1>1
  DEF StartParser, StopInv, FlagsInv, LeftInv, CallsInv, Streams, AppIn,
      LineInv, Off, Searching, Receiving, Starting, Stopping, AppControl, Goto,
      Quiet, LockFree, ReaderFlags
<1>4. ASSUME NEW a \in Apps, StartReader(a) PROVE StopInv'
  BY <1>4, <1>1
  DEF StartReader, StopInv, FlagsInv, LeftInv, CallsInv, Streams, AppIn,
      LineInv, Off, Searching, Receiving, Starting, Stopping, AppControl, Goto,
      Quiet, LockFree, ReaderFlags
<1>5. ASSUME NEW a \in Apps, StartWait(a) PROVE StopInv'
  BY <1>5, <1>1
  DEF StartWait, AwaitRead, StopInv, FlagsInv, LeftInv, CallsInv, Streams,
      AppIn, LineInv, Off, Searching, Receiving, Starting, Stopping,
      AppControl, Goto, Quiet, LockFree
<1>6. ASSUME NEW a \in Apps, StopReading(a) PROVE StopInv'
  BY <1>6, <1>1
  DEF StopReading, StopInv, FlagsInv, LeftInv, CallsInv, Streams, AppIn,
      LineInv, Off, Searching, Receiving, Starting, Stopping, AppControl, Goto,
      Quiet, LockFree, ReaderFlags
<1>7. ASSUME NEW a \in Apps, StopStarted(a) PROVE StopInv'
  BY <1>7, <1>1
  DEF StopStarted, AwaitRead, StopInv, FlagsInv, LeftInv, CallsInv, Streams,
      AppIn, LineInv, Off, Searching, Receiving, Starting, Stopping,
      AppControl, Goto, Quiet, LockFree
<1>8. ASSUME NEW a \in Apps, StopCheck(a) PROVE StopInv'
  <2> SUFFICES ASSUME ~reader.isBufferOverFlow
                PROVE  FlagsInv' /\ LeftInv' /\ CallsInv'
    BY <1>8, <1>1
    DEF StopCheck, StopInv
  <2>0. FlagsInv /\ LeftInv /\ CallsInv
    BY DEF StopInv
  <2>1. FlagsInv'
    BY <1>8, <2>0, <1>1
    DEF StopCheck, StopInv, FlagsInv, LeftInv, CallsInv, Streams, AppIn,
        LineInv, Off, Searching, Receiving, Starting, Stopping, AppControl,
        Goto, Quiet, LockFree
  <2>2. LeftInv'
    BY <1>8, <2>0, <1>1
    DEF StopCheck, StopInv, FlagsInv, LeftInv, CallsInv, Streams, AppIn,
        LineInv, Off, Searching, Receiving, Starting, Stopping, AppControl,
        Goto, Quiet, LockFree
  <2>3. CallsInv'
    BY <1>8, <2>0, <1>1
    DEF StopCheck, StopInv, FlagsInv, LeftInv, CallsInv, Streams, AppIn,
        LineInv, Off, Searching, Receiving, Starting, Stopping, AppControl,
        Goto, Quiet, LockFree
  <2>4. QED
    BY <2>1, <2>2, <2>3
<1>9. ASSUME NEW a \in Apps, StopSend(a) PROVE StopInv'
  <2> SUFFICES ASSUME ~reader.isBufferOverFlow
                PROVE  FlagsInv' /\ LeftInv' /\ CallsInv'
    BY <1>9, <1>1
    DEF StopSend, StopModule, StopInv
  <2>0. FlagsInv /\ LeftInv /\ CallsInv
    BY DEF StopInv
  <2>1. FlagsInv'
    BY <1>9, <2>0, <1>1
    DEF StopSend, StopModule, StopInv, FlagsInv, LeftInv, CallsInv, Streams,
        AppIn, LineInv, Off, Searching, Receiving, Starting, Stopping,
        AppControl, Goto, Quiet, LockFree
  <2>2. LeftInv'
    BY <1>9, <2>0, <1>1
    DEF StopSend, StopModule, StopInv, FlagsInv, LeftInv, CallsInv, Streams,
        AppIn, LineInv, Off, Searching, Receiving, Starting, Stopping,
        AppControl, Goto, Quiet, LockFree
  <2>3. CallsInv'
    BY <1>9, <2>0, <1>1
    DEF StopSend, StopModule, StopInv, FlagsInv, LeftInv, CallsInv, Streams,
        AppIn, LineInv, Off, Searching, Receiving, Starting, Stopping,
        AppControl, Goto, Quiet, LockFree
  <2>4. QED
    BY <2>1, <2>2, <2>3
<1>10. ASSUME NEW a \in Apps, StopDone(a) PROVE StopInv'
  BY <1>10, <1>1
  DEF StopDone, AwaitRead, StopInv, FlagsInv, LeftInv, CallsInv, Streams,
      AppIn, LineInv, Off, Searching, Receiving, Starting, Stopping,
      AppControl, Goto, Quiet, LockFree
<1>11. ASSUME NEW a \in Apps, StopDisable(a) PROVE StopInv'
  BY <1>11, <1>1
  DEF StopDisable, AwaitIdle, StopInv, FlagsInv, LeftInv, CallsInv, Streams,
      AppIn, LineInv, Off, Searching, Receiving, Starting, Stopping,
      AppControl, Goto, Quiet, LockFree, ReaderFlags
<1>12. ASSUME NEW a \in Apps, StopIdle(a) PROVE StopInv'
  BY <1>12, <1>1
  DEF StopIdle, AwaitIdle, StopInv, FlagsInv, LeftInv, CallsInv, Streams,
      AppIn, LineInv, Off, Searching, Receiving, Starting, Stopping,
      AppControl, Goto, Quiet, LockFree
<1>13. ASSUME NEW a \in Apps, StopReset(a) PROVE StopInv'
  BY <1>13, <1>1
  DEF StopReset, StopInv, FlagsInv, LeftInv, CallsInv, Streams, AppIn, LineInv,
      Off, Searching, Receiving, Starting, Stopping, AppControl, Goto, Quiet,
      LockFree, ReaderFlags
<1>14. ASSUME NEW a \in Apps, Destroy(a) PROVE StopInv'
  BY <1>14, <1>1
  DEF Destroy, StopInv, FlagsInv, LeftInv, CallsInv, Streams, AppIn, LineInv,
      Off, Searching, Receiving, Starting, Stopping, AppControl, Goto, Quiet,
      LockFree, ReaderFlags
<1>15. ASSUME NEW a \in Apps, Cleanup(a) PROVE StopInv'
  BY <1>15, <1>1
  DEF Cleanup, StopInv, FlagsInv, LeftInv, CallsInv, Streams, AppIn, LineInv,
      Off, Searching, Receiving, Starting, Stopping, AppControl, Goto, Quiet,
      LockFree, ReaderFlags
<1>16. ASSUME NEW a \in Apps, Join(a) PROVE StopInv'
  BY <1>16, <1>1
  DEF Join, StopInv, FlagsInv, LeftInv, CallsInv, Streams, AppIn, LineInv, Off,
      Searching, Receiving, Starting, Stopping, AppControl, Goto, Quiet,
      LockFree
<1>17. ASSUME NEW a \in Apps, CancelParser(a) PROVE StopInv'
  BY <1>17, <1>1
  DEF CancelParser, StopInv, FlagsInv, LeftInv, CallsInv, Streams, AppIn,
      LineInv, Off, Searching, Receiving, Starting, Stopping, AppControl, Goto,
      Quiet, LockFree
<1>18. CASE BgTop
  <2>1. CASE reader.backgroundEnabled /\ reader.trueAsyncflag
    <3>1. /\ reader' = [reader EXCEPT !.backgroundRunning = TRUE]
          /\ bpc' = "dispatch" /\ bpc = "top"
          /\ UNCHANGED <<apc, session, queue, searching, acks>>
      BY <1>18, <2>1 DEF BgTop, Proceed
    <3>2. QED
      BY <3>1, <2>1, <1>1
      DEF ReaderFlags, StopInv, FlagsInv, LeftInv, CallsInv, Streams, AppIn,
          LineInv, Off, Searching, Receiving, Starting, Stopping
  <2>2. CASE reader.backgroundEnabled /\ ~reader.trueAsyncflag
    <3>1. /\ reader' = [reader EXCEPT !.backgroundRunning = FALSE]
          /\ bpc' = "reading" /\ bpc = "top"
          /\ UNCHANGED <<apc, session, queue, searching, acks>>
      BY <1>18, <2>2 DEF BgTop, Proceed
    <3>2. QED
      BY <3>1, <2>2, <1>1
      DEF ReaderFlags, StopInv, FlagsInv, LeftInv, CallsInv, Streams, AppIn,
          LineInv, Off, Searching, Receiving, Starting, Stopping
  <2>3. CASE ~reader.backgroundEnabled
    <3>1. /\ reader' = [reader EXCEPT !.backgroundRunning = FALSE,
                                      !.trueAsyncflag = FALSE]
          /\ bpc' = "disabled" /\ bpc = "top"
          /\ UNCHANGED <<apc, session, queue, searching, acks>>
      BY <1>18, <2>3 DEF BgTop
    <3>2. QED
      BY <3>1, <2>3, <1>1
      DEF ReaderFlags, StopInv, FlagsInv, LeftInv, CallsInv, Streams, AppIn,
          LineInv, Off, Searching, Receiving, Starting, Stopping
  <2>4. QED
    BY <2>1, <2>2, <2>3
<1>19. CASE BgWake
  BY <1>19, <1>1
  DEF BgWake, Proceed, StopInv, FlagsInv, LeftInv, CallsInv, Streams, AppIn,
      LineInv, Off, Searching, Receiving, Starting, Stopping, AppControl, Goto,
      Quiet, LockFree, ReaderFlags
<1>20. CASE BgReadDone
  BY <1>20, <1>1
  DEF BgReadDone, SearchDone, StopInv, FlagsInv, LeftInv, CallsInv, Streams,
      AppIn, LineInv, Off, Searching, Receiving, Starting, Stopping,
      AppControl, Goto, Quiet, LockFree, ReaderFlags
<1>21. ASSUME NEW status \in {"retry", "fatal", "antenna"},
              BgReadFailed(status)
      PROVE StopInv'
  <2>1. CASE status = "antenna"
    <3>1. /\ reader' = [reader EXCEPT !.backgroundEnabled = FALSE,
                                      !.readState = "DONE"]
          /\ bpc' = "exited" /\ bpc = "reading"
          /\ acks' = acks \/ (acks > 0 /\ acks' = acks - 1)
          /\ UNCHANGED <<apc, session, queue, searching>>
      BY <1>21, <2>1 DEF BgReadFailed
    <3>2. QED
      BY <3>1, <1>1
      DEF ReaderFlags, StopInv, FlagsInv, LeftInv, CallsInv, Streams, AppIn,
          LineInv, Off, Searching, Receiving, Starting, Stopping
  <2>2. CASE status # "antenna" /\ reader.searchStatus
    <3>1. /\ \E enabled \in {reader.backgroundEnabled, FALSE} :
               reader' = [reader EXCEPT !.backgroundEnabled = enabled]
          /\ bpc' = "top" /\ bpc = "reading"
          /\ acks' = acks \/ (acks > 0 /\ acks' = acks - 1)
          /\ UNCHANGED <<apc, session, queue, searching>>
      BY <1>21, <2>2, <1>1 DEF BgReadFailed, ReaderFlags
    <3>2. QED
      BY <3>1, <1>1
      DEF ReaderFlags, StopInv, FlagsInv, LeftInv, CallsInv, Streams, AppIn,
          LineInv, Off, Searching, Receiving, Starting, Stopping
  <2>3. CASE status # "antenna" /\ ~reader.searchStatus
    <3>1. /\ reader' = [reader EXCEPT !.readState = "STARTED",
                                      !.backgroundEnabled = FALSE]
          /\ bpc' = "top" /\ bpc = "reading"
          /\ acks' = acks \/ (acks > 0 /\ acks' = acks - 1)
          /\ UNCHANGED <<apc, session, queue, searching>>
      BY <1>21, <2>3 DEF BgReadFailed
    <3>2. QED
      BY <3>1, <1>1
      DEF ReaderFlags, StopInv, FlagsInv, LeftInv, CallsInv, Streams, AppIn,
          LineInv, Off, Searching, Receiving, Starting, Stopping
  <2>4. QED
    BY <2>1, <2>2, <2>3
<1>22. CASE BgDispatch
  BY <1>22, <1>1
  DEF BgDispatch, StopInv, FlagsInv, LeftInv, CallsInv, Streams, AppIn,
      LineInv, Off, Searching, Receiving, Starting, Stopping, AppControl, Goto,
      Quiet, LockFree
<1>23. CASE BgBottom
  BY <1>23, <1>1
  DEF BgBottom, StopInv, FlagsInv, LeftInv, CallsInv, Streams, AppIn, LineInv,
      Off, Searching, Receiving, Starting, Stopping, AppControl, Goto, Quiet,
      LockFree
<1>24. CASE StreamTag
  BY <1>24, <1>1
  DEF StreamTag, ReceiveTag, Streaming, StopInv, FlagsInv, LeftInv, CallsInv,
      Streams, AppIn, LineInv, Off, Searching, Receiving, Starting, Stopping,
      AppControl, Goto, Quiet, LockFree
<1>25. CASE StreamStatus
  BY <1>25, <1>1
  DEF StreamStatus, Status, Streaming, StopInv, FlagsInv, LeftInv, CallsInv,
      Streams, AppIn, LineInv, Off, Searching, Receiving, Starting, Stopping,
      AppControl, Goto, Quiet, LockFree
<1>26. CASE StreamLeftover
  BY <1>26, <1>1
  DEF StreamLeftover, StopInv, FlagsInv, LeftInv, CallsInv, Streams, AppIn,
      LineInv, Off, Searching, Receiving, Starting, Stopping, AppControl, Goto,
      Quiet, LockFree
<1>27. CASE StreamQuiet
  BY <1>27, <1>1
  DEF StreamQuiet, Streaming, StopInv, FlagsInv, LeftInv, CallsInv, Streams,
      AppIn, LineInv, Off, Searching, Receiving, Starting, Stopping,
      AppControl, Goto, Quiet, LockFree
<1>28. CASE StreamCrc
  BY <1>28, <1>1
  DEF StreamCrc, Streaming, StopInv, FlagsInv, LeftInv, CallsInv, Streams,
      AppIn, LineInv, Off, Searching, Receiving, Starting, Stopping,
      AppControl, Goto, Quiet, LockFree
<1>29. CASE StreamFull
  BY <1>29, <1>1, Undisturbed
  DEF StreamFull, Undisturbed
<1>30. CASE BgBufferFull
  BY <1>30, <1>1
  DEF BgBufferFull, StopInv, FlagsInv, LeftInv, CallsInv, Streams, AppIn,
      LineInv, Off, Searching, Receiving, Starting, Stopping, AppControl, Goto,
      Quiet, LockFree
<1>31. CASE BgResubmit
  BY <1>31, <1>1
  DEF BgResubmit, ReceiveTag, StopInv, FlagsInv, LeftInv, CallsInv, Streams,
      AppIn, LineInv, Off, Searching, Receiving, Starting, Stopping,
      AppControl, Goto, Quiet, LockFree, ReaderFlags
<1>32. CASE StreamEnd
  BY <1>32, <1>1
  DEF StreamEnd, Streaming, StopInv, FlagsInv, LeftInv, CallsInv, Streams,
      AppIn, LineInv, Off, Searching, Receiving, Starting, Stopping,
      AppControl, Goto, Quiet, LockFree, ReaderFlags
<1>33. CASE BgDrain
  <2>1. queue = <<>>
    BY <1>33 DEF BgDrain, SlotsInv, SlotsAccounted, Receiving, TypeOK
  <2>2. QED
    BY <1>33, <2>1, <1>1
    DEF BgDrain, ReadingDone, ReaderFlags, StopInv, FlagsInv, LeftInv,
        CallsInv, Streams, AppIn, LineInv, Off, Searching, Receiving, Starting,
        Stopping, AppControl, Goto, Quiet, LockFree
<1>34. CASE StreamLost
  BY <1>34, <1>1, Undisturbed
  DEF StreamLost, Undisturbed
<1>35. CASE BgForced
  BY <1>35, <1>1
  DEF BgForced, ReadingDone, StopInv, FlagsInv, LeftInv, CallsInv, Streams,
      AppIn, LineInv, Off, Searching, Receiving, Starting, Stopping,
      AppControl, Goto, Quiet, LockFree, ReaderFlags
<1>36. CASE BgForcedSearch
  BY <1>36, <1>1
  DEF BgForcedSearch, StopInv, FlagsInv, LeftInv, CallsInv, Streams, AppIn,
      LineInv, Off, Searching, Receiving, Starting, Stopping, AppControl, Goto,
      Quiet, LockFree, ReaderFlags
<1>37. CASE BgForcedReset
  BY <1>37, <1>1
  DEF BgForcedReset, StopInv, FlagsInv, LeftInv, CallsInv, Streams, AppIn,
      LineInv, Off, Searching, Receiving, Starting, Stopping, AppControl, Goto,
      Quiet, LockFree, ReaderFlags
<1>38. CASE BgProbe
  BY <1>38, <1>1
  DEF BgProbe, StopInv, FlagsInv, LeftInv, CallsInv, Streams, AppIn, LineInv,
      Off, Searching, Receiving, Starting, Stopping, AppControl, Goto, Quiet,
      LockFree
<1>39. CASE BgNoSlot
  BY <1>39, <1>1
  DEF BgNoSlot, StopInv, FlagsInv, LeftInv, CallsInv, Streams, AppIn, LineInv,
      Off, Searching, Receiving, Starting, Stopping, AppControl, Goto, Quiet,
      LockFree, ReaderFlags
<1>40. CASE BgVerify
  BY <1>40, <1>1
  DEF BgVerify, StopModule, Stale, StopInv, FlagsInv, LeftInv, CallsInv,
      Streams, AppIn, LineInv, Off, Searching, Receiving, Starting, Stopping,
      AppControl, Goto, Quiet, LockFree
<1>41. CASE BgRefill
  BY <1>41, <1>1
  DEF BgRefill, StopInv, FlagsInv, LeftInv, CallsInv, Streams, AppIn, LineInv,
      Off, Searching, Receiving, Starting, Stopping, AppControl, Goto, Quiet,
      LockFree, ReaderFlags
<1>42. CASE BgTakeSlot
  BY <1>42, <1>1
  DEF BgTakeSlot, StopInv, FlagsInv, LeftInv, CallsInv, Streams, AppIn,
      LineInv, Off, Searching, Receiving, Starting, Stopping, AppControl, Goto,
      Quiet, LockFree
<1>43. CASE BgEnqueue
  BY <1>43, <1>1
  DEF BgEnqueue, StopInv, FlagsInv, LeftInv, CallsInv, Streams, AppIn, LineInv,
      Off, Searching, Receiving, Starting, Stopping, AppControl, Goto, Quiet,
      LockFree
<1>44. CASE BgSignal
  BY <1>44, <1>1
  DEF BgSignal, Holds, StopInv, FlagsInv, LeftInv, CallsInv, Streams, AppIn,
      LineInv, Off, Searching, Receiving, Starting, Stopping, AppControl, Goto,
      Quiet, LockFree
<1>45. CASE PollTag
  BY <1>45, <1>1
  DEF PollTag, StopInv, FlagsInv, LeftInv, CallsInv, Streams, AppIn, LineInv,
      Off, Searching, Receiving, Starting, Stopping, AppControl, Goto, Quiet,
      LockFree
<1>46. CASE PollFailed
  BY <1>46, <1>1
  DEF PollFailed, StopInv, FlagsInv, LeftInv, CallsInv, Streams, AppIn,
      LineInv, Off, Searching, Receiving, Starting, Stopping, AppControl, Goto,
      Quiet, LockFree, ReaderFlags
<1>47. CASE PollEnd
  BY <1>47, <1>1
  DEF PollEnd, StopInv, FlagsInv, LeftInv, CallsInv, Streams, AppIn, LineInv,
      Off, Searching, Receiving, Starting, Stopping, AppControl, Goto, Quiet,
      LockFree
<1>48. CASE ParserWait
  BY <1>48, <1>1
  DEF ParserWait, StopInv, FlagsInv, LeftInv, CallsInv, Streams, AppIn,
      LineInv, Off, Searching, Receiving, Starting, Stopping, AppControl, Goto,
      Quiet, LockFree
<1>49. CASE ParserTake
  BY <1>49, <1>1
  DEF ParserTake, StopInv, FlagsInv, LeftInv, CallsInv, Streams, AppIn,
      LineInv, Off, Searching, Receiving, Starting, Stopping, AppControl, Goto,
      Quiet, LockFree
<1>50. CASE ParserNotify
  BY <1>50, <1>1
  DEF ParserNotify, StopInv, FlagsInv, LeftInv, CallsInv, Streams, AppIn,
      LineInv, Off, Searching, Receiving, Starting, Stopping, AppControl, Goto,
      Quiet, LockFree
<1>51. CASE ParserRelease
  BY <1>51, <1>1
  DEF ParserRelease, StopInv, FlagsInv, LeftInv, CallsInv, Streams, AppIn,
      LineInv, Off, Searching, Receiving, Starting, Stopping, AppControl, Goto,
      Quiet, LockFree
<1>52. CASE SpuriousWakeup
  BY <1>52, <1>1
  DEF SpuriousWakeup, StopInv, FlagsInv, LeftInv, CallsInv, Streams, AppIn,
      LineInv, Off, Searching, Receiving, Starting, Stopping, AppControl, Goto,
      Quiet, LockFree
<1>53. CASE Terminated
  BY <1>53, <1>1
  DEF Terminated, vars, StopInv, FlagsInv, LeftInv, CallsInv, Streams, AppIn,
      LineInv, Off, Searching, Receiving, Starting, Stopping, AppControl, Goto,
      Quiet, LockFree
<1>54. CASE UNCHANGED vars
  BY <1>54 DEF vars, StopInv, FlagsInv, LeftInv, CallsInv, Streams, AppIn,
      LineInv, Off, Searching, Receiving, Starting, Stopping, AppControl, Goto,
      Quiet, LockFree
<1>55. QED
  BY <1>2, <1>3, <1>4, <1>5, <1>6, <1>7, <1>8, <1>9, <1>10, <1>11, <1>12,
     <1>13, <1>14, <1>15, <1>16, <1>17, <1>18, <1>19, <1>20, <1>21, <1>22,
     <1>23, <1>24, <1>25, <1>26, <1>27, <1>28, <1>29, <1>30, <1>31, <1>32,
     <1>33, <1>34, <1>35, <1>36, <1>37, <1>38, <1>39, <1>40, <1>41, <1>42,
     <1>43, <1>44, <1>45, <1>46, <1>47, <1>48, <1>49, <1>50, <1>51, <1>52,
     <1>53, <1>54
  DEF Next, Call, Calling, ReaderThread, Parser

(* StopInv holds in every state.                                           *)
LEMMA StopInvariant == ASSUME Undisturbed PROVE Spec => []StopInv
<1>1. Init => StopInv
  <2> SUFFICES ASSUME Init PROVE StopInv
    OBVIOUS
  <2>1. /\ ~reader.backgroundRunning /\ ~reader.trueAsyncflag
        /\ ~reader.backgroundEnabled /\ ~reader.continuousReading
        /\ reader.readState = "IDLE"
    BY DEF Init
  <2>2. /\ bpc = "none" /\ queue = <<>> /\ ~searching /\ acks = 0 /\ ~session
        /\ \A a \in Apps : apc[a] = "idle"
    BY DEF Init
  <2>3. QED
    BY <2>1, <2>2
    DEF StopInv, FlagsInv, LeftInv, CallsInv, Streams, Searching, Receiving,
        Starting, Stopping
<1>2. TypeOK /\ SlotsInv /\ LineInv /\ StopInv /\ [Next]_vars => StopInv'
  BY StopStep
<1>3. QED
  BY <1>1, <1>2, TypeCorrect, SlotsInvariant, LineInvariant, PTL DEF Spec

(* When TMR_stopReading has returned the search is over (StopQuiesces), on *)
(* an undisturbed stream or a polling search, whatever reads fail, for any *)
(* number of threads, slots and tags.                                      *)
THEOREM StopCorrect == ASSUME Undisturbed PROVE Spec => []StopQuiesces
<1>1. ASSUME TypeOK, LineInv, StopInv, Quiet, ~session, ~reader.isBufferOverFlow
      PROVE  /\ bpc \in {"none", "disabled", "top", "exited"}
             /\ ~reader.backgroundEnabled
             /\ ~searching /\ acks = 0 /\ queue = <<>>
  <2>1. ~reader.backgroundEnabled /\ bpc \notin Searching \cup {"reading"}
    BY <1>1 DEF LineInv, Off
  <2>2. ~reader.backgroundRunning /\ ~Streams /\ bpc \notin {"bottom", "forcedReset"}
    BY <1>1 DEF StopInv, FlagsInv, CallsInv, Streams
  <2>3. ~searching /\ queue = <<>>
    BY <1>1, <2>2 DEF StopInv, LeftInv
  <2>4. acks = 0
    BY <1>1 DEF StopInv, LeftInv, AppIn, Quiet, TypeOK
  <2>5. bpc \in {"none", "disabled", "top", "exited"}
    BY <1>1, <2>1, <2>2 DEF TypeOK, ReaderControl, Searching, Receiving
  <2>6. QED
    BY <2>1, <2>3, <2>4, <2>5
<1>2. TypeOK /\ LineInv /\ StopInv => StopQuiesces
  BY <1>1 DEF StopQuiesces
<1>3. QED
  BY <1>2, TypeCorrect, LineInvariant, StopInvariant, PTL
================================================================================
