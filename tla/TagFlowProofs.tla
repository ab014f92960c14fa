----------------------------- MODULE TagFlowProofs -----------------------------
(*****************************************************************************)
(* Proofs, for every value of the constants, about the way of a tag from the *)
(* module to the read listeners: none is delivered twice, none is lost in a  *)
(* stream on a sound line, and background reads of a module that streams     *)
(* implement TagStream step by step.                                         *)
(*****************************************************************************)
EXTENDS BackgroundReadsProofs, SequenceTheorems

--------------------------------------------------------------------------------
(* Sequences of entries in which no tag occurs twice.                      *)
Distinct(s) ==
  \A i, j \in 1 .. Len(s) : i # j /\ s[i] > 0 => s[i] # s[j]
Disjoint(s, t) ==
  \A i \in 1 .. Len(s), j \in 1 .. Len(t) : s[i] > 0 => s[i] # t[j]
Apart(s, tag) == tag > 0 => \A i \in 1 .. Len(s) : s[i] # tag
Older(s, tag) == \A i \in 1 .. Len(s) : s[i] < tag

(* An entry added at the end.                                              *)
LEMMA Appending ==
  ASSUME NEW s \in Seq(Int), NEW e \in Int
  PROVE  /\ Append(s, e) \in Seq(Int)
         /\ Distinct(s) /\ Apart(s, e) => Distinct(Append(s, e))
         /\ \A n \in Int : Older(s, n) /\ e < n => Older(Append(s, e), n)
         /\ \A n \in Int : Apart(s, n) /\ n # e => Apart(Append(s, e), n)
         /\ \A t \in Seq(Int) : /\ Disjoint(t, s) /\ Apart(t, e)
                                  => Disjoint(t, Append(s, e))
                                /\ Disjoint(s, t) /\ Apart(t, e)
                                  => Disjoint(Append(s, e), t)
<1> DEFINE a == Append(s, e)
<1>1. /\ a \in Seq(Int) /\ Len(a) = Len(s) + 1 /\ Len(s) \in Nat
      /\ \A i \in 1 .. Len(s) : a[i] = s[i]
      /\ a[Len(s) + 1] = e
  BY AppendProperties, LenProperties
<1>2. \A i \in 1 .. Len(a) : i \in 1 .. Len(s) \/ i = Len(s) + 1
  BY <1>1
<1>3. \A i \in 1 .. Len(s) : s[i] \in Int
  BY ElementOfSeq
<1> HIDE DEF a
<1>4. Distinct(s) /\ Apart(s, e) => Distinct(a)
  <2> SUFFICES ASSUME Distinct(s), Apart(s, e),
                      NEW i \in 1 .. Len(a), NEW j \in 1 .. Len(a),
                      i # j, a[i] > 0
               PROVE  a[i] # a[j]
    BY DEF Distinct
  <2>1. CASE i \in 1 .. Len(s) /\ j \in 1 .. Len(s)
    BY <2>1, <1>1 DEF Distinct
  <2>2. CASE i \in 1 .. Len(s) /\ j = Len(s) + 1
    BY <2>2, <1>1, <1>3 DEF Apart
  <2>3. CASE i = Len(s) + 1 /\ j \in 1 .. Len(s)
    BY <2>3, <1>1, <1>3 DEF Apart
  <2>4. QED
    BY <1>2, <2>1, <2>2, <2>3
<1>5. \A n \in Int : Older(s, n) /\ e < n => Older(a, n)
  BY <1>1, <1>2 DEF Older
<1>6. \A n \in Int : Apart(s, n) /\ n # e => Apart(a, n)
  BY <1>1, <1>2 DEF Apart
<1>7. ASSUME NEW t \in Seq(Int), Disjoint(t, s), Apart(t, e)
      PROVE  Disjoint(t, a)
  <2> SUFFICES ASSUME NEW i \in 1 .. Len(t), NEW j \in 1 .. Len(a), t[i] > 0
               PROVE  t[i] # a[j]
    BY DEF Disjoint
  <2>1. CASE j \in 1 .. Len(s)
    BY <2>1, <1>1, <1>7 DEF Disjoint
  <2>2. CASE j = Len(s) + 1
    BY <2>2, <1>1, <1>7 DEF Apart
  <2>3. QED
    BY <1>2, <2>1, <2>2
<1>8. ASSUME NEW t \in Seq(Int), Disjoint(s, t), Apart(t, e)
      PROVE  Disjoint(a, t)
  <2> SUFFICES ASSUME NEW i \in 1 .. Len(a), NEW j \in 1 .. Len(t), a[i] > 0
               PROVE  a[i] # t[j]
    BY DEF Disjoint
  <2>1. CASE i \in 1 .. Len(s)
    BY <2>1, <1>1, <1>8 DEF Disjoint
  <2>2. CASE i = Len(s) + 1
    BY <2>2, <1>1, <1>8 DEF Apart
  <2>3. QED
    BY <1>2, <2>1, <2>2
<1>9. QED
  BY <1>1, <1>4, <1>5, <1>6, <1>7, <1>8 DEF a

(* The head taken off.                                                     *)
LEMMA Taking ==
  ASSUME NEW s \in Seq(Int), s # <<>>
  PROVE  /\ Tail(s) \in Seq(Int) /\ Head(s) \in Int
         /\ Distinct(s) => Distinct(Tail(s)) /\ Apart(Tail(s), Head(s))
         /\ \A n \in Int : Older(s, n) => Older(Tail(s), n) /\ Head(s) < n
         /\ \A n \in Int : Apart(s, n) => /\ Apart(Tail(s), n)
                                          /\ n > 0 => n # Head(s)
         /\ \A t \in Seq(Int) : Disjoint(t, s) =>
              Disjoint(t, Tail(s)) /\ Apart(t, Head(s))
<1> DEFINE r == Tail(s)
           h == Head(s)
<1>1. /\ r \in Seq(Int) /\ h \in Int
      /\ Len(r) = Len(s) - 1 /\ Len(s) \in Nat /\ Len(s) > 0
      /\ \A i \in 1 .. Len(r) : r[i] = s[i + 1]
      /\ h = s[1]
  <2>1. Head(s) = s[1]
    OBVIOUS
  <2>2. Len(s) \in Nat \ {0}
    BY EmptySeq
  <2>3. QED
    BY <2>1, <2>2, HeadTailProperties
<1>2. /\ 1 \in 1 .. Len(s)
      /\ \A i \in 1 .. Len(r) : i + 1 \in 1 .. Len(s) /\ i + 1 # 1
  BY <1>1
<1>3. \A i \in 1 .. Len(s) : s[i] \in Int
  BY ElementOfSeq
<1> HIDE DEF r, h
<1>4. Distinct(s) => Distinct(r) /\ Apart(r, h)
  <2> SUFFICES ASSUME Distinct(s) PROVE Distinct(r) /\ Apart(r, h)
    OBVIOUS
  <2>1. ASSUME NEW i \in 1 .. Len(r), NEW j \in 1 .. Len(r), i # j, r[i] > 0
        PROVE  r[i] # r[j]
    <3>1. i + 1 # j + 1 /\ r[i] = s[i + 1] /\ r[j] = s[j + 1]
      BY <1>1, <2>1
    <3>2. QED
      BY <3>1, <1>2, <2>1 DEF Distinct
  <2>2. ASSUME NEW i \in 1 .. Len(r), h > 0
        PROVE  r[i] # h
    <3>1. r[i] = s[i + 1] /\ h = s[1]
      BY <1>1
    <3>2. QED
      BY <3>1, <1>2, <2>2 DEF Distinct
  <2>3. QED
    BY <2>1, <2>2 DEF Distinct, Apart
<1>5. \A n \in Int : Older(s, n) => Older(r, n) /\ h < n
  BY <1>1, <1>2 DEF Older
<1>6. \A n \in Int : Apart(s, n) => Apart(r, n) /\ (n > 0 => n # h)
  BY <1>1, <1>2 DEF Apart
<1>7. ASSUME NEW t \in Seq(Int), Disjoint(t, s)
      PROVE  Disjoint(t, r) /\ Apart(t, h)
  <2>1. ASSUME NEW i \in 1 .. Len(t), NEW j \in 1 .. Len(r), t[i] > 0
        PROVE  t[i] # r[j]
    BY <2>1, <1>1, <1>2, <1>7 DEF Disjoint
  <2>2. ASSUME NEW i \in 1 .. Len(t), h > 0
        PROVE  t[i] # h
    BY <2>2, <1>1, <1>2, <1>7 DEF Disjoint
  <2>3. QED
    BY <2>1, <2>2 DEF Disjoint, Apart
<1>8. QED
  BY <1>1, <1>4, <1>5, <1>6, <1>7 DEF r, h

(* Two sequences put together.                                             *)
LEMMA Joining ==
  ASSUME NEW s \in Seq(Int), NEW t \in Seq(Int)
  PROVE  /\ s \o t \in Seq(Int)
         /\ Distinct(s) /\ Distinct(t) /\ Disjoint(s, t) => Distinct(s \o t)
         /\ \A u \in Seq(Int) :
              Disjoint(s, u) /\ Disjoint(t, u) => Disjoint(s \o t, u)
<1> DEFINE c == s \o t
<1>1. /\ c \in Seq(Int) /\ Len(c) = Len(s) + Len(t)
      /\ Len(s) \in Nat /\ Len(t) \in Nat
      /\ \A i \in 1 .. Len(s) + Len(t) :
           c[i] = IF i <= Len(s) THEN s[i] ELSE t[i - Len(s)]
  BY ConcatProperties, LenProperties
<1>2. \A i \in 1 .. Len(c) : \/ i \in 1 .. Len(s) /\ c[i] = s[i]
                             \/ /\ i - Len(s) \in 1 .. Len(t)
                                /\ c[i] = t[i - Len(s)]
  BY <1>1
<1>3. /\ \A i \in 1 .. Len(s) : s[i] \in Int
      /\ \A i \in 1 .. Len(t) : t[i] \in Int
  BY ElementOfSeq
<1> HIDE DEF c
<1>4. Distinct(s) /\ Distinct(t) /\ Disjoint(s, t) => Distinct(c)
  <2> SUFFICES ASSUME Distinct(s), Distinct(t), Disjoint(s, t),
                      NEW i \in 1 .. Len(c), NEW j \in 1 .. Len(c),
                      i # j, c[i] > 0
               PROVE  c[i] # c[j]
    BY DEF Distinct
  <2>1. CASE i \in 1 .. Len(s) /\ c[i] = s[i]
    <3>1. CASE j \in 1 .. Len(s) /\ c[j] = s[j]
      BY <2>1, <3>1 DEF Distinct
    <3>2. CASE j - Len(s) \in 1 .. Len(t) /\ c[j] = t[j - Len(s)]
      BY <2>1, <3>2 DEF Disjoint
    <3>3. QED
      BY <1>2, <3>1, <3>2
  <2>2. CASE i - Len(s) \in 1 .. Len(t) /\ c[i] = t[i - Len(s)]
    <3>1. CASE j \in 1 .. Len(s) /\ c[j] = s[j]
      BY <2>2, <3>1, <1>3 DEF Disjoint
    <3>2. CASE j - Len(s) \in 1 .. Len(t) /\ c[j] = t[j - Len(s)]
      <4>1. i - Len(s) # j - Len(s)
        BY <1>1
      <4>2. QED
        BY <4>1, <2>2, <3>2 DEF Distinct
    <3>3. QED
      BY <1>2, <3>1, <3>2
  <2>3. QED
    BY <1>2, <2>1, <2>2
<1>5. ASSUME NEW u \in Seq(Int), Disjoint(s, u), Disjoint(t, u)
      PROVE  Disjoint(c, u)
  BY <1>2, <1>5 DEF Disjoint
<1>6. QED
  BY <1>1, <1>4, <1>5 DEF c

--------------------------------------------------------------------------------
(* The tag the reader thread has received and not queued, and the one the  *)
(* parser is about to hand out; Stale when there is none.                  *)
Buffered == IF tagsRemainingInBuffer = 1 /\ bpc # "signal" THEN bufResponse
            ELSE Stale
InHand == IF ppc = "notify" THEN hand ELSE Stale
FirstUnread == nextTag - unread

(* What tagsRemainingInBuffer says of bufResponse, and when tags are left  *)
(* in the module's buffer.                                                 *)
Posting == {"got", "noSlot", "post", "enqueue", "signal"}
CountsInv ==
  /\ tagsRemainingInBuffer \in {0, 1}
  /\ tagsRemainingInBuffer = 1 => bufResponse # Status
  /\ bpc \in Posting /\ tagsRemainingInBuffer = 0 => bufResponse = Status
  /\ bpc \in Searching \ {"dispatch", "poll"} => unread = 0
  /\ reader.trueAsyncflag => unread = 0
  /\ bpc = "dispatch" /\ reader.continuousReading => unread = 0
  /\ unread < nextTag

(* A tag is in one place only, and none is yet to come.                    *)
PlacesInv ==
  /\ Older(delivered, FirstUnread) /\ Older(queue, FirstUnread)
  /\ InHand < FirstUnread /\ Buffered < FirstUnread
  /\ Distinct(delivered) /\ Distinct(queue) /\ Disjoint(delivered, queue)
  /\ Apart(delivered, InHand) /\ Apart(queue, InHand)
  /\ Apart(delivered, Buffered) /\ Apart(queue, Buffered)
  /\ InHand > 0 => InHand # Buffered

(* Every action preserves CountsInv.                                       *)
LEMMA CountsStep ==
  ASSUME TypeOK, LineInv, CountsInv, [Next]_vars PROVE CountsInv'
<1> USE DEF queueVars, waitVars, linkVars, serialVars, moduleVars, parseVars,
            appVars
<1>1. /\ reader \in ReaderFlags /\ unread \in Nat /\ nextTag \in Nat \ {0}
      /\ MaxTags \in Nat
  BY BoundsAssumption DEF TypeOK
<1>2. ASSUME NEW a \in Apps, StartReading(a) PROVE CountsInv'
  BY <1>2, <1>1
  DEF StartReading, CountsInv, Posting, LineInv, Off, Searching, Receiving,
      Starting, ReaderFlags
<1>3. ASSUME NEW a \in Apps, StartParser(a) PROVE CountsInv'
  BY <1>3, <1>1
  DEF StartParser, CountsInv, Posting, LineInv, Off, Searching, Receiving,
      Starting, ReaderFlags
<1>4. ASSUME NEW a \in Apps, StartReader(a) PROVE CountsInv'
  BY <1>4, <1>1
  DEF StartReader, CountsInv, Posting, LineInv, Off, Searching, Receiving,
      Starting, ReaderFlags
<1>5. ASSUME NEW a \in Apps, StartWait(a) PROVE CountsInv'
  BY <1>5, <1>1
  DEF StartWait, AwaitRead, CountsInv, Posting, LineInv, Off, Searching,
      Receiving, Starting
<1>6. ASSUME NEW a \in Apps, StopReading(a) PROVE CountsInv'
  BY <1>6, <1>1
  DEF StopReading, CountsInv, Posting, LineInv, Off, Searching, Receiving,
      Starting, ReaderFlags
<1>7. ASSUME NEW a \in Apps, StopStarted(a) PROVE CountsInv'
  BY <1>7, <1>1
  DEF StopStarted, AwaitRead, CountsInv, Posting, LineInv, Off, Searching,
      Receiving, Starting
<1>8. ASSUME NEW a \in Apps, StopCheck(a) PROVE CountsInv'
  BY <1>8, <1>1
  DEF StopCheck, CountsInv, Posting, LineInv, Off, Searching, Receiving,
      Starting
<1>9. ASSUME NEW a \in Apps, StopSend(a) PROVE CountsInv'
  BY <1>9, <1>1
  DEF StopSend, StopModule, CountsInv, Posting, LineInv, Off, Searching,
      Receiving, Starting
<1>10. ASSUME NEW a \in Apps, StopDone(a) PROVE CountsInv'
  BY <1>10, <1>1
  DEF StopDone, AwaitRead, CountsInv, Posting, LineInv, Off, Searching,
      Receiving, Starting
<1>11. ASSUME NEW a \in Apps, StopDisable(a) PROVE CountsInv'
  BY <1>11, <1>1
  DEF StopDisable, AwaitIdle, CountsInv, Posting, LineInv, Off, Searching,
      Receiving, Starting, ReaderFlags
<1>12. ASSUME NEW a \in Apps, StopIdle(a) PROVE CountsInv'
  BY <1>12, <1>1
  DEF StopIdle, AwaitIdle, CountsInv, Posting, LineInv, Off, Searching,
      Receiving, Starting
<1>13. ASSUME NEW a \in Apps, StopReset(a) PROVE CountsInv'
  BY <1>13, <1>1
  DEF StopReset, CountsInv, Posting, LineInv, Off, Searching, Receiving,
      Starting, ReaderFlags
<1>14. ASSUME NEW a \in Apps, Destroy(a) PROVE CountsInv'
  BY <1>14, <1>1
  DEF Destroy, CountsInv, Posting, LineInv, Off, Searching, Receiving,
      Starting, ReaderFlags
<1>15. ASSUME NEW a \in Apps, Cleanup(a) PROVE CountsInv'
  BY <1>15, <1>1
  DEF Cleanup, CountsInv, Posting, LineInv, Off, Searching, Receiving,
      Starting, ReaderFlags
<1>16. ASSUME NEW a \in Apps, Join(a) PROVE CountsInv'
  BY <1>16, <1>1
  DEF Join, CountsInv, Posting, LineInv, Off, Searching, Receiving, Starting
<1>17. ASSUME NEW a \in Apps, CancelParser(a) PROVE CountsInv'
  BY <1>17, <1>1
  DEF CancelParser, CountsInv, Posting, LineInv, Off, Searching, Receiving,
      Starting
<1>18. CASE BgTop
  BY <1>18, <1>1
  DEF BgTop, Proceed, CountsInv, Posting, LineInv, Off, Searching, Receiving,
      Starting, ReaderFlags
<1>19. CASE BgWake
  BY <1>19, <1>1
  DEF BgWake, Proceed, CountsInv, Posting, LineInv, Off, Searching, Receiving,
      Starting, ReaderFlags
<1>20. CASE BgReadDone
  BY <1>20, <1>1
  DEF BgReadDone, SearchDone, CountsInv, Posting, LineInv, Off, Searching,
      Receiving, Starting, ReaderFlags
<1>21. ASSUME NEW status \in {"retry", "fatal", "antenna"},
              BgReadFailed(status)
      PROVE CountsInv'
  BY <1>21, <1>1
  DEF BgReadFailed, CountsInv, Posting, LineInv, Off, Searching, Receiving,
      Starting, ReaderFlags
<1>22. CASE BgDispatch
  BY <1>22, <1>1
  DEF BgDispatch, CountsInv, Posting, LineInv, Off, Searching, Receiving,
      Starting
<1>23. CASE BgBottom
  BY <1>23, <1>1
  DEF BgBottom, CountsInv, Posting, LineInv, Off, Searching, Receiving,
      Starting
<1>24. CASE StreamTag
  BY <1>24, <1>1
  DEF StreamTag, ReceiveTag, Streaming, Status, CountsInv, Posting, LineInv,
      Off, Searching, Receiving, Starting
<1>25. CASE StreamStatus
  BY <1>25, <1>1
  DEF StreamStatus, Status, Streaming, CountsInv, Posting, LineInv, Off,
      Searching, Receiving, Starting
<1>26. CASE StreamLeftover
  BY <1>26, <1>1
  DEF StreamLeftover, CountsInv, Posting, LineInv, Off, Searching, Receiving,
      Starting
<1>27. CASE StreamQuiet
  BY <1>27, <1>1
  DEF StreamQuiet, Streaming, CountsInv, Posting, LineInv, Off, Searching,
      Receiving, Starting
<1>28. CASE StreamCrc
  BY <1>28, <1>1
  DEF StreamCrc, Streaming, CountsInv, Posting, LineInv, Off, Searching,
      Receiving, Starting
<1>29. CASE StreamFull
  BY <1>29, <1>1
  DEF StreamFull, Streaming, CountsInv, Posting, LineInv, Off, Searching,
      Receiving, Starting
<1>30. CASE BgBufferFull
  BY <1>30, <1>1
  DEF BgBufferFull, CountsInv, Posting, LineInv, Off, Searching, Receiving,
      Starting
<1>31. CASE BgResubmit
  BY <1>31, <1>1
  DEF BgResubmit, ReceiveTag, Status, CountsInv, Posting, LineInv, Off,
      Searching, Receiving, Starting, ReaderFlags
<1>32. CASE StreamEnd
  BY <1>32, <1>1
  DEF StreamEnd, Streaming, CountsInv, Posting, LineInv, Off, Searching,
      Receiving, Starting, ReaderFlags
<1>33. CASE BgDrain
  BY <1>33, <1>1
  DEF BgDrain, ReadingDone, CountsInv, Posting, LineInv, Off, Searching,
      Receiving, Starting, ReaderFlags
<1>34. CASE StreamLost
  BY <1>34, <1>1
  DEF StreamLost, StopModule, Streaming, CountsInv, Posting, LineInv, Off,
      Searching, Receiving, Starting
<1>35. CASE BgForced
  BY <1>35, <1>1
  DEF BgForced, ReadingDone, CountsInv, Posting, LineInv, Off, Searching,
      Receiving, Starting, ReaderFlags
<1>36. CASE BgForcedSearch
  BY <1>36, <1>1
  DEF BgForcedSearch, CountsInv, Posting, LineInv, Off, Searching, Receiving,
      Starting, ReaderFlags
<1>37. CASE BgForcedReset
  BY <1>37, <1>1
  DEF BgForcedReset, CountsInv, Posting, LineInv, Off, Searching, Receiving,
      Starting, ReaderFlags
<1>38. CASE BgProbe
  BY <1>38, <1>1
  DEF BgProbe, CountsInv, Posting, LineInv, Off, Searching, Receiving, Starting
<1>39. CASE BgNoSlot
  BY <1>39, <1>1
  DEF BgNoSlot, CountsInv, Posting, LineInv, Off, Searching, Receiving,
      Starting, ReaderFlags
<1>40. CASE BgVerify
  BY <1>40, <1>1
  DEF BgVerify, StopModule, Stale, Status, CountsInv, Posting, LineInv, Off,
      Searching, Receiving, Starting
<1>41. CASE BgRefill
  BY <1>41, <1>1
  DEF BgRefill, CountsInv, Posting, LineInv, Off, Searching, Receiving,
      Starting, ReaderFlags
<1>42. CASE BgTakeSlot
  BY <1>42, <1>1
  DEF BgTakeSlot, CountsInv, Posting, LineInv, Off, Searching, Receiving,
      Starting
<1>43. CASE BgEnqueue
  BY <1>43, <1>1
  DEF BgEnqueue, CountsInv, Posting, LineInv, Off, Searching, Receiving,
      Starting
<1>44. CASE BgSignal
  BY <1>44, <1>1
  DEF BgSignal, Holds, Status, CountsInv, Posting, LineInv, Off, Searching,
      Receiving, Starting
<1>45. CASE PollTag
  BY <1>45, <1>1
  DEF PollTag, CountsInv, Posting, LineInv, Off, Searching, Receiving, Starting
<1>46. CASE PollFailed
  BY <1>46, <1>1
  DEF PollFailed, CountsInv, Posting, LineInv, Off, Searching, Receiving,
      Starting, ReaderFlags
<1>47. CASE PollEnd
  BY <1>47, <1>1
  DEF PollEnd, CountsInv, Posting, LineInv, Off, Searching, Receiving, Starting
<1>48. CASE ParserWait
  BY <1>48, <1>1
  DEF ParserWait, CountsInv, Posting, LineInv, Off, Searching, Receiving,
      Starting
<1>49. CASE ParserTake
  BY <1>49, <1>1
  DEF ParserTake, CountsInv, Posting, LineInv, Off, Searching, Receiving,
      Starting
<1>50. CASE ParserNotify
  BY <1>50, <1>1
  DEF ParserNotify, CountsInv, Posting, LineInv, Off, Searching, Receiving,
      Starting
<1>51. CASE ParserRelease
  BY <1>51, <1>1
  DEF ParserRelease, CountsInv, Posting, LineInv, Off, Searching, Receiving,
      Starting
<1>52. CASE SpuriousWakeup
  BY <1>52, <1>1
  DEF SpuriousWakeup, CountsInv, Posting, LineInv, Off, Searching, Receiving,
      Starting
<1>53. CASE Terminated
  BY <1>53, <1>1
  DEF Terminated, vars, CountsInv, Posting, LineInv, Off, Searching, Receiving,
      Starting
<1>54. CASE UNCHANGED vars
  BY <1>54 DEF vars, CountsInv, Posting, LineInv, Off, Searching, Receiving, Starting
<1>55. QED
  BY <1>2, <1>3, <1>4, <1>5, <1>6, <1>7, <1>8, <1>9, <1>10, <1>11, <1>12,
     <1>13, <1>14, <1>15, <1>16, <1>17, <1>18, <1>19, <1>20, <1>21, <1>22,
     <1>23, <1>24, <1>25, <1>26, <1>27, <1>28, <1>29, <1>30, <1>31, <1>32,
     <1>33, <1>34, <1>35, <1>36, <1>37, <1>38, <1>39, <1>40, <1>41, <1>42,
     <1>43, <1>44, <1>45, <1>46, <1>47, <1>48, <1>49, <1>50, <1>51, <1>52,
     <1>53, <1>54
  DEF Next, Call, Calling, ReaderThread, Parser

(* A step that leaves the places of the tags alone, or empties the buffer, *)
(* or numbers new tags.                                                    *)
LEMMA PlacesKept ==
  ASSUME TypeOK, CountsInv, PlacesInv,
         UNCHANGED <<delivered, queue>>,
         InHand' \in {InHand, Stale}, Buffered' \in {Buffered, Stale},
         FirstUnread' \in Int, FirstUnread' >= FirstUnread
  PROVE  PlacesInv'
<1>1. /\ delivered \in Seq(Int) /\ queue \in Seq(Int)
      /\ InHand \in Int /\ Buffered \in Int /\ FirstUnread \in Int
  BY DEF TypeOK, InHand, Buffered, FirstUnread, Stale
<1>2. /\ Older(delivered', FirstUnread') /\ Older(queue', FirstUnread')
      /\ InHand' < FirstUnread' /\ Buffered' < FirstUnread'
  <2>1. /\ \A i \in 1 .. Len(delivered) : delivered[i] \in Int
        /\ \A i \in 1 .. Len(queue) : queue[i] \in Int
    BY <1>1, ElementOfSeq
  <2>2. Older(delivered, FirstUnread') /\ Older(queue, FirstUnread')
    BY SMTT(30), <1>1, <2>1 DEF PlacesInv, Older
  <2>3. FirstUnread > 0
    BY DEF CountsInv, FirstUnread, TypeOK
  <2>4. QED
    BY <1>1, <2>2, <2>3 DEF PlacesInv, Older, Stale
<1>3. QED
  BY <1>1, <1>2 DEF PlacesInv, Distinct, Disjoint, Apart, Stale

(* A tag is received.                                                      *)
LEMMA TagReceived ==
  ASSUME TypeOK, CountsInv, PlacesInv, ReceiveTag, unread = 0,
         UNCHANGED <<delivered, queue, ppc, hand, unread>>, bpc' # "signal"
  PROVE  PlacesInv'
<1>1. /\ delivered \in Seq(Int) /\ queue \in Seq(Int)
      /\ nextTag \in Nat \ {0} /\ hand \in Int
  BY DEF TypeOK
<1>2. /\ FirstUnread = nextTag /\ FirstUnread' = nextTag + 1
      /\ Buffered' = nextTag /\ InHand' = InHand /\ InHand \in Int
  BY <1>1 DEF ReceiveTag, FirstUnread, Buffered, InHand, Stale
<1>3. /\ \A i \in 1 .. Len(delivered) : delivered[i] \in Int
      /\ \A i \in 1 .. Len(queue) : queue[i] \in Int
  BY <1>1, ElementOfSeq
<1>4. /\ Older(delivered, nextTag) /\ Older(queue, nextTag) /\ InHand < nextTag
  BY <1>2 DEF PlacesInv
<1>5. /\ Older(delivered, nextTag + 1) /\ Older(queue, nextTag + 1)
      /\ InHand < nextTag + 1
      /\ Apart(delivered, nextTag) /\ Apart(queue, nextTag) /\ InHand # nextTag
  BY <1>1, <1>2, <1>3, <1>4 DEF Older, Apart
<1>6. /\ Distinct(delivered) /\ Distinct(queue) /\ Disjoint(delivered, queue)
      /\ Apart(delivered, InHand) /\ Apart(queue, InHand)
  BY DEF PlacesInv
<1>7. delivered' = delivered /\ queue' = queue
  OBVIOUS
<1>8. /\ Older(delivered', FirstUnread') /\ Older(queue', FirstUnread')
      /\ InHand' < FirstUnread' /\ Buffered' < FirstUnread'
  BY <1>1, <1>2, <1>5, <1>7
<1>9. /\ Distinct(delivered') /\ Distinct(queue') /\ Disjoint(delivered', queue')
      /\ Apart(delivered', InHand') /\ Apart(queue', InHand')
      /\ Apart(delivered', Buffered') /\ Apart(queue', Buffered')
      /\ InHand' > 0 => InHand' # Buffered'
  BY <1>2, <1>5, <1>6, <1>7
<1>10. QED
  BY <1>8, <1>9 DEF PlacesInv

(* Every action preserves PlacesInv: a tag moves from one place to the      *)
(* next, and a tag that is received is new.                                *)
LEMMA PlacesStep ==
  ASSUME TypeOK, SlotsInv, CountsInv, PlacesInv, [Next]_vars PROVE PlacesInv'
<1> USE DEF queueVars, waitVars, linkVars, serialVars, moduleVars, parseVars,
            appVars
<1>1. /\ delivered \in Seq(Int) /\ queue \in Seq(Int)
      /\ unread \in Nat /\ nextTag \in Nat \ {0} /\ MaxTags \in Nat
      /\ hand \in Int /\ bufResponse \in Int /\ unread < nextTag
      /\ tagsRemainingInBuffer \in {0, 1}
  BY BoundsAssumption DEF TypeOK, CountsInv
<1>2. ASSUME NEW a \in Apps, StartReading(a) PROVE PlacesInv'
  <2>1. /\ UNCHANGED <<delivered, queue>>
        /\ InHand' \in {InHand, Stale} /\ Buffered' \in {Buffered, Stale}
        /\ FirstUnread' \in Int /\ FirstUnread' >= FirstUnread
    BY <1>2, <1>1
    DEF StartReading, InHand, Buffered, FirstUnread, Stale
  <2>2. QED
    BY <2>1, PlacesKept
<1>3. ASSUME NEW a \in Apps, StartParser(a) PROVE PlacesInv'
  <2>1. /\ UNCHANGED <<delivered, queue>>
        /\ InHand' \in {InHand, Stale} /\ Buffered' \in {Buffered, Stale}
        /\ FirstUnread' \in Int /\ FirstUnread' >= FirstUnread
    BY <1>3, <1>1
    DEF StartParser, InHand, Buffered, FirstUnread, Stale
  <2>2. QED
    BY <2>1, PlacesKept
<1>4. ASSUME NEW a \in Apps, StartReader(a) PROVE PlacesInv'
  <2>1. /\ UNCHANGED <<delivered, queue>>
        /\ InHand' \in {InHand, Stale} /\ Buffered' \in {Buffered, Stale}
        /\ FirstUnread' \in Int /\ FirstUnread' >= FirstUnread
    BY <1>4, <1>1
    DEF StartReader, InHand, Buffered, FirstUnread, Stale, SlotsInv
  <2>2. QED
    BY <2>1, PlacesKept
<1>5. ASSUME NEW a \in Apps, StartWait(a) PROVE PlacesInv'
  <2>1. /\ UNCHANGED <<delivered, queue>>
        /\ InHand' \in {InHand, Stale} /\ Buffered' \in {Buffered, Stale}
        /\ FirstUnread' \in Int /\ FirstUnread' >= FirstUnread
    BY <1>5, <1>1
    DEF StartWait, AwaitRead, InHand, Buffered, FirstUnread, Stale
  <2>2. QED
    BY <2>1, PlacesKept
<1>6. ASSUME NEW a \in Apps, StopReading(a) PROVE PlacesInv'
  <2>1. /\ UNCHANGED <<delivered, queue>>
        /\ InHand' \in {InHand, Stale} /\ Buffered' \in {Buffered, Stale}
        /\ FirstUnread' \in Int /\ FirstUnread' >= FirstUnread
    BY <1>6, <1>1
    DEF StopReading, InHand, Buffered, FirstUnread, Stale
  <2>2. QED
    BY <2>1, PlacesKept
<1>7. ASSUME NEW a \in Apps, StopStarted(a) PROVE PlacesInv'
  <2>1. /\ UNCHANGED <<delivered, queue>>
        /\ InHand' \in {InHand, Stale} /\ Buffered' \in {Buffered, Stale}
        /\ FirstUnread' \in Int /\ FirstUnread' >= FirstUnread
    BY <1>7, <1>1
    DEF StopStarted, AwaitRead, InHand, Buffered, FirstUnread, Stale
  <2>2. QED
    BY <2>1, PlacesKept
<1>8. ASSUME NEW a \in Apps, StopCheck(a) PROVE PlacesInv'
  <2>1. /\ UNCHANGED <<delivered, queue>>
        /\ InHand' \in {InHand, Stale} /\ Buffered' \in {Buffered, Stale}
        /\ FirstUnread' \in Int /\ FirstUnread' >= FirstUnread
    BY <1>8, <1>1
    DEF StopCheck, InHand, Buffered, FirstUnread, Stale
  <2>2. QED
    BY <2>1, PlacesKept
<1>9. ASSUME NEW a \in Apps, StopSend(a) PROVE PlacesInv'
  <2>1. /\ UNCHANGED <<delivered, queue>>
        /\ InHand' \in {InHand, Stale} /\ Buffered' \in {Buffered, Stale}
        /\ FirstUnread' \in Int /\ FirstUnread' >= FirstUnread
    BY <1>9, <1>1
    DEF StopSend, StopModule, InHand, Buffered, FirstUnread, Stale
  <2>2. QED
    BY <2>1, PlacesKept
<1>10. ASSUME NEW a \in Apps, StopDone(a) PROVE PlacesInv'
  <2>1. /\ UNCHANGED <<delivered, queue>>
        /\ InHand' \in {InHand, Stale} /\ Buffered' \in {Buffered, Stale}
        /\ FirstUnread' \in Int /\ FirstUnread' >= FirstUnread
    BY <1>10, <1>1
    DEF StopDone, AwaitRead, InHand, Buffered, FirstUnread, Stale
  <2>2. QED
    BY <2>1, PlacesKept
<1>11. ASSUME NEW a \in Apps, StopDisable(a) PROVE PlacesInv'
  <2>1. /\ UNCHANGED <<delivered, queue>>
        /\ InHand' \in {InHand, Stale} /\ Buffered' \in {Buffered, Stale}
        /\ FirstUnread' \in Int /\ FirstUnread' >= FirstUnread
    BY <1>11, <1>1
    DEF StopDisable, AwaitIdle, InHand, Buffered, FirstUnread, Stale
  <2>2. QED
    BY <2>1, PlacesKept
<1>12. ASSUME NEW a \in Apps, StopIdle(a) PROVE PlacesInv'
  <2>1. /\ UNCHANGED <<delivered, queue>>
        /\ InHand' \in {InHand, Stale} /\ Buffered' \in {Buffered, Stale}
        /\ FirstUnread' \in Int /\ FirstUnread' >= FirstUnread
    BY <1>12, <1>1
    DEF StopIdle, AwaitIdle, InHand, Buffered, FirstUnread, Stale
  <2>2. QED
    BY <2>1, PlacesKept
<1>13. ASSUME NEW a \in Apps, StopReset(a) PROVE PlacesInv'
  <2>1. /\ UNCHANGED <<delivered, queue>>
        /\ InHand' \in {InHand, Stale} /\ Buffered' \in {Buffered, Stale}
        /\ FirstUnread' \in Int /\ FirstUnread' >= FirstUnread
    BY <1>13, <1>1
    DEF StopReset, InHand, Buffered, FirstUnread, Stale
  <2>2. QED
    BY <2>1, PlacesKept
<1>14. ASSUME NEW a \in Apps, Destroy(a) PROVE PlacesInv'
  <2>1. /\ UNCHANGED <<delivered, queue>>
        /\ InHand' \in {InHand, Stale} /\ Buffered' \in {Buffered, Stale}
        /\ FirstUnread' \in Int /\ FirstUnread' >= FirstUnread
    BY <1>14, <1>1
    DEF Destroy, InHand, Buffered, FirstUnread, Stale
  <2>2. QED
    BY <2>1, PlacesKept
<1>15. ASSUME NEW a \in Apps, Cleanup(a) PROVE PlacesInv'
  <2>1. /\ UNCHANGED <<delivered, queue>>
        /\ InHand' \in {InHand, Stale} /\ Buffered' \in {Buffered, Stale}
        /\ FirstUnread' \in Int /\ FirstUnread' >= FirstUnread
    BY <1>15, <1>1
    DEF Cleanup, InHand, Buffered, FirstUnread, Stale
  <2>2. QED
    BY <2>1, PlacesKept
<1>16. ASSUME NEW a \in Apps, Join(a) PROVE PlacesInv'
  <2>1. /\ UNCHANGED <<delivered, queue>>
        /\ InHand' \in {InHand, Stale} /\ Buffered' \in {Buffered, Stale}
        /\ FirstUnread' \in Int /\ FirstUnread' >= FirstUnread
    BY <1>16, <1>1
    DEF Join, InHand, Buffered, FirstUnread, Stale
  <2>2. QED
    BY <2>1, PlacesKept
<1>17. ASSUME NEW a \in Apps, CancelParser(a) PROVE PlacesInv'
  <2>1. /\ UNCHANGED <<delivered, queue>>
        /\ InHand' \in {InHand, Stale} /\ Buffered' \in {Buffered, Stale}
        /\ FirstUnread' \in Int /\ FirstUnread' >= FirstUnread
    BY <1>17, <1>1
    DEF CancelParser, InHand, Buffered, FirstUnread, Stale
  <2>2. QED
    BY <2>1, PlacesKept
<1>18. CASE BgTop
  <2>1. /\ UNCHANGED <<delivered, queue>>
        /\ InHand' \in {InHand, Stale} /\ Buffered' \in {Buffered, Stale}
        /\ FirstUnread' \in Int /\ FirstUnread' >= FirstUnread
    BY <1>18, <1>1
    DEF BgTop, Proceed, InHand, Buffered, FirstUnread, Stale
  <2>2. QED
    BY <2>1, PlacesKept
<1>19. CASE BgWake
  <2>1. /\ UNCHANGED <<delivered, queue>>
        /\ InHand' \in {InHand, Stale} /\ Buffered' \in {Buffered, Stale}
        /\ FirstUnread' \in Int /\ FirstUnread' >= FirstUnread
    BY <1>19, <1>1
    DEF BgWake, Proceed, InHand, Buffered, FirstUnread, Stale
  <2>2. QED
    BY <2>1, PlacesKept
<1>20. CASE BgReadDone
  <2>1. /\ UNCHANGED <<delivered, queue>>
        /\ InHand' \in {InHand, Stale} /\ Buffered' \in {Buffered, Stale}
        /\ FirstUnread' \in Int /\ FirstUnread' >= FirstUnread
    BY <1>20, <1>1
    DEF BgReadDone, SearchDone, InHand, Buffered, FirstUnread, Stale
  <2>2. QED
    BY <2>1, PlacesKept
<1>21. ASSUME NEW status \in {"retry", "fatal", "antenna"},
              BgReadFailed(status)
      PROVE PlacesInv'
  <2>1. /\ UNCHANGED <<delivered, queue>>
        /\ InHand' \in {InHand, Stale} /\ Buffered' \in {Buffered, Stale}
        /\ FirstUnread' \in Int /\ FirstUnread' >= FirstUnread
    BY <1>21, <1>1
    DEF BgReadFailed, InHand, Buffered, FirstUnread, Stale
  <2>2. QED
    BY <2>1, PlacesKept
<1>22. CASE BgDispatch
  <2>1. /\ UNCHANGED <<delivered, queue>>
        /\ InHand' \in {InHand, Stale} /\ Buffered' \in {Buffered, Stale}
        /\ FirstUnread' \in Int /\ FirstUnread' >= FirstUnread
    BY <1>22, <1>1
    DEF BgDispatch, InHand, Buffered, FirstUnread, Stale
  <2>2. QED
    BY <2>1, PlacesKept
<1>23. CASE BgBottom
  <2>1. /\ UNCHANGED <<delivered, queue>>
        /\ InHand' \in {InHand, Stale} /\ Buffered' \in {Buffered, Stale}
        /\ FirstUnread' \in Int /\ FirstUnread' >= FirstUnread
    BY <1>23, <1>1
    DEF BgBottom, InHand, Buffered, FirstUnread, Stale
  <2>2. QED
    BY <2>1, PlacesKept
<1>24. CASE StreamTag
  <2>1. unread = 0
    BY <1>24 DEF StreamTag, Streaming, CountsInv, Searching, Receiving
  <2>2. QED
    BY <1>24, <2>1, TagReceived DEF StreamTag
<1>25. CASE StreamStatus
  <2>1. /\ UNCHANGED <<delivered, queue>>
        /\ InHand' \in {InHand, Stale} /\ Buffered' \in {Buffered, Stale}
        /\ FirstUnread' \in Int /\ FirstUnread' >= FirstUnread
    BY <1>25, <1>1
    DEF StreamStatus, Status, Streaming, InHand, Buffered, FirstUnread, Stale,
        CountsInv, Posting, Status
  <2>2. QED
    BY <2>1, PlacesKept
<1>26. CASE StreamLeftover
  <2>1. /\ UNCHANGED <<delivered, queue>>
        /\ InHand' \in {InHand, Stale} /\ Buffered' \in {Buffered, Stale}
        /\ FirstUnread' \in Int /\ FirstUnread' >= FirstUnread
    BY <1>26, <1>1
    DEF StreamLeftover, InHand, Buffered, FirstUnread, Stale
  <2>2. QED
    BY <2>1, PlacesKept
<1>27. CASE StreamQuiet
  <2>1. /\ UNCHANGED <<delivered, queue>>
        /\ InHand' \in {InHand, Stale} /\ Buffered' \in {Buffered, Stale}
        /\ FirstUnread' \in Int /\ FirstUnread' >= FirstUnread
    BY <1>27, <1>1
    DEF StreamQuiet, Streaming, InHand, Buffered, FirstUnread, Stale
  <2>2. QED
    BY <2>1, PlacesKept
<1>28. CASE StreamCrc
  <2>1. /\ UNCHANGED <<delivered, queue>>
        /\ InHand' \in {InHand, Stale} /\ Buffered' \in {Buffered, Stale}
        /\ FirstUnread' \in Int /\ FirstUnread' >= FirstUnread
    BY <1>28, <1>1
    DEF StreamCrc, Streaming, InHand, Buffered, FirstUnread, Stale
  <2>2. QED
    BY <2>1, PlacesKept
<1>29. CASE StreamFull
  <2>1. /\ UNCHANGED <<delivered, queue>>
        /\ InHand' \in {InHand, Stale} /\ Buffered' \in {Buffered, Stale}
        /\ FirstUnread' \in Int /\ FirstUnread' >= FirstUnread
    BY <1>29, <1>1
    DEF StreamFull, Streaming, InHand, Buffered, FirstUnread, Stale
  <2>2. QED
    BY <2>1, PlacesKept
<1>30. CASE BgBufferFull
  <2>1. /\ UNCHANGED <<delivered, queue>>
        /\ InHand' \in {InHand, Stale} /\ Buffered' \in {Buffered, Stale}
        /\ FirstUnread' \in Int /\ FirstUnread' >= FirstUnread
    BY <1>30, <1>1
    DEF BgBufferFull, InHand, Buffered, FirstUnread, Stale
  <2>2. QED
    BY <2>1, PlacesKept
<1>31. CASE BgResubmit
  <2>1. CASE ReceiveTag
    <3>1. unread = 0
      BY <1>31 DEF BgResubmit, CountsInv, Searching
    <3>2. QED
      BY <1>31, <2>1, <3>1, TagReceived DEF BgResubmit
  <2>2. CASE UNCHANGED <<tagsRemainingInBuffer, bufResponse, nextTag>>
    <3>1. /\ UNCHANGED <<delivered, queue>>
          /\ InHand' \in {InHand, Stale} /\ Buffered' \in {Buffered, Stale}
          /\ FirstUnread' \in Int /\ FirstUnread' >= FirstUnread
      BY <1>31, <2>2, <1>1
      DEF BgResubmit, InHand, Buffered, FirstUnread, Stale
    <3>2. QED
      BY <3>1, PlacesKept
  <2>3. QED
    BY <1>31, <2>1, <2>2 DEF BgResubmit
<1>32. CASE StreamEnd
  <2>1. /\ UNCHANGED <<delivered, queue>>
        /\ InHand' \in {InHand, Stale} /\ Buffered' \in {Buffered, Stale}
        /\ FirstUnread' \in Int /\ FirstUnread' >= FirstUnread
    BY <1>32, <1>1
    DEF StreamEnd, Streaming, InHand, Buffered, FirstUnread, Stale
  <2>2. QED
    BY <2>1, PlacesKept
<1>33. CASE BgDrain
  <2>1. /\ UNCHANGED <<delivered, queue>>
        /\ InHand' \in {InHand, Stale} /\ Buffered' \in {Buffered, Stale}
        /\ FirstUnread' \in Int /\ FirstUnread' >= FirstUnread
    BY <1>33, <1>1
    DEF BgDrain, ReadingDone, InHand, Buffered, FirstUnread, Stale
  <2>2. QED
    BY <2>1, PlacesKept
<1>34. CASE StreamLost
  <2>1. /\ UNCHANGED <<delivered, queue>>
        /\ InHand' \in {InHand, Stale} /\ Buffered' \in {Buffered, Stale}
        /\ FirstUnread' \in Int /\ FirstUnread' >= FirstUnread
    BY <1>34, <1>1
    DEF StreamLost, StopModule, Streaming, InHand, Buffered, FirstUnread, Stale
  <2>2. QED
    BY <2>1, PlacesKept
<1>35. CASE BgForced
  <2>1. /\ UNCHANGED <<delivered, queue>>
        /\ InHand' \in {InHand, Stale} /\ Buffered' \in {Buffered, Stale}
        /\ FirstUnread' \in Int /\ FirstUnread' >= FirstUnread
    BY <1>35, <1>1
    DEF BgForced, ReadingDone, InHand, Buffered, FirstUnread, Stale
  <2>2. QED
    BY <2>1, PlacesKept
<1>36. CASE BgForcedSearch
  <2>1. /\ UNCHANGED <<delivered, queue>>
        /\ InHand' \in {InHand, Stale} /\ Buffered' \in {Buffered, Stale}
        /\ FirstUnread' \in Int /\ FirstUnread' >= FirstUnread
    BY <1>36, <1>1
    DEF BgForcedSearch, InHand, Buffered, FirstUnread, Stale
  <2>2. QED
    BY <2>1, PlacesKept
<1>37. CASE BgForcedReset
  <2>1. /\ UNCHANGED <<delivered, queue>>
        /\ InHand' \in {InHand, Stale} /\ Buffered' \in {Buffered, Stale}
        /\ FirstUnread' \in Int /\ FirstUnread' >= FirstUnread
    BY <1>37, <1>1
    DEF BgForcedReset, InHand, Buffered, FirstUnread, Stale
  <2>2. QED
    BY <2>1, PlacesKept
<1>38. CASE BgProbe
  <2>1. /\ UNCHANGED <<delivered, queue>>
        /\ InHand' \in {InHand, Stale} /\ Buffered' \in {Buffered, Stale}
        /\ FirstUnread' \in Int /\ FirstUnread' >= FirstUnread
    BY <1>38, <1>1
    DEF BgProbe, InHand, Buffered, FirstUnread, Stale
  <2>2. QED
    BY <2>1, PlacesKept
<1>39. CASE BgNoSlot
  <2>1. /\ UNCHANGED <<delivered, queue>>
        /\ InHand' \in {InHand, Stale} /\ Buffered' \in {Buffered, Stale}
        /\ FirstUnread' \in Int /\ FirstUnread' >= FirstUnread
    BY <1>39, <1>1
    DEF BgNoSlot, InHand, Buffered, FirstUnread, Stale
  <2>2. QED
    BY <2>1, PlacesKept
<1>40. CASE BgVerify
  <2>1. nextTag' \in Int /\ nextTag' >= nextTag
    <3>1. nextTag' \in nextTag .. MaxTags + 1
      BY <1>40 DEF BgVerify
    <3>2. QED
      BY <3>1, <1>1
  <2>2. /\ UNCHANGED <<delivered, queue, ppc, hand, unread>>
        /\ bufResponse' = Stale
    BY <1>40 DEF BgVerify
  <2>3. /\ UNCHANGED <<delivered, queue>>
        /\ InHand' \in {InHand, Stale} /\ Buffered' \in {Buffered, Stale}
        /\ FirstUnread' \in Int /\ FirstUnread' >= FirstUnread
    <3>1. Buffered' = Stale
      BY <2>2 DEF Buffered
    <3>2. InHand' = InHand
      BY <2>2 DEF InHand
    <3>3. FirstUnread' \in Int /\ FirstUnread' >= FirstUnread
      <4>1. unread' = unread
        BY <2>2
      <4>2. FirstUnread' = nextTag' - unread /\ FirstUnread = nextTag - unread
        BY <4>1 DEF FirstUnread
      <4>3. unread \in Nat /\ nextTag \in Nat
        BY <1>1
      <4>4. ASSUME NEW n \in Int, n >= nextTag
            PROVE  n - unread \in Int /\ n - unread >= nextTag - unread
        BY <4>3, <4>4
      <4>5. QED
        BY <2>1, <4>2, <4>4
    <3>4. QED
      BY <2>2, <3>1, <3>2, <3>3
  <2>4. QED
    BY <2>3, PlacesKept
<1>41. CASE BgRefill
  <2>1. /\ UNCHANGED <<delivered, queue>>
        /\ InHand' \in {InHand, Stale} /\ Buffered' \in {Buffered, Stale}
        /\ FirstUnread' \in Int /\ FirstUnread' >= FirstUnread
    BY <1>41, <1>1
    DEF BgRefill, InHand, Buffered, FirstUnread, Stale
  <2>2. QED
    BY <2>1, PlacesKept
<1>42. CASE BgTakeSlot
  <2>1. /\ UNCHANGED <<delivered, queue>>
        /\ InHand' \in {InHand, Stale} /\ Buffered' \in {Buffered, Stale}
        /\ FirstUnread' \in Int /\ FirstUnread' >= FirstUnread
    BY <1>42, <1>1
    DEF BgTakeSlot, InHand, Buffered, FirstUnread, Stale
  <2>2. QED
    BY <2>1, PlacesKept
<1>43. CASE BgEnqueue
  <2>1. /\ queue' = Append(queue, bufResponse) /\ delivered' = delivered
        /\ Buffered' = Stale /\ InHand' = InHand /\ FirstUnread' = FirstUnread
        /\ InHand \in Int /\ FirstUnread \in Int /\ FirstUnread > 0
    BY <1>43, <1>1
    DEF BgEnqueue, Buffered, InHand, FirstUnread, Stale
  <2>2. \/ bufResponse = Buffered
        \/ bufResponse = Status
    BY <1>43, <1>1 DEF BgEnqueue, Buffered, CountsInv, Posting
  <2>3. /\ bufResponse < FirstUnread
        /\ Apart(delivered, bufResponse) /\ Apart(queue, bufResponse)
        /\ InHand > 0 => InHand # bufResponse
    BY <2>1, <2>2 DEF PlacesInv, Apart, Status
  <2>4. /\ Older(queue', FirstUnread) /\ Distinct(queue')
        /\ Disjoint(delivered, queue') /\ Apart(queue', InHand)
    <3>1. CASE InHand > 0
      BY <3>1, <1>1, <2>1, <2>3, Appending DEF PlacesInv
    <3>2. CASE ~(InHand > 0)
      BY <3>2, <1>1, <2>1, <2>3, Appending DEF PlacesInv, Apart
    <3>3. QED
      BY <3>1, <3>2
  <2>5. QED
    BY <2>1, <2>4 DEF PlacesInv, Apart, Stale
<1>44. CASE BgSignal
  <2>1. /\ UNCHANGED <<delivered, queue>>
        /\ InHand' \in {InHand, Stale} /\ Buffered' \in {Buffered, Stale}
        /\ FirstUnread' \in Int /\ FirstUnread' >= FirstUnread
    BY <1>44, <1>1
    DEF BgSignal, Holds, InHand, Buffered, FirstUnread, Stale, CountsInv,
        Posting, Status
  <2>2. QED
    BY <2>1, PlacesKept
<1>45. CASE PollTag
  <2>1. PICK e \in Int :
          /\ delivered' = Append(delivered, e) /\ queue' = queue
          /\ Buffered' = Stale /\ InHand' = InHand
          /\ \/ e = Buffered /\ FirstUnread' = FirstUnread
             \/ e = FirstUnread /\ FirstUnread' = FirstUnread + 1
    <3>1. CASE tagsRemainingInBuffer > 0
      <4>1. /\ tagsRemainingInBuffer = 1 /\ bpc = "poll" /\ bpc' = bpc
            /\ delivered' = Append(delivered, bufResponse)
            /\ tagsRemainingInBuffer' = 0
            /\ UNCHANGED <<queue, ppc, hand, nextTag, unread>>
        BY <1>45, <3>1, <1>1 DEF PollTag
      <4>2. Buffered = bufResponse
        BY <4>1 DEF Buffered
      <4>3. Buffered' = Stale /\ InHand' = InHand /\ FirstUnread' = FirstUnread
        BY <4>1 DEF Buffered, InHand, FirstUnread
      <4>4. QED
        BY <4>1, <4>2, <4>3, <1>1
    <3>2. CASE tagsRemainingInBuffer = 0
      <4>1. nextTag - unread \in Int
        BY <1>1
      <4>2. QED
        BY <1>45, <3>2, <4>1, <1>1
        DEF PollTag, Buffered, InHand, FirstUnread, Stale
    <3>3. QED
      BY <1>1, <3>1, <3>2
  <2>2. /\ InHand \in Int /\ FirstUnread \in Int /\ FirstUnread > 0
        /\ FirstUnread' \in Int /\ FirstUnread' >= FirstUnread
        /\ Stale < FirstUnread /\ Buffered < FirstUnread /\ InHand < FirstUnread
        /\ Buffered \in Int
    BY <1>1, <2>1 DEF InHand, FirstUnread, Stale, PlacesInv, Buffered
  <2>3. /\ \A i \in 1 .. Len(delivered) : delivered[i] \in Int
        /\ \A i \in 1 .. Len(queue) : queue[i] \in Int
    BY <1>1, ElementOfSeq
  <2>4. /\ Apart(delivered, e) /\ Apart(queue, e) /\ e < FirstUnread'
        /\ InHand > 0 => InHand # e
        /\ Older(delivered, FirstUnread') /\ Older(queue, FirstUnread')
    <3>1. CASE e = Buffered /\ FirstUnread' = FirstUnread
      BY <3>1, <2>2 DEF PlacesInv
    <3>2. CASE e = FirstUnread /\ FirstUnread' = FirstUnread + 1
      BY <3>2, <2>2, <2>3 DEF PlacesInv, Older, Apart
    <3>3. QED
      BY <2>1, <3>1, <3>2
  <2>5. /\ Older(delivered', FirstUnread') /\ Distinct(delivered')
        /\ Disjoint(delivered', queue) /\ Apart(delivered', InHand)
    <3>1. CASE InHand > 0
      BY <3>1, <1>1, <2>1, <2>2, <2>4, Appending DEF PlacesInv
    <3>2. CASE ~(InHand > 0)
      BY <3>2, <1>1, <2>1, <2>2, <2>4, Appending DEF PlacesInv, Apart
    <3>3. QED
      BY <3>1, <3>2
  <2>6. QED
    BY <2>1, <2>2, <2>4, <2>5 DEF PlacesInv, Apart, Stale
<1>46. CASE PollFailed
  <2>1. /\ UNCHANGED <<delivered, queue>>
        /\ InHand' \in {InHand, Stale} /\ Buffered' \in {Buffered, Stale}
        /\ FirstUnread' \in Int /\ FirstUnread' >= FirstUnread
    BY <1>46, <1>1
    DEF PollFailed, InHand, Buffered, FirstUnread, Stale
  <2>2. QED
    BY <2>1, PlacesKept
<1>47. CASE PollEnd
  <2>1. /\ UNCHANGED <<delivered, queue>>
        /\ InHand' \in {InHand, Stale} /\ Buffered' \in {Buffered, Stale}
        /\ FirstUnread' \in Int /\ FirstUnread' >= FirstUnread
    BY <1>47, <1>1
    DEF PollEnd, InHand, Buffered, FirstUnread, Stale
  <2>2. QED
    BY <2>1, PlacesKept
<1>48. CASE ParserWait
  <2>1. /\ UNCHANGED <<delivered, queue>>
        /\ InHand' \in {InHand, Stale} /\ Buffered' \in {Buffered, Stale}
        /\ FirstUnread' \in Int /\ FirstUnread' >= FirstUnread
    BY <1>48, <1>1
    DEF ParserWait, InHand, Buffered, FirstUnread, Stale
  <2>2. QED
    BY <2>1, PlacesKept
<1>49. CASE ParserTake
  <2>1. CASE queue = <<>>
    <3>1. /\ UNCHANGED <<delivered, queue>>
          /\ InHand' \in {InHand, Stale} /\ Buffered' \in {Buffered, Stale}
          /\ FirstUnread' \in Int /\ FirstUnread' >= FirstUnread
      BY <1>49, <2>1, <1>1
      DEF ParserTake, InHand, Buffered, FirstUnread, Stale
    <3>2. QED
      BY <3>1, PlacesKept
  <2>2. CASE queue # <<>>
    <3>1. /\ queue' = Tail(queue) /\ InHand' = Head(queue)
          /\ delivered' = delivered
          /\ Buffered' = Buffered /\ FirstUnread' = FirstUnread
          /\ FirstUnread \in Int /\ Buffered \in Int
      BY <1>49, <2>2, <1>1
      DEF ParserTake, InHand, Buffered, FirstUnread, Stale
    <3>2. /\ Older(queue', FirstUnread) /\ InHand' < FirstUnread
          /\ Distinct(queue') /\ Apart(queue', InHand')
          /\ Apart(queue', Buffered)
          /\ Buffered > 0 => Buffered # InHand'
          /\ Disjoint(delivered, queue') /\ Apart(delivered, InHand')
      BY <3>1, <2>2, <1>1, Taking DEF PlacesInv
    <3>3. QED
      BY <3>1, <3>2 DEF PlacesInv
  <2>3. QED
    BY <2>1, <2>2
<1>50. CASE ParserNotify
  <2>1. CASE delivered' = delivered
    <3>1. /\ UNCHANGED <<delivered, queue>>
          /\ InHand' \in {InHand, Stale} /\ Buffered' \in {Buffered, Stale}
          /\ FirstUnread' \in Int /\ FirstUnread' >= FirstUnread
      BY <1>50, <2>1, <1>1
      DEF ParserNotify, InHand, Buffered, FirstUnread, Stale
    <3>2. QED
      BY <3>1, PlacesKept
  <2>2. CASE delivered' = Append(delivered, hand)
    <3>1. /\ InHand = hand /\ InHand' = Stale /\ queue' = queue
          /\ Buffered' = Buffered /\ FirstUnread' = FirstUnread
          /\ FirstUnread \in Int /\ Buffered \in Int
      BY <1>50, <1>1
      DEF ParserNotify, InHand, Buffered, FirstUnread, Stale
    <3>2. /\ Older(delivered', FirstUnread) /\ Distinct(delivered')
          /\ Disjoint(delivered', queue)
      BY <3>1, <2>2, <1>1, Appending DEF PlacesInv
    <3>3. Apart(delivered', Buffered)
      <4>1. CASE Buffered > 0
        BY <4>1, <3>1, <2>2, <1>1, Appending DEF PlacesInv, Apart
      <4>2. CASE ~(Buffered > 0)
        BY <4>2 DEF Apart
      <4>3. QED
        BY <4>1, <4>2
    <3>4. 0 < FirstUnread
      BY <1>1 DEF FirstUnread
    <3>5. QED
      BY <3>1, <3>2, <3>3, <3>4 DEF PlacesInv, Apart, Stale
  <2>3. QED
    BY <1>50, <2>1, <2>2 DEF ParserNotify
<1>51. CASE ParserRelease
  <2>1. /\ UNCHANGED <<delivered, queue>>
        /\ InHand' \in {InHand, Stale} /\ Buffered' \in {Buffered, Stale}
        /\ FirstUnread' \in Int /\ FirstUnread' >= FirstUnread
    BY <1>51, <1>1
    DEF ParserRelease, InHand, Buffered, FirstUnread, Stale
  <2>2. QED
    BY <2>1, PlacesKept
<1>52. CASE SpuriousWakeup
  <2>1. /\ UNCHANGED <<delivered, queue>>
        /\ InHand' \in {InHand, Stale} /\ Buffered' \in {Buffered, Stale}
        /\ FirstUnread' \in Int /\ FirstUnread' >= FirstUnread
    BY <1>52, <1>1
    DEF SpuriousWakeup, InHand, Buffered, FirstUnread, Stale
  <2>2. QED
    BY <2>1, PlacesKept
<1>53. CASE Terminated
  <2>1. /\ UNCHANGED <<delivered, queue>>
        /\ InHand' \in {InHand, Stale} /\ Buffered' \in {Buffered, Stale}
        /\ FirstUnread' \in Int /\ FirstUnread' >= FirstUnread
    BY <1>53, <1>1
    DEF Terminated, vars, InHand, Buffered, FirstUnread, Stale
  <2>2. QED
    BY <2>1, PlacesKept
<1>54. CASE UNCHANGED vars
  BY <1>54, <1>1, PlacesKept
  DEF vars, InHand, Buffered, FirstUnread
<1>55. QED
  BY <1>2, <1>3, <1>4, <1>5, <1>6, <1>7, <1>8, <1>9, <1>10, <1>11, <1>12,
     <1>13, <1>14, <1>15, <1>16, <1>17, <1>18, <1>19, <1>20, <1>21, <1>22,
     <1>23, <1>24, <1>25, <1>26, <1>27, <1>28, <1>29, <1>30, <1>31, <1>32,
     <1>33, <1>34, <1>35, <1>36, <1>37, <1>38, <1>39, <1>40, <1>41, <1>42,
     <1>43, <1>44, <1>45, <1>46, <1>47, <1>48, <1>49, <1>50, <1>51, <1>52,
     <1>53, <1>54
  DEF Next, Call, Calling, ReaderThread, Parser

(* CountsInv and PlacesInv hold in every state.                            *)
LEMMA PlacesInvariant == Spec => [](CountsInv /\ PlacesInv)
<1>1. Init => CountsInv /\ PlacesInv
  <2> SUFFICES ASSUME Init PROVE CountsInv /\ PlacesInv
    OBVIOUS
  <2>1. ~reader.trueAsyncflag
    BY DEF Init
  <2>2. /\ bpc = "none" /\ ppc = "none" /\ queue = <<>> /\ delivered = <<>>
        /\ tagsRemainingInBuffer = 0 /\ unread = 0 /\ nextTag = 1
    BY DEF Init
  <2>3. CountsInv
    BY <2>1, <2>2 DEF CountsInv, Posting, Searching, Receiving
  <2>4. InHand = 0 /\ Buffered = 0 /\ FirstUnread = 1
    BY <2>2 DEF InHand, Buffered, FirstUnread, Stale
  <2>5. PlacesInv
    BY <2>2, <2>4 DEF PlacesInv, Older, Distinct, Disjoint, Apart
  <2>6. QED
    BY <2>3, <2>5
<1>2. TypeOK /\ LineInv /\ CountsInv /\ [Next]_vars => CountsInv'
  BY CountsStep
<1>3. TypeOK /\ SlotsInv /\ CountsInv /\ PlacesInv /\ [Next]_vars => PlacesInv'
  BY PlacesStep
<1>4. QED
  BY <1>1, <1>2, <1>3, TypeCorrect, SlotsInvariant, LineInvariant, PTL DEF Spec

(* No tag is delivered twice (NoneTwice), under every fault the model has: *)
(* messages lost or corrupted, a stream stopped by force or resubmitted, a *)
(* queue that overflows, a reader that is destroyed.                       *)
THEOREM NoTagTwice == Spec => []NoneTwice
<1>1. ASSUME TypeOK, CountsInv, PlacesInv PROVE NoneTwice
  <2>1. /\ delivered \in Seq(Int) /\ queue \in Seq(Int) /\ hand \in Int
        /\ bufResponse \in Int /\ unread \in Nat /\ nextTag \in Nat \ {0}
        /\ unread < nextTag /\ FirstUnread \in Int /\ FirstUnread > 0
    BY <1>1 DEF TypeOK, CountsInv, FirstUnread
  <2>2. /\ InParser \in Seq(Int) /\ InReader \in Seq(Int)
        /\ InModule \in Seq(Int)
    BY <2>1 DEF InParser, InReader, InModule
  <2>3. /\ \A i \in 1 .. Len(delivered) : delivered[i] \in Int
        /\ \A i \in 1 .. Len(queue) : queue[i] \in Int
        /\ \A i \in 1 .. Len(InModule) : InModule[i] \in Int
        /\ InHand \in Int /\ Buffered \in Int
    BY <2>1, <2>2, ElementOfSeq DEF InHand, Buffered, Stale
  <2>4. /\ Len(InParser) \in {0, 1}
        /\ \A i \in 1 .. Len(InParser) : i = 1 /\ InParser[i] = InHand
    BY <2>1 DEF InParser, InHand
  <2>5. /\ Len(InReader) \in {0, 1}
        /\ \A i \in 1 .. Len(InReader) :
             i = 1 /\ (InReader[i] > 0 => InReader[i] = Buffered)
    BY <1>1, <2>1 DEF InReader, Buffered, CountsInv, Posting, Status
  <2>6. \A i \in 1 .. Len(InModule) : InModule[i] >= FirstUnread
    BY <2>1 DEF InModule, FirstUnread
  <2>7. Distinct(InParser) /\ Distinct(InReader) /\ Distinct(InModule)
    BY <2>1, <2>4, <2>5 DEF Distinct, InModule
  <2>8. /\ Disjoint(delivered, InParser) /\ Disjoint(delivered, queue)
        /\ Disjoint(delivered, InReader) /\ Disjoint(delivered, InModule)
    BY SMTT(30), <1>1, <2>1, <2>3, <2>4, <2>5, <2>6 DEF PlacesInv, Disjoint, Apart, Older
  <2>9. /\ Disjoint(InParser, queue) /\ Disjoint(InParser, InReader)
        /\ Disjoint(InParser, InModule)
    <3>1. Disjoint(InParser, queue)
      BY <1>1, <2>1, <2>3, <2>4 DEF PlacesInv, Disjoint, Apart
    <3>2. Disjoint(InParser, InReader)
      BY <1>1, <2>1, <2>4, <2>5 DEF PlacesInv, Disjoint
    <3>3. Disjoint(InParser, InModule)
      BY <1>1, <2>1, <2>3, <2>4, <2>6 DEF PlacesInv, Disjoint
    <3>4. QED
      BY <3>1, <3>2, <3>3
  <2>10. /\ Disjoint(queue, InReader) /\ Disjoint(queue, InModule)
         /\ Disjoint(InReader, InModule)
    <3>1. Disjoint(queue, InReader)
      BY <1>1, <2>1, <2>3, <2>5 DEF PlacesInv, Disjoint, Apart
    <3>2. Disjoint(queue, InModule)
      BY <1>1, <2>1, <2>3, <2>6 DEF PlacesInv, Disjoint, Older
    <3>3. Disjoint(InReader, InModule)
      BY <1>1, <2>1, <2>3, <2>5, <2>6 DEF PlacesInv, Disjoint
    <3>4. QED
      BY <3>1, <3>2, <3>3
  <2>11. Distinct(delivered) /\ Distinct(queue)
    BY <1>1 DEF PlacesInv
  <2> DEFINE s1 == delivered \o InParser
             s2 == s1 \o queue
             s3 == s2 \o InReader
  <2>12. /\ s1 \in Seq(Int) /\ Distinct(s1) /\ Disjoint(s1, queue)
         /\ Disjoint(s1, InReader) /\ Disjoint(s1, InModule)
    BY <2>1, <2>2, <2>7, <2>8, <2>9, <2>11, Joining
  <2> HIDE DEF s1
  <2>13. /\ s2 \in Seq(Int) /\ Distinct(s2)
         /\ Disjoint(s2, InReader) /\ Disjoint(s2, InModule)
    BY <2>1, <2>2, <2>10, <2>11, <2>12, Joining
  <2> HIDE DEF s2
  <2>14. s3 \in Seq(Int) /\ Distinct(s3) /\ Disjoint(s3, InModule)
    BY <2>2, <2>7, <2>10, <2>13, Joining
  <2> HIDE DEF s3
  <2>15. Distinct(s3 \o InModule)
    BY <2>2, <2>7, <2>14, Joining
  <2>16. QED
    BY <2>15 DEF NoneTwice, Pipeline, Distinct, s1, s2, s3
<1>2. QED
  BY <1>1, TypeCorrect, PlacesInvariant, PTL

--------------------------------------------------------------------------------
(* The lines and modules on which nothing is lost: no message is corrupted *)
(* and no search is stopped by force.                                      *)
Lossless == StreamEvents \cap {"crc", "full", "lost"} = {}

Occurs(s, tag) == \E i \in 1 .. Len(s) : s[i] = tag

(* Every tag the module has seen, or will see, is in one of the places.    *)
Placed(tag) ==
  Occurs(delivered, tag) \/ Occurs(queue, tag) \/ InHand = tag \/ Buffered = tag
    \/ tag >= FirstUnread
AllPlaced == \A tag \in Nat \ {0} : Placed(tag)

Entry(e) == e > 0 \/ e = Status
Entries(s) == \A i \in 1 .. Len(s) : Entry(s[i])

(* What the reader thread has to fetch, and when bufResponse holds a tag.  *)
FetchInv ==
  /\ tagsRemainingInBuffer = 1 => bpc \in Posting /\ bufResponse > 0
  /\ unread > 0 => bpc \in {"dispatch", "poll"}
  /\ bpc = "poll" \/ (bpc = "dispatch" /\ ~reader.continuousReading)
       => unread = tagsRemaining /\ reader.connected /\ acks = 0

(* What is queued and handed out is a tag or a status report, and, until   *)
(* the parser is cancelled, all that is handed out are tags and every tag  *)
(* is somewhere.                                                           *)
FlowInv ==
  /\ Entries(queue)
  /\ ppc = "notify" => Entry(hand)
  /\ ~Cancelled => AllPlaced /\ \A i \in 1 .. Len(delivered) : delivered[i] > 0

(* The inductive strengthening of NothingLost: TMR_SR_hasMoreTags and      *)
(* TMR_SR_getNextTag lose nothing while the queue has not overflowed.      *)
LossInv == ~reader.isBufferOverFlow => FetchInv /\ FlowInv

(* Which entries occur in a sequence that grows, shrinks or is joined.     *)
LEMMA OccursAppend ==
  ASSUME NEW s \in Seq(Int), NEW e \in Int
  PROVE  /\ Occurs(Append(s, e), e)
         /\ \A tag : Occurs(s, tag) => Occurs(Append(s, e), tag)
<1> DEFINE a == Append(s, e)
<1>1. /\ Len(a) = Len(s) + 1 /\ Len(s) \in Nat
      /\ \A i \in 1 .. Len(s) : a[i] = s[i]
      /\ a[Len(s) + 1] = e
  BY AppendProperties, LenProperties
<1> HIDE DEF a
<1>2. /\ Len(s) + 1 \in 1 .. Len(a)
      /\ \A i \in 1 .. Len(s) : i \in 1 .. Len(a)
  BY <1>1
<1>3. Occurs(a, e)
  BY <1>1, <1>2 DEF Occurs
<1>4. \A tag : Occurs(s, tag) => Occurs(a, tag)
  BY <1>1, <1>2 DEF Occurs
<1>5. QED
  BY <1>3, <1>4 DEF a

(* Without its head.                                                       *)
LEMMA OccursTail ==
  ASSUME NEW s \in Seq(Int), s # <<>>
  PROVE  \A tag : Occurs(s, tag) => tag = Head(s) \/ Occurs(Tail(s), tag)
<1> SUFFICES ASSUME NEW i \in 1 .. Len(s), s[i] # Head(s)
             PROVE  Occurs(Tail(s), s[i])
  BY DEF Occurs
<1>1. Len(s) \in Nat \ {0} /\ Head(s) = s[1]
  BY EmptySeq
<1>2. /\ Len(Tail(s)) = Len(s) - 1
      /\ \A j \in 1 .. Len(Tail(s)) : Tail(s)[j] = s[j + 1]
  BY HeadTailProperties
<1>3. i # 1
  BY <1>1
<1>4. i - 1 \in 1 .. Len(Tail(s)) /\ i - 1 + 1 = i
  BY <1>1, <1>2, <1>3
<1>5. QED
  BY <1>2, <1>4 DEF Occurs

(* Two sequences put together.                                             *)
LEMMA OccursConcat ==
  ASSUME NEW s \in Seq(Int), NEW t \in Seq(Int)
  PROVE  /\ s \o t \in Seq(Int)
         /\ \A tag : Occurs(s, tag) \/ Occurs(t, tag) => Occurs(s \o t, tag)
<1> DEFINE c == s \o t
<1>1. /\ c \in Seq(Int) /\ Len(c) = Len(s) + Len(t)
      /\ Len(s) \in Nat /\ Len(t) \in Nat
      /\ \A i \in 1 .. Len(s) + Len(t) :
           c[i] = IF i <= Len(s) THEN s[i] ELSE t[i - Len(s)]
  BY ConcatProperties, LenProperties
<1> HIDE DEF c
<1>2. ASSUME NEW i \in 1 .. Len(s) PROVE Occurs(c, s[i])
  <2>1. i \in 1 .. Len(c) /\ c[i] = s[i]
    BY <1>1
  <2>2. QED
    BY <2>1 DEF Occurs
<1>3. ASSUME NEW i \in 1 .. Len(t) PROVE Occurs(c, t[i])
  <2>1. /\ i + Len(s) \in 1 .. Len(c) /\ ~(i + Len(s) <= Len(s))
        /\ i + Len(s) - Len(s) = i
    BY <1>1
  <2>2. c[i + Len(s)] = t[i]
    BY SMTT(30), <2>1, <1>1
  <2>3. QED
    BY <2>1, <2>2 DEF Occurs
<1>4. QED
  BY <1>1, <1>2, <1>3 DEF Occurs, c

(* A step that leaves the places of the tags alone.                        *)
LEMMA FlowKept ==
  ASSUME FlowInv, UNCHANGED <<delivered, queue, hand>>,
         ppc' = "notify" => ppc = "notify",
         InHand' = InHand, Buffered' = Buffered, FirstUnread' = FirstUnread,
         ~Cancelled' => ~Cancelled
  PROVE  FlowInv'
BY DEF FlowInv, Entries, Entry, AllPlaced, Placed, Occurs

(* A tag is received.                                                      *)
LEMMA FlowReceived ==
  ASSUME TypeOK, FlowInv, ReceiveTag, unread = 0, tagsRemainingInBuffer = 0,
         UNCHANGED <<delivered, queue, ppc, hand, unread>>, bpc' # "signal",
         ~Cancelled' => ~Cancelled
  PROVE  FlowInv'
<1>1. nextTag \in Nat \ {0} /\ hand \in Int
  BY DEF TypeOK
<1>2. /\ FirstUnread = nextTag /\ FirstUnread' = nextTag + 1
      /\ Buffered = Stale /\ Buffered' = nextTag /\ InHand' = InHand
  BY <1>1 DEF ReceiveTag, FirstUnread, Buffered, InHand
<1>3. ASSUME NEW tag \in Nat \ {0}, Placed(tag) PROVE Placed(tag)'
  <2>1. tag >= nextTag => tag = nextTag \/ tag >= nextTag + 1
    BY <1>1
  <2>2. QED
    BY <1>2, <1>3, <2>1 DEF Placed, Occurs, Stale
<1>4. QED
  BY <1>3 DEF FlowInv, Entries, Entry, AllPlaced

(* The entries of a sequence that grows or shrinks.                        *)
LEMMA EntriesAppend ==
  ASSUME NEW s \in Seq(Int), NEW e \in Int, Entries(s), Entry(e)
  PROVE  Entries(Append(s, e))
BY AppendProperties DEF Entries

(* Positive entries stay positive when one is added,                       *)
LEMMA PositiveAppend ==
  ASSUME NEW s \in Seq(Int), NEW e \in Int, e > 0,
         \A i \in 1 .. Len(s) : s[i] > 0
  PROVE  \A i \in 1 .. Len(Append(s, e)) : Append(s, e)[i] > 0
BY AppendProperties

(* and the entries of the rest are entries.                                *)
LEMMA EntriesTail ==
  ASSUME NEW s \in Seq(Int), s # <<>>, Entries(s)
  PROVE  Entries(Tail(s)) /\ Entry(Head(s))
<1>1. Len(s) \in Nat \ {0} /\ Head(s) = s[1]
  BY EmptySeq
<1>2. /\ Len(Tail(s)) = Len(s) - 1
      /\ \A i \in 1 .. Len(Tail(s)) : Tail(s)[i] = s[i + 1]
  BY HeadTailProperties
<1>3. /\ 1 \in 1 .. Len(s)
      /\ \A i \in 1 .. Len(Tail(s)) : i + 1 \in 1 .. Len(s)
  BY <1>1, <1>2
<1>4. QED
  BY <1>1, <1>2, <1>3 DEF Entries, Entry

(* No step takes back an overflow or a cancellation.                       *)
LEMMA Persist ==
  ASSUME TypeOK, [Next]_vars
  PROVE  /\ reader.isBufferOverFlow => reader'.isBufferOverFlow
         /\ Cancelled => Cancelled'
<1> USE DEF queueVars, waitVars, linkVars, serialVars, moduleVars, parseVars,
            appVars
<1>1. reader \in ReaderFlags /\ apc \in AppControl
  BY DEF TypeOK
<1>2. ASSUME NEW a \in Apps, Call(a) \/ Calling(a)
      PROVE  /\ reader.isBufferOverFlow => reader'.isBufferOverFlow
             /\ Cancelled => Cancelled'
  <2>1. \/ reader' = reader
        \/ reader'.isBufferOverFlow = reader.isBufferOverFlow
    <3>1. CASE Call(a)
      BY <3>1, <1>1
      DEF Call, StartReading, StopReading, Destroy, ReaderFlags
    <3>2. CASE StartParser(a) \/ StartReader(a) \/ StopDisable(a)
      BY <3>2, <1>1 DEF StartParser, StartReader, StopDisable, ReaderFlags
    <3>3. CASE StopReset(a) \/ Cleanup(a)
      BY <3>3, <1>1 DEF StopReset, Cleanup, ReaderFlags
    <3>4. CASE \/ StartWait(a) \/ StopStarted(a) \/ StopCheck(a) \/ StopSend(a)
               \/ StopDone(a) \/ StopIdle(a) \/ Join(a) \/ CancelParser(a)
      BY <3>4
      DEF StartWait, StopStarted, AwaitRead, StopCheck, StopSend, StopDone,
          StopIdle, Join, CancelParser
    <3>5. QED
      BY <1>2, <3>1, <3>2, <3>3, <3>4 DEF Calling
  <2>2. \/ apc' = apc
        \/ \E pc : apc' = [apc EXCEPT ![a] = pc] /\ apc[a] # "destroyed"
    <3>1. CASE Call(a)
      BY <3>1 DEF Call, StartReading, StopReading, Destroy, Goto, Quiet
    <3>2. CASE \/ StartParser(a) \/ StartReader(a) \/ StopDisable(a)
               \/ StopReset(a) \/ Cleanup(a)
      BY <3>2
      DEF StartParser, StartReader, StopDisable, AwaitIdle, StopReset, Cleanup,
          Goto
    <3>3. CASE \/ StartWait(a) \/ StopStarted(a) \/ StopCheck(a) \/ StopSend(a)
               \/ StopDone(a) \/ StopIdle(a) \/ Join(a) \/ CancelParser(a)
      BY <3>3
      DEF StartWait, StopStarted, AwaitRead, StopCheck, StopSend, StopDone,
          StopIdle, AwaitIdle, Join, CancelParser, Goto
    <3>4. QED
      BY <1>2, <3>1, <3>2, <3>3 DEF Calling
  <2>3. QED
    BY <2>1, <2>2, <1>1 DEF Cancelled, AppControl
<1>3. CASE ReaderThread
  <2>1. apc' = apc
    BY <1>3
    DEF ReaderThread, BgTop, Proceed, BgWake, BgReadDone, SearchDone,
        BgReadFailed, BgDispatch, BgBottom, StreamTag, ReceiveTag, Streaming,
        StreamStatus, StreamLeftover, StreamQuiet, StreamCrc, StreamFull,
        BgBufferFull, BgResubmit, StreamEnd, BgDrain, ReadingDone, StreamLost,
        StopModule, BgForced, BgForcedSearch, BgForcedReset, BgProbe, BgNoSlot,
        BgVerify, BgRefill, BgTakeSlot, BgEnqueue, BgSignal, PollTag,
        PollFailed, PollEnd
  <2>2. \/ reader' = reader
        \/ reader'.isBufferOverFlow = reader.isBufferOverFlow
        \/ reader'.isBufferOverFlow = TRUE
    BY <1>3, <1>1
    DEF ReaderThread, BgTop, Proceed, BgWake, BgReadDone, SearchDone,
        BgReadFailed, BgDispatch, BgBottom, StreamTag, ReceiveTag, Streaming,
        StreamStatus, StreamLeftover, StreamQuiet, StreamCrc, StreamFull,
        BgBufferFull, BgResubmit, StreamEnd, BgDrain, ReadingDone, StreamLost,
        StopModule, BgForced, BgForcedSearch, BgForcedReset, BgProbe, BgNoSlot,
        BgVerify, BgRefill, BgTakeSlot, BgEnqueue, BgSignal, PollTag,
        PollFailed, PollEnd, ReaderFlags
  <2>3. QED
    BY <2>1, <2>2 DEF Cancelled
<1>4. CASE Parser \/ SpuriousWakeup \/ Terminated \/ UNCHANGED vars
  <2>1. apc' = apc /\ reader' = reader
    BY <1>4
    DEF Parser, ParserWait, ParserTake, ParserNotify, ParserRelease,
        SpuriousWakeup, Terminated, vars
  <2>2. QED
    BY <2>1 DEF Cancelled
<1>5. QED
  BY <1>2, <1>3, <1>4 DEF Next

(* Every action preserves LossInv.                                         *)
LEMMA LossStep ==
  ASSUME Lossless, TypeOK, SlotsInv, LineInv, CountsInv, StopInv, LossInv,
         [Next]_vars
  PROVE  LossInv'
<1> SUFFICES ASSUME ~reader'.isBufferOverFlow PROVE FetchInv' /\ FlowInv'
  BY DEF LossInv
<1> USE DEF queueVars, waitVars, linkVars, serialVars, moduleVars, parseVars,
            appVars
<1>1. /\ reader \in ReaderFlags /\ unread \in Nat /\ nextTag \in Nat \ {0}
      /\ MaxTags \in Nat /\ hand \in Int /\ bufResponse \in Int
      /\ acks \in Nat /\ tagsRemaining \in Nat
      /\ tagsRemainingInBuffer \in {0, 1}
      /\ delivered \in Seq(Int) /\ queue \in Seq(Int)
      /\ apc \in AppControl
  BY BoundsAssumption DEF TypeOK, CountsInv
<1>0. /\ FetchInv /\ FlowInv /\ FlagsInv /\ LeftInv /\ CallsInv
      /\ ~Cancelled' => ~Cancelled /\ ~reader.isBufferOverFlow
  BY Persist DEF LossInv, StopInv
<1>2. ASSUME NEW a \in Apps, StartReading(a) PROVE FetchInv' /\ FlowInv'
  <2>1. FetchInv'
    BY <1>2, <1>0, <1>1
    DEF StartReading, FetchInv, FlagsInv, LineInv, Off, Posting, Searching,
        Receiving, Starting, CountsInv, ReaderFlags
  <2>2. /\ UNCHANGED <<delivered, queue, hand>>
        /\ ppc' = "notify" => ppc = "notify"
        /\ InHand' = InHand /\ Buffered' = Buffered
        /\ FirstUnread' = FirstUnread
    BY <1>2, <1>0, <1>1
    DEF StartReading, InHand, Buffered, FirstUnread, Stale, FetchInv,
        CountsInv, Posting
  <2>3. QED
    BY <1>0, <2>1, <2>2, FlowKept
<1>3. ASSUME NEW a \in Apps, StartParser(a) PROVE FetchInv' /\ FlowInv'
  <2>1. FetchInv'
    BY <1>3, <1>0, <1>1
    DEF StartParser, FetchInv, FlagsInv, LineInv, Off, Posting, Searching,
        Receiving, Starting, CountsInv, ReaderFlags
  <2>2. /\ UNCHANGED <<delivered, queue, hand>>
        /\ ppc' = "notify" => ppc = "notify"
        /\ InHand' = InHand /\ Buffered' = Buffered
        /\ FirstUnread' = FirstUnread
    BY <1>3, <1>0, <1>1
    DEF StartParser, InHand, Buffered, FirstUnread, Stale, FetchInv, CountsInv,
        Posting, SlotsInv
  <2>3. QED
    BY <1>0, <2>1, <2>2, FlowKept
<1>4. ASSUME NEW a \in Apps, StartReader(a) PROVE FetchInv' /\ FlowInv'
  <2>1. FetchInv'
    BY <1>4, <1>0, <1>1
    DEF StartReader, FetchInv, FlagsInv, LineInv, Off, Posting, Searching,
        Receiving, Starting, CountsInv, ReaderFlags
  <2>2. /\ UNCHANGED <<delivered, queue, hand>>
        /\ ppc' = "notify" => ppc = "notify"
        /\ InHand' = InHand /\ Buffered' = Buffered
        /\ FirstUnread' = FirstUnread
    BY <1>4, <1>0, <1>1
    DEF StartReader, InHand, Buffered, FirstUnread, Stale, FetchInv, CountsInv,
        Posting, SlotsInv
  <2>3. QED
    BY <1>0, <2>1, <2>2, FlowKept
<1>5. ASSUME NEW a \in Apps, StartWait(a) PROVE FetchInv' /\ FlowInv'
  <2>1. FetchInv'
    BY <1>5, <1>0, <1>1
    DEF StartWait, AwaitRead, FetchInv, FlagsInv, LineInv, Off, Posting,
        Searching, Receiving, Starting, CountsInv
  <2>2. /\ UNCHANGED <<delivered, queue, hand>>
        /\ ppc' = "notify" => ppc = "notify"
        /\ InHand' = InHand /\ Buffered' = Buffered
        /\ FirstUnread' = FirstUnread
    BY <1>5, <1>0, <1>1
    DEF StartWait, AwaitRead, InHand, Buffered, FirstUnread, Stale, FetchInv,
        CountsInv, Posting
  <2>3. QED
    BY <1>0, <2>1, <2>2, FlowKept
<1>6. ASSUME NEW a \in Apps, StopReading(a) PROVE FetchInv' /\ FlowInv'
  <2>1. FetchInv'
    BY <1>6, <1>0, <1>1
    DEF StopReading, FetchInv, FlagsInv, LineInv, Off, Posting, Searching,
        Receiving, Starting, CountsInv, ReaderFlags
  <2>2. /\ UNCHANGED <<delivered, queue, hand>>
        /\ ppc' = "notify" => ppc = "notify"
        /\ InHand' = InHand /\ Buffered' = Buffered
        /\ FirstUnread' = FirstUnread
    BY <1>6, <1>0, <1>1
    DEF StopReading, InHand, Buffered, FirstUnread, Stale, FetchInv, CountsInv,
        Posting
  <2>3. QED
    BY <1>0, <2>1, <2>2, FlowKept
<1>7. ASSUME NEW a \in Apps, StopStarted(a) PROVE FetchInv' /\ FlowInv'
  <2>1. FetchInv'
    BY <1>7, <1>0, <1>1
    DEF StopStarted, AwaitRead, FetchInv, FlagsInv, LineInv, Off, Posting,
        Searching, Receiving, Starting, CountsInv
  <2>2. /\ UNCHANGED <<delivered, queue, hand>>
        /\ ppc' = "notify" => ppc = "notify"
        /\ InHand' = InHand /\ Buffered' = Buffered
        /\ FirstUnread' = FirstUnread
    BY <1>7, <1>0, <1>1
    DEF StopStarted, AwaitRead, InHand, Buffered, FirstUnread, Stale, FetchInv,
        CountsInv, Posting
  <2>3. QED
    BY <1>0, <2>1, <2>2, FlowKept
<1>8. ASSUME NEW a \in Apps, StopCheck(a) PROVE FetchInv' /\ FlowInv'
  <2>1. FetchInv'
    BY <1>8, <1>0, <1>1
    DEF StopCheck, FetchInv, FlagsInv, LineInv, Off, Posting, Searching,
        Receiving, Starting, CountsInv
  <2>2. /\ UNCHANGED <<delivered, queue, hand>>
        /\ ppc' = "notify" => ppc = "notify"
        /\ InHand' = InHand /\ Buffered' = Buffered
        /\ FirstUnread' = FirstUnread
    BY <1>8, <1>0, <1>1
    DEF StopCheck, InHand, Buffered, FirstUnread, Stale, FetchInv, CountsInv,
        Posting
  <2>3. QED
    BY <1>0, <2>1, <2>2, FlowKept
<1>9. ASSUME NEW a \in Apps, StopSend(a) PROVE FetchInv' /\ FlowInv'
  <2>1. FetchInv'
    BY <1>9, <1>0, <1>1
    DEF StopSend, StopModule, FetchInv, FlagsInv, LineInv, Off, Posting,
        Searching, Receiving, Starting, CountsInv, CallsInv, Streams, LeftInv
  <2>2. /\ UNCHANGED <<delivered, queue, hand>>
        /\ ppc' = "notify" => ppc = "notify"
        /\ InHand' = InHand /\ Buffered' = Buffered
        /\ FirstUnread' = FirstUnread
    BY <1>9, <1>0, <1>1
    DEF StopSend, StopModule, InHand, Buffered, FirstUnread, Stale, FetchInv,
        CountsInv, Posting
  <2>3. QED
    BY <1>0, <2>1, <2>2, FlowKept
<1>10. ASSUME NEW a \in Apps, StopDone(a) PROVE FetchInv' /\ FlowInv'
  <2>1. FetchInv'
    BY <1>10, <1>0, <1>1
    DEF StopDone, AwaitRead, FetchInv, FlagsInv, LineInv, Off, Posting,
        Searching, Receiving, Starting, CountsInv
  <2>2. /\ UNCHANGED <<delivered, queue, hand>>
        /\ ppc' = "notify" => ppc = "notify"
        /\ InHand' = InHand /\ Buffered' = Buffered
        /\ FirstUnread' = FirstUnread
    BY <1>10, <1>0, <1>1
    DEF StopDone, AwaitRead, InHand, Buffered, FirstUnread, Stale, FetchInv,
        CountsInv, Posting
  <2>3. QED
    BY <1>0, <2>1, <2>2, FlowKept
<1>11. ASSUME NEW a \in Apps, StopDisable(a) PROVE FetchInv' /\ FlowInv'
  <2>1. FetchInv'
    BY <1>11, <1>0, <1>1
    DEF StopDisable, AwaitIdle, FetchInv, FlagsInv, LineInv, Off, Posting,
        Searching, Receiving, Starting, CountsInv, ReaderFlags
  <2>2. /\ UNCHANGED <<delivered, queue, hand>>
        /\ ppc' = "notify" => ppc = "notify"
        /\ InHand' = InHand /\ Buffered' = Buffered
        /\ FirstUnread' = FirstUnread
    BY <1>11, <1>0, <1>1
    DEF StopDisable, AwaitIdle, InHand, Buffered, FirstUnread, Stale, FetchInv,
        CountsInv, Posting
  <2>3. QED
    BY <1>0, <2>1, <2>2, FlowKept
<1>12. ASSUME NEW a \in Apps, StopIdle(a) PROVE FetchInv' /\ FlowInv'
  <2>1. FetchInv'
    BY <1>12, <1>0, <1>1
    DEF StopIdle, AwaitIdle, FetchInv, FlagsInv, LineInv, Off, Posting,
        Searching, Receiving, Starting, CountsInv
  <2>2. /\ UNCHANGED <<delivered, queue, hand>>
        /\ ppc' = "notify" => ppc = "notify"
        /\ InHand' = InHand /\ Buffered' = Buffered
        /\ FirstUnread' = FirstUnread
    BY <1>12, <1>0, <1>1
    DEF StopIdle, AwaitIdle, InHand, Buffered, FirstUnread, Stale, FetchInv,
        CountsInv, Posting
  <2>3. QED
    BY <1>0, <2>1, <2>2, FlowKept
<1>13. ASSUME NEW a \in Apps, StopReset(a) PROVE FetchInv' /\ FlowInv'
  <2>1. FetchInv'
    BY <1>13, <1>0, <1>1
    DEF StopReset, FetchInv, FlagsInv, LineInv, Off, Posting, Searching,
        Receiving, Starting, CountsInv, ReaderFlags, CallsInv, Streams, LeftInv
  <2>2. /\ UNCHANGED <<delivered, queue, hand>>
        /\ ppc' = "notify" => ppc = "notify"
        /\ InHand' = InHand /\ Buffered' = Buffered
        /\ FirstUnread' = FirstUnread
    BY <1>13, <1>0, <1>1
    DEF StopReset, InHand, Buffered, FirstUnread, Stale, FetchInv, CountsInv,
        Posting
  <2>3. QED
    BY <1>0, <2>1, <2>2, FlowKept
<1>14. ASSUME NEW a \in Apps, Destroy(a) PROVE FetchInv' /\ FlowInv'
  <2>1. FetchInv'
    BY <1>14, <1>0, <1>1
    DEF Destroy, FetchInv, FlagsInv, LineInv, Off, Posting, Searching,
        Receiving, Starting, CountsInv, ReaderFlags, CallsInv, Streams, LeftInv
  <2>2. /\ UNCHANGED <<delivered, queue, hand>>
        /\ ppc' = "notify" => ppc = "notify"
        /\ InHand' = InHand /\ Buffered' = Buffered
        /\ FirstUnread' = FirstUnread
    BY <1>14, <1>0, <1>1
    DEF Destroy, InHand, Buffered, FirstUnread, Stale, FetchInv, CountsInv,
        Posting
  <2>3. QED
    BY <1>0, <2>1, <2>2, FlowKept
<1>15. ASSUME NEW a \in Apps, Cleanup(a) PROVE FetchInv' /\ FlowInv'
  <2>1. FetchInv'
    BY <1>15, <1>0, <1>1
    DEF Cleanup, FetchInv, FlagsInv, LineInv, Off, Posting, Searching,
        Receiving, Starting, CountsInv, ReaderFlags
  <2>2. /\ UNCHANGED <<delivered, queue, hand>>
        /\ ppc' = "notify" => ppc = "notify"
        /\ InHand' = InHand /\ Buffered' = Buffered
        /\ FirstUnread' = FirstUnread
    BY <1>15, <1>0, <1>1
    DEF Cleanup, InHand, Buffered, FirstUnread, Stale, FetchInv, CountsInv,
        Posting
  <2>3. QED
    BY <1>0, <2>1, <2>2, FlowKept
<1>16. ASSUME NEW a \in Apps, Join(a) PROVE FetchInv' /\ FlowInv'
  <2>1. FetchInv'
    BY <1>16, <1>0, <1>1
    DEF Join, FetchInv, FlagsInv, LineInv, Off, Posting, Searching, Receiving,
        Starting, CountsInv
  <2>2. /\ UNCHANGED <<delivered, queue, hand>>
        /\ ppc' = "notify" => ppc = "notify"
        /\ InHand' = InHand /\ Buffered' = Buffered
        /\ FirstUnread' = FirstUnread
    BY <1>16, <1>0, <1>1
    DEF Join, InHand, Buffered, FirstUnread, Stale, FetchInv, CountsInv,
        Posting
  <2>3. QED
    BY <1>0, <2>1, <2>2, FlowKept
<1>17. ASSUME NEW a \in Apps, CancelParser(a) PROVE FetchInv' /\ FlowInv'
  <2>1. FetchInv'
    BY <1>17, <1>0, <1>1 DEF CancelParser, FetchInv, Posting
  <2>2. Cancelled'
    BY <1>17, <1>1 DEF CancelParser, Cancelled, Goto, AppControl
  <2>3. QED
    BY <1>17, <1>0, <2>1, <2>2 DEF CancelParser, FlowInv, Entries, Entry
<1>18. CASE BgTop
  <2>1. FetchInv'
    BY <1>18, <1>0, <1>1
    DEF BgTop, Proceed, FetchInv, FlagsInv, LineInv, Off, Posting, Searching,
        Receiving, Starting, CountsInv, ReaderFlags
  <2>2. /\ UNCHANGED <<delivered, queue, hand>>
        /\ ppc' = "notify" => ppc = "notify"
        /\ InHand' = InHand /\ Buffered' = Buffered
        /\ FirstUnread' = FirstUnread
    BY <1>18, <1>0, <1>1
    DEF BgTop, Proceed, InHand, Buffered, FirstUnread, Stale, FetchInv,
        CountsInv, Posting
  <2>3. QED
    BY <1>0, <2>1, <2>2, FlowKept
<1>19. CASE BgWake
  <2>1. FetchInv'
    BY <1>19, <1>0, <1>1
    DEF BgWake, Proceed, FetchInv, FlagsInv, LineInv, Off, Posting, Searching,
        Receiving, Starting, CountsInv, ReaderFlags
  <2>2. /\ UNCHANGED <<delivered, queue, hand>>
        /\ ppc' = "notify" => ppc = "notify"
        /\ InHand' = InHand /\ Buffered' = Buffered
        /\ FirstUnread' = FirstUnread
    BY <1>19, <1>0, <1>1
    DEF BgWake, Proceed, InHand, Buffered, FirstUnread, Stale, FetchInv,
        CountsInv, Posting
  <2>3. QED
    BY <1>0, <2>1, <2>2, FlowKept
<1>20. CASE BgReadDone
  <2>1. FetchInv'
    BY <1>20, <1>0, <1>1
    DEF BgReadDone, SearchDone, FetchInv, FlagsInv, LineInv, Off, Posting,
        Searching, Receiving, Starting, CountsInv, ReaderFlags, CallsInv,
        Streams, LeftInv
  <2>2. /\ UNCHANGED <<delivered, queue, hand>>
        /\ ppc' = "notify" => ppc = "notify"
        /\ InHand' = InHand /\ Buffered' = Buffered
        /\ FirstUnread' = FirstUnread
    BY <1>20, <1>0, <1>1
    DEF BgReadDone, SearchDone, InHand, Buffered, FirstUnread, Stale, FetchInv,
        CountsInv, Posting
  <2>3. QED
    BY <1>0, <2>1, <2>2, FlowKept
<1>21. ASSUME NEW status \in {"retry", "fatal", "antenna"},
              BgReadFailed(status)
      PROVE FetchInv' /\ FlowInv'
  <2>1. FetchInv'
    BY <1>21, <1>0, <1>1
    DEF BgReadFailed, FetchInv, FlagsInv, LineInv, Off, Posting, Searching,
        Receiving, Starting, CountsInv, ReaderFlags
  <2>2. /\ UNCHANGED <<delivered, queue, hand>>
        /\ ppc' = "notify" => ppc = "notify"
        /\ InHand' = InHand /\ Buffered' = Buffered
        /\ FirstUnread' = FirstUnread
    BY <1>21, <1>0, <1>1
    DEF BgReadFailed, InHand, Buffered, FirstUnread, Stale, FetchInv,
        CountsInv, Posting
  <2>3. QED
    BY <1>0, <2>1, <2>2, FlowKept
<1>22. CASE BgDispatch
  <2>1. FetchInv'
    BY <1>22, <1>0, <1>1
    DEF BgDispatch, FetchInv, FlagsInv, LineInv, Off, Posting, Searching,
        Receiving, Starting, CountsInv
  <2>2. /\ UNCHANGED <<delivered, queue, hand>>
        /\ ppc' = "notify" => ppc = "notify"
        /\ InHand' = InHand /\ Buffered' = Buffered
        /\ FirstUnread' = FirstUnread
    BY <1>22, <1>0, <1>1
    DEF BgDispatch, InHand, Buffered, FirstUnread, Stale, FetchInv, CountsInv,
        Posting
  <2>3. QED
    BY <1>0, <2>1, <2>2, FlowKept
<1>23. CASE BgBottom
  <2>1. FetchInv'
    BY <1>23, <1>0, <1>1
    DEF BgBottom, FetchInv, FlagsInv, LineInv, Off, Posting, Searching,
        Receiving, Starting, CountsInv
  <2>2. /\ UNCHANGED <<delivered, queue, hand>>
        /\ ppc' = "notify" => ppc = "notify"
        /\ InHand' = InHand /\ Buffered' = Buffered
        /\ FirstUnread' = FirstUnread
    BY <1>23, <1>0, <1>1
    DEF BgBottom, InHand, Buffered, FirstUnread, Stale, FetchInv, CountsInv,
        Posting
  <2>3. QED
    BY <1>0, <2>1, <2>2, FlowKept
<1>24. CASE StreamTag
  <2>1. FetchInv'
    BY <1>24, <1>0, <1>1
    DEF StreamTag, Streaming, ReceiveTag, FetchInv, Posting
  <2>2. unread = 0 /\ tagsRemainingInBuffer = 0
    BY <1>24, <1>0, <1>1 DEF StreamTag, Streaming, FetchInv
  <2>3. QED
    BY <1>24, <1>0, <2>1, <2>2, FlowReceived DEF StreamTag
<1>25. CASE StreamStatus
  <2>1. FetchInv'
    BY <1>25, <1>0, <1>1
    DEF StreamStatus, Streaming, FetchInv, FlagsInv, LineInv, Off, Posting,
        Searching, Receiving, Starting, CountsInv, Status
  <2>2. /\ UNCHANGED <<delivered, queue, hand>>
        /\ ppc' = "notify" => ppc = "notify"
        /\ InHand' = InHand /\ Buffered' = Buffered
        /\ FirstUnread' = FirstUnread
    BY <1>25, <1>0, <1>1
    DEF StreamStatus, Streaming, InHand, Buffered, FirstUnread, Stale,
        FetchInv, CountsInv, Posting, Status
  <2>3. QED
    BY <1>0, <2>1, <2>2, FlowKept
<1>26. CASE StreamLeftover
  BY <1>26, <1>0 DEF FlagsInv, StreamLeftover, FetchInv, Posting, CountsInv
<1>27. CASE StreamQuiet
  <2>1. FetchInv'
    BY <1>27, <1>0, <1>1
    DEF StreamQuiet, Streaming, FetchInv, FlagsInv, LineInv, Off, Posting,
        Searching, Receiving, Starting, CountsInv, CallsInv, Streams, LeftInv
  <2>2. /\ UNCHANGED <<delivered, queue, hand>>
        /\ ppc' = "notify" => ppc = "notify"
        /\ InHand' = InHand /\ Buffered' = Buffered
        /\ FirstUnread' = FirstUnread
    BY <1>27, <1>0, <1>1
    DEF StreamQuiet, Streaming, InHand, Buffered, FirstUnread, Stale, FetchInv,
        CountsInv, Posting
  <2>3. QED
    BY <1>0, <2>1, <2>2, FlowKept
<1>28. CASE StreamCrc
  BY <1>28 DEF Lossless, StreamCrc
<1>29. CASE StreamFull
  BY <1>29 DEF Lossless, StreamFull
<1>30. CASE BgBufferFull
  BY <1>30, <1>0 DEF FlagsInv, BgBufferFull
<1>31. CASE BgResubmit
  BY <1>31, <1>0 DEF FlagsInv, BgResubmit
<1>32. CASE StreamEnd
  <2>1. FetchInv'
    BY <1>32, <1>0, <1>1
    DEF StreamEnd, Streaming, FetchInv, FlagsInv, LineInv, Off, Posting,
        Searching, Receiving, Starting, CountsInv, ReaderFlags, CallsInv,
        Streams, LeftInv
  <2>2. /\ UNCHANGED <<delivered, queue, hand>>
        /\ ppc' = "notify" => ppc = "notify"
        /\ InHand' = InHand /\ Buffered' = Buffered
        /\ FirstUnread' = FirstUnread
    BY <1>32, <1>0, <1>1
    DEF StreamEnd, Streaming, InHand, Buffered, FirstUnread, Stale, FetchInv,
        CountsInv, Posting
  <2>3. QED
    BY <1>0, <2>1, <2>2, FlowKept
<1>33. CASE BgDrain
  <2>1. FetchInv'
    BY <1>33, <1>0, <1>1
    DEF BgDrain, ReadingDone, FetchInv, FlagsInv, LineInv, Off, Posting,
        Searching, Receiving, Starting, CountsInv, ReaderFlags
  <2>2. /\ UNCHANGED <<delivered, queue, hand>>
        /\ ppc' = "notify" => ppc = "notify"
        /\ InHand' = InHand /\ Buffered' = Buffered
        /\ FirstUnread' = FirstUnread
    BY <1>33, <1>0, <1>1
    DEF BgDrain, ReadingDone, InHand, Buffered, FirstUnread, Stale, FetchInv,
        CountsInv, Posting
  <2>3. QED
    BY <1>0, <2>1, <2>2, FlowKept
<1>34. CASE StreamLost
  BY <1>34 DEF Lossless, StreamLost
<1>35. CASE BgForced
  BY <1>35, <1>0 DEF FlagsInv, BgForced
<1>36. CASE BgForcedSearch
  BY <1>36, <1>0 DEF FlagsInv, BgForcedSearch
<1>37. CASE BgForcedReset
  BY <1>37, <1>0 DEF FlagsInv, BgForcedReset
<1>38. CASE BgProbe
  <2>1. FetchInv'
    BY <1>38, <1>0, <1>1
    DEF BgProbe, FetchInv, FlagsInv, LineInv, Off, Posting, Searching,
        Receiving, Starting, CountsInv
  <2>2. /\ UNCHANGED <<delivered, queue, hand>>
        /\ ppc' = "notify" => ppc = "notify"
        /\ InHand' = InHand /\ Buffered' = Buffered
        /\ FirstUnread' = FirstUnread
    BY <1>38, <1>0, <1>1
    DEF BgProbe, InHand, Buffered, FirstUnread, Stale, FetchInv, CountsInv,
        Posting
  <2>3. QED
    BY <1>0, <2>1, <2>2, FlowKept
<1>39. CASE BgNoSlot
  <2>1. bpc = "noSlot" /\ bpc' = "post" /\ reader' = reader
    BY <1>39, <1>1 DEF BgNoSlot, ReaderFlags
  <2>2. FetchInv'
    BY <1>39, <2>1, <1>0, <1>1
    DEF BgNoSlot, FetchInv, FlagsInv, LineInv, Off, Posting, Searching,
        Receiving, Starting, CountsInv, ReaderFlags
  <2>3. /\ UNCHANGED <<delivered, queue, hand>>
        /\ ppc' = "notify" => ppc = "notify"
        /\ InHand' = InHand /\ Buffered' = Buffered
        /\ FirstUnread' = FirstUnread
    BY <1>39, <2>1, <1>0, <1>1
    DEF BgNoSlot, InHand, Buffered, FirstUnread, Stale, FetchInv, CountsInv,
        Posting
  <2>4. QED
    BY <1>0, <2>2, <2>3, FlowKept
<1>40. CASE BgVerify
  BY <1>40, <1>0 DEF FlagsInv, BgVerify
<1>41. CASE BgRefill
  BY <1>41, <1>0 DEF FlagsInv, BgRefill
<1>42. CASE BgTakeSlot
  <2>1. FetchInv'
    BY <1>42, <1>0, <1>1
    DEF BgTakeSlot, FetchInv, FlagsInv, LineInv, Off, Posting, Searching,
        Receiving, Starting, CountsInv
  <2>2. /\ UNCHANGED <<delivered, queue, hand>>
        /\ ppc' = "notify" => ppc = "notify"
        /\ InHand' = InHand /\ Buffered' = Buffered
        /\ FirstUnread' = FirstUnread
    BY <1>42, <1>0, <1>1
    DEF BgTakeSlot, InHand, Buffered, FirstUnread, Stale, FetchInv, CountsInv,
        Posting
  <2>3. QED
    BY <1>0, <2>1, <2>2, FlowKept
<1>43. CASE BgEnqueue
  <2>1. FetchInv'
    BY <1>43, <1>0, <1>1
    DEF BgEnqueue, FetchInv, FlagsInv, LineInv, Off, Posting, Searching,
        Receiving, Starting, CountsInv, CallsInv, Streams, LeftInv
  <2>2. /\ queue' = Append(queue, bufResponse) /\ Buffered' = Stale
        /\ UNCHANGED <<delivered, ppc, hand, apc, nextTag, unread>>
        /\ InHand' = InHand /\ FirstUnread' = FirstUnread
    BY <1>43 DEF BgEnqueue, Buffered, InHand, FirstUnread
  <2>3. /\ Entry(bufResponse)
        /\ Buffered > 0 => Buffered = bufResponse
    BY <1>43, <1>0, <1>1
    DEF BgEnqueue, FetchInv, CountsInv, Posting, Entry, Buffered, Stale
  <2>4. Entries(queue')
    BY <1>0, <1>1, <2>2, <2>3, EntriesAppend DEF FlowInv
  <2>5. ASSUME ~Cancelled, NEW tag \in Nat \ {0} PROVE Placed(tag)'
    <3>1. /\ Placed(tag) /\ tag > 0
          /\ Occurs(queue', bufResponse)
          /\ Occurs(queue, tag) => Occurs(queue', tag)
      BY <1>0, <1>1, <2>2, <2>5, OccursAppend DEF FlowInv, AllPlaced
    <3>2. QED
      BY <2>2, <2>3, <3>1 DEF Placed
  <2>6. QED
    BY <1>0, <2>1, <2>2, <2>4, <2>5 DEF FlowInv, AllPlaced
<1>44. CASE BgSignal
  <2>1. FetchInv'
    BY <1>44, <1>0, <1>1
    DEF BgSignal, FetchInv, FlagsInv, LineInv, Off, Posting, Searching,
        Receiving, Starting, CountsInv, Status, Holds
  <2>2. /\ UNCHANGED <<delivered, queue, hand>>
        /\ ppc' = "notify" => ppc = "notify"
        /\ InHand' = InHand /\ Buffered' = Buffered
        /\ FirstUnread' = FirstUnread
    BY <1>44, <1>0, <1>1
    DEF BgSignal, InHand, Buffered, FirstUnread, Stale, FetchInv, CountsInv,
        Posting, Status, Holds
  <2>3. QED
    BY <1>0, <2>1, <2>2, FlowKept
<1>45. CASE PollTag
  <2>1. /\ bpc = "poll" /\ tagsRemainingInBuffer = 0
        /\ unread > 0 /\ tagsRemaining > 0 /\ unread = tagsRemaining
        /\ delivered' = Append(delivered, FirstUnread)
        /\ unread' = unread - 1 /\ tagsRemaining' = tagsRemaining - 1
        /\ UNCHANGED <<apc, reader, bpc, queue, ppc, hand, bufResponse, nextTag,
                        acks, tagsRemainingInBuffer>>
    <3>1. bpc = "poll"
      BY <1>45 DEF PollTag
    <3>2. tagsRemainingInBuffer = 0
      BY <1>0, <1>1, <3>1 DEF FetchInv, Posting
    <3>3. QED
      BY <1>45, <1>0, <3>1, <3>2 DEF PollTag, FetchInv, FirstUnread
  <2>2. FetchInv'
    BY <1>0, <1>1, <2>1 DEF FetchInv
  <2>3. /\ FirstUnread' = FirstUnread + 1 /\ FirstUnread \in Nat \ {0}
        /\ InHand' = InHand /\ Buffered' = Buffered
    BY <1>1, <2>1 DEF FirstUnread, InHand, Buffered, CountsInv
  <2>4. ASSUME ~Cancelled
        PROVE  AllPlaced' /\ \A i \in 1 .. Len(delivered') : delivered'[i] > 0
    <3>1. /\ \A i \in 1 .. Len(delivered) : delivered[i] > 0
          /\ \A tag \in Nat \ {0} : Placed(tag)
      BY <1>0, <2>4 DEF FlowInv, AllPlaced
    <3>2. ASSUME NEW tag \in Nat \ {0} PROVE Placed(tag)'
      <4>1. /\ Occurs(delivered', FirstUnread)
            /\ Occurs(delivered, tag) => Occurs(delivered', tag)
        BY <1>1, <2>1, <2>3, OccursAppend
      <4>2. tag >= FirstUnread => tag = FirstUnread \/ tag >= FirstUnread + 1
        BY <2>3
      <4>3. QED
        BY <2>1, <2>3, <3>1, <4>1, <4>2 DEF Placed
    <3>3. \A i \in 1 .. Len(delivered') : delivered'[i] > 0
      BY <1>1, <2>1, <2>3, <3>1, PositiveAppend
    <3>4. QED
      BY <3>2, <3>3 DEF AllPlaced
  <2>5. QED
    BY <1>0, <2>1, <2>2, <2>4 DEF FlowInv, Entries, Entry, Cancelled
<1>46. CASE PollFailed
  BY <1>46, <1>0 DEF PollFailed, FetchInv, Lossless
<1>47. CASE PollEnd
  <2>1. FetchInv'
    BY <1>47, <1>0, <1>1
    DEF PollEnd, FetchInv, FlagsInv, LineInv, Off, Posting, Searching,
        Receiving, Starting, CountsInv
  <2>2. /\ UNCHANGED <<delivered, queue, hand>>
        /\ ppc' = "notify" => ppc = "notify"
        /\ InHand' = InHand /\ Buffered' = Buffered
        /\ FirstUnread' = FirstUnread
    BY <1>47, <1>0, <1>1
    DEF PollEnd, InHand, Buffered, FirstUnread, Stale, FetchInv, CountsInv,
        Posting
  <2>3. QED
    BY <1>0, <2>1, <2>2, FlowKept
<1>48. CASE ParserWait
  <2>1. FetchInv'
    BY <1>48, <1>0, <1>1
    DEF ParserWait, FetchInv, FlagsInv, LineInv, Off, Posting, Searching,
        Receiving, Starting, CountsInv
  <2>2. /\ UNCHANGED <<delivered, queue, hand>>
        /\ ppc' = "notify" => ppc = "notify"
        /\ InHand' = InHand /\ Buffered' = Buffered
        /\ FirstUnread' = FirstUnread
    BY <1>48, <1>0, <1>1
    DEF ParserWait, InHand, Buffered, FirstUnread, Stale, FetchInv, CountsInv,
        Posting
  <2>3. QED
    BY <1>0, <2>1, <2>2, FlowKept
<1>49. CASE ParserTake
  <2>1. FetchInv'
    BY <1>49, <1>0, <1>1 DEF ParserTake, FetchInv, Posting
  <2>2. CASE queue = <<>>
    <3>1. /\ UNCHANGED <<delivered, queue, hand>> /\ ppc' # "notify"
          /\ InHand' = InHand /\ Buffered' = Buffered
          /\ FirstUnread' = FirstUnread
      BY <1>49, <2>2 DEF ParserTake, InHand, Buffered, FirstUnread, Stale
    <3>2. QED
      BY <1>0, <2>1, <3>1, FlowKept
  <2>3. CASE queue # <<>>
    <3>1. /\ queue' = Tail(queue) /\ InHand' = Head(queue)
          /\ InHand = Stale /\ hand' = Head(queue)
          /\ Buffered' = Buffered /\ FirstUnread' = FirstUnread
          /\ UNCHANGED <<delivered, apc>>
      BY <1>49, <2>3 DEF ParserTake, InHand, Buffered, FirstUnread
    <3>2. Entries(queue') /\ Entry(hand')
      BY <1>0, <1>1, <2>3, <3>1, EntriesTail DEF FlowInv
    <3>3. ASSUME ~Cancelled, NEW tag \in Nat \ {0} PROVE Placed(tag)'
      <4>1. Placed(tag) /\ tag # Stale
        BY <1>0, <3>3 DEF FlowInv, AllPlaced, Stale
      <4>2. Occurs(queue, tag) => tag = Head(queue) \/ Occurs(queue', tag)
        BY <1>1, <2>3, <3>1, OccursTail
      <4>3. QED
        BY <3>1, <4>1, <4>2 DEF Placed
    <3>4. QED
      BY <1>0, <2>1, <3>1, <3>2, <3>3 DEF FlowInv, AllPlaced
  <2>4. QED
    BY <2>2, <2>3
<1>50. CASE ParserNotify
  <2>1. FetchInv'
    BY <1>50, <1>0, <1>1 DEF ParserNotify, FetchInv, Posting
  <2>2. /\ UNCHANGED <<queue, apc>> /\ InHand = hand /\ InHand' = Stale
        /\ Buffered' = Buffered /\ FirstUnread' = FirstUnread
        /\ ppc' # "notify" /\ Entry(hand)
        /\ Entries(queue)
    BY <1>50, <1>0 DEF ParserNotify, InHand, Buffered, FirstUnread, FlowInv
  <2>3. ASSUME ~Cancelled
        PROVE  AllPlaced' /\ \A i \in 1 .. Len(delivered') : delivered'[i] > 0
    <3>1. /\ \A i \in 1 .. Len(delivered) : delivered[i] > 0
          /\ \A tag \in Nat \ {0} : Placed(tag)
      BY <1>0, <2>3 DEF FlowInv, AllPlaced
    <3>2. CASE hand = Status
      <4>1. delivered' = delivered
        BY <1>50, <3>2 DEF ParserNotify
      <4>2. ASSUME NEW tag \in Nat \ {0} PROVE Placed(tag)'
        <5>1. tag # hand
          BY <3>2 DEF Status
        <5>2. QED
          BY <2>2, <3>1, <4>1, <5>1 DEF Placed
      <4>3. QED
        BY <3>1, <4>1, <4>2 DEF AllPlaced
    <3>3. CASE hand # Status
      <4>1. delivered' = Append(delivered, hand) /\ hand > 0
        BY <1>50, <2>2, <2>3, <3>3 DEF ParserNotify, Entry
      <4>2. ASSUME NEW tag \in Nat \ {0} PROVE Placed(tag)'
        <5>1. /\ Occurs(delivered', hand)
              /\ Occurs(delivered, tag) => Occurs(delivered', tag)
          BY <1>1, <4>1, OccursAppend
        <5>2. QED
          BY <2>2, <3>1, <5>1 DEF Placed
      <4>3. \A i \in 1 .. Len(delivered') : delivered'[i] > 0
        BY <1>1, <3>1, <4>1, PositiveAppend
      <4>4. QED
        BY <4>2, <4>3 DEF AllPlaced
    <3>4. QED
      BY <3>2, <3>3
  <2>4. QED
    BY <1>0, <2>1, <2>2, <2>3 DEF FlowInv, Entries, Cancelled
<1>51. CASE ParserRelease
  <2>1. FetchInv'
    BY <1>51, <1>0, <1>1
    DEF ParserRelease, FetchInv, FlagsInv, LineInv, Off, Posting, Searching,
        Receiving, Starting, CountsInv
  <2>2. /\ UNCHANGED <<delivered, queue, hand>>
        /\ ppc' = "notify" => ppc = "notify"
        /\ InHand' = InHand /\ Buffered' = Buffered
        /\ FirstUnread' = FirstUnread
    BY <1>51, <1>0, <1>1
    DEF ParserRelease, InHand, Buffered, FirstUnread, Stale, FetchInv,
        CountsInv, Posting
  <2>3. QED
    BY <1>0, <2>1, <2>2, FlowKept
<1>52. CASE SpuriousWakeup
  <2>1. FetchInv'
    BY <1>52, <1>0, <1>1
    DEF SpuriousWakeup, FetchInv, FlagsInv, LineInv, Off, Posting, Searching,
        Receiving, Starting, CountsInv
  <2>2. /\ UNCHANGED <<delivered, queue, hand>>
        /\ ppc' = "notify" => ppc = "notify"
        /\ InHand' = InHand /\ Buffered' = Buffered
        /\ FirstUnread' = FirstUnread
    BY <1>52, <1>0, <1>1
    DEF SpuriousWakeup, InHand, Buffered, FirstUnread, Stale, FetchInv,
        CountsInv, Posting
  <2>3. QED
    BY <1>0, <2>1, <2>2, FlowKept
<1>53. CASE Terminated
  <2>1. FetchInv'
    BY <1>53, <1>0, <1>1
    DEF Terminated, vars, FetchInv, FlagsInv, LineInv, Off, Posting, Searching,
        Receiving, Starting, CountsInv
  <2>2. /\ UNCHANGED <<delivered, queue, hand>>
        /\ ppc' = "notify" => ppc = "notify"
        /\ InHand' = InHand /\ Buffered' = Buffered
        /\ FirstUnread' = FirstUnread
    BY <1>53, <1>0, <1>1
    DEF Terminated, vars, InHand, Buffered, FirstUnread, Stale, FetchInv,
        CountsInv, Posting
  <2>3. QED
    BY <1>0, <2>1, <2>2, FlowKept
<1>54. CASE UNCHANGED vars
  BY <1>54, <1>0, FlowKept
  DEF vars, InHand, Buffered, FirstUnread, FetchInv
<1>55. QED
  BY <1>2, <1>3, <1>4, <1>5, <1>6, <1>7, <1>8, <1>9, <1>10, <1>11, <1>12,
     <1>13, <1>14, <1>15, <1>16, <1>17, <1>18, <1>19, <1>20, <1>21, <1>22,
     <1>23, <1>24, <1>25, <1>26, <1>27, <1>28, <1>29, <1>30, <1>31, <1>32,
     <1>33, <1>34, <1>35, <1>36, <1>37, <1>38, <1>39, <1>40, <1>41, <1>42,
     <1>43, <1>44, <1>45, <1>46, <1>47, <1>48, <1>49, <1>50, <1>51, <1>52,
     <1>53, <1>54
  DEF Next, Call, Calling, ReaderThread, Parser

(* LossInv holds in every state.                                           *)
LEMMA LossInvariant == ASSUME Lossless PROVE Spec => []LossInv
<1>1. Undisturbed
  BY DEF Lossless, Undisturbed
<1>2. Init => LossInv
  <2> SUFFICES ASSUME Init PROVE FetchInv /\ FlowInv
    BY DEF LossInv
  <2>1. /\ bpc = "none" /\ ppc = "none" /\ queue = <<>> /\ delivered = <<>>
        /\ tagsRemainingInBuffer = 0 /\ unread = 0 /\ nextTag = 1
    BY DEF Init
  <2>2. FirstUnread = 1
    BY <2>1 DEF FirstUnread
  <2>3. QED
    BY <2>1, <2>2
    DEF FetchInv, FlowInv, Entries, AllPlaced, Placed
<1>3. TypeOK /\ SlotsInv /\ LineInv /\ CountsInv /\ StopInv /\ LossInv
        /\ [Next]_vars => LossInv'
  BY LossStep
<1>4. Spec => []StopInv
  BY <1>1, StopInvariant
<1>5. QED
  BY <1>2, <1>3, <1>4, TypeCorrect, SlotsInvariant, LineInvariant,
     PlacesInvariant, PTL DEF Spec

(* Without losses on the line no tag is lost, none is delivered twice and  *)
(* nothing else is delivered (NothingLost), whether searches stream or     *)
(* poll, whatever reads fail, until the queue overflows or the reader is   *)
(* destroyed.                                                              *)
THEOREM NoTagLost == ASSUME Lossless PROVE Spec => []NothingLost
<1>1. ASSUME TypeOK, CountsInv, LossInv, NoneTwice PROVE NothingLost
  <2> SUFFICES ASSUME ~Cancelled, ~reader.isBufferOverFlow
               PROVE  /\ \A tag \in 1 .. nextTag - 1 : Occurs(Pipeline, tag)
                      /\ \A i \in 1 .. Len(delivered) : delivered[i] > 0
    BY <1>1 DEF NothingLost, Occurs
  <2>1. /\ delivered \in Seq(Int) /\ queue \in Seq(Int) /\ hand \in Int
        /\ bufResponse \in Int /\ unread \in Nat /\ nextTag \in Nat \ {0}
    BY <1>1 DEF TypeOK
  <2>2. /\ InParser \in Seq(Int) /\ InReader \in Seq(Int)
        /\ InModule \in Seq(Int)
    BY <2>1 DEF InParser, InReader, InModule
  <2>3. FetchInv /\ AllPlaced /\ \A i \in 1 .. Len(delivered) : delivered[i] > 0
    BY <1>1 DEF LossInv, FlowInv
  <2>4. ASSUME NEW tag \in 1 .. nextTag - 1 PROVE Occurs(Pipeline, tag)
    <3>1. tag \in Nat \ {0} /\ Placed(tag)
      BY <2>1, <2>3 DEF AllPlaced
    <3>2. InHand = tag => Occurs(InParser, tag)
      BY <3>1 DEF InHand, InParser, Occurs, Stale
    <3>3. Buffered = tag => Occurs(InReader, tag)
      BY <1>1, <2>3, <3>1
      DEF Buffered, InReader, Occurs, Stale, FetchInv, Posting, CountsInv
    <3>4. tag >= FirstUnread => Occurs(InModule, tag)
      <4> SUFFICES ASSUME tag >= FirstUnread PROVE Occurs(InModule, tag)
        OBVIOUS
      <4>1. /\ tag - FirstUnread + 1 \in 1 .. unread
            /\ nextTag - unread + (tag - FirstUnread + 1) - 1 = tag
        BY <2>1 DEF FirstUnread
      <4>2. Len(InModule) = unread
        BY <2>1 DEF InModule
      <4>3. InModule[tag - FirstUnread + 1] = tag
        BY <4>1 DEF InModule
      <4>4. QED
        BY <4>1, <4>2, <4>3 DEF Occurs
    <3> DEFINE s1 == delivered \o InParser
               s2 == s1 \o queue
               s3 == s2 \o InReader
    <3>5. /\ s1 \in Seq(Int)
          /\ Occurs(delivered, tag) \/ Occurs(InParser, tag) => Occurs(s1, tag)
      BY <2>1, <2>2, OccursConcat
    <3> HIDE DEF s1
    <3>6. s2 \in Seq(Int) /\ (Occurs(s1, tag) \/ Occurs(queue, tag) => Occurs(s2, tag))
      BY <2>1, <3>5, OccursConcat
    <3> HIDE DEF s2
    <3>7. s3 \in Seq(Int) /\ (Occurs(s2, tag) \/ Occurs(InReader, tag) => Occurs(s3, tag))
      BY <2>2, <3>6, OccursConcat
    <3> HIDE DEF s3
    <3>8. Occurs(s3, tag) \/ Occurs(InModule, tag) => Occurs(s3 \o InModule, tag)
      BY <2>2, <3>7, OccursConcat
    <3>9. Pipeline = s3 \o InModule
      BY DEF Pipeline, s1, s2, s3
    <3>10. QED
      BY <3>1, <3>2, <3>3, <3>4, <3>5, <3>6, <3>7, <3>8, <3>9 DEF Placed
  <2>5. QED
    BY <2>3, <2>4
<1>2. Spec => []LossInv
  BY LossInvariant
<1>3. QED
  BY <1>1, <1>2, NoTagTwice, TypeCorrect, PlacesInvariant, PTL

--------------------------------------------------------------------------------
(* The refinement of TagStream: in a search that streams, the tags reach   *)
(* the read listeners in the order the module saw them, each exactly once, *)
(* and when TMR_stopReading has returned at most one is on its way.        *)

(* A search that streams on a line that loses nothing.                     *)
SoundStream == /\ FALSE \notin StreamingModes
               /\ StreamEvents \subseteq {"tag", "quiet"}

(* The queue has not overflowed and the reader was not destroyed.          *)
Intact == ~reader.isBufferOverFlow /\ ~Cancelled

(* The pending tags of Stream.                                             *)
Pending == InParser \o queue \o InReader

(* Without polling, the reader thread searches only while the search       *)
(* streams.                                                                *)
ModeInv ==
  ~reader.isBufferOverFlow =>
    /\ reader.backgroundEnabled \/ bpc \in Searching => reader.continuousReading
    /\ \A a \in Apps : apc[a] = "startReader" => reader.continuousReading

(* Tags are numbered in the order the module saw them; so are those that   *)
(* are delivered, and those that are pending follow.                       *)
InOrder ==
  /\ \A i \in 1 .. Len(delivered) : delivered[i] = i
  /\ \A i \in 1 .. Len(Pending) : Pending[i] = Len(delivered) + i
  /\ Len(delivered) + Len(Pending) = nextTag - 1

(* What a step may do to what the application sees of a search.            *)
Stays == UNCHANGED <<session, delivered, nextTag, Pending>>
Starts == ~session /\ session' /\ UNCHANGED <<delivered, nextTag, Pending>>
Stops == /\ session /\ ~session' /\ Len(Pending) <= 1
         /\ UNCHANGED <<delivered, nextTag, Pending>>
Accepts == /\ session /\ Len(Pending) <= Slots /\ nextTag <= MaxTags
           /\ Pending' = Append(Pending, nextTag) /\ nextTag' = nextTag + 1
           /\ UNCHANGED <<session, delivered>>
Delivers == /\ Pending # <<>> /\ delivered' = Append(delivered, Head(Pending))
            /\ Pending' = Tail(Pending) /\ UNCHANGED <<session, nextTag>>
Moves == Stays \/ Starts \/ Stops \/ Accepts \/ Delivers

(* A sequence is its head, put before the rest.                            *)
LEMMA Rejoined ==
  ASSUME NEW s \in Seq(Int), s # <<>>
  PROVE  <<Head(s)>> \o Tail(s) = s
<1>1. /\ Len(s) \in Nat \ {0} /\ Head(s) = s[1]
      /\ Head(s) \in Int /\ Tail(s) \in Seq(Int) /\ Len(Tail(s)) = Len(s) - 1
      /\ \A i \in 1 .. Len(Tail(s)) : Tail(s)[i] = s[i + 1]
  BY EmptySeq, HeadTailProperties
<1> DEFINE h == <<Head(s)>>
           r == Tail(s)
<1>2. h \in Seq(Int) /\ Len(h) = 1 /\ h[1] = s[1]
  BY <1>1
<1> HIDE DEF h, r
<1>3. /\ h \o r \in Seq(Int) /\ Len(h \o r) = Len(s)
      /\ \A i \in 1 .. Len(s) :
           (h \o r)[i] = IF i <= 1 THEN h[i] ELSE r[i - 1]
  <2>1. r \in Seq(Int) /\ Len(h) + Len(r) = Len(s)
    BY <1>1, <1>2 DEF r
  <2>2. /\ h \o r \in Seq(Int) /\ Len(h \o r) = Len(h) + Len(r)
        /\ \A i \in 1 .. Len(h) + Len(r) :
             (h \o r)[i] = IF i <= Len(h) THEN h[i] ELSE r[i - Len(h)]
    BY <1>2, <2>1, ConcatProperties
  <2>3. QED
    BY <1>2, <2>1, <2>2
<1>4. ASSUME NEW i \in 1 .. Len(s) PROVE (h \o r)[i] = s[i]
  <2>1. CASE i = 1
    BY SMTT(30), <1>2, <1>3, <2>1
  <2>2. CASE i # 1
    <3>1. i - 1 \in 1 .. Len(r) /\ i - 1 + 1 = i /\ ~(i <= 1)
      BY <1>1, <2>2 DEF r
    <3>2. QED
      BY <1>1, <1>3, <3>1 DEF r
  <2>3. QED
    BY <2>1, <2>2
<1>5. QED
  BY <1>3, <1>4, SeqEqual DEF h, r

(* An entry that comes before a sequence.                                  *)
LEMMA Prefixed ==
  ASSUME NEW s \in Seq(Int), NEW e \in Int
  PROVE  /\ <<e>> \o s \in Seq(Int) /\ <<e>> \o s # <<>>
         /\ Len(<<e>> \o s) >= 1 /\ (<<e>> \o s)[1] = e
         /\ Head(<<e>> \o s) = e /\ Tail(<<e>> \o s) = s
<1> DEFINE h == <<e>>
           c == h \o s
<1>1. h \in Seq(Int) /\ Len(h) = 1 /\ h[1] = e /\ Len(s) \in Nat
  BY LenProperties
<1> HIDE DEF h
<1>2. /\ c \in Seq(Int) /\ Len(c) = Len(s) + 1
      /\ \A i \in 1 .. Len(s) + 1 : c[i] = IF i <= 1 THEN h[i] ELSE s[i - 1]
  <2>1. /\ c \in Seq(Int) /\ Len(c) = Len(h) + Len(s)
        /\ \A i \in 1 .. Len(h) + Len(s) :
             c[i] = IF i <= Len(h) THEN h[i] ELSE s[i - Len(h)]
    BY <1>1, ConcatProperties
  <2>2. Len(h) + Len(s) = Len(s) + 1
    BY <1>1
  <2>3. QED
    BY <1>1, <2>1, <2>2
<1> HIDE DEF c
<1>3. c[1] = e /\ c # <<>> /\ Len(c) >= 1 /\ Head(c) = c[1]
  BY <1>1, <1>2, EmptySeq
<1>4. /\ Tail(c) \in Seq(Int) /\ Len(Tail(c)) = Len(s)
      /\ \A i \in 1 .. Len(s) : Tail(c)[i] = c[i + 1]
  BY <1>1, <1>2, <1>3, HeadTailProperties
<1>5. ASSUME NEW i \in 1 .. Len(s) PROVE Tail(c)[i] = s[i]
  <2>1. i + 1 \in 1 .. Len(s) + 1 /\ ~(i + 1 <= 1) /\ i + 1 - 1 = i
    BY <1>1
  <2>2. QED
    BY <1>2, <1>4, <2>1
<1>6. Tail(c) = s
  BY <1>1, <1>4, <1>5, SeqEqual
<1>7. QED
  BY <1>2, <1>3, <1>6 DEF c, h

(* Every action preserves ModeInv.                                         *)
LEMMA ModeStep ==
  ASSUME SoundStream, TypeOK, SlotsInv, LineInv, StopInv, ModeInv, [Next]_vars
  PROVE  ModeInv'
<1> USE DEF queueVars, waitVars, linkVars, serialVars, moduleVars, parseVars,
            appVars
<1>1. reader \in ReaderFlags /\ apc \in AppControl
  BY DEF TypeOK
<1>2. ASSUME NEW a \in Apps, StartReading(a) PROVE ModeInv'
  <2>1. /\ apc' = [apc EXCEPT ![a] = "startParser"]
        /\ reader' = [reader EXCEPT !.readState = "STARTING"] /\ bpc' = bpc
    <3>1. \A createParser \in StreamingModes : createParser = TRUE
      BY ModesAssumption DEF SoundStream
    <3>2. QED
      BY <1>2, <3>1 DEF StartReading, Goto
  <2>2. QED
    BY <2>1, <1>1 DEF ModeInv, ReaderFlags, AppControl
<1>3. ASSUME NEW a \in Apps, StartParser(a) PROVE ModeInv'
  BY <1>3, <1>1
  DEF StartParser, ModeInv, LineInv, Off, Searching, Receiving, Starting,
      Stopping, AppControl, Goto, ReaderFlags
<1>4. ASSUME NEW a \in Apps, StartReader(a) PROVE ModeInv'
  BY <1>4, <1>1
  DEF StartReader, ModeInv, LineInv, Off, Searching, Receiving, Starting,
      Stopping, AppControl, Goto, ReaderFlags
<1>5. ASSUME NEW a \in Apps, StartWait(a) PROVE ModeInv'
  BY <1>5, <1>1
  DEF StartWait, AwaitRead, ModeInv, LineInv, Off, Searching, Receiving,
      Starting, Stopping, AppControl, Goto
<1>6. ASSUME NEW a \in Apps, StopReading(a) PROVE ModeInv'
  BY <1>6, <1>1
  DEF StopReading, ModeInv, LineInv, Off, Searching, Receiving, Starting,
      Stopping, AppControl, Goto, ReaderFlags
<1>7. ASSUME NEW a \in Apps, StopStarted(a) PROVE ModeInv'
  BY <1>7, <1>1
  DEF StopStarted, AwaitRead, ModeInv, LineInv, Off, Searching, Receiving,
      Starting, Stopping, AppControl, Goto
<1>8. ASSUME NEW a \in Apps, StopCheck(a) PROVE ModeInv'
  BY <1>8, <1>1
  DEF StopCheck, ModeInv, LineInv, Off, Searching, Receiving, Starting,
      Stopping, AppControl, Goto
<1>9. ASSUME NEW a \in Apps, StopSend(a) PROVE ModeInv'
  BY <1>9, <1>1
  DEF StopSend, StopModule, ModeInv, LineInv, Off, Searching, Receiving,
      Starting, Stopping, AppControl, Goto
<1>10. ASSUME NEW a \in Apps, StopDone(a) PROVE ModeInv'
  BY <1>10, <1>1
  DEF StopDone, AwaitRead, ModeInv, LineInv, Off, Searching, Receiving,
      Starting, Stopping, AppControl, Goto
<1>11. ASSUME NEW a \in Apps, StopDisable(a) PROVE ModeInv'
  BY <1>11, <1>1
  DEF StopDisable, AwaitIdle, ModeInv, LineInv, Off, Searching, Receiving,
      Starting, Stopping, AppControl, Goto, ReaderFlags
<1>12. ASSUME NEW a \in Apps, StopIdle(a) PROVE ModeInv'
  BY <1>12, <1>1
  DEF StopIdle, AwaitIdle, ModeInv, LineInv, Off, Searching, Receiving,
      Starting, Stopping, AppControl, Goto
<1>13. ASSUME NEW a \in Apps, StopReset(a) PROVE ModeInv'
  BY <1>13, <1>1
  DEF StopReset, ModeInv, LineInv, Off, Searching, Receiving, Starting,
      Stopping, AppControl, Goto, ReaderFlags
<1>14. ASSUME NEW a \in Apps, Destroy(a) PROVE ModeInv'
  BY <1>14, <1>1
  DEF Destroy, ModeInv, LineInv, Off, Searching, Receiving, Starting, Stopping,
      AppControl, Goto, ReaderFlags
<1>15. ASSUME NEW a \in Apps, Cleanup(a) PROVE ModeInv'
  BY <1>15, <1>1
  DEF Cleanup, ModeInv, LineInv, Off, Searching, Receiving, Starting, Stopping,
      AppControl, Goto, ReaderFlags
<1>16. ASSUME NEW a \in Apps, Join(a) PROVE ModeInv'
  BY <1>16, <1>1
  DEF Join, ModeInv, LineInv, Off, Searching, Receiving, Starting, Stopping,
      AppControl, Goto
<1>17. ASSUME NEW a \in Apps, CancelParser(a) PROVE ModeInv'
  BY <1>17, <1>1
  DEF CancelParser, ModeInv, LineInv, Off, Searching, Receiving, Starting,
      Stopping, AppControl, Goto
<1>18. CASE BgTop
  BY ZenonT(40), <1>18, <1>1
  DEF BgTop, Proceed, ModeInv, LineInv, Off, Searching, Receiving, Starting,
      Stopping, AppControl, Goto, ReaderFlags
<1>19. CASE BgWake
  BY <1>19, <1>1
  DEF BgWake, Proceed, ModeInv, LineInv, Off, Searching, Receiving, Starting,
      Stopping, AppControl, Goto, ReaderFlags
<1>20. CASE BgReadDone
  BY <1>20, <1>1
  DEF BgReadDone, SearchDone, ModeInv, LineInv, Off, Searching, Receiving,
      Starting, Stopping, AppControl, Goto, ReaderFlags
<1>21. ASSUME NEW status \in {"retry", "fatal", "antenna"},
              BgReadFailed(status)
      PROVE ModeInv'
  BY <1>21, <1>1
  DEF BgReadFailed, ModeInv, LineInv, Off, Searching, Receiving, Starting,
      Stopping, AppControl, Goto, ReaderFlags
<1>22. CASE BgDispatch
  BY <1>22, <1>1
  DEF BgDispatch, ModeInv, LineInv, Off, Searching, Receiving, Starting,
      Stopping, AppControl, Goto
<1>23. CASE BgBottom
  BY <1>23, <1>1
  DEF BgBottom, ModeInv, LineInv, Off, Searching, Receiving, Starting,
      Stopping, AppControl, Goto
<1>24. CASE StreamTag
  BY <1>24, <1>1
  DEF StreamTag, ReceiveTag, Streaming, ModeInv, LineInv, Off, Searching,
      Receiving, Starting, Stopping, AppControl, Goto
<1>25. CASE StreamStatus
  BY <1>25 DEF SoundStream, StreamStatus
<1>26. CASE StreamLeftover
  BY <1>26, <1>1
  DEF StreamLeftover, ModeInv, LineInv, Off, Searching, Receiving, Starting,
      Stopping, AppControl, Goto
<1>27. CASE StreamQuiet
  BY <1>27, <1>1
  DEF StreamQuiet, Streaming, ModeInv, LineInv, Off, Searching, Receiving,
      Starting, Stopping, AppControl, Goto
<1>28. CASE StreamCrc
  BY <1>28 DEF SoundStream, StreamCrc
<1>29. CASE StreamFull
  BY <1>29 DEF SoundStream, StreamFull
<1>30. CASE BgBufferFull
  BY <1>30, <1>1 DEF BgBufferFull, ModeInv, StopInv, FlagsInv
<1>31. CASE BgResubmit
  BY <1>31, <1>1 DEF BgResubmit, ModeInv, StopInv, FlagsInv, ReaderFlags
<1>32. CASE StreamEnd
  BY <1>32, <1>1
  DEF StreamEnd, Streaming, ModeInv, LineInv, Off, Searching, Receiving,
      Starting, Stopping, AppControl, Goto, ReaderFlags
<1>33. CASE BgDrain
  BY <1>33, <1>1
  DEF BgDrain, ReadingDone, ModeInv, LineInv, Off, Searching, Receiving,
      Starting, Stopping, AppControl, Goto, ReaderFlags
<1>34. CASE StreamLost
  BY <1>34 DEF SoundStream, StreamLost
<1>35. CASE BgForced
  BY <1>35, <1>1 DEF BgForced, ModeInv, StopInv, FlagsInv, ReadingDone, ReaderFlags
<1>36. CASE BgForcedSearch
  BY <1>36, <1>1 DEF BgForcedSearch, ModeInv, StopInv, FlagsInv, ReaderFlags
<1>37. CASE BgForcedReset
  BY <1>37, <1>1 DEF BgForcedReset, ModeInv, StopInv, FlagsInv, ReaderFlags
<1>38. CASE BgProbe
  BY <1>38, <1>1
  DEF BgProbe, ModeInv, LineInv, Off, Searching, Receiving, Starting, Stopping,
      AppControl, Goto
<1>39. CASE BgNoSlot
  BY <1>39, <1>1
  DEF BgNoSlot, ModeInv, LineInv, Off, Searching, Receiving, Starting,
      Stopping, AppControl, Goto, ReaderFlags
<1>40. CASE BgVerify
  BY <1>40, <1>1 DEF BgVerify, ModeInv, StopInv, FlagsInv
<1>41. CASE BgRefill
  BY <1>41, <1>1 DEF BgRefill, ModeInv, StopInv, FlagsInv, ReaderFlags
<1>42. CASE BgTakeSlot
  BY <1>42, <1>1
  DEF BgTakeSlot, ModeInv, LineInv, Off, Searching, Receiving, Starting,
      Stopping, AppControl, Goto
<1>43. CASE BgEnqueue
  BY <1>43, <1>1
  DEF BgEnqueue, ModeInv, LineInv, Off, Searching, Receiving, Starting,
      Stopping, AppControl, Goto
<1>44. CASE BgSignal
  BY <1>44, <1>1
  DEF BgSignal, Holds, ModeInv, LineInv, Off, Searching, Receiving, Starting,
      Stopping, AppControl, Goto
<1>45. CASE PollTag
  BY <1>45, <1>1
  DEF PollTag, ModeInv, LineInv, Off, Searching, Receiving, Starting, Stopping,
      AppControl, Goto
<1>46. CASE PollFailed
  BY <1>46, <1>1
  DEF PollFailed, ModeInv, LineInv, Off, Searching, Receiving, Starting,
      Stopping, AppControl, Goto, ReaderFlags
<1>47. CASE PollEnd
  BY <1>47, <1>1
  DEF PollEnd, ModeInv, LineInv, Off, Searching, Receiving, Starting, Stopping,
      AppControl, Goto
<1>48. CASE ParserWait
  BY <1>48, <1>1
  DEF ParserWait, ModeInv, LineInv, Off, Searching, Receiving, Starting,
      Stopping, AppControl, Goto
<1>49. CASE ParserTake
  BY <1>49, <1>1
  DEF ParserTake, ModeInv, LineInv, Off, Searching, Receiving, Starting,
      Stopping, AppControl, Goto
<1>50. CASE ParserNotify
  BY <1>50, <1>1
  DEF ParserNotify, ModeInv, LineInv, Off, Searching, Receiving, Starting,
      Stopping, AppControl, Goto
<1>51. CASE ParserRelease
  BY <1>51, <1>1
  DEF ParserRelease, ModeInv, LineInv, Off, Searching, Receiving, Starting,
      Stopping, AppControl, Goto
<1>52. CASE SpuriousWakeup
  BY <1>52, <1>1
  DEF SpuriousWakeup, ModeInv, LineInv, Off, Searching, Receiving, Starting,
      Stopping, AppControl, Goto
<1>53. CASE Terminated
  BY <1>53, <1>1
  DEF Terminated, vars, ModeInv, LineInv, Off, Searching, Receiving, Starting,
      Stopping, AppControl, Goto
<1>54. CASE UNCHANGED vars
  BY <1>54 DEF vars, ModeInv, LineInv, Off, Searching, Receiving, Starting,
      Stopping, AppControl, Goto
<1>55. QED
  BY <1>2, <1>3, <1>4, <1>5, <1>6, <1>7, <1>8, <1>9, <1>10, <1>11, <1>12,
     <1>13, <1>14, <1>15, <1>16, <1>17, <1>18, <1>19, <1>20, <1>21, <1>22,
     <1>23, <1>24, <1>25, <1>26, <1>27, <1>28, <1>29, <1>30, <1>31, <1>32,
     <1>33, <1>34, <1>35, <1>36, <1>37, <1>38, <1>39, <1>40, <1>41, <1>42,
     <1>43, <1>44, <1>45, <1>46, <1>47, <1>48, <1>49, <1>50, <1>51, <1>52,
     <1>53, <1>54
  DEF Next, Call, Calling, ReaderThread, Parser

(* Every action, seen from the application.                                *)
LEMMA MovesStep ==
  ASSUME SoundStream, TypeOK, SlotsInv, LineInv, CountsInv, StopInv, LossInv,
         ModeInv, InOrder, Intact, Intact', [Next]_vars
  PROVE  Moves
<1> USE DEF queueVars, waitVars, linkVars, serialVars, moduleVars, parseVars,
            appVars
<1>1. /\ reader \in ReaderFlags /\ apc \in AppControl /\ session \in BOOLEAN
      /\ nextTag \in Nat \ {0} /\ hand \in Int /\ bufResponse \in Int
      /\ tagsRemainingInBuffer \in {0, 1}
      /\ delivered \in Seq(Int) /\ queue \in Seq(Int)
      /\ ~reader.isBufferOverFlow /\ ~reader'.isBufferOverFlow /\ ~Cancelled
  BY DEF TypeOK, CountsInv, Intact
<1>0. FetchInv /\ FlowInv /\ FlagsInv /\ LeftInv /\ CallsInv
  BY <1>1 DEF LossInv, StopInv
<1>a. ASSUME UNCHANGED <<session, delivered, nextTag, InParser, queue, InReader>>
      PROVE  Moves
  BY <1>a DEF Moves, Stays, Pending
<1>b. InParser \in Seq(Int) /\ InReader \in Seq(Int)
  BY <1>1 DEF InParser, InReader
<1>2. ASSUME NEW a \in Apps, StartReading(a) PROVE Moves
  <2>1. /\ ~session /\ session'
        /\ UNCHANGED <<delivered, nextTag, InParser, queue, InReader>>
    BY <1>2 DEF StartReading, InParser, InReader
  <2>2. QED
    BY <2>1 DEF Moves, Starts, Pending
<1>3. ASSUME NEW a \in Apps, StartParser(a) PROVE Moves
  <2>1. UNCHANGED <<session, delivered, nextTag, InParser, queue, InReader>>
    BY <1>3, <1>0, <1>1
    DEF StartParser, InParser, InReader, SlotsInv
  <2>2. QED
    BY <2>1, <1>a
<1>4. ASSUME NEW a \in Apps, StartReader(a) PROVE Moves
  <2>1. UNCHANGED <<session, delivered, nextTag, InParser, queue, InReader>>
    BY <1>4, <1>0, <1>1
    DEF StartReader, InParser, InReader, SlotsInv
  <2>2. QED
    BY <2>1, <1>a
<1>5. ASSUME NEW a \in Apps, StartWait(a) PROVE Moves
  BY <1>5, <1>a
  DEF StartWait, AwaitRead, InParser, InReader
<1>6. ASSUME NEW a \in Apps, StopReading(a) PROVE Moves
  <2>1. UNCHANGED <<delivered, nextTag, InParser, queue, InReader>>
    BY <1>6 DEF StopReading, InParser, InReader
  <2>2. session' = session
    <3>1. CASE ~reader.backgroundSetup \/ ~reader.searchStatus
      <4>1. ~reader.searchStatus /\ session' = (session /\ ~Quiet)
        BY <1>6, <3>1 DEF StopReading, LineInv
      <4>2. ~(session /\ Quiet)
        BY <1>0, <1>1, <4>1 DEF CallsInv, AppIn, Quiet, Starting, Stopping
      <4>3. QED
        BY <1>1, <4>1, <4>2
    <3>2. CASE ~(~reader.backgroundSetup \/ ~reader.searchStatus)
      BY <1>6, <3>2 DEF StopReading
    <3>3. QED
      BY <3>1, <3>2
  <2>3. QED
    BY <2>1, <2>2, <1>a
<1>7. ASSUME NEW a \in Apps, StopStarted(a) PROVE Moves
  BY <1>7, <1>a
  DEF StopStarted, AwaitRead, InParser, InReader
<1>8. ASSUME NEW a \in Apps, StopCheck(a) PROVE Moves
  BY <1>8, <1>a
  DEF StopCheck, InParser, InReader
<1>9. ASSUME NEW a \in Apps, StopSend(a) PROVE Moves
  BY <1>9, <1>a
  DEF StopSend, StopModule, InParser, InReader
<1>10. ASSUME NEW a \in Apps, StopDone(a) PROVE Moves
  BY <1>10, <1>a
  DEF StopDone, AwaitRead, InParser, InReader
<1>11. ASSUME NEW a \in Apps, StopDisable(a) PROVE Moves
  BY <1>11, <1>a
  DEF StopDisable, AwaitIdle, InParser, InReader
<1>12. ASSUME NEW a \in Apps, StopIdle(a) PROVE Moves
  BY <1>12, <1>a
  DEF StopIdle, AwaitIdle, InParser, InReader
<1>13. ASSUME NEW a \in Apps, StopReset(a) PROVE Moves
  <2>1. /\ ~session' /\ UNCHANGED <<delivered, nextTag, InParser, queue, InReader>>
    BY <1>13 DEF StopReset, InParser, InReader
  <2>2. /\ session /\ ~reader.backgroundRunning /\ bpc \notin Searching
        /\ queue = <<>>
    BY <1>13, <1>0, <1>1
    DEF StopReset, LineInv, CallsInv, LeftInv, Streams, FlagsInv, Starting,
        Stopping
  <2>3. InReader = <<>>
    BY <2>2 DEF InReader, Searching, Receiving
  <2>4. Pending = InParser
    BY <1>b, <2>2, <2>3, ConcatEmptySeq DEF Pending
  <2>5. Len(Pending) <= 1
    BY <2>4 DEF InParser
  <2>6. QED
    BY <2>1, <2>2, <2>5 DEF Moves, Stops, Pending
<1>14. ASSUME NEW a \in Apps, Destroy(a) PROVE Moves
  BY <1>14, <1>a
  DEF Destroy, InParser, InReader
<1>15. ASSUME NEW a \in Apps, Cleanup(a) PROVE Moves
  BY <1>15, <1>a
  DEF Cleanup, InParser, InReader
<1>16. ASSUME NEW a \in Apps, Join(a) PROVE Moves
  BY <1>16, <1>a
  DEF Join, InParser, InReader
<1>17. ASSUME NEW a \in Apps, CancelParser(a) PROVE Moves
  <2>1. UNCHANGED <<session, delivered, nextTag, InParser, queue, InReader>>
    BY <1>17, <1>1
    DEF CancelParser, InParser, InReader
  <2>2. QED
    BY <2>1, <1>a
<1>18. CASE BgTop
  BY <1>18, <1>a
  DEF BgTop, Proceed, InParser, InReader
<1>19. CASE BgWake
  BY <1>19, <1>a
  DEF BgWake, Proceed, InParser, InReader
<1>20. CASE BgReadDone
  <2>1. UNCHANGED <<session, delivered, nextTag, InParser, queue, InReader>>
    BY <1>20, <1>0, <1>1
    DEF BgReadDone, SearchDone, InParser, InReader, LineInv, ModeInv,
        Searching, Receiving
  <2>2. QED
    BY <2>1, <1>a
<1>21. ASSUME NEW status \in {"retry", "fatal", "antenna"},
              BgReadFailed(status)
      PROVE Moves
  BY <1>21, <1>a
  DEF BgReadFailed, InParser, InReader
<1>22. CASE BgDispatch
  BY <1>22, <1>a
  DEF BgDispatch, InParser, InReader
<1>23. CASE BgBottom
  BY <1>23, <1>a
  DEF BgBottom, InParser, InReader
<1>24. CASE StreamTag
  <2>1. /\ bpc = "stream" /\ bpc' = "got" /\ nextTag <= MaxTags
        /\ nextTag' = nextTag + 1 /\ bufResponse' = nextTag
        /\ UNCHANGED <<session, delivered, queue, InParser>>
    BY <1>24 DEF StreamTag, Streaming, ReceiveTag, InParser
  <2>2. InReader = <<>> /\ InReader' = <<nextTag>>
    BY <2>1 DEF InReader
  <2>3. InParser \o queue \in Seq(Int)
    BY <1>1, <1>b, ConcatProperties
  <2>4. Pending = InParser \o queue /\ Pending' = (InParser \o queue) \o <<nextTag>>
    BY <2>1, <2>2, <2>3, ConcatEmptySeq DEF Pending
  <2>5. Pending' = Append(Pending, nextTag)
    BY <1>1, <2>3, <2>4, AppendIsConcat
  <2>6. session
    BY <2>1 DEF LineInv, Off, Searching, Receiving
  <2>7. Len(Pending) <= Slots
    <3>1. Len(Pending) = Len(InParser) + Len(queue)
      BY <1>1, <1>b, <2>4, ConcatProperties
    <3>2. ppc # "none"
      BY <2>1 DEF SlotsInv, Receiving
    <3>3. /\ queue_slots + Holds(bpc = "enqueue") + Len(queue)
               + Holds(ppc \in {"notify", "release"}) = Slots
          /\ queue_slots >= 0 /\ queue_slots \in Int
      BY <3>2 DEF SlotsInv, SlotsAccounted, TypeOK
    <3>4. /\ Holds(bpc = "enqueue") = 0
          /\ Len(InParser) <= Holds(ppc \in {"notify", "release"})
          /\ Holds(ppc \in {"notify", "release"}) \in Nat
      BY <2>1 DEF Holds, InParser
    <3>5. Len(queue) \in Nat /\ Len(InParser) \in Nat
      BY <1>1, <1>b
    <3>6. QED
      BY <3>1, <3>3, <3>4, <3>5, SlotsAssumption
  <2>8. QED
    BY <2>1, <2>5, <2>6, <2>7 DEF Moves, Accepts
<1>25. CASE StreamStatus
  BY <1>25 DEF SoundStream, StreamStatus
<1>26. CASE StreamLeftover
  BY <1>26, <1>0, <1>1 DEF StreamLeftover, FetchInv, Posting
<1>27. CASE StreamQuiet
  BY <1>27, <1>a
  DEF StreamQuiet, Streaming, InParser, InReader
<1>28. CASE StreamCrc
  BY <1>28 DEF SoundStream, StreamCrc
<1>29. CASE StreamFull
  BY <1>29 DEF SoundStream, StreamFull
<1>30. CASE BgBufferFull
  BY <1>30, <1>0 DEF BgBufferFull, FlagsInv
<1>31. CASE BgResubmit
  BY <1>31, <1>0 DEF BgResubmit, FlagsInv
<1>32. CASE StreamEnd
  BY <1>32, <1>a
  DEF StreamEnd, Streaming, InParser, InReader
<1>33. CASE BgDrain
  BY <1>33, <1>a
  DEF BgDrain, ReadingDone, InParser, InReader
<1>34. CASE StreamLost
  BY <1>34 DEF SoundStream, StreamLost
<1>35. CASE BgForced
  BY <1>35, <1>0 DEF BgForced, FlagsInv
<1>36. CASE BgForcedSearch
  BY <1>36, <1>0 DEF BgForcedSearch, FlagsInv
<1>37. CASE BgForcedReset
  BY <1>37, <1>0 DEF BgForcedReset, FlagsInv
<1>38. CASE BgProbe
  BY <1>38, <1>a
  DEF BgProbe, InParser, InReader
<1>39. CASE BgNoSlot
  <2>1. UNCHANGED <<session, delivered, nextTag, InParser, queue, InReader>>
    BY <1>39, <1>1
    DEF BgNoSlot, ReaderFlags, InParser, InReader
  <2>2. QED
    BY <2>1, <1>a
<1>40. CASE BgVerify
  BY <1>40, <1>0 DEF BgVerify, FlagsInv
<1>41. CASE BgRefill
  BY <1>41, <1>0 DEF BgRefill, FlagsInv
<1>42. CASE BgTakeSlot
  BY <1>42, <1>a
  DEF BgTakeSlot, InParser, InReader
<1>43. CASE BgEnqueue
  <2>1. /\ bpc = "enqueue" /\ bpc' = "signal"
        /\ queue' = Append(queue, bufResponse)
        /\ UNCHANGED <<session, delivered, nextTag, InParser>>
    BY <1>43 DEF BgEnqueue, InParser
  <2>2. InReader = <<bufResponse>> /\ InReader' = <<>>
    BY <2>1 DEF InReader
  <2>3. Pending = InParser \o queue \o <<bufResponse>>
    BY <2>2 DEF Pending
  <2>4. /\ queue' = queue \o <<bufResponse>> /\ queue' \in Seq(Int)
        /\ <<bufResponse>> \in Seq(Int)
    <3>1. Append(queue, bufResponse) = queue \o <<bufResponse>>
      BY <1>1, AppendIsConcat
    <3>2. Append(queue, bufResponse) \in Seq(Int)
      BY <1>1, AppendProperties
    <3>3. QED
      BY <1>1, <2>1, <3>1, <3>2
  <2>5. Pending' = InParser \o queue'
    <3>1. InParser \o queue' \in Seq(Int)
      BY <1>b, <2>4, ConcatProperties
    <3>2. Pending' = (InParser \o queue') \o <<>>
      BY <2>1, <2>2 DEF Pending
    <3>3. QED
      BY <3>1, <3>2, ConcatEmptySeq
  <2>6. Pending' = Pending
    BY <1>1, <1>b, <2>3, <2>4, <2>5, ConcatAssociative
  <2>7. QED
    BY <2>1, <2>6 DEF Moves, Stays
<1>44. CASE BgSignal
  BY <1>44, <1>a
  DEF BgSignal, InParser, InReader
<1>45. CASE PollTag
  BY <1>45, <1>0, <1>1 DEF PollTag, FlagsInv, ModeInv, Searching
<1>46. CASE PollFailed
  BY <1>46, <1>0, <1>1 DEF PollFailed, FlagsInv, ModeInv, Searching
<1>47. CASE PollEnd
  BY <1>47, <1>0, <1>1 DEF PollEnd, FlagsInv, ModeInv, Searching
<1>48. CASE ParserWait
  BY <1>48, <1>a
  DEF ParserWait, InParser, InReader
<1>49. CASE ParserTake
  <2>1. CASE queue = <<>>
    <3>1. UNCHANGED <<session, delivered, nextTag, InParser, queue, InReader>>
      BY <1>49, <2>1 DEF ParserTake, InParser, InReader
    <3>2. QED
      BY <3>1, <1>a
  <2>2. CASE queue # <<>>
    <3>1. /\ ppc = "take" /\ ppc' = "notify" /\ hand' = Head(queue)
          /\ queue' = Tail(queue)
          /\ UNCHANGED <<session, delivered, nextTag, InReader>>
      BY <1>49, <2>2 DEF ParserTake, InReader
    <3>2. InParser = <<>> /\ InParser' = <<Head(queue)>>
      BY <3>1 DEF InParser
    <3>3. <<Head(queue)>> \o Tail(queue) = queue
      BY <1>1, <2>2, Rejoined
    <3>4. <<>> \o queue = queue
      BY <1>1, ConcatEmptySeq
    <3>5. Pending' = Pending
      BY <3>1, <3>2, <3>3, <3>4 DEF Pending
    <3>6. QED
      BY <3>1, <3>5 DEF Moves, Stays
  <2>3. QED
    BY <2>1, <2>2
<1>50. CASE ParserNotify
  <2>1. /\ ppc = "notify" /\ ppc' = "release" /\ hand' = hand
        /\ delivered' = IF hand = Status THEN delivered
                        ELSE Append(delivered, hand)
        /\ UNCHANGED <<session, nextTag, queue, InReader>>
    BY <1>50, <1>1 DEF ParserNotify, InReader
  <2>2. InParser = <<hand>> /\ InParser' = <<>>
    BY <2>1 DEF InParser
  <2>3. /\ queue \o InReader \in Seq(Int) /\ <<hand>> \in Seq(Int)
        /\ Pending = <<hand>> \o (queue \o InReader)
        /\ Pending' = queue \o InReader
    BY SMTT(30), <1>1, <1>b, <2>1, <2>2, ConcatProperties, ConcatAssociative,
       ConcatEmptySeq DEF Pending
  <2>4. /\ Pending # <<>> /\ Pending \in Seq(Int)
        /\ Head(Pending) = hand /\ Tail(Pending) = queue \o InReader
        /\ Len(Pending) >= 1 /\ Pending[1] = hand
    BY <1>1, <2>3, Prefixed
  <2>5. hand # Status
    <3>1. hand = Len(delivered) + 1
      BY <1>1, <2>4 DEF InOrder
    <3>2. QED
      BY <1>1, <3>1 DEF Status
  <2>6. QED
    BY <2>1, <2>3, <2>4, <2>5 DEF Moves, Delivers
<1>51. CASE ParserRelease
  BY <1>51, <1>a
  DEF ParserRelease, InParser, InReader
<1>52. CASE SpuriousWakeup
  BY <1>52, <1>a
  DEF SpuriousWakeup, InParser, InReader
<1>53. CASE Terminated
  BY <1>53, <1>a
  DEF Terminated, vars, InParser, InReader
<1>54. CASE UNCHANGED vars
  BY <1>54, <1>a DEF vars, InParser, InReader
<1>55. QED
  BY <1>2, <1>3, <1>4, <1>5, <1>6, <1>7, <1>8, <1>9, <1>10, <1>11, <1>12,
     <1>13, <1>14, <1>15, <1>16, <1>17, <1>18, <1>19, <1>20, <1>21, <1>22,
     <1>23, <1>24, <1>25, <1>26, <1>27, <1>28, <1>29, <1>30, <1>31, <1>32,
     <1>33, <1>34, <1>35, <1>36, <1>37, <1>38, <1>39, <1>40, <1>41, <1>42,
     <1>43, <1>44, <1>45, <1>46, <1>47, <1>48, <1>49, <1>50, <1>51, <1>52,
     <1>53, <1>54
  DEF Next, Call, Calling, ReaderThread, Parser

(* The order is kept by what a step may do.                                *)
LEMMA OrderStep ==
  ASSUME delivered \in Seq(Int), Pending \in Seq(Int), nextTag \in Nat \ {0},
         InOrder, Moves
  PROVE  InOrder'
<1>1. Len(delivered) \in Nat /\ Len(Pending) \in Nat
  BY LenProperties
<1>2. CASE Stays \/ Starts \/ Stops
  BY <1>2 DEF InOrder, Stays, Starts, Stops
<1>3. CASE Accepts
  <2>1. /\ Pending' = Append(Pending, nextTag) /\ delivered' = delivered
        /\ nextTag' = nextTag + 1 /\ nextTag \in Int
    BY <1>3 DEF Accepts
  <2>2. /\ Len(Pending') = Len(Pending) + 1
        /\ \A i \in 1 .. Len(Pending) : Pending'[i] = Pending[i]
        /\ Pending'[Len(Pending) + 1] = nextTag
    BY <2>1, AppendProperties
  <2>3. nextTag = Len(delivered) + Len(Pending) + 1
    BY <1>1 DEF InOrder
  <2>4. ASSUME NEW i \in 1 .. Len(Pending') PROVE Pending'[i] = Len(delivered) + i
    <3>1. CASE i \in 1 .. Len(Pending)
      BY <2>2, <3>1 DEF InOrder
    <3>2. CASE i = Len(Pending) + 1
      BY <1>1, <2>2, <2>3, <3>2
    <3>3. QED
      BY <1>1, <2>2, <3>1, <3>2
  <2>5. Len(delivered) + Len(Pending') = nextTag + 1 - 1
    BY <1>1, <2>2, <2>3
  <2>6. QED
    BY <2>1, <2>4, <2>5 DEF InOrder
<1>4. CASE Delivers
  <2>1. /\ Pending # <<>> /\ delivered' = Append(delivered, Head(Pending))
        /\ Pending' = Tail(Pending) /\ nextTag' = nextTag
    BY <1>4 DEF Delivers
  <2>2. Len(Pending) \in Nat \ {0} /\ Head(Pending) = Pending[1]
    BY <2>1, EmptySeq
  <2>3. /\ Head(Pending) \in Int /\ Len(Pending') = Len(Pending) - 1
        /\ \A i \in 1 .. Len(Pending') : Pending'[i] = Pending[i + 1]
    BY <2>1, HeadTailProperties
  <2>4. /\ Len(delivered') = Len(delivered) + 1
        /\ \A i \in 1 .. Len(delivered) : delivered'[i] = delivered[i]
        /\ delivered'[Len(delivered) + 1] = Head(Pending)
    BY <2>1, <2>3, AppendProperties
  <2>5. Head(Pending) = Len(delivered) + 1
    BY <2>2 DEF InOrder
  <2>6. ASSUME NEW i \in 1 .. Len(delivered') PROVE delivered'[i] = i
    <3>1. CASE i \in 1 .. Len(delivered)
      BY <2>4, <3>1 DEF InOrder
    <3>2. CASE i = Len(delivered) + 1
      BY <2>4, <2>5, <3>2
    <3>3. QED
      BY <1>1, <2>4, <3>1, <3>2
  <2>7. ASSUME NEW i \in 1 .. Len(Pending')
        PROVE  Pending'[i] = Len(delivered') + i
    <3>1. i + 1 \in 1 .. Len(Pending)
      BY <2>2, <2>3
    <3>2. Pending'[i] = Len(delivered) + (i + 1)
      BY <2>3, <3>1 DEF InOrder
    <3>3. QED
      BY <1>1, <2>4, <3>2
  <2>8. Len(delivered') + Len(Pending') = nextTag - 1
    BY <1>1, <2>2, <2>3, <2>4 DEF InOrder
  <2>9. QED
    BY <2>1, <2>6, <2>7, <2>8 DEF InOrder
<1>5. QED
  BY <1>2, <1>3, <1>4 DEF Moves

(* What a step does is a step of the abstract stream, or none of it.       *)
LEMMA MovesImplement ==
  ASSUME nextTag \in Nat \ {0}, MaxTags \in Nat, Slots \in Nat, InOrder, Moves,
         delivered \in Seq(Int), Pending \in Seq(Int)
  PROVE  [Stream!Next]_(Stream!vars)
<1> USE DEF Pending
<1>1. CASE Stays
  BY <1>1 DEF Stays, Stream!vars
<1>2. CASE Starts
  BY <1>2 DEF Starts, Stream!Next, Stream!Start
<1>3. CASE Stops
  BY <1>3 DEF Stops, Stream!Next, Stream!StopReturned
<1>4. CASE Accepts
  <2>1. Len(Pending) \in Nat /\ Len(delivered) \in Nat
    BY LenProperties
  <2>2. nextTag \in 1 .. MaxTags /\ nextTag = Len(delivered) + Len(Pending) + 1
    BY <1>4, <2>1 DEF Accepts, InOrder
  <2>3. Len(Pending) < Slots + 1
    BY <1>4, <2>1 DEF Accepts
  <2>4. Stream!Accept(nextTag)
    BY <1>4, <2>2, <2>3 DEF Accepts, Stream!Accept
  <2>5. QED
    BY <2>2, <2>4 DEF Stream!Next
<1>5. CASE Delivers
  BY <1>5 DEF Delivers, Stream!Next, Stream!Deliver
<1>6. QED
  BY <1>1, <1>2, <1>3, <1>4, <1>5 DEF Moves

(* ModeInv holds in every state.                                           *)
LEMMA ModeInvariant == ASSUME SoundStream PROVE Spec => []ModeInv
<1>1. Undisturbed
  BY DEF SoundStream, Undisturbed
<1>2. Init => ModeInv
  <2> SUFFICES ASSUME Init PROVE ModeInv
    OBVIOUS
  <2>1. /\ ~reader.backgroundEnabled /\ bpc = "none"
        /\ \A a \in Apps : apc[a] = "idle"
    BY DEF Init
  <2>2. QED
    BY <2>1 DEF ModeInv, Searching, Receiving
<1>3. TypeOK /\ SlotsInv /\ LineInv /\ StopInv /\ ModeInv /\ [Next]_vars
        => ModeInv'
  BY ModeStep
<1>4. Spec => []StopInv
  BY <1>1, StopInvariant
<1>5. QED
  BY <1>2, <1>3, <1>4, TypeCorrect, SlotsInvariant, LineInvariant, PTL DEF Spec

(* As long as the queue does not overflow and the reader is not destroyed, *)
(* every behaviour of a sound stream is one of TagStream: the safety part  *)
(* of ImplementsTagStream, for any number of threads, slots and tags.  The *)
(* order of the tags is proved with it.                                    *)
THEOREM StreamImplemented ==
  ASSUME SoundStream
  PROVE  Spec /\ []Intact =>
           /\ Stream!Init /\ [][Stream!Next]_(Stream!vars)
           /\ [](\A i \in 1 .. Len(delivered) : delivered[i] = i)
<1> DEFINE Known == /\ TypeOK /\ SlotsInv /\ LineInv /\ CountsInv
                    /\ StopInv /\ LossInv /\ ModeInv
<1>1. Undisturbed /\ Lossless
  BY DEF SoundStream, Undisturbed, Lossless
<1>2. Spec => []Known
  <2>1. Spec => []StopInv
    BY <1>1, StopInvariant
  <2>2. Spec => []LossInv
    BY <1>1, LossInvariant
  <2>3. Spec => []ModeInv
    BY ModeInvariant
  <2>4. QED
    BY <2>1, <2>2, <2>3, TypeCorrect, SlotsInvariant, LineInvariant,
       PlacesInvariant, PTL
<1>3. Init => Stream!Init /\ InOrder
  <2> SUFFICES ASSUME Init PROVE Stream!Init /\ InOrder
    OBVIOUS
  <2>1. /\ session = FALSE /\ delivered = <<>> /\ queue = <<>> /\ nextTag = 1
        /\ InParser = <<>> /\ InReader = <<>>
    BY DEF Init, InParser, InReader
  <2>2. Pending = <<>>
    BY <2>1, ConcatEmptySeq DEF Pending
  <2>3. QED
    BY <2>1, <2>2 DEF Stream!Init, InOrder, Pending
<1>4. ASSUME Known, TypeOK', InOrder, Intact, Intact', [Next]_vars
      PROVE  InOrder' /\ [Stream!Next]_(Stream!vars)
  <2>1. Moves
    BY <1>4, MovesStep
  <2>2. nextTag \in Nat \ {0} /\ delivered \in Seq(Int) /\ Pending \in Seq(Int)
    <3>1. /\ nextTag \in Nat \ {0} /\ delivered \in Seq(Int)
          /\ queue \in Seq(Int) /\ hand \in Int /\ bufResponse \in Int
      BY <1>4 DEF TypeOK
    <3>2. InParser \in Seq(Int) /\ InReader \in Seq(Int)
      BY <3>1 DEF InParser, InReader
    <3>3. InParser \o queue \in Seq(Int)
      BY <3>1, <3>2, ConcatProperties
    <3>4. QED
      BY <3>1, <3>2, <3>3, ConcatProperties DEF Pending
  <2>3. InOrder'
    BY <1>4, <2>1, <2>2, OrderStep
  <2>4. [Stream!Next]_(Stream!vars)
    BY <1>4, <2>1, <2>2, MovesImplement, BoundsAssumption, SlotsAssumption
  <2>5. QED
    BY <2>3, <2>4
<1>5. Known /\ Known' /\ InOrder /\ Intact /\ Intact' /\ [Next]_vars
        => InOrder' /\ [Stream!Next]_(Stream!vars)
  BY <1>4
<1>6. InOrder => \A i \in 1 .. Len(delivered) : delivered[i] = i
  BY DEF InOrder
<1> HIDE DEF Known
<1>7. QED
  BY <1>2, <1>3, <1>5, <1>6, PTL DEF Spec
================================================================================
