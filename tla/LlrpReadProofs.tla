---------------------------- MODULE LlrpReadProofs ----------------------------
(*****************************************************************************)
(* Proofs about the synchronous reads of an LLRP reader: a read that goes on has *)
(* waited for all its ROSpecs, the reports it collects are its own, and the link *)
(* is not taken for lost while it works.                                     *)
(*****************************************************************************)
EXTENDS LlrpScriptProofs

-------------------------------------------------------------------------------
(* What an operation still waits for: ends on the wire, ROSpecs that will  *)
(* end, and those that are still to be started.                            *)
EventMessages == {m \in Message : m.kind = "event"}
TimedStarts == {q \in Commanded : q.command = "startRO" /\ q.timed}
Awake == {i \in Nat : \E s \in specs : s.id = i /\ s.timed /\ s.state = "active"}
Arriving == Count(wire, EventMessages)
Started == Count(requests, TimedStarts)
Left == Count(IF caller.at = "waiting" THEN Tail(caller.script) ELSE caller.script, {"startRO"})

Calm == history.broken = {}
Has(s, A) == \E i \in DOMAIN s : s[i] \in A
Counted == InRead /\ ~Has(caller.script, CountSteps)
Dead == link = "closed" /\ wire = <<>>
Own(m, loose) == m.kind = "report" /\ m.round \notin loose

AllQuiet ==
  /\ Arriving = 0 /\ Awake = {} /\ Started = 0
  /\ \A i \in DOMAIN wire : ~Own(wire[i], history.loose)
  /\ receiver.at = "store" => ~Own(receiver.holds[1], history.loose)
Enough ==
  /\ Dead \/ Arriving + Cardinality(Awake) + Started + Left <= events
  /\ \A i \in DOMAIN wire : Own(wire[i], history.loose) => events > Before(wire, EventMessages, i)
  /\ receiver.at = "store" /\ Own(receiver.holds[1], history.loose) => events > 0
  /\ ~Has(caller.script, {"await"}) => events = 0 \/ (Dead /\ events <= 0)
WaitInv ==
  /\ IsFiniteSet(Awake)
  /\ Calm /\ ~Counted => AllQuiet
  /\ Calm /\ Counted => Enough

(* What the threads take from the socket, and what they make of it.        *)
Taking == wire # <<>> /\ wire' = Tail(wire) /\ events' = EventsAfter(Head(wire))

(* What each step does to the socket and to the count of the ends.         *)
LEMMA EventSteps ==
  ASSUME TypesInv, Others
  PROVE  \/ Taking
         \/ wire' = wire /\ events' = events
         \/ wire' = wire /\ Dead /\ ReceiverFails
         \/ wire' = wire /\ Counts
<1>1. CASE ReceiverStep
  BY <1>1 DEF ReceiverStep, ReceiverGoes, ReceiverTakes, ReceiverStores, ReceiverIdles,
              ReceiverFails, Taking, Dead
<1>2. CASE CommandStep
  <2>1. CASE CommandTakes
    <3>1. Answers(Head(wire)) => EventsAfter(Head(wire)) = events
      BY DEF Answers, EventsAfter
    <3>2. QED
      BY <2>1, <3>1 DEF CommandTakes, Taking
  <2>2. QED
    BY <1>2, <2>1 DEF CommandStep, SendsOnly, Counts, Quiets, Sends, CommandTimesOut, Awaits,
                      AwaitsReport, StartsReading, StopsReading, Joins
<1>3. CASE StreamStep
  <2>1. stream.phase = "on" => \A m : EventsAfter(m) = events
    BY DEF EventsAfter, continuousReading
  <2>2. QED
    BY <1>3, <2>1 DEF StreamStep, StreamAsks, StreamTakes, StreamTimesOut, Taking
<1>4. CASE UserStep
  BY <1>4 DEF UserStep, Connect, Read, ExecuteTagOp, AskParameter, TakesTag, EndsWalk,
              StartReading, StopReading, Destroy
<1>5. QED
  BY <1>1, <1>2, <1>3, <1>4 DEF Others

(* How the receiver comes to hold a report.                                *)
LEMMA StoreSteps ==
  ASSUME TypesInv, Others, receiver'.at = "store"
  PROVE  \/ receiver.at = "store" /\ receiver'.holds = receiver.holds
         \/ ReceiverTakes /\ Head(wire).kind = "report" /\ receiver'.holds = <<Head(wire)>>
<1>0. receiver \in Receivers
  BY DEF TypesInv, ThreadTypes
<1>1. LoopEnds.at # "store"
  BY <1>0 DEF LoopEnds, Receivers
<1>2. Resumed.at = receiver.at /\ Resumed.holds = receiver.holds
  BY <1>0 DEF Resumed, Receivers
<1>3. CASE ReceiverStep
  <2>1. CASE ReceiverGoes
    BY <1>0, <2>1 DEF ReceiverGoes, Receivers
  <2>2. CASE ReceiverTakes
    BY <1>0, <1>1, <2>2 DEF ReceiverTakes, Receivers
  <2>3. QED
    BY <1>1, <1>3, <2>1, <2>2 DEF ReceiverStep, ReceiverStores, ReceiverIdles, ReceiverFails
<1>4. CASE CommandStep
  <2>1. CASE CommandTakes
    <3>1. receiver' = receiver \/ \E m, h : Answered(m, h)
      BY <2>1 DEF CommandTakes
    <3>2. ASSUME NEW m, NEW h, Answered(m, h)
          PROVE receiver.at = "store" /\ receiver'.holds = receiver.holds
      <4>1. receiver' = Resumed \/
            receiver' = [receiver EXCEPT !.setup = TRUE, !.enabled = TRUE, !.at = "park"]
        BY <3>2 DEF Answered
      <4>2. QED
        BY <1>0, <1>2, <4>1 DEF Receivers
    <3>3. QED
      BY <3>1, <3>2
  <2>2. CASE Quiets
    BY <1>0, <2>2 DEF Quiets, Receivers
  <2>3. CASE StopsReading \/ Joins
    BY <1>0, <2>3 DEF StopsReading, Joins, Receivers
  <2>4. QED
    BY <1>2, <1>4, <2>1, <2>2, <2>3
       DEF CommandStep, SendsOnly, Counts, Sends, CommandTimesOut, Awaits, AwaitsReport,
           StartsReading
<1>5. CASE StreamStep
  BY <1>0, <1>5 DEF StreamStep, StreamAsks, StreamTakes, StreamTimesOut, Receivers
<1>6. CASE UserStep
  BY <1>0, <1>6 DEF UserStep, Connect, Read, ExecuteTagOp, AskParameter, TakesTag, EndsWalk,
                    StartReading, StopReading, Destroy, Receivers
<1>7. QED
  BY <1>3, <1>4, <1>5, <1>6 DEF Others

(* How a synchronous read goes on when it does not fail.                   *)
ReadStill ==
  /\ InRead' /\ caller'.script = caller.script
  /\ caller'.at = "waiting" <=> caller.at = "waiting"
ReadAsks ==
  /\ InRead' /\ caller'.script = caller.script
  /\ caller'.at = "waiting" /\ caller.at # "waiting" /\ Sends
ReadAdvances ==
  /\ caller.script # <<>> /\ caller'.at = "ready"
  /\ IF Tail(caller.script) = <<>> THEN ~InRead'
     ELSE InRead' /\ caller'.script = Tail(caller.script)
  /\ \/ caller.at = "waiting" /\ Head(caller.script) \in Commands
     \/ /\ caller.at # "waiting"
        /\ Head(caller.script) \in {"enableEvents", "deleteRO", "deleteAccess"}
     \/ /\ Awaits /\ events <= 0 /\ events # -1 /\ caller.at # "waiting"
        /\ Head(caller.script) = "await"
     \/ Counts /\ caller.at # "waiting" /\ Head(caller.script) \in CountSteps

(* A synchronous read waits, asks or goes on with its script, as long as   *)
(* it does not fail.                                                       *)
LEMMA ReadSteps ==
  ASSUME TypesInv, HandshakeInv, ScriptInv, ModeInv, Others, InRead, history'.broken = {}
  PROVE  ReadStill \/ ReadAsks \/ ReadAdvances
<1>0. caller \in Callers /\ history \in Histories /\ caller.doing = "read"
      /\ caller.script \in Seq(Steps)
  BY DEF TypesInv, CallerTypes, DataTypes, InRead, Callers
<1>1. ASSUME NEW h, Finishes(FALSE, h) PROVE FALSE
  BY <1>0, <1>1 DEF Finishes
<1>2. ASSUME NEW h, caller.script # <<>>, Advanced(Tail(caller.script), h)
      PROVE  /\ caller'.at = "ready"
             /\ IF Tail(caller.script) = <<>> THEN ~InRead'
                ELSE InRead' /\ caller'.script = Tail(caller.script)
  BY <1>0, <1>2 DEF Advanced, Finishes, Continues, InRead
<1>3. ASSUME NEW h, caller.script # <<>>, Failed(h)
      PROVE  Advanced(Tail(caller.script), h) /\ ~Fatal(caller.script)
  BY <1>1, <1>3 DEF Failed
<1>4. ASSUME caller.script # <<>>, ~Fatal(caller.script)
      PROVE  Head(caller.script) \in {"deleteRO", "deleteAccess"}
  <2>1. Head(caller.script) = caller.script[1]
    BY <1>0, <1>4, Shortened
  <2>2. Head(caller.script) \in {"holdEvents", "getRegion", "getCapabilities", "getProtocols",
                                 "getAntennas", "deleteRO", "deleteAccess", "close", "stopOld"}
    BY <1>4, <2>1 DEF Fatal
  <2>3. Head(caller.script) \in Asked("read")
    BY <1>0, <1>4, HeadTailProperties DEF ScriptInv
  <2>4. QED
    BY <2>2, <2>3 DEF Asked, Opening, PlanSteps
<1>5. CASE SendsOnly
  <2>1. caller.at = "ready" /\ caller.script # <<>> /\ Head(caller.script) = "enableEvents"
    BY <1>5 DEF SendsOnly, FirstIs
  <2>2. CASE Ended("failed", history)
    <3>1. Finishes("failed" = "ok", history)
      BY <1>0, <2>2, EndedFields
    <3>2. Finishes(FALSE, history)
      BY <3>1
    <3>3. QED
      BY <1>1, <3>2
  <2>3. CASE Proceed(Tail(caller.script), history)
    <3>1. Advanced(Tail(caller.script), history)
      BY <1>0, <2>3, ProceedFields
    <3>2. QED
      BY <1>2, <2>1, <3>1 DEF ReadAdvances
  <2>4. QED
    BY <1>5, <2>2, <2>3 DEF SendsOnly
<1>6. CASE Counts
  <2>1. caller.at = "ready" /\ caller.script # <<>> /\ Head(caller.script) \in CountSteps
    BY <1>6 DEF Counts, FirstIs, CountSteps
  <2>2. Advanced(Tail(caller.script), history)
    BY <1>0, <1>6, ProceedFields DEF Counts
  <2>3. QED
    BY <1>2, <1>6, <2>1, <2>2 DEF ReadAdvances
<1>7. CASE Quiets
  <2>1. /\ caller.at = "ready" /\ caller'.at \in {"quieting", "sending"}
        /\ caller'.script = caller.script /\ caller'.doing = "read"
    BY <1>0, <1>7 DEF Quiets, FirstIs, Callers
  <2>2. QED
    BY <2>1 DEF ReadStill, InRead
<1>8. CASE Sends
  <2>1. caller.script # <<>> /\ caller.at # "waiting"
    BY <1>8 DEF Sends, TypesInv, CallerTypes
  <2>2. CASE link = "closed"
    <3>1. Failed(history)
      BY <1>0, <1>8, <2>2, FailsFields DEF Sends
    <3>2. QED
      BY <1>2, <1>3, <1>4, <2>1, <3>1 DEF ReadAdvances
  <2>3. CASE link # "closed"
    <3>1. caller' = [caller EXCEPT !.at = "waiting"]
      BY <1>8, <2>3 DEF Sends
    <3>2. caller'.at = "waiting" /\ caller'.script = caller.script /\ caller'.doing = "read"
      BY <1>0, <3>1 DEF Callers
    <3>3. QED
      BY <1>8, <2>1, <3>2 DEF ReadAsks, InRead
  <2>4. QED
    BY <2>2, <2>3
<1>9. CASE CommandTakes
  <2> DEFINE h == [history EXCEPT !.eaten =
                     @ \/ (continuousReading /\ Head(wire).kind = "keepAlive")]
  <2>1. h \in Histories
    BY <1>0 DEF Histories
  <2>2. caller.script # <<>> /\ Head(caller.script) \in Commands /\ caller.at = "waiting"
    BY <1>9 DEF CommandTakes, TypesInv, CallerTypes
  <2>3. caller' = caller \/ \E m : Answered(m, h)
    BY <1>9 DEF CommandTakes
  <2> HIDE DEF h
  <2>4. ASSUME NEW m, Answered(m, h) PROVE Advanced(Tail(caller.script), h)
    <3>1. CASE m.ok
      <4>1. PICK more : /\ Head(caller.script) # "getROSpecs" => more = <<>>
                        /\ Advanced(more \o Tail(caller.script), h)
        BY <2>1, <2>2, <2>4, <3>1, AnsweredFields
      <4>2. Head(caller.script) # "getROSpecs"
        <5>1. Head(caller.script) \in Asked("read")
          BY <1>0, <2>2, HeadTailProperties DEF ScriptInv
        <5>2. QED
          BY <5>1 DEF Asked, Opening, PlanSteps
      <4>3. <<>> \o Tail(caller.script) = Tail(caller.script)
        BY <1>0, <2>2, HeadTailProperties, ConcatEmptySeq
      <4>4. QED
        BY <4>1, <4>2, <4>3
    <3>2. CASE ~m.ok
      <4>1. Failed(h)
        BY <2>1, <2>2, <2>4, <3>2, AnsweredFields
      <4>2. QED
        BY <1>3, <2>2, <4>1
    <3>3. QED
      BY <3>1, <3>2
  <2>5. CASE caller' = caller
    BY <2>5 DEF ReadStill, InRead
  <2>6. QED
    BY <1>2, <2>2, <2>3, <2>4, <2>5 DEF ReadAdvances
<1>10. CASE CommandTimesOut
  <2> DEFINE h == [history EXCEPT !.troubles = history.troubles + 1]
  <2>1. h \in Histories
    BY SMTT(30), <1>0 DEF Histories
  <2>2. Fails(history) \/ Fails(h)
    BY <1>10 DEF CommandTimesOut
  <2>3. caller.script # <<>> /\ Head(caller.script) \in Commands /\ caller.at = "waiting"
    BY <1>10 DEF CommandTimesOut, TypesInv, CallerTypes
  <2> HIDE DEF h
  <2>4. Failed(history) \/ Failed(h)
    BY <1>0, <2>1, <2>2, FailsFields
  <2>5. QED
    BY <1>2, <1>3, <2>3, <2>4 DEF ReadAdvances
<1>11. CASE Awaits
  <2>1. /\ caller.at = "ready" /\ caller.script # <<>> /\ Head(caller.script) = "await"
        /\ events <= 0
    BY <1>11 DEF Awaits, FirstIs
  <2> DEFINE h == [history EXCEPT !.lost = TRUE]
  <2>2. h \in Histories
    BY <1>0 DEF Histories
  <2>3. \/ Ended("lost", h)
        \/ events # -1 /\ Proceed(Tail(caller.script), history)
    BY <1>11 DEF Awaits
  <2> HIDE DEF h
  <2>4. Finishes("lost" = "ok", h) \/ (events # -1 /\ Advanced(Tail(caller.script), history))
    BY <1>0, <2>2, <2>3, EndedFields, ProceedFields
  <2>5. Finishes(FALSE, h) \/ (events # -1 /\ Advanced(Tail(caller.script), history))
    BY <2>4
  <2>6. QED
    BY <1>1, <1>2, <1>11, <2>1, <2>5 DEF ReadAdvances
<1>12. CASE AwaitsReport
  <2>1. caller.script # <<>> /\ Head(caller.script) = "awaitReport"
    BY <1>12 DEF AwaitsReport, FirstIs
  <2>2. Head(caller.script) \in Asked("read")
    BY <1>0, <2>1, HeadTailProperties DEF ScriptInv
  <2>3. QED
    BY <2>1, <2>2 DEF Asked, Opening, PlanSteps
<1>13. CASE ReceiverStep
  <2>1. caller' = caller
    BY <1>13 DEF ReceiverStep, ReceiverGoes, ReceiverTakes, ReceiverStores, ReceiverIdles,
                 ReceiverFails
  <2>2. QED
    BY <2>1 DEF ReadStill, InRead
<1>14. CASE StreamStep
  <2>1. caller' = caller
    BY <1>14 DEF StreamStep, StreamAsks, StreamTakes, StreamTimesOut
  <2>2. QED
    BY <2>1 DEF ReadStill, InRead
<1>15. CASE StartsReading \/ StopsReading \/ Joins \/ UserStep
  BY <1>0, <1>15 DEF StartsReading, StopsReading, Joins, UserStep, Connect, Read, ExecuteTagOp,
                     AskParameter, TakesTag, EndsWalk, StartReading, StopReading, Destroy, Idle
<1>16. QED
  BY <1>5, <1>6, <1>7, <1>8, <1>9, <1>10, <1>11, <1>12, <1>13, <1>14, <1>15
     DEF Others, CommandStep

-------------------------------------------------------------------------------
(* Nothing of a read is left when what it counted has come to an end.      *)
LEMMA AwakeZero ==
  ASSUME IsFiniteSet(Awake)
  PROVE  Cardinality(Awake) \in Nat /\ (Cardinality(Awake) = 0 => Awake = {})
BY FS_CardinalityType, FS_EmptySet

(* The counts are numbers; where nothing is counted nothing is.            *)
LEMMA CountTypes ==
  ASSUME TypesInv
  PROVE  /\ Arriving \in Nat /\ Started \in Nat /\ Left \in Nat
         /\ wire \in Seq(Message) /\ requests \in Seq(Commanded)
         /\ Len(wire) \in Nat /\ DOMAIN wire = 1..Len(wire)
         /\ Arriving = 0 => \A i \in DOMAIN wire : wire[i] \notin EventMessages
         /\ wire = <<>> => Arriving = 0 /\ DOMAIN wire = {}
         /\ requests = <<>> => Started = 0
<1>0. /\ wire \in Seq(Message) /\ requests \in Seq(Commanded) /\ caller.script \in Seq(Steps)
      /\ caller.at = "waiting" => caller.script # <<>>
  BY DEF TypesInv, SocketTypes, CallerTypes, Callers
<1>1. /\ Len(wire) \in Nat /\ DOMAIN wire = 1..Len(wire)
      /\ Len(requests) \in Nat /\ DOMAIN requests = 1..Len(requests)
  BY <1>0, LenProperties
<1>2. Left \in Nat
  <2> DEFINE s == IF caller.at = "waiting" THEN Tail(caller.script) ELSE caller.script
  <2>1. s \in Seq(Steps)
    BY <1>0, Shortened
  <2>2. Len(s) \in Nat
    BY <2>1, LenProperties
  <2> HIDE DEF s
  <2>3. Count(s, {"startRO"}) \in Nat
    BY <2>2, CountPart
  <2>4. QED
    BY <2>3 DEF Left, s
<1>3. Len(<<>>) = 0 /\ 1..0 = {}
  OBVIOUS
<1>4. QED
  BY <1>0, <1>1, <1>2, <1>3, CountPart DEF Arriving, Started

(* When nothing is counted any more nothing of a read is left.             *)
LEMMA Settled ==
  ASSUME TypesInv, LinkInv, IsFiniteSet(Awake), Enough, events <= 0,
         \/ Dead
         \/ events = 0
  PROVE  AllQuiet
<1>0. /\ Arriving \in Nat /\ Started \in Nat /\ Left \in Nat /\ events \in Int
      /\ Cardinality(Awake) \in Nat /\ (Cardinality(Awake) = 0 => Awake = {})
  BY AwakeZero, CountTypes DEF TypesInv, DataTypes
<1>1. receiver.at = "store" => ~Own(receiver.holds[1], history.loose)
  BY <1>0 DEF Enough
<1>2. \A i \in DOMAIN wire : ~Own(wire[i], history.loose)
  <2>1. \A i \in DOMAIN wire : Before(wire, EventMessages, i) \in Nat
    <3>1. \A i \in DOMAIN wire : i \in Int
      BY CountTypes
    <3>2. QED
      BY <3>1, BeforeType
  <2>2. QED
    BY <1>0, <2>1 DEF Enough
<1>3. CASE Dead
  <2>1. requests = <<>> /\ specs = {} /\ wire = <<>>
    BY <1>3 DEF Dead, LinkInv
  <2>2. Awake = {}
    BY <2>1 DEF Awake
  <2>3. QED
    BY <1>1, <1>2, <2>1, <2>2, CountTypes DEF AllQuiet
<1>4. CASE ~Dead /\ events = 0
  <2>1. Arriving + Cardinality(Awake) + Started + Left <= 0
    BY <1>4 DEF Enough
  <2>2. Arriving = 0 /\ Cardinality(Awake) = 0 /\ Started = 0
    BY <1>0, <2>1
  <2>3. QED
    BY <1>0, <1>1, <1>2, <2>2 DEF AllQuiet
<1>5. QED
  BY <1>3, <1>4

-------------------------------------------------------------------------------
(* What the threads of the host do to a quiet reader leaves it quiet, but  *)
(* for the start of a ROSpec of a read.                                    *)
LEMMA NoNewStart ==
  ASSUME TypesInv, ScriptInv, Requesting, ~Counted
  PROVE  requests' = requests \/ \E q \in Commanded \ TimedStarts : requests' = Append(requests, q)
<1>0. /\ caller \in Callers /\ history \in Histories /\ roSpecId \in Nat
      /\ caller.script \in Seq(Steps)
  BY DEF TypesInv, CallerTypes, DataTypes, Callers
<1>1. CASE Sends /\ Asking
  <2> DEFINE q == Request(Head(caller.script), roSpecId')
  <2>1. caller.script # <<>> /\ Head(caller.script) \in Commands /\ roSpecId' \in Nat
    BY <1>0, <1>1 DEF Asking, TypesInv, CallerTypes, GivenId
  <2>2. q \in Commanded /\ requests' = Append(requests, q)
    BY <1>0, <1>1, <2>1, RequestType DEF Asking
  <2>3. q.command = Head(caller.script) /\ (q.timed <=> InRead)
    BY DEF Request, InRead
  <2>4. ~(q.command = "startRO" /\ q.timed)
    <3>1. ASSUME Head(caller.script) = "startRO", InRead PROVE FALSE
      <4>1. PICK k \in DOMAIN caller.script : caller.script[k] \in CountSteps
        BY <3>1 DEF Counted, Has
      <4>2. /\ DOMAIN caller.script = 1..Len(caller.script) /\ Len(caller.script) \in Nat \ {0}
            /\ Head(caller.script) = caller.script[1]
        BY <1>0, <2>1, Shortened
      <4>3. 1 \in DOMAIN caller.script /\ 1 < k
        BY <3>1, <4>1, <4>2 DEF CountSteps
      <4>4. InOrder(caller.script)
        BY <3>1 DEF ScriptInv, InRead
      <4>5. caller.script[1] # "startRO"
        BY <4>1, <4>3, <4>4 DEF InOrder
      <4>6. QED
        BY <3>1, <4>2, <4>5
    <3>2. QED
      BY <2>3, <3>1
  <2> HIDE DEF q
  <2>5. QED
    BY <2>2, <2>4 DEF TimedStarts
<1>2. CASE ~(Sends /\ Asking)
  BY <1>2 DEF Requesting, TimedStarts
<1>3. QED
  BY <1>1, <1>2

(* A quiet reader stays quiet.                                             *)
LEMMA QuietStays ==
  ASSUME TypesInv, HandshakeInv, AllQuiet, Others,
         requests' = requests \/ \E q \in Commanded \ TimedStarts : requests' = Append(requests, q)
  PROVE  AllQuiet'
<1>0. wire \in Seq(Message) /\ requests \in Seq(Commanded)
  BY CountTypes
<1>1. /\ specs' = specs /\ history.loose \subseteq history'.loose
      /\ wire' = wire \/ (wire # <<>> /\ wire' = Tail(wire))
  <2>1. Outside
    BY OthersOutside
  <2>2. QED
    BY <2>1 DEF Outside, Begins
<1>2. Awake' = {}
  BY <1>1 DEF Awake, AllQuiet
<1>3. Started' = 0
  <2>1. CASE requests' = requests
    BY <2>1 DEF Started, AllQuiet
  <2>2. ASSUME NEW q \in Commanded \ TimedStarts, requests' = Append(requests, q) PROVE Started' = 0
    <3>1. Count(Append(requests, q), TimedStarts) = 0
      BY <1>0, <2>2, CountAppend DEF AllQuiet, Started
    <3>2. QED
      BY <2>2, <3>1 DEF Started
  <2>3. QED
    BY <2>1, <2>2
<1>4. \A m : Own(m, history'.loose) => Own(m, history.loose)
  BY <1>1 DEF Own
<1>5. Arriving' = 0 /\ \A i \in DOMAIN wire' : ~Own(wire'[i], history'.loose)
  <2>1. CASE wire' = wire
    BY <1>4, <2>1 DEF AllQuiet, Arriving
  <2>2. CASE wire # <<>> /\ wire' = Tail(wire)
    <3>1. Count(Tail(wire), EventMessages) = 0
      BY <1>0, <2>2, CountTail DEF AllQuiet, Arriving
    <3>2. \A i \in DOMAIN wire' : i + 1 \in DOMAIN wire /\ wire'[i] = wire[i + 1]
      BY <1>0, <2>2, Shortened
    <3>3. QED
      BY <1>4, <2>2, <3>1, <3>2 DEF AllQuiet, Arriving
  <2>3. QED
    BY <1>1, <2>1, <2>2
<1>6. receiver'.at = "store" => ~Own(receiver'.holds[1], history'.loose)
  <2>1. ASSUME receiver'.at = "store", receiver.at = "store", receiver'.holds = receiver.holds
        PROVE  ~Own(receiver'.holds[1], history'.loose)
    BY <1>4, <2>1 DEF AllQuiet
  <2>2. ASSUME ReceiverTakes, receiver'.holds = <<Head(wire)>>
        PROVE  ~Own(receiver'.holds[1], history'.loose)
    <3>1. 1 \in DOMAIN wire /\ Head(wire) = wire[1]
      BY <1>0, <2>2, Shortened DEF ReceiverTakes
    <3>2. receiver'.holds[1] = wire[1]
      BY <2>2, <3>1
    <3>3. QED
      BY <1>4, <3>1, <3>2 DEF AllQuiet
  <2>3. QED
    BY <2>1, <2>2, StoreSteps
<1>7. QED
  BY <1>2, <1>3, <1>5, <1>6 DEF AllQuiet

-------------------------------------------------------------------------------
(* While a read goes on, what it has still to start and what it has asked  *)
(* to be started never gets more.                                          *)
LEMMA LeftSteps ==
  ASSUME TypesInv, HandshakeInv, Others, InRead, InRead', ReadStill \/ ReadAsks \/ ReadAdvances
  PROVE  Started' + Left' <= Started + Left
<1> DEFINE s == caller.script
           A == {"startRO"}
<1>0. /\ caller \in Callers /\ history \in Histories /\ roSpecId \in Nat
      /\ s \in Seq(Steps) /\ requests \in Seq(Commanded) /\ wire \in Seq(Message)
      /\ caller.at # "ready" => s # <<>> /\ Head(s) \in Commands
  BY DEF TypesInv, CallerTypes, DataTypes, SocketTypes, Callers
<1>1. /\ Started \in Nat /\ Left \in Nat /\ Count(s, A) \in Nat
      /\ s # <<>> => /\ Count(s, A) = Count(Tail(s), A) + (IF Head(s) \in A THEN 1 ELSE 0)
                     /\ Count(Tail(s), A) \in Nat
  BY <1>0, CountTypes, CountTail, CountPart, LenProperties
<1>2. Requesting
  BY OthersOutside DEF Outside
<1>3. ASSUME ~(Sends /\ Asking) PROVE Started' = Started
  <2>1. CASE requests' = requests
    BY <2>1 DEF Started
  <2>2. ASSUME NEW q \in Commanded, q.command \notin {"addRO", "startRO"},
               requests' = Append(requests, q)
        PROVE  Started' = Started
    <3>1. q \notin TimedStarts
      BY <2>2 DEF TimedStarts
    <3>2. Count(Append(requests, q), TimedStarts) = Count(requests, TimedStarts)
      BY <1>0, <3>1, CountAppend
    <3>3. QED
      BY <2>2, <3>2 DEF Started
  <2>3. QED
    BY <1>2, <1>3, <2>1, <2>2 DEF Requesting
<1> HIDE DEF s, A
<1>4. Left = IF caller.at = "waiting" THEN Count(Tail(s), A) ELSE Count(s, A)
  BY DEF Left, s, A
<1>5. CASE ReadStill
  <2>1. ~Asking
    BY <1>0, <1>5 DEF ReadStill, Asking, Callers
  <2>2. Left' = Left
    BY <1>5 DEF ReadStill, Left
  <2>3. QED
    BY <1>1, <1>3, <2>1, <2>2
<1>6. CASE ReadAsks
  <2>1. Left = Count(s, A) /\ Left' = Count(Tail(s), A) /\ s # <<>>
    <3>1. Left' = Count(Tail(s), A)
      BY <1>6 DEF ReadAsks, Left, s, A
    <3>2. QED
      BY <1>0, <1>4, <1>6, <3>1 DEF ReadAsks, Sends
  <2>2. CASE Asking
    <3> DEFINE q == Request(Head(s), roSpecId')
    <3>1. Head(s) \in Commands /\ roSpecId' \in Nat
      BY <1>0, <1>6, <2>1, <2>2 DEF Asking, GivenId
    <3>2. q \in Commanded /\ requests' = Append(requests, q)
      BY <1>0, <2>2, <3>1, RequestType DEF Asking, s
    <3>3. q.command = Head(s)
      BY DEF Request
    <3> HIDE DEF q
    <3>4. q \in TimedStarts => Head(s) \in A
      BY <3>3 DEF TimedStarts, A
    <3>5. Started' = Started + (IF q \in TimedStarts THEN 1 ELSE 0)
      BY <1>0, <3>2, CountAppend DEF Started
    <3>6. QED
      BY <1>1, <2>1, <3>4, <3>5
  <2>3. CASE ~Asking
    BY <1>1, <1>3, <2>1, <2>3
  <2>4. QED
    BY <2>2, <2>3
<1>7. CASE ReadAdvances
  <2>1. caller'.at = "ready" /\ caller'.script = Tail(s) /\ s # <<>>
    BY <1>7 DEF ReadAdvances, s
  <2>2. ~Asking
    BY <1>0, <2>1 DEF Asking, Callers
  <2>3. Left' = Count(Tail(s), A)
    BY <2>1 DEF Left, A
  <2>4. Left' <= Left /\ Left' \in Nat
    BY <1>1, <1>4, <2>1, <2>3
  <2>5. QED
    BY <1>1, <1>3, <2>2, <2>4
<1>8. QED
  BY <1>5, <1>6, <1>7

(* What a script has is its first step or in the rest.                     *)
LEMMA TailHas ==
  ASSUME NEW E, NEW s \in Seq(E), s # <<>>, NEW A
  PROVE  Has(s, A) <=> Head(s) \in A \/ Has(Tail(s), A)
<1>1. /\ Len(s) \in Nat \ {0} /\ DOMAIN s = 1..Len(s) /\ Head(s) = s[1]
      /\ DOMAIN Tail(s) = 1..(Len(s) - 1) /\ \A i \in 1..(Len(s) - 1) : Tail(s)[i] = s[i + 1]
  BY Shortened
<1>2. ASSUME NEW i \in DOMAIN s, s[i] \in A PROVE Head(s) \in A \/ Has(Tail(s), A)
  <2>1. CASE i = 1
    BY <1>1, <1>2, <2>1
  <2>2. CASE i # 1
    <3>1. i - 1 \in 1..(Len(s) - 1) /\ i - 1 + 1 = i
      BY <1>1, <1>2, <2>2
    <3>2. Tail(s)[i - 1] = s[i]
      BY <1>1, <3>1
    <3>3. QED
      BY <1>1, <1>2, <3>1, <3>2 DEF Has
  <2>3. QED
    BY <2>1, <2>2
<1>3. Head(s) \in A => Has(s, A)
  BY <1>1 DEF Has
<1>4. ASSUME NEW i \in DOMAIN Tail(s), Tail(s)[i] \in A PROVE Has(s, A)
  <2>1. i + 1 \in DOMAIN s /\ s[i + 1] = Tail(s)[i]
    BY <1>1, <1>4
  <2>2. QED
    BY <1>4, <2>1 DEF Has
<1>5. QED
  BY <1>2, <1>3, <1>4 DEF Has

(* A read that has counted its ROSpecs ends well only when they have.      *)
LEMMA FinishQuiet ==
  ASSUME TypesInv, HandshakeInv, ScriptInv, ModeInv, LinkInv, IsFiniteSet(Awake), Enough,
         Counted, ~Counted', Calm', Others
  PROVE  AllQuiet
<1>0. /\ caller.script \in Seq(Steps) /\ InRead /\ events \in Int
      /\ Arriving \in Nat /\ Started \in Nat /\ Left \in Nat /\ Cardinality(Awake) \in Nat
  BY CountTypes, AwakeZero DEF TypesInv, CallerTypes, DataTypes, Callers, Counted
<1>1. ReadStill \/ ReadAsks \/ ReadAdvances
  BY <1>0, ReadSteps DEF Calm
<1>2. ~ReadStill /\ ~ReadAsks
  BY DEF ReadStill, ReadAsks, Counted
<1>3. ReadAdvances
  BY <1>1, <1>2
<1>4. /\ caller.script # <<>> /\ Head(caller.script) \notin CountSteps
      /\ Tail(caller.script) = <<>>
  <2>1. caller.script # <<>> /\ Head(caller.script) \notin CountSteps
        /\ ~Has(Tail(caller.script), CountSteps)
    BY <1>0, <1>3, TailHas DEF ReadAdvances, Counted
  <2>2. QED
    BY <1>3, <2>1 DEF ReadAdvances, Counted
<1>5. CASE Head(caller.script) = "await"
  <2>1. events <= 0 /\ events # -1
    BY <1>3, <1>5 DEF ReadAdvances, Commands, CountSteps
  <2>2. Dead \/ events = 0
    BY <1>0, <2>1 DEF Enough
  <2>3. QED
    BY <2>1, <2>2, Settled
<1>6. CASE Head(caller.script) # "await"
  <2>1. ~Has(Tail(caller.script), {"await"})
    BY <1>4 DEF Has
  <2>2. ~Has(caller.script, {"await"})
    BY <1>0, <1>4, <1>6, <2>1, TailHas
  <2>3. events = 0 \/ (Dead /\ events <= 0)
    BY <2>2 DEF Enough
  <2>4. QED
    BY <1>0, <2>3, Settled
<1>7. QED
  BY <1>5, <1>6

(* It has counted them once the number is set.                             *)
LEMMA CountsBegin ==
  ASSUME TypesInv, HandshakeInv, ScriptInv, ModeInv, Calm', Others, ~Counted, Counted'
  PROVE  /\ InRead /\ Counts /\ caller.script # <<>> /\ Head(caller.script) \in CountSteps
         /\ caller.at # "waiting" /\ caller'.at = "ready" /\ caller'.script = Tail(caller.script)
<1>0. caller \in Callers /\ caller.script \in Seq(Steps)
  BY DEF TypesInv, CallerTypes, Callers
<1>1. InRead
  <2>1. CASE Commanding
    <3>1. PICK h : Stays(h) \/ Finishes(TRUE, h) \/ Finishes(FALSE, h)
      BY <2>1, CommandOutcome DEF Commanding
    <3>2. QED
      BY <3>1 DEF Stays, Finishes, Counted, InRead
  <2>2. CASE Read
    <3>1. PICK plan \in Plans : Begin("read", plan, ReadScript(plan))
      BY <2>2 DEF Read
    <3>2. caller'.script = ReadScript(plan)
      BY <1>0, <3>1 DEF Begin, Callers
    <3>3. Has(ReadScript(plan), CountSteps)
      <4>1. plan = "simple" \/ plan = "tagop" \/ plan = "multi"
        BY LlrpAssumption
      <4>2. 5 \in DOMAIN ReadScript(plan) /\ ReadScript(plan)[5] = "count1"
        BY <4>1 DEF ReadScript, PlanScript, Simple
      <4>3. QED
        BY <4>2 DEF Has, CountSteps
    <3>4. QED
      BY <3>2, <3>3 DEF Counted
  <2>3. CASE ReceiverStep \/ StreamStep
    BY <2>3 DEF ReceiverStep, ReceiverGoes, ReceiverTakes, ReceiverStores, ReceiverIdles,
                ReceiverFails, StreamStep, StreamAsks, StreamTakes, StreamTimesOut, Counted, InRead
  <2>4. CASE StartsReading \/ StopsReading \/ Joins \/ (UserStep /\ ~Read)
    BY <1>0, <2>4 DEF StartsReading, StopsReading, Joins, UserStep, Connect, ExecuteTagOp,
                      AskParameter, TakesTag, EndsWalk, StartReading, StopReading, Destroy, Begin,
                      Callers, Counted, InRead
  <2>5. QED
    BY <2>1, <2>2, <2>3, <2>4 DEF Others, CommandStep, Commanding
<1>2. ReadStill \/ ReadAsks \/ ReadAdvances
  BY <1>1, ReadSteps DEF Calm
<1>3. ReadAdvances
  BY <1>1, <1>2 DEF ReadStill, ReadAsks, Counted
<1>4. caller.script # <<>> /\ caller'.script = Tail(caller.script) /\ caller'.at = "ready"
  BY <1>3 DEF ReadAdvances, Counted
<1>5. Head(caller.script) \in CountSteps
  BY <1>0, <1>1, <1>4, TailHas DEF Counted
<1>6. QED
  BY <1>1, <1>3, <1>4, <1>5 DEF ReadAdvances, CountSteps, Commands

-------------------------------------------------------------------------------
(* The number that is set is that of the ROSpecs the script will start.    *)
LEMMA EnoughBegins ==
  ASSUME TypesInv, HandshakeInv, ScriptInv, ModeInv, AllQuiet, Calm', Others, ~Counted, Counted'
  PROVE  Enough'
<1> DEFINE s == caller.script
<1>1. /\ InRead /\ Counts /\ s # <<>> /\ Head(s) \in CountSteps
      /\ caller.at # "waiting" /\ caller'.at = "ready" /\ caller'.script = Tail(s)
  BY CountsBegin
<1>2. /\ s \in Seq(Steps) /\ InOrder(s)
      /\ Len(s) \in Nat \ {0} /\ DOMAIN s = 1..Len(s) /\ Head(s) = s[1]
      /\ DOMAIN Tail(s) = 1..(Len(s) - 1) /\ \A i \in 1..(Len(s) - 1) : Tail(s)[i] = s[i + 1]
  <2>1. s \in Seq(Steps)
    BY DEF TypesInv, CallerTypes, Callers
  <2>2. QED
    BY <1>1, <2>1, Shortened DEF ScriptInv, InRead
<1> HIDE DEF s
<1>3. \A l \in DOMAIN s : 1 < l => s[l] \notin CountSteps
  <2>1. ASSUME NEW l \in DOMAIN s, 1 < l, s[l] \in CountSteps PROVE FALSE
    <3>1. l - 1 \in DOMAIN Tail(s) /\ l - 1 \in 1..(Len(s) - 1) /\ l - 1 + 1 = l
      BY <1>2, <2>1
    <3>2. Tail(s)[l - 1] \in CountSteps
      BY <1>2, <2>1, <3>1
    <3>3. QED
      BY <1>1, <3>1, <3>2 DEF Counted, Has
  <2>2. QED
    BY <2>1
<1>4. Count(s, {"startRO"}) <= IF Head(s) = "count1" THEN 1 ELSE 2
  <2>1. 1 \in DOMAIN s /\ s[1] \in CountSteps
    BY <1>1, <1>2
  <2>2. QED
    BY <1>2, <1>3, <2>1 DEF InOrder
<1>5. /\ Count(s, {"startRO"}) = Count(Tail(s), {"startRO"}) + 0
      /\ Count(Tail(s), {"startRO"}) \in Nat
  <2>1. Head(s) \notin {"startRO"}
    BY <1>1 DEF CountSteps
  <2>2. QED
    BY <1>1, <1>2, <2>1, CountTail
<1>6. Left' = Count(Tail(s), {"startRO"})
  BY <1>1 DEF Left
<1>7. events' = IF Head(s) = "count1" THEN 1 ELSE 2
  BY <1>1 DEF Counts, s
<1>8. AllQuiet'
  BY <1>1, QuietStays DEF Counts
<1>9. Cardinality(Awake)' = 0
  BY <1>8, FS_EmptySet DEF AllQuiet
<1>10. Arriving' + Cardinality(Awake)' + Started' + Left' <= events'
  BY <1>4, <1>5, <1>6, <1>7, <1>8, <1>9 DEF AllQuiet
<1>11. Has(Tail(s), {"await"})
  <2>1. ASSUME ~Has(Tail(s), {"await"}) PROVE FALSE
    <3>1. ~Has(s, {"await"})
      BY <1>1, <1>2, <2>1, TailHas DEF CountSteps
    <3>2. 1 \in DOMAIN s
      BY <1>2
    <3>3. s[1] = "notifyOff"
      BY <1>2, <3>1, <3>2 DEF Has, InOrder
    <3>4. QED
      BY <1>1, <1>2, <3>3 DEF CountSteps
  <2>2. QED
    BY <2>1
<1>12. Has(caller'.script, {"await"})
  BY <1>1, <1>11
<1>13. QED
  BY <1>8, <1>10, <1>12 DEF Enough, AllQuiet

-------------------------------------------------------------------------------
(* While it waits for an answer the receiver does not store.               *)
LEMMA TakersFree ==
  ASSUME TypesInv, HandshakeInv, ModeInv, InRead, Others, wire' # wire
  PROVE  /\ receiver.at # "store"
         /\ ReceiverTakes \/ CommandTakes
<1>1. ReceiverTakes \/ CommandTakes \/ StreamTakes
  BY DEF Others, ReceiverStep, CommandStep, StreamStep, UserStep, ReceiverGoes, ReceiverTakes,
         ReceiverStores, ReceiverIdles, ReceiverFails, SendsOnly, Counts, Quiets, Sends,
         CommandTakes, CommandTimesOut, Awaits, AwaitsReport, StartsReading, StopsReading,
         Joins, StreamAsks, StreamTakes, StreamTimesOut, Connect, Read, ExecuteTagOp,
         AskParameter, TakesTag, EndsWalk, StartReading, StopReading, Destroy
<1>2. ~StreamTakes
  BY DEF StreamTakes, ModeInv, InRead, continuousReading
<1>3. CommandTakes => receiver.at # "store"
  <2>1. CommandTakes => caller.at = "waiting"
    BY DEF CommandTakes
  <2>2. caller.at = "waiting" => receiver.at # "store"
    BY DEF HandshakeInv, ThreadInv, CommandInv, StreamInv, FieldsInv, ModeInv, InRead
  <2>3. QED
    BY <2>1, <2>2
<1>4. ReceiverTakes => receiver.at # "store"
  BY DEF ReceiverTakes
<1>5. QED
  BY <1>1, <1>2, <1>3, <1>4

(* A queue without its first entry is another queue.                       *)
LEMMA TailOther ==
  ASSUME NEW E, NEW w \in Seq(E), w # <<>>
  PROVE  Tail(w) # w
<1>1. Len(w) \in Nat \ {0} /\ Len(Tail(w)) = Len(w) - 1
  BY Shortened
<1>2. ASSUME Tail(w) = w PROVE FALSE
  <2>1. Len(Tail(w)) = Len(w)
    BY <1>2
  <2>2. QED
    BY <1>1, <2>1
<1>3. QED
  BY <1>2

(* While a read goes on, what it counts covers what is still to come.      *)
LEMMA EnoughStays ==
  ASSUME TypesInv, HandshakeInv, ScriptInv, ModeInv, LinkInv, IsFiniteSet(Awake), Enough,
         Counted, Counted', Calm', Others
  PROVE  Enough'
<1> DEFINE E == EventMessages
<1>0. /\ caller.script \in Seq(Steps) /\ InRead /\ InRead' /\ events \in Int /\ ~continuousReading
      /\ Arriving \in Nat /\ Started \in Nat /\ Left \in Nat /\ Cardinality(Awake) \in Nat
      /\ wire \in Seq(Message)
  BY CountTypes, AwakeZero DEF TypesInv, CallerTypes, DataTypes, Callers, Counted, ModeInv, InRead
<1>1. /\ link' = link /\ specs' = specs /\ history'.loose = history.loose
      /\ wire' = wire \/ (wire # <<>> /\ wire' = Tail(wire))
  BY <1>0, OthersOutside DEF Outside, Begins, InRead
<1>2. Awake' = Awake /\ Cardinality(Awake)' = Cardinality(Awake)
  BY <1>1 DEF Awake
<1>3. ReadStill \/ ReadAsks \/ ReadAdvances
  BY <1>0, ReadSteps DEF Calm
<1>4. Started' + Left' <= Started + Left /\ Started' \in Nat /\ Left' \in Nat /\ Arriving' \in Nat
  <2>1. TypesInv'
    BY TypesKept DEF LlrpNext, Others
  <2>2. Started' \in Nat /\ Arriving' \in Nat
    <3>1. Len(requests') \in Nat /\ Len(wire') \in Nat
      BY <2>1, LenProperties DEF TypesInv, SocketTypes
    <3>2. QED
      BY <3>1, CountPart DEF Started, Arriving
  <2>4. Left' \in Nat
    <3> DEFINE s == IF caller'.at = "waiting" THEN Tail(caller'.script) ELSE caller'.script
    <3>1. s \in Seq(Steps)
      BY <2>1, Shortened DEF TypesInv, CallerTypes, Callers
    <3>2. Len(s) \in Nat
      BY <3>1, LenProperties
    <3> HIDE DEF s
    <3>3. Count(s, {"startRO"}) \in Nat
      BY <3>2, CountPart
    <3>4. QED
      BY <3>3 DEF Left, s
  <2>5. QED
    BY <1>0, <1>3, <2>2, <2>4, LeftSteps
<1>5. ~Counts
  <2>1. Counts => caller.script # <<>> /\ Head(caller.script) \in CountSteps
    BY DEF Counts, FirstIs, CountSteps
  <2>2. QED
    BY <1>0, <2>1, TailHas DEF Counted
<1>6. \/ ~Has(caller.script, {"await"}) => ~Has(caller'.script, {"await"})
      \/ Has(caller'.script, {"await"})
  OBVIOUS
<1>7. ~Has(caller'.script, {"await"}) =>
        \/ ~Has(caller.script, {"await"})
        \/ Awaits /\ events <= 0 /\ events # -1 /\ wire' = wire /\ events' = events
  <2>1. ASSUME ~Has(caller'.script, {"await"}), Has(caller.script, {"await"})
        PROVE  Awaits /\ events <= 0 /\ events # -1 /\ wire' = wire /\ events' = events
    <3>1. ReadAdvances /\ caller.script # <<>> /\ caller'.script = Tail(caller.script)
      BY <1>0, <1>3, <2>1 DEF ReadStill, ReadAsks, ReadAdvances
    <3>2. Head(caller.script) = "await"
      BY <1>0, <2>1, <3>1, TailHas
    <3>3. Awaits /\ events <= 0 /\ events # -1
      BY <1>5, <3>1, <3>2 DEF ReadAdvances, Commands
    <3>4. QED
      BY <3>3 DEF Awaits
  <2>2. QED
    BY <2>1
<1>8. CASE Taking
  <2> DEFINE m == Head(wire)
  <2>1. /\ wire # <<>> /\ wire' = Tail(wire) /\ m = wire[1] /\ m \in Message /\ wire' # wire
        /\ Len(wire) \in Nat \ {0} /\ DOMAIN wire = 1..Len(wire)
             /\ DOMAIN wire' = 1..(Len(wire) - 1)
        /\ \A i \in 1..(Len(wire) - 1) : wire'[i] = wire[i + 1]
    BY <1>0, <1>8, Shortened, TailOther DEF Taking
  <2>2. /\ \A i \in 1..Len(wire) : Before(wire, E, i + 1) = Before(wire', E, i)
                   + (IF m \in E THEN 1 ELSE 0)
        /\ Arriving = Arriving' + (IF m \in E THEN 1 ELSE 0)
    <3>1. /\ \A i \in 1..Len(wire) : Before(wire, E, i + 1) = Before(Tail(wire), E, i)
                                                              + (IF Head(wire) \in E THEN 1 ELSE 0)
          /\ Count(wire, E) = Count(Tail(wire), E) + (IF Head(wire) \in E THEN 1 ELSE 0)
      BY <1>0, <2>1, CountTail
    <3>2. Tail(wire) = wire'
      BY <2>1
    <3>3. QED
      BY <3>1, <3>2 DEF Arriving
  <2>3. events' = events - (IF m \in E THEN 1 ELSE 0)
    <3>1. events' = IF m.kind = "event" THEN events - 1 ELSE events
      BY <1>0, <1>8 DEF Taking, EventsAfter
    <3>2. m.kind = "event" <=> m \in E
      BY <2>1 DEF EventMessages
    <3>3. CASE m \in E
      BY <3>1, <3>2, <3>3
    <3>4. CASE m \notin E
      BY <1>0, <3>1, <3>2, <3>4
    <3>5. QED
      BY <3>3, <3>4
  <2> HIDE DEF E, m
  <2>4. ~Dead
    BY <2>1 DEF Dead
  <2>5. Arriving' + Cardinality(Awake)' + Started' + Left' <= events'
    <3> DEFINE a == Arriving
               a2 == Arriving'
               k == Cardinality(Awake)
               s == Started
               s2 == Started'
               l == Left
               l2 == Left'
               e == events
               e2 == events'
               d == IF m \in E THEN 1 ELSE 0
    <3>1. /\ a \in Nat /\ a2 \in Nat /\ k \in Nat /\ s \in Nat /\ s2 \in Nat /\ l \in Nat
          /\ l2 \in Nat /\ e \in Int /\ d \in {0, 1} /\ s2 + l2 <= s + l
      BY <1>0, <1>4
    <3>2. a = a2 + d /\ e2 = e - d
      BY <2>2, <2>3
    <3>3. a + k + s + l <= e
      BY <2>4 DEF Enough
    <3>4. Cardinality(Awake)' = k
      BY <1>2
    <3>5. a2 + k + s2 + l2 <= e2
      <4> HIDE DEF a, a2, k, s, s2, l, l2, e, e2, d
      <4>1. QED
        BY <3>1, <3>2, <3>3
    <3>6. QED
      BY <3>4, <3>5
  <2>6. ASSUME NEW i \in DOMAIN wire', Own(wire'[i], history'.loose)
        PROVE  events' > Before(wire', E, i)
    <3>1. i + 1 \in DOMAIN wire /\ i \in 1..Len(wire) /\ wire'[i] = wire[i + 1] /\ i \in Int
      <4>1. wire # <<>> /\ wire' = Tail(wire)
        BY <2>1
      <4>2. QED
        BY <1>0, <4>1, Shortened
    <3>2. events > Before(wire, E, i + 1)
      BY <1>1, <2>6, <3>1 DEF Enough, E
    <3>3. Before(wire', E, i) \in Nat
      BY <3>1, BeforeType
    <3>4. Before(wire, E, i + 1) = Before(wire', E, i) + (IF m \in E THEN 1 ELSE 0)
      BY <2>2, <3>1
    <3>5. CASE m \in E
      BY <1>0, <2>3, <3>2, <3>3, <3>4, <3>5
    <3>6. CASE m \notin E
      BY <1>0, <2>3, <3>2, <3>3, <3>4, <3>6
    <3>7. QED
      BY <3>5, <3>6
  <2>7. ASSUME receiver'.at = "store", Own(receiver'.holds[1], history'.loose) PROVE events' > 0
    <3>1. receiver.at # "store"
      BY <1>0, <2>1, TakersFree
    <3>2. m.kind = "report" /\ receiver'.holds = <<m>>
      BY <2>7, <3>1, StoreSteps DEF m
    <3>3. Own(wire[1], history.loose) /\ 1 \in DOMAIN wire /\ 1 \in Nat \ {0}
      <4>1. m = wire[1] /\ <<m>>[1] = m /\ 1 \in DOMAIN wire
        <5>1. m = wire[1]
          BY <2>1
        <5>2. 1 \in DOMAIN wire
          <6>1. wire # <<>>
            BY <2>1
          <6>2. DOMAIN wire = 1..Len(wire) /\ Len(wire) \in Nat \ {0}
            BY <1>0, <6>1, Shortened
          <6>3. QED
            BY <6>2
        <5>3. <<m>>[1] = m
          OBVIOUS
        <5>4. QED
          BY <5>1, <5>2, <5>3
      <4>2. receiver'.holds[1] = wire[1]
        BY <3>2, <4>1
      <4>3. QED
        BY <1>1, <2>7, <4>1, <4>2
    <3>4. events > Before(wire, E, 1)
      BY <3>3 DEF Enough, E
    <3>5. Before(wire, E, 1) = 0
      BY <3>3, BeforeNext
    <3>6. m \notin E
      BY <3>2 DEF E, EventMessages
    <3>7. QED
      BY <1>0, <2>3, <3>4, <3>5, <3>6
  <2>8. ASSUME ~Has(caller'.script, {"await"}) PROVE events' = 0
    <3>1. ~Has(caller.script, {"await"})
      BY <1>7, <2>1, <2>8
    <3>2. events = 0 /\ Arriving + Cardinality(Awake) + Started + Left <= 0
      BY <2>4, <3>1 DEF Enough
    <3>3. Arriving = 0
      BY <1>0, <3>2
    <3>4. m \notin E
      <4> DEFINE a2 == Arriving'
                 d == IF m \in E THEN 1 ELSE 0
      <4>1. a2 \in Nat /\ a2 + d = 0
        BY <1>4, <2>2, <3>3
      <4>2. d # 1
        <5> HIDE DEF a2, d
        <5>1. QED
          BY <4>1
      <4>3. QED
        BY <4>2
    <3>5. (IF m \in E THEN 1 ELSE 0) = 0
      BY <3>4
    <3>6. events' = 0 - 0
      BY <2>3, <3>2, <3>5
    <3>7. QED
      BY <3>6
  <2>9. QED
    BY <2>5, <2>6, <2>7, <2>8 DEF Enough, E
<1>9. ASSUME wire' = wire PROVE receiver'.at = "store" => receiver.at = "store"
             /\ receiver'.holds = receiver.holds
  <2>1. ~ReceiverTakes
    BY <1>0, <1>9, TailOther DEF ReceiverTakes
  <2>2. QED
    BY <2>1, StoreSteps
<1>10. CASE wire' = wire /\ events' = events
  <2>1. Arriving' = Arriving /\ (Dead' <=> Dead)
    BY <1>1, <1>10 DEF Arriving, Dead
  <2>2. Dead' \/ Arriving' + Cardinality(Awake)' + Started' + Left' <= events'
    <3>1. Dead \/ Arriving + Cardinality(Awake) + Started + Left <= events
      BY DEF Enough
    <3>2. CASE Dead
      BY <2>1, <3>2
    <3>3. CASE Arriving + Cardinality(Awake) + Started + Left <= events
      <4> DEFINE a == Arriving
                 k == Cardinality(Awake)
                 s == Started
                 s2 == Started'
                 l == Left
                 l2 == Left'
                 e == events
      <4>1. /\ a \in Nat /\ k \in Nat /\ s \in Nat /\ s2 \in Nat /\ l \in Nat /\ l2 \in Nat
            /\ e \in Int /\ s2 + l2 <= s + l /\ a + k + s + l <= e
        BY <1>0, <1>4, <3>3
      <4>2. Cardinality(Awake)' = k /\ Arriving' = a /\ events' = e
        BY <1>2, <1>10, <2>1
      <4>3. a + k + s2 + l2 <= e
        <5> HIDE DEF a, k, s, s2, l, l2, e
        <5>1. QED
          BY <4>1
      <4>4. QED
        BY <4>2, <4>3
    <3>4. QED
      BY <3>1, <3>2, <3>3
  <2>3. \A i \in DOMAIN wire' : Own(wire'[i], history'.loose) => events' > Before(wire', E, i)
    BY <1>1, <1>10 DEF Enough
  <2>4. receiver'.at = "store" /\ Own(receiver'.holds[1], history'.loose) => events' > 0
    BY <1>1, <1>9, <1>10 DEF Enough
  <2>5. ASSUME ~Has(caller'.script, {"await"}) PROVE events' = 0 \/ (Dead' /\ events' <= 0)
    <3>1. CASE ~Has(caller.script, {"await"})
      BY <1>10, <2>1, <3>1 DEF Enough
    <3>2. CASE events <= 0 /\ events # -1
      <4>1. Dead \/ Arriving + Cardinality(Awake) + Started + Left <= events
        BY DEF Enough
      <4>2. Dead \/ events = 0
        BY <1>0, <3>2, <4>1
      <4>3. QED
        BY <1>10, <2>1, <3>2, <4>2
    <3>3. QED
      BY <1>7, <2>5, <3>1, <3>2
  <2>6. QED
    BY <2>2, <2>3, <2>4, <2>5 DEF Enough
<1>11. CASE wire' = wire /\ Dead /\ ReceiverFails
  <2>1. Dead' /\ DOMAIN wire' = {} /\ caller' = caller /\ events' \in {events, -1}
    <3>1. wire' = <<>> /\ link' = "closed"
      BY <1>1, <1>11 DEF Dead
    <3>2. DOMAIN wire' = {}
      BY <3>1
    <3>3. caller' = caller /\ events' \in {events, -1}
      BY <1>11 DEF ReceiverFails
    <3>4. QED
      BY <3>1, <3>2, <3>3 DEF Dead
  <2>2. receiver'.at # "store"
    <3>1. LoopEnds.at # "store"
      BY DEF LoopEnds, TypesInv, ThreadTypes, Receivers
    <3>2. QED
      BY <1>11, <3>1 DEF ReceiverFails
  <2>3. ~Has(caller'.script, {"await"}) => events' <= 0
    <3>1. ~Has(caller.script, {"await"}) => events <= 0
      BY <1>0 DEF Enough
    <3>2. QED
      BY <1>0, <2>1, <3>1
  <2>4. QED
    BY <2>1, <2>2, <2>3 DEF Enough
<1>12. QED
  BY <1>5, <1>8, <1>10, <1>11, EventSteps

-------------------------------------------------------------------------------
(* What the reader does: an end that arrives was a ROSpec awake, a ROSpec  *)
(* awake was a start asked for.                                            *)
LEMMA WaitReported ==
  ASSUME TypesInv, TypesInv', WaitInv, UNCHANGED <<caller, events, receiver>>, link = "up",
         history'.loose = history.loose, history'.broken = history.broken,
         NEW m \in Message, wire' = wire \/ wire' = Append(wire, m), IsFiniteSet(Awake'),
         Arriving' + Cardinality(Awake') + Started' <= Arriving + Cardinality(Awake) + Started,
         wire' # wire /\ Own(m, history.loose) => Awake # {}
  PROVE  WaitInv'
<1> DEFINE E == EventMessages
           a == Arriving
           a2 == Arriving'
           k == Cardinality(Awake)
           k2 == Cardinality(Awake')
           s == Started
           s2 == Started'
           l == Left
           e == events
<1>1. /\ a \in Nat /\ k \in Nat /\ s \in Nat /\ l \in Nat /\ e \in Int /\ wire \in Seq(Message)
      /\ k = 0 <=> Awake = {}
      /\ k2 = 0 <=> Awake' = {}
  BY CountTypes, FS_CardinalityType, FS_EmptySet DEF WaitInv, TypesInv, DataTypes
<1>2. a2 \in Nat /\ k2 \in Nat /\ s2 \in Nat
  <2>1. Len(requests') \in Nat /\ Len(wire') \in Nat
    BY LenProperties DEF TypesInv, SocketTypes
  <2>2. QED
    BY <2>1, CountPart, FS_CardinalityType DEF Started, Arriving
<1>3. a2 + k2 + s2 <= a + k + s
  OBVIOUS
<1>4. (Calm' <=> Calm) /\ (Counted' <=> Counted) /\ ~Dead /\ Left' = l /\ events' = e
  BY DEF Calm, Counted, InRead, Dead, Left
<1>5. /\ Len(wire) \in Nat /\ DOMAIN wire = 1..Len(wire)
      /\ \A i \in 1..Len(wire) : Before(Append(wire, m), E, i) = Before(wire, E, i)
      /\ Before(Append(wire, m), E, Len(wire) + 1) = a
      /\ DOMAIN Append(wire, m) = 1..(Len(wire) + 1) /\ Append(wire, m)[Len(wire) + 1] = m
      /\ \A i \in 1..Len(wire) : Append(wire, m)[i] = wire[i]
  <2>1. /\ Len(wire) \in Nat /\ DOMAIN wire = 1..Len(wire)
        /\ DOMAIN Append(wire, m) = 1..(Len(wire) + 1) /\ Append(wire, m)[Len(wire) + 1] = m
        /\ \A i \in 1..Len(wire) : Append(wire, m)[i] = wire[i]
    BY <1>1, Lengthened
  <2>2. \A i \in 1..(Len(wire) + 1) : Before(Append(wire, m), E, i) = Before(wire, E, i)
    BY SMTT(30), <1>1, CountAppend
  <2>3. (\A i \in 1..Len(wire) : i \in 1..(Len(wire) + 1)) /\ Len(wire) + 1 \in 1..(Len(wire) + 1)
    BY <2>1
  <2>4. QED
    BY <2>1, <2>2, <2>3 DEF Arriving, Count
<1>9. ASSUME wire' = Append(wire, m), NEW i \in DOMAIN wire'
      PROVE  \/ i \in DOMAIN wire /\ wire'[i] = wire[i] /\ Before(wire', E, i) = Before(wire, E, i)
             \/ wire'[i] = m /\ Before(wire', E, i) = a
  <2>1. i \in 1..(Len(wire) + 1)
    BY <1>5, <1>9
  <2>2. i \in 1..Len(wire) \/ i = Len(wire) + 1
    BY <1>5, <2>1
  <2>3. CASE i \in 1..Len(wire)
    BY <1>5, <1>9, <2>3
  <2>4. CASE i = Len(wire) + 1
    BY <1>5, <1>9, <2>4
  <2>5. QED
    BY <2>2, <2>3, <2>4
<1>6. ASSUME Calm, ~Counted PROVE AllQuiet'
  <2>1. AllQuiet
    BY <1>6 DEF WaitInv
  <2>2. a = 0 /\ k = 0 /\ s = 0
    BY <1>1, <2>1 DEF AllQuiet
  <2>3. a2 = 0 /\ k2 = 0 /\ s2 = 0
    <3> HIDE DEF a, a2, k, k2, s, s2
    <3>1. QED
      BY <1>1, <1>2, <1>3, <2>2
  <2>4. \A i \in DOMAIN wire' : ~Own(wire'[i], history'.loose)
    <3>1. CASE wire' = wire
      BY <2>1, <3>1 DEF AllQuiet
    <3>2. CASE wire' # wire
      <4>1. wire' = Append(wire, m) /\ ~Own(m, history.loose)
        BY <2>1, <3>2 DEF AllQuiet
      <4>2. \A i \in DOMAIN wire' : wire'[i] = m \/ (i \in DOMAIN wire /\ wire'[i] = wire[i])
        BY <1>9, <4>1
      <4>3. QED
        BY <2>1, <4>1, <4>2 DEF AllQuiet
    <3>3. QED
      BY <3>1, <3>2
  <2>5. QED
    BY <1>1, <2>1, <2>3, <2>4 DEF AllQuiet
<1>7. ASSUME Calm, Counted PROVE Enough'
  <2>1. Enough
    BY <1>7 DEF WaitInv
  <2>2. a + k + s + l <= e
    BY <1>4, <2>1 DEF Enough
  <2>3. a2 + k2 + s2 + l <= e
    <3> HIDE DEF a, a2, k, k2, s, s2, l, e
    <3>1. QED
      BY <1>1, <1>2, <1>3, <2>2
  <2>4. k # 0 => e > a
    <3> HIDE DEF a, k, s, l, e
    <3>1. QED
      BY <1>1, <2>2
  <2>5. \A i \in DOMAIN wire' : Own(wire'[i], history'.loose) => events' > Before(wire', E, i)
    <3>1. CASE wire' = wire
      BY <2>1, <3>1 DEF Enough
    <3>2. CASE wire' # wire
      <4>1. wire' = Append(wire, m) /\ (Own(m, history.loose) => e > a)
        BY <1>1, <2>4, <3>2
      <4>2. ASSUME NEW i \in DOMAIN wire'
            PROVE  \/ i \in DOMAIN wire /\ wire'[i] = wire[i]
                        /\ Before(wire', E, i) = Before(wire, E, i)
                   \/ wire'[i] = m /\ Before(wire', E, i) = a
        BY <1>9, <4>1, <4>2
      <4>3. ASSUME NEW i \in DOMAIN wire', Own(wire'[i], history'.loose)
            PROVE  events' > Before(wire', E, i)
        <5>1. CASE i \in DOMAIN wire /\ wire'[i] = wire[i]
                   /\ Before(wire', E, i) = Before(wire, E, i)
          BY <2>1, <4>3, <5>1 DEF Enough
        <5>2. CASE wire'[i] = m /\ Before(wire', E, i) = a
          BY <1>4, <4>1, <4>3, <5>2
        <5>3. QED
          BY <4>2, <5>1, <5>2
      <4>4. QED
        BY <4>3
    <3>3. QED
      BY <3>1, <3>2
  <2>6. ~Has(caller.script, {"await"}) => events = 0
    BY <1>4, <2>1 DEF Enough
  <2>7. Arriving' + Cardinality(Awake)' + Started' + Left' <= events'
    BY <1>4, <2>3
  <2>8. QED
    BY <2>1, <2>5, <2>6, <2>7 DEF Enough
<1>8. QED
  BY <1>4, <1>6, <1>7 DEF WaitInv

(* A sum of which one part is less, and the others as they were.           *)
LEMMA Fewer ==
  ASSUME NEW a \in Nat, NEW k \in Nat, NEW k2 \in Nat, NEW s \in Nat, k2 <= k
  PROVE  a + k2 + s <= a + k + s
OBVIOUS

(* An element more makes a set larger by one at most.                      *)
LEMMA OneAdded ==
  ASSUME NEW S, NEW x, IsFiniteSet(S)
  PROVE  /\ IsFiniteSet(S \cup {x}) /\ Cardinality(S \cup {x}) \in Nat
         /\ Cardinality(S \cup {x}) <= Cardinality(S) + 1
<1>1. Cardinality(S) \in Nat /\ IsFiniteSet(S \cup {x})
  BY FS_AddElement, FS_CardinalityType
<1>2. Cardinality(S \cup {x}) = IF x \in S THEN Cardinality(S) ELSE Cardinality(S) + 1
  BY FS_AddElement
<1>3. QED
  BY <1>1, <1>2

(* Every step keeps the count of a read and what it waits for in step.     *)
LEMMA WaitKept ==
  ASSUME TypesInv, TypesInv', HandshakeInv, ScriptInv, ModeInv, LinkInv, RoundsInv, PlantInv,
         WaitInv, LlrpNext
  PROVE  WaitInv'
<1>0. /\ requests \in Seq(Commanded) /\ wire \in Seq(Message) /\ specs \subseteq ROSpecs
      /\ IsFiniteSet(Awake) /\ Cardinality(Awake) \in Nat /\ Arriving \in Nat /\ Started \in Nat
  BY CountTypes, AwakeZero DEF TypesInv, SocketTypes, WaitInv
<1>1. ASSUME NEW m \in Message, m \notin EventMessages
      PROVE  (wire' = wire \/ wire' = Append(wire, m)) => Arriving' = Arriving
  <2>1. Count(Append(wire, m), EventMessages) = Count(wire, EventMessages) + 0
        /\ Count(wire, EventMessages) \in Nat
    BY <1>0, <1>1, CountAppend
  <2>2. CASE wire' = wire
    BY <2>2 DEF Arriving
  <2>3. CASE wire' = Append(wire, m)
    BY <2>1, <2>3 DEF Arriving
  <2>4. QED
    BY <2>2, <2>3
<1>2. CASE ModuleHandles
  <2> DEFINE q == Head(requests)
  <2>1. /\ link = "up" /\ requests # <<>> /\ requests' = Tail(requests) /\ q \in Commanded
        /\ history'.loose = history.loose /\ history'.broken = history.broken
        /\ UNCHANGED <<receiver, caller, events>>
        /\ \/ CarriedOut(q) /\ wire' = Append(wire, Answer(q.command, TRUE))
           \/ specs' = specs /\ wire' = Append(wire, Answer(q.command, FALSE))
           \/ specs' = specs /\ wire' = wire
    BY <1>2, Handled
  <2>2. PICK m \in Message : /\ m.kind = "answer"
                             /\ wire' = wire \/ wire' = Append(wire, m)
    <3>1. CASE q.command \notin {"enableEvents", "getReport"}
      <4>1. q.command \in Commands \cup {"stopRO"}
        BY <2>1, <3>1 DEF Commanded
      <4>2. \A ok \in BOOLEAN : Answer(q.command, ok) \in Message
        BY <4>1, MessageTypes
      <4>3. \A ok \in BOOLEAN : Answer(q.command, ok).kind = "answer"
        BY DEF Answer
      <4>4. QED
        BY <2>1, <4>2, <4>3
    <3>2. CASE q.command \in {"enableEvents", "getReport"}
      <4>1. wire' = wire
        BY <1>2, <3>2 DEF ModuleHandles
      <4>2. Answer("getROSpecs", TRUE) \in Message /\ Answer("getROSpecs", TRUE).kind = "answer"
        BY MessageTypes DEF Answer, Commands
      <4>3. QED
        BY <4>1, <4>2
    <3>3. QED
      BY <3>1, <3>2
  <2>3. Arriving' = Arriving /\ ~Own(m, history.loose)
    BY <1>1, <2>2 DEF EventMessages, Own
  <2>4. Started = Started' + (IF q \in TimedStarts THEN 1 ELSE 0) /\ Started' \in Nat
    BY <1>0, <2>1, CountTail DEF Started
  <2>5. IsFiniteSet(Awake') /\ Cardinality(Awake') + Started' <= Cardinality(Awake) + Started
    <3>1. ASSUME NEW i \in Awake' PROVE i \in Awake \/ (q \in TimedStarts /\ i = q.id)
      <4>1. PICK t \in specs' : t.id = i /\ t.timed /\ t.state = "active"
        BY <3>1 DEF Awake
      <4>2. CASE specs' = specs
        BY <3>1, <4>2 DEF Awake
      <4>3. CASE CarriedOut(q)
        <5>1. ~Added(q, t)
          BY <4>1 DEF Added
        <5>2. PICK s \in specs : Kept(q, s, t)
          BY <1>0, <4>3, <5>1, Origin
        <5>3. s.id = i /\ s.timed /\ i \in Nat
          BY <1>0, <4>1, <5>2 DEF Kept, Same, ROSpecs
        <5>4. ~s.periodic
          BY <5>3 DEF RoundsInv, Rounded
        <5>5. CASE s.state = "active"
          BY <5>3, <5>5 DEF Awake
        <5>6. CASE s.id = q.id /\ q.command = "startRO"
          <6>1. 1 \in DOMAIN requests /\ requests[1] = q
            <7>1. DOMAIN requests = 1..Len(requests) /\ Len(requests) \in Nat \ {0}
                  /\ requests[1] = q
              BY <1>0, <2>1, Shortened
            <7>2. QED
              BY <7>1
          <6>2. Ready(specs, requests, q.id, q.round, 1)
            BY <5>6, <6>1 DEF PlantInv
          <6>3. s.round = q.round
            <7>1. ASSUME NEW j \in 1..1 PROVE ~Adds(requests[j], q.id)
              BY <5>6, <6>1, <7>1 DEF Adds
            <7>2. QED
              BY <5>6, <6>2, <7>1 DEF Ready
          <6>4. Rounded(s) /\ Rounded(q)
            BY <5>6, <6>1 DEF RoundsInv, Planned
          <6>5. q.timed
            BY <5>3, <6>3, <6>4 DEF Rounded
          <6>6. QED
            BY <2>1, <5>3, <5>6, <6>5 DEF TimedStarts
        <5>7. QED
          BY <4>1, <5>2, <5>4, <5>5, <5>6 DEF Kept
      <4>4. QED
        BY <2>1, <4>2, <4>3
    <3>2. CASE q \in TimedStarts
      <4>1. /\ IsFiniteSet(Awake \cup {q.id}) /\ Cardinality(Awake \cup {q.id}) \in Nat
            /\ Cardinality(Awake \cup {q.id}) <= Cardinality(Awake) + 1
        BY <1>0, OneAdded
      <4>2. Awake' \in SUBSET (Awake \cup {q.id})
        BY <3>1
      <4>3. IsFiniteSet(Awake') /\ Cardinality(Awake') <= Cardinality(Awake \cup {q.id})
        BY <4>1, <4>2, FS_Subset
      <4> DEFINE k == Cardinality(Awake)
                 k1 == Cardinality(Awake \cup {q.id})
                 k2 == Cardinality(Awake')
                 s == Started
                 s2 == Started'
      <4>4. k \in Nat /\ k1 \in Nat /\ k2 \in Nat /\ s2 \in Nat /\ k1 <= k + 1 /\ k2 <= k1
            /\ s = s2 + 1
        BY <1>0, <2>4, <3>2, <4>1, <4>3, FS_CardinalityType
      <4>5. k2 + s2 <= k + s
        <5> HIDE DEF k, k1, k2, s, s2
        <5>1. QED
          BY <4>4
      <4>6. QED
        BY <4>3, <4>5
    <3>3. CASE q \notin TimedStarts
      <4>1. Awake' \in SUBSET Awake
        BY <3>1, <3>3
      <4>2. IsFiniteSet(Awake') /\ Cardinality(Awake') <= Cardinality(Awake)
        BY <1>0, <4>1, FS_Subset
      <4> DEFINE k == Cardinality(Awake)
                 k2 == Cardinality(Awake')
                 s == Started
                 s2 == Started'
      <4>3. k \in Nat /\ k2 \in Nat /\ s2 \in Nat /\ k2 <= k /\ s = s2 + 0
        BY <1>0, <2>4, <3>3, <4>2, FS_CardinalityType
      <4>4. k2 + s2 <= k + s
        <5> HIDE DEF k, k2, s, s2
        <5>1. QED
          BY <4>3
      <4>5. QED
        BY <4>2, <4>4
    <3>4. QED
      BY <3>2, <3>3
  <2>6. Arriving' + Cardinality(Awake') + Started' <= Arriving + Cardinality(Awake) + Started
    <3> DEFINE a == Arriving
               k == Cardinality(Awake)
               k2 == Cardinality(Awake')
               s == Started
               s2 == Started'
    <3>1. a \in Nat /\ k \in Nat /\ k2 \in Nat /\ s2 \in Nat /\ s \in Nat /\ k2 + s2 <= k + s
      BY <1>0, <2>4, <2>5, FS_CardinalityType
    <3>2. a + k2 + s2 <= a + k + s
      <4> HIDE DEF a, k, k2, s, s2
      <4>1. QED
        BY <3>1
    <3>3. QED
      BY <2>3, <3>2
  <2>7. QED
    BY <2>1, <2>2, <2>3, <2>5, <2>6, WaitReported
<1>3. CASE ModuleReports
  <2>1. PICK s \in specs, n \in Nat :
          /\ s.state = "active" /\ s.left > 0 /\ wire' = Append(wire, Report(s.round, n))
          /\ specs' = (specs \ {s}) \cup {[s EXCEPT !.left = @ - 1]}
          /\ Same(s, [s EXCEPT !.left = @ - 1]) /\ [s EXCEPT !.left = @ - 1].state = s.state
          /\ link = "up" /\ history'.loose = history.loose /\ history'.broken = history.broken
          /\ UNCHANGED <<requests, receiver, caller, events>>
    BY <1>3, Reported
  <2> DEFINE m == Report(s.round, n)
  <2>2. s.id \in Nat /\ s.round \in Nat
    BY <1>0 DEF ROSpecs
  <2>3. m \in Message /\ m.kind = "report" /\ m.round = s.round
    BY <2>2, MessageTypes DEF Report
  <2>4. wire' = Append(wire, m)
    BY <2>1
  <2>5. Own(m, history.loose) => Awake # {}
    <3>1. ASSUME s.round \notin history.loose PROVE s.id \in Awake
      BY <2>1, <2>2, <3>1 DEF RoundsInv, Rounded, Awake
    <3>2. QED
      BY <2>3, <3>1 DEF Own
  <2> HIDE DEF m
  <2>6. Arriving' = Arriving
    BY <1>1, <2>3, <2>4 DEF EventMessages
  <2>7. Awake' \in SUBSET Awake
    BY <2>1 DEF Awake, Same
  <2>8. IsFiniteSet(Awake') /\ Cardinality(Awake') <= Cardinality(Awake)
    BY <1>0, <2>7, FS_Subset
  <2>9. Started' = Started
    BY <2>1 DEF Started
  <2>10. Arriving' + Cardinality(Awake') + Started' <= Arriving + Cardinality(Awake) + Started
    BY <1>0, <2>6, <2>8, <2>9, Fewer, FS_CardinalityType
  <2>11. QED
    BY <2>1, <2>3, <2>4, <2>5, <2>8, <2>10, WaitReported
<1>4. CASE ModuleEnds
  <2>1. /\ link = "up" /\ UNCHANGED <<requests, receiver, caller, events, history>>
        /\ wire' = wire \/ wire' = Append(wire, EndOfROSpec)
    BY <1>4, EndReported
  <2>2. PICK s \in specs :
          /\ s.state = "active" /\ s.timed
          /\ \A t \in specs' :
               \E r \in specs : /\ Same(r, t) /\ t.state \in {r.state, "inactive"}
                                /\ r.id = s.id => t.state = "inactive"
    BY <1>4, EndReported
  <2>3. s.id \in Awake
    BY <1>0, <2>2 DEF ROSpecs, Awake
  <2>4. Awake' \in SUBSET (Awake \ {s.id})
    BY <2>2 DEF Awake, Same
  <2>5. /\ IsFiniteSet(Awake \ {s.id}) /\ Cardinality(Awake \ {s.id}) = Cardinality(Awake) - 1
    BY <1>0, <2>3, FS_RemoveElement
  <2>6. IsFiniteSet(Awake') /\ Cardinality(Awake') <= Cardinality(Awake \ {s.id})
    BY <2>4, <2>5, FS_Subset
  <2>7. EndOfROSpec \in Message /\ EndOfROSpec.kind = "event"
    BY MessageTypes DEF EndOfROSpec
  <2>8. Arriving' \in Nat /\ Arriving' <= Arriving + 1
    <3>1. CASE wire' = wire
      BY <1>0, <3>1 DEF Arriving
    <3>2. CASE wire' = Append(wire, EndOfROSpec)
      <4>1. Count(Append(wire, EndOfROSpec), EventMessages) = Count(wire, EventMessages) + 1
        BY <1>0, <2>7, CountAppend DEF EventMessages
      <4>2. QED
        BY <1>0, <3>2, <4>1 DEF Arriving
    <3>3. QED
      BY <2>1, <3>1, <3>2
  <2>9. Started' = Started
    BY <2>1 DEF Started
  <2>10. Arriving' + Cardinality(Awake') + Started' <= Arriving + Cardinality(Awake) + Started
    <3> DEFINE a == Arriving
               a2 == Arriving'
               k == Cardinality(Awake)
               k2 == Cardinality(Awake')
               s0 == Started
    <3>1. a \in Nat /\ a2 \in Nat /\ k \in Nat /\ k2 \in Nat /\ s0 \in Nat /\ a2 <= a + 1
          /\ k2 <= k - 1
      BY <1>0, <2>5, <2>6, <2>8, FS_CardinalityType
    <3>2. a2 + k2 + s0 <= a + k + s0
      <4> HIDE DEF a, a2, k, k2, s0
      <4>1. QED
        BY <3>1
    <3>3. QED
      BY <2>9, <3>2
  <2>11. ~Own(EndOfROSpec, history.loose)
    BY <2>7 DEF Own
  <2>12. QED
    BY <2>1, <2>6, <2>7, <2>10, <2>11, WaitReported
<1>5. CASE ModulePulses
  <2>1. /\ link = "up" /\ UNCHANGED <<requests, specs, receiver, caller, events>>
        /\ wire' = Append(wire, KeepAlive)
        /\ history'.loose = history.loose /\ history'.broken = history.broken
    BY <1>5 DEF ModulePulses, TypesInv, DataTypes, Histories
  <2>2. KeepAlive \in Message /\ KeepAlive.kind = "keepAlive"
    BY MessageTypes DEF KeepAlive
  <2>3. Arriving' = Arriving
    BY <1>1, <2>1, <2>2 DEF EventMessages
  <2>4. Awake' = Awake
    BY <2>1 DEF Awake
  <2>5. Started' = Started
    BY <2>1 DEF Started
  <2>6. Arriving' + Cardinality(Awake') + Started' <= Arriving + Cardinality(Awake) + Started
    BY <1>0, <2>3, <2>4, <2>5
  <2>7. ~Own(KeepAlive, history.loose)
    BY <2>2 DEF Own
  <2>8. IsFiniteSet(Awake')
    BY <1>0, <2>4
  <2>9. QED
    BY <2>1, <2>2, <2>6, <2>7, <2>8, WaitReported
<1>6. CASE LinkFails
  <2>1. /\ link = "up" /\ requests' = <<>> /\ specs' = {}
        /\ UNCHANGED <<wire, receiver, caller, events, history>>
    BY <1>6 DEF LinkFails
  <2>2. /\ Awake' = {} /\ IsFiniteSet(Awake') /\ Cardinality(Awake') = 0
    <3>1. Awake' = {}
      BY <2>1 DEF Awake
    <3>2. QED
      BY <3>1, FS_EmptySet
  <2>3. Started' = 0
    <3>1. Len(<<>>) = 0 /\ 1..0 = {}
      OBVIOUS
    <3>2. Count(<<>>, TimedStarts) = 0
      BY <3>1, CountPart
    <3>3. QED
      BY <2>1, <3>2 DEF Started
  <2>4. /\ Arriving' = Arriving /\ Left' = Left /\ (Calm' <=> Calm) /\ (Counted' <=> Counted)
        /\ \A m : Own(m, history'.loose) <=> Own(m, history.loose)
    BY <2>1 DEF Arriving, Left, Calm, Counted, InRead, Own
  <2>5. AllQuiet => AllQuiet'
    BY <2>1, <2>2, <2>3, <2>4 DEF AllQuiet
  <2>6. ASSUME Enough PROVE Enough'
    <3>1. ~Dead
      BY <2>1 DEF Dead
    <3>2. Arriving' + Cardinality(Awake') + Started' + Left' <= events'
      <4> DEFINE a == Arriving
                 k == Cardinality(Awake)
                 s == Started
                 l == Left
                 e == events
      <4>1. a \in Nat /\ k \in Nat /\ s \in Nat /\ l \in Nat /\ e \in Int /\ a + k + s + l <= e
        BY <1>0, <2>6, <3>1, CountTypes DEF Enough, TypesInv, DataTypes
      <4>2. a + 0 + 0 + l <= e
        <5> HIDE DEF a, k, s, l, e
        <5>1. QED
          BY <4>1
      <4>3. Cardinality(Awake)' = 0 /\ events' = e /\ Left' = l /\ Arriving' = a /\ Started' = 0
        BY <2>1, <2>2, <2>3, <2>4
      <4>4. QED
        BY <4>2, <4>3
    <3>3. ~Has(caller.script, {"await"}) => events = 0
      BY <2>6, <3>1 DEF Enough
    <3>4. Cardinality(Awake)' = Cardinality(Awake')
      OBVIOUS
    <3>5. QED
      BY <2>1, <2>4, <2>6, <3>2, <3>3, <3>4 DEF Enough
  <2>7. QED
    BY <2>2, <2>4, <2>5, <2>6 DEF WaitInv
<1>7. CASE Others
  <2>1. Outside
    BY <1>7, OthersOutside
  <2>2. Awake' = Awake
    BY <2>1 DEF Outside, Awake
  <2>3. Calm' => Calm
    BY <2>1 DEF Outside, Begins, Calm
  <2>4. ASSUME Calm', ~Counted' PROVE AllQuiet'
    <3>1. AllQuiet
      BY <1>0, <1>7, <2>3, <2>4, FinishQuiet DEF WaitInv
    <3>2. requests' = requests \/ \E q \in Commanded \ TimedStarts : requests' = Append(requests, q)
      <4>1. CASE ~Counted
        BY <2>1, <4>1, NoNewStart DEF Outside
      <4>2. CASE Counted
        <5>1. ~(Sends /\ Asking)
          <6>1. ASSUME Asking PROVE Counted'
            <7>1. caller.doing = "read" /\ caller' = [caller EXCEPT !.at = "waiting"]
                  /\ caller \in Callers
              BY <4>2, <6>1 DEF Counted, InRead, Asking, TypesInv, CallerTypes
            <7>2. caller'.doing = "read" /\ caller'.script = caller.script
              BY <7>1 DEF Callers
            <7>3. QED
              BY <4>2, <7>2 DEF Counted, InRead
          <6>2. QED
            BY <2>4, <6>1
        <5>2. QED
          BY <2>1, <5>1 DEF Outside, Requesting, TimedStarts
      <4>3. QED
        BY <4>1, <4>2
    <3>3. QED
      BY <1>7, <3>1, <3>2, QuietStays
  <2>5. ASSUME Calm', Counted' PROVE Enough'
    <3>1. CASE ~Counted
      <4>1. AllQuiet
        BY <2>3, <2>5, <3>1 DEF WaitInv
      <4>2. QED
        BY <1>7, <2>5, <3>1, <4>1, EnoughBegins
    <3>2. CASE Counted
      <4>1. Enough
        BY <2>3, <2>5, <3>2 DEF WaitInv
      <4>2. QED
        BY <1>0, <1>7, <2>5, <3>2, <4>1, EnoughStays
    <3>3. QED
      BY <3>1, <3>2
  <2>6. IsFiniteSet(Awake)'
    BY <1>0, <2>2
  <2>7. QED
    BY <2>4, <2>5, <2>6 DEF WaitInv
<1>8. QED
  BY <1>2, <1>3, <1>4, <1>5, <1>6, <1>7 DEF LlrpNext, ModuleStep, Others

-------------------------------------------------------------------------------
(* What holds from the start on of an operation and the ROSpecs it waits   *)
(* for.                                                                    *)
WaitingInv == /\ ScriptInv /\ ModeInv /\ LinkInv /\ RoundsInv
              /\ PlantInv /\ RefusalInv /\ WaitInv

(* It holds at first.                                                      *)
LEMMA WaitingInit == LlrpInit => WaitingInv
<1> SUFFICES ASSUME LlrpInit PROVE WaitingInv
  OBVIOUS
<1>1. /\ link = "up" /\ requests = <<>> /\ wire = <<>> /\ pending = <<>>
      /\ \A s \in specs : s.round = 0 /\ s.timed = FALSE
      /\ receiver.at = "none"
      /\ caller.doing = "unconnected" /\ caller.at = "ready" /\ caller.script = <<>>
      /\ stream.phase = "off" /\ history.round = 0 /\ history.loose = {0}
      /\ history.broken = {} /\ history.walk = "none"
  BY DEF LlrpInit
<1>2. Len(<<>>) = 0 /\ 1..0 = {} /\ DOMAIN requests = {} /\ DOMAIN wire = {}
      /\ DOMAIN caller.script = {}
  BY <1>1
<1>3. Count(requests, AddRequests) = 0 /\ Count(wire, AddAnswers) = 0
      /\ Started = 0 /\ Arriving = 0
  BY <1>1, <1>2, CountPart DEF Started, Arriving
<1>4. ScriptInv
  <2>1. caller.script \in Seq(Asked(caller.doing))
    BY <1>1
  <2>2. QED
    BY <1>1, <2>1 DEF ScriptInv
<1>5. ModeInv
  BY <1>1 DEF ModeInv, InRead, continuousReading
<1>6. LinkInv /\ RoundsInv
  BY <1>1, <1>2 DEF LinkInv, RoundsInv, Rounded
<1>7. PlantInv /\ RefusalInv
  <2>1. ~OnAdd /\ ~PastAdd(caller.script) /\ ~Accepted
    BY <1>1, <1>2 DEF OnAdd, PastAdd, Accepted
  <2>2. QED
    BY <1>1, <1>2, <1>3, <2>1 DEF PlantInv, RefusalInv
<1>8. WaitInv
  <2>1. Awake = {}
    BY <1>1 DEF Awake
  <2>2. IsFiniteSet(Awake)
    BY <2>1, FS_EmptySet
  <2>3. AllQuiet /\ ~Counted
    BY <1>1, <1>2, <1>3, <2>1 DEF AllQuiet, Counted, InRead
  <2>4. QED
    BY <2>2, <2>3 DEF WaitInv
<1>9. QED
  BY <1>4, <1>5, <1>6, <1>7, <1>8 DEF WaitingInv

(* It says nothing of other variables.                                     *)
LEMMA WaitingStutters ==
  ASSUME WaitingInv, UNCHANGED llrpVars
  PROVE  WaitingInv'
<1>1. /\ link' = link /\ requests' = requests /\ wire' = wire /\ specs' = specs
      /\ receiver' = receiver /\ caller' = caller /\ roSpecId' = roSpecId /\ events' = events
      /\ stream' = stream /\ pending' = pending /\ history' = history
  BY DEF llrpVars
<1>2. ScriptInv' /\ ModeInv' /\ LinkInv' /\ RoundsInv'
  BY <1>1 DEF WaitingInv, ScriptInv, ModeInv, LinkInv, RoundsInv, Rounded, InRead, continuousReading
<1>3. (Placed' <=> Placed) /\ (OnAdd' <=> OnAdd) /\ (Accepted' <=> Accepted)
  BY <1>1 DEF Placed, OnAdd, Accepted
<1>4. PlantInv'
  BY <1>1, <1>3 DEF WaitingInv, PlantInv
<1>5. RefusalInv'
  BY <1>1, <1>3 DEF WaitingInv, RefusalInv
<1>6. /\ Awake' = Awake /\ Arriving' = Arriving /\ Started' = Started /\ Left' = Left
      /\ (Counted' <=> Counted) /\ (Dead' <=> Dead) /\ (Calm' <=> Calm)
  BY <1>1 DEF Awake, Arriving, Started, Left, Counted, InRead, Dead, Calm
<1>7. IsFiniteSet(Awake)' /\ Cardinality(Awake)' = Cardinality(Awake)
  BY <1>6 DEF WaitingInv, WaitInv
<1>8. AllQuiet => AllQuiet'
  BY <1>1, <1>6 DEF AllQuiet
<1>9. Enough => Enough'
  BY <1>1, <1>6, <1>7 DEF Enough
<1>10. WaitInv'
  BY <1>6, <1>7, <1>8, <1>9 DEF WaitingInv, WaitInv
<1>11. QED
  BY <1>2, <1>4, <1>5, <1>10 DEF WaitingInv

(* It holds from the start on.                                             *)
LEMMA WaitingInvariant == LlrpSpec => [](TypesInv /\ HandshakeInv /\ WaitingInv)
<1>1. /\ TypesInv /\ TypesInv' /\ HandshakeInv /\ WaitingInv /\ [LlrpNext]_llrpVars
      => WaitingInv'
  <2> SUFFICES ASSUME TypesInv, TypesInv', HandshakeInv, WaitingInv, [LlrpNext]_llrpVars
               PROVE  WaitingInv'
    OBVIOUS
  <2>1. CASE LlrpNext
    <3>1. ScriptInv /\ ModeInv /\ LinkInv /\ RoundsInv /\ PlantInv /\ RefusalInv /\ WaitInv
      BY DEF WaitingInv
    <3>2. CallerInv
      BY DEF HandshakeInv
    <3>3. ScriptInv' /\ ModeInv' /\ LinkInv' /\ RoundsInv'
      BY <2>1, <3>1, <3>2, ScriptKept, ModeKept, LinkKept, RoundsKept
    <3>4. PlantInv' /\ RefusalInv'
      BY <2>1, <3>1, PlantKept
    <3>5. WaitInv'
      BY <2>1, <3>1, WaitKept
    <3>6. QED
      BY <3>3, <3>4, <3>5 DEF WaitingInv
  <2>2. CASE UNCHANGED llrpVars
    BY <2>2, WaitingStutters
  <2>3. QED
    BY <2>1, <2>2
<1>2. QED
  BY <1>1, WaitingInit, TypesInvariant, HandshakeInvariant, PTL DEF LlrpSpec

(* A synchronous read that goes on to turn the events off has waited for   *)
(* all its ROSpecs: none of them runs and no report of them is on the way, *)
(* whatever the messages that came in between, unless an earlier operation *)
(* was given up.                                                           *)
THEOREM WaitCoversPlanCorrect == LlrpSpec => []WaitCoversPlan
<1>1. TypesInv /\ WaitingInv => WaitCoversPlan
  <2> SUFFICES ASSUME TypesInv, WaitingInv, caller.doing = "read", history.broken = {},
                      caller.script = <<"notifyOff">>
               PROVE  /\ \A s \in specs : s.round = history.round => s.state # "active"
                      /\ \A i \in DOMAIN wire : wire[i].kind = "report" =>
                                                  wire[i].round # history.round
    BY DEF WaitCoversPlan
  <2>1. \A i \in DOMAIN caller.script : caller.script[i] = "notifyOff"
    OBVIOUS
  <2>2. Calm /\ Counted /\ ~Has(caller.script, {"await"})
    BY <2>1 DEF Calm, Counted, InRead, Has, CountSteps
  <2>3. IsFiniteSet(Awake) /\ Enough
    BY <2>2 DEF WaitingInv, WaitInv
  <2>4. events <= 0 /\ (Dead \/ events = 0)
    BY <2>2, <2>3 DEF Enough
  <2>5. AllQuiet
    BY <2>3, <2>4, Settled DEF WaitingInv
  <2>6. history.round \notin history.loose
    BY DEF WaitingInv, ModeInv, InRead
  <2>7. ASSUME NEW s \in specs, s.round = history.round, s.state = "active" PROVE FALSE
    <3>1. s.timed /\ s.id \in Nat
      BY <2>6, <2>7 DEF WaitingInv, RoundsInv, Rounded, TypesInv, SocketTypes, ROSpecs
    <3>2. s.id \in Awake
      BY <2>7, <3>1 DEF Awake
    <3>3. QED
      BY <2>5, <3>2 DEF AllQuiet
  <2>8. ASSUME NEW i \in DOMAIN wire, wire[i].kind = "report", wire[i].round = history.round
        PROVE  FALSE
    BY <2>5, <2>6, <2>8 DEF AllQuiet, Own
  <2>9. QED
    BY <2>7, <2>8
<1>2. QED
  BY <1>1, WaitingInvariant, PTL

-------------------------------------------------------------------------------
(* Whose a report may be: an operation's that leaves its ROSpecs running,  *)
(* one's from the first that was given up on, or the read's under way.     *)
Owned(r, h, doing) ==
  r \in h.loose \/ (\E b \in h.broken : b <= r) \/ (doing = "read" /\ r = h.round)

OwnInv ==
  /\ \A s \in specs : s.state = "active" => Owned(s.round, history, caller.doing)
  /\ \A i \in DOMAIN requests :
       requests[i].command = "startRO" => Owned(requests[i].round, history, caller.doing)
  /\ \A i \in DOMAIN wire :
       wire[i].kind = "report" => Owned(wire[i].round, history, caller.doing)
  /\ receiver.at = "store" => Owned(receiver.holds[1].round, history, caller.doing)
  /\ InRead => \A i \in DOMAIN buffer.reports :
                 Owned(buffer.reports[i].round, history, caller.doing)

(* A read that ends well has nothing left behind.                          *)
LEMMA ReadEndsQuiet ==
  ASSUME TypesInv, HandshakeInv, WaitingInv, Others, InRead, ~InRead', Calm'
  PROVE  AllQuiet
<1>1. Calm
  <2>1. Outside
    BY OthersOutside
  <2>2. QED
    BY <2>1 DEF Outside, Begins, Calm
<1>2. ScriptInv /\ ModeInv /\ LinkInv /\ WaitInv /\ IsFiniteSet(Awake)
  BY DEF WaitingInv, WaitInv
<1>3. CASE ~Counted
  BY <1>1, <1>2, <1>3 DEF WaitInv
<1>4. CASE Counted
  <2>1. Enough /\ ~Counted'
    BY <1>1, <1>2, <1>4 DEF WaitInv, Counted
  <2>2. QED
    BY <1>2, <1>4, <2>1, FinishQuiet
<1>5. QED
  BY <1>3, <1>4

(* Whose a report may be stays so, but for those of a read that ends well. *)
LEMMA OwnedStays ==
  ASSUME TypesInv, HandshakeInv, WaitingInv, Others, NEW r \in Nat,
         Owned(r, history, caller.doing)
  PROVE  Owned(r, history', caller'.doing) \/ (AllQuiet /\ r \notin history.loose)
<1>1. Outside /\ history.loose \subseteq history'.loose /\ history.broken \subseteq history'.broken
  <2>1. Outside
    BY OthersOutside
  <2>2. QED
    BY <2>1 DEF Outside, Begins
<1>2. history.round \in Nat /\ history.broken \subseteq 0..history.round
  BY DEF WaitingInv, ModeInv, TypesInv, DataTypes, Histories
<1>3. CASE r \in history.loose \/ (\E b \in history.broken : b <= r)
  BY <1>1, <1>3 DEF Owned
<1>4. CASE InRead /\ r = history.round /\ r \notin history.loose
  <2>1. history'.round = history.round
        /\ history'.broken \in {history.broken, history.broken \cup {history.round}}
    BY <1>1, <1>4 DEF Outside, Begins, InRead
  <2>2. CASE InRead'
    BY <1>4, <2>1, <2>2 DEF Owned, InRead
  <2>3. CASE ~InRead' /\ Calm'
    BY <1>4, <2>3, ReadEndsQuiet
  <2>4. CASE ~Calm'
    <3>1. PICK b \in history'.broken : TRUE
      BY <2>4 DEF Calm
    <3>2. b <= r
      BY <1>2, <1>4, <2>1, <3>1
    <3>3. QED
      BY <3>1, <3>2 DEF Owned
  <2>5. QED
    BY <2>2, <2>3, <2>4
<1>5. QED
  BY <1>3, <1>4 DEF Owned, InRead

(* What a synchronous read does to the array of reports.                   *)
ReportOf(m) == [round |-> m.round, tags |-> m.tags, freed |-> FALSE]

(* Only the reports of the socket get into the array of a read.            *)
LEMMA BufferSteps ==
  ASSUME TypesInv, HandshakeInv, ScriptInv, ModeInv, Others, InRead'
  PROVE  \/ buffer'.reports = <<>>
         \/ InRead /\ buffer'.reports = buffer.reports
         \/ /\ InRead
            /\ \E m \in Message :
                 /\ \/ wire # <<>> /\ m = Head(wire) /\ m.kind = "report"
                    \/ receiver.at = "store" /\ m = receiver.holds[1]
                 /\ buffer'.reports \in {<<ReportOf(m)>>, Append(buffer.reports, ReportOf(m))}
<1>0. /\ caller \in Callers /\ buffer \in Buffers /\ receiver \in Receivers
      /\ wire \in Seq(Message)
  BY DEF TypesInv, CallerTypes, DataTypes, ThreadTypes, SocketTypes
<1>1. \A m : Stored(buffer, m).reports \in {<<ReportOf(m)>>, Append(buffer.reports, ReportOf(m))}
  BY <1>0 DEF Stored, ReportOf, Buffers
<1>2. CASE Commanding
  <2>1. InRead
    <3>1. PICK h : Stays(h) \/ Finishes(TRUE, h) \/ Finishes(FALSE, h)
      BY <1>2, CommandOutcome DEF Commanding
    <3>2. QED
      BY <3>1 DEF Stays, Finishes, InRead
  <2>2. CASE CommandTakes
    <3>1. CASE buffer' = buffer
      BY <2>1, <3>1
    <3>2. CASE buffer' # buffer
      <4>1. wire # <<>> /\ Head(wire).kind = "report" /\ buffer' = Stored(buffer, Head(wire))
        BY <2>2, <3>2 DEF CommandTakes
      <4>2. Head(wire) \in Message
        BY <1>0, <4>1, Shortened
      <4>3. QED
        BY <1>1, <2>1, <4>1, <4>2
    <3>3. QED
      BY <3>1, <3>2
  <2>3. CASE Awaits
    <3>1. buffer' = buffer \/ buffer' = [buffer EXCEPT !.tagsRemaining = Tags(buffer.reports)]
      BY <2>3 DEF Awaits
    <3>2. buffer'.reports = buffer.reports
      BY <1>0, <3>1 DEF Buffers
    <3>3. QED
      BY <2>1, <3>2
  <2>4. CASE AwaitsReport
    <3>1. caller.script # <<>> /\ Head(caller.script) = "awaitReport"
      BY <2>4 DEF AwaitsReport, FirstIs
    <3>2. Head(caller.script) \in Asked("read") /\ caller.script \in Seq(Steps)
      BY <1>0, <2>1, <3>1, HeadTailProperties DEF ScriptInv, InRead, Callers
    <3>3. QED
      BY <3>1, <3>2 DEF Asked, Opening, PlanSteps
  <2>5. CASE SendsOnly \/ Counts \/ Quiets \/ Sends \/ CommandTimesOut
    <3>1. buffer' = buffer
      BY <2>5 DEF SendsOnly, Counts, Quiets, Sends, CommandTimesOut
    <3>2. QED
      BY <2>1, <3>1
  <2>6. QED
    BY <1>2, <2>2, <2>3, <2>4, <2>5 DEF Commanding
<1>3. CASE ReceiverStep
  <2>1. InRead
    BY <1>3 DEF ReceiverStep, ReceiverGoes, ReceiverTakes, ReceiverStores, ReceiverIdles,
                ReceiverFails, InRead
  <2>2. CASE ReceiverStores
    <3>1. receiver.at = "store" /\ buffer' = Stored(buffer, receiver.holds[1])
      BY <2>2 DEF ReceiverStores
    <3>2. receiver.holds \in Seq(Message) /\ Len(receiver.holds) = 1
      BY <1>0, <3>1 DEF Receivers, TypesInv, ThreadTypes
    <3>3. receiver.holds[1] \in Message
      BY <3>2, ElementOfSeq
    <3>4. QED
      BY <1>1, <2>1, <3>1, <3>3
  <2>3. CASE ~ReceiverStores
    <3>1. buffer' = buffer
      BY <1>3, <2>3 DEF ReceiverStep, ReceiverGoes, ReceiverTakes, ReceiverIdles, ReceiverFails
    <3>2. QED
      BY <2>1, <3>1
  <2>4. QED
    BY <2>2, <2>3
<1>4. CASE StreamStep
  <2>1. stream.phase = "on" /\ caller' = caller
    BY <1>4 DEF StreamStep, StreamAsks, StreamTakes, StreamTimesOut
  <2>2. QED
    BY <2>1 DEF InRead, ModeInv, continuousReading
<1>5. CASE Read
  BY <1>5 DEF Read, EmptyBuffer
<1>6. CASE \/ StartsReading \/ StopsReading \/ Joins \/ Connect \/ ExecuteTagOp \/ AskParameter
           \/ TakesTag \/ EndsWalk \/ StartReading \/ StopReading \/ Destroy
  <2>1. caller' = caller \/ caller'.doing # "read"
    BY <1>0, <1>6 DEF StartsReading, StopsReading, Joins, Connect, ExecuteTagOp, AskParameter,
                      TakesTag, EndsWalk, StartReading, StopReading, Destroy, Begin, Callers
  <2>2. caller' = caller => caller.doing = "nothing" \/ caller'.doing # "read"
    BY <1>0, <1>6 DEF StartsReading, StopsReading, Joins, Connect, ExecuteTagOp, AskParameter,
                      TakesTag, EndsWalk, StartReading, StopReading, Destroy, Begin, Callers, Idle
  <2>3. QED
    BY <2>1, <2>2 DEF InRead
<1>7. QED
  BY <1>2, <1>3, <1>4, <1>5, <1>6 DEF Others, CommandStep, Commanding, UserStep

-------------------------------------------------------------------------------
(* What the reader does makes no report a stranger's.                      *)
LEMMA OwnModule ==
  ASSUME TypesInv, HandshakeInv, WaitingInv, OwnInv, ModuleStep \/ LinkFails
  PROVE  OwnInv'
<1> DEFINE O(r) == Owned(r, history, caller.doing)
<1>0. /\ requests \in Seq(Commanded) /\ wire \in Seq(Message) /\ specs \subseteq ROSpecs
      /\ RoundsInv /\ PlantInv
  BY DEF TypesInv, SocketTypes, WaitingInv
<1>1. /\ caller' = caller /\ receiver' = receiver /\ buffer' = buffer
      /\ history'.round = history.round /\ history'.loose = history.loose
      /\ history'.broken = history.broken
  <2>1. CASE ModuleHandles
    <3>1. buffer' = buffer
      BY <2>1 DEF ModuleHandles
    <3>2. QED
      BY <2>1, <3>1, Handled
  <2>2. CASE ModuleReports
    <3>1. buffer' = buffer
      BY <2>2 DEF ModuleReports
    <3>2. QED
      BY <2>2, <3>1, Reported
  <2>3. CASE ModuleEnds \/ ModulePulses \/ LinkFails
    BY <2>3 DEF ModuleEnds, ModulePulses, LinkFails, TypesInv, DataTypes, Histories
  <2>4. QED
    BY <2>1, <2>2, <2>3 DEF ModuleStep
<1>2. \A r : Owned(r, history', caller'.doing) <=> O(r)
  BY <1>1 DEF Owned
<1>3. \A i \in DOMAIN requests' :
        requests'[i].command = "startRO" => O(requests'[i].round)
  <2>1. requests' = requests \/ requests' = <<>> \/ (requests # <<>> /\ requests' = Tail(requests))
    BY DEF ModuleStep, ModuleHandles, ModuleReports, ModuleEnds, ModulePulses, LinkFails
  <2>2. CASE requests # <<>> /\ requests' = Tail(requests)
    <3>1. \A i \in DOMAIN requests' : i + 1 \in DOMAIN requests /\ requests'[i] = requests[i + 1]
      BY <1>0, <2>2, Shortened
    <3>2. QED
      BY <3>1 DEF OwnInv
  <2>3. CASE requests' = <<>>
    BY <2>3
  <2>4. QED
    BY <2>1, <2>2, <2>3 DEF OwnInv
<1>4. ASSUME NEW m, m.kind = "report" => O(m.round), m \in Message,
             wire' = wire \/ wire' = Append(wire, m)
      PROVE  \A i \in DOMAIN wire' : wire'[i].kind = "report" => O(wire'[i].round)
  <2>1. CASE wire' = wire
    BY <2>1 DEF OwnInv
  <2>2. CASE wire' = Append(wire, m)
    <3>1. \A i \in DOMAIN wire' : wire'[i] = m \/ (i \in DOMAIN wire /\ wire'[i] = wire[i])
      <4>1. /\ DOMAIN wire = 1..Len(wire) /\ Len(wire) \in Nat
            /\ DOMAIN Append(wire, m) = 1..(Len(wire) + 1)
            /\ Append(wire, m)[Len(wire) + 1] = m
            /\ \A i \in 1..Len(wire) : Append(wire, m)[i] = wire[i]
        BY <1>0, <1>4, Lengthened
      <4>2. \A i \in 1..(Len(wire) + 1) : i \in 1..Len(wire) \/ i = Len(wire) + 1
        BY <4>1
      <4>3. QED
        BY <2>2, <4>1, <4>2
    <3>2. QED
      BY <1>4, <3>1 DEF OwnInv
  <2>3. QED
    BY <1>4, <2>1, <2>2
<1>5. /\ receiver'.at = "store" => O(receiver'.holds[1].round)
      /\ InRead' => \A i \in DOMAIN buffer'.reports : O(buffer'.reports[i].round)
  BY <1>1 DEF OwnInv, InRead
<1>6. ASSUME \A s \in specs' : s.state = "active" => O(s.round),
             \A i \in DOMAIN wire' : wire'[i].kind = "report" => O(wire'[i].round)
      PROVE  OwnInv'
  <2> HIDE DEF O
  <2>1. QED
    BY <1>2, <1>3, <1>5, <1>6 DEF OwnInv
<1>7. CASE ModuleHandles
  <2> DEFINE q == Head(requests)
  <2>1. /\ requests # <<>> /\ q \in Commanded
        /\ \/ CarriedOut(q) /\ wire' = Append(wire, Answer(q.command, TRUE))
           \/ specs' = specs /\ wire' = Append(wire, Answer(q.command, FALSE))
           \/ specs' = specs /\ wire' = wire
    BY <1>7, Handled
  <2>2. \A i \in DOMAIN wire' : wire'[i].kind = "report" => O(wire'[i].round)
    <3>1. CASE q.command \notin {"enableEvents", "getReport"}
      <4>1. q.command \in Commands \cup {"stopRO"}
        BY <2>1, <3>1 DEF Commanded
      <4>2. \A ok \in BOOLEAN : Answer(q.command, ok) \in Message
        BY <4>1, MessageTypes
      <4>3. \A ok \in BOOLEAN : Answer(q.command, ok).kind = "answer"
        BY DEF Answer
      <4> HIDE DEF O
      <4>4. PICK ok \in BOOLEAN : wire' = wire \/ wire' = Append(wire, Answer(q.command, ok))
        BY <2>1
      <4>5. QED
        BY <1>4, <4>2, <4>3, <4>4
    <3>2. CASE q.command \in {"enableEvents", "getReport"}
      BY <1>7, <3>2 DEF ModuleHandles, OwnInv
    <3>3. QED
      BY <3>1, <3>2
  <2>3. \A s \in specs' : s.state = "active" => O(s.round)
    <3>1. CASE specs' = specs
      BY <3>1 DEF OwnInv
    <3>2. CASE CarriedOut(q)
      <4>1. ASSUME NEW t \in specs', t.state = "active" PROVE O(t.round)
        <5>1. ~Added(q, t)
          BY <4>1 DEF Added
        <5>2. PICK s \in specs : Kept(q, s, t)
          BY <1>0, <3>2, <5>1, Origin
        <5>3. CASE s.state = "active"
          BY <5>2, <5>3 DEF OwnInv, Kept, Same
        <5>4. CASE s.periodic
          BY <1>0, <5>2, <5>4 DEF RoundsInv, Rounded, Owned, Kept, Same
        <5>5. CASE s.id = q.id /\ q.command = "startRO"
          <6>1. 1 \in DOMAIN requests /\ requests[1] = q
            <7>1. DOMAIN requests = 1..Len(requests) /\ Len(requests) \in Nat \ {0}
                  /\ requests[1] = q
              BY <1>0, <2>1, Shortened
            <7>2. QED
              BY <7>1
          <6>2. Ready(specs, requests, q.id, q.round, 1)
            BY <1>0, <5>5, <6>1 DEF PlantInv
          <6>3. s.round = q.round
            <7>1. ASSUME NEW j \in 1..1 PROVE ~Adds(requests[j], q.id)
              BY <5>5, <6>1, <7>1 DEF Adds
            <7>2. QED
              BY <5>5, <6>2, <7>1 DEF Ready
          <6>4. O(q.round)
            BY <5>5, <6>1 DEF OwnInv
          <6>5. QED
            BY <5>2, <6>3, <6>4 DEF Kept, Same
        <5>6. QED
          BY <4>1, <5>2, <5>3, <5>4, <5>5 DEF Kept
      <4>2. QED
        BY <4>1
    <3>3. QED
      BY <2>1, <3>1, <3>2
  <2>4. QED
    BY <1>6, <2>2, <2>3
<1>8. CASE ModuleReports
  <2>1. PICK s \in specs, n \in Nat :
          /\ s.state = "active" /\ wire' = Append(wire, Report(s.round, n))
          /\ specs' = (specs \ {s}) \cup {[s EXCEPT !.left = @ - 1]}
          /\ Same(s, [s EXCEPT !.left = @ - 1]) /\ [s EXCEPT !.left = @ - 1].state = s.state
    BY <1>8, Reported
  <2>2. O(s.round)
    BY <2>1 DEF OwnInv
  <2>3. Report(s.round, n) \in Message /\ Report(s.round, n).round = s.round
    <3>1. s.round \in Nat
      BY <1>0 DEF ROSpecs
    <3>2. QED
      BY <3>1, MessageTypes DEF Report
  <2>4. \A i \in DOMAIN wire' : wire'[i].kind = "report" => O(wire'[i].round)
    BY <1>4, <2>1, <2>2, <2>3
  <2>5. \A t \in specs' : t.state = "active" => O(t.round)
    BY <2>1 DEF OwnInv, Same
  <2>6. QED
    BY <1>6, <2>4, <2>5
<1>9. CASE ModuleEnds
  <2>1. /\ wire' = wire \/ wire' = Append(wire, EndOfROSpec)
        /\ \A t \in specs' : \E r \in specs : Same(r, t) /\ t.state \in {r.state, "inactive"}
    BY <1>9, EndReported
  <2>2. EndOfROSpec \in Message /\ EndOfROSpec.kind = "event"
    BY MessageTypes DEF EndOfROSpec
  <2>3. \A t \in specs' : t.state = "active" => O(t.round)
    BY <2>1 DEF OwnInv, Same
  <2>4. \A i \in DOMAIN wire' : wire'[i].kind = "report" => O(wire'[i].round)
    BY <1>4, <2>1, <2>2
  <2>5. QED
    BY <1>6, <2>3, <2>4
<1>10. CASE ModulePulses
  <2>1. specs' = specs /\ wire' = Append(wire, KeepAlive)
    BY <1>10 DEF ModulePulses
  <2>2. KeepAlive \in Message /\ KeepAlive.kind = "keepAlive"
    BY MessageTypes DEF KeepAlive
  <2>3. \A i \in DOMAIN wire' : wire'[i].kind = "report" => O(wire'[i].round)
    BY <1>4, <2>1, <2>2
  <2>4. QED
    BY <1>6, <2>1, <2>3 DEF OwnInv
<1>11. CASE LinkFails
  BY <1>6, <1>11 DEF LinkFails, OwnInv
<1>12. QED
  BY <1>7, <1>8, <1>9, <1>10, <1>11 DEF ModuleStep

(* Nor do the threads of the host, the stream and the user.                *)
LEMMA OwnOthers ==
  ASSUME TypesInv, HandshakeInv, WaitingInv, OwnInv, Others
  PROVE  OwnInv'
<1> DEFINE O(r) == Owned(r, history, caller.doing)
           P(r) == Owned(r, history', caller'.doing)
<1>0. /\ requests \in Seq(Commanded) /\ wire \in Seq(Message) /\ specs \subseteq ROSpecs
      /\ ScriptInv /\ ModeInv /\ RoundsInv /\ Outside
      /\ caller \in Callers /\ history \in Histories /\ receiver \in Receivers
      /\ buffer \in Buffers /\ roSpecId \in Nat
  BY OthersOutside DEF TypesInv, SocketTypes, WaitingInv, CallerTypes, DataTypes, ThreadTypes
<1>1. \A r \in Nat : O(r) => P(r) \/ (AllQuiet /\ r \notin history.loose)
  BY OwnedStays
<1>2. \A s \in specs' : s.state = "active" => P(s.round)
  <2>1. ASSUME NEW s \in specs, s.state = "active" PROVE P(s.round)
    <3>1. s.round \in Nat /\ s.id \in Nat /\ O(s.round)
      BY <1>0, <2>1 DEF ROSpecs, OwnInv
    <3>2. ~(AllQuiet /\ s.round \notin history.loose)
      <4>1. ASSUME s.round \notin history.loose PROVE s.id \in Awake
        BY <1>0, <2>1, <3>1, <4>1 DEF RoundsInv, Rounded, Awake
      <4>2. QED
        BY <4>1 DEF AllQuiet
    <3>3. QED
      BY <1>1, <3>1, <3>2
  <2>2. QED
    BY <1>0, <2>1 DEF Outside
<1>3. \A i \in DOMAIN requests' : requests'[i].command = "startRO" => P(requests'[i].round)
  <2>1. ASSUME NEW i \in DOMAIN requests, requests[i].command = "startRO"
        PROVE  P(requests[i].round)
    <3>1. requests[i] \in Commanded /\ i \in 1..Len(requests)
      BY <1>0, ElementOfSeq, LenProperties
    <3>2. requests[i].round \in Nat /\ O(requests[i].round)
      BY <2>1, <3>1 DEF OwnInv, Commanded
    <3>3. ~(AllQuiet /\ requests[i].round \notin history.loose)
      <4>1. ASSUME AllQuiet, requests[i].round \notin history.loose PROVE FALSE
        <5>1. requests[i] \in TimedStarts
          BY <1>0, <2>1, <3>1, <4>1 DEF RoundsInv, Rounded, Planned, TimedStarts
        <5>2. Count(requests, TimedStarts) = 0 /\ Len(requests) \in Nat
          BY <1>0, <4>1, LenProperties DEF AllQuiet, Started
        <5>3. QED
          BY <3>1, <5>1, <5>2, CountPart
      <4>2. QED
        BY <4>1
    <3>4. QED
      BY <1>1, <3>2, <3>3
  <2>2. ASSUME NEW q \in Commanded, requests' = Append(requests, q),
               q.command = "startRO" => P(q.round)
        PROVE  \A i \in DOMAIN requests' :
                 requests'[i].command = "startRO" => P(requests'[i].round)
    <3>1. /\ DOMAIN requests = 1..Len(requests) /\ Len(requests) \in Nat
          /\ DOMAIN Append(requests, q) = 1..(Len(requests) + 1)
          /\ Append(requests, q)[Len(requests) + 1] = q
          /\ \A i \in 1..Len(requests) : Append(requests, q)[i] = requests[i]
      BY <1>0, Lengthened
    <3>2. \A i \in 1..(Len(requests) + 1) : i \in 1..Len(requests) \/ i = Len(requests) + 1
      BY <3>1
    <3>3. \A i \in DOMAIN requests' :
            requests'[i] = q \/ (i \in DOMAIN requests /\ requests'[i] = requests[i])
      BY <2>2, <3>1, <3>2
    <3> HIDE DEF P
    <3>4. QED
      BY <2>1, <2>2, <3>3
  <2>3. CASE requests' = requests
    BY <2>1, <2>3
  <2>4. CASE Sends /\ Asking
    <3> DEFINE q == Request(Head(caller.script), roSpecId')
    <3>1. caller.script # <<>> /\ Head(caller.script) \in Commands /\ roSpecId' \in Nat
      BY <2>4 DEF Asking, TypesInv, CallerTypes, DataTypes, GivenId
    <3>2. q \in Commanded /\ requests' = Append(requests, q)
      <4>1. q \in Commanded
        BY <1>0, <3>1, RequestType
      <4>2. QED
        BY <2>4, <4>1 DEF Asking
    <3>3. q.command = Head(caller.script) /\ q.round = history.round
      BY DEF Request
    <3>4. history' = history /\ caller'.doing = caller.doing
      <4>1. history' = history /\ caller' = [caller EXCEPT !.at = "waiting"]
        BY <2>4 DEF Asking
      <4>2. QED
        BY <1>0, <4>1 DEF Callers
    <3>5. Head(caller.script) = "startRO" => P(history.round)
      <4>1. Head(caller.script) \in Asked(caller.doing)
        BY <1>0, <3>1, HeadTailProperties DEF ScriptInv
      <4>2. Head(caller.script) = "startRO" => caller.doing \in {"read", "tagop", "starting"}
        BY <4>1 DEF Asked, Opening, PlanSteps
      <4>3. QED
        BY <1>0, <3>4, <4>2 DEF Owned, ModeInv
    <3> HIDE DEF q, P
    <3>6. q.command = "startRO" => P(q.round)
      BY <3>3, <3>5
    <3>7. QED
      BY <2>2, <3>2, <3>6
  <2>5. CASE \E q \in Commanded : /\ q.command \notin {"addRO", "startRO"}
                                  /\ requests' = Append(requests, q)
    BY <2>2, <2>5
  <2>6. QED
    BY <1>0, <2>3, <2>4, <2>5 DEF Outside, Requesting
<1>4. \A i \in DOMAIN wire : wire[i].kind = "report" => P(wire[i].round)
  <2>1. ASSUME NEW i \in DOMAIN wire, wire[i].kind = "report" PROVE P(wire[i].round)
    <3>1. wire[i] \in Message
      BY <1>0, ElementOfSeq, LenProperties
    <3>2. wire[i].round \in Nat /\ O(wire[i].round)
      BY <2>1, <3>1 DEF OwnInv, Message
    <3>3. ~(AllQuiet /\ wire[i].round \notin history.loose)
      BY <2>1 DEF AllQuiet, Own
    <3>4. QED
      BY <1>1, <3>2, <3>3
  <2>2. QED
    BY <2>1
<1>5. wire # <<>> => 1 \in DOMAIN wire /\ Head(wire) = wire[1]
  <2>1. wire # <<>> => DOMAIN wire = 1..Len(wire) /\ Len(wire) \in Nat \ {0} /\ Head(wire) = wire[1]
    BY <1>0, Shortened
  <2>2. QED
    BY <2>1
<1>6. \A i \in DOMAIN wire' : wire'[i].kind = "report" => P(wire'[i].round)
  <2>1. CASE wire' = wire
    BY <1>4, <2>1
  <2>2. CASE wire # <<>> /\ wire' = Tail(wire)
    <3>1. \A i \in DOMAIN wire' : i + 1 \in DOMAIN wire /\ wire'[i] = wire[i + 1]
      BY <1>0, <2>2, Shortened
    <3> HIDE DEF P
    <3>2. QED
      BY <1>4, <3>1
  <2>3. QED
    BY <1>0, <2>1, <2>2 DEF Outside
<1>7. receiver.at = "store" => P(receiver.holds[1].round) /\ receiver.holds[1].kind = "report"
  <2>1. ASSUME receiver.at = "store" PROVE P(receiver.holds[1].round)
    <3>1. Len(receiver.holds) = 1 /\ receiver.holds \in Seq(Message)
          /\ receiver.holds[1].kind = "report"
      BY <1>0, <2>1 DEF TypesInv, ThreadTypes, Receivers
    <3>2. receiver.holds[1] \in Message
      BY <3>1, ElementOfSeq
    <3>3. receiver.holds[1].round \in Nat /\ O(receiver.holds[1].round)
      BY <2>1, <3>2 DEF OwnInv, Message
    <3>4. ~(AllQuiet /\ receiver.holds[1].round \notin history.loose)
      BY <2>1, <3>1 DEF AllQuiet, Own
    <3>5. QED
      BY <1>1, <3>3, <3>4
  <2>2. QED
    BY <2>1 DEF TypesInv, ThreadTypes
<1>8. receiver'.at = "store" => P(receiver'.holds[1].round)
  <2>1. ASSUME receiver'.at = "store" PROVE P(receiver'.holds[1].round)
    <3>1. CASE receiver.at = "store" /\ receiver'.holds = receiver.holds
      BY <1>7, <3>1
    <3>2. CASE ReceiverTakes /\ Head(wire).kind = "report" /\ receiver'.holds = <<Head(wire)>>
      <4>1. wire # <<>> /\ receiver'.holds[1] = Head(wire)
        BY <3>2 DEF ReceiverTakes
      <4>2. QED
        BY <1>4, <1>5, <3>2, <4>1
    <3>3. QED
      BY <2>1, <3>1, <3>2, StoreSteps
  <2>2. QED
    BY <2>1
<1>9. InRead' => \A i \in DOMAIN buffer'.reports : P(buffer'.reports[i].round)
  <2> SUFFICES ASSUME InRead' PROVE \A i \in DOMAIN buffer'.reports : P(buffer'.reports[i].round)
    OBVIOUS
  <2>1. CASE buffer'.reports = <<>>
    BY <2>1
  <2>2. ASSUME InRead PROVE \A i \in DOMAIN buffer.reports : P(buffer.reports[i].round)
    <3>1. \A r : O(r) => P(r)
      BY <1>0, <2>2 DEF Owned, Outside, Begins, InRead
    <3>2. \A i \in DOMAIN buffer.reports : O(buffer.reports[i].round)
      BY <2>2 DEF OwnInv
    <3>3. QED
      BY <3>1, <3>2
  <2>3. CASE InRead /\ buffer'.reports = buffer.reports
    BY <2>2, <2>3
  <2>4. ASSUME NEW m \in Message,
               \/ wire # <<>> /\ m = Head(wire) /\ m.kind = "report"
               \/ receiver.at = "store" /\ m = receiver.holds[1],
               InRead, buffer'.reports \in {<<ReportOf(m)>>, Append(buffer.reports, ReportOf(m))}
        PROVE  \A i \in DOMAIN buffer'.reports : P(buffer'.reports[i].round)
    <3>1. P(m.round)
      BY <1>4, <1>5, <1>7, <2>4
    <3>2. ReportOf(m) \in Reports /\ ReportOf(m).round = m.round
      BY DEF ReportOf, Reports, Message
    <3>3. buffer.reports \in Seq(Reports)
      BY <1>0 DEF Buffers
    <3> DEFINE b == buffer.reports
               x == ReportOf(m)
    <3>4. \A i \in DOMAIN buffer'.reports :
            buffer'.reports[i] = x \/ (i \in DOMAIN b /\ buffer'.reports[i] = b[i])
      <4>1. /\ DOMAIN b = 1..Len(b) /\ Len(b) \in Nat /\ DOMAIN Append(b, x) = 1..(Len(b) + 1)
            /\ Append(b, x)[Len(b) + 1] = x /\ \A i \in 1..Len(b) : Append(b, x)[i] = b[i]
        BY <3>2, <3>3, Lengthened
      <4>2. \A i \in 1..(Len(b) + 1) : i \in 1..Len(b) \/ i = Len(b) + 1
        BY <4>1
      <4>3. buffer'.reports = <<x>> \/ buffer'.reports = Append(b, x)
        BY <2>4
      <4> HIDE DEF b, x
      <4>4. CASE buffer'.reports = <<x>>
        BY <4>4
      <4>5. CASE buffer'.reports = Append(b, x)
        BY <4>1, <4>2, <4>5
      <4>6. QED
        BY <4>3, <4>4, <4>5
    <3>5. \A i \in DOMAIN b : P(b[i].round)
      BY <2>2, <2>4
    <3> HIDE DEF b, P
    <3>6. QED
      BY <3>1, <3>2, <3>4, <3>5
  <2>5. QED
    BY <1>0, <2>1, <2>3, <2>4, BufferSteps
<1>10. QED
  <2> HIDE DEF P
  <2>1. OwnInv' <=> /\ \A s \in specs' : s.state = "active" => P(s.round)
                    /\ \A i \in DOMAIN requests' :
                         requests'[i].command = "startRO" => P(requests'[i].round)
                    /\ \A i \in DOMAIN wire' : wire'[i].kind = "report" => P(wire'[i].round)
                    /\ receiver'.at = "store" => P(receiver'.holds[1].round)
                    /\ InRead' => \A i \in DOMAIN buffer'.reports : P(buffer'.reports[i].round)
    BY DEF OwnInv, P
  <2>2. QED
    BY <1>2, <1>3, <1>6, <1>8, <1>9, <2>1

(* Whose a report may be is told throughout.                               *)
LEMMA OwnInvariant == LlrpSpec => []OwnInv
<1>1. LlrpInit => OwnInv
  <2> SUFFICES ASSUME LlrpInit PROVE OwnInv
    OBVIOUS
  <2>1. /\ requests = <<>> /\ wire = <<>> /\ receiver.at = "none" /\ history.loose = {0}
        /\ caller.doing = "unconnected" /\ \A s \in specs : s.round = 0
    BY DEF LlrpInit
  <2>2. QED
    BY <2>1 DEF OwnInv, Owned, InRead
<1>2. TypesInv /\ HandshakeInv /\ WaitingInv /\ OwnInv /\ [LlrpNext]_llrpVars => OwnInv'
  <2> SUFFICES ASSUME TypesInv, HandshakeInv, WaitingInv, OwnInv, [LlrpNext]_llrpVars
               PROVE  OwnInv'
    OBVIOUS
  <2>1. CASE ModuleStep \/ LinkFails
    BY <2>1, OwnModule
  <2>2. CASE Others
    BY <2>2, OwnOthers
  <2>3. CASE UNCHANGED llrpVars
    BY <2>3 DEF llrpVars, OwnInv, InRead
  <2>4. QED
    BY <2>1, <2>2, <2>3 DEF LlrpNext, Others
<1>3. QED
  BY <1>1, <1>2, WaitingInvariant, PTL DEF LlrpSpec

(* The reports a synchronous read has collected are its own, but for those *)
(* of an operation that leaves its ROSpecs running or was given up: each   *)
(* start carried out is for a ROSpec of the operation that asked for it,   *)
(* whichever ids were given before.                                        *)
THEOREM ReportsOfThisReadCorrect == LlrpSpec => []ReportsOfThisRead
<1>1. OwnInv => ReportsOfThisRead
  BY DEF OwnInv, ReportsOfThisRead, Owned, Strays, InRead
<1>2. QED
  BY <1>1, OwnInvariant, PTL

-------------------------------------------------------------------------------
(* A working reader that is not heard of during a stream has a keep-alive  *)
(* on its way, unless a command took one.                                  *)
QuietInv ==
  link = "up" /\ continuousReading /\ ~history.eaten /\ monitor.quiet > 0
    => \E i \in DOMAIN wire : wire[i].kind = "keepAlive"

(* What a step of an operation says of the link.                           *)
LEMMA EndTells ==
  ASSUME caller \in Callers, NEW h \in Histories, NEW result, NEW script,
         Ended(result, h) \/ Proceed(script, h) \/ Fails(h)
  PROVE  history'.eaten = h.eaten /\ history'.lost = h.lost /\ history'.round = h.round
<1>1. Ended(result, h) \/ Ended("failed", h) \/ Ended("ok", h) \/ history' = h
  BY DEF Fails, Proceed
<1>2. ASSUME NEW r, Ended(r, h) PROVE SameButBroken(h)
  <2>1. Finishes(r = "ok", h)
    BY <1>2, EndedFields
  <2>2. QED
    BY <2>1 DEF Finishes
<1>3. QED
  BY <1>1, <1>2 DEF SameButBroken

(* A command that takes a keep-alive of a stream is remembered.            *)
LEMMA CommandsTell ==
  ASSUME TypesInv, Commanding
  PROVE  /\ history.eaten => history'.eaten
         /\ CommandTakes /\ continuousReading /\ Head(wire).kind = "keepAlive" => history'.eaten
         /\ history'.lost => history.lost \/ (Awaits /\ events = -1)
         /\ history'.round = history.round
<1> DEFINE e == history.eaten \/ (continuousReading /\ Head(wire).kind = "keepAlive")
           k == [history EXCEPT !.eaten = e]
           l == [history EXCEPT !.lost = TRUE]
           t == [history EXCEPT !.troubles = @ + 1]
           Told(h) == history'.eaten = h.eaten /\ history'.lost = h.lost /\ history'.round = h.round
<1>0. caller \in Callers /\ history \in Histories
  BY DEF TypesInv, CallerTypes, DataTypes
<1>1. k \in Histories /\ l \in Histories /\ t \in Histories
  <2>1. k \in Histories
    <3>1. \A b \in BOOLEAN : [history EXCEPT !.eaten = b] \in Histories
      BY <1>0 DEF Histories
    <3>2. e \in BOOLEAN
      OBVIOUS
    <3> HIDE DEF e
    <3>3. QED
      BY <3>1, <3>2, Zenon
  <2>2. l \in Histories
    BY <1>0 DEF Histories
  <2>3. t \in Histories
    BY <1>0 DEF Histories
  <2>4. QED
    BY <2>1, <2>2, <2>3
<1>9. k.eaten = e
  BY <1>0 DEF Histories
<1>2. /\ k.lost = history.lost /\ k.round = history.round
      /\ l.eaten = history.eaten /\ l.round = history.round
      /\ t.eaten = history.eaten /\ t.round = history.round /\ t.lost = history.lost
  BY <1>0 DEF Histories
<1> HIDE DEF e, k, l, t
<1>3. \A h \in Histories : \A r, s : Ended(r, h) \/ Proceed(s, h) \/ Fails(h) => Told(h)
  BY <1>0, EndTells
<1>4. ASSUME CommandTakes PROVE Told(k)
  <2>1. \/ history' = k
        \/ \E a : Answered(a, k)
    BY <1>4 DEF CommandTakes, k, e
  <2>2. (\E a : Answered(a, k)) => (\E s : Proceed(s, k)) \/ Fails(k)
    BY DEF Answered
  <2>3. QED
    BY <1>1, <1>3, <2>1, <2>2
<1>5. CASE CommandTakes
  BY <1>2, <1>4, <1>5, <1>9 DEF e
<1>6. CASE SendsOnly \/ Counts \/ Quiets \/ Sends \/ AwaitsReport \/ CommandTimesOut
  <2>1. \/ history' = history \/ Fails(history) \/ Fails(t)
        \/ \E r : Ended(r, history)
        \/ \E s : Proceed(s, history)
    BY <1>6 DEF SendsOnly, Counts, Quiets, Sends, AwaitsReport, CommandTimesOut, t
  <2>2. Told(history) \/ Told(t)
    BY <1>0, <1>1, <1>3, <2>1
  <2>3. ~CommandTakes
    <3>1. SendsOnly \/ Counts \/ Quiets \/ AwaitsReport => caller.at = "ready"
      BY DEF SendsOnly, Counts, Quiets, AwaitsReport, FirstIs
    <3>2. Sends => caller.at \in {"sending", "quieting"}
      BY DEF Sends
    <3>3. CommandTimesOut => wire = <<>>
      BY DEF CommandTimesOut
    <3>4. QED
      BY <1>6, <3>1, <3>2, <3>3 DEF CommandTakes
  <2>4. QED
    BY <1>2, <2>2, <2>3
<1>7. CASE Awaits
  <2>1. \/ events = -1 /\ Ended("lost", l)
        \/ Proceed(Tail(caller.script), history)
    BY <1>7 DEF Awaits, l
  <2>2. (events = -1 /\ Told(l)) \/ Told(history)
    BY <1>0, <1>1, <1>3, <2>1
  <2>3. ~CommandTakes
    BY <1>7 DEF Awaits, FirstIs, CommandTakes
  <2>4. QED
    BY <1>2, <1>7, <2>2, <2>3
<1>8. QED
  BY <1>5, <1>6, <1>7 DEF Commanding

(* When a step says that the link is lost.                                 *)
LEMMA StepsTell ==
  ASSUME TypesInv, Others
  PROVE  /\ history.eaten => history'.eaten
         /\ history'.lost => \/ history.lost /\ history'.round = history.round
                             \/ Awaits /\ events = -1
                             \/ StreamTimesOut /\ history' # history
<1>0. history \in Histories
  BY DEF TypesInv, DataTypes
<1>1. CASE Commanding
  BY <1>1, CommandsTell
<1>2. CASE ReceiverStep
  BY <1>2 DEF ReceiverStep, ReceiverGoes, ReceiverTakes, ReceiverStores, ReceiverIdles,
              ReceiverFails
<1>3. CASE StreamStep
  <2>1. CASE StreamTimesOut
    <3>1. \/ history' = history
          \/ history' = [history EXCEPT !.broken = @ \cup {history.round}, !.lost = TRUE]
      BY <2>1 DEF StreamTimesOut
    <3>2. history'.eaten = history.eaten
      BY <1>0, <3>1 DEF Histories
    <3>3. QED
      BY <2>1, <3>2
  <2>2. CASE StreamAsks \/ StreamTakes
    BY <2>2 DEF StreamAsks, StreamTakes
  <2>3. QED
    BY <1>3, <2>1, <2>2 DEF StreamStep
<1>4. CASE StopsReading \/ Joins \/ Connect \/ TakesTag \/ EndsWalk \/ Destroy \/ AskParameter
             \/ StartReading \/ StopReading
  <2>1. \/ history' = history
        \/ history' = [history EXCEPT !.returned = @ + 1]
        \/ history' = [history EXCEPT !.walk = "done"]
        \/ history' = [history EXCEPT !.operations = @ + 1]
    BY <1>4 DEF StopsReading, Joins, Connect, TakesTag, EndsWalk, Destroy, AskParameter,
                StartReading, StopReading
  <2>2. history'.eaten = history.eaten /\ history'.lost = history.lost
        /\ history'.round = history.round
    BY <1>0, <2>1 DEF Histories
  <2>3. QED
    BY <2>2
<1>5. CASE Read \/ ExecuteTagOp \/ StartsReading
  <2>1. \/ \E loose \in BOOLEAN : history' = NewRound(loose)
        \/ history' = [NewRound(TRUE) EXCEPT !.operations = history.operations]
    BY <1>5 DEF Read, ExecuteTagOp, StartsReading
  <2>2. history'.eaten = history.eaten /\ history'.lost = FALSE
    BY <1>0, <2>1 DEF NewRound, Histories
  <2>3. QED
    BY <2>2
<1>6. \/ Commanding \/ ReceiverStep \/ StreamStep
      \/ StopsReading \/ Joins \/ Connect \/ TakesTag \/ EndsWalk \/ Destroy \/ AskParameter
      \/ StartReading \/ StopReading \/ Read \/ ExecuteTagOp \/ StartsReading
  BY DEF Others, CommandStep, Commanding, UserStep
<1>7. QED
  BY <1>1, <1>2, <1>3, <1>4, <1>5, <1>6

-------------------------------------------------------------------------------
(* A queue keeps an entry of a kind when another is added, or when its     *)
(* first entry, of another kind, is taken.                                 *)
LEMMA KindAdded ==
  ASSUME NEW w \in Seq(Message), NEW m \in Message, NEW kind,
         (\E i \in DOMAIN w : w[i].kind = kind) \/ m.kind = kind
  PROVE  \E i \in DOMAIN Append(w, m) : Append(w, m)[i].kind = kind
<1>1. /\ DOMAIN w = 1..Len(w) /\ Len(w) \in Nat /\ DOMAIN Append(w, m) = 1..(Len(w) + 1)
      /\ Append(w, m)[Len(w) + 1] = m /\ \A i \in 1..Len(w) : Append(w, m)[i] = w[i]
  BY Lengthened
<1>2. Len(w) + 1 \in 1..(Len(w) + 1) /\ \A i \in 1..Len(w) : i \in 1..(Len(w) + 1)
  BY <1>1
<1>3. QED
  BY <1>1, <1>2

(* When the first entry, of another kind, is taken, it is still there.     *)
LEMMA KindTaken ==
  ASSUME NEW w \in Seq(Message), w # <<>>, NEW kind, Head(w).kind # kind,
         NEW i \in DOMAIN w, w[i].kind = kind
  PROVE  \E j \in DOMAIN Tail(w) : Tail(w)[j].kind = kind
<1>1. /\ DOMAIN w = 1..Len(w) /\ Len(w) \in Nat \ {0} /\ Head(w) = w[1]
      /\ DOMAIN Tail(w) = 1..(Len(w) - 1) /\ \A j \in 1..(Len(w) - 1) : Tail(w)[j] = w[j + 1]
  BY Shortened
<1>2. i # 1 /\ i \in 1..Len(w)
  BY <1>1
<1>3. i - 1 \in 1..(Len(w) - 1) /\ (i - 1) + 1 = i
  BY <1>1, <1>2
<1>4. QED
  BY <1>1, <1>3

(* What the reader does keeps its keep-alives known.                       *)
LEMMA QuietModule ==
  ASSUME TypesInv, QuietInv, ModuleStep \/ LinkFails
  PROVE  QuietInv'
<1>0. wire \in Seq(Message) /\ history \in Histories
  BY DEF TypesInv, SocketTypes, DataTypes
<1>1. CASE LinkFails
  BY <1>1 DEF LinkFails, QuietInv
<1>2. CASE ModulePulses
  <2>1. wire' = Append(wire, KeepAlive) /\ KeepAlive \in Message /\ KeepAlive.kind = "keepAlive"
    BY <1>2, MessageTypes DEF ModulePulses, KeepAlive
  <2>2. QED
    BY <1>0, <2>1, KindAdded DEF QuietInv
<1>3. ASSUME NEW m \in Message, wire' = wire \/ wire' = Append(wire, m),
             UNCHANGED <<link, stream, monitor>>, history'.eaten = history.eaten
      PROVE  QuietInv'
  <2>1. continuousReading' <=> continuousReading
    BY <1>3 DEF continuousReading
  <2>2. (\E i \in DOMAIN wire : wire[i].kind = "keepAlive")
        => \E i \in DOMAIN wire' : wire'[i].kind = "keepAlive"
    BY <1>0, <1>3, KindAdded
  <2>3. QED
    BY <1>3, <2>1, <2>2 DEF QuietInv
<1>4. CASE ModuleHandles
  <2> DEFINE q == Head(requests)
  <2>1. /\ q \in Commanded /\ UNCHANGED <<link, stream, monitor>>
        /\ \/ wire' = Append(wire, Answer(q.command, TRUE))
           \/ wire' = Append(wire, Answer(q.command, FALSE))
           \/ wire' = wire
    BY <1>4, Handled
  <2>2. history'.eaten = history.eaten
    BY <1>0, <1>4 DEF ModuleHandles, Histories
  <2>3. CASE q.command \notin {"enableEvents", "getReport"}
    <3>1. q.command \in Commands \cup {"stopRO"}
      BY <2>1, <2>3 DEF Commanded
    <3>2. \A ok \in BOOLEAN : Answer(q.command, ok) \in Message
      BY <3>1, MessageTypes
    <3> HIDE DEF q
    <3>3. QED
      BY <1>3, <2>1, <2>2, <3>2
  <2>4. CASE q.command \in {"enableEvents", "getReport"}
    <3>1. wire' = wire
      BY <1>4, <2>4 DEF ModuleHandles
    <3>2. KeepAlive \in Message
      BY MessageTypes
    <3>3. QED
      BY <1>3, <2>1, <2>2, <3>1, <3>2
  <2>5. QED
    BY <2>3, <2>4
<1>5. CASE ModuleReports
  <2>1. PICK s \in specs, n \in Nat : wire' = Append(wire, Report(s.round, n))
    BY <1>5, Reported
  <2>2. Report(s.round, n) \in Message
    <3>1. s.round \in Nat
      BY DEF TypesInv, SocketTypes, ROSpecs
    <3>2. QED
      BY <3>1, MessageTypes
  <2>3. history'.eaten = history.eaten
    BY <1>0, <1>5 DEF ModuleReports, Histories
  <2>4. UNCHANGED <<link, stream, monitor>>
    BY <1>5 DEF ModuleReports
  <2>5. QED
    BY <1>3, <2>1, <2>2, <2>3, <2>4
<1>6. CASE ModuleEnds
  BY <1>3, <1>6, EndReported, MessageTypes
<1>7. QED
  BY <1>1, <1>2, <1>4, <1>5, <1>6 DEF ModuleStep

(* A stream is begun by the background read only.                          *)
LEMMA StreamBegins ==
  ASSUME TypesInv, HandshakeInv, Others, continuousReading', ~StartsReading
  PROVE  continuousReading
<1>0. stream \in Streams
  BY DEF TypesInv, ThreadTypes
<1>1. CASE Commanding
  <2>1. PICK h : Stays(h) \/ Finishes(TRUE, h) \/ Finishes(FALSE, h)
    BY <1>1, CommandOutcome DEF Commanding
  <2>2. stream' = stream \/ caller.doing = "starting"
    BY <2>1 DEF Stays, Finishes
  <2>3. QED
    BY <2>2 DEF continuousReading, HandshakeInv, StreamInv
<1>2. CASE StreamStep
  BY <1>2 DEF StreamStep, StreamAsks, StreamTakes, StreamTimesOut, continuousReading
<1>3. CASE ~Commanding /\ ~StreamStep
  <2>1. stream' = stream \/ StopsReading
    BY <1>3 DEF Others, CommandStep, UserStep, ReceiverStep, Commanding, ReceiverGoes,
       ReceiverTakes,
                ReceiverStores, ReceiverIdles, ReceiverFails, Joins, Connect, Read, ExecuteTagOp,
                AskParameter, TakesTag, EndsWalk, StartReading, StopReading, Destroy
  <2>2. StopsReading => ~continuousReading'
    BY <1>0 DEF StopsReading, continuousReading, Streams
  <2>3. QED
    BY <2>1, <2>2 DEF continuousReading
<1>4. QED
  BY <1>1, <1>2, <1>3

(* So does what the threads of the host do.                                *)
LEMMA QuietOthers ==
  ASSUME TypesInv, HandshakeInv, QuietInv, Others
  PROVE  QuietInv'
<1>0. /\ wire \in Seq(Message) /\ monitor \in Monitors /\ link' = link
      /\ wire' = wire \/ (wire # <<>> /\ wire' = Tail(wire))
  BY OthersOutside DEF TypesInv, SocketTypes, ThreadTypes, Outside
<1>1. SUFFICES ASSUME link = "up", continuousReading', ~history'.eaten, monitor'.quiet > 0
               PROVE  \E i \in DOMAIN wire' : wire'[i].kind = "keepAlive"
  BY <1>0 DEF QuietInv
<1>2. ~StartsReading
  <2>1. StartsReading => monitor' = [monitor EXCEPT !.quiet = 0]
    BY DEF StartsReading
  <2>2. StartsReading => monitor'.quiet = 0
    BY <1>0, <2>1 DEF Monitors
  <2>3. QED
    BY <1>1, <2>2
<1>3. continuousReading /\ ~history.eaten
  BY <1>1, <1>2, StreamBegins, StepsTell
<1>4. ASSUME monitor.quiet > 0,
             wire' = wire \/ (wire # <<>> /\ wire' = Tail(wire) /\ Head(wire).kind # "keepAlive")
      PROVE  \E i \in DOMAIN wire' : wire'[i].kind = "keepAlive"
  BY SMTT(30), <1>0, <1>1, <1>3, <1>4, KindTaken DEF QuietInv
<1>5. CASE ReceiverStep
  <2>1. receiver.at \notin {"select", "store"} \/ ~continuousReading
    BY DEF HandshakeInv, ThreadInv, StreamInv, FieldsInv
  <2>2. UNCHANGED <<wire, monitor>>
    BY <1>3, <1>5, <2>1 DEF ReceiverStep, ReceiverGoes, ReceiverTakes, ReceiverStores,
       ReceiverIdles,
                     ReceiverFails
  <2>3. QED
    BY <1>1, <1>4, <2>2
<1>6. CASE Commanding
  <2>1. monitor' = monitor
    BY <1>6 DEF Commanding, SendsOnly, Counts, Quiets, Sends, CommandTakes, CommandTimesOut, Awaits,
                AwaitsReport
  <2>2. wire' = wire \/ CommandTakes
    BY <1>6 DEF Commanding, SendsOnly, Counts, Quiets, Sends, CommandTimesOut, Awaits, AwaitsReport
  <2>3. CommandTakes => Head(wire).kind # "keepAlive" /\ wire # <<>> /\ wire' = Tail(wire)
    <3>1. CommandTakes => wire # <<>> /\ wire' = Tail(wire)
      BY DEF CommandTakes
    <3>2. QED
      BY <1>1, <1>3, <1>6, <3>1, CommandsTell
  <2>4. QED
    BY <1>1, <1>4, <2>1, <2>2, <2>3
<1>7. CASE StreamAsks
  BY <1>1, <1>4, <1>7 DEF StreamAsks
<1>8. CASE StreamTakes
  <2>1. /\ wire # <<>> /\ wire' = Tail(wire)
        /\ monitor' = IF Head(wire).kind = "keepAlive"
                      THEN [monitor EXCEPT !.quiet = 0, !.missed = 0] ELSE monitor
    BY <1>8 DEF StreamTakes
  <2>2. Head(wire).kind # "keepAlive"
    BY <1>0, <1>1, <2>1 DEF Monitors
  <2>3. QED
    BY <1>1, <1>4, <2>1, <2>2
<1>9. CASE StreamTimesOut
  <2>1. wire = <<>> /\ monitor.quiet > monitor.missed
    BY <1>1, <1>9 DEF StreamTimesOut
  <2>2. monitor.quiet > 0
    <3>1. monitor.quiet \in Int /\ monitor.missed \in Nat
      BY <1>0, LlrpAssumption DEF Monitors
    <3>2. QED
      BY <2>1, <3>1
  <2>3. QED
    BY <1>1, <1>3, <2>1, <2>2 DEF QuietInv
<1>10. CASE UserStep \/ StopsReading \/ Joins
  <2>1. UNCHANGED <<wire, monitor>>
    BY <1>10 DEF UserStep, StopsReading, Joins, Connect, Read, ExecuteTagOp, AskParameter, TakesTag,
                 EndsWalk, StartReading, StopReading, Destroy
  <2>2. QED
    BY <1>1, <1>4, <2>1
<1>11. QED
  BY <1>2, <1>5, <1>6, <1>7, <1>8, <1>9, <1>10 DEF Others, CommandStep, StreamStep, Commanding

(* It holds from the start on.                                             *)
LEMMA QuietInvariant == LlrpSpec => []QuietInv
<1>1. LlrpInit => QuietInv
  BY DEF LlrpInit, QuietInv, continuousReading
<1>2. TypesInv /\ HandshakeInv /\ QuietInv /\ [LlrpNext]_llrpVars => QuietInv'
  <2> SUFFICES ASSUME TypesInv, HandshakeInv, QuietInv, [LlrpNext]_llrpVars PROVE QuietInv'
    OBVIOUS
  <2>1. CASE ModuleStep \/ LinkFails
    BY <2>1, QuietModule
  <2>2. CASE Others
    BY <2>2, QuietOthers
  <2>3. CASE UNCHANGED llrpVars
    BY <2>3 DEF llrpVars, QuietInv, continuousReading
  <2>4. QED
    BY <2>1, <2>2, <2>3 DEF LlrpNext, Others
<1>3. QED
  BY <1>1, <1>2, TypesInvariant, HandshakeInvariant, PTL DEF LlrpSpec

(* The wait of a read is not broken off while the link works and no        *)
(* operation was given up: what it still waits for is never less than      *)
(* nothing.                                                                *)
LEMMA WaitNotLost ==
  ASSUME TypesInv, WaitingInv, Awaits, events = -1, link = "up", Calm
  PROVE  FALSE
<1>1. caller.script # <<>> /\ Head(caller.script) = "await" /\ caller.script \in Seq(Steps)
      /\ ScriptInv /\ WaitInv
  BY DEF Awaits, FirstIs, TypesInv, CallerTypes, Callers, WaitingInv
<1>2. InRead
  <2>1. Head(caller.script) \in Asked(caller.doing)
    BY <1>1, HeadTailProperties DEF ScriptInv
  <2>2. QED
    BY <1>1, <2>1 DEF Asked, InRead, Opening, PlanSteps
<1>3. Counted
  <2>1. /\ DOMAIN caller.script = 1..Len(caller.script) /\ Len(caller.script) \in Nat \ {0}
        /\ caller.script[1] = "await"
    BY <1>1, Shortened
  <2>2. InOrder(caller.script)
    BY <1>1, <1>2 DEF ScriptInv, InRead
  <2>3. \A k \in DOMAIN caller.script : caller.script[k] \in {"await", "notifyOff"}
    <3>1. ASSUME NEW k \in DOMAIN caller.script PROVE caller.script[k] \in {"await", "notifyOff"}
      <4>1. CASE k = 1
        BY <2>1, <4>1
      <4>2. CASE k # 1
        <5>1. 1 \in DOMAIN caller.script /\ 1 < k
          BY <2>1, <4>2
        <5>2. QED
          BY <2>1, <2>2, <5>1 DEF InOrder
      <4>3. QED
        BY <4>1, <4>2
    <3>2. QED
      BY <3>1
  <2>4. QED
    BY <1>2, <2>3 DEF Counted, Has, CountSteps
<1>4. Enough /\ ~Dead /\ IsFiniteSet(Awake)
  BY <1>1, <1>3 DEF WaitInv, Dead
<1>5. Arriving + Cardinality(Awake) + Started + Left <= -1
  BY <1>4 DEF Enough
<1>6. /\ Arriving \in Nat /\ Cardinality(Awake) \in Nat /\ Started \in Nat /\ Left \in Nat
  BY <1>4, CountTypes, AwakeZero
<1>7. QED
  BY <1>5, <1>6

(* The link is reported lost only if it is, or if a command inside the     *)
(* stream took keep-alives the stream never heard of, or an earlier        *)
(* operation was given up and its events upset the count of a read.        *)
THEOREM LostMeansQuietCorrect == LlrpSpec => []LostMeansQuiet
<1>1. LlrpInit => LostMeansQuiet
  BY DEF LlrpInit, LostMeansQuiet
<1>2. /\ TypesInv /\ HandshakeInv /\ WaitingInv /\ QuietInv /\ LostMeansQuiet
      /\ [LlrpNext]_llrpVars
      => LostMeansQuiet'
  <2> SUFFICES ASSUME TypesInv, HandshakeInv, WaitingInv, QuietInv, LostMeansQuiet,
                      [LlrpNext]_llrpVars
               PROVE  LostMeansQuiet'
    OBVIOUS
  <2>0. history \in Histories
    BY DEF TypesInv, DataTypes
  <2>1. CASE ModuleStep \/ LinkFails
    <3>1. link' = link \/ link' # "up"
      BY <2>1 DEF ModuleStep, ModuleHandles, ModuleReports, ModuleEnds, ModulePulses, LinkFails,
                  TypesInv, SocketTypes, DataTypes, Histories
    <3>2. /\ history'.lost = history.lost /\ history'.eaten = history.eaten
          /\ history'.round = history.round /\ history'.broken = history.broken
      <4>1. CASE ModuleHandles
        BY <2>0, <4>1 DEF ModuleHandles, Histories
      <4>2. CASE ModuleReports
        BY <2>0, <4>2 DEF ModuleReports, Histories
      <4>3. CASE ModuleEnds \/ ModulePulses \/ LinkFails
        BY <2>0, <4>3 DEF ModuleEnds, ModulePulses, LinkFails, Histories
      <4>4. QED
        BY <2>1, <4>1, <4>2, <4>3 DEF ModuleStep
    <3>3. QED
      BY <3>1, <3>2 DEF LostMeansQuiet
  <2>2. CASE Others
    <3> SUFFICES ASSUME history'.lost, link' = "up", ~history'.eaten,
                        history'.broken \ {history'.round} = {}
                 PROVE  FALSE
      BY DEF LostMeansQuiet
    <3>1. Outside /\ link = "up" /\ ~history.eaten /\ history.broken \subseteq history'.broken
      <4>1. Outside
        BY <2>2, OthersOutside
      <4>2. QED
        BY <2>2, <4>1, StepsTell DEF Outside, Begins
    <3>2. CASE history.lost /\ history'.round = history.round
      BY <3>1, <3>2 DEF LostMeansQuiet
    <3>3. CASE Awaits /\ events = -1
      <4>1. InRead
        <5>1. Head(caller.script) = "await" /\ caller.script # <<>>
          BY <3>3 DEF Awaits, FirstIs
        <5>2. Head(caller.script) \in Asked(caller.doing)
          BY <5>1, HeadTailProperties DEF WaitingInv, ScriptInv
        <5>3. QED
          BY <5>1, <5>2 DEF Asked, InRead, Opening, PlanSteps
      <4>2. history'.round = history.round /\ history.round \notin history.broken
        BY <2>2, <3>1, <4>1 DEF Outside, Begins, InRead, WaitingInv, ModeInv
      <4>3. Calm
        BY <3>1, <4>2 DEF Calm
      <4>4. QED
        BY <3>1, <3>3, <4>3, WaitNotLost
    <3>4. CASE StreamTimesOut
      <4>1. wire = <<>> /\ monitor.quiet > monitor.missed /\ continuousReading
        BY <3>1, <3>4 DEF StreamTimesOut, continuousReading
      <4>2. monitor.quiet \in Int /\ monitor.missed \in Nat
        BY LlrpAssumption DEF TypesInv, ThreadTypes, Monitors
      <4>3. monitor.quiet > 0
        BY <4>1, <4>2
      <4>4. QED
        BY <3>1, <4>1, <4>3 DEF QuietInv
    <3>5. QED
      BY <2>2, <3>2, <3>3, <3>4, StepsTell
  <2>3. CASE UNCHANGED llrpVars
    BY <2>3 DEF llrpVars, LostMeansQuiet
  <2>4. QED
    BY <2>1, <2>2, <2>3 DEF LlrpNext, Others
<1>3. QED
  BY <1>1, <1>2, WaitingInvariant, QuietInvariant, PTL DEF LlrpSpec
===============================================================================
