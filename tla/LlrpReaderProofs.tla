--------------------------- MODULE LlrpReaderProofs ---------------------------
(*****************************************************************************)
(* Proofs, for every set of plans and troubles and all bounds, that the socket *)
(* of an LLRP reader has one reader at a time, and that the variables keep   *)
(* their types.                                                              *)
(*****************************************************************************)
EXTENDS LlrpReader, SequenceTheorems, FiniteSetTheorems, FunctionTheorems, TLAPS

(* The records keep their fields.                                          *)
FieldsInv ==
  /\ DOMAIN receiver = {"setup", "enabled", "running", "at", "holds"}
  /\ DOMAIN caller = {"doing", "at", "script", "plan"}
  /\ DOMAIN stream = {"phase", "getReport", "reportSeen"}
  /\ "lost" \in DOMAIN history
  /\ {receiver.setup, receiver.enabled, receiver.running, history.lost} \subseteq BOOLEAN

(* The thread is at the socket only while it says that it runs, and it is  *)
(* there only if it was set up.                                            *)
ThreadInv ==
  /\ receiver.at \in {"select", "store"} => receiver.running
  /\ ~receiver.setup => receiver.at \in {"none", "exit"}

(* A command on its way: the thread was asked to rest and, once the        *)
(* command waits for its answer, does.  The stream has seen to that for    *)
(* commands inside it, until it is given up.                               *)
CommandInv ==
  /\ caller.at \in {"ready", "quieting", "sending", "waiting"}
  /\ caller.at = "quieting" => receiver.setup /\ ~receiver.enabled /\ ~continuousReading
  /\ caller.at = "sending" => ~receiver.setup \/ continuousReading \/ history.lost
  /\ caller.at = "waiting" =>
       \/ ~receiver.setup \/ continuousReading \/ history.lost
       \/ ~receiver.enabled /\ ~receiver.running

(* A stream: from its start to its end the thread rests.                   *)
StreamInv ==
  /\ continuousReading => ~receiver.enabled /\ ~receiver.running
  /\ caller.doing = "starting" => stream.phase = "starting"
  /\ caller.doing = "parking" => ~receiver.enabled /\ ~continuousReading
  /\ caller.doing \in {"unconnected", "connect"} => ~continuousReading

(* Between operations the application has no command under way.            *)
Resting == {"unconnected", "unbooted", "nothing", "parking", "stopping", "destroying",
            "destroyed"}
CallerInv ==
  caller.doing \in Resting => caller.at = "ready" /\ caller.script = <<>>

HandshakeInv == FieldsInv /\ ThreadInv /\ CommandInv /\ StreamInv /\ CallerInv

-------------------------------------------------------------------------------
(* The handshake looks at the records and at nothing else.                 *)
LEMMA Untouched ==
  ASSUME HandshakeInv, UNCHANGED <<receiver, caller, stream>>,
         "lost" \in DOMAIN history', history'.lost = history.lost
  PROVE  HandshakeInv'
BY DEF HandshakeInv, FieldsInv, ThreadInv, CommandInv, StreamInv, CallerInv, continuousReading

(* The end of a round of the thread: it goes on, rests or exits.           *)
LEMMA LoopKeeps ==
  ASSUME HandshakeInv, receiver.at \in {"select", "store"}, receiver' = LoopEnds,
         UNCHANGED <<caller, stream, history>>
  PROVE  HandshakeInv'
<1>1. /\ DOMAIN receiver' = DOMAIN receiver
      /\ receiver'.setup = receiver.setup /\ receiver'.enabled = receiver.enabled
      /\ receiver'.running \in BOOLEAN
      /\ receiver'.running => receiver.running
      /\ receiver'.at \in {"exit", "select", "park"}
      /\ receiver'.at = "select" => receiver'.running
  BY DEF LoopEnds, HandshakeInv, FieldsInv, ThreadInv
<1>2. receiver.setup
  BY DEF HandshakeInv, ThreadInv, FieldsInv
<1>3. QED
  BY <1>1, <1>2 DEF HandshakeInv, FieldsInv, ThreadInv, CommandInv, StreamInv, CallerInv,
                    continuousReading

(* What the end of a command, or of an operation, does to the application  *)
(* thread and to a stream that is being started.                           *)
Advances ==
  /\ DOMAIN caller' = DOMAIN caller /\ DOMAIN stream' = DOMAIN stream
  /\ "lost" \in DOMAIN history' /\ history'.lost \in BOOLEAN
  /\ caller'.at = "ready"
  /\ \/ caller'.doing = caller.doing /\ stream' = stream
     \/ /\ caller'.doing \in {"nothing", "unbooted", "destroyed"} /\ caller'.script = <<>>
        /\ \/ stream' = stream
           \/ caller.doing = "starting" /\ stream'.phase = "on"

(* The end of an operation is such an advance: it is over, or starts again.*)
LEMMA EndedAdvances ==
  ASSUME FieldsInv, NEW result, NEW h, "lost" \in DOMAIN h, h.lost \in BOOLEAN,
         Ended(result, h)
  PROVE  Advances
<1>1. /\ DOMAIN caller' = DOMAIN caller /\ caller'.at = "ready"
      /\ \/ caller'.doing = caller.doing /\ caller.doing = "starting" /\ result # "ok"
         \/ /\ caller'.doing \in {"nothing", "unbooted", "destroyed"}
            /\ caller'.script = <<>>
            /\ ~(caller.doing = "starting" /\ result # "ok")
  <2>1. CASE caller.doing = "starting" /\ result # "ok"
    BY <2>1 DEF Ended, FieldsInv
  <2>2. CASE ~(caller.doing = "starting" /\ result # "ok")
    BY <2>2 DEF Ended, FieldsInv
  <2>3. QED
    BY <2>1, <2>2
<1>2. /\ DOMAIN stream' = DOMAIN stream
      /\ stream' = stream \/ (caller.doing = "starting" /\ result = "ok" /\ stream'.phase = "on")
  BY DEF Ended, FieldsInv
<1>3. "lost" \in DOMAIN history' /\ history'.lost \in BOOLEAN
  <2>1. CASE result = "ok"
    BY <2>1 DEF Ended
  <2>2. CASE result # "ok"
    BY <2>2 DEF Ended
  <2>3. QED
    BY <2>1, <2>2
<1>4. QED
  BY <1>1, <1>2, <1>3 DEF Advances

(* So is going on with the rest of the script,                             *)
LEMMA ProceedAdvances ==
  ASSUME FieldsInv, NEW script, NEW h, "lost" \in DOMAIN h, h.lost \in BOOLEAN,
         Proceed(script, h)
  PROVE  Advances
<1>1. CASE script = <<>>
  BY <1>1, EndedAdvances DEF Proceed
<1>2. CASE script # <<>>
  BY <1>2 DEF Proceed, Advances, FieldsInv
<1>3. QED
  BY <1>1, <1>2

(* and so is a command that fails.                                         *)
LEMMA FailsAdvances ==
  ASSUME FieldsInv, NEW h, "lost" \in DOMAIN h, h.lost \in BOOLEAN, Fails(h)
  PROVE  Advances
BY EndedAdvances, ProceedAdvances DEF Fails

(* A command or an operation ends, and the thread stays as it is or is set *)
(* to work again.                                                          *)
LEMMA AdvanceKeeps ==
  ASSUME HandshakeInv, caller.doing \notin Resting, Advances, receiver' \in {receiver, Resumed}
  PROVE  HandshakeInv'
<1>1. /\ DOMAIN receiver' = DOMAIN receiver
      /\ receiver'.setup = receiver.setup /\ receiver'.running = receiver.running
      /\ receiver'.at = receiver.at /\ receiver'.enabled \in BOOLEAN
      /\ continuousReading => receiver'.enabled = receiver.enabled
  BY DEF Resumed, HandshakeInv, FieldsInv
<1>2. continuousReading' => continuousReading
  BY DEF Advances, HandshakeInv, StreamInv, continuousReading
<1>3. FieldsInv' /\ ThreadInv' /\ CommandInv'
  BY <1>1 DEF Advances, HandshakeInv, FieldsInv, ThreadInv, CommandInv
<1>4. StreamInv'
  BY <1>1, <1>2 DEF Advances, HandshakeInv, StreamInv, Resting, continuousReading
<1>5. CallerInv'
  BY DEF Advances, HandshakeInv, CallerInv, Resting
<1>6. QED
  BY <1>3, <1>4, <1>5 DEF HandshakeInv

(* A command is under way, or is the first of a script: the application is *)
(* in an operation.                                                        *)
LEMMA InOperation ==
  ASSUME HandshakeInv, caller.at # "ready" \/ caller.script # <<>>
  PROVE  caller.doing \notin Resting
BY DEF HandshakeInv, CallerInv

-------------------------------------------------------------------------------
(* The reader at the other end and the link leave the handshake alone.     *)
LEMMA ModuleKeeps ==
  ASSUME HandshakeInv, ModuleStep \/ LinkFails
  PROVE  HandshakeInv'
<1>1. UNCHANGED <<receiver, caller, stream>>
  BY DEF ModuleStep, LinkFails, ModuleHandles, ModuleReports, ModuleEnds, ModulePulses
<1>2. "lost" \in DOMAIN history' /\ history'.lost = history.lost
  <2>1. "lost" \in DOMAIN history
    BY DEF HandshakeInv, FieldsInv
  <2>2. CASE ModuleHandles
    BY <2>1, <2>2 DEF ModuleHandles
  <2>3. CASE ModuleReports
    BY <2>1, <2>3 DEF ModuleReports
  <2>4. CASE ModuleEnds
    BY <2>1, <2>4 DEF ModuleEnds
  <2>5. CASE ModulePulses
    BY <2>1, <2>5 DEF ModulePulses
  <2>6. CASE LinkFails
    BY <2>1, <2>6 DEF LinkFails
  <2>7. QED
    BY <2>2, <2>3, <2>4, <2>5, <2>6 DEF ModuleStep
<1>3. QED
  BY <1>1, <1>2, Untouched

(* Each step of the thread itself: it says that it runs before it is at    *)
(* the socket, and takes that back only at the end of a round.             *)
LEMMA ReceiverKeeps ==
  ASSUME HandshakeInv, ReceiverStep
  PROVE  HandshakeInv'
<1>1. CASE ReceiverGoes
  <2>1. /\ DOMAIN receiver' = DOMAIN receiver
        /\ receiver'.setup = receiver.setup /\ receiver'.enabled = receiver.enabled
        /\ receiver'.running = TRUE /\ receiver'.at = "select"
        /\ receiver.at = "park" /\ receiver.enabled
    BY <1>1 DEF ReceiverGoes, HandshakeInv, FieldsInv
  <2>2. UNCHANGED <<caller, stream, history>>
    BY <1>1 DEF ReceiverGoes
  <2>3. receiver.setup
    BY <2>1 DEF HandshakeInv, ThreadInv, FieldsInv
  <2>4. QED
    BY <2>1, <2>2, <2>3 DEF HandshakeInv, FieldsInv, ThreadInv, CommandInv, StreamInv, CallerInv,
                            continuousReading
<1>2. CASE ReceiverTakes
  <2>1. CASE Head(wire).kind = "report"
    <3>1. /\ DOMAIN receiver' = DOMAIN receiver
          /\ receiver'.setup = receiver.setup /\ receiver'.enabled = receiver.enabled
          /\ receiver'.running = receiver.running /\ receiver'.at = "store"
          /\ receiver.at = "select"
      BY <1>2, <2>1 DEF ReceiverTakes, HandshakeInv, FieldsInv
    <3>2. UNCHANGED <<caller, stream, history>>
      BY <1>2 DEF ReceiverTakes
    <3>3. QED
      BY <3>1, <3>2 DEF HandshakeInv, FieldsInv, ThreadInv, CommandInv, StreamInv, CallerInv,
                        continuousReading
  <2>2. CASE Head(wire).kind # "report"
    BY <1>2, <2>2, LoopKeeps DEF ReceiverTakes
  <2>3. QED
    BY <2>1, <2>2
<1>3. CASE ReceiverStores
  BY <1>3, LoopKeeps DEF ReceiverStores
<1>4. CASE ReceiverIdles
  BY <1>4, LoopKeeps DEF ReceiverIdles
<1>5. CASE ReceiverFails
  BY <1>5, LoopKeeps DEF ReceiverFails
<1>6. QED
  BY <1>1, <1>2, <1>3, <1>4, <1>5 DEF ReceiverStep

-------------------------------------------------------------------------------
(* The steps of a command: the thread is asked to rest, the command is sent *)
(* when it does, and an answer or a time-out sets it to work again.        *)
LEMMA QuietsKeeps ==
  ASSUME HandshakeInv, Quiets
  PROVE  HandshakeInv'
<1>1. caller.at = "ready" /\ caller.doing \notin Resting
  BY InOperation DEF Quiets, FirstIs
<1>2. /\ DOMAIN caller' = DOMAIN caller /\ caller'.doing = caller.doing
      /\ UNCHANGED <<stream, history>>
  BY DEF Quiets, HandshakeInv, FieldsInv
<1>3. CASE receiver.setup /\ ~continuousReading
  <2>1. /\ caller'.at = "quieting" /\ DOMAIN receiver' = DOMAIN receiver
        /\ receiver'.enabled = FALSE /\ receiver'.setup = receiver.setup
        /\ receiver'.running = receiver.running /\ receiver'.at = receiver.at
    BY <1>3 DEF Quiets, HandshakeInv, FieldsInv
  <2>2. QED
    BY <1>1, <1>2, <1>3, <2>1 DEF HandshakeInv, FieldsInv, ThreadInv, CommandInv, StreamInv,
                                  CallerInv, continuousReading
<1>4. CASE ~(receiver.setup /\ ~continuousReading)
  <2>1. caller'.at = "sending" /\ receiver' = receiver
    BY <1>4 DEF Quiets, HandshakeInv, FieldsInv
  <2>2. QED
    BY <1>1, <1>2, <1>4, <2>1 DEF HandshakeInv, FieldsInv, ThreadInv, CommandInv, StreamInv,
                                  CallerInv, continuousReading
<1>5. QED
  BY <1>3, <1>4

(* A command is sent when the thread rests, or there is none.              *)
LEMMA SendsKeeps ==
  ASSUME HandshakeInv, Sends
  PROVE  HandshakeInv'
<1>1. caller.at \in {"sending", "quieting"} /\ (caller.at = "quieting" => ~receiver.running)
  BY DEF Sends
<1>2. caller.doing \notin Resting
  BY <1>1, InOperation
<1>3. CASE link = "closed"
  <2>1. Fails(history) /\ receiver' = Resumed
    BY <1>3 DEF Sends
  <2>2. QED
    BY <1>2, <2>1, FailsAdvances, AdvanceKeeps DEF HandshakeInv, FieldsInv
<1>4. CASE link # "closed"
  <2>1. /\ DOMAIN caller' = DOMAIN caller /\ caller'.doing = caller.doing
        /\ caller'.at = "waiting" /\ UNCHANGED <<receiver, stream, history>>
    BY <1>4 DEF Sends, HandshakeInv, FieldsInv
  <2>2. QED
    BY <1>1, <1>2, <2>1 DEF HandshakeInv, FieldsInv, ThreadInv, CommandInv, StreamInv, CallerInv,
                            continuousReading
<1>5. QED
  BY <1>3, <1>4

(* An answer: the last one of boot sets the thread up.                     *)
LEMMA AnsweredKeeps ==
  ASSUME HandshakeInv, caller.doing \notin Resting, NEW m, NEW h, "lost" \in DOMAIN h,
         h.lost \in BOOLEAN, Answered(m, h)
  PROVE  HandshakeInv'
<1> DEFINE SetsUp == caller.doing = "connect" /\ Head(caller.script) = "keepAlive" /\ m.ok
<1>1. Advances
  <2>1. CASE m.ok
    <3>1. \E script : Proceed(script, h)
      BY <2>1 DEF Answered
    <3>2. QED
      BY <3>1, ProceedAdvances DEF HandshakeInv
  <2>2. CASE ~m.ok
    BY <2>2, FailsAdvances DEF Answered, HandshakeInv
  <2>3. QED
    BY <2>1, <2>2
<1>2. CASE ~SetsUp
  <2>1. receiver' = Resumed
    BY <1>2 DEF Answered
  <2>2. QED
    BY <1>1, <2>1, AdvanceKeeps
<1>3. CASE SetsUp
  <2>1. receiver' = [receiver EXCEPT !.setup = TRUE, !.enabled = TRUE, !.at = "park"]
    BY <1>3 DEF Answered
  <2>2. /\ DOMAIN receiver' = DOMAIN receiver /\ receiver'.setup = TRUE
        /\ receiver'.enabled = TRUE /\ receiver'.at = "park"
        /\ receiver'.running = receiver.running
    BY <2>1 DEF HandshakeInv, FieldsInv
  <2>3. /\ ~continuousReading' /\ caller'.at = "ready"
        /\ caller'.doing \in {"connect", "nothing", "unbooted", "destroyed"}
        /\ caller'.doing \in Resting => caller'.script = <<>>
    BY <1>1, <1>3 DEF Advances, HandshakeInv, StreamInv, continuousReading, Resting
  <2>4. FieldsInv'
    BY <1>1, <2>2 DEF HandshakeInv, FieldsInv, Advances
  <2>5. QED
    BY <2>2, <2>3, <2>4 DEF HandshakeInv, ThreadInv, CommandInv, StreamInv, CallerInv
<1>4. QED
  BY <1>2, <1>3

(* A waiting command takes a message: its answer, or one that is not.      *)
LEMMA CommandTakesKeeps ==
  ASSUME HandshakeInv, CommandTakes
  PROVE  HandshakeInv'
<1> DEFINE h == [history EXCEPT !.eaten =
                   @ \/ (continuousReading /\ Head(wire).kind = "keepAlive")]
<1>1. caller.doing \notin Resting
  BY InOperation DEF CommandTakes
<1>2. "lost" \in DOMAIN h /\ h.lost = history.lost /\ h.lost \in BOOLEAN
  BY DEF HandshakeInv, FieldsInv
<1>3. \/ \E m : Answered(m, h)
      \/ history' = h /\ UNCHANGED <<receiver, caller, stream>>
  <2>1. CASE Answers(Head(wire))
    BY <2>1 DEF CommandTakes
  <2>2. CASE ~Answers(Head(wire))
    BY <2>2 DEF CommandTakes
  <2>3. QED
    BY <2>1, <2>2
<1> HIDE DEF h
<1>4. QED
  BY <1>1, <1>2, <1>3, AnsweredKeeps, Untouched

(* A waiting command gives up.                                             *)
LEMMA CommandTimesOutKeeps ==
  ASSUME HandshakeInv, CommandTimesOut
  PROVE  HandshakeInv'
<1>1. caller.doing \notin Resting
  BY InOperation DEF CommandTimesOut
<1>2. /\ receiver' = Resumed
      /\ Fails(history) \/ Fails([history EXCEPT !.troubles = @ + 1])
  BY DEF CommandTimesOut
<1>3. /\ "lost" \in DOMAIN history /\ history.lost \in BOOLEAN
      /\ "lost" \in DOMAIN [history EXCEPT !.troubles = @ + 1]
      /\ [history EXCEPT !.troubles = @ + 1].lost \in BOOLEAN
  BY DEF HandshakeInv, FieldsInv
<1>4. Advances
  BY <1>2, <1>3, FailsAdvances DEF HandshakeInv
<1>5. QED
  BY <1>1, <1>2, <1>4, AdvanceKeeps

(* The steps between commands, which leave the thread alone.               *)
LEMMA ScriptKeeps ==
  ASSUME HandshakeInv, SendsOnly \/ Counts \/ Awaits \/ AwaitsReport
  PROVE  HandshakeInv'
<1>1. caller.doing \notin Resting /\ receiver' = receiver
  BY InOperation DEF SendsOnly, Counts, Awaits, AwaitsReport, FirstIs
<1>2. "lost" \in DOMAIN history /\ history.lost \in BOOLEAN /\ FieldsInv
  BY DEF HandshakeInv, FieldsInv
<1>3. CASE SendsOnly
  <2>1. Ended("failed", history) \/ Proceed(Tail(caller.script), history)
    BY <1>3 DEF SendsOnly
  <2>2. QED
    BY <1>1, <1>2, <2>1, EndedAdvances, ProceedAdvances, AdvanceKeeps
<1>4. CASE Counts
  <2>1. Proceed(Tail(caller.script), history)
    BY <1>4 DEF Counts
  <2>2. QED
    BY <1>1, <1>2, <2>1, ProceedAdvances, AdvanceKeeps
<1>5. CASE Awaits
  <2>1. \/ Ended("lost", [history EXCEPT !.lost = TRUE])
        \/ Proceed(Tail(caller.script), history)
    BY <1>5 DEF Awaits
  <2>2. /\ "lost" \in DOMAIN [history EXCEPT !.lost = TRUE]
        /\ [history EXCEPT !.lost = TRUE].lost \in BOOLEAN
    BY <1>2
  <2>3. QED
    BY <1>1, <1>2, <2>1, <2>2, EndedAdvances, ProceedAdvances, AdvanceKeeps
<1>6. CASE AwaitsReport
  <2>1. \E result : Ended(result, history)
    BY <1>6 DEF AwaitsReport
  <2>2. QED
    BY <1>1, <1>2, <2>1, EndedAdvances, AdvanceKeeps
<1>7. QED
  BY <1>3, <1>4, <1>5, <1>6

(* A stream begins when the thread rests; it ends with the answer to the   *)
(* stop, or is given up; then the thread is set to work.                   *)
LEMMA StartsReadingKeeps ==
  ASSUME HandshakeInv, StartsReading
  PROVE  HandshakeInv'
<1>1. /\ DOMAIN caller' = DOMAIN caller /\ caller'.doing = "starting" /\ caller'.at = "ready"
  <2>1. caller.doing = "parking" /\ caller.at = "ready"
    BY DEF StartsReading, HandshakeInv, CallerInv, Resting
  <2>2. QED
    BY <2>1 DEF StartsReading, Begin, HandshakeInv, FieldsInv
<1>2. /\ DOMAIN stream' = DOMAIN stream /\ stream'.phase = "starting"
      /\ receiver' = receiver /\ ~receiver.running /\ caller.doing = "parking"
  BY DEF StartsReading, HandshakeInv, FieldsInv
<1>3. "lost" \in DOMAIN history' /\ history'.lost = FALSE
  BY DEF StartsReading, NewRound, HandshakeInv, FieldsInv
<1>4. QED
  BY <1>1, <1>2, <1>3 DEF HandshakeInv, FieldsInv, ThreadInv, CommandInv, StreamInv, CallerInv,
                          Resting

(* A stop asks the stream to end and touches neither thread nor command.   *)
LEMMA StopsReadingKeeps ==
  ASSUME HandshakeInv, StopsReading
  PROVE  HandshakeInv'
<1>1. caller.doing = "stopping" /\ caller.at = "ready" /\ caller.script = <<>>
  BY DEF StopsReading, HandshakeInv, CallerInv, Resting
<1>2. /\ DOMAIN caller' = DOMAIN caller /\ caller'.doing = "nothing"
      /\ caller'.at = "ready" /\ caller'.script = <<>>
  BY <1>1 DEF StopsReading, HandshakeInv, FieldsInv
<1>3. DOMAIN stream' = DOMAIN stream /\ stream'.phase = "off" /\ history' = history
  BY DEF StopsReading, HandshakeInv, FieldsInv
<1>4. /\ DOMAIN receiver' = DOMAIN receiver
      /\ receiver'.setup = receiver.setup /\ receiver'.running = receiver.running
      /\ receiver'.at = receiver.at /\ receiver'.enabled \in BOOLEAN
  BY DEF StopsReading, HandshakeInv, FieldsInv
<1>5. QED
  BY <1>2, <1>3, <1>4 DEF HandshakeInv, FieldsInv, ThreadInv, CommandInv, StreamInv, CallerInv,
                          continuousReading

(* A destroy that has waited for the thread to exit.                       *)
LEMMA JoinsKeeps ==
  ASSUME HandshakeInv, Joins
  PROVE  HandshakeInv'
<1>1. caller.at = "ready" /\ receiver.at = "exit"
  BY DEF Joins, HandshakeInv, CallerInv, Resting
<1>2. /\ DOMAIN caller' = DOMAIN caller /\ caller'.doing = "closing" /\ caller'.at = "ready"
      /\ UNCHANGED <<stream, history>>
  BY <1>1 DEF Joins, Begin, HandshakeInv, FieldsInv
<1>3. /\ DOMAIN receiver' = DOMAIN receiver
      /\ receiver'.setup = FALSE /\ receiver'.running = receiver.running
      /\ receiver'.at = "exit" /\ receiver'.enabled = receiver.enabled
  BY <1>1 DEF Joins, HandshakeInv, FieldsInv
<1>4. QED
  BY ZenonT(40), <1>2, <1>3 DEF HandshakeInv, FieldsInv, ThreadInv, CommandInv, StreamInv,
     CallerInv,
                    continuousReading, Resting

(* The steps of the reader thread of a stream, which sends no command.     *)
LEMMA StreamKeeps ==
  ASSUME HandshakeInv, StreamStep
  PROVE  HandshakeInv'
<1>1. caller' = caller
  BY DEF StreamStep, StreamAsks, StreamTakes, StreamTimesOut
<1>2. stream.phase = "on"
  BY DEF StreamStep, StreamAsks, StreamTakes, StreamTimesOut
<1>3. CASE StreamAsks
  <2>1. /\ DOMAIN stream' = DOMAIN stream /\ stream'.phase = stream.phase
        /\ UNCHANGED <<receiver, history>>
    BY <1>3 DEF StreamAsks, HandshakeInv, FieldsInv
  <2>2. QED
    BY <1>1, <1>2, <2>1 DEF HandshakeInv, FieldsInv, ThreadInv, CommandInv, StreamInv, CallerInv,
                            continuousReading
<1>4. CASE StreamTakes
  <2>1. /\ DOMAIN stream' = DOMAIN stream /\ stream'.phase \in {"on", "ended"}
        /\ UNCHANGED <<receiver, history>>
    BY <1>2, <1>4 DEF StreamTakes, HandshakeInv, FieldsInv
  <2>2. QED
    BY <1>1, <1>2, <2>1 DEF HandshakeInv, FieldsInv, ThreadInv, CommandInv, StreamInv, CallerInv,
                            continuousReading
<1>5. CASE StreamTimesOut
  <2>1. \/ UNCHANGED <<stream, receiver, history>>
        \/ /\ stream' = [stream EXCEPT !.phase = "off"]
           /\ receiver' = [receiver EXCEPT !.enabled = TRUE]
           /\ history' = [history EXCEPT !.broken = @ \cup {history.round}, !.lost = TRUE]
    BY <1>5 DEF StreamTimesOut
  <2>2. CASE UNCHANGED <<stream, receiver, history>>
    BY <1>1, <2>2, Untouched DEF HandshakeInv, FieldsInv
  <2>3. CASE /\ stream' = [stream EXCEPT !.phase = "off"]
             /\ receiver' = [receiver EXCEPT !.enabled = TRUE]
             /\ history' = [history EXCEPT !.broken = @ \cup {history.round}, !.lost = TRUE]
    <3>1. /\ DOMAIN stream' = DOMAIN stream /\ stream'.phase = "off"
          /\ DOMAIN receiver' = DOMAIN receiver /\ receiver'.enabled = TRUE
          /\ receiver'.setup = receiver.setup /\ receiver'.running = receiver.running
          /\ receiver'.at = receiver.at
          /\ "lost" \in DOMAIN history' /\ history'.lost = TRUE
      BY <2>3 DEF HandshakeInv, FieldsInv
    <3>2. caller.at # "quieting" /\ caller.doing \notin {"parking", "starting"}
      BY <1>2 DEF HandshakeInv, CommandInv, StreamInv, continuousReading
    <3>3. QED
      BY <1>1, <1>2, <3>1, <3>2 DEF HandshakeInv, FieldsInv, ThreadInv, CommandInv, StreamInv,
                                    CallerInv, continuousReading
  <2>4. QED
    BY <2>1, <2>2, <2>3
<1>6. QED
  BY <1>3, <1>4, <1>5 DEF StreamStep

-------------------------------------------------------------------------------
(* What the application asks for: an operation begins, with no command     *)
(* under way.                                                              *)
LEMMA UserKeeps ==
  ASSUME HandshakeInv, UserStep
  PROVE  HandshakeInv'
<1>1. "lost" \in DOMAIN history /\ history.lost \in BOOLEAN
  BY DEF HandshakeInv, FieldsInv
<1>2. CASE Connect
  <2>1. caller.doing = "unconnected" /\ caller.at = "ready"
    BY <1>2 DEF Connect, HandshakeInv, CallerInv, Resting
  <2>2. /\ DOMAIN caller' = DOMAIN caller /\ caller'.doing = "connect" /\ caller'.at = "ready"
        /\ UNCHANGED <<receiver, stream, history>>
    BY <1>2, <2>1 DEF Connect, Begin, HandshakeInv, FieldsInv
  <2>3. QED
    BY <2>1, <2>2 DEF HandshakeInv, FieldsInv, ThreadInv, CommandInv, StreamInv, CallerInv,
                      continuousReading, Resting
<1>3. CASE Read
  <2>1. \E plan : Begin("read", plan, ReadScript(plan))
    BY <1>3 DEF Read
  <2>2. /\ DOMAIN caller' = DOMAIN caller /\ caller'.doing = "read" /\ caller'.at = caller.at
        /\ UNCHANGED <<receiver, stream>>
    BY <1>3, <2>1 DEF Read, Begin, HandshakeInv, FieldsInv
  <2>3. /\ caller.at = "ready"
        /\ "lost" \in DOMAIN history' /\ history'.lost \in BOOLEAN
    BY <1>1, <1>3 DEF Read, Idle, NewRound, HandshakeInv, CallerInv, Resting
  <2>4. QED
    BY <2>2, <2>3 DEF HandshakeInv, FieldsInv, ThreadInv, CommandInv, StreamInv, CallerInv,
                      continuousReading, Resting
<1>4. CASE ExecuteTagOp
  <2>1. /\ DOMAIN caller' = DOMAIN caller /\ caller'.doing = "tagop" /\ caller'.at = caller.at
        /\ UNCHANGED <<receiver, stream>>
    BY <1>4 DEF ExecuteTagOp, Begin, HandshakeInv, FieldsInv
  <2>2. /\ caller.at = "ready"
        /\ "lost" \in DOMAIN history' /\ history'.lost \in BOOLEAN
    BY <1>1, <1>4 DEF ExecuteTagOp, Idle, NewRound, HandshakeInv, CallerInv, Resting
  <2>3. QED
    BY <2>1, <2>2 DEF HandshakeInv, FieldsInv, ThreadInv, CommandInv, StreamInv, CallerInv,
                      continuousReading, Resting
<1>5. CASE AskParameter
  <2>1. /\ DOMAIN caller' = DOMAIN caller /\ caller'.doing = "parameter"
        /\ caller'.at = caller.at /\ UNCHANGED <<receiver, stream>>
    BY <1>5 DEF AskParameter, Begin, HandshakeInv, FieldsInv
  <2>2. /\ caller.at = "ready"
        /\ "lost" \in DOMAIN history' /\ history'.lost \in BOOLEAN
    BY <1>1, <1>5 DEF AskParameter, Idle, HandshakeInv, CallerInv, Resting
  <2>3. QED
    BY <2>1, <2>2 DEF HandshakeInv, FieldsInv, ThreadInv, CommandInv, StreamInv, CallerInv,
                      continuousReading, Resting
<1>6. CASE TakesTag \/ EndsWalk
  <2>1. UNCHANGED <<receiver, caller, stream>>
    BY <1>6 DEF TakesTag, EndsWalk
  <2>2. "lost" \in DOMAIN history' /\ history'.lost = history.lost
    <3>1. CASE TakesTag
      BY <1>1, <3>1 DEF TakesTag
    <3>2. CASE EndsWalk
      BY <1>1, <3>2 DEF EndsWalk
    <3>3. QED
      BY <1>6, <3>1, <3>2
  <2>3. QED
    BY <2>1, <2>2, Untouched
<1>7. CASE StartReading
  <2>1. \E plan : Begin("parking", plan, <<>>)
    BY <1>7 DEF StartReading
  <2>2. /\ DOMAIN caller' = DOMAIN caller /\ caller'.doing = "parking"
        /\ caller'.at = caller.at /\ caller'.script = <<>> /\ stream' = stream
    BY <1>7, <2>1 DEF StartReading, Begin, HandshakeInv, FieldsInv
  <2>3. /\ DOMAIN receiver' = DOMAIN receiver /\ receiver'.enabled = FALSE
        /\ receiver'.setup = receiver.setup /\ receiver'.running = receiver.running
        /\ receiver'.at = receiver.at
    BY <1>7 DEF StartReading, HandshakeInv, FieldsInv
  <2>4. /\ caller.at = "ready" /\ ~continuousReading
        /\ "lost" \in DOMAIN history' /\ history'.lost \in BOOLEAN
    BY <1>1, <1>7 DEF StartReading, Idle, HandshakeInv, CallerInv, Resting
  <2>5. QED
    BY <2>2, <2>3, <2>4 DEF HandshakeInv, FieldsInv, ThreadInv, CommandInv, StreamInv, CallerInv,
                            continuousReading
<1>8. CASE StopReading
  <2>1. caller.at = "ready" /\ caller.script = <<>>
    BY <1>8 DEF StopReading, HandshakeInv, CallerInv, Resting
  <2>2. /\ DOMAIN caller' = DOMAIN caller /\ caller'.doing = "stopping"
        /\ caller'.at = "ready" /\ caller'.script = <<>>
        /\ UNCHANGED <<receiver, stream, history>>
    BY <1>8, <2>1 DEF StopReading, HandshakeInv, FieldsInv
  <2>3. QED
    BY <2>2 DEF HandshakeInv, FieldsInv, ThreadInv, CommandInv, StreamInv, CallerInv,
                continuousReading
<1>9. CASE Destroy
  <2>1. caller.at = "ready" /\ caller.script = <<>>
    BY <1>9 DEF Destroy, HandshakeInv, CallerInv, Resting
  <2>2. /\ DOMAIN caller' = DOMAIN caller /\ caller'.doing = "destroying"
        /\ caller'.at = "ready" /\ caller'.script = <<>>
        /\ UNCHANGED <<receiver, stream, history>>
    BY <1>9, <2>1 DEF Destroy, HandshakeInv, FieldsInv
  <2>3. QED
    BY <2>2 DEF HandshakeInv, FieldsInv, ThreadInv, CommandInv, StreamInv, CallerInv,
                continuousReading
<1>10. QED
  BY <1>2, <1>3, <1>4, <1>5, <1>6, <1>7, <1>8, <1>9 DEF UserStep

-------------------------------------------------------------------------------
(* The handshake between the threads holds from the start on.              *)
LEMMA HandshakeInvariant == LlrpSpec => []HandshakeInv
<1>1. LlrpInit => HandshakeInv
  <2> SUFFICES ASSUME LlrpInit PROVE HandshakeInv
    OBVIOUS
  <2>1. receiver = [setup |-> FALSE, enabled |-> FALSE, running |-> FALSE,
                    at |-> "none", holds |-> <<>>]
    BY DEF LlrpInit
  <2>2. /\ DOMAIN caller = {"doing", "at", "script", "plan"}
        /\ caller.doing = "unconnected" /\ caller.at = "ready" /\ caller.script = <<>>
    BY DEF LlrpInit
  <2>3. DOMAIN stream = {"phase", "getReport", "reportSeen"} /\ stream.phase = "off"
    BY DEF LlrpInit
  <2>4. "lost" \in DOMAIN history /\ history.lost = FALSE
    BY DEF LlrpInit
  <2>5. QED
    BY <2>1, <2>2, <2>3, <2>4 DEF HandshakeInv, FieldsInv, ThreadInv, CommandInv, StreamInv,
                                  CallerInv, continuousReading
<1>2. HandshakeInv /\ [LlrpNext]_llrpVars => HandshakeInv'
  <2> SUFFICES ASSUME HandshakeInv, [LlrpNext]_llrpVars PROVE HandshakeInv'
    OBVIOUS
  <2>1. CASE ModuleStep \/ LinkFails
    BY <2>1, ModuleKeeps
  <2>2. CASE ReceiverStep
    BY <2>2, ReceiverKeeps
  <2>3. CASE CommandStep
    BY <2>3, QuietsKeeps, SendsKeeps, CommandTakesKeeps, CommandTimesOutKeeps, ScriptKeeps,
       StartsReadingKeeps, StopsReadingKeeps, JoinsKeeps DEF CommandStep
  <2>4. CASE StreamStep
    BY <2>4, StreamKeeps
  <2>5. CASE UserStep
    BY <2>5, UserKeeps
  <2>6. CASE UNCHANGED llrpVars
    BY <2>6, Untouched DEF llrpVars, HandshakeInv, FieldsInv
  <2>7. QED
    BY <2>1, <2>2, <2>3, <2>4, <2>5, <2>6 DEF LlrpNext
<1>3. QED
  BY <1>1, <1>2, PTL DEF LlrpSpec

(* While a command waits for its answer, and while a stream runs, the      *)
(* receiver thread is not at the socket, unless a stream was given up in   *)
(* the middle of that command.                                             *)
THEOREM SoleReceiverCorrect == LlrpSpec => []SoleReceiver
<1>1. HandshakeInv => SoleReceiver
  BY DEF HandshakeInv, FieldsInv, ThreadInv, CommandInv, StreamInv, SoleReceiver, continuousReading
<1>2. QED
  BY <1>1, HandshakeInvariant, PTL

-------------------------------------------------------------------------------
(* What the variables hold.                                                *)
Commanded == [command : Commands \cup {"enableEvents", "getReport", "stopRO"}, id : Nat,
  round : Nat, timed : BOOLEAN, periodic : BOOLEAN]
ROSpecs   == [id : Nat, round : Nat, state : {"disabled", "inactive", "active"},
              timed : BOOLEAN, periodic : BOOLEAN, left : 0..MaxReports]
Receivers == [setup : BOOLEAN, enabled : BOOLEAN, running : BOOLEAN,
              at : {"none", "park", "select", "store", "exit"}, holds : Seq(Message)]
Monitors  == [fresh : BOOLEAN, quiet : 0..LostAfter, missed : 0..KeepAliveMisses]
Doings    == {"unconnected", "connect", "unbooted", "nothing", "read", "tagop", "parameter",
              "parking", "starting", "stopping", "destroying", "closing", "destroyed"}
Callers   == [doing : Doings, at : {"ready", "quieting", "sending", "waiting"},
              script : Seq(Steps), plan : Plans \cup {"none", "tagop"}]
Reports   == [round : Nat, tags : Nat, freed : BOOLEAN]
Buffers   == [live : BOOLEAN, reports : Seq(Reports), bufIndex : Nat, tagsRemaining : Nat,
              current : Nat]
Streams   == [phase : {"off", "starting", "on", "ended"}, getReport : BOOLEAN,
              reportSeen : BOOLEAN]
Histories == [round : Nat, loose : SUBSET Nat, broken : SUBSET Nat,
              walk : {"none", "on", "done"}, eaten : BOOLEAN, empty : BOOLEAN, lost : BOOLEAN,
              reported : Nat, returned : Nat, operations : Nat, keepAlives : Nat,
              trouble : Troubles, troubles : Nat]

(* The reader and the socket, the two threads, the application.            *)
SocketTypes ==
  /\ link \in {"up", "closed", "silent"} /\ wire \in Seq(Message) /\ requests \in Seq(Commanded)
  /\ specs \subseteq ROSpecs /\ notify \in BOOLEAN
ThreadTypes ==
  /\ receiver \in Receivers /\ monitor \in Monitors
  /\ receiver.at = "store" => Len(receiver.holds) = 1 /\ receiver.holds[1].kind = "report"
  /\ stream \in Streams
CallerTypes ==
  /\ caller \in Callers
  /\ caller.doing \in {"parking", "starting"} => caller.plan \in Plans
  /\ caller.at # "ready" => caller.script # <<>> /\ Head(caller.script) \in Commands
DataTypes ==
  /\ buffer \in Buffers /\ pending \in Seq(Message) /\ history \in Histories
  /\ events \in Int /\ roSpecId \in Nat
  /\ fault \in {"none", "race", "freed", "walk", "join"}
TypesInv == SocketTypes /\ ThreadTypes /\ CallerTypes /\ DataTypes

(* Each script is one.                                                     *)
LEMMA ScriptTypes ==
  /\ BootScript \in Seq(Steps) /\ TagOpScript \in Seq(Steps)
  /\ \A p \in BOOLEAN : StopScript(p) \in Seq(Steps)
  /\ \A plan \in Plans : ReadScript(plan) \in Seq(Steps) /\ StreamScript(plan) \in Seq(Steps)
<1>1. BootScript \in Seq(Steps) /\ TagOpScript \in Seq(Steps)
  <2>1. {"holdEvents", "getROSpecs", "getRegion", "getCapabilities", "getProtocols", "getAntennas",
         "keepAlive", "deleteRO", "deleteAccess", "addRO", "enableRO", "addAccess", "enableAccess",
         "startRO", "awaitReport"} \subseteq Steps
    BY DEF Steps, Commands
  <2>2. BootScript \in Seq(Steps)
    BY <2>1 DEF BootScript
  <2>3. TagOpScript \in Seq(Steps)
    <3>1. TagOpScript \in Seq({"deleteRO", "deleteAccess", "addRO", "enableRO", "addAccess",
                               "enableAccess", "startRO", "awaitReport"})
      BY DEF TagOpScript
    <3>2. QED
      BY <3>1, <2>1, SeqMonotonic
  <2>4. QED
    BY <2>2, <2>3
<1>2. \A p \in BOOLEAN : StopScript(p) \in Seq(Steps)
  <2>1. {"stopOld", "disableOld"} \subseteq Steps
    BY DEF Steps, Commands
  <2>2. <<"stopOld", "disableOld">> \in Seq(Steps) /\ <<"stopOld">> \in Seq(Steps)
    BY <2>1
  <2>3. QED
    BY <2>2 DEF StopScript
<1>3. ASSUME NEW plan \in Plans
      PROVE  ReadScript(plan) \in Seq(Steps) /\ StreamScript(plan) \in Seq(Steps)
  <2>1. plan \in {"simple", "tagop", "multi"}
    BY LlrpAssumption
  <2>2. /\ Simple \in Seq(Steps) /\ <<"count2">> \in Seq(Steps)
        /\ <<"addRO", "enableRO", "addAccess", "enableAccess", "startRO">> \in Seq(Steps)
        /\ <<"enableEvents", "deleteRO", "deleteAccess", "notifyOn", "count1">> \in Seq(Steps)
        /\ <<"enableEvents", "deleteRO", "deleteAccess", "count1">> \in Seq(Steps)
        /\ <<"await", "notifyOff">> \in Seq(Steps)
        /\ <<"count2", "addRO", "enableRO", "addRO", "enableRO">> \in Seq(Steps)
    BY DEF Simple, Steps, Commands
  <2>3. PlanScript(plan) \in Seq(Steps)
    BY <2>1, <2>2, ConcatProperties DEF PlanScript
  <2>4. ReadScript(plan) \in Seq(Steps)
    BY <2>2, <2>3, ConcatProperties DEF ReadScript
  <2>5. StreamScript(plan) \in Seq(Steps)
    BY <2>2, <2>3, ConcatProperties DEF StreamScript
  <2>6. QED
    BY <2>4, <2>5
<1>4. QED
  BY <1>1, <1>2, <1>3

(* The number of tags in a list of reports is one.                         *)
LEMMA TagsType ==
  ASSUME NEW reports \in Seq(Reports)
  PROVE  Tags(reports) \in Nat
<1> DEFINE D == DOMAIN reports
           f == [i \in D |-> {i} \X (1..reports[i].tags)]
           T == {{i} \X (1..reports[i].tags) : i \in D}
<1>1. D = 1..Len(reports) /\ Len(reports) \in Nat
  BY LenProperties
<1>2. IsFiniteSet(D)
  BY <1>1, FS_Interval
<1>3. \A i \in D : IsFiniteSet({i} \X (1..reports[i].tags))
  <2> TAKE i \in D
  <2>1. reports[i] \in Reports
    BY <1>1, ElementOfSeq
  <2>2. reports[i].tags \in Nat
    BY <2>1 DEF Reports
  <2>3. IsFiniteSet({i}) /\ IsFiniteSet(1..reports[i].tags)
    <3>1. IsFiniteSet({i})
      BY FS_Singleton, Zenon
    <3>2. IsFiniteSet(1..reports[i].tags)
      BY <2>2, FS_Interval
    <3>3. QED
      BY <3>1, <3>2
  <2>4. QED
    BY <2>3, FS_Product
<1>4. f \in Surjection(D, T)
  BY DEF Surjection
<1> HIDE DEF D, f
<1>5. IsFiniteSet(T)
  BY <1>2, <1>4, FS_Surjection
<1>6. \A t \in T : IsFiniteSet(t)
  BY <1>3
<1>7. IsFiniteSet(UNION T) /\ Tags(reports) = Cardinality(UNION T)
  BY <1>5, <1>6, FS_UNION DEF Tags, D
<1> HIDE DEF T
<1>8. QED
  BY <1>7, FS_CardinalityType

-------------------------------------------------------------------------------
(* What the parts of an action leave of the types.                         *)
LEMMA EndedTypes ==
  ASSUME CallerTypes, stream \in Streams, NEW result, NEW h \in Histories, Ended(result, h)
  PROVE  CallerTypes' /\ stream' \in Streams /\ history' \in Histories
<1>1. ASSUME caller.doing = "starting" /\ result # "ok" PROVE CallerTypes'
  <2>1. caller' = [caller EXCEPT !.at = "ready", !.script = StreamScript(caller.plan)]
    BY <1>1 DEF Ended
  <2>2. StreamScript(caller.plan) \in Seq(Steps)
    BY <1>1, ScriptTypes DEF CallerTypes
  <2>3. /\ caller' \in Callers /\ caller'.at = "ready"
        /\ caller'.doing = caller.doing /\ caller'.plan = caller.plan
    BY <2>1, <2>2 DEF CallerTypes, Callers
  <2>4. QED
    BY <2>3 DEF CallerTypes
<1>2. ASSUME ~(caller.doing = "starting" /\ result # "ok") PROVE CallerTypes'
  <2>1. PICK d \in {"destroyed", "unbooted", "nothing"} :
          caller' = [caller EXCEPT !.at = "ready", !.script = <<>>, !.doing = d]
    BY <1>2 DEF Ended, CallerTypes, Callers
  <2>2. <<>> \in Seq(Steps)
    BY EmptySeq
  <2>3. caller' \in Callers /\ caller'.at = "ready" /\ caller'.doing = d
    BY <2>1, <2>2 DEF CallerTypes, Callers, Doings
  <2>4. QED
    BY <2>3 DEF CallerTypes
<1>3. stream' \in Streams
  BY DEF Ended, Streams
<1>4. history' \in Histories
  <2>1. CASE result = "ok"
    <3>1. PICK w \in {"none", "on", "done"} : history' = [h EXCEPT !.walk = w]
      BY <2>1 DEF Ended, Histories
    <3>2. QED
      BY <3>1 DEF Histories
  <2>2. CASE result # "ok"
    <3>1. PICK b \in SUBSET Nat : history' = [h EXCEPT !.broken = b]
      BY <2>2 DEF Ended, Histories
    <3>2. QED
      BY <3>1 DEF Histories
  <2>3. QED
    BY <2>1, <2>2
<1>5. QED
  BY <1>1, <1>2, <1>3, <1>4 DEF CallerTypes

(* Going on keeps the types.                                               *)
LEMMA ProceedTypes ==
  ASSUME CallerTypes, stream \in Streams, NEW script \in Seq(Steps), NEW h \in Histories,
         Proceed(script, h)
  PROVE  CallerTypes' /\ stream' \in Streams /\ history' \in Histories
<1>1. CASE script = <<>>
  BY <1>1, EndedTypes DEF Proceed
<1>2. CASE script # <<>>
  BY <1>2 DEF Proceed, CallerTypes, Callers
<1>3. QED
  BY <1>1, <1>2

(* So does a command that fails.                                           *)
LEMMA FailsTypes ==
  ASSUME CallerTypes, stream \in Streams, caller.script # <<>>, NEW h \in Histories, Fails(h)
  PROVE  CallerTypes' /\ stream' \in Streams /\ history' \in Histories
<1>1. Tail(caller.script) \in Seq(Steps)
  BY HeadTailProperties DEF CallerTypes, Callers
<1>2. QED
  BY <1>1, EndedTypes, ProceedTypes DEF Fails

(* The receiver set to work again is a receiver.                           *)
LEMMA ResumedType ==
  ASSUME receiver \in Receivers
  PROVE  /\ Resumed \in Receivers
         /\ Resumed.at = receiver.at /\ Resumed.holds = receiver.holds
BY DEF Resumed, Receivers

(* An answer keeps the types.                                              *)
LEMMA AnsweredTypes ==
  ASSUME ThreadTypes, CallerTypes, caller.script # <<>>, NEW m, NEW h \in Histories,
         Answered(m, h)
  PROVE  /\ CallerTypes' /\ stream' \in Streams /\ history' \in Histories
         /\ receiver' \in Receivers
         /\ receiver'.at = "store" => receiver.at = "store" /\ receiver'.holds = receiver.holds
<1>0. receiver \in Receivers /\ stream \in Streams
  BY DEF ThreadTypes
<1>1. Tail(caller.script) \in Seq(Steps)
  BY HeadTailProperties DEF CallerTypes, Callers
<1> DEFINE Goal == CallerTypes' /\ stream' \in Streams /\ history' \in Histories
<1>2. ASSUME m.ok PROVE Goal
  <2>1. PICK more : /\ more = <<>> \/ more = <<"stopOld", "disableOld">> \/ more = <<"stopOld">>
                    /\ Proceed(more \o Tail(caller.script), h)
    BY <1>2 DEF Answered, StopScript
  <2>2. {"stopOld", "disableOld"} \subseteq Steps
    BY DEF Steps, Commands
  <2>3. more \in Seq(Steps)
    <3>1. <<"stopOld", "disableOld">> \in Seq(Steps) /\ <<"stopOld">> \in Seq(Steps)
      BY <2>2
    <3>2. QED
      BY <2>1, <3>1, EmptySeq
  <2>4. more \o Tail(caller.script) \in Seq(Steps)
    BY <1>1, <2>3, ConcatProperties
  <2>5. QED
    BY <1>0, <2>1, <2>4, ProceedTypes
<1>3. ASSUME ~m.ok PROVE Goal
  <2>1. Fails(h)
    BY <1>3 DEF Answered
  <2>2. QED
    BY <1>0, <2>1, FailsTypes
<1>4. \/ receiver' = Resumed
      \/ receiver' = [receiver EXCEPT !.setup = TRUE, !.enabled = TRUE, !.at = "park"]
  BY DEF Answered
<1>5. receiver \in Receivers
  BY <1>0
<1>6. /\ receiver' \in Receivers
      /\ receiver'.at = "store" => receiver.at = "store" /\ receiver'.holds = receiver.holds
  <2>1. CASE receiver' = Resumed
    BY <1>5, <2>1, ResumedType
  <2>2. CASE receiver' = [receiver EXCEPT !.setup = TRUE, !.enabled = TRUE, !.at = "park"]
    BY <1>5, <2>2 DEF Receivers
  <2>3. QED
    BY <1>4, <2>1, <2>2
<1>7. QED
  BY <1>2, <1>3, <1>6

(* A report stored leaves an array of reports.                             *)
LEMMA StoredType ==
  ASSUME NEW b \in Buffers, NEW m \in Message
  PROVE  Stored(b, m) \in Buffers
<1> DEFINE report == [round |-> m.round, tags |-> m.tags, freed |-> FALSE]
<1>1. report \in Reports
  BY DEF Reports, Message
<1>2. Append(b.reports, report) \in Seq(Reports) /\ <<report>> \in Seq(Reports)
  BY <1>1, AppendProperties DEF Buffers
<1> HIDE DEF report
<1>3. Stored(b, m) = IF b.live THEN [b EXCEPT !.reports = Append(b.reports, report)]
                     ELSE [b EXCEPT !.live = TRUE, !.reports = <<report>>]
  BY DEF Stored, report
<1>4. QED
  BY <1>2, <1>3 DEF Buffers

(* The receiver at the end of its loop is a receiver.                      *)
LEMMA LoopEndsType ==
  ASSUME receiver \in Receivers
  PROVE  LoopEnds \in Receivers /\ LoopEnds.at # "store"
<1> DEFINE a == CASE caller.doing = "destroying" -> "exit"
                  [] receiver.enabled            -> "select"
                  [] OTHER                       -> "park"
           r == receiver.running /\ (receiver.enabled \/ caller.doing = "destroying")
<1>1. LoopEnds = [receiver EXCEPT !.holds = <<>>, !.at = a, !.running = r]
  BY DEF LoopEnds, Receivers
<1>2. <<>> \in Seq(Message)
  BY EmptySeq
<1>3. a \in {"select", "park", "exit"} /\ r \in BOOLEAN
  BY DEF Receivers
<1> HIDE DEF a, r
<1>4. QED
  BY <1>1, <1>2, <1>3 DEF Receivers

(* What the reader sends is a message.                                     *)
LEMMA MessageTypes ==
  /\ \A c \in Commands, ok \in BOOLEAN : Answer(c, ok) \in Message
  /\ \A ok \in BOOLEAN : Answer("stopRO", ok) \in Message
  /\ \A r, n \in Nat : Report(r, n) \in Message
  /\ EndOfROSpec \in Message /\ KeepAlive \in Message
<1>1. \A c \in Commands, ok \in BOOLEAN : Answer(c, ok) \in Message
  BY DEF Answer, Message
<1>2. AnswerType("stopRO") = AnswerType("stopOld") /\ "stopOld" \in Commands
  BY DEF AnswerType, Commands
<1>3. \A ok \in BOOLEAN : Answer("stopRO", ok) \in Message
  BY <1>2 DEF Answer, Message
<1>4. QED
  BY <1>1, <1>3 DEF Report, EndOfROSpec, KeepAlive, Message

(* What a command asks for is a request.                                   *)
LEMMA RequestType ==
  ASSUME caller \in Callers, history \in Histories, roSpecId \in Nat, NEW id \in Nat,
         NEW c \in Commands \cup {"enableEvents", "getReport", "stopRO"}
  PROVE  Request(c, id) \in Commanded
BY DEF Request, Commanded, Callers, Histories

(* A request sent leaves a queue of requests.                              *)
LEMMA SentType ==
  ASSUME requests \in Seq(Commanded), NEW q \in Commanded
  PROVE  Sent(q) \in Seq(Commanded)
BY AppendProperties DEF Sent

(* What touching the array may come to.                                    *)
LEMMA TouchedType == \A used : Touched(used) \in {"none", "race", "freed", "walk", "join"}
BY DEF Touched

(* A round more is a history.                                              *)
LEMMA NewRoundType ==
  ASSUME history \in Histories, NEW loose \in BOOLEAN
  PROVE  NewRound(loose) \in Histories
<1> DEFINE l == IF loose THEN history.loose \cup {history.round + 1} ELSE history.loose
           n == history.round + 1
           o == history.operations + 1
<1>1. l \in SUBSET Nat /\ n \in Nat /\ o \in Nat
  BY DEF Histories
<1>2. NewRound(loose) = [history EXCEPT !.round = n, !.operations = o, !.walk = "none",
                           !.lost = FALSE, !.loose = l, !.reported = 0, !.returned = 0]
  BY DEF NewRound, Histories
<1> HIDE DEF l, n, o
<1> DEFINE h == [history EXCEPT !.round = n, !.operations = o, !.walk = "none", !.lost = FALSE]
<1>3. h \in Histories
  BY <1>1 DEF Histories
<1>4. [h EXCEPT !.loose = l, !.reported = 0, !.returned = 0] \in Histories
  <2> HIDE DEF h
  <2>1. QED
    BY <1>1, <1>3 DEF Histories
<1>5. NewRound(loose) = [h EXCEPT !.loose = l, !.reported = 0, !.returned = 0]
  BY <1>2 DEF Histories
<1>6. QED
  BY <1>4, <1>5

-------------------------------------------------------------------------------
(* Each action keeps the types.                                            *)
LEMMA SpecsTypes ==
  ASSUME specs \subseteq ROSpecs
  PROVE  \A id : \A st \in {"disabled", "inactive", "active"} : Become(id, st) \subseteq ROSpecs
BY DEF Become, ROSpecs

(* A command carried out keeps the types.                                  *)
LEMMA CarriedOutTypes ==
  ASSUME specs \subseteq ROSpecs, notify \in BOOLEAN, NEW q \in Commanded, CarriedOut(q)
  PROVE  specs' \subseteq ROSpecs /\ notify' \in BOOLEAN
<1>1. CASE q.command = "deleteRO"
  BY <1>1 DEF CarriedOut
<1>2. CASE q.command = "addRO"
  <2>1. [id |-> q.id, round |-> q.round, state |-> "disabled", timed |-> q.timed,
         periodic |-> q.periodic, left |-> MaxReports] \in ROSpecs
    BY LlrpAssumption DEF ROSpecs, Commanded
  <2>2. QED
    BY <1>2, <2>1 DEF CarriedOut
<1>3. CASE q.command = "enableRO"
  <2>1. \A s \in specs : \A st \in {"inactive", "active"} : [s EXCEPT !.state = st] \in ROSpecs
    BY DEF ROSpecs
  <2>2. QED
    BY <1>3, <2>1 DEF CarriedOut
<1>4. CASE q.command \notin {"deleteRO", "addRO", "enableRO"}
  BY <1>4, SpecsTypes DEF CarriedOut
<1>5. QED
  BY <1>1, <1>2, <1>3, <1>4

(* What the reader does keeps the types.                                   *)
LEMMA ModuleTypes ==
  ASSUME TypesInv, ModuleStep \/ LinkFails
  PROVE  TypesInv'
<1> USE DEF TypesInv
<1>1. CASE ModuleHandles
  <2>1. Head(requests) \in Commanded /\ requests' \in Seq(Commanded)
    BY <1>1, HeadTailProperties DEF ModuleHandles, SocketTypes
  <2>2. specs' \subseteq ROSpecs /\ notify' \in BOOLEAN
    BY <1>1, <2>1, CarriedOutTypes DEF ModuleHandles, SocketTypes
  <2>3. wire' \in Seq(Message)
    <3>1. CASE Head(requests).command \in {"enableEvents", "getReport"}
      BY <1>1, <3>1 DEF ModuleHandles, SocketTypes
    <3>2. CASE Head(requests).command \notin {"enableEvents", "getReport"}
      <4>1. PICK ok \in BOOLEAN : wire' = Append(wire, Answer(Head(requests).command, ok))
        BY <1>1, <3>2 DEF ModuleHandles
      <4>2. Answer(Head(requests).command, ok) \in Message
        BY <2>1, <3>2, MessageTypes DEF Commanded
      <4>3. QED
        BY <4>1, <4>2, AppendProperties DEF SocketTypes
    <3>3. QED
      BY <3>1, <3>2
  <2>4. history' \in Histories
    <3>1. history' = history \/ history' = [history EXCEPT !.troubles = history.troubles + 1]
      BY <1>1 DEF ModuleHandles
    <3>2. history \in Histories /\ history.troubles + 1 \in Nat
      BY DEF DataTypes, Histories
    <3>3. QED
      BY <3>1, <3>2 DEF Histories
  <2>5. QED
    BY <1>1, <2>1, <2>2, <2>3, <2>4
       DEF ModuleHandles, SocketTypes, ThreadTypes, CallerTypes, DataTypes
<1>2. CASE ModuleReports
  <2>1. PICK s \in specs, n \in {ReportSize, 0} :
          /\ s.left > 0 /\ specs' = (specs \ {s}) \cup {[s EXCEPT !.left = @ - 1]}
          /\ wire' = Append(wire, Report(s.round, n))
          /\ history' = [history EXCEPT !.empty = @ \/ n = 0,
                           !.troubles = IF n = 0 THEN @ + 1 ELSE @,
                           !.reported = IF s.round = history.round THEN @ + n ELSE @]
    BY <1>2 DEF ModuleReports
  <2>2. n \in Nat
    BY LlrpAssumption
  <2>3. s \in ROSpecs
    BY DEF SocketTypes
  <2>4. specs' \subseteq ROSpecs
    <3>1. s.left - 1 \in 0..MaxReports
      BY <2>1, <2>3, LlrpAssumption DEF ROSpecs
    <3>2. [s EXCEPT !.left = s.left - 1] \in ROSpecs
      BY <2>3, <3>1 DEF ROSpecs
    <3>3. QED
      BY <2>1, <3>2 DEF SocketTypes
  <2>5. wire' \in Seq(Message)
    BY <2>1, <2>2, <2>3, MessageTypes, AppendProperties DEF SocketTypes, ROSpecs
  <2>6. history' \in Histories
    <3> DEFINE t == IF n = 0 THEN history.troubles + 1 ELSE history.troubles
               r == IF s.round = history.round THEN history.reported + n ELSE history.reported
               e == history.empty \/ n = 0
    <3>1. t \in Nat /\ r \in Nat /\ e \in BOOLEAN
      BY <2>2 DEF DataTypes, Histories
    <3>2. history' = [history EXCEPT !.empty = e, !.troubles = t, !.reported = r]
      BY <2>1 DEF DataTypes, Histories
    <3> HIDE DEF t, r, e
    <3>3. QED
      BY <3>1, <3>2 DEF DataTypes, Histories
  <2>7. QED
    BY <1>2, <2>4, <2>5, <2>6 DEF ModuleReports, SocketTypes, ThreadTypes, CallerTypes, DataTypes
<1>3. CASE ModuleEnds
  <2>1. specs' \subseteq ROSpecs
    BY <1>3, SpecsTypes DEF ModuleEnds, SocketTypes
  <2>2. wire' \in Seq(Message)
    BY <1>3, MessageTypes, AppendProperties DEF ModuleEnds, SocketTypes
  <2>3. QED
    BY <1>3, <2>1, <2>2 DEF ModuleEnds, SocketTypes, ThreadTypes, CallerTypes, DataTypes
<1>4. CASE ModulePulses
  <2>1. wire' \in Seq(Message)
    BY <1>4, MessageTypes, AppendProperties DEF ModulePulses, SocketTypes
  <2>2. monitor' \in Monitors
    <3>1. OneMore(monitor.quiet) \in 0..LostAfter
      BY LlrpAssumption DEF OneMore, ThreadTypes, Monitors
    <3>2. monitor' = [monitor EXCEPT !.quiet = OneMore(monitor.quiet)]
      BY <1>4 DEF ModulePulses
    <3>3. QED
      BY <3>1, <3>2 DEF ThreadTypes, Monitors
  <2>3. history' \in Histories
    <3>1. history.keepAlives + 1 \in Nat
      BY DEF DataTypes, Histories
    <3>2. history' = [history EXCEPT !.keepAlives = history.keepAlives + 1]
      BY <1>4 DEF ModulePulses
    <3>3. QED
      BY <3>1, <3>2 DEF DataTypes, Histories
  <2>4. QED
    BY <1>4, <2>1, <2>2, <2>3 DEF ModulePulses, SocketTypes, ThreadTypes, CallerTypes, DataTypes
<1>5. CASE LinkFails
  <2>1. <<>> \in Seq(Commanded)
    BY EmptySeq
  <2>2. QED
    BY <1>5, <2>1 DEF LinkFails, SocketTypes, ThreadTypes, CallerTypes, DataTypes
<1>6. QED
  BY <1>1, <1>2, <1>3, <1>4, <1>5 DEF ModuleStep

(* So does the receiver thread.                                            *)
LEMMA ReceiverTypes ==
  ASSUME TypesInv, ReceiverStep
  PROVE  TypesInv'
<1> USE DEF TypesInv
<1>1. CASE ReceiverGoes
  <2>1. receiver' \in Receivers /\ receiver'.at = "select"
    BY <1>1 DEF ReceiverGoes, ThreadTypes, Receivers
  <2>2. QED
    BY <1>1, <2>1 DEF ReceiverGoes, SocketTypes, ThreadTypes, CallerTypes, DataTypes
<1>2. CASE ReceiverTakes
  <2>1. Head(wire) \in Message /\ wire' \in Seq(Message)
    BY <1>2, HeadTailProperties DEF ReceiverTakes, SocketTypes
  <2>2. /\ receiver' \in Receivers
        /\ receiver'.at = "store" => Len(receiver'.holds) = 1 /\ receiver'.holds[1].kind = "report"
    <3>1. CASE Head(wire).kind = "report"
      <4>1. receiver' = [receiver EXCEPT !.at = "store", !.holds = <<Head(wire)>>]
        BY <1>2, <3>1 DEF ReceiverTakes
      <4>2. <<Head(wire)>> \in Seq(Message) /\ Len(<<Head(wire)>>) = 1
            /\ <<Head(wire)>>[1] = Head(wire)
        BY <2>1
      <4>3. QED
        BY <3>1, <4>1, <4>2 DEF ThreadTypes, Receivers
    <3>2. CASE Head(wire).kind # "report"
      BY <1>2, <3>2, LoopEndsType DEF ReceiverTakes, ThreadTypes
    <3>3. QED
      BY <3>1, <3>2
  <2>3. events' \in Int
    BY <1>2 DEF ReceiverTakes, EventsAfter, DataTypes
  <2>4. monitor' \in Monitors
    BY <1>2 DEF ReceiverTakes, ThreadTypes, Monitors
  <2>5. QED
    BY <1>2, <2>1, <2>2, <2>3, <2>4
       DEF ReceiverTakes, SocketTypes, ThreadTypes, CallerTypes, DataTypes
<1>3. CASE ReceiverStores
  <2>1. receiver.holds[1] \in Message
    BY <1>3, ElementOfSeq DEF ReceiverStores, ThreadTypes, Receivers
  <2>2. buffer' \in Buffers
    BY <1>3, <2>1, StoredType DEF ReceiverStores, DataTypes
  <2>3. receiver' \in Receivers /\ receiver'.at # "store"
    BY <1>3, LoopEndsType DEF ReceiverStores, ThreadTypes
  <2>4. QED
    BY <1>3, <2>2, <2>3 DEF ReceiverStores, SocketTypes, ThreadTypes, CallerTypes, DataTypes
<1>4. CASE ReceiverIdles
  <2>1. receiver' \in Receivers /\ receiver'.at # "store"
    BY <1>4, LoopEndsType DEF ReceiverIdles, ThreadTypes
  <2>2. QED
    BY <1>4, <2>1 DEF ReceiverIdles, SocketTypes, ThreadTypes, CallerTypes, DataTypes
<1>5. CASE ReceiverFails
  <2>1. receiver' \in Receivers /\ receiver'.at # "store"
    BY <1>5, LoopEndsType DEF ReceiverFails, ThreadTypes
  <2>2. monitor' \in Monitors /\ events' \in Int
    <3>1. OneMore(monitor.quiet) \in 0..LostAfter
      BY LlrpAssumption DEF OneMore, ThreadTypes, Monitors
    <3>2. MissedAfter(OneMore(monitor.quiet)) \in 0..KeepAliveMisses
      BY LlrpAssumption DEF MissedAfter, ThreadTypes, Monitors
    <3>3. 0 \in 0..LostAfter /\ LostAfter \in 0..LostAfter /\ 0 \in 0..KeepAliveMisses
      BY LlrpAssumption
    <3> DEFINE q == OneMore(monitor.quiet)
    <3>4. /\ \/ monitor' = [fresh |-> FALSE, quiet |-> 0, missed |-> 0]
             \/ monitor' = [fresh |-> TRUE, quiet |-> LostAfter, missed |-> 0]
             \/ monitor' = [monitor EXCEPT !.quiet = q, !.missed = MissedAfter(q)]
          /\ events' = events \/ events' = -1
      BY <1>5 DEF ReceiverFails
    <3> HIDE DEF q
    <3>5. q \in 0..LostAfter /\ MissedAfter(q) \in 0..KeepAliveMisses
      BY <3>1, <3>2 DEF q
    <3>6. monitor' \in Monitors
      <4>1. monitor \in Monitors
        BY DEF ThreadTypes
      <4>2. [monitor EXCEPT !.quiet = q, !.missed = MissedAfter(q)] \in Monitors
        BY <3>5, <4>1 DEF Monitors
      <4>3. /\ [fresh |-> FALSE, quiet |-> 0, missed |-> 0] \in Monitors
            /\ [fresh |-> TRUE, quiet |-> LostAfter, missed |-> 0] \in Monitors
        BY <3>3 DEF Monitors
      <4>4. QED
        BY <3>4, <4>2, <4>3
    <3>7. QED
      BY <3>4, <3>6 DEF DataTypes
  <2>3. QED
    BY <1>5, <2>1, <2>2 DEF ReceiverFails, SocketTypes, ThreadTypes, CallerTypes, DataTypes
<1>6. QED
  BY <1>1, <1>2, <1>3, <1>4, <1>5 DEF ReceiverStep

(* So does the background read.                                            *)
LEMMA StreamTypes ==
  ASSUME TypesInv, StreamStep
  PROVE  TypesInv'
<1> USE DEF TypesInv
<1>1. CASE StreamAsks
  <2>1. requests' \in Seq(Commanded)
    BY <1>1, RequestType, SentType DEF StreamAsks, SocketTypes, CallerTypes, DataTypes
  <2>2. stream' \in Streams
    BY <1>1 DEF StreamAsks, ThreadTypes, Streams
  <2>3. QED
    BY <1>1, <2>1, <2>2 DEF StreamAsks, SocketTypes, ThreadTypes, CallerTypes, DataTypes
<1>2. CASE StreamTakes
  <2>1. Head(wire) \in Message /\ wire' \in Seq(Message)
    BY <1>2, HeadTailProperties DEF StreamTakes, SocketTypes
  <2>2. stream' \in Streams
    BY <1>2 DEF StreamTakes, ThreadTypes, Streams
  <2>3. monitor' \in Monitors
    <3>1. monitor' = monitor \/ monitor' = [monitor EXCEPT !.quiet = 0, !.missed = 0]
      BY <1>2 DEF StreamTakes
    <3>2. 0 \in 0..LostAfter /\ 0 \in 0..KeepAliveMisses /\ monitor \in Monitors
      BY LlrpAssumption DEF ThreadTypes
    <3>3. QED
      BY <3>1, <3>2 DEF Monitors
  <2>4. buffer' \in Buffers
    BY <1>2, EmptySeq DEF StreamTakes, DataTypes, Buffers
  <2>5. pending' \in Seq(Message)
    BY <1>2, <2>1 DEF StreamTakes, DataTypes
  <2>6. QED
    BY <1>2, <2>1, <2>2, <2>3, <2>4, <2>5
       DEF StreamTakes, SocketTypes, ThreadTypes, CallerTypes, DataTypes
<1>3. CASE StreamTimesOut
  <2>1. requests' \in Seq(Commanded)
    <3>1. StopCommand \in Commands \cup {"enableEvents", "getReport", "stopRO"}
      BY DEF StopCommand, Commands
    <3>2. QED
      BY <1>3, <3>1, RequestType, SentType DEF StreamTimesOut, SocketTypes, CallerTypes, DataTypes
  <2>2. /\ stream' \in Streams /\ receiver' \in Receivers /\ receiver'.at = receiver.at
        /\ receiver'.holds = receiver.holds
    BY ZenonT(40), <1>3 DEF StreamTimesOut, ThreadTypes, Streams, Receivers
  <2>3. history' \in Histories
    <3>1. \/ history' = history
          \/ history' = [history EXCEPT !.broken = history.broken \cup {history.round},
                 !.lost = TRUE]
      BY <1>3 DEF StreamTimesOut
    <3>2. history.broken \cup {history.round} \in SUBSET Nat
      BY DEF DataTypes, Histories
    <3>3. QED
      BY <3>1, <3>2 DEF DataTypes, Histories
  <2>4. monitor' \in Monitors
    <3>1. OneMore(monitor.quiet) \in 0..LostAfter /\ monitor.quiet \in 0..LostAfter
      BY LlrpAssumption DEF OneMore, ThreadTypes, Monitors
    <3>2. \A q \in 0..LostAfter : MissedAfter(q) \in 0..KeepAliveMisses
      BY LlrpAssumption DEF MissedAfter, ThreadTypes, Monitors
    <3>3. 0 \in 0..KeepAliveMisses
      BY LlrpAssumption
    <3>4. QED
      BY <1>3, <3>1, <3>2, <3>3 DEF StreamTimesOut, ThreadTypes, Monitors
  <2>5. QED
    BY <1>3, <2>1, <2>2, <2>3, <2>4
       DEF StreamTimesOut, SocketTypes, ThreadTypes, CallerTypes, DataTypes
<1>4. QED
  BY <1>1, <1>2, <1>3 DEF StreamStep

(* So do the operations of the application.                                *)
LEMMA CommandTypes ==
  ASSUME TypesInv, CallerInv, CommandStep
  PROVE  TypesInv'
<1> USE DEF TypesInv
<1>0. /\ stream \in Streams /\ receiver \in Receivers /\ caller \in Callers
      /\ history \in Histories /\ roSpecId \in Nat
  BY DEF ThreadTypes, CallerTypes, DataTypes
<1>1. CASE SendsOnly
  <2>1. requests' \in Seq(Commanded)
    BY <1>1, RequestType, SentType DEF SendsOnly, SocketTypes, CallerTypes, DataTypes
  <2>2. Ended("failed", history) \/ Proceed(Tail(caller.script), history)
    BY <1>1 DEF SendsOnly
  <2>3. Tail(caller.script) \in Seq(Steps)
    BY <1>0, <1>1, HeadTailProperties DEF SendsOnly, FirstIs, Callers
  <2>4. CallerTypes' /\ stream' \in Streams /\ history' \in Histories
    BY <1>0, <2>2, <2>3, EndedTypes, ProceedTypes
  <2>5. QED
    BY <1>1, <2>1, <2>4 DEF SendsOnly, SocketTypes, ThreadTypes, DataTypes
<1>2. CASE Counts
  <2>1. Proceed(Tail(caller.script), history)
    BY <1>2 DEF Counts
  <2>2. Tail(caller.script) \in Seq(Steps)
    BY <1>0, <1>2, HeadTailProperties DEF Counts, FirstIs, Callers
  <2>3. CallerTypes' /\ stream' \in Streams /\ history' \in Histories
    BY <1>0, <2>1, <2>2, ProceedTypes
  <2>4. events' \in Int
    BY <1>2 DEF Counts
  <2>5. QED
    BY <1>2, <2>3, <2>4 DEF Counts, SocketTypes, ThreadTypes, DataTypes
<1>3. CASE Quiets
  <2>1. receiver' \in Receivers /\ receiver'.at = receiver.at /\ receiver'.holds = receiver.holds
    BY <1>0, <1>3 DEF Quiets, Receivers
  <2>2. CallerTypes'
    <3>1. /\ caller' \in Callers /\ caller'.doing = caller.doing /\ caller'.plan = caller.plan
          /\ caller'.script = caller.script
      BY <1>0, <1>3 DEF Quiets, Callers
    <3>2. caller.script # <<>> /\ Head(caller.script) \in Commands
      BY <1>3 DEF Quiets, FirstIs
    <3>3. QED
      BY <3>1, <3>2 DEF CallerTypes
  <2>3. QED
    BY <1>3, <2>1, <2>2 DEF Quiets, SocketTypes, ThreadTypes, DataTypes
<1>4. CASE Sends
  <2>1. caller.script # <<>> /\ Head(caller.script) \in Commands
    BY <1>4 DEF Sends, CallerTypes
  <2>2. roSpecId' \in Nat
    BY <1>0, <1>4 DEF Sends, GivenId
  <2>3. CASE link = "closed"
    <3>1. Fails(history) /\ receiver' = Resumed /\ requests' = requests
      BY <1>4, <2>3 DEF Sends
    <3>2. CallerTypes' /\ stream' \in Streams /\ history' \in Histories
      BY <1>0, <2>1, <3>1, FailsTypes
    <3>3. receiver' \in Receivers /\ receiver'.at = receiver.at /\ receiver'.holds = receiver.holds
      BY <1>0, <3>1, ResumedType
    <3>4. QED
      BY <1>4, <2>2, <3>1, <3>2, <3>3 DEF Sends, SocketTypes, ThreadTypes, DataTypes
  <2>4. CASE link # "closed"
    <3>1. requests' \in Seq(Commanded)
      <4>1. requests' = Sent(Request(Head(caller.script), roSpecId'))
        BY <1>4, <2>4 DEF Sends
      <4>2. Request(Head(caller.script), roSpecId') \in Commanded
        BY <1>0, <2>1, <2>2, RequestType
      <4>3. QED
        BY <4>1, <4>2, SentType DEF SocketTypes
    <3>2. CallerTypes'
      <4>1. /\ caller' \in Callers /\ caller'.doing = caller.doing /\ caller'.plan = caller.plan
            /\ caller'.script = caller.script
        BY <1>0, <1>4, <2>4 DEF Sends, Callers
      <4>2. QED
        BY <2>1, <4>1 DEF CallerTypes
    <3>3. UNCHANGED <<receiver, stream, history>>
      BY <1>4, <2>4 DEF Sends
    <3>4. QED
      BY <1>4, <2>2, <3>1, <3>2, <3>3 DEF Sends, SocketTypes, ThreadTypes, DataTypes
  <2>5. QED
    BY <2>3, <2>4
<1>5. CASE CommandTakes
  <2> DEFINE m == Head(wire)
             h == [history EXCEPT !.eaten = @ \/ (continuousReading /\ m.kind = "keepAlive")]
  <2>1. m \in Message /\ wire' \in Seq(Message)
    BY <1>5, HeadTailProperties DEF CommandTakes, SocketTypes
  <2>2. h \in Histories
    BY <1>0 DEF Histories
  <2>3. caller.script # <<>>
    BY <1>5 DEF CommandTakes, CallerTypes
  <2>4. \/ \E a : Answered(a, h)
        \/ history' = h /\ UNCHANGED <<receiver, caller, stream>>
    BY <1>5 DEF CommandTakes
  <2>5. buffer' = buffer \/ buffer' = Stored(buffer, m)
    BY <1>5 DEF CommandTakes
  <2>6. events' = events \/ events' = EventsAfter(m)
    BY <1>5 DEF CommandTakes
  <2>7. pending' = pending \/ pending' = <<>>
    BY <1>5 DEF CommandTakes
  <2> HIDE DEF m, h
  <2>8. /\ CallerTypes' /\ stream' \in Streams /\ history' \in Histories /\ receiver' \in Receivers
        /\ receiver'.at = "store" => receiver.at = "store" /\ receiver'.holds = receiver.holds
    <3>1. CASE \E a : Answered(a, h)
      BY <2>2, <2>3, <3>1, AnsweredTypes
    <3>2. CASE history' = h /\ UNCHANGED <<receiver, caller, stream>>
      BY <1>0, <2>2, <3>2 DEF CallerTypes
    <3>3. QED
      BY <2>4, <3>1, <3>2
  <2>9. buffer' \in Buffers /\ events' \in Int /\ pending' \in Seq(Message)
    <3>1. buffer' \in Buffers
      BY <2>1, <2>5, StoredType DEF DataTypes
    <3>2. events' \in Int
      BY <2>6 DEF EventsAfter, DataTypes
    <3>3. pending' \in Seq(Message)
      BY <2>7, EmptySeq DEF DataTypes
    <3>4. QED
      BY <3>1, <3>2, <3>3
  <2>10. QED
    BY <1>5, <2>1, <2>8, <2>9 DEF CommandTakes, SocketTypes, ThreadTypes, DataTypes
<1>6. CASE CommandTimesOut
  <2> DEFINE h == [history EXCEPT !.troubles = history.troubles + 1]
  <2>1. caller.script # <<>>
    BY <1>6 DEF CommandTimesOut, CallerTypes
  <2>2. history.troubles + 1 \in Nat
    BY <1>0 DEF Histories
  <2>3. h \in Histories
    BY <1>0, <2>2 DEF Histories
  <2>4. Fails(history) \/ Fails(h)
    BY <1>6 DEF CommandTimesOut
  <2> HIDE DEF h
  <2>5. CallerTypes' /\ stream' \in Streams /\ history' \in Histories
    BY <1>0, <2>1, <2>3, <2>4, FailsTypes
  <2>6. receiver' \in Receivers /\ receiver'.at = receiver.at /\ receiver'.holds = receiver.holds
    BY <1>0, <1>6, ResumedType DEF CommandTimesOut
  <2>7. QED
    BY <1>6, <2>5, <2>6 DEF CommandTimesOut, SocketTypes, ThreadTypes, DataTypes
<1>7. CASE Awaits
  <2>1. Tail(caller.script) \in Seq(Steps)
    BY <1>0, <1>7, HeadTailProperties DEF Awaits, FirstIs, Callers
  <2>2. [history EXCEPT !.lost = TRUE] \in Histories
    BY <1>0 DEF Histories
  <2>3. \/ Ended("lost", [history EXCEPT !.lost = TRUE])
        \/ Proceed(Tail(caller.script), history)
    BY <1>7 DEF Awaits
  <2>4. CallerTypes' /\ stream' \in Streams /\ history' \in Histories
    BY <1>0, <2>1, <2>2, <2>3, EndedTypes, ProceedTypes
  <2>5. buffer' \in Buffers /\ fault' \in {"none", "race", "freed", "walk", "join"}
    <3>1. Tags(buffer.reports) \in Nat
      BY TagsType DEF DataTypes, Buffers
    <3>2. QED
      BY <1>7, <3>1, TouchedType DEF Awaits, DataTypes, Buffers
  <2>6. QED
    BY <1>7, <2>4, <2>5 DEF Awaits, SocketTypes, ThreadTypes, DataTypes
<1>8. CASE AwaitsReport
  <2>1. \E result : Ended(result, history)
    BY <1>8 DEF AwaitsReport
  <2>2. CallerTypes' /\ stream' \in Streams /\ history' \in Histories
    BY <1>0, <2>1, EndedTypes
  <2>3. buffer' \in Buffers /\ fault' \in {"none", "race", "freed", "walk", "join"}
    BY <1>8, TouchedType, EmptySeq DEF AwaitsReport, DataTypes, Buffers
  <2>4. QED
    BY <1>8, <2>2, <2>3 DEF AwaitsReport, SocketTypes, ThreadTypes, DataTypes
<1>9. CASE StartsReading
  <2>1. CallerTypes'
    <3>1. caller.plan \in Plans
      BY <1>9 DEF StartsReading, CallerTypes
    <3>2. StreamScript(caller.plan) \in Seq(Steps)
      BY <3>1, ScriptTypes
    <3>3. /\ caller' \in Callers /\ caller'.plan = caller.plan /\ caller'.at = caller.at
          /\ caller'.doing = "starting" /\ caller'.script = StreamScript(caller.plan)
      BY <1>0, <1>9, <3>2 DEF StartsReading, Begin, Callers, Doings
    <3>4. caller.at = "ready"
      BY <1>9 DEF StartsReading, CallerInv, Resting
    <3>5. QED
      BY <3>1, <3>3, <3>4 DEF CallerTypes
  <2>2. stream' \in Streams /\ monitor' \in Monitors
    BY <1>0, <1>9, LlrpAssumption DEF StartsReading, Streams, ThreadTypes, Monitors
  <2>3. EmptyBuffer \in Buffers
    BY EmptySeq DEF EmptyBuffer, Buffers
  <2>4. history' \in Histories
    <3>1. NewRound(TRUE) \in Histories
      BY <1>0, NewRoundType
    <3>2. history' = [NewRound(TRUE) EXCEPT !.operations = history.operations]
      BY <1>9 DEF StartsReading
    <3>3. QED
      BY <1>0, <3>1, <3>2 DEF Histories
  <2>5. QED
    BY <1>9, <2>1, <2>2, <2>3, <2>4, TouchedType
       DEF StartsReading, SocketTypes, ThreadTypes, DataTypes
<1>10. CASE StopsReading
  <2>1. /\ stream' \in Streams /\ receiver' \in Receivers /\ receiver'.at = receiver.at
        /\ receiver'.holds = receiver.holds
    BY <1>0, <1>10 DEF StopsReading, Streams, Receivers
  <2>2. CallerTypes'
    <3>1. /\ caller' \in Callers /\ caller'.plan = caller.plan /\ caller'.at = caller.at
          /\ caller'.doing = "nothing" /\ caller'.script = caller.script
      BY <1>0, <1>10 DEF StopsReading, Callers, Doings
    <3>2. QED
      BY <3>1 DEF CallerTypes
  <2>3. QED
    BY <1>10, <2>1, <2>2 DEF StopsReading, SocketTypes, ThreadTypes, DataTypes
<1>11. CASE Joins
  <2>1. CallerTypes'
    <3>1. <<"close">> \in Seq(Steps) /\ <<"close">> # <<>> /\ Head(<<"close">>) \in Commands
      BY DEF Steps, Commands
    <3>2. /\ caller' \in Callers /\ caller'.plan = caller.plan /\ caller'.at = caller.at
          /\ caller'.doing = "closing" /\ caller'.script = <<"close">>
      BY <1>0, <1>11, <3>1 DEF Joins, Begin, Callers, Doings
    <3>3. QED
      BY <3>1, <3>2 DEF CallerTypes
  <2>2. receiver' \in Receivers /\ receiver'.at = "exit"
    BY <1>0, <1>11 DEF Joins, Receivers
  <2>3. buffer' \in Buffers
    BY <1>11, EmptySeq DEF Joins, DataTypes, Buffers
  <2>4. QED
    BY <1>11, <2>1, <2>2, <2>3, TouchedType DEF Joins, SocketTypes, ThreadTypes, DataTypes
<1>12. QED
  BY <1>1, <1>2, <1>3, <1>4, <1>5, <1>6, <1>7, <1>8, <1>9, <1>10, <1>11 DEF CommandStep

(* So do the calls of the application.                                     *)
LEMMA UserTypes ==
  ASSUME TypesInv, CallerInv, UserStep
  PROVE  TypesInv'
<1> USE DEF TypesInv
<1>0. /\ stream \in Streams /\ receiver \in Receivers /\ caller \in Callers
      /\ history \in Histories /\ roSpecId \in Nat /\ buffer \in Buffers
  BY DEF ThreadTypes, CallerTypes, DataTypes
<1>a. ASSUME NEW doing \in Doings, NEW plan \in Plans \cup {"none",
               "tagop"}, NEW script \in Seq(Steps),
             caller.doing \in Resting, Begin(doing, plan, script),
             doing \in {"parking", "starting"} => plan \in Plans
      PROVE  CallerTypes'
  <2>1. caller.at = "ready"
    BY <1>a DEF CallerInv
  <2>2. /\ caller' \in Callers /\ caller'.plan = plan /\ caller'.at = caller.at
        /\ caller'.doing = doing
    BY <1>0, <1>a DEF Begin, Callers
  <2>3. QED
    BY <1>a, <2>1, <2>2 DEF CallerTypes
<1>1. CASE Connect
  <2>1. CallerTypes'
    BY <1>1, <1>a, ScriptTypes DEF Connect, Doings, Resting
  <2>2. QED
    BY <1>1, <2>1 DEF Connect, SocketTypes, ThreadTypes, DataTypes
<1>2. CASE Read
  <2>1. CallerTypes'
    BY <1>2, <1>a, ScriptTypes DEF Read, Idle, Doings, Resting
  <2>2. history' \in Histories
    BY <1>0, <1>2, NewRoundType DEF Read
  <2>3. buffer' \in Buffers
    BY <1>2, EmptySeq DEF Read, EmptyBuffer, Buffers
  <2>4. QED
    BY <1>2, <2>1, <2>2, <2>3, TouchedType DEF Read, SocketTypes, ThreadTypes, DataTypes
<1>3. CASE ExecuteTagOp
  <2>1. CallerTypes'
    BY <1>3, <1>a, ScriptTypes DEF ExecuteTagOp, Idle, Doings, Resting
  <2>2. history' \in Histories
    BY <1>0, <1>3, NewRoundType DEF ExecuteTagOp
  <2>3. buffer' \in Buffers
    BY <1>0, <1>3, EmptySeq DEF ExecuteTagOp, Buffers
  <2>4. QED
    BY <1>3, <2>1, <2>2, <2>3, TouchedType DEF ExecuteTagOp, SocketTypes, ThreadTypes, DataTypes
<1>4. CASE AskParameter
  <2>1. CallerTypes'
    <3>1. <<"parameter">> \in Seq(Steps)
      BY DEF Steps, Commands
    <3>2. caller.plan \in Plans \cup {"none", "tagop"}
      BY <1>0 DEF Callers
    <3>3. QED
      BY <1>4, <1>a, <3>1, <3>2 DEF AskParameter, Idle, Doings, Resting
  <2>2. history' \in Histories
    <3>1. history.operations + 1 \in Nat
      BY <1>0 DEF Histories
    <3>2. history' = [history EXCEPT !.operations = history.operations + 1]
      BY <1>4 DEF AskParameter
    <3>3. QED
      BY <1>0, <3>1, <3>2 DEF Histories
  <2>3. QED
    BY <1>4, <2>1, <2>2 DEF AskParameter, SocketTypes, ThreadTypes, DataTypes
<1>5. CASE TakesTag
  <2> DEFINE stay == buffer.current > 1
             idx  == IF stay THEN buffer.bufIndex ELSE buffer.bufIndex + 1
             cur  == IF stay THEN buffer.current - 1 ELSE buffer.reports[idx].tags
             freed == [i \in DOMAIN buffer.reports |->
                         [buffer.reports[i] EXCEPT !.freed = @ \/ i = idx + 1]]
  <2>1. /\ \/ buffer' = buffer /\ history' = history
           \/ /\ idx <= Len(buffer.reports) /\ cur > 0
              /\ buffer' = [buffer EXCEPT !.bufIndex = idx, !.current = cur,
                     !.tagsRemaining = @ - 1]
              /\ history' = [history EXCEPT !.returned = @ + 1]
           \/ /\ buffer' = [buffer EXCEPT !.bufIndex = idx, !.current = 0, !.reports = freed]
              /\ history' = history
        /\ fault' \in {"none", "race", "freed", "walk", "join"}
        /\ buffer.tagsRemaining > 0
    BY <1>5, <1>0, TouchedType DEF TakesTag, Buffers
  <2>2. idx \in Nat /\ (idx <= Len(buffer.reports) => cur \in Nat)
    <3>1. buffer.bufIndex \in Nat /\ buffer.current \in Nat
      BY <1>0 DEF Buffers
    <3>2. buffer.bufIndex + 1 \in Nat /\ (stay => buffer.current - 1 \in Nat)
      BY <3>1
    <3>3. ASSUME idx <= Len(buffer.reports), ~stay PROVE buffer.reports[idx].tags \in Nat
      <4>1. idx \in 1..Len(buffer.reports)
        BY <3>1, <3>3, LenProperties, <1>0 DEF Buffers
      <4>2. buffer.reports[idx] \in Reports
        BY <1>0, <4>1, ElementOfSeq DEF Buffers
      <4>3. QED
        BY <4>2 DEF Reports
    <3>4. QED
      BY <3>1, <3>2, <3>3
  <2>3. freed \in Seq(Reports)
    <3>1. /\ buffer.reports \in Seq(Reports)
          /\ DOMAIN buffer.reports = 1..Len(buffer.reports) /\ Len(buffer.reports) \in Nat
      BY <1>0, LenProperties DEF Buffers
    <3>2. \A i \in 1..Len(buffer.reports) :
            [buffer.reports[i] EXCEPT !.freed = @ \/ i = idx + 1] \in Reports
      <4> TAKE i \in 1..Len(buffer.reports)
      <4>1. buffer.reports[i] \in Reports
        BY <3>1, ElementOfSeq
      <4>2. QED
        BY <4>1 DEF Reports
    <3>3. freed \in [1..Len(buffer.reports) -> Reports]
      BY <3>1, <3>2
    <3> HIDE DEF freed
    <3>4. QED
      BY <3>1, <3>3, SeqDef
  <2>4. history.returned + 1 \in Nat
        /\ (buffer.tagsRemaining > 0 => buffer.tagsRemaining - 1 \in Nat)
    BY <1>0 DEF Histories, Buffers
  <2> HIDE DEF idx, cur, freed
  <2>5. buffer' \in Buffers
    <3>1. ASSUME idx <= Len(buffer.reports)
          PROVE  [buffer EXCEPT !.bufIndex = idx, !.current = cur,
                   !.tagsRemaining = @ - 1] \in Buffers
      BY <1>0, <2>1, <2>2, <2>4, <3>1 DEF Buffers
    <3>2. [buffer EXCEPT !.bufIndex = idx, !.current = 0, !.reports = freed] \in Buffers
      BY <1>0, <2>2, <2>3 DEF Buffers
    <3>3. QED
      BY <1>0, <2>1, <3>1, <3>2
  <2>6. history' \in Histories
    BY <1>0, <2>1, <2>4 DEF Histories
  <2>7. QED
    BY <1>5, <2>1, <2>5, <2>6 DEF TakesTag, SocketTypes, ThreadTypes, CallerTypes, DataTypes
<1>6. CASE EndsWalk
  <2>1. history' \in Histories
    BY <1>0, <1>6 DEF EndsWalk, Histories
  <2>2. buffer' \in Buffers
    BY <1>0, <1>6, EmptySeq DEF EndsWalk, Buffers
  <2>3. QED
    BY <1>6, <2>1, <2>2, TouchedType DEF EndsWalk, SocketTypes, ThreadTypes, CallerTypes, DataTypes
<1>7. CASE StartReading
  <2>1. CallerTypes'
    BY <1>7, <1>a, EmptySeq DEF StartReading, Idle, Doings, Resting
  <2>2. receiver' \in Receivers /\ receiver'.at = receiver.at /\ receiver'.holds = receiver.holds
    BY <1>0, <1>7 DEF StartReading, Receivers
  <2>3. history' \in Histories
    <3>1. history.operations + 1 \in Nat
      BY <1>0 DEF Histories
    <3>2. history' = [history EXCEPT !.operations = history.operations + 1]
      BY <1>7 DEF StartReading
    <3>3. QED
      BY <1>0, <3>1, <3>2 DEF Histories
  <2>4. QED
    BY <1>7, <2>1, <2>2, <2>3 DEF StartReading, SocketTypes, ThreadTypes, DataTypes
<1>8. CASE StopReading
  <2>1. requests' \in Seq(Commanded)
    <3>1. StopCommand \in Commands \cup {"enableEvents", "getReport", "stopRO"}
      BY DEF StopCommand, Commands
    <3>2. QED
      BY <1>0, <1>8, <3>1, RequestType, SentType DEF StopReading, SocketTypes
  <2>2. CallerTypes'
    <3>1. caller.at = "ready"
      BY <1>8 DEF StopReading, CallerInv, Resting
    <3>2. caller' \in Callers /\ caller'.at = caller.at /\ caller'.doing = "stopping"
      BY <1>0, <1>8 DEF StopReading, Callers, Doings
    <3>3. QED
      BY <3>1, <3>2 DEF CallerTypes
  <2>3. QED
    BY <1>8, <2>1, <2>2 DEF StopReading, SocketTypes, ThreadTypes, DataTypes
<1>9. CASE Destroy
  <2>1. CallerTypes'
    <3>1. caller.at = "ready"
      BY <1>9 DEF Destroy, CallerInv, Resting
    <3>2. caller' \in Callers /\ caller'.at = caller.at /\ caller'.doing = "destroying"
      BY <1>0, <1>9 DEF Destroy, Callers, Doings
    <3>3. QED
      BY <3>1, <3>2 DEF CallerTypes
  <2>2. QED
    BY <1>9, <2>1 DEF Destroy, SocketTypes, ThreadTypes, DataTypes
<1>10. QED
  BY <1>1, <1>2, <1>3, <1>4, <1>5, <1>6, <1>7, <1>8, <1>9 DEF UserStep

(* The types hold at first.                                                *)
LEMMA TypesInit == LlrpInit => TypesInv
<1> SUFFICES ASSUME LlrpInit PROVE TypesInv
  OBVIOUS
<1>0. <<>> \in Seq(Commanded) /\ <<>> \in Seq(Message) /\ <<>> \in Seq(Steps)
      /\ <<>> \in Seq(Reports)
  BY EmptySeq
<1>1. PICK trouble \in Troubles :
        /\ specs = IF trouble \notin {"running", "periodic"} THEN {}
                   ELSE {[id |-> 0, round |-> 0, state |-> "active", timed |-> FALSE,
                          periodic |-> trouble = "periodic", left |-> 1]}
        /\ history = [round |-> 0, loose |-> {0}, broken |-> {}, walk |-> "none",
                      eaten |-> FALSE, empty |-> FALSE, lost |-> FALSE, reported |-> 0, returned |-> 0,
                      operations |-> 0, keepAlives |-> 0, trouble |-> trouble, troubles |-> 0]
  BY DEF LlrpInit
<1>2. SocketTypes
  <2>1. 1 \in 0..MaxReports
    BY LlrpAssumption
  <2>2. specs \subseteq ROSpecs
    <3> DEFINE p == trouble = "periodic"
    <3>1. p \in BOOLEAN
      OBVIOUS
    <3>2. specs \subseteq {[id |-> 0, round |-> 0, state |-> "active", timed |-> FALSE,
                           periodic |-> p, left |-> 1]}
      BY <1>1
    <3> HIDE DEF p
    <3>3. [id |-> 0, round |-> 0, state |-> "active", timed |-> FALSE, periodic |-> p,
           left |-> 1] \in ROSpecs
      BY <2>1, <3>1 DEF ROSpecs
    <3>4. QED
      BY <3>2, <3>3
  <2>3. QED
    BY <1>0, <2>2 DEF LlrpInit, SocketTypes
<1>3. ThreadTypes
  <2>1. receiver \in Receivers /\ receiver.at = "none"
    BY <1>0 DEF LlrpInit, Receivers
  <2>2. monitor \in Monitors
    BY LlrpAssumption DEF LlrpInit, Monitors
  <2>3. stream \in Streams
    BY DEF LlrpInit, Streams
  <2>4. QED
    BY <2>1, <2>2, <2>3 DEF ThreadTypes
<1>4. CallerTypes
  <2>1. caller \in Callers /\ caller.doing = "unconnected" /\ caller.at = "ready"
    BY <1>0 DEF LlrpInit, Callers, Doings
  <2>2. QED
    BY <2>1 DEF CallerTypes
<1>5. DataTypes
  <2>1. buffer \in Buffers
    BY <1>0 DEF LlrpInit, Buffers
  <2>2. history \in Histories
    BY <1>1 DEF Histories
  <2>3. QED
    BY <1>0, <2>1, <2>2 DEF LlrpInit, DataTypes
<1>6. QED
  BY <1>2, <1>3, <1>4, <1>5 DEF TypesInv

(* Every step keeps the types.                                             *)
LEMMA TypesKept ==
  ASSUME TypesInv, HandshakeInv, LlrpNext
  PROVE  TypesInv'
<1>1. CallerInv
  BY DEF HandshakeInv
<1>2. QED
  BY <1>1, ModuleTypes, ReceiverTypes, CommandTypes, StreamTypes, UserTypes DEF LlrpNext

(* The types hold from the start on.                                       *)
LEMMA TypesInvariant == LlrpSpec => []TypesInv
<1>1. TypesInv /\ HandshakeInv /\ [LlrpNext]_llrpVars => TypesInv'
  <2> SUFFICES ASSUME TypesInv, HandshakeInv, [LlrpNext]_llrpVars PROVE TypesInv'
    OBVIOUS
  <2>2. CASE LlrpNext
    BY <2>2, TypesKept
  <2>3. CASE UNCHANGED llrpVars
    BY <2>3 DEF llrpVars, TypesInv, SocketTypes, ThreadTypes, CallerTypes, DataTypes
  <2>4. QED
    BY <2>2, <2>3
<1>2. QED
  BY <1>1, TypesInit, HandshakeInvariant, PTL DEF LlrpSpec

(* The variables of the LLRP reader keep their types: in particular the    *)
(* counters of the keep-alive monitor stay within the limits of the code.  *)
THEOREM LlrpTypeCorrect == LlrpSpec => []LlrpTypeOK
<1>1. TypesInv => LlrpTypeOK
  <2> SUFFICES ASSUME TypesInv PROVE LlrpTypeOK
    OBVIOUS
  <2>1. \A i \in DOMAIN requests : requests[i].id \in Nat
    <3> TAKE i \in DOMAIN requests
    <3>1. requests \in Seq(Commanded) /\ i \in 1..Len(requests)
      BY LenProperties DEF TypesInv, SocketTypes
    <3>2. requests[i] \in Commanded
      BY <3>1, ElementOfSeq
    <3>3. QED
      BY <3>2 DEF Commanded
  <2>2. \A s \in specs : s.state \in {"disabled", "inactive", "active"} /\ s.left \in 0..MaxReports
    BY DEF TypesInv, SocketTypes, ROSpecs
  <2>3. /\ receiver.at \in {"none", "park", "select", "store", "exit"}
        /\ monitor \in [fresh : BOOLEAN, quiet : 0..LostAfter, missed : 0..KeepAliveMisses]
        /\ stream.phase \in {"off", "starting", "on", "ended"}
    BY DEF TypesInv, ThreadTypes, Receivers, Monitors, Streams
  <2>4. caller.at \in {"ready", "quieting", "sending", "waiting"}
    BY DEF TypesInv, CallerTypes, Callers
  <2>5. /\ buffer.bufIndex \in Nat /\ buffer.tagsRemaining \in Nat /\ pending \in Seq(Message)
        /\ fault \in {"none", "race", "freed", "walk", "join"} /\ events \in Int /\ roSpecId \in Nat
    BY DEF TypesInv, DataTypes, Buffers
  <2>6. QED
    BY <2>1, <2>2, <2>3, <2>4, <2>5 DEF TypesInv, SocketTypes, LlrpTypeOK
<1>2. QED
  BY <1>1, TypesInvariant, PTL
===============================================================================
