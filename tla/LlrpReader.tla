------------------------------ MODULE LlrpReader ------------------------------
(***************************************************************************)
(* An LLRP reader (llrp_reader.c, llrp_reader_l3.c): the application, the  *)
(* background receiver thread, the reader at the other end of the socket   *)
(* and, while a stream runs, the background read of tm_reader_async.c.     *)
(*                                                                         *)
(* Everything the reader sends arrives on one socket: answers to commands, *)
(* tag reports, end-of-ROSpec events and keep-alives.  A command stops the *)
(* receiver thread, sends, and reads the socket itself until a message of  *)
(* the right TYPE comes; in between it handles the others as the receiver  *)
(* would.  During a stream the receiver rests and the background read and  *)
(* the commands of the application take messages from the socket in turn.  *)
(***************************************************************************)
EXTENDS Integers, FiniteSets, Sequences

CONSTANTS
  Plans,             \* the read plans the application may set
  Troubles,          \* what may go wrong; one kind in a behaviour
  ReportSize,        \* how many tags a report carries
  MaxROSpecs,        \* TMR_LLRP_SYNC_MAX_ROSPECS
  KeepAliveMisses,   \* MAX_KEEP_ALIVE_ACK_MISSES
  LostAfter,         \* keep-alive periods of silence until the link counts as lost
  MaxOperations, MaxReports, MaxKeepAlives, MaxTroubles, MaxWire   \* bounds

ASSUME LlrpAssumption ==
  /\ Plans \subseteq {"simple", "tagop", "multi"}
  /\ Troubles \subseteq {"none", "running", "periodic",    \* left by an earlier session
                           "closed", "silent",             \* the link fails
                           "refusal", "timeout", "empty"}  \* of a command; of a report
  /\ {ReportSize, MaxROSpecs, KeepAliveMisses, LostAfter, MaxWire, MaxReports} \subseteq Nat \ {0}
  /\ KeepAliveMisses <= LostAfter            \* 3 and 4
  /\ {MaxOperations, MaxKeepAlives, MaxTroubles} \subseteq Nat

VARIABLES
  link,       \* "up", "closed" (receiving fails at once) or "silent" (nothing comes)
  requests,   \* commands on their way to the reader
  wire,       \* messages on their way from the reader
  specs,      \* the ROSpecs the reader holds
  notify,     \* the reader sends end-of-ROSpec events
  receiver,   \* the receiver thread and its handshake (receiverSetup, ...)
  monitor,    \* keep-alive bookkeeping (ka_start, keepAliveAckMissCnt, ...)
  caller,     \* the application thread: what it does and what is left to do
  roSpecId,   \* the last ROSpec id given out
  buffer,     \* bufResponse, bufPointer, bufIndex, tagsRemaining, pTagReportData
  events,     \* numOfROSpecEvents
  stream,     \* the background read
  pending,    \* unhandledAsyncResponse: an answer the background read met
  fault,      \* undefined behaviour reached: nothing is said of what follows
  history     \* what happened so far, for the properties and the bounds

llrpVars == <<link, requests, wire, specs, notify, receiver, monitor, caller,
              roSpecId, buffer, events, stream, pending, fault, history>>

\* A command of a script; the answer it waits for is known by its type only.
Commands ==
  {"holdEvents", "getROSpecs", "stopOld", "disableOld", "getRegion", "getCapabilities",
   "getProtocols", "getAntennas", "keepAlive", "deleteRO", "deleteAccess", "notifyOn",
   "notifyOff", "addRO", "enableRO", "addAccess", "enableAccess", "startRO",
   "parameter", "close"}

\* What else a script asks for.
Steps == Commands \cup {"enableEvents", "count1", "count2", "await", "awaitReport"}

AnswerType(c) ==
  CASE c \in {"holdEvents", "keepAlive", "notifyOn", "notifyOff"} -> "SET_READER_CONFIG"
    [] c \in {"getRegion", "getAntennas", "parameter"}            -> "GET_READER_CONFIG"
    [] c \in {"getCapabilities", "getProtocols"}                  -> "GET_READER_CAPABILITIES"
    [] c \in {"stopOld", "stopRO"}                                -> "STOP_ROSPEC"
    [] OTHER                                                      -> c

\* What TMR_LLRP_boot, TMR_LLRP_read and TMR_LLRP_executeTagOp do, in order.
BootScript == <<"holdEvents", "getROSpecs", "getRegion", "getCapabilities",
                "getProtocols", "getAntennas", "keepAlive">>

StopScript(periodic) == IF periodic THEN <<"stopOld", "disableOld">> ELSE <<"stopOld">>

Simple == <<"addRO", "enableRO", "startRO">>

PlanScript(plan) ==
  CASE plan = "simple" -> Simple
    [] plan = "tagop"  -> <<"addRO", "enableRO", "addAccess", "enableAccess", "startRO">>
    [] plan = "multi"  -> <<"count2">> \o Simple \o Simple

\* Seeded: the operation goes on without waiting for its ROSpecs.
ReadScriptSeeded(plan) ==
  <<"enableEvents", "deleteRO", "deleteAccess", "notifyOn", "count1">>
    \o PlanScript(plan) \o <<"notifyOff">>

ReadScript(plan) ==
  <<"enableEvents", "deleteRO", "deleteAccess", "notifyOn", "count1">>
    \o PlanScript(plan) \o <<"await", "notifyOff">>

Periodic(plan) == plan = "multi"

\* The periodic ROSpecs of a multi plan start themselves.
StreamScript(plan) ==
  <<"enableEvents", "deleteRO", "deleteAccess", "count1">>
    \o IF Periodic(plan) THEN <<"count2", "addRO", "enableRO", "addRO", "enableRO">>
                         ELSE PlanScript(plan)

TagOpScript == <<"deleteRO", "deleteAccess", "addRO", "enableRO", "addAccess",
                 "enableAccess", "startRO", "awaitReport">>

\* Whether the first command of the script ends the operation when it fails.
Fatal(script) ==
  /\ Head(script) \notin {"holdEvents", "getRegion", "getCapabilities", "getProtocols",
                          "getAntennas", "deleteRO", "deleteAccess", "close"}
  /\ script[1] = "stopOld" => script[2] # "disableOld"

Message == [kind : {"answer", "report", "event", "keepAlive"},
            of : {AnswerType(c) : c \in Commands} \cup {""}, ok : BOOLEAN, round : Nat, tags : Nat]

Answer(c, ok)   == [kind |-> "answer", of |-> AnswerType(c), ok |-> ok, round |-> 0, tags |-> 0]
Report(r, n)    == [kind |-> "report", of |-> "", ok |-> TRUE, round |-> r, tags |-> n]
EndOfROSpec     == [kind |-> "event", of |-> "", ok |-> TRUE, round |-> 0, tags |-> 0]
KeepAlive       == [kind |-> "keepAlive", of |-> "", ok |-> TRUE, round |-> 0, tags |-> 0]

continuousReading == stream.phase # "off"
Well == fault = "none"
MayHappen(trouble) == history.trouble = trouble /\ history.troubles < MaxTroubles

LlrpInit ==
  \E trouble \in Troubles :
    /\ link = "up" /\ requests = <<>> /\ wire = <<>> /\ notify = FALSE
    /\ specs = IF trouble \notin {"running", "periodic"} THEN {}
               ELSE {[id |-> 0, round |-> 0, state |-> "active", timed |-> FALSE,
                      periodic |-> trouble = "periodic", left |-> 1]}
    /\ receiver = [setup |-> FALSE, enabled |-> FALSE, running |-> FALSE,
                   at |-> "none", holds |-> <<>>]
    /\ monitor = [fresh |-> TRUE, quiet |-> 0, missed |-> 0]
    /\ caller = [doing |-> "unconnected", at |-> "ready", script |-> <<>>,
                 plan |-> "none"]
    /\ roSpecId = 0 /\ events = 0 /\ fault = "none"
    /\ buffer = [live |-> FALSE, reports |-> <<>>, bufIndex |-> 0,
                 tagsRemaining |-> 0, current |-> 0]
    /\ stream = [phase |-> "off", getReport |-> FALSE, reportSeen |-> FALSE]
    /\ pending = <<>>
    /\ history = [round |-> 0, loose |-> {0}, broken |-> {}, walk |-> "none",
                  eaten |-> FALSE, empty |-> FALSE, lost |-> FALSE, reported |-> 0, returned |-> 0,
                  operations |-> 0, keepAlives |-> 0, trouble |-> trouble, troubles |-> 0]

-----------------------------------------------------------------------------
(* The reader at the other end.                                            *)

Become(id, st) == {IF s.id = id THEN [s EXCEPT !.state = st] ELSE s : s \in specs}

\* Messages wait in the reader while the socket is full (MaxWire is a bound).
Room == Len(wire) < MaxWire

\* What a command that is carried out does to the reader.
CarriedOut(q) ==
  /\ specs' = CASE q.command = "deleteRO" -> {}
                [] q.command = "addRO" ->
                     {s \in specs : s.id # q.id}
                       \cup {[id |-> q.id, round |-> q.round, state |-> "disabled",
                              timed |-> q.timed, periodic |-> q.periodic, left |-> MaxReports]}
                [] q.command = "enableRO" ->
                     {IF s.id = q.id
                      THEN [s EXCEPT !.state = IF s.periodic THEN "active" ELSE "inactive"]
                      ELSE s : s \in specs}
                [] q.command = "startRO" -> Become(q.id, "active")
                [] q.command \in {"stopRO", "stopOld"} -> Become(q.id, "inactive")
                [] q.command = "disableOld" -> Become(q.id, "disabled")
                [] OTHER -> specs
  /\ notify' = IF q.command \in {"notifyOn", "notifyOff"} THEN q.command = "notifyOn" ELSE notify

ModuleHandles ==
  /\ Well /\ link = "up" /\ requests # <<>> /\ Room
  /\ requests' = Tail(requests)
  /\ LET q == Head(requests) IN
     \/ /\ q.command \notin {"enableEvents", "getReport"}
        /\ CarriedOut(q)
        /\ wire' = Append(wire, Answer(q.command, TRUE))
        /\ UNCHANGED history
     \/ /\ q.command \notin {"enableEvents", "getReport", "getROSpecs", "close"}
        /\ MayHappen("refusal")
        /\ history' = [history EXCEPT !.troubles = @ + 1]
        /\ wire' = Append(wire, Answer(q.command, FALSE))
        /\ UNCHANGED <<specs, notify>>
     \/ /\ q.command \in {"enableEvents", "getReport"}
        /\ UNCHANGED <<wire, specs, notify, history>>
  /\ UNCHANGED <<link, receiver, monitor, caller, roSpecId, buffer, events, stream, pending, fault>>

\* An active ROSpec reports the tags it saw; a timed one ends by itself.
ModuleReports ==
  /\ Well /\ link = "up" /\ Room
  /\ \E s \in specs, n \in {ReportSize} \cup (IF MayHappen("empty") THEN {0} ELSE {}) :
       /\ s.state = "active" /\ s.left > 0
       /\ specs' = (specs \ {s}) \cup {[s EXCEPT !.left = @ - 1]}
       /\ wire' = Append(wire, Report(s.round, n))
       /\ history' = [history EXCEPT !.empty = @ \/ n = 0,
                         !.troubles = IF n = 0 THEN @ + 1 ELSE @,
                         !.reported = IF s.round = history.round THEN @ + n ELSE @]
  /\ UNCHANGED <<link, requests, notify, receiver, monitor, caller, roSpecId, buffer,
                 events, stream, pending, fault>>

ModuleEnds ==
  /\ Well /\ link = "up" /\ Room
  /\ \E s \in specs :
       /\ s.state = "active" /\ s.timed
       /\ specs' = Become(s.id, "inactive")
  /\ wire' = IF notify THEN Append(wire, EndOfROSpec) ELSE wire
  /\ UNCHANGED <<link, requests, notify, receiver, monitor, caller, roSpecId, buffer,
                 events, stream, pending, fault, history>>

\* A keep-alive period more of silence; that it is longer than LostAfter makes no
\* difference.
OneMore(quiet) == IF quiet < LostAfter THEN quiet + 1 ELSE quiet

\* One keep-alive period passes on a working link.  Outside a stream a keep-alive
\* is only acknowledged, whoever takes it, and is left out.
ModulePulses ==
  /\ Well /\ link = "up" /\ Room /\ continuousReading /\ history.keepAlives < MaxKeepAlives
  /\ wire' = Append(wire, KeepAlive)
  /\ monitor' = [monitor EXCEPT !.quiet = OneMore(@)]
  /\ history' = [history EXCEPT !.keepAlives = @ + 1]
  /\ UNCHANGED <<link, requests, specs, notify, receiver, caller, roSpecId, buffer,
                 events, stream, pending, fault>>

\* What the reader does after that no longer shows; what it has sent is still read.
LinkFails ==
  /\ Well /\ link = "up" /\ caller.doing # "unconnected"
  /\ history.trouble \in {"closed", "silent"}
  /\ link' = history.trouble
  /\ requests' = <<>> /\ specs' = {} /\ notify' = FALSE
  /\ UNCHANGED <<wire, receiver, monitor, caller, roSpecId, buffer, events, stream, pending,
                 fault, history>>

-----------------------------------------------------------------------------
(* Handling a message that is nobody's answer (processReceivedMessage).    *)

Stored(b, m) ==
  LET report == [round |-> m.round, tags |-> m.tags, freed |-> FALSE] IN
  IF b.live THEN [b EXCEPT !.reports = Append(@, report)]
  ELSE [b EXCEPT !.live = TRUE, !.reports = <<report>>]

\* handleReaderEvents counts an end only for a synchronous read.
EventsAfter(m) == IF m.kind = "event" /\ ~continuousReading THEN events - 1 ELSE events

-----------------------------------------------------------------------------
(* The receiver thread (llrp_receiver_thread).                             *)

\* The end of the loop: exit if asked to (threadCancel is looked at here only),
\* else rest if asked to and say so.
\* Seeded: the thread rests and does not say so.
LoopEndsSeeded ==
  [receiver EXCEPT !.holds = <<>>,
     !.at = CASE caller.doing = "destroying" -> "exit"
              [] receiver.enabled            -> "select"
              [] OTHER                       -> "park"]

LoopEnds ==
  [receiver EXCEPT !.holds = <<>>,
     !.at = CASE caller.doing = "destroying" -> "exit"
              [] receiver.enabled            -> "select"
              [] OTHER                       -> "park",
     !.running = @ /\ (receiver.enabled \/ caller.doing = "destroying")]

ReceiverGoes ==
  /\ Well /\ receiver.at = "park" /\ receiver.enabled
  /\ receiver' = [receiver EXCEPT !.running = TRUE, !.at = "select"]
  /\ UNCHANGED <<link, requests, wire, specs, notify, monitor, caller, roSpecId, buffer,
                 events, stream, pending, fault, history>>

ReceiverTakes ==
  /\ Well /\ receiver.at = "select" /\ wire # <<>>
  /\ LET m == Head(wire) IN
     /\ IF m.kind = "report"
        THEN receiver' = [receiver EXCEPT !.at = "store", !.holds = <<m>>]
        ELSE receiver' = LoopEnds
     /\ events' = EventsAfter(m)
  /\ wire' = Tail(wire)
  /\ monitor' = [monitor EXCEPT !.fresh = TRUE]
  /\ UNCHANGED <<link, requests, specs, notify, caller, roSpecId, buffer, stream, pending, fault, history>>

ReceiverStores ==
  /\ Well /\ receiver.at = "store"
  /\ buffer' = Stored(buffer, receiver.holds[1])
  /\ receiver' = LoopEnds
  /\ UNCHANGED <<link, requests, wire, specs, notify, monitor, caller, roSpecId, events,
                 stream, pending, fault, history>>

\* select finds nothing: the monitoring below is not reached, and the thread only
\* looks whether it is to rest or to exit; if not, the loop changes nothing.
ReceiverIdles ==
  /\ Well /\ receiver.at = "select" /\ wire = <<>> /\ link # "closed"
  /\ ~receiver.enabled \/ caller.doing = "destroying"
  /\ receiver' = LoopEnds
  /\ UNCHANGED <<link, requests, wire, specs, notify, monitor, caller, roSpecId, buffer,
                 events, stream, pending, fault, history>>

\* A period more of silence was missed, and whether it was the last one to wait for.
MissedAfter(quiet) ==
  IF quiet > monitor.missed /\ monitor.missed < KeepAliveMisses
  THEN monitor.missed + 1 ELSE monitor.missed

Lost(quiet, missed) == quiet >= LostAfter /\ missed >= KeepAliveMisses

\* Receiving fails: the silence is timed, and in the end the wait is broken off.
ReceiverFails ==
  /\ Well /\ receiver.at = "select" /\ wire = <<>> /\ link = "closed"
  /\ IF monitor.fresh
     THEN /\ monitor' = [fresh |-> FALSE, quiet |-> 0, missed |-> 0]
          /\ UNCHANGED events
     ELSE LET quiet == OneMore(monitor.quiet)  missed == MissedAfter(quiet) IN
          IF Lost(quiet, missed)
          THEN /\ monitor' = [fresh |-> TRUE, quiet |-> LostAfter, missed |-> 0]
               /\ events' = -1
          ELSE /\ monitor' = [monitor EXCEPT !.quiet = quiet, !.missed = missed]
               /\ UNCHANGED events
  /\ receiver' = LoopEnds
  /\ UNCHANGED <<link, requests, wire, specs, notify, caller, roSpecId, buffer, stream,
                 pending, fault, history>>

-----------------------------------------------------------------------------
(* The application thread.                                                 *)

\* The operation ends.  A background read that cannot be started is tried again
\* from the top.  h is what is known to have happened.
Ended(result, h) ==
  /\ caller' = IF caller.doing = "starting" /\ result # "ok"
               THEN [caller EXCEPT !.at = "ready", !.script = StreamScript(caller.plan)]
               ELSE [caller EXCEPT !.at = "ready", !.script = <<>>,
                       !.doing = CASE @ = "closing" -> "destroyed"
                                   [] @ = "connect" /\ result # "ok" -> "unbooted"
                                   [] OTHER -> "nothing"]
  /\ stream' = IF caller.doing = "starting" /\ result = "ok"
               THEN [phase |-> "on", getReport |-> FALSE, reportSeen |-> FALSE] ELSE stream
  /\ history' = IF result = "ok"
                THEN [h EXCEPT !.walk = IF caller.doing = "read" THEN "on" ELSE @]
                ELSE [h EXCEPT !.broken = IF caller.doing = "parameter" THEN @
                                          ELSE @ \cup {h.round}]

Proceed(script, h) ==
  IF script = <<>> THEN Ended("ok", h)
  ELSE /\ caller' = [caller EXCEPT !.at = "ready", !.script = script]
       /\ history' = h
       /\ UNCHANGED stream

\* A failed command ends the operation, or is passed over.
Fails(h) == IF Fatal(caller.script) THEN Ended("failed", h) ELSE Proceed(Tail(caller.script), h)

FirstIs(cs) == caller.at = "ready" /\ caller.script # <<>> /\ Head(caller.script) \in cs

Begin(doing, plan, script) ==
  caller' = [caller EXCEPT !.doing = doing, !.plan = plan, !.script = script]

NewRound(loose) ==
  [history EXCEPT !.round = @ + 1, !.operations = @ + 1, !.walk = "none", !.lost = FALSE,
                  !.loose = IF loose THEN @ \cup {history.round + 1} ELSE @,
                  !.reported = 0, !.returned = 0]

Idle == caller.doing = "nothing" /\ history.operations < MaxOperations

\* TMR_LLRP_connect: the socket is open and the reader said it accepts us.
Connect ==
  /\ Well /\ caller.doing = "unconnected"
  /\ Begin("connect", "none", BootScript)
  /\ UNCHANGED <<link, requests, wire, specs, notify, receiver, monitor, roSpecId, buffer,
                 events, stream, pending, fault, history>>

\* Touching the report array while the receiver stores into it, and using a
\* report that was freed, have no defined outcome.
Touched(used) ==
  CASE receiver.at = "store"                       -> "race"
    [] \E i \in used : buffer.reports[i].freed     -> "freed"
    [] OTHER                                       -> "none"

EmptyBuffer == [live |-> TRUE, reports |-> <<>>, bufIndex |-> 0, tagsRemaining |-> 0, current |-> 0]

Held(b) == IF b.live THEN DOMAIN b.reports ELSE {}

\* Seeded: the array of the read before is kept.
ReadSeeded ==
  /\ Well /\ Idle /\ ~continuousReading
  /\ \E plan \in Plans : Begin("read", plan, ReadScript(plan))
  /\ fault' = Touched(Held(buffer))
  /\ history' = NewRound(FALSE)
  /\ UNCHANGED <<link, requests, wire, specs, notify, receiver, monitor, roSpecId, buffer,
                 events, stream, pending>>

Read ==
  /\ Well /\ Idle /\ ~continuousReading
  /\ \E plan \in Plans : Begin("read", plan, ReadScript(plan))
  /\ fault' = Touched(Held(buffer))
  /\ buffer' = EmptyBuffer
  /\ history' = NewRound(FALSE)
  /\ UNCHANGED <<link, requests, wire, specs, notify, receiver, monitor, roSpecId, events,
                 stream, pending>>

\* TMR_LLRP_executeTagOp takes a new array and leaves the walk of the last read.
ExecuteTagOp ==
  /\ Well /\ Idle /\ ~continuousReading
  /\ Begin("tagop", "tagop", TagOpScript)
  /\ fault' = Touched({})
  /\ buffer' = [buffer EXCEPT !.live = TRUE, !.reports = <<>>]
  /\ history' = NewRound(TRUE)
  /\ UNCHANGED <<link, requests, wire, specs, notify, receiver, monitor, roSpecId, events,
                 stream, pending>>

\* A parameter the reader is asked for; it may be asked for during a stream too.
AskParameter ==
  /\ Well /\ Idle
  /\ Begin("parameter", caller.plan, <<"parameter">>)
  /\ history' = [history EXCEPT !.operations = @ + 1]
  /\ UNCHANGED <<link, requests, wire, specs, notify, receiver, monitor, roSpecId, buffer,
                 events, stream, pending, fault>>

\* What is sent arrives on a working link only.
Sent(q) == IF link = "up" THEN Append(requests, q) ELSE requests

Request(c, id) ==
  [command |-> c, id |-> IF caller.doing = "connect" THEN 0 ELSE id,
   round |-> history.round, timed |-> caller.doing = "read",
   periodic |-> caller.doing = "starting" /\ Periodic(caller.plan)]

\* A command without an answer is only sent.
SendsOnly ==
  /\ Well /\ FirstIs({"enableEvents"})
  /\ IF link = "closed" THEN Ended("failed", history) /\ UNCHANGED requests
     ELSE /\ requests' = Sent(Request("enableEvents", roSpecId))
          /\ Proceed(Tail(caller.script), history)
  /\ UNCHANGED <<link, wire, specs, notify, receiver, monitor, roSpecId, buffer, events,
                 pending, fault>>

\* Seeded: a multi plan's number of ROSpecs is not taken over.
CountsSeeded ==
  /\ Well /\ FirstIs({"count1", "count2"})
  /\ events' = 1
  /\ Proceed(Tail(caller.script), history)
  /\ UNCHANGED <<link, requests, wire, specs, notify, receiver, monitor, roSpecId, buffer,
                 pending, fault>>

\* numOfROSpecEvents is set: 1 for a read, the number of plans for a multi plan.
Counts ==
  /\ Well /\ FirstIs({"count1", "count2"})
  /\ events' = IF Head(caller.script) = "count1" THEN 1 ELSE 2
  /\ Proceed(Tail(caller.script), history)
  /\ UNCHANGED <<link, requests, wire, specs, notify, receiver, monitor, roSpecId, buffer,
                 pending, fault>>

\* Seeded: the receiver is disabled and nobody waits until it rests.
QuietsSeeded ==
  /\ Well /\ FirstIs(Commands)
  /\ receiver' = IF receiver.setup /\ ~continuousReading
                 THEN [receiver EXCEPT !.enabled = FALSE] ELSE receiver
  /\ caller' = [caller EXCEPT !.at = "sending"]
  /\ UNCHANGED <<link, requests, wire, specs, notify, monitor, roSpecId, buffer, events,
                 stream, pending, fault, history>>

\* sendTimeout: disable the receiver and wait until it rests, unless a stream
\* runs; then send.
Quiets ==
  /\ Well /\ FirstIs(Commands)
  /\ IF receiver.setup /\ ~continuousReading
     THEN /\ receiver' = [receiver EXCEPT !.enabled = FALSE]
          /\ caller' = [caller EXCEPT !.at = "quieting"]
     ELSE caller' = [caller EXCEPT !.at = "sending"] /\ UNCHANGED receiver
  /\ UNCHANGED <<link, requests, wire, specs, notify, monitor, roSpecId, buffer, events,
                 stream, pending, fault, history>>

Resumed == IF receiver.setup /\ ~continuousReading
           THEN [receiver EXCEPT !.enabled = TRUE] ELSE receiver

\* A read wraps the identifiers around; a tag operation does not.
GivenId == IF caller.doing # "tagop" /\ roSpecId + 1 >= MaxROSpecs THEN 1 ELSE roSpecId + 1

Sends ==
  /\ Well
  /\ caller.at = "sending" \/ (caller.at = "quieting" /\ ~receiver.running)
  /\ roSpecId' = IF Head(caller.script) = "addRO" THEN GivenId ELSE roSpecId
  /\ IF link = "closed"
     THEN Fails(history) /\ receiver' = Resumed /\ UNCHANGED requests
     ELSE /\ requests' = Sent(Request(Head(caller.script), roSpecId'))
          /\ caller' = [caller EXCEPT !.at = "waiting"]
          /\ UNCHANGED <<receiver, stream, history>>
  /\ UNCHANGED <<link, wire, specs, notify, monitor, buffer, events, pending, fault>>

\* The first answer of the right type counts, whatever command it belongs to.
Answers(m) == m.kind = "answer" /\ m.of = AnswerType(Head(caller.script))

\* stopActiveROSpecs stops what an earlier session left; setKeepAlive, the last
\* step of boot, starts the receiver thread.
Answered(m, h) ==
  LET found == {s \in specs : s.round = 0 /\ s.state = "active"}
      more  == IF Head(caller.script) # "getROSpecs" \/ found = {} THEN <<>>
               ELSE StopScript(\E s \in found : s.periodic)
  IN
  /\ IF m.ok THEN Proceed(more \o Tail(caller.script), h) ELSE Fails(h)
  /\ receiver' = IF caller.doing = "connect" /\ Head(caller.script) = "keepAlive" /\ m.ok
                 THEN [receiver EXCEPT !.setup = TRUE, !.enabled = TRUE, !.at = "park"]
                 ELSE Resumed

\* Any other message is handled here as the receiver would.  An answer the
\* background read has put aside is looked at only after such a message.
CommandTakes ==
  /\ Well /\ caller.at = "waiting" /\ wire # <<>>
  /\ wire' = Tail(wire)
  /\ LET m == Head(wire)
         h == [history EXCEPT !.eaten = @ \/ (continuousReading /\ m.kind = "keepAlive")]
     IN
     IF Answers(m) THEN Answered(m, h) /\ UNCHANGED <<buffer, events, pending>>
     ELSE /\ buffer' = IF m.kind = "report" THEN Stored(buffer, m) ELSE buffer
          /\ events' = EventsAfter(m)
          /\ IF pending # <<>> /\ Answers(pending[1])
             THEN Answered(pending[1], h) /\ pending' = <<>>
             ELSE history' = h /\ UNCHANGED <<receiver, caller, stream, pending>>
  /\ UNCHANGED <<link, requests, specs, notify, monitor, roSpecId, fault>>

\* No answer in time.  It may still come, and find another command waiting.
CommandTimesOut ==
  /\ Well /\ caller.at = "waiting" /\ wire = <<>>
  /\ \/ /\ link # "up" \/ requests = <<>>
        /\ Fails(history)
     \/ /\ link = "up" /\ requests # <<>> /\ MayHappen("timeout")
        /\ Fails([history EXCEPT !.troubles = @ + 1])
  /\ receiver' = Resumed
  /\ UNCHANGED <<link, requests, wire, specs, notify, monitor, roSpecId, buffer, events,
                 pending, fault>>

\* Seeded: one tag less, as if the first were taken already.
TagsSeeded(reports) ==
  Cardinality(UNION {{i} \X (1..reports[i].tags) : i \in DOMAIN reports}) - 1

\* verifyReadOperation: wait for the ends of all ROSpecs, then count the tags.
Tags(reports) == Cardinality(UNION {{i} \X (1..reports[i].tags) : i \in DOMAIN reports})

Awaits ==
  /\ Well /\ FirstIs({"await"}) /\ events <= 0
  /\ IF events = -1 THEN Ended("lost", [history EXCEPT !.lost = TRUE]) /\ UNCHANGED <<buffer, fault>>
     ELSE /\ buffer' = [buffer EXCEPT !.tagsRemaining = Tags(buffer.reports)]
          /\ fault' = Touched({})
          /\ Proceed(Tail(caller.script), history)
  /\ UNCHANGED <<link, requests, wire, specs, notify, receiver, monitor, roSpecId, events, pending>>

\* The wait of a tag operation: any report is taken for its own.  An empty one
\* passes for success, an error of the operation leaves the array to the next.
AwaitsReport ==
  /\ Well /\ FirstIs({"awaitReport"})
  /\ \/ /\ buffer.reports # <<>>
        /\ \/ /\ Ended("ok", history)
              /\ buffer' = [buffer EXCEPT !.live = FALSE, !.reports = <<>>]
              /\ fault' = Touched({})
           \/ /\ buffer.reports[1].tags > 0
              /\ Ended("failed", history)
              /\ UNCHANGED <<buffer, fault>>
     \/ buffer.reports = <<>> /\ Ended("timeout", history) /\ UNCHANGED <<buffer, fault>>
  /\ UNCHANGED <<link, requests, wire, specs, notify, receiver, monitor, roSpecId, events, pending>>

\* TMR_LLRP_hasMoreTags says yes and TMR_LLRP_getNextTag parses.  A report
\* without tags makes getNextTag fail and free the report after it.
TakesTag ==
  /\ Well /\ caller.doing = "nothing" /\ history.walk = "on" /\ buffer.tagsRemaining > 0
  /\ LET stay == buffer.current > 1
         idx  == IF stay THEN buffer.bufIndex ELSE buffer.bufIndex + 1
         cur  == IF stay THEN buffer.current - 1 ELSE buffer.reports[idx].tags
         past == idx > Len(buffer.reports)
     IN
     IF past THEN fault' = "walk" /\ UNCHANGED <<buffer, history>>
     ELSE IF cur > 0
     THEN /\ fault' = Touched({idx})
          /\ buffer' = [buffer EXCEPT !.bufIndex = idx, !.current = cur, !.tagsRemaining = @ - 1]
          /\ history' = [history EXCEPT !.returned = @ + 1]
     ELSE /\ fault' = IF idx < Len(buffer.reports) THEN Touched({idx, idx + 1}) ELSE "walk"
          /\ buffer' = [buffer EXCEPT !.bufIndex = idx, !.current = 0,
                          !.reports = [i \in DOMAIN @ |->
                            [buffer.reports[i] EXCEPT !.freed = @ \/ i = idx + 1]]]
          /\ UNCHANGED history
  /\ UNCHANGED <<link, requests, wire, specs, notify, receiver, monitor, caller, roSpecId,
                 events, stream, pending>>

\* hasMoreTags says no: the reports that were walked and the array are freed.
EndsWalk ==
  /\ Well /\ caller.doing = "nothing" /\ history.walk = "on" /\ buffer.tagsRemaining = 0
  /\ fault' = Touched(1..buffer.bufIndex)
  /\ buffer' = [buffer EXCEPT !.live = FALSE, !.reports = <<>>]
  /\ history' = [history EXCEPT !.walk = "done"]
  /\ UNCHANGED <<link, requests, wire, specs, notify, receiver, monitor, caller, roSpecId,
                 events, stream, pending>>

-----------------------------------------------------------------------------
(* The background read (tm_reader_async.c).                                *)

\* A simple plan is stopped, the periodic ones of a multi plan are deleted.
StopCommand == IF Periodic(caller.plan) THEN "deleteRO" ELSE "stopRO"

\* TMR_startReading: the receiver is to rest for the whole stream.
StartReading ==
  /\ Well /\ Idle /\ ~continuousReading
  /\ \E plan \in Plans : Begin("parking", plan, <<>>)
  /\ receiver' = [receiver EXCEPT !.enabled = FALSE]
  /\ history' = [history EXCEPT !.operations = @ + 1]
  /\ UNCHANGED <<link, requests, wire, specs, notify, monitor, roSpecId, buffer, events,
                 stream, pending, fault>>

\* It rests: the keep-alive clock starts and TMR_read is called from the
\* background thread, until it succeeds; the application waits for that.
StartsReading ==
  /\ Well /\ caller.doing = "parking" /\ ~receiver.running
  /\ Begin("starting", caller.plan, StreamScript(caller.plan))
  /\ stream' = [stream EXCEPT !.phase = "starting"]
  /\ monitor' = [monitor EXCEPT !.quiet = 0]
  /\ fault' = Touched(Held(buffer))
  /\ buffer' = EmptyBuffer
  /\ history' = [NewRound(TRUE) EXCEPT !.operations = history.operations]
  /\ UNCHANGED <<link, requests, wire, specs, notify, receiver, roSpecId, events, pending>>

\* GET_REPORT is sent before the next receive.
StreamAsks ==
  /\ Well /\ stream.phase = "on" /\ stream.getReport /\ link # "closed"
  /\ requests' = Sent(Request("getReport", roSpecId))
  /\ stream' = [stream EXCEPT !.getReport = FALSE]
  /\ UNCHANGED <<link, wire, specs, notify, receiver, monitor, caller, roSpecId, buffer,
                 events, pending, fault, history>>

\* Seeded: a keep-alive does not start the clock again.
StreamTakesSeeded ==
  /\ Well /\ stream.phase = "on" /\ wire # <<>>
  /\ stream.getReport => link = "closed"
  /\ wire' = Tail(wire)
  /\ LET m == Head(wire)
         last == m.kind = "answer" /\ m.of \in {"STOP_ROSPEC", "deleteRO"} IN
     /\ stream' = CASE m.kind = "report"    -> [stream EXCEPT !.reportSeen = TRUE]
                    [] m.kind = "keepAlive" -> [stream EXCEPT !.reportSeen = FALSE,
                                                  !.getReport = @ \/ ~stream.reportSeen]
                    [] last                 -> [stream EXCEPT !.phase = "ended"]
                    [] OTHER                -> stream
     /\ buffer' = IF last THEN [buffer EXCEPT !.live = FALSE, !.reports = <<>>] ELSE buffer
     /\ pending' = IF m.kind = "answer" /\ ~last THEN <<m>> ELSE pending
  /\ UNCHANGED <<link, requests, specs, notify, receiver, monitor, caller, roSpecId, events,
                 fault, history>>

\* TMR_LLRP_hasMoreTags of a stream: what the next message is.
StreamTakes ==
  /\ Well /\ stream.phase = "on" /\ wire # <<>>
  /\ stream.getReport => link = "closed"
  /\ wire' = Tail(wire)
  /\ LET m == Head(wire)
         last == m.kind = "answer" /\ m.of \in {"STOP_ROSPEC", "deleteRO"} IN
     /\ stream' = CASE m.kind = "report"    -> [stream EXCEPT !.reportSeen = TRUE]
                    [] m.kind = "keepAlive" -> [stream EXCEPT !.reportSeen = FALSE,
                                                  !.getReport = @ \/ ~stream.reportSeen]
                    [] last                 -> [stream EXCEPT !.phase = "ended"]
                    [] OTHER                -> stream
     /\ monitor' = IF m.kind = "keepAlive" THEN [monitor EXCEPT !.quiet = 0, !.missed = 0] ELSE monitor
     /\ buffer' = IF last THEN [buffer EXCEPT !.live = FALSE, !.reports = <<>>] ELSE buffer
     /\ pending' = IF m.kind = "answer" /\ ~last THEN <<m>> ELSE pending
  /\ UNCHANGED <<link, requests, specs, notify, receiver, caller, roSpecId, events, fault, history>>

\* Nothing came for a while.  When the silence has lasted, the stream is given up:
\* the reader is told to stop and the receiver set to work again.
StreamTimesOut ==
  /\ Well /\ stream.phase = "on" /\ wire = <<>>
  /\ link # "up" \/ monitor.quiet > monitor.missed
  /\ LET quiet == IF link # "up" THEN OneMore(monitor.quiet) ELSE monitor.quiet
         missed == MissedAfter(quiet)
     IN
     IF Lost(quiet, missed)
     THEN /\ monitor' = [monitor EXCEPT !.quiet = quiet, !.missed = 0]
          /\ stream' = [stream EXCEPT !.phase = "off"]
          /\ receiver' = [receiver EXCEPT !.enabled = TRUE]
          /\ history' = [history EXCEPT !.broken = @ \cup {history.round}, !.lost = TRUE]
          /\ requests' = Sent(Request(StopCommand, roSpecId))
     ELSE /\ monitor' = [monitor EXCEPT !.quiet = quiet, !.missed = missed]
          /\ UNCHANGED <<stream, receiver, history, requests>>
  /\ UNCHANGED <<link, wire, specs, notify, caller, roSpecId, buffer, events, pending, fault>>

\* TMR_stopReading: the stop is sent, and the background thread gets its answer.
StopReading ==
  /\ Well /\ caller.doing = "nothing" /\ stream.phase \in {"on", "ended"}
  /\ requests' = Sent(Request(StopCommand, roSpecId))
  /\ caller' = [caller EXCEPT !.doing = "stopping"]
  /\ UNCHANGED <<link, wire, specs, notify, receiver, monitor, roSpecId, buffer, events,
                 stream, pending, fault, history>>

StopsReading ==
  /\ Well /\ caller.doing = "stopping" /\ stream.phase \in {"ended", "off"}
  /\ caller' = [caller EXCEPT !.doing = "nothing"]
  /\ stream' = [stream EXCEPT !.phase = "off"]
  /\ receiver' = IF stream.phase = "ended" THEN [receiver EXCEPT !.enabled = TRUE] ELSE receiver
  /\ UNCHANGED <<link, requests, wire, specs, notify, monitor, roSpecId, buffer, events,
                 pending, fault, history>>

-----------------------------------------------------------------------------
(* TMR_LLRP_destroy.                                                       *)

\* The receiver thread is asked to exit and joined, whether or not it was started.
Destroy ==
  /\ Well /\ caller.doing \in {"nothing", "unbooted"}
  /\ fault' = IF receiver.setup THEN "none" ELSE "join"
  /\ caller' = [caller EXCEPT !.doing = "destroying"]
  /\ UNCHANGED <<link, requests, wire, specs, notify, receiver, monitor, roSpecId, buffer,
                 events, stream, pending, history>>

Joins ==
  /\ Well /\ caller.doing = "destroying" /\ receiver.at = "exit"
  /\ Begin("closing", caller.plan, <<"close">>)
  /\ receiver' = [receiver EXCEPT !.setup = FALSE]
  /\ buffer' = [buffer EXCEPT !.live = FALSE, !.reports = <<>>]
  /\ fault' = Touched(Held(buffer))
  /\ UNCHANGED <<link, requests, wire, specs, notify, monitor, roSpecId, events, stream,
                 pending, history>>

-----------------------------------------------------------------------------
ModuleStep   == ModuleHandles \/ ModuleReports \/ ModuleEnds \/ ModulePulses
ReceiverStep == ReceiverGoes \/ ReceiverTakes \/ ReceiverStores \/ ReceiverIdles \/ ReceiverFails
CommandStep  == \/ SendsOnly \/ Counts \/ Quiets \/ Sends \/ CommandTakes \/ CommandTimesOut
                \/ Awaits \/ AwaitsReport \/ StartsReading \/ StopsReading \/ Joins
StreamStep   == StreamAsks \/ StreamTakes \/ StreamTimesOut
UserStep     == \/ Connect \/ Read \/ ExecuteTagOp \/ AskParameter \/ TakesTag \/ EndsWalk
                \/ StartReading \/ StopReading \/ Destroy

LlrpNext == ModuleStep \/ LinkFails \/ ReceiverStep \/ CommandStep \/ StreamStep \/ UserStep

\* The threads run and the reader does what it was asked; the user need not act,
\* the link need not fail and nobody need send a report.
LlrpFairness == /\ WF_llrpVars(ModuleHandles) /\ WF_llrpVars(ModuleEnds)
                /\ WF_llrpVars(ReceiverStep) /\ WF_llrpVars(CommandStep) /\ WF_llrpVars(StreamStep)

LlrpSpec == LlrpInit /\ [][LlrpNext]_llrpVars /\ LlrpFairness

-----------------------------------------------------------------------------
(* The types of the variables.                                             *)
LlrpTypeOK ==
  /\ link \in {"up", "closed", "silent"} /\ wire \in Seq(Message)
  /\ \A i \in DOMAIN requests : requests[i].id \in Nat
  /\ \A s \in specs : s.state \in {"disabled", "inactive", "active"} /\ s.left \in 0..MaxReports
  /\ notify \in BOOLEAN /\ events \in Int /\ roSpecId \in Nat
  /\ receiver.at \in {"none", "park", "select", "store", "exit"}
  /\ monitor \in [fresh : BOOLEAN, quiet : 0..LostAfter, missed : 0..KeepAliveMisses]
  /\ caller.at \in {"ready", "quieting", "sending", "waiting"}
  /\ buffer.bufIndex \in Nat /\ buffer.tagsRemaining \in Nat
  /\ stream.phase \in {"off", "starting", "on", "ended"}
  /\ pending \in Seq(Message)
  /\ fault \in {"none", "race", "freed", "walk", "join"}

\* A message belongs to one reader: while a command waits for its answer, and
\* while a stream runs, the receiver thread is not at the socket
\* (setBackgroundReceiverState; LLRP_Conn_recvMessage takes no lock).  The one
\* exception: a stream given up in the middle of a command sets the receiver to work.
SoleReceiver ==
  (caller.at = "waiting" /\ ~history.lost) \/ continuousReading
    => receiver.at \notin {"select", "store"}

\* The reports buffered by a read are its own: others are there only after an
\* operation that left a ROSpec running behind it (a tag operation, a stream, the
\* session before), or ended with an error: then the end of one of its ROSpecs may
\* also be counted for a later read, which leaves its own ROSpecs behind in turn.
Strays(r) == r \in history.loose \/ \E b \in history.broken : b <= r
ReportsOfThisRead ==
  caller.doing = "read" =>
    \A i \in DOMAIN buffer.reports :
      buffer.reports[i].round # history.round => Strays(buffer.reports[i].round)

\* A read that goes on to turn the events off has waited for all its ROSpecs, and
\* nothing of it is on the way, unless an earlier operation was given up: an end
\* of one of its ROSpecs may be counted for this one.
WaitCoversPlan ==
  (/\ Well /\ caller.doing = "read" /\ history.broken = {}
   /\ caller.script = <<"notifyOff">>)
  => /\ \A s \in specs : s.round = history.round => s.state # "active"
     /\ \A i \in DOMAIN wire : wire[i].kind = "report" => wire[i].round # history.round

\* The array of reports is not touched while the receiver stores into it, unless a
\* ROSpec was left running; freed reports are not used, and the walk stays inside
\* the array, unless a report came without tags.
MemorySafe ==
  /\ fault = "race" => history.broken # {} \/ history.loose # {0}
  /\ fault \in {"freed", "walk"} => history.empty

\* When the application has walked to the end, it was given every tag the reader
\* reported for this read, if the wait covered the plan and no stray came in.
AllTagsReturned ==
  (/\ Well /\ history.walk = "done"
   /\ history.broken = {} /\ history.loose = {0} /\ ~history.empty)
  => history.returned = history.reported

\* The link is reported lost only if it is, or if a command inside a stream took
\* keep-alives the stream never heard of, or an operation before was given up and its
\* events upset the count of a read.
LostMeansQuiet ==
  history.lost => link # "up" \/ history.eaten \/ history.broken \ {history.round} # {}

\* Every call comes back, whether the link works, closes or goes silent, but for a
\* synchronous read on a silent link (ReadEnds).  Excused too: undefined behaviour,
\* an answer that came late, destroying a reader while it streams.
Late    == history.trouble = "timeout" /\ history.troubles > 0
Excused == ~Well \/ Late \/ (caller.doing = "destroying" /\ continuousReading)
Silent  == caller.doing = "read" /\ link = "silent"
InCall  == caller.doing \in {"connect", "read", "tagop", "parameter", "parking", "stopping",
                             "destroying", "closing"}
CallsReturn == InCall ~> (~InCall \/ Excused \/ Silent)

\* A synchronous read comes back: "We have waited for enough time (4 times keep
\* alive duration), and still there is no response from reader" is to break it off.
ReadEnds == caller.doing = "read" ~> (caller.doing # "read" \/ Excused)
=============================================================================
