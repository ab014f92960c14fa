---------------------------- MODULE BackgroundReads ----------------------------
(***************************************************************************)
(* Background (asynchronous) reads of the Mercury C API                    *)
(* (cbits/api/tm_reader_async.c, with the parts of serial_reader.c its     *)
(* threads run).  The actors are the application threads that call         *)
(* TMR_startReading, TMR_stopReading and TMR_destroy, the background       *)
(* reader thread do_background_reads, the thread parse_tag_reads that      *)
(* hands tags to the read listeners, and, on the other end of the serial   *)
(* line, the RFID module.                                                  *)
(*                                                                         *)
(* A critical section that neither waits nor talks to the module is one    *)
(* step, guarded by the mutex being free.  TMR_read runs with              *)
(* backgroundLock held for as long as the module takes, so the reader      *)
(* thread holds the lock in the state "reading".                           *)
(*                                                                         *)
(* A definition named ...Seeded is the definition after it with a          *)
(* plausible bug put in: the properties are validated against it, and no   *)
(* specification uses it.                                                  *)
(***************************************************************************)
EXTENDS Integers, Sequences

CONSTANTS
  Apps,            \* application threads
  Slots,           \* TMR_MAX_QUEUE_SLOTS
  StreamingModes,  \* the values createParser takes: TRUE streams, FALSE polls
  HasPA,           \* the module is an M6e or a variant of it
  ReadResults,     \* what TMR_read may return
  StreamEvents,    \* what TMR_hasMoreTags may report of a stream
  MayDestroy,      \* the application may call TMR_destroy
  MaxTags,         \* bound: tags the module sees
  MaxStarts        \* bound: calls of TMR_startReading

ASSUME SlotsAssumption == Slots \in Nat \ {0}
ASSUME ModesAssumption ==
  /\ StreamingModes \subseteq BOOLEAN
  /\ HasPA \in BOOLEAN
  /\ TRUE \in StreamingModes => HasPA
  /\ MayDestroy \in BOOLEAN
ASSUME ResultsAssumption ==
  /\ ReadResults \subseteq {"success", "retry", "fatal", "antenna"}
  /\ StreamEvents \subseteq {"tag", "status", "quiet", "crc", "full", "lost"}
ASSUME BoundsAssumption == MaxTags \in Nat /\ MaxStarts \in Nat

VARIABLES
  reader,             \* the flags of struct TMR_Reader the threads share
  apc,                \* where each application thread is
  bpc,                \* where do_background_reads is
  ppc,                \* where parse_tag_reads is
  backgroundLock,     \* "free", or "bg" while the reader thread holds it
  readWaiters,        \* application threads asleep on readCond
  backgroundWaiters,  \* threads asleep on backgroundCond
  queue,              \* tagQueueHead .. tagQueueTail
  queue_depth,
  queue_length,       \* semaphore: entries the parser may take
  queue_slots,        \* semaphore: entries that may still be queued
  hand,               \* the entry the parser has dequeued
  tagsRemaining,          \* fields of TMR_SR_SerialReader
  tagsRemainingInBuffer,
  bufResponse,
  searching,          \* the module streams
  acks,               \* answers to stop commands that are on the line
  nextTag,            \* the next tag the module will see
  unread,             \* tags in the module's buffer, of a polling search
  delivered,          \* the tags the read listeners were called with
  session,            \* what the application knows: a search it must stop
  starts              \* calls of TMR_startReading so far

queueVars == <<queue, queue_depth, queue_length, queue_slots>>
waitVars  == <<backgroundLock, readWaiters, backgroundWaiters>>
serialVars == <<tagsRemaining, tagsRemainingInBuffer, bufResponse>>
moduleVars == <<searching, acks, nextTag, unread>>
linkVars  == <<serialVars, moduleVars>>
parseVars == <<ppc, hand, delivered>>
appVars   == <<apc, session, starts>>
vars == <<reader, apc, bpc, ppc, backgroundLock, readWaiters, backgroundWaiters,
          queue, queue_depth, queue_length, queue_slots, hand, tagsRemaining,
          tagsRemainingInBuffer, bufResponse, searching, acks, nextTag, unread,
          delivered, session, starts>>

(* Queue entries: a tag is its number in the order the module saw it.     *)
Stale  == 0    \* whatever bufResponse happens to hold, parsed as a tag
Status == -1   \* a status report of the stream

Running == {"startParser", "startReader", "startWait", "stopStarted",
            "stopCheck", "stopSend", "stopDone", "stopDisable", "stopIdle",
            "stopReset"}
Closing == {"cleanup", "join", "cancelParser", "destroyed"}

LockFree == backgroundLock = "free"
Awake(t) == t \notin readWaiters \cup backgroundWaiters
Quiet    == \A a \in Apps : apc[a] = "idle"

Goto(a, pc) == apc' = [apc EXCEPT ![a] = pc]

Holds(condition) == IF condition THEN 1 ELSE 0

--------------------------------------------------------------------------------
Init ==
  /\ reader = [readState |-> "IDLE", backgroundSetup |-> FALSE,
               backgroundEnabled |-> FALSE, backgroundRunning |-> FALSE,
               backgroundThreadCancel |-> FALSE, parserSetup |-> FALSE,
               searchStatus |-> FALSE, continuousReading |-> FALSE,
               trueAsyncflag |-> FALSE, finishedReading |-> TRUE,
               isBufferOverFlow |-> FALSE, connected |-> TRUE]
  /\ apc = [a \in Apps |-> "idle"]
  /\ bpc = "none" /\ ppc = "none"
  /\ backgroundLock = "free" /\ readWaiters = {} /\ backgroundWaiters = {}
  /\ queue = <<>> /\ queue_depth = 0 /\ queue_length = 0 /\ queue_slots = 0
  /\ hand = Stale
  /\ tagsRemaining = 0 /\ tagsRemainingInBuffer = 0 /\ bufResponse = Stale
  /\ searching = FALSE /\ acks = 0 /\ nextTag = 1 /\ unread = 0
  /\ delivered = <<>> /\ session = FALSE /\ starts = 0

--------------------------------------------------------------------------------
(* TMR_startReading.  Its callers do not start a search they have not      *)
(* stopped, and no two of them start one at the same time.                 *)
StartReading(a) ==
  /\ Quiet /\ ~session /\ reader.connected /\ starts < MaxStarts
  /\ LockFree
  /\ reader' = [reader EXCEPT !.readState = "STARTING"]
  /\ readWaiters' = {}
  /\ \E createParser \in StreamingModes :
       Goto(a, IF createParser THEN "startParser" ELSE "startReader")
  /\ session' = TRUE /\ starts' = starts + 1
  /\ UNCHANGED <<bpc, backgroundLock, backgroundWaiters, queueVars, parseVars,
                 linkVars>>

(* The section under parserLock: the first call creates the parser thread  *)
(* and the queue's semaphores; parserEnabled is never reset, so a parser   *)
(* that exists is enabled.                                                 *)
StartParser(a) ==
  /\ apc[a] = "startParser"
  /\ reader' = [reader EXCEPT !.parserSetup = TRUE, !.continuousReading = TRUE,
                              !.finishedReading = FALSE]
  /\ IF reader.parserSetup
       THEN UNCHANGED <<ppc, queue_depth, queue_length, queue_slots>>
       ELSE /\ ppc' = "wait" /\ queue_depth' = 0
            /\ queue_length' = 0 /\ queue_slots' = Slots
  /\ Goto(a, "startReader")
  /\ UNCHANGED <<bpc, waitVars, queue, hand, linkVars, delivered, session, starts>>

(* Seeded: the sleeping reader thread is not signalled. *)
StartReaderSeeded(a) ==
  /\ apc[a] = "startReader" /\ LockFree
  /\ bpc' = IF reader.backgroundSetup THEN bpc ELSE "top"
  /\ reader' = [reader EXCEPT !.backgroundSetup = TRUE,
                              !.backgroundEnabled = TRUE, !.searchStatus = TRUE]
  /\ Goto(a, "startWait")
  /\ UNCHANGED <<waitVars, queueVars, parseVars, linkVars, session, starts>>

StartReader(a) ==
  /\ apc[a] = "startReader" /\ LockFree
  /\ bpc' = IF reader.backgroundSetup THEN bpc ELSE "top"
  /\ reader' = [reader EXCEPT !.backgroundSetup = TRUE,
                              !.backgroundEnabled = TRUE, !.searchStatus = TRUE]
  \* pthread_cond_signal: only the reader thread can be asleep here
  /\ backgroundWaiters' = {}
  /\ Goto(a, "startWait")
  /\ UNCHANGED <<backgroundLock, readWaiters, queueVars, parseVars, linkVars,
                 session, starts>>

(* A loop "while (blocked) pthread_cond_wait(&readCond, &backgroundLock)". *)
AwaitRead(a, pc, blocked, next) ==
  /\ apc[a] = pc /\ LockFree /\ Awake(a)
  /\ IF blocked
       THEN readWaiters' = readWaiters \cup {a} /\ UNCHANGED apc
       ELSE Goto(a, next) /\ UNCHANGED readWaiters
  /\ UNCHANGED <<reader, bpc, backgroundLock, backgroundWaiters, queueVars,
                 parseVars, linkVars, session, starts>>

StartWait(a) == AwaitRead(a, "startWait", reader.readState = "STARTING", "idle")

--------------------------------------------------------------------------------
(* TMR_stopReading: it may be called at any time, also from a second       *)
(* thread while the first is still in TMR_startReading.  The search counts *)
(* as stopped when the call returns and no other thread is in a call.      *)
StopReading(a) ==
  /\ apc[a] = "idle" /\ reader.connected /\ LockFree
  /\ IF ~reader.backgroundSetup \/ ~reader.searchStatus
       THEN /\ session' = (session /\ ~Quiet)
            /\ UNCHANGED <<reader, apc>>
       ELSE /\ reader' = [reader EXCEPT !.searchStatus = FALSE]
            /\ Goto(a, "stopStarted") /\ UNCHANGED session
  /\ UNCHANGED <<bpc, waitVars, queueVars, parseVars, linkVars, starts>>

StopStarted(a) ==
  AwaitRead(a, "stopStarted", reader.readState = "STARTING", "stopCheck")

StopCheck(a) ==
  /\ apc[a] = "stopCheck"
  /\ Goto(a, IF reader.continuousReading /\ reader.trueAsyncflag
               THEN "stopSend" ELSE "stopDisable")
  /\ UNCHANGED <<reader, bpc, waitVars, queueVars, parseVars, linkVars,
                 session, starts>>

(* cmdStopReading: the module ends its search and answers; the answer is   *)
(* left on the line for the reader thread.                                 *)
StopModule == searching' = FALSE /\ acks' = acks + 1

(* Seeded: the stop command is sent and its effect is not awaited. *)
StopSendSeeded(a) ==
  /\ apc[a] = "stopSend"
  /\ IF reader.isBufferOverFlow THEN UNCHANGED <<searching, acks>> ELSE StopModule
  /\ Goto(a, "stopDisable")
  /\ UNCHANGED <<reader, bpc, waitVars, queueVars, parseVars, serialVars,
                 nextTag, unread, session, starts>>

StopSend(a) ==
  /\ apc[a] = "stopSend"
  /\ IF reader.isBufferOverFlow THEN UNCHANGED <<searching, acks>> ELSE StopModule
  /\ Goto(a, "stopDone")
  /\ UNCHANGED <<reader, bpc, waitVars, queueVars, parseVars, serialVars,
                 nextTag, unread, session, starts>>

StopDone(a) == AwaitRead(a, "stopDone", reader.readState # "DONE", "stopDisable")

(* Seeded: a reader thread in the middle of a read is not awaited. *)
AwaitIdleSeeded(a) ==
  /\ Goto(a, "stopReset")
  /\ UNCHANGED <<bpc, waitVars, queueVars, parseVars, linkVars, session, starts>>

(* Wait on backgroundCond until the reader thread is no longer running.    *)
AwaitIdle(a) ==
  /\ IF reader.backgroundRunning
       THEN /\ backgroundWaiters' = backgroundWaiters \cup {a}
            /\ Goto(a, "stopIdle")
       ELSE Goto(a, "stopReset") /\ UNCHANGED backgroundWaiters
  /\ UNCHANGED <<bpc, backgroundLock, readWaiters, queueVars, parseVars,
                 linkVars, session, starts>>

StopDisable(a) ==
  /\ apc[a] = "stopDisable" /\ LockFree
  /\ reader' = [reader EXCEPT !.backgroundEnabled = FALSE]
  /\ AwaitIdle(a)

StopIdle(a) ==
  /\ apc[a] = "stopIdle" /\ LockFree /\ Awake(a)
  /\ AwaitIdle(a)
  /\ UNCHANGED reader

(* reset_continuous_reading(reader, false): a command to the module and    *)
(* its answer, sent from this thread, then the flag.                       *)
StopReset(a) ==
  /\ apc[a] = "stopReset"
  /\ reader' = [reader EXCEPT !.continuousReading = FALSE]
  /\ Goto(a, "idle") /\ session' = FALSE
  /\ UNCHANGED <<bpc, waitVars, queueVars, parseVars, linkVars, starts>>

--------------------------------------------------------------------------------
(* TMR_SR_destroy: the transport is shut down first, then                  *)
(* cleanup_background_threads asks the reader thread to exit, joins it and *)
(* cancels the parser.                                                     *)
Destroy(a) ==
  /\ MayDestroy /\ Quiet /\ ~session /\ reader.connected
  /\ reader' = [reader EXCEPT !.connected = FALSE]
  /\ Goto(a, "cleanup")
  /\ UNCHANGED <<bpc, waitVars, queueVars, parseVars, linkVars, session, starts>>

(* Seeded: the cancellation is not broadcast. *)
CleanupSeeded(a) ==
  /\ apc[a] = "cleanup" /\ LockFree
  /\ reader' = [reader EXCEPT !.backgroundThreadCancel = reader.backgroundSetup]
  /\ Goto(a, "join")
  /\ UNCHANGED <<bpc, waitVars, queueVars, parseVars, linkVars, session, starts>>

Cleanup(a) ==
  /\ apc[a] = "cleanup" /\ LockFree
  /\ reader' = [reader EXCEPT !.backgroundThreadCancel = reader.backgroundSetup]
  /\ backgroundWaiters' = {}
  /\ Goto(a, "join")
  /\ UNCHANGED <<bpc, backgroundLock, readWaiters, queueVars, parseVars,
                 linkVars, session, starts>>

Join(a) ==
  /\ apc[a] = "join"
  /\ reader.backgroundSetup => bpc = "exited"
  /\ Goto(a, "cancelParser")
  /\ UNCHANGED <<reader, bpc, waitVars, queueVars, parseVars, linkVars,
                 session, starts>>

(* pthread_cancel of the detached parser: it ends at its next cancellation *)
(* point, at the latest in sem_wait, and nobody waits for that.            *)
CancelParser(a) ==
  /\ apc[a] = "cancelParser"
  /\ ppc' = IF ppc = "wait" THEN "cancelled" ELSE ppc
  /\ Goto(a, "destroyed")
  /\ UNCHANGED <<reader, bpc, waitVars, queueVars, hand, delivered, linkVars,
                 session, starts>>

Cancelled == \E a \in Apps : apc[a] = "destroyed"

--------------------------------------------------------------------------------
(* do_background_reads.                                                    *)

(* With backgroundLock held and reading enabled: a search that streams     *)
(* already is not started again.                                           *)
Proceed ==
  IF reader.trueAsyncflag
    THEN /\ reader' = [reader EXCEPT !.backgroundRunning = TRUE]
         /\ bpc' = "dispatch" /\ UNCHANGED backgroundLock
    ELSE /\ reader' = [reader EXCEPT !.backgroundRunning = FALSE]
         /\ bpc' = "reading" /\ backgroundLock' = "bg"

(* Seeded: nobody is told that the reader thread is no longer running. *)
BgTopSeeded ==
  /\ bpc = "top" /\ LockFree
  /\ IF reader.backgroundEnabled
       THEN Proceed /\ UNCHANGED backgroundWaiters
       ELSE /\ reader' = [reader EXCEPT !.backgroundRunning = FALSE,
                                        !.trueAsyncflag = FALSE]
            /\ backgroundWaiters' = backgroundWaiters \cup {"bg"}
            /\ bpc' = "disabled" /\ UNCHANGED backgroundLock
  /\ UNCHANGED <<appVars, readWaiters, queueVars, parseVars, linkVars>>

BgTop ==
  /\ bpc = "top" /\ LockFree
  /\ IF reader.backgroundEnabled
       THEN Proceed /\ backgroundWaiters' = {}
       ELSE /\ reader' = [reader EXCEPT !.backgroundRunning = FALSE,
                                        !.trueAsyncflag = FALSE]
            /\ backgroundWaiters' = {"bg"}
            /\ bpc' = "disabled" /\ UNCHANGED backgroundLock
  /\ UNCHANGED <<appVars, readWaiters, queueVars, parseVars, linkVars>>

(* Woken in the wait for backgroundEnabled.  A cancelled thread exits with *)
(* backgroundLock held.                                                    *)
BgWake ==
  /\ bpc = "disabled" /\ LockFree /\ Awake("bg")
  /\ IF reader.backgroundThreadCancel
       THEN /\ bpc' = "exited" /\ backgroundLock' = "bg"
            /\ UNCHANGED <<reader, backgroundWaiters>>
     ELSE IF reader.backgroundEnabled
       THEN Proceed /\ UNCHANGED backgroundWaiters
       ELSE /\ backgroundWaiters' = backgroundWaiters \cup {"bg"}
            /\ reader' = [reader EXCEPT !.trueAsyncflag = FALSE]
            /\ UNCHANGED <<bpc, backgroundLock>>
  /\ UNCHANGED <<appVars, readWaiters, queueVars, parseVars, linkVars>>

(* TMR_SR_read succeeds.  A streaming search is only sent, never answered: *)
(* a stale answer to a stop command passes for that of the command before  *)
(* it (0x2F is let through while continuousReading), whereas a polling     *)
(* search fails on it.  A polling search clears the module's tag buffer,   *)
(* searches for onTime and learns how many tags there are to fetch.  So    *)
(* nothing fetches what an earlier polling search has left in that buffer  *)
(* once a search streams, and it is no longer counted.                     *)
SearchDone ==
  \/ /\ reader.continuousReading
     /\ tagsRemaining' = 1 /\ unread' = 0
     /\ searching' = TRUE /\ acks' = IF acks = 0 THEN 0 ELSE acks - 1
     /\ UNCHANGED nextTag
  \/ /\ ~reader.continuousReading /\ acks = 0
     /\ \E found \in 0 .. MaxTags + 1 - nextTag :
          /\ tagsRemaining' = found /\ unread' = found
          /\ nextTag' = nextTag + found
     /\ UNCHANGED <<searching, acks>>

BgReadDone ==
  /\ bpc = "reading" /\ "success" \in ReadResults /\ reader.connected
  /\ reader' = [reader EXCEPT !.trueAsyncflag = reader.continuousReading,
                              !.readState = "ACTIVE",
                              !.backgroundRunning = TRUE]
  /\ SearchDone
  /\ readWaiters' = {}
  /\ backgroundLock' = "free" /\ bpc' = "dispatch"
  /\ UNCHANGED <<appVars, backgroundWaiters, queueVars, parseVars,
                 tagsRemainingInBuffer, bufResponse>>

(* TMR_read fails: "fatal" is a timeout, a CRC error, an unknown error or  *)
(* an assertion of the module, "antenna" the missing antenna of a module   *)
(* without power amplifier protection, after which the thread returns.     *)
(* What a polling search found before it failed is never fetched, since    *)
(* the next one clears the module's buffer: such tags get no number here.  *)
BgReadFailed(status) ==
  /\ bpc = "reading" /\ status \in ReadResults \cup {"retry"}
  /\ reader.connected => status \in ReadResults
  /\ acks' = acks \/ (acks > 0 /\ acks' = acks - 1)
  /\ IF status = "antenna"
       THEN /\ ~HasPA
            /\ reader' = [reader EXCEPT !.backgroundEnabled = FALSE,
                                        !.readState = "DONE"]
            /\ bpc' = "exited" /\ UNCHANGED readWaiters
       ELSE /\ bpc' = "top"
            /\ IF reader.searchStatus
                 THEN /\ reader' = [reader EXCEPT !.backgroundEnabled =
                                      @ /\ status # "fatal"]
                      /\ UNCHANGED readWaiters
                 ELSE /\ reader' = [reader EXCEPT !.readState = "STARTED",
                                                  !.backgroundEnabled = FALSE]
                      /\ readWaiters' = {}
  /\ tagsRemaining' \in {tagsRemaining, 0}
  /\ backgroundLock' = "free"
  /\ UNCHANGED <<appVars, backgroundWaiters, queueVars, parseVars, searching,
                 nextTag, unread, tagsRemainingInBuffer, bufResponse>>

BgDispatch ==
  /\ bpc = "dispatch"
  /\ bpc' = IF reader.continuousReading THEN "stream" ELSE "poll"
  /\ UNCHANGED <<appVars, reader, waitVars, queueVars, parseVars, linkVars>>

(* The end of the outer loop's body.                                       *)
BgBottom ==
  /\ bpc = "bottom"
  /\ bpc' = IF reader.backgroundThreadCancel THEN "exited" ELSE "top"
  /\ UNCHANGED <<appVars, reader, waitVars, queueVars, parseVars, linkVars>>

--------------------------------------------------------------------------------
(* The streaming loop: TMR_hasMoreTags receives the next message.          *)
Streaming == bpc = "stream" /\ tagsRemainingInBuffer = 0
Sending   == reader.connected /\ (searching \/ acks > 0)

(* A tag report is received into bufResponse.                              *)
ReceiveTag ==
  /\ Sending /\ "tag" \in StreamEvents /\ nextTag <= MaxTags
  /\ tagsRemainingInBuffer' = 1 /\ bufResponse' = nextTag
  /\ nextTag' = nextTag + 1

StreamTag ==
  /\ Streaming /\ ReceiveTag
  /\ bpc' = "got"
  /\ UNCHANGED <<appVars, reader, waitVars, queueVars, parseVars,
                 tagsRemaining, searching, acks, unread>>

StreamStatus ==
  /\ Streaming /\ reader.connected /\ searching
  /\ "status" \in StreamEvents
  /\ bufResponse' = Status
  /\ bpc' = "got"
  /\ UNCHANGED <<appVars, reader, waitVars, queueVars, parseVars,
                 tagsRemaining, tagsRemainingInBuffer, moduleVars>>

(* bufResponse still counts a tag: hasMoreTags does not receive, and what  *)
(* the buffer holds by now is taken for the tag.                           *)
StreamLeftover ==
  /\ bpc = "stream" /\ tagsRemainingInBuffer > 0
  /\ bpc' = IF tagsRemaining > 0 THEN "got" ELSE "bottom"
  /\ UNCHANGED <<appVars, reader, waitVars, queueVars, parseVars, linkVars>>

(* End of a search cycle or of the stream, or an error that is reported    *)
(* and passed over; once the transport is shut down every receive ends so. *)
StreamQuiet ==
  /\ Streaming
  /\ reader.connected => searching /\ "quiet" \in StreamEvents
  /\ tagsRemaining' \in {tagsRemaining, 0}
  /\ bpc' = "bottom"
  /\ UNCHANGED <<appVars, reader, waitVars, queueVars, parseVars,
                 tagsRemainingInBuffer, bufResponse, moduleVars>>

(* A corrupted message is reported and dropped.                            *)
StreamCrc ==
  /\ Streaming /\ Sending /\ "crc" \in StreamEvents
  /\ \/ nextTag <= MaxTags /\ nextTag' = nextTag + 1 /\ UNCHANGED acks
     \/ acks > 0 /\ acks' = acks - 1 /\ UNCHANGED nextTag
  /\ UNCHANGED <<appVars, reader, bpc, waitVars, queueVars, parseVars,
                 serialVars, searching, unread>>

(* TMR_ERROR_TAG_ID_BUFFER_FULL: the module has ended its search.          *)
StreamFull ==
  /\ Streaming /\ reader.connected /\ searching
  /\ "full" \in StreamEvents
  /\ searching' = FALSE
  /\ bpc' = "bufferFull"
  /\ UNCHANGED <<appVars, reader, waitVars, queueVars, parseVars, serialVars,
                 acks, nextTag, unread>>

BgBufferFull ==
  /\ bpc = "bufferFull"
  /\ bpc' = IF reader.searchStatus THEN "resubmit" ELSE "stream"
  /\ UNCHANGED <<appVars, reader, waitVars, queueVars, parseVars, linkVars>>

(* The search is submitted again after one more hasMoreTags, whose result  *)
(* is thrown away: a tag stays counted in the buffer, the answer to a stop *)
(* command is gone.                                                        *)
BgResubmit ==
  /\ bpc = "resubmit"
  /\ \/ /\ ReceiveTag
        /\ reader' = [reader EXCEPT !.trueAsyncflag = FALSE]
        /\ UNCHANGED acks
     \/ /\ Sending /\ acks > 0 /\ acks' = acks - 1
        /\ reader' = [reader EXCEPT !.trueAsyncflag = FALSE,
                                    !.finishedReading = TRUE]
        /\ UNCHANGED <<tagsRemainingInBuffer, bufResponse, nextTag>>
     \/ /\ reader' = [reader EXCEPT !.trueAsyncflag = FALSE]
        /\ UNCHANGED <<tagsRemainingInBuffer, bufResponse, nextTag, acks>>
  /\ bpc' = "bottom"
  /\ UNCHANGED <<appVars, waitVars, queueVars, parseVars, tagsRemaining,
                 searching, unread>>

(* Seeded: the type of the 0x2F answer is not looked at. *)
StreamEndSeeded ==
  /\ Streaming /\ reader.connected
  /\ acks' = acks - 1
  /\ reader' = [reader EXCEPT !.finishedReading = TRUE]
  /\ bpc' = "drain"
  /\ UNCHANGED <<appVars, waitVars, queueVars, parseVars, serialVars, searching,
                 nextTag, unread>>

(* The answer to a stop command: END_OF_READING.                           *)
StreamEnd ==
  /\ Streaming /\ reader.connected /\ acks > 0
  /\ acks' = acks - 1
  /\ reader' = [reader EXCEPT !.finishedReading = TRUE]
  /\ bpc' = "drain"
  /\ UNCHANGED <<appVars, waitVars, queueVars, parseVars, serialVars, searching,
                 nextTag, unread>>

(* Seeded: the state is set without a broadcast. *)
ReadingDoneSeeded(pc) ==
  /\ LockFree
  /\ reader' = [reader EXCEPT !.backgroundEnabled = FALSE, !.readState = "DONE"]
  /\ bpc' = pc
  /\ UNCHANGED <<appVars, waitVars, queueVars, parseVars, linkVars>>

(* Under backgroundLock: no more reading, and whoever waits is told.       *)
ReadingDone(pc) ==
  /\ LockFree
  /\ reader' = [reader EXCEPT !.backgroundEnabled = FALSE, !.readState = "DONE"]
  /\ readWaiters' = {}
  /\ bpc' = pc
  /\ UNCHANGED <<appVars, backgroundLock, backgroundWaiters, queueVars,
                 parseVars, linkVars>>

(* Seeded: the queue is not drained. *)
BgDrainSeeded == bpc = "drain" /\ ReadingDone("bottom")

(* The parser is given the time to empty the queue.                        *)
BgDrain == bpc = "drain" /\ queue_depth = 0 /\ ReadingDone("bottom")

(* The module stays silent, or is lost: the search is stopped by force.    *)
(* The flush is tcflush(TCOFLUSH) and leaves what was received.            *)
StreamLost ==
  /\ Streaming /\ reader.connected /\ "lost" \in StreamEvents
  /\ IF reader.finishedReading THEN UNCHANGED <<searching, acks>> ELSE StopModule
  /\ bpc' = "forced"
  /\ UNCHANGED <<appVars, reader, waitVars, queueVars, parseVars, serialVars,
                 nextTag, unread>>

BgForced == bpc = "forced" /\ ReadingDone("forcedSearch")

(* The two flags below are written without a lock.                         *)
BgForcedSearch ==
  /\ bpc = "forcedSearch"
  /\ reader' = [reader EXCEPT !.searchStatus = FALSE]
  /\ bpc' = "forcedReset"
  /\ UNCHANGED <<appVars, waitVars, queueVars, parseVars, linkVars>>

BgForcedReset ==
  /\ bpc = "forcedReset"
  /\ reader' = [reader EXCEPT !.continuousReading = FALSE]
  /\ bpc' = "bottom"
  /\ UNCHANGED <<appVars, waitVars, queueVars, parseVars, linkVars>>

--------------------------------------------------------------------------------
(* A message was received: sem_getvalue(&queue_slots), then the choice     *)
(* between posting it and giving up the search.                            *)
BgProbe ==
  /\ bpc = "got"
  /\ bpc' = IF queue_slots > 0 THEN "post" ELSE "noSlot"
  /\ UNCHANGED <<appVars, reader, waitVars, queueVars, parseVars, linkVars>>

BgNoSlot ==
  /\ bpc = "noSlot"
  /\ IF reader.searchStatus
       THEN /\ bpc' = "overflow"
            /\ reader' = [reader EXCEPT !.isBufferOverFlow = TRUE]
       ELSE bpc' = "post" /\ UNCHANGED reader
  /\ UNCHANGED <<appVars, waitVars, queueVars, parseVars, linkVars>>

(* verifySearchStatus: stop, then receive into bufResponse and drop what   *)
(* comes until the module answers a stop or falls silent.                  *)
BgVerify ==
  /\ bpc = "overflow" /\ reader.connected
  /\ nextTag' \in nextTag .. MaxTags + 1
  /\ \/ searching' = FALSE /\ UNCHANGED acks
     \/ "lost" \in StreamEvents /\ StopModule
  /\ bufResponse' = Stale
  /\ bpc' = "refill"
  /\ UNCHANGED <<appVars, reader, waitVars, queueVars, parseVars,
                 tagsRemaining, tagsRemainingInBuffer, unread>>

(* Wait until every slot is free again, then start the search anew.        *)
BgRefill ==
  /\ bpc = "refill" /\ queue_slots = Slots
  /\ reader' = [reader EXCEPT !.trueAsyncflag = FALSE]
  /\ bpc' = "bottom"
  /\ UNCHANGED <<appVars, waitVars, queueVars, parseVars, linkVars>>

(* process_async_response: sem_wait(&queue_slots), enqueue, sem_post.      *)
BgTakeSlot ==
  /\ bpc = "post" /\ queue_slots > 0
  /\ queue_slots' = queue_slots - 1
  /\ bpc' = "enqueue"
  /\ UNCHANGED <<appVars, reader, waitVars, queue, queue_depth, queue_length,
                 parseVars, linkVars>>

BgEnqueue ==
  /\ bpc = "enqueue"
  /\ queue' = Append(queue, bufResponse)
  /\ queue_depth' = queue_depth + 1
  /\ bpc' = "signal"
  /\ UNCHANGED <<appVars, reader, waitVars, queue_length, queue_slots,
                 parseVars, linkVars>>

(* Seeded: the tag stays counted in the buffer. *)
BgSignalSeeded ==
  /\ bpc = "signal"
  /\ queue_length' = queue_length + 1
  /\ bpc' = "stream"
  /\ UNCHANGED <<appVars, reader, waitVars, queue, queue_depth, queue_slots,
                 parseVars, linkVars>>

BgSignal ==
  /\ bpc = "signal"
  /\ queue_length' = queue_length + 1
  /\ tagsRemainingInBuffer' =
       tagsRemainingInBuffer - Holds(bufResponse # Status)
  /\ bpc' = "stream"
  /\ UNCHANGED <<appVars, reader, waitVars, queue, queue_depth, queue_slots,
                 parseVars, tagsRemaining, bufResponse, moduleVars>>

--------------------------------------------------------------------------------
(* The polling loop of modules that do not stream: the tags of one read    *)
(* are fetched and handed to the listeners by this thread.  (A response    *)
(* may carry several tags; here it carries one.)                           *)
PollTag ==
  /\ bpc = "poll" /\ tagsRemaining > 0
  /\ \/ /\ tagsRemainingInBuffer > 0
        /\ delivered' = Append(delivered, bufResponse)
        /\ tagsRemainingInBuffer' = tagsRemainingInBuffer - 1
        /\ UNCHANGED unread
     \/ /\ tagsRemainingInBuffer = 0
        /\ reader.connected /\ acks = 0 /\ unread > 0
        /\ delivered' = Append(delivered, nextTag - unread)
        /\ unread' = unread - 1
        /\ UNCHANGED tagsRemainingInBuffer
  /\ tagsRemaining' = tagsRemaining - 1
  /\ UNCHANGED <<appVars, reader, bpc, waitVars, queueVars, ppc, hand,
                 bufResponse, searching, acks, nextTag>>

(* getNextTag fails, as it does on a stale answer to a stop command.       *)
PollFailed ==
  /\ bpc = "poll" /\ tagsRemaining > 0 /\ LockFree
  /\ tagsRemainingInBuffer = 0
  /\ reader.connected /\ acks = 0 => "lost" \in StreamEvents
  /\ acks' = IF acks = 0 THEN 0 ELSE acks - 1
  /\ reader' = [reader EXCEPT !.backgroundEnabled = FALSE]
  /\ bpc' = "bottom"
  /\ UNCHANGED <<appVars, waitVars, queueVars, parseVars, serialVars, searching,
                 nextTag, unread>>

PollEnd ==
  /\ bpc = "poll" /\ tagsRemaining = 0
  /\ bpc' = "bottom"
  /\ UNCHANGED <<appVars, reader, waitVars, queueVars, parseVars, linkVars>>

--------------------------------------------------------------------------------
(* parse_tag_reads.                                                        *)
ParserWait ==
  /\ ppc = "wait" /\ queue_length > 0
  /\ queue_length' = queue_length - 1
  /\ ppc' = "take"
  /\ UNCHANGED <<appVars, reader, bpc, waitVars, queue, queue_depth,
                 queue_slots, hand, delivered, linkVars>>

(* Seeded: the head of the queue is read and not unlinked. *)
ParserTakeSeeded ==
  /\ ppc = "take"
  /\ IF queue = <<>>
       THEN ppc' = "wait" /\ UNCHANGED <<queue_depth, hand>>
       ELSE /\ ppc' = "notify"
            /\ hand' = Head(queue)
            /\ queue_depth' = queue_depth - 1
  /\ UNCHANGED <<appVars, reader, bpc, waitVars, queue, queue_length,
                 queue_slots, delivered, linkVars>>

(* The head is tested without queue_lock; an entry missed here would never *)
(* give its slot back.                                                     *)
ParserTake ==
  /\ ppc = "take"
  /\ IF queue = <<>>
       THEN ppc' = "wait" /\ UNCHANGED <<queue, queue_depth, hand>>
       ELSE /\ ppc' = "notify"
            /\ hand' = Head(queue) /\ queue' = Tail(queue)
            /\ queue_depth' = queue_depth - 1
  /\ UNCHANGED <<appVars, reader, bpc, waitVars, queue_length, queue_slots,
                 delivered, linkVars>>

ParserNotify ==
  /\ ppc = "notify"
  /\ delivered' = IF hand = Status \/ Cancelled THEN delivered
                  ELSE Append(delivered, hand)
  /\ ppc' = "release"
  /\ UNCHANGED <<appVars, reader, bpc, waitVars, queueVars, hand, linkVars>>

(* Seeded: only an entry that holds a tag gives its slot back. *)
ParserReleaseSeeded ==
  /\ ppc = "release"
  /\ queue_slots' = queue_slots + Holds(hand # Status)
  /\ ppc' = IF Cancelled THEN "cancelled" ELSE "wait"
  /\ UNCHANGED <<appVars, reader, bpc, waitVars, queue, queue_depth,
                 queue_length, hand, delivered, linkVars>>

ParserRelease ==
  /\ ppc = "release"
  /\ queue_slots' = queue_slots + 1
  /\ ppc' = IF Cancelled THEN "cancelled" ELSE "wait"
  /\ UNCHANGED <<appVars, reader, bpc, waitVars, queue, queue_depth,
                 queue_length, hand, delivered, linkVars>>

--------------------------------------------------------------------------------
(* POSIX lets a wait on a condition variable return at any time.           *)
SpuriousWakeup ==
  /\ \E t \in readWaiters \cup backgroundWaiters :
       /\ readWaiters' = readWaiters \ {t}
       /\ backgroundWaiters' = backgroundWaiters \ {t}
  /\ UNCHANGED <<appVars, reader, bpc, backgroundLock, queueVars, parseVars,
                 linkVars>>

(* The reader is destroyed and its threads are gone.                       *)
Terminated ==
  /\ Cancelled /\ ppc \in {"none", "cancelled"}
  /\ UNCHANGED vars

Calling(a) ==
  \/ StartParser(a) \/ StartReader(a) \/ StartWait(a)
  \/ StopStarted(a) \/ StopCheck(a) \/ StopSend(a) \/ StopDone(a)
  \/ StopDisable(a) \/ StopIdle(a) \/ StopReset(a)
  \/ Cleanup(a) \/ Join(a) \/ CancelParser(a)

Call(a) == StartReading(a) \/ StopReading(a) \/ Destroy(a)

ReaderThread ==
  \/ BgTop \/ BgWake \/ BgReadDone
  \/ \E status \in {"retry", "fatal", "antenna"} : BgReadFailed(status)
  \/ BgDispatch \/ BgBottom
  \/ StreamTag \/ StreamStatus \/ StreamLeftover \/ StreamQuiet \/ StreamCrc
  \/ StreamFull \/ BgBufferFull \/ BgResubmit
  \/ StreamEnd \/ BgDrain
  \/ StreamLost \/ BgForced \/ BgForcedSearch \/ BgForcedReset
  \/ BgProbe \/ BgNoSlot \/ BgVerify \/ BgRefill
  \/ BgTakeSlot \/ BgEnqueue \/ BgSignal
  \/ PollTag \/ PollFailed \/ PollEnd

Parser == ParserWait \/ ParserTake \/ ParserNotify \/ ParserRelease

Next ==
  \/ \E a \in Apps : Call(a) \/ Calling(a)
  \/ ReaderThread
  \/ Parser
  \/ SpuriousWakeup
  \/ Terminated

Spec == Init /\ [][Next]_vars

(* The threads are scheduled, and an application thread that keeps finding *)
(* backgroundLock taken gets it in the end.  The reader thread never waits *)
(* for ever in a receive: the module sends something, or the receive times *)
(* out.  Nothing makes the application call, or the module see a tag.      *)
Fairness ==
  /\ WF_vars(ReaderThread)
  /\ WF_vars(Parser)
  /\ \A a \in Apps : SF_vars(Calling(a))

FairSpec == Spec /\ Fairness

--------------------------------------------------------------------------------
(* Type correctness of the whole state.                                    *)
ReaderFlags ==
  [readState : {"IDLE", "STARTING", "STARTED", "ACTIVE", "DONE"},
   backgroundSetup : BOOLEAN, backgroundEnabled : BOOLEAN,
   backgroundRunning : BOOLEAN, backgroundThreadCancel : BOOLEAN,
   parserSetup : BOOLEAN, searchStatus : BOOLEAN, continuousReading : BOOLEAN,
   trueAsyncflag : BOOLEAN, finishedReading : BOOLEAN,
   isBufferOverFlow : BOOLEAN, connected : BOOLEAN]

AppControl == [Apps -> {"idle"} \cup Running \cup Closing]

ReaderControl ==
  {"none", "top", "disabled", "reading", "dispatch", "bottom", "exited",
   "stream", "bufferFull", "resubmit", "drain", "forced", "forcedSearch",
   "forcedReset", "got", "noSlot", "overflow", "refill", "post", "enqueue",
   "signal", "poll"}

ParserControl == {"none", "wait", "take", "notify", "release", "cancelled"}

TypeOK ==
  /\ reader \in ReaderFlags
  /\ apc \in AppControl /\ bpc \in ReaderControl /\ ppc \in ParserControl
  /\ backgroundLock \in {"free", "bg"}
  /\ readWaiters \subseteq Apps
  /\ backgroundWaiters \subseteq Apps \cup {"bg"}
  /\ queue \in Seq(Int)
  /\ queue_depth \in Int /\ queue_length \in Int /\ queue_slots \in Int
  /\ hand \in Int
  /\ tagsRemaining \in Nat /\ tagsRemainingInBuffer \in Int
  /\ bufResponse \in Int
  /\ searching \in BOOLEAN /\ acks \in Nat /\ nextTag \in Nat \ {0}
  /\ unread \in Nat
  /\ delivered \in Seq(Int)
  /\ session \in BOOLEAN /\ starts \in 0 .. MaxStarts

(* Every slot of the queue is accounted for: free, taken by the reader     *)
(* thread for the entry it is about to queue, occupied, or with the        *)
(* parser until it posts the slot back; and queue_length counts the        *)
(* entries the parser has not been let in for.  So the queue never holds   *)
(* more than Slots entries, queue_depth (an unsigned int the parser        *)
(* decrements without a test) never wraps, and the parser, let in by       *)
(* queue_length, never finds the queue empty.                              *)
SlotsAccounted ==
  ppc # "none" =>
    /\ queue_depth = Len(queue)
    /\ queue_slots + Holds(bpc = "enqueue") + Len(queue)
         + Holds(ppc \in {"notify", "release"}) = Slots
    /\ queue_length + Holds(bpc = "signal") + Holds(ppc = "take") = Len(queue)
    /\ queue_slots >= 0 /\ queue_length >= 0

(* The serial line has no lock: when the application sends commands of its *)
(* own, in TMR_stopReading's last step or between a stop and the next      *)
(* start, the reader thread is not in the middle of an exchange.           *)
OnLine == bpc \in {"reading", "stream", "resubmit", "overflow", "poll"}

LineExclusive ==
  (\/ \E a \in Apps : apc[a] = "stopReset"
   \/ Quiet /\ ~session)
  => ~OnLine

(* What the reader thread has received and the listeners have not seen.    *)
InReader == IF bpc \in {"got", "noSlot", "post", "enqueue"}
              THEN <<bufResponse>> ELSE <<>>
InParser == IF ppc = "notify" THEN <<hand>> ELSE <<>>
InModule == [i \in 1 .. unread |-> nextTag - unread + i - 1]
Pipeline == delivered \o InParser \o queue \o InReader \o InModule

(* Whatever goes wrong on the line or with the queue, no tag is delivered  *)
(* twice, and none that is delivered is still on its way a second time.    *)
NoneTwice ==
  \A i, j \in 1 .. Len(Pipeline) :
    i # j /\ Pipeline[i] > 0 => Pipeline[i] # Pipeline[j]

(* Without losses on the line no tag is lost, none is delivered twice and  *)
(* nothing else is delivered, until the queue overflows or the reader is   *)
(* destroyed.  (In order only within one mode of reading: see              *)
(* ImplementsTagStream.)                                                   *)
NothingLost ==
  ~Cancelled /\ ~reader.isBufferOverFlow =>
  /\ NoneTwice
  /\ \A tag \in 1 .. nextTag - 1 : \E i \in 1 .. Len(Pipeline) :
       Pipeline[i] = tag
  /\ \A i \in 1 .. Len(delivered) : delivered[i] > 0

(* When TMR_stopReading has returned the search is over: the reader thread *)
(* is disabled and cannot start another read, the module is idle with      *)
(* nothing of it left on the line, and at most the entry the parser has in *)
(* hand is still to be delivered.  (A queue that has overflowed ends the   *)
(* search another way.)                                                    *)
StopQuiesces ==
  Quiet /\ ~session /\ ~reader.isBufferOverFlow =>
    /\ bpc \in {"none", "disabled", "top", "exited"} /\ ~reader.backgroundEnabled
    /\ ~searching /\ acks = 0
    /\ queue = <<>>

(* TMR_stopReading returns.                                                *)
StopReturns ==
  \A a \in Apps : apc[a] = "stopStarted" ~> apc[a] = "idle"

(* TMR_startReading returns, unless the module goes on refusing to read    *)
(* (and the exception listeners go on being told).                         *)
Refused == \E status \in {"retry", "fatal", "antenna"} : BgReadFailed(status)

StartReturns ==
  \/ \A a \in Apps : apc[a] = "startParser" ~> apc[a] = "idle"
  \/ []<><<Refused>>_vars

(* Streaming implements the abstract tag stream: order, no loss, no         *)
(* duplicate, bounded waiting, quiescence after a stop, and delivery of    *)
(* every accepted tag.                                                     *)
Stream == INSTANCE TagStream WITH
  Tag <- 1 .. MaxTags, InFlight <- Slots + 1, searching <- session,
  pending <- InParser \o queue \o InReader, delivered <- delivered

ImplementsTagStream == Stream!Spec

(* TMR_destroy returns.                                                    *)
DestroyReturns ==
  \A a \in Apps : apc[a] = "cleanup" ~> apc[a] = "destroyed"

================================================================================
