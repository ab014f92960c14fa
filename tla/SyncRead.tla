-------------------------------- MODULE SyncRead --------------------------------
(***************************************************************************)
(* Synchronous reads: TMR_SR_read, TMR_SR_hasMoreTags and TMR_SR_getNextTag *)
(* (cbits/api/serial_reader.c) under the caller that the Haskell binding   *)
(* is (read and readLoop of MercuryApi.hs), with setProtocol and the two   *)
(* other calls that share its cached settings.  One thread at a time uses  *)
(* a Reader, so the hard part is not the interleaving of threads but the   *)
(* half-duplex line: every command may be lost, refused, or answered too   *)
(* late, and what the call had done by then stays done.                    *)
(*                                                                         *)
(* One step is one exchange, a command and what TMR_SR_receiveMessage makes *)
(* of the next message on the line.  An answer carries no number: it is    *)
(* matched by its opcode alone, so one that missed its command is still on *)
(* the line for the next.  The names of host variables are those of        *)
(* TMR_SR_SerialReader.                                                    *)
(*                                                                         *)
(* A definition named ...Seeded is the definition after it with a          *)
(* plausible bug put in: the properties are validated against it, and no   *)
(* specification uses it.                                                  *)
(***************************************************************************)
EXTENDS Integers, Sequences

CONSTANTS
  Protocols,     \* tag protocols the module speaks
  Gen2,          \* the protocol of the tag operations
  Tags,          \* the tags in the field
  TagsOf,        \* which of them answer in which protocol
  PacketTags,    \* tags that fit in one answer to GET_TAG_ID_BUFFER
  Troubles,      \* what may go wrong on the line
  MaxReads,      \* bound: calls of TMR_read
  MaxSearches,   \* bound: searches in one read
  MaxFound,      \* bound: tags in one search
  MaxFaults      \* bound: troubles and refusals

ASSUME ProtocolsAssumption ==
  /\ Gen2 \in Protocols
  /\ TagsOf \in [Protocols -> SUBSET Tags]
ASSUME PacketAssumption == PacketTags \in 1..255
ASSUME TroublesAssumption ==
  Troubles \subseteq {"lost", "unanswered", "late", "corrupt"}
ASSUME BoundsAssumption ==
  MaxReads \in Nat /\ MaxSearches \in Nat /\ MaxFound \in Nat /\ MaxFaults \in Nat

VARIABLES
  pc,                     \* the command that comes next
  call,                   \* the API call under way, or the last one
  status,                 \* what it returned
  tagsRemaining,          \* fields of TMR_SR_SerialReader
  tagsRemainingInBuffer,
  bufResponse,            \* the tags in it that were not parsed yet
  currentProtocol,
  enableReadFiltering,
  boot,                   \* what TMR_SR_boot has found out about the module
  results,                \* the tags readLoop has collected
  module,                 \* the RFID module
  line,                   \* answers on their way
  read,                   \* history: number of TMR_read so far
  searches,               \* history: searches of this read
  faults,                 \* history: troubles and refusals so far
  unsettled,              \* history: a change of a setting went wrong
  stranded                \* history: a packet was left half parsed

hostVars    == <<tagsRemaining, tagsRemainingInBuffer, bufResponse, results>>
settingVars == <<currentProtocol, enableReadFiltering, unsettled>>
historyVars == <<read, searches, stranded>>
vars == <<pc, call, status, hostVars, settingVars, boot, module,
          line, historyVars, faults>>

(* A tag as it was read: its identity and the read that found it.         *)
Garbage  == [tag |-> "garbage", read |-> 0]
TagReads == [tag : Tags, read : Nat] \cup {Garbage}

Plans == [kind : {"read"}, protocol : Protocols, detect : BOOLEAN,
          isStopNTags : BOOLEAN]
TagOp == [kind |-> "tagop", protocol |-> Gen2, detect |-> FALSE,
          isStopNTags |-> FALSE]
Configuration == [TagOp EXCEPT !.kind = "filter"]
Calls == Plans \cup {TagOp, Configuration}

Opcodes == {"RESET_STATS", "CLEAR_TAG_ID_BUFFER", "ANTENNA_DETECT",
            "SET_ANTENNAS", "SET_PROTOCOL", "SET_CONFIGURATION",
            "READ_TAG_ID_MULTIPLE", "GET_TAG_ID_BUFFER", "TAG_OP"}
Statuses == {"SUCCESS", "NO_TAGS_FOUND", "FAULT"}
Errors   == {"TIMEOUT", "CRC_ERROR", "DEVICE_RESET"}

Answer(op, st, tags, count) ==
  [op |-> op, status |-> st, tags |-> tags, count |-> count]

Min2(a, b) == IF a < b THEN a ELSE b

--------------------------------------------------------------------------------
(* What the module may make of a command: its next state and its answer.  *)
Run(m, answer) == [module |-> m, answer |-> answer]
Done(op, m)    == {Run(m, Answer(op, "SUCCESS", <<>>, 0))}

Cleared == [module EXCEPT !.buffer = <<>>, !.seen = <<>>]

(* Its filter drops a tag that is in the tag buffer already.              *)
Sightings ==
  {s \in UNION {[1..n -> TagsOf[module.protocol]] : n \in 0..MaxFound} :
     module.filter =>
       /\ \A i, j \in DOMAIN s : s[i] = s[j] => i = j
       /\ \A i \in DOMAIN s, j \in DOMAIN module.seen : s[i] # module.seen[j].tag}

Found(s) == [i \in DOMAIN s |-> [tag |-> s[i], read |-> read]]

Kept(s) == [module EXCEPT !.buffer = @ \o Found(s), !.seen = @ \o Found(s)]

Search ==
  {Run(Kept(s), Answer("READ_TAG_ID_MULTIPLE",
                       IF s = <<>> THEN "NO_TAGS_FOUND" ELSE "SUCCESS",
                       <<>>, Len(s))) : s \in Sightings}
  \cup {Run(Kept(s), Answer("READ_TAG_ID_MULTIPLE", "FAULT", <<>>, 0)) :
          s \in Sightings}

(* The first tags of its buffer that were not fetched yet.                *)
Fetched ==
  LET n == Min2(PacketTags, Len(module.buffer))
  IN  {IF n = 0
       THEN Run(module, Answer("GET_TAG_ID_BUFFER", "NO_TAGS_FOUND", <<>>, 0))
       ELSE Run([module EXCEPT !.buffer = SubSeq(@, n + 1, Len(@))],
                Answer("GET_TAG_ID_BUFFER", "SUCCESS",
                       SubSeq(module.buffer, 1, n), 0))}

(* The same command without arguments: the distance of its two indices.   *)
Counted ==
  {Run(module, Answer("GET_TAG_ID_BUFFER", "SUCCESS", <<>>, Len(module.buffer)))}

Refused(op) == {Run(module, Answer(op, "FAULT", <<>>, 0))}

--------------------------------------------------------------------------------
(* TMR_SR_sendTimeout.  A late answer is there when the next command       *)
(* waits for its own: no two of them are behind at once.                   *)
Received(op, r, how) ==
  LET sent   == IF how \in {"lost", "unanswered"}
                THEN line ELSE Append(line, r.answer)
      silent == sent = <<>> \/ how = "late"
  IN  [module |-> IF how = "lost" THEN module ELSE r.module,
       line   |-> IF silent THEN sent ELSE Tail(sent),
       faults |-> IF how # "prompt" \/ r.answer.status = "FAULT"
                  THEN faults + 1 ELSE faults,
       answer |-> IF silent THEN r.answer ELSE Head(sent),
       status |-> IF silent THEN "TIMEOUT"
                  ELSE IF how = "corrupt" THEN "CRC_ERROR"
                  ELSE IF Head(sent).op # op THEN "DEVICE_RESET"
                  ELSE Head(sent).status]

Ways == {"prompt"} \cup {how \in Troubles : how = "late" => line = <<>>}

Outcomes(op, runs) ==
  {o \in {Received(op, r, how) : r \in runs \cup Refused(op), how \in Ways} :
     o.faults <= MaxFaults}

Exchanged(o) == module' = o.module /\ line' = o.line /\ faults' = o.faults

Return(st) == pc' = "idle" /\ status' = st

Proceed(next) == pc' = next /\ UNCHANGED status

(* A command whose answer carries nothing.                                *)
Acknowledged(op, m, next) ==
  \E o \in Outcomes(op, Done(op, m)) :
    Exchanged(o) /\ IF o.status = "SUCCESS" THEN Proceed(next) ELSE Return(o.status)

--------------------------------------------------------------------------------
(* A connected reader.  Old firmware of the M6e family and the other modules *)
(* have no statistics to reset; for the others TMR_SR_boot switches extended *)
(* EPCs on, and only that family has a read filter to set.                *)
Boots == [m6e : {TRUE}, supportsResetStats : BOOLEAN]
         \cup {[m6e |-> FALSE, supportsResetStats |-> FALSE]}

Init ==
  /\ pc = "idle" /\ call = TagOp /\ status = "none"
  /\ tagsRemaining = 0 /\ tagsRemainingInBuffer = 0 /\ bufResponse = <<>>
  /\ results = <<>>
  /\ boot \in Boots
  /\ currentProtocol = Gen2 /\ unsettled = FALSE
  /\ enableReadFiltering \in IF boot.m6e THEN BOOLEAN ELSE {TRUE}
  /\ module = [protocol |-> Gen2, filter |-> enableReadFiltering,
               buffer |-> <<>>, seen |-> <<>>]
  /\ line = <<>> /\ read = 0 /\ searches = 0 /\ faults = 0 /\ stranded = FALSE

(* TMR_SR_read, up to its first command.                                  *)
Read(plan) ==
  /\ pc = "idle" /\ read < MaxReads
  /\ pc' = IF boot.supportsResetStats THEN "stats" ELSE "clear"
  /\ call' = plan /\ status' = "none"
  /\ results' = <<>> /\ read' = read + 1 /\ searches' = 0
  /\ UNCHANGED <<tagsRemaining, tagsRemainingInBuffer, bufResponse, settingVars,
                 boot, module, line, faults, stranded>>

(* _resetReaderStats.  After TMR_SR_boot its pointer is not NULL, and the  *)
(* branch that would find out about the statistics is never taken.        *)
ResetStats ==
  /\ pc = "stats"
  /\ Acknowledged("RESET_STATS", module, "clear")
  /\ UNCHANGED <<call, hostVars, settingVars, boot, historyVars>>

AfterClear == IF call.detect THEN "detect" ELSE "antennas"

ClearUnansweredSeeded ==
  /\ pc = "clear"
  /\ \E o \in Outcomes("CLEAR_TAG_ID_BUFFER",
                       Done("CLEAR_TAG_ID_BUFFER", Cleared)) :
       /\ Exchanged(o)
       /\ Proceed(AfterClear) /\ tagsRemaining' = 0
  /\ UNCHANGED <<call, tagsRemainingInBuffer, bufResponse, results, settingVars,
                 boot, historyVars>>

ClearTagBufferSeeded ==
  /\ pc = "clear"
  /\ \E o \in Outcomes("CLEAR_TAG_ID_BUFFER",
                       Done("CLEAR_TAG_ID_BUFFER", Cleared)) :
       /\ Exchanged(o)
       /\ IF o.status = "SUCCESS" THEN Proceed(AfterClear) ELSE Return(o.status)
       /\ UNCHANGED tagsRemaining
  /\ UNCHANGED <<call, tagsRemainingInBuffer, bufResponse, results, settingVars,
                 boot, historyVars>>

ClearTagBuffer ==
  /\ pc = "clear"
  /\ \E o \in Outcomes("CLEAR_TAG_ID_BUFFER",
                       Done("CLEAR_TAG_ID_BUFFER", Cleared)) :
       /\ Exchanged(o)
       /\ IF o.status = "SUCCESS"
          THEN Proceed(AfterClear) /\ tagsRemaining' = 0
          ELSE Return(o.status) /\ UNCHANGED tagsRemaining
  /\ UNCHANGED <<call, tagsRemainingInBuffer, bufResponse, results, settingVars,
                 boot, historyVars>>

(* prepForSearch: a plan without antennas asks the module for them.       *)
DetectAntennas ==
  /\ pc = "detect"
  /\ Acknowledged("ANTENNA_DETECT", module, "antennas")
  /\ UNCHANGED <<call, hostVars, settingVars, boot, historyVars>>

SetAntennas ==
  /\ pc = "antennas"
  /\ Acknowledged("SET_ANTENNAS", module,
                  IF currentProtocol = call.protocol THEN "search" ELSE "protocol")
  /\ UNCHANGED <<call, hostVars, settingVars, boot, historyVars>>

--------------------------------------------------------------------------------
(* setProtocol, for a read and for a tag operation.  The module goes back  *)
(* to its own filter when its protocol changes.                            *)
Switched == [module EXCEPT !.protocol = call.protocol, !.filter = TRUE]
Filtering(value) == [module EXCEPT !.filter = value]
Prepared == IF call.kind = "read" THEN "search" ELSE "tagop"

SetProtocolSeeded ==
  /\ pc = "protocol"
  /\ Acknowledged("SET_PROTOCOL", Switched,
                  IF boot.m6e THEN "filter" ELSE "extended")
  /\ currentProtocol' = call.protocol
  /\ unsettled' = (unsettled \/ status' \in Errors)
  /\ UNCHANGED <<call, hostVars, enableReadFiltering, boot, historyVars>>

SetProtocol ==
  /\ pc = "protocol"
  /\ Acknowledged("SET_PROTOCOL", Switched,
                  IF boot.m6e THEN "filter" ELSE "extended")
  /\ currentProtocol' = IF pc' = "filter" THEN call.protocol ELSE currentProtocol
  /\ unsettled' = (unsettled \/ status' \in Errors)
  /\ UNCHANGED <<call, hostVars, enableReadFiltering, boot, historyVars>>

SetExtendedEPC ==
  /\ pc = "extended"
  /\ Acknowledged("SET_CONFIGURATION", module, "filter")
  /\ currentProtocol' = IF pc' = "filter" THEN call.protocol ELSE currentProtocol
  /\ unsettled' = (unsettled \/ pc' = "idle")
  /\ UNCHANGED <<call, hostVars, enableReadFiltering, boot, historyVars>>

RestoreFilter ==
  /\ pc = "filter"
  /\ Acknowledged("SET_CONFIGURATION", Filtering(enableReadFiltering), "timeout")
  /\ unsettled' = (unsettled \/ pc' = "idle")
  /\ UNCHANGED <<call, hostVars, currentProtocol, enableReadFiltering,
                 boot, historyVars>>

RestoreFilterTimeout ==
  /\ pc = "timeout"
  /\ Acknowledged("SET_CONFIGURATION", module, Prepared)
  /\ unsettled' = (unsettled \/ status' \in Errors)
  /\ UNCHANGED <<call, hostVars, currentProtocol, enableReadFiltering,
                 boot, historyVars>>

--------------------------------------------------------------------------------
(* The loop of TMR_SR_read_internal: a search for the time that is left.   *)
(* TIMEOUT stands for TM_ASSERT_FAILED too: both end the read at once.     *)
SearchTagsSeeded ==
  /\ pc = "search" /\ searches < MaxSearches
  /\ searches' = searches + 1
  /\ \E o \in Outcomes("READ_TAG_ID_MULTIPLE", Search) :
       /\ Exchanged(o)
       /\ IF o.status \in {"SUCCESS", "NO_TAGS_FOUND"}
          THEN /\ tagsRemaining' = o.answer.count
               /\ Proceed(IF call.isStopNTags THEN "fetch" ELSE "search")
          ELSE /\ UNCHANGED tagsRemaining
               /\ IF o.status = "TIMEOUT" THEN Return(o.status)
                  ELSE pc' = "count" /\ status' = o.status
  /\ UNCHANGED <<call, tagsRemainingInBuffer, bufResponse, results, settingVars,
                 boot, read, stranded>>

SearchOffByOneSeeded ==
  /\ pc = "search" /\ searches < MaxSearches
  /\ searches' = searches + 1
  /\ \E o \in Outcomes("READ_TAG_ID_MULTIPLE", Search) :
       /\ Exchanged(o)
       /\ IF o.status \in {"SUCCESS", "NO_TAGS_FOUND"}
          THEN /\ tagsRemaining' = tagsRemaining + o.answer.count - 1
               /\ Proceed(IF call.isStopNTags THEN "fetch" ELSE "search")
          ELSE /\ UNCHANGED tagsRemaining
               /\ IF o.status = "TIMEOUT" THEN Return(o.status)
                  ELSE pc' = "count" /\ status' = o.status
  /\ UNCHANGED <<call, tagsRemainingInBuffer, bufResponse, results, settingVars,
                 boot, read, stranded>>

SearchTags ==
  /\ pc = "search" /\ searches < MaxSearches
  /\ searches' = searches + 1
  /\ \E o \in Outcomes("READ_TAG_ID_MULTIPLE", Search) :
       /\ Exchanged(o)
       /\ IF o.status \in {"SUCCESS", "NO_TAGS_FOUND"}
          THEN /\ tagsRemaining' = tagsRemaining + o.answer.count
               /\ Proceed(IF call.isStopNTags THEN "fetch" ELSE "search")
          ELSE /\ UNCHANGED tagsRemaining
               /\ IF o.status = "TIMEOUT" THEN Return(o.status)
                  ELSE pc' = "count" /\ status' = o.status
  /\ UNCHANGED <<call, tagsRemainingInBuffer, bufResponse, results, settingVars,
                 boot, read, stranded>>

TimeUp ==
  /\ pc = "search" /\ pc' = "fetch"
  /\ UNCHANGED <<call, status, hostVars, settingVars, boot, module,
                 line, historyVars, faults>>

(* TMR_SR_cmdGetTagsRemaining after a failed search: the error stands.    *)
GetTagsRemaining ==
  /\ pc = "count"
  /\ \E o \in Outcomes("GET_TAG_ID_BUFFER", Counted) :
       /\ Exchanged(o)
       /\ IF o.status = "SUCCESS"
          THEN Proceed("idle") /\ tagsRemaining' = tagsRemaining + o.answer.count
          ELSE Return(o.status) /\ UNCHANGED tagsRemaining
  /\ UNCHANGED <<call, tagsRemainingInBuffer, bufResponse, results, settingVars,
                 boot, historyVars>>

--------------------------------------------------------------------------------
(* TMR_SR_getNextTag parses the next tag of a packet that holds n.        *)
Parsed(packet) == IF packet = <<>> THEN Garbage ELSE Head(packet)
Rest(packet)   == IF packet = <<>> THEN <<>> ELSE Tail(packet)

Parse(n, packet) ==
  /\ results' = Append(results, Parsed(packet))
  /\ bufResponse' = Rest(packet)
  /\ tagsRemainingInBuffer' = (n - 1) % 256
  /\ tagsRemaining' = tagsRemaining - 1

GetNextTag ==
  /\ pc = "fetch" /\ tagsRemaining > 0 /\ tagsRemainingInBuffer # 0
  /\ Parse(tagsRemainingInBuffer, bufResponse)
  /\ UNCHANGED <<pc, call, status, settingVars, boot, module, line,
                 historyVars, faults>>

FetchTags ==
  /\ pc = "fetch" /\ tagsRemaining > 0 /\ tagsRemainingInBuffer = 0
  /\ \E o \in Outcomes("GET_TAG_ID_BUFFER", Fetched) :
       /\ Exchanged(o)
       /\ IF o.status = "SUCCESS"
          THEN Proceed("fetch") /\ Parse(Len(o.answer.tags), o.answer.tags)
          ELSE Return(o.status) /\ UNCHANGED hostVars
  /\ UNCHANGED <<call, settingVars, boot, historyVars>>

(* TMR_SR_hasMoreTags reports the end and readLoop returns its tags.      *)
ReadLoopEnds ==
  /\ pc = "fetch" /\ tagsRemaining = 0 /\ Return("SUCCESS")
  /\ UNCHANGED <<call, hostVars, settingVars, boot, module, line,
                 historyVars, faults>>

(* An asynchronous exception between two foreign calls of readLoop, or a C *)
(* caller that has seen enough.                                            *)
Abandon ==
  /\ pc = "fetch" /\ tagsRemaining > 0 /\ Return("ABANDONED")
  /\ stranded' = (stranded \/ tagsRemainingInBuffer # 0)
  /\ UNCHANGED <<call, hostVars, settingVars, boot, module, line,
                 read, searches, faults>>

--------------------------------------------------------------------------------
(* TMR_SR_executeTagOp: the protocol, then the one command of the operation. *)
ExecuteTagOp ==
  /\ pc = "idle" /\ call' = TagOp /\ status' = "none"
  /\ pc' = IF currentProtocol = Gen2 THEN "tagop" ELSE "protocol"
  /\ UNCHANGED <<hostVars, settingVars, boot, module, line,
                 historyVars, faults>>

TagOperation ==
  /\ pc = "tagop"
  /\ \E o \in Outcomes("TAG_OP", Done("TAG_OP", module)) :
       Exchanged(o) /\ Return(o.status)
  /\ UNCHANGED <<call, hostVars, settingVars, boot, historyVars>>

(* TMR_paramSet of /reader/tagReadData/enableReadFilter.                  *)
SetReadFilter(value) ==
  /\ pc = "idle" /\ boot.m6e /\ call' = Configuration
  /\ \E o \in Outcomes("SET_CONFIGURATION",
                       Done("SET_CONFIGURATION", Filtering(value))) :
       Exchanged(o) /\ Return(o.status)
  /\ enableReadFiltering' =
       IF status' = "SUCCESS" THEN value ELSE enableReadFiltering
  /\ unsettled' = (unsettled \/ status' \in Errors)
  /\ UNCHANGED <<hostVars, currentProtocol, boot, historyVars>>

Next ==
  \/ \E plan \in Plans : Read(plan)
  \/ ResetStats \/ ClearTagBuffer \/ DetectAntennas \/ SetAntennas
  \/ SetProtocol \/ SetExtendedEPC \/ RestoreFilter \/ RestoreFilterTimeout
  \/ SearchTags \/ TimeUp \/ GetTagsRemaining
  \/ GetNextTag \/ FetchTags \/ ReadLoopEnds \/ Abandon
  \/ ExecuteTagOp \/ TagOperation
  \/ \E value \in BOOLEAN : SetReadFilter(value)

Spec == Init /\ [][Next]_vars

--------------------------------------------------------------------------------
(* Every variable has its type.                                           *)
Byte == 0..255

Answers == [op : Opcodes, status : Statuses, tags : Seq(TagReads), count : Nat]
Modules == [protocol : Protocols, filter : BOOLEAN,
            buffer : Seq(TagReads), seen : Seq(TagReads)]
Points  == {"idle", "stats", "clear", "detect", "antennas", "protocol", "extended",
            "filter", "timeout", "search", "count", "fetch", "tagop"}

TypeOK ==
  /\ pc \in Points /\ call \in Calls
  /\ status \in Statuses \cup Errors \cup {"none", "ABANDONED"}
  /\ tagsRemaining \in Nat /\ tagsRemainingInBuffer \in Byte
  /\ bufResponse \in Seq(TagReads) /\ results \in Seq(TagReads)
  /\ currentProtocol \in Protocols /\ enableReadFiltering \in BOOLEAN
  /\ boot \in Boots /\ unsettled \in BOOLEAN
  /\ module \in Modules /\ line \in Seq(Answers) /\ Len(line) <= 1
  /\ stranded \in BOOLEAN
  /\ read \in 0..MaxReads /\ searches \in 0..MaxSearches /\ faults \in 0..MaxFaults

(* TMR_getNextTag "fetches the next tag from the last TMR_read operation"  *)
(* (tm_reader.h:601), and readLoop returns no other.                       *)
LastReadTags ==
  call.kind = "read" => \A i \in DOMAIN results : results[i].read = read

(* So it is, however the reads and the commands before this one failed, as *)
(* long as no caller has left a packet half parsed.                        *)
FreshTags == ~stranded => LastReadTags

(* A read that succeeds returns what its searches found: every tag, in     *)
(* order, each sighting once, however many searches and packets it took.   *)
ReadComplete ==
  ~stranded /\ status = "SUCCESS" /\ call.kind = "read" => results = module.seen

(* The two counters that decide what getNextTag does, on the host, agree   *)
(* with the tags that are really left, some of which only the module has.  *)
CountHonest ==
  /\ tagsRemainingInBuffer = Len(bufResponse)
  /\ pc = "fetch" /\ ~stranded => tagsRemaining = Len(bufResponse) + Len(module.buffer)

(* As long as no change of a setting went wrong half way, a search runs    *)
(* under the protocol and the filter that the host believes in.            *)
SettingsInStep ==
  ~unsettled /\ pc \in {"idle", "search", "tagop", "timeout"} =>
    module.protocol = currentProtocol /\ module.filter = enableReadFiltering
================================================================================
