----------------------------- MODULE SyncReadProofs -----------------------------
(***************************************************************************)
(* Proofs about SyncRead, for every set of tags and protocols, every packet *)
(* size and every number of reads, searches and faults: the state is well   *)
(* typed, a read returns its own tags, a read that succeeds returns all of  *)
(* them, the counters of the host agree with the tags that are left, and    *)
(* the settings of host and module agree until a change of one goes wrong.  *)
(*                                                                         *)
(* Sequences come first, then what one exchange can leave behind, then what *)
(* each action does in terms of that, then the three inductive invariants.  *)
(***************************************************************************)
EXTENDS SyncRead, TLAPS, SequenceTheorems

(* Sequences of at most two elements.                                     *)
LEMMA NonEmpty ==
  ASSUME NEW S, NEW s \in Seq(S), s # <<>>
  PROVE  Len(s) \in Nat /\ Len(s) # 0 /\ s[1] \in S /\ Head(s) = s[1]
         /\ Tail(s) \in Seq(S)
         /\ Len(Tail(s)) = Len(s) - 1
  <1>1. Len(s) \in Nat /\ Len(s) # 0
    BY EmptySeq
  <1>2. s[1] \in S
    BY <1>1, ElementOfSeq
  <1>3. Head(s) = s[1] /\ Tail(s) \in Seq(S) /\ Len(Tail(s)) = Len(s) - 1
    BY HeadTailProperties
  <1> QED
    BY <1>1, <1>2, <1>3

(* A sequence that is not empty and no longer than one has one element.    *)
LEMMA OneLong ==
  ASSUME NEW S, NEW s \in Seq(S), Len(s) <= 1, s # <<>>
  PROVE  Len(s) = 1 /\ Tail(s) = <<>>
  <1>1. Len(s) \in Nat /\ Len(s) # 0
    BY NonEmpty
  <1>2. Len(s) = 1
    BY SMTT(30), <1>1
  <1>3. Tail(s) \in Seq(S) /\ Len(Tail(s)) = 0
    BY <1>2, NonEmpty
  <1> QED
    BY <1>2, <1>3, EmptySeq

(* What Append adds, with the elements in their places.                    *)
LEMMA Appended ==
  ASSUME NEW S, NEW s \in Seq(S), NEW e \in S
  PROVE  /\ Append(s, e) \in Seq(S) /\ Append(s, e) # <<>>
         /\ Len(Append(s, e)) = Len(s) + 1
         /\ Append(s, e)[Len(s) + 1] = e
         /\ \A i \in 1 .. Len(s) : Append(s, e)[i] = s[i]
  BY AppendProperties

(* Appended to nothing, an element is alone.                               *)
LEMMA AppendEmpty ==
  ASSUME NEW S, NEW e \in S
  PROVE  /\ Append(<<>>, e) \in Seq(S) /\ Append(<<>>, e) # <<>>
         /\ Len(Append(<<>>, e)) = 1 /\ Append(<<>>, e)[1] = e
         /\ Head(Append(<<>>, e)) = e /\ Tail(Append(<<>>, e)) = <<>>
  <1>1. <<>> \in Seq(S) /\ Len(<<>>) = 0
    BY EmptySeq
  <1> DEFINE a == Append(<<>>, e)
  <1>2. a \in Seq(S) /\ a # <<>> /\ Len(a) = 1 /\ a[1] = e
    BY <1>1, Appended
  <1> HIDE DEF a
  <1>3. Head(a) = a[1] 
    BY <1>2, NonEmpty
  <1>4. Tail(a) = <<>>
    <2>1. Len(a) <= 1
      BY <1>2
    <2> QED
      BY <1>2, <2>1, OneLong, Zenon
  <1>5. QED
    BY <1>2, <1>3, <1>4 DEF a

(* Appended to one element, an element is what is left after the first.    *)
LEMMA AppendOne ==
  ASSUME NEW S, NEW s \in Seq(S), Len(s) = 1, NEW e \in S
  PROVE  /\ Append(s, e) \in Seq(S) /\ Append(s, e) # <<>>
         /\ Head(Append(s, e)) = s[1]
         /\ Tail(Append(s, e)) \in Seq(S) /\ Len(Tail(Append(s, e))) = 1
         /\ Tail(Append(s, e)) # <<>>
         /\ Tail(Append(s, e))[1] = e
  <1> DEFINE a == Append(s, e)
  <1>1. a \in Seq(S) /\ a # <<>> /\ Len(a) = 2 /\ a[2] = e /\ a[1] = s[1]
    <2>1. Len(a) = Len(s) + 1 /\ a[Len(s) + 1] = e /\ a \in Seq(S) /\ a # <<>>
      BY ZenonT(40), Appended
    <2>2. Len(s) + 1 = 2 /\ 1 \in 1 .. Len(s)
      OBVIOUS
    <2>3. a[1] = s[1]
      BY <2>2, Appended
    <2> QED
      BY <2>1, <2>3, <2>2
  <1> HIDE DEF a
  <1>2. Head(a) = a[1] /\ Tail(a) \in Seq(S) /\ Len(Tail(a)) = 1
    BY <1>1, HeadTailProperties
  <1>3. Tail(a)[1] = a[2]
    BY <1>1, <1>2, HeadTailProperties
  <1>4. Tail(a) # <<>>
    <2>1. Len(<<>>) = 0 /\ Len(Tail(a)) # 0
      BY <1>2
    <2> QED
      BY <2>1, Zenon
  <1>5. QED
    BY <1>1, <1>2, <1>3, <1>4 DEF a

USE DEF Opcodes, Statuses, Errors

Runs(op) == [module : Modules, answer : {a \in Answers : a.op = op}]

(* The record that Received builds, field by field.                       *)
Sent(r, how)   == IF how \in {"lost", "unanswered"}
                  THEN line ELSE Append(line, r.answer)
Silent(r, how) == Sent(r, how) = <<>> \/ how = "late"

(* The fields of what one exchange can leave behind.                      *)
LEMMA ReceivedFields ==
  ASSUME NEW op, NEW r, NEW how
  PROVE  /\ Received(op, r, how).module = IF how = "lost" THEN module ELSE r.module
         /\ Silent(r, how) => Received(op, r, how).line = Sent(r, how)
         /\ ~Silent(r, how) => Received(op, r, how).line = Tail(Sent(r, how))
         /\ Received(op, r, how).faults =
              IF how # "prompt" \/ r.answer.status = "FAULT" THEN faults + 1 ELSE faults
         /\ Received(op, r, how).answer =
              IF Silent(r, how) THEN r.answer ELSE Head(Sent(r, how))
         /\ Received(op, r, how).status =
              IF Silent(r, how) THEN "TIMEOUT"
              ELSE IF how = "corrupt" THEN "CRC_ERROR"
              ELSE IF Head(Sent(r, how)).op # op THEN "DEVICE_RESET"
              ELSE Head(Sent(r, how)).status
  BY DEF Received, Sent, Silent

(* A message that was heard is taken off the line.                         *)
LEMMA HeardLine ==
  ASSUME NEW op, NEW r, NEW how, ~Silent(r, how)
  PROVE  Received(op, r, how).line = Tail(Sent(r, how))
  BY DEF Received, Sent, Silent

(* A message that was heard is the first on the line, and it gives the     *)
(* answer and the status.                                                  *)
LEMMA Heard ==
  ASSUME NEW op, NEW r, NEW how, NEW s, NEW h,
         ~Silent(r, how), Sent(r, how) = s, Head(s) = h
  PROVE  /\ Received(op, r, how).line = Tail(s)
         /\ Received(op, r, how).answer = h
         /\ Received(op, r, how).status =
              IF how = "corrupt" THEN "CRC_ERROR"
              ELSE IF h.op # op THEN "DEVICE_RESET" ELSE h.status
  <1>1. Received(op, r, how).line = Tail(Sent(r, how))
    BY HeardLine
  <1>2. Received(op, r, how).answer = Head(Sent(r, how))
    BY ReceivedFields
  <1>3. Received(op, r, how).status =
              IF how = "corrupt" THEN "CRC_ERROR"
              ELSE IF Head(Sent(r, how)).op # op THEN "DEVICE_RESET"
              ELSE Head(Sent(r, how)).status
    BY ReceivedFields
  <1> QED
    BY <1>1, <1>2, <1>3

(* A refusal is a well-typed run of the command.                           *)
LEMMA RefusedRuns ==
  ASSUME NEW op \in Opcodes, module \in Modules
  PROVE  Refused(op) \subseteq Runs(op)
  BY DEF Refused, Runs, Run, Answer, Answers, TagReads

(* What an exchange leaves on the line and in the module.  Only an answer  *)
(* that comes alone is known to be the command's own.                      *)
LEMMA OutcomeFacts ==
  ASSUME NEW op \in Opcodes, NEW runs \in SUBSET Runs(op), NEW o \in Outcomes(op, runs),
         module \in Modules, line \in Seq(Answers), Len(line) <= 1,
         faults \in 0..MaxFaults
  PROVE  /\ o.module \in Modules /\ o.answer \in Answers
         /\ o.line \in Seq(Answers) /\ Len(o.line) <= 1
         /\ o.faults \in 0..MaxFaults
         /\ o.status \in Statuses \cup Errors
         /\ o.module = module \/ \E r \in runs : o.module = r.module
         /\ o.line # <<>> => \E r \in runs \cup Refused(op) :
                               o.module = r.module /\ o.line[1] = r.answer
         /\ o.status \notin Errors /\ line # <<>> =>
              line[1].op = op /\ line[1].status = o.status
         /\ o.status \notin Errors /\ line = <<>> =>
              /\ o.line = <<>>
              /\ \E r \in runs \cup Refused(op) :
                   /\ o.module = r.module /\ o.answer = r.answer
                   /\ o.status = r.answer.status
  <1>1. PICK r \in runs \cup Refused(op), how \in Ways : o = Received(op, r, how)
    BY DEF Outcomes
  <1>2. o.faults <= MaxFaults
    BY DEF Outcomes
  <1>3. r \in Runs(op)
    BY <1>1, RefusedRuns
  <1>4. r.module \in Modules /\ r.answer \in Answers /\ r.answer.op = op
    BY <1>3 DEF Runs
  <1>5. r.answer.status \in Statuses
    BY <1>4 DEF Answers
  <1>6. how \in {"prompt", "lost", "unanswered", "late", "corrupt"}
    BY <1>1, TroublesAssumption DEF Ways
  <1>7. how = "late" => line = <<>>
    BY <1>1 DEF Ways
  <1>8. Refused(op) = {[module |-> module, answer |-> Answer(op, "FAULT", <<>>, 0)]}
    BY DEF Refused, Run
  <1>9. r \in runs \/ r.module = module
    BY <1>1, <1>8
  <1>10. o.faults \in 0..MaxFaults
    <2>1. o.faults \in {faults, faults + 1}
      BY <1>1, ReceivedFields
    <2> QED
      BY <1>2, <2>1, BoundsAssumption
  <1>11. o.module = IF how = "lost" THEN module ELSE r.module
    BY <1>1, ReceivedFields
  <1>12. /\ o.module \in Modules
         /\ o.module = module \/ \E q \in runs : o.module = q.module
    BY <1>4, <1>9, <1>11
  <1>13. CASE line = <<>>
    <2>1. CASE how \in {"lost", "unanswered"}
      <3>1. Sent(r, how) = <<>> /\ Silent(r, how)
        BY <1>13, <2>1 DEF Sent, Silent
      <3>2. o.line = <<>> /\ o.answer = r.answer /\ o.status = "TIMEOUT"
        BY <1>1, <3>1, ReceivedFields
      <3>3. Len(o.line) <= 1
        BY <3>2
      <3> QED
        BY <1>4, <1>10, <1>12, <1>13, <3>2, <3>3
    <2>2. CASE how = "late"
      <3>1. Sent(r, how) = Append(<<>>, r.answer) /\ Silent(r, how)
        BY <1>13, <2>2 DEF Sent, Silent
      <3>2. /\ o.line = Append(<<>>, r.answer)
            /\ o.answer = r.answer /\ o.status = "TIMEOUT" /\ o.module = r.module
        BY <1>1, <1>11, <2>2, <3>1, ReceivedFields
      <3>3. o.line \in Seq(Answers) /\ Len(o.line) = 1 /\ o.line[1] = r.answer
        BY <1>4, <3>2, AppendEmpty
      <3> QED
        BY <1>1, <1>4, <1>10, <1>12, <1>13, <3>2, <3>3
    <2>3. CASE how \in {"prompt", "corrupt"}
      <3>1. Sent(r, how) = Append(<<>>, r.answer) /\ Append(<<>>, r.answer) # <<>>
        BY <1>4, <1>13, <2>3, AppendEmpty DEF Sent
      <3>2. ~Silent(r, how)
        BY <2>3, <3>1, Zenon DEF Silent
      <3>3. Tail(Append(<<>>, r.answer)) = <<>> /\ Head(Append(<<>>, r.answer)) = r.answer
        BY <1>4, AppendEmpty
      <3>4. o.line = <<>> /\ o.answer = r.answer
        <4>1. o.line = Tail(Append(<<>>, r.answer))
          BY <1>1, <3>1, <3>2, HeardLine
        <4>2. o.answer = r.answer
          BY <1>1, <3>1, <3>2, <3>3, Heard
        <4> QED
          BY <3>3, <4>1, <4>2, Zenon
      <3>5. o.status = IF how = "corrupt" THEN "CRC_ERROR" ELSE r.answer.status
        BY <1>1, <1>4, <3>1, <3>2, <3>3, Heard
      <3>6. Len(o.line) <= 1
        BY <3>4
      <3>7. o.module = r.module
        BY <1>11, <2>3
      <3> QED
        BY <1>1, <1>4, <1>5, <1>10, <1>12, <1>13, <3>4, <3>5, <3>6, <3>7
    <2> QED
      BY <1>6, <2>1, <2>2, <2>3
  <1>14. CASE line # <<>>
    <2>1. Len(line) = 1 /\ line[1] \in Answers /\ Head(line) = line[1] /\ Tail(line) = <<>>
      BY <1>14, NonEmpty, OneLong
    <2>2. line[1].status \in Statuses
      BY <2>1 DEF Answers
    <2>3. CASE how \in {"lost", "unanswered"}
      <3>1. Sent(r, how) = line /\ ~Silent(r, how)
        BY <1>14, <2>3 DEF Sent, Silent
      <3>2. o.line = <<>> /\ o.answer = line[1]
        BY <1>1, <2>1, <3>1, Heard
      <3>3. o.status = IF line[1].op # op THEN "DEVICE_RESET" ELSE line[1].status
        BY <1>1, <2>1, <2>3, <3>1, Heard
      <3>4. Len(o.line) <= 1
        BY <3>2
      <3> QED
        BY <1>10, <1>12, <1>14, <2>1, <2>2, <3>2, <3>3, <3>4
    <2>4. CASE how \in {"prompt", "corrupt"}
      <3>1. /\ Append(line, r.answer) # <<>>
            /\ Head(Append(line, r.answer)) = line[1]
            /\ Tail(Append(line, r.answer)) \in Seq(Answers)
            /\ Len(Tail(Append(line, r.answer))) = 1
            /\ Tail(Append(line, r.answer))[1] = r.answer
        BY <1>4, <2>1, AppendOne
      <3>2. Sent(r, how) = Append(line, r.answer)
        BY <2>4 DEF Sent
      <3>3. ~Silent(r, how)
        BY <2>4, <3>1, <3>2, Zenon DEF Silent
      <3>4. o.line = Tail(Append(line, r.answer)) /\ o.answer = line[1]
        BY <1>1, <3>1, <3>2, <3>3, Heard
      <3>5. o.status = IF how = "corrupt" THEN "CRC_ERROR"
                       ELSE IF line[1].op # op THEN "DEVICE_RESET"
                       ELSE line[1].status
        BY <1>1, <3>1, <3>2, <3>3, Heard
      <3>6. o.module = r.module
        BY <1>11, <2>4
      <3>7. o.line \in Seq(Answers) /\ Len(o.line) <= 1 /\ o.line[1] = r.answer
        BY <3>1, <3>4
      <3> QED
        BY <1>1, <1>10, <1>12, <1>14, <2>1, <2>2, <3>4, <3>5, <3>6, <3>7
    <2> QED
      BY <1>6, <1>7, <1>14, <2>3, <2>4
  <1> QED
    BY <1>13, <1>14

--------------------------------------------------------------------------------
(* The inductive strengthening of the properties of a read.  While a read  *)
(* looks for tags nothing is late on the line, nothing of an earlier read  *)
(* is in the tag buffer or parsed, and what was parsed, what waits to be    *)
(* parsed and what the module holds are, in this order, what was found.     *)
Preparing == {"stats", "clear", "detect", "antennas"}
Setting   == {"protocol", "extended", "filter", "timeout"}

Fresh(s) == \A i \in DOMAIN s : s[i].read = read

Quiet(ops) == line # <<>> => line[1].op \in ops

CallInv ==
  /\ pc \in Preparing \cup {"search", "count", "fetch"} => call.kind = "read"
  /\ pc \notin {"idle", "count"} => status = "none"
  /\ pc = "count" => status # "SUCCESS"
  /\ pc = "tagop" => call.kind # "read"

EmptyModule == module.buffer = <<>> /\ module.seen = <<>>

ClearedInv ==
  /\ line # <<>> /\ line[1].op = "CLEAR_TAG_ID_BUFFER" /\ line[1].status = "SUCCESS" =>
       EmptyModule
  /\ pc \in {"detect", "antennas"} =>
       Quiet({"CLEAR_TAG_ID_BUFFER"}) /\ EmptyModule /\ tagsRemaining = 0
  /\ pc \in Setting /\ call.kind = "read" =>
       line = <<>> /\ EmptyModule /\ tagsRemaining = 0

SearchInv ==
  pc = "search" =>
    /\ line = <<>> /\ module.buffer = module.seen /\ Fresh(module.seen)
    /\ tagsRemaining = Len(module.buffer)

FetchInv ==
  /\ pc = "fetch" => line = <<>>
  /\ pc = "fetch" /\ ~stranded =>
       /\ results \o (bufResponse \o module.buffer) = module.seen
       /\ Fresh(module.seen)
       /\ tagsRemaining = Len(bufResponse) + Len(module.buffer)

PacketInv ==
  /\ tagsRemainingInBuffer = Len(bufResponse)
  /\ pc # "fetch" /\ ~stranded => bufResponse = <<>>
  /\ pc \notin {"idle", "fetch"} /\ call.kind = "read" => results = <<>>

ReadInv == CallInv /\ ClearedInv /\ SearchInv /\ FetchInv /\ PacketInv
           /\ FreshTags /\ ReadComplete

(* The same for the settings: without an accident no answer to a command   *)
(* that changes one is late, and they differ only inside setProtocol.      *)
Changes == {"SET_PROTOCOL", "SET_CONFIGURATION"}

InStep == module.protocol = currentProtocol /\ module.filter = enableReadFiltering

SettingsInv ==
  ~unsettled =>
    /\ line # <<>> => line[1].op \notin Changes
    /\ pc = "extended" => module.protocol = call.protocol
    /\ pc = "filter" => module.protocol = call.protocol /\ currentProtocol = call.protocol
    /\ pc \notin {"extended", "filter"} => InStep

--------------------------------------------------------------------------------
(* Every call has a protocol of the module.                               *)
LEMMA CallTypes ==
  \A c \in Calls : c.protocol \in Protocols
  BY ProtocolsAssumption DEF Calls, Plans, TagOp, Configuration

(* What each command makes of the module is well typed.                   *)
LEMMA ModuleTypes ==
  ASSUME TypeOK
  PROVE  Cleared \in Modules /\ Switched \in Modules
         /\ \A value \in BOOLEAN : Filtering(value) \in Modules
  <1>1. module \in Modules /\ call.protocol \in Protocols
    BY CallTypes DEF TypeOK
  <1>2. <<>> \in Seq(TagReads)
    OBVIOUS
  <1> QED
    BY <1>1, <1>2 DEF Modules, Cleared, Switched, Filtering

(* So is a success that carries nothing.                                   *)
LEMMA DoneRuns ==
  ASSUME NEW op \in Opcodes, NEW m \in Modules
  PROVE  Done(op, m) \in SUBSET Runs(op)
  <1>1. Answer(op, "SUCCESS", <<>>, 0) \in Answers
    BY DEF Answer, Answers, TagReads
  <1> QED
    BY <1>1 DEF Done, Runs, Run, Answer

(* The number of tags left is well typed.                                  *)
LEMMA CountedRuns ==
  ASSUME TypeOK
  PROVE  Counted \in SUBSET Runs("GET_TAG_ID_BUFFER")
  <1>1. module \in Modules /\ Len(module.buffer) \in Nat
    BY DEF TypeOK, Modules
  <1>2. \A n \in Nat : Answer("GET_TAG_ID_BUFFER", "SUCCESS", <<>>, n) \in Answers
    BY DEF Answer, Answers, TagReads
  <1> QED
    BY <1>1, <1>2 DEF Counted, Runs, Run, Answer

(* A packet and the rest of the buffer are the buffer.                    *)
LEMMA Split ==
  ASSUME NEW S, NEW b \in Seq(S), NEW n \in Nat, n <= Len(b)
  PROVE  /\ SubSeq(b, 1, n) \in Seq(S) /\ Len(SubSeq(b, 1, n)) = n
         /\ SubSeq(b, n + 1, Len(b)) \in Seq(S)
         /\ SubSeq(b, 1, n) \o SubSeq(b, n + 1, Len(b)) = b
  <1> DEFINE front == SubSeq(b, 1, n)
             back  == SubSeq(b, n + 1, Len(b))
  <1>1. Len(b) \in Nat /\ \A i \in 1..Len(b) : b[i] \in S
    BY LenProperties, ElementOfSeq
  <1>2. front \in Seq(S) /\ Len(front) = n /\ \A i \in 1..n : front[i] = b[i]
    BY <1>1, SubSeqProperties
  <1>3. back \in Seq(S) /\ Len(back) = Len(b) - n
        /\ \A i \in 1..Len(b) - n : back[i] = b[n + i]
    BY <1>1, SubSeqProperties
  <1> HIDE DEF front, back
  <1>4. front \o back \in Seq(S) /\ Len(front \o back) = Len(b)
    BY <1>1, <1>2, <1>3, ConcatProperties
  <1>5. ASSUME NEW i \in 1..Len(b) PROVE (front \o back)[i] = b[i]
    <2>1. (front \o back)[i] = IF i <= n THEN front[i] ELSE back[i - n]
      BY <1>1, <1>2, <1>3, ConcatProperties
    <2> QED
      BY <1>1, <1>2, <1>3, <2>1
  <1>6. front \o back = b
    BY <1>4, <1>5, SeqEqual
  <1> QED
    BY <1>2, <1>3, <1>6 DEF front, back

(* One tag goes from the front of the packet to the end of the results.    *)
LEMMA TakeOne ==
  ASSUME NEW S, NEW a \in Seq(S), NEW b \in Seq(S), NEW c \in Seq(S), b # <<>>
  PROVE  Append(a, Head(b)) \o (Tail(b) \o c) = a \o (b \o c)
  <1>1. Head(b) \in S /\ Tail(b) \in Seq(S)
    BY HeadTailProperties
  <1> DEFINE h == <<Head(b)>>
             t == Tail(b)
  <1>2. h \in Seq(S) /\ Append(a, Head(b)) = a \o h
    BY <1>1, AppendIsConcat
  <1>3. h \o t = b
    <2>1. Len(h) = 1 /\ h[1] = Head(b)
      BY <1>1
    <2>2. Len(b) \in Nat /\ Len(b) # 0 /\ Head(b) = b[1] /\ Len(t) = Len(b) - 1
      BY NonEmpty
    <2>3. \A i \in 1..Len(t) : t[i] = b[i + 1]
      BY HeadTailProperties
    <2> HIDE DEF h, t
    <2>4. h \o t \in Seq(S) /\ Len(h \o t) = Len(b)
      BY <1>1, <1>2, <2>1, <2>2, ConcatProperties DEF t
    <2>5. ASSUME NEW i \in 1..Len(b) PROVE (h \o t)[i] = b[i]
      <3>1. (h \o t)[i] = IF i <= 1 THEN h[i] ELSE t[i - 1]
        BY <1>1, <1>2, <2>1, <2>2, ConcatProperties DEF t
      <3> QED
        BY <2>1, <2>2, <2>3, <3>1
    <2> QED
      BY <2>4, <2>5, SeqEqual
  <1> HIDE DEF h, t
  <1>4. t \in Seq(S)
    BY <1>1 DEF t
  <1>5. h \in Seq(S)
    BY <1>2
  <1>6. t \o c \in Seq(S)
    BY <1>4, ConcatProperties
  <1>7. ASSUME NEW x \in Seq(S), NEW y \in Seq(S), NEW z \in Seq(S)
        PROVE  (x \o y) \o z = x \o (y \o z)
    BY ConcatAssociative, SMTT(60)
  <1>8. (a \o h) \o (t \o c) = a \o (h \o (t \o c))
    BY SMTT(30), <1>5, <1>6, <1>7, Zenon
  <1>9. (h \o t) \o c = h \o (t \o c)
    BY <1>4, <1>5, <1>7, Zenon
  <1> QED
    BY <1>2, <1>3, <1>8, <1>9, Zenon DEF t

(* A packet takes the first tags of the buffer and leaves the rest.        *)
LEMMA FetchedRuns ==
  ASSUME TypeOK
  PROVE  /\ Fetched \in SUBSET Runs("GET_TAG_ID_BUFFER")
         /\ \A r \in Fetched :
              /\ r.module.protocol = module.protocol /\ r.module.filter = module.filter
              /\ r.module.seen = module.seen
              /\ r.answer.status = "SUCCESS" =>
                   /\ Len(r.answer.tags) \in 1..255
                   /\ r.answer.tags \o r.module.buffer = module.buffer
  <1> DEFINE b == module.buffer
             n == Min2(PacketTags, Len(b))
             front == SubSeq(b, 1, n)
             back  == SubSeq(b, n + 1, Len(b))
             empty == Answer("GET_TAG_ID_BUFFER", "NO_TAGS_FOUND", <<>>, 0)
             full  == Answer("GET_TAG_ID_BUFFER", "SUCCESS", front, 0)
             rest  == [module EXCEPT !.buffer = back]
  <1>1. module \in Modules /\ b \in Seq(TagReads) /\ Len(b) \in Nat
    BY DEF TypeOK, Modules
  <1>2. n \in Nat /\ n <= Len(b) /\ n <= 255
    BY <1>1, PacketAssumption DEF Min2
  <1>3. front \in Seq(TagReads) /\ Len(front) = n /\ back \in Seq(TagReads)
        /\ front \o back = b
    BY <1>1, <1>2, Split
  <1>4. Fetched = {IF n = 0 THEN Run(module, empty) ELSE Run(rest, full)}
    BY DEF Fetched
  <1> HIDE DEF n, front, back
  <1>5. rest \in Modules /\ rest.protocol = module.protocol /\ rest.filter = module.filter
        /\ rest.seen = module.seen /\ rest.buffer = back
    BY <1>1, <1>3 DEF Modules
  <1>6. empty \in Answers /\ empty.op = "GET_TAG_ID_BUFFER" /\ empty.status = "NO_TAGS_FOUND"
    BY DEF Answer, Answers, TagReads
  <1>7. full \in Answers /\ full.op = "GET_TAG_ID_BUFFER" /\ full.tags = front
    BY <1>3 DEF Answer, Answers
  <1> HIDE DEF b, rest, empty, full
  <1>8. CASE n = 0
    <2>1. Fetched = {[module |-> module, answer |-> empty]}
      BY <1>4, <1>8 DEF Run
    <2>2. [module |-> module, answer |-> empty] \in Runs("GET_TAG_ID_BUFFER")
      BY <1>1, <1>6 DEF Runs
    <2>3. \A r \in Fetched : r.module = module /\ r.answer = empty
      BY <2>1
    <2> QED
      BY <1>6, <2>1, <2>2, <2>3
  <1>9. CASE n # 0
    <2>1. Fetched = {[module |-> rest, answer |-> full]}
      BY <1>4, <1>9 DEF Run
    <2>2. Len(front) \in 1..255
      BY <1>2, <1>3, <1>9
    <2>3. full.tags \o rest.buffer = module.buffer
      BY <1>3, <1>5, <1>7 DEF b
    <2>4. [module |-> rest, answer |-> full] \in Runs("GET_TAG_ID_BUFFER")
      BY <1>5, <1>7 DEF Runs
    <2>5. \A r \in Fetched : r.module = rest /\ r.answer = full
      BY <2>1
    <2>6. Fetched \in SUBSET Runs("GET_TAG_ID_BUFFER")
      BY <2>1, <2>4
    <2>7. \A r \in Fetched :
              /\ r.module.protocol = module.protocol /\ r.module.filter = module.filter
              /\ r.module.seen = module.seen
      BY <1>5, <2>5
    <2>8. \A r \in Fetched : Len(r.answer.tags) \in 1..255
      BY <1>7, <2>2, <2>5
    <2>9. \A r \in Fetched : r.answer.tags \o r.module.buffer = module.buffer
      BY <2>3, <2>5
    <2> QED
      BY <2>6, <2>7, <2>8, <2>9
  <1> QED
    BY <1>8, <1>9

(* A search adds its sightings to the buffer and counts them, and they are *)
(* of this read.                                                           *)
LEMMA SearchRuns ==
  ASSUME TypeOK
  PROVE  /\ Search \in SUBSET Runs("READ_TAG_ID_MULTIPLE")
         /\ \A r \in Search :
              /\ r.module.protocol = module.protocol /\ r.module.filter = module.filter
              /\ r.answer.status \in {"SUCCESS", "NO_TAGS_FOUND"} =>
                   \E f \in Seq(TagReads) :
                     /\ r.module.buffer = module.buffer \o f
                     /\ r.module.seen = module.seen \o f
                     /\ r.answer.count = Len(f) /\ Fresh(f)
  <1>1. module \in Modules /\ module.buffer \in Seq(TagReads)
        /\ module.seen \in Seq(TagReads) /\ read \in Nat
    BY BoundsAssumption DEF TypeOK, Modules
  <1>2. ASSUME NEW s \in Sightings
        PROVE  /\ Found(s) \in Seq(TagReads) /\ Len(Found(s)) = Len(s)
               /\ Len(s) \in Nat /\ Fresh(Found(s))
    <2>1. PICK n \in 0..MaxFound : s \in [1..n -> TagsOf[module.protocol]]
      BY <1>2 DEF Sightings
    <2>2. TagsOf[module.protocol] \subseteq Tags
      BY <1>1, ProtocolsAssumption DEF Modules
    <2>3. n \in Nat /\ DOMAIN s = 1..n
      BY <2>1, BoundsAssumption
    <2>4. \A i \in 1..n : [tag |-> s[i], read |-> read] \in TagReads
      BY <1>1, <2>1, <2>2 DEF TagReads
    <2>5. Found(s) = [i \in 1..n |-> [tag |-> s[i], read |-> read]]
      BY <2>3 DEF Found
    <2>6. Found(s) \in [1..n -> TagReads]
      BY <2>4, <2>5
    <2>7. Found(s) \in Seq(TagReads) /\ Len(Found(s)) = n
      BY <2>3, <2>6
    <2>8. Len(s) = n
      BY <2>1, <2>3
    <2>9. Fresh(Found(s))
      BY <2>5 DEF Fresh
    <2> QED
      BY <2>3, <2>7, <2>8, <2>9
  <1>3. ASSUME NEW s \in Sightings
        PROVE  /\ Kept(s) \in Modules
               /\ Kept(s).protocol = module.protocol /\ Kept(s).filter = module.filter
               /\ Kept(s).buffer = module.buffer \o Found(s)
               /\ Kept(s).seen = module.seen \o Found(s)
    <2>1. /\ module.buffer \o Found(s) \in Seq(TagReads)
          /\ module.seen \o Found(s) \in Seq(TagReads)
      BY <1>1, <1>2, ConcatProperties
    <2> QED
      BY <1>1, <2>1 DEF Kept, Modules
  <1>4. ASSUME NEW n \in Nat, NEW st \in Statuses
        PROVE  /\ Answer("READ_TAG_ID_MULTIPLE", st, <<>>, n) \in Answers
               /\ Answer("READ_TAG_ID_MULTIPLE", st, <<>>, n).op = "READ_TAG_ID_MULTIPLE"
               /\ Answer("READ_TAG_ID_MULTIPLE", st, <<>>, n).status = st
               /\ Answer("READ_TAG_ID_MULTIPLE", st, <<>>, n).count = n
    BY <1>4 DEF Answer, Answers, TagReads
  <1>5. ASSUME NEW r \in Search
        PROVE  \E s \in Sightings, st \in {"SUCCESS", "NO_TAGS_FOUND", "FAULT"}, n \in Nat :
                 /\ r = [module |-> Kept(s),
                         answer |-> Answer("READ_TAG_ID_MULTIPLE", st, <<>>, n)]
                 /\ st # "FAULT" => n = Len(s)
    <2>1. \A s \in Sightings : Len(s) \in Nat
      BY <1>2
    <2> QED
      BY <1>5, <2>1 DEF Search, Run
  <1>6. ASSUME NEW r \in Search
        PROVE  /\ r \in Runs("READ_TAG_ID_MULTIPLE")
               /\ r.module.protocol = module.protocol /\ r.module.filter = module.filter
               /\ r.answer.status \in {"SUCCESS", "NO_TAGS_FOUND"} =>
                    \E f \in Seq(TagReads) :
                      /\ r.module.buffer = module.buffer \o f
                      /\ r.module.seen = module.seen \o f
                      /\ r.answer.count = Len(f) /\ Fresh(f)
    <2>1. PICK s \in Sightings, st \in {"SUCCESS", "NO_TAGS_FOUND", "FAULT"}, n \in Nat :
            /\ r = [module |-> Kept(s),
                    answer |-> Answer("READ_TAG_ID_MULTIPLE", st, <<>>, n)]
            /\ st # "FAULT" => n = Len(s)
      BY <1>5
    <2>2. r.module = Kept(s) /\ r.answer = Answer("READ_TAG_ID_MULTIPLE", st, <<>>, n)
      BY <2>1
    <2>3. r \in Runs("READ_TAG_ID_MULTIPLE")
      BY <1>3, <1>4, <2>1 DEF Runs
    <2>4. r.answer.status = st /\ r.answer.count = n
      BY <1>4, <2>2
    <2> QED
      BY <1>2, <1>3, <2>1, <2>2, <2>3, <2>4
  <1> QED
    BY <1>6

(* A command whose answer carries nothing changes the module as it should  *)
(* or not at all, and a success that is its own means that it did.         *)
LEMMA DoneFacts ==
  ASSUME TypeOK, NEW op \in Opcodes, NEW m \in Modules,
         NEW o \in Outcomes(op, Done(op, m))
  PROVE  /\ o.module \in Modules /\ o.line \in Seq(Answers) /\ Len(o.line) <= 1
         /\ o.faults \in 0..MaxFaults /\ o.status \in Statuses \cup Errors
         /\ o.module \in {module, m}
         /\ o.line # <<>> =>
              o.line[1].op = op /\ (o.line[1].status = "SUCCESS" => o.module = m)
         /\ o.status \notin Errors /\ line # <<>> =>
              line[1].op = op /\ line[1].status = o.status
         /\ o.status \notin Errors /\ line = <<>> =>
              /\ o.line = <<>>
              /\ o.status = "SUCCESS" => o.module = m
              /\ o.status # "SUCCESS" => o.module = module
  <1>1. module \in Modules /\ line \in Seq(Answers) /\ Len(line) <= 1
        /\ faults \in 0..MaxFaults
    BY DEF TypeOK
  <1>2. Done(op, m) \in SUBSET Runs(op)
    BY DoneRuns
  <1> DEFINE facts(oo) ==
         /\ oo.module \in Modules /\ oo.answer \in Answers
         /\ oo.line \in Seq(Answers) /\ Len(oo.line) <= 1
         /\ oo.faults \in 0..MaxFaults
         /\ oo.status \in Statuses \cup Errors
         /\ oo.module = module \/ \E r \in Done(op, m) : oo.module = r.module
         /\ oo.line # <<>> => \E r \in Done(op, m) \cup Refused(op) :
                               oo.module = r.module /\ oo.line[1] = r.answer
         /\ oo.status \notin Errors /\ line # <<>> =>
              line[1].op = op /\ line[1].status = oo.status
         /\ oo.status \notin Errors /\ line = <<>> =>
              /\ oo.line = <<>>
              /\ \E r \in Done(op, m) \cup Refused(op) :
                   /\ oo.module = r.module /\ oo.answer = r.answer
                   /\ oo.status = r.answer.status
  <1>3. facts(o)
    BY <1>1, <1>2, OutcomeFacts
  <1>4. \A r \in Done(op, m) :
          r.module = m /\ r.answer.op = op /\ r.answer.status = "SUCCESS"
    BY DEF Done, Run, Answer
  <1>5. \A r \in Refused(op) :
          r.module = module /\ r.answer.op = op /\ r.answer.status = "FAULT"
    BY DEF Refused, Run, Answer
  <1>6. o.module \in {module, m}
    BY <1>3, <1>4
  <1>7. o.line # <<>> =>
          o.line[1].op = op /\ (o.line[1].status = "SUCCESS" => o.module = m)
    BY <1>3, <1>4, <1>5
  <1>8. o.status \notin Errors /\ line = <<>> =>
              /\ o.line = <<>>
              /\ o.status = "SUCCESS" => o.module = m
              /\ o.status # "SUCCESS" => o.module = module
    BY <1>3, <1>4, <1>5
  <1> QED
    BY <1>3, <1>6, <1>7, <1>8

(* A search whose answer is its own adds what it counts; one that is taken *)
(* for failed may have added too.                                          *)
LEMMA SearchFacts ==
  ASSUME TypeOK, NEW o \in Outcomes("READ_TAG_ID_MULTIPLE", Search)
  PROVE  /\ o.module \in Modules /\ o.line \in Seq(Answers) /\ Len(o.line) <= 1
         /\ o.faults \in 0..MaxFaults /\ o.status \in Statuses \cup Errors
         /\ o.answer.count \in Nat
         /\ o.module.protocol = module.protocol /\ o.module.filter = module.filter
         /\ o.line # <<>> => o.line[1].op = "READ_TAG_ID_MULTIPLE"
         /\ o.status \in {"SUCCESS", "NO_TAGS_FOUND"} /\ line = <<>> =>
              /\ o.line = <<>>
              /\ \E f \in Seq(TagReads) :
                   /\ o.module.buffer = module.buffer \o f
                   /\ o.module.seen = module.seen \o f
                   /\ o.answer.count = Len(f) /\ Fresh(f)
  <1> DEFINE op == "READ_TAG_ID_MULTIPLE"
  <1>1. module \in Modules /\ line \in Seq(Answers) /\ Len(line) <= 1
        /\ faults \in 0..MaxFaults
    BY DEF TypeOK
  <1>2. Search \in SUBSET Runs(op)
    BY SearchRuns
  <1>3. /\ o.module \in Modules /\ o.answer \in Answers
        /\ o.line \in Seq(Answers) /\ Len(o.line) <= 1
        /\ o.faults \in 0..MaxFaults /\ o.status \in Statuses \cup Errors
        /\ o.module = module \/ \E r \in Search : o.module = r.module
        /\ o.line # <<>> => \E r \in Search \cup Refused(op) : o.line[1] = r.answer
        /\ o.status \notin Errors /\ line = <<>> =>
              /\ o.line = <<>>
              /\ \E r \in Search \cup Refused(op) :
                   /\ o.module = r.module /\ o.answer = r.answer
                   /\ o.status = r.answer.status
    BY <1>1, <1>2, OutcomeFacts
  <1>4. \A r \in Refused(op) :
          r.module = module /\ r.answer.op = op /\ r.answer.status = "FAULT"
    BY DEF Refused, Run, Answer
  <1>5. \A r \in Search : r.answer.op = op
    BY <1>2 DEF Runs
  <1>6. \A r \in Search :
              /\ r.module.protocol = module.protocol /\ r.module.filter = module.filter
              /\ r.answer.status \in {"SUCCESS", "NO_TAGS_FOUND"} =>
                   \E f \in Seq(TagReads) :
                     /\ r.module.buffer = module.buffer \o f
                     /\ r.module.seen = module.seen \o f
                     /\ r.answer.count = Len(f) /\ Fresh(f)
    BY SearchRuns
  <1>7. o.answer.count \in Nat
    BY <1>3 DEF Answers
  <1>8. o.module.protocol = module.protocol /\ o.module.filter = module.filter
    BY <1>3, <1>6
  <1>9. o.line # <<>> => o.line[1].op = op
    BY <1>3, <1>4, <1>5
  <1>10. ASSUME o.status \in {"SUCCESS", "NO_TAGS_FOUND"}, line = <<>>
         PROVE  /\ o.line = <<>>
                /\ \E f \in Seq(TagReads) :
                   /\ o.module.buffer = module.buffer \o f
                   /\ o.module.seen = module.seen \o f
                   /\ o.answer.count = Len(f) /\ Fresh(f)
    <2>1. o.line = <<>>
      BY <1>3, <1>10
    <2>2. PICK r \in Search \cup Refused(op) :
                   /\ o.module = r.module /\ o.answer = r.answer
                   /\ o.status = r.answer.status
      BY <1>3, <1>10
    <2>3. r \in Search /\ r.answer.status \in {"SUCCESS", "NO_TAGS_FOUND"}
      BY <1>4, <1>10, <2>2
    <2>4. PICK f \in Seq(TagReads) :
                     /\ r.module.buffer = module.buffer \o f
                     /\ r.module.seen = module.seen \o f
                     /\ r.answer.count = Len(f) /\ Fresh(f)
      BY <1>6, <2>3
    <2> QED
      BY <2>1, <2>2, <2>4
  <1> QED
    BY <1>3, <1>7, <1>8, <1>9, <1>10

(* A packet whose answer is its own is the front of the buffer.            *)
LEMMA FetchFacts ==
  ASSUME TypeOK, NEW runs \in {Fetched, Counted},
         NEW o \in Outcomes("GET_TAG_ID_BUFFER", runs)
  PROVE  /\ o.module \in Modules /\ o.line \in Seq(Answers) /\ Len(o.line) <= 1
         /\ o.faults \in 0..MaxFaults /\ o.status \in Statuses \cup Errors
         /\ o.answer.count \in Nat /\ o.answer.tags \in Seq(TagReads)
         /\ o.module.protocol = module.protocol /\ o.module.filter = module.filter
         /\ o.line # <<>> => o.line[1].op = "GET_TAG_ID_BUFFER"
         /\ o.status = "SUCCESS" /\ line = <<>> =>
              /\ o.line = <<>>
              /\ runs = Fetched =>
                   /\ Len(o.answer.tags) \in 1..255 /\ o.module.seen = module.seen
                   /\ o.answer.tags \o o.module.buffer = module.buffer
  <1> DEFINE op == "GET_TAG_ID_BUFFER"
  <1>1. module \in Modules /\ line \in Seq(Answers) /\ Len(line) <= 1
        /\ faults \in 0..MaxFaults
    BY DEF TypeOK
  <1>2. runs \in SUBSET Runs(op)
    BY FetchedRuns, CountedRuns
  <1>3. /\ o.module \in Modules /\ o.answer \in Answers
        /\ o.line \in Seq(Answers) /\ Len(o.line) <= 1
        /\ o.faults \in 0..MaxFaults /\ o.status \in Statuses \cup Errors
        /\ o.module = module \/ \E r \in runs : o.module = r.module
        /\ o.line # <<>> => \E r \in runs \cup Refused(op) : o.line[1] = r.answer
        /\ o.status \notin Errors /\ line = <<>> =>
              /\ o.line = <<>>
              /\ \E r \in runs \cup Refused(op) :
                   /\ o.module = r.module /\ o.answer = r.answer
                   /\ o.status = r.answer.status
    BY <1>1, <1>2, OutcomeFacts
  <1>4. \A r \in Refused(op) :
          r.module = module /\ r.answer.op = op /\ r.answer.status = "FAULT"
    BY DEF Refused, Run, Answer
  <1>5. \A r \in runs : r.answer.op = op
    BY <1>2 DEF Runs
  <1>6. \A r \in Fetched :
              /\ r.module.protocol = module.protocol /\ r.module.filter = module.filter
              /\ r.module.seen = module.seen
              /\ r.answer.status = "SUCCESS" =>
                   /\ Len(r.answer.tags) \in 1..255
                   /\ r.answer.tags \o r.module.buffer = module.buffer
    BY FetchedRuns
  <1>7. \A r \in Counted : r.module = module
    BY DEF Counted, Run
  <1>8. o.answer.count \in Nat /\ o.answer.tags \in Seq(TagReads)
    BY <1>3 DEF Answers
  <1>9. o.module.protocol = module.protocol /\ o.module.filter = module.filter
    BY <1>3, <1>6, <1>7
  <1>10. o.line # <<>> => o.line[1].op = op
    BY <1>3, <1>4, <1>5
  <1>11. ASSUME o.status = "SUCCESS", line = <<>>
         PROVE  /\ o.line = <<>>
                /\ runs = Fetched =>
                   /\ Len(o.answer.tags) \in 1..255 /\ o.module.seen = module.seen
                   /\ o.answer.tags \o o.module.buffer = module.buffer
    <2>1. o.line = <<>>
      BY <1>3, <1>11
    <2>2. PICK r \in runs \cup Refused(op) :
                   /\ o.module = r.module /\ o.answer = r.answer
                   /\ o.status = r.answer.status
      BY <1>3, <1>11
    <2>3. r \in runs /\ r.answer.status = "SUCCESS"
      BY <1>4, <1>11, <2>2
    <2>4. runs = Fetched =>
                   /\ Len(r.answer.tags) \in 1..255 /\ r.module.seen = module.seen
                   /\ r.answer.tags \o r.module.buffer = module.buffer
      BY <1>6, <2>3
    <2> QED
      BY <2>1, <2>2, <2>4
  <1> QED
    BY <1>3, <1>8, <1>9, <1>10, <1>11

--------------------------------------------------------------------------------
(* What a step that exchanges a command and its answer does.              *)
LEMMA AcknowledgedFacts ==
  ASSUME TypeOK, NEW op \in Opcodes, NEW m \in Modules, NEW next,
         Acknowledged(op, m, next)
  PROVE  /\ module' \in Modules /\ line' \in Seq(Answers) /\ Len(line') <= 1
         /\ faults' \in 0..MaxFaults /\ module' \in {module, m}
         /\ line' # <<>> =>
              line'[1].op = op /\ (line'[1].status = "SUCCESS" => module' = m)
         /\ \/ /\ pc' = next /\ status' = status
               /\ line # <<>> => line[1].op = op /\ line[1].status = "SUCCESS"
               /\ line = <<>> => line' = <<>> /\ module' = m
            \/ /\ pc' = "idle" /\ status' \in (Statuses \cup Errors) \ {"SUCCESS"}
               /\ status' \notin Errors =>
                    /\ line # <<>> => line[1].op = op
                    /\ line = <<>> => line' = <<>> /\ module' = module
  <1>1. PICK o \in Outcomes(op, Done(op, m)) :
          /\ Exchanged(o)
          /\ IF o.status = "SUCCESS" THEN Proceed(next) ELSE Return(o.status)
    BY DEF Acknowledged
  <1>2. module' = o.module /\ line' = o.line /\ faults' = o.faults
    BY <1>1 DEF Exchanged
  <1>3. /\ o.module \in Modules /\ o.line \in Seq(Answers) /\ Len(o.line) <= 1
        /\ o.faults \in 0..MaxFaults /\ o.status \in Statuses \cup Errors
        /\ o.module \in {module, m}
        /\ o.line # <<>> =>
              o.line[1].op = op /\ (o.line[1].status = "SUCCESS" => o.module = m)
        /\ o.status \notin Errors /\ line # <<>> =>
              line[1].op = op /\ line[1].status = o.status
        /\ o.status \notin Errors /\ line = <<>> =>
              /\ o.line = <<>>
              /\ o.status = "SUCCESS" => o.module = m
              /\ o.status # "SUCCESS" => o.module = module
    BY DoneFacts
  <1>4. CASE o.status = "SUCCESS"
    <2>1. pc' = next /\ status' = status
      BY <1>1, <1>4 DEF Proceed
    <2> QED
      BY <1>2, <1>3, <1>4, <2>1
  <1>5. CASE o.status # "SUCCESS"
    <2>1. pc' = "idle" /\ status' = o.status
      BY <1>1, <1>5 DEF Return
    <2> QED
      BY <1>2, <1>3, <1>5, <2>1
  <1> QED
    BY <1>4, <1>5

(* A read goes on after RESET_STATS or returns an error.                   *)
LEMMA ResetStatsFacts ==
  ASSUME TypeOK, ResetStats
  PROVE  /\ module' = module /\ line' \in Seq(Answers) /\ Len(line') <= 1
         /\ faults' \in 0..MaxFaults
         /\ line' # <<>> => line'[1].op = "RESET_STATS"
         /\ \/ pc' = "clear" /\ status' = status
            \/ pc' = "idle" /\ status' \in (Statuses \cup Errors) \ {"SUCCESS"}
  <1>1. module \in Modules
    BY DEF TypeOK
  <1>2. Acknowledged("RESET_STATS", module, "clear")
    BY DEF ResetStats
  <1> QED
    BY <1>1, <1>2, AcknowledgedFacts

(* ClearTagBuffer is an acknowledged command that resets the count on      *)
(* success.                                                                *)
LEMMA ClearFacts ==
  ASSUME ClearTagBuffer
  PROVE  /\ Acknowledged("CLEAR_TAG_ID_BUFFER", Cleared, AfterClear)
         /\ pc' = "idle" => tagsRemaining' = tagsRemaining
         /\ pc' # "idle" => tagsRemaining' = 0
  <1>1. AfterClear # "idle"
    BY DEF AfterClear
  <1> QED
    BY <1>1 DEF ClearTagBuffer, Acknowledged, Return, Proceed

(* The step of one search.                                                 *)
LEMMA SearchStep ==
  ASSUME TypeOK, SearchTags
  PROVE  /\ module' \in Modules /\ line' \in Seq(Answers) /\ Len(line') <= 1
         /\ faults' \in 0..MaxFaults
         /\ module'.protocol = module.protocol /\ module'.filter = module.filter
         /\ line' # <<>> => line'[1].op = "READ_TAG_ID_MULTIPLE"
         /\ tagsRemaining' \in Nat
         /\ \/ /\ pc' \in {"fetch", "search"} /\ status' = status
               /\ line = <<>> =>
                    /\ line' = <<>>
                    /\ \E f \in Seq(TagReads) :
                         /\ module'.buffer = module.buffer \o f
                         /\ module'.seen = module.seen \o f
                         /\ tagsRemaining' = tagsRemaining + Len(f) /\ Fresh(f)
            \/ /\ pc' \in {"idle", "count"}
               /\ status' \in (Statuses \cup Errors) \ {"SUCCESS"}
  <1>1. PICK o \in Outcomes("READ_TAG_ID_MULTIPLE", Search) :
          /\ Exchanged(o)
          /\ \/ /\ o.status \in {"SUCCESS", "NO_TAGS_FOUND"}
                /\ tagsRemaining' = tagsRemaining + o.answer.count
                /\ pc' \in {"fetch", "search"} /\ status' = status
             \/ /\ o.status \notin {"SUCCESS", "NO_TAGS_FOUND"}
                /\ tagsRemaining' = tagsRemaining
                /\ pc' \in {"idle", "count"} /\ status' = o.status
    BY DEF SearchTags, Return, Proceed
  <1>2. module' = o.module /\ line' = o.line /\ faults' = o.faults
    BY <1>1 DEF Exchanged
  <1>3. /\ o.module \in Modules /\ o.line \in Seq(Answers) /\ Len(o.line) <= 1
        /\ o.faults \in 0..MaxFaults /\ o.status \in Statuses \cup Errors
        /\ o.answer.count \in Nat
        /\ o.module.protocol = module.protocol /\ o.module.filter = module.filter
        /\ o.line # <<>> => o.line[1].op = "READ_TAG_ID_MULTIPLE"
        /\ o.status \in {"SUCCESS", "NO_TAGS_FOUND"} /\ line = <<>> =>
              /\ o.line = <<>>
              /\ \E f \in Seq(TagReads) :
                   /\ o.module.buffer = module.buffer \o f
                   /\ o.module.seen = module.seen \o f
                   /\ o.answer.count = Len(f) /\ Fresh(f)
    BY SearchFacts
  <1>4. tagsRemaining \in Nat
    BY DEF TypeOK
  <1>5. tagsRemaining' \in Nat
    BY <1>1, <1>3, <1>4
  <1>6. CASE o.status \in {"SUCCESS", "NO_TAGS_FOUND"}
    BY <1>1, <1>2, <1>3, <1>5, <1>6
  <1>7. CASE o.status \notin {"SUCCESS", "NO_TAGS_FOUND"}
    BY <1>1, <1>2, <1>3, <1>5, <1>7
  <1> QED
    BY <1>6, <1>7

(* The step of counting what a failed search left.                         *)
LEMMA CountStep ==
  ASSUME TypeOK, GetTagsRemaining
  PROVE  /\ module' \in Modules /\ line' \in Seq(Answers) /\ Len(line') <= 1
         /\ faults' \in 0..MaxFaults
         /\ module'.protocol = module.protocol /\ module'.filter = module.filter
         /\ line' # <<>> => line'[1].op = "GET_TAG_ID_BUFFER"
         /\ tagsRemaining' \in Nat /\ pc' = "idle"
         /\ status' \in ((Statuses \cup Errors) \ {"SUCCESS"}) \cup {status}
  <1>1. PICK o \in Outcomes("GET_TAG_ID_BUFFER", Counted) :
          /\ Exchanged(o)
          /\ \/ /\ tagsRemaining' = tagsRemaining + o.answer.count
                /\ pc' = "idle" /\ status' = status
             \/ /\ o.status # "SUCCESS" /\ tagsRemaining' = tagsRemaining
                /\ pc' = "idle" /\ status' = o.status
    BY DEF GetTagsRemaining, Return, Proceed
  <1>2. module' = o.module /\ line' = o.line /\ faults' = o.faults
    BY <1>1 DEF Exchanged
  <1>3. /\ o.module \in Modules /\ o.line \in Seq(Answers) /\ Len(o.line) <= 1
        /\ o.faults \in 0..MaxFaults /\ o.status \in Statuses \cup Errors
        /\ o.answer.count \in Nat
        /\ o.module.protocol = module.protocol /\ o.module.filter = module.filter
        /\ o.line # <<>> => o.line[1].op = "GET_TAG_ID_BUFFER"
    BY FetchFacts
  <1>4. tagsRemaining \in Nat
    BY DEF TypeOK
  <1>5. tagsRemaining' \in Nat
    BY <1>1, <1>3, <1>4
  <1> QED
    BY <1>1, <1>2, <1>3, <1>5

(* Parsing one tag keeps the types, and the count of a packet that has one. *)
LEMMA ParseFacts ==
  ASSUME TypeOK, tagsRemaining > 0, NEW n \in Nat, NEW packet \in Seq(TagReads),
         Parse(n, packet)
  PROVE  /\ results' \in Seq(TagReads) /\ bufResponse' \in Seq(TagReads)
         /\ tagsRemainingInBuffer' \in Byte
         /\ tagsRemaining' \in Nat /\ tagsRemaining' = tagsRemaining - 1
         /\ n \in 1..255 /\ n = Len(packet) =>
              /\ packet # <<>> /\ tagsRemainingInBuffer' = Len(bufResponse')
              /\ results' = Append(results, Head(packet)) /\ bufResponse' = Tail(packet)
  <1>1. results \in Seq(TagReads) /\ tagsRemaining \in Nat
    BY DEF TypeOK
  <1>2. Parsed(packet) \in TagReads /\ Rest(packet) \in Seq(TagReads)
    <2>1. CASE packet = <<>>
      BY <2>1 DEF Parsed, Rest, TagReads
    <2>2. CASE packet # <<>>
      BY <2>2, HeadTailProperties DEF Parsed, Rest
    <2> QED
      BY <2>1, <2>2
  <1>3. /\ results' = Append(results, Parsed(packet)) /\ bufResponse' = Rest(packet)
        /\ tagsRemainingInBuffer' = (n - 1) % 256 /\ tagsRemaining' = tagsRemaining - 1
    BY DEF Parse
  <1>4. results' \in Seq(TagReads) /\ bufResponse' \in Seq(TagReads)
    BY <1>1, <1>2, <1>3, Appended
  <1>5. tagsRemainingInBuffer' \in Byte /\ tagsRemaining' \in Nat
    BY <1>1, <1>3 DEF Byte
  <1>6. ASSUME n \in 1..255, n = Len(packet)
        PROVE  /\ packet # <<>> /\ tagsRemainingInBuffer' = Len(bufResponse')
               /\ results' = Append(results, Head(packet)) /\ bufResponse' = Tail(packet)
    <2>1. Len(packet) # 0
      BY <1>6
    <2>2. packet # <<>>
      BY <2>1
    <2>3. Parsed(packet) = Head(packet) /\ Rest(packet) = Tail(packet)
      BY <2>2 DEF Parsed, Rest
    <2>4. Len(Tail(packet)) = n - 1
      BY <1>6, <2>2, HeadTailProperties
    <2>5. (n - 1) % 256 = n - 1
      <3>1. \A k \in 0..254 : k % 256 = k
        OBVIOUS
      <3>2. n \in 1..255
        BY <1>6
      <3>3. n - 1 \in 0..254
        BY <3>2
      <3> QED
        BY <3>1, <3>3
    <2>6. tagsRemainingInBuffer' = n - 1
      BY <1>3, <2>5
    <2>7. bufResponse' = Tail(packet)
      BY <1>3, <2>3
    <2>8. results' = Append(results, Head(packet))
      BY <1>3, <2>3
    <2>9. tagsRemainingInBuffer' = Len(bufResponse')
      BY <2>4, <2>6, <2>7
    <2> QED
      BY <2>2, <2>7, <2>8, <2>9
  <1> QED
    BY <1>3, <1>4, <1>5, <1>6

(* The step that fetches a packet and parses its first tag.                *)
LEMMA FetchStep ==
  ASSUME TypeOK, FetchTags
  PROVE  /\ module' \in Modules /\ line' \in Seq(Answers) /\ Len(line') <= 1
         /\ faults' \in 0..MaxFaults
         /\ module'.protocol = module.protocol /\ module'.filter = module.filter
         /\ line' # <<>> => line'[1].op = "GET_TAG_ID_BUFFER"
         /\ \/ /\ pc' = "idle" /\ status' \in (Statuses \cup Errors) \ {"SUCCESS"}
               /\ UNCHANGED hostVars
            \/ /\ pc' = "fetch" /\ status' = status
               /\ \E packet \in Seq(TagReads) :
                    /\ Parse(Len(packet), packet)
                    /\ line = <<>> =>
                         /\ line' = <<>> /\ Len(packet) \in 1..255
                         /\ module'.seen = module.seen
                         /\ packet \o module'.buffer = module.buffer
  <1>1. PICK o \in Outcomes("GET_TAG_ID_BUFFER", Fetched) :
          /\ Exchanged(o)
          /\ \/ /\ o.status = "SUCCESS" /\ pc' = "fetch" /\ status' = status
                /\ Parse(Len(o.answer.tags), o.answer.tags)
             \/ /\ o.status # "SUCCESS" /\ pc' = "idle" /\ status' = o.status
                /\ UNCHANGED hostVars
    BY DEF FetchTags, Return, Proceed
  <1>2. module' = o.module /\ line' = o.line /\ faults' = o.faults
    BY <1>1 DEF Exchanged
  <1>3. /\ o.module \in Modules /\ o.line \in Seq(Answers) /\ Len(o.line) <= 1
        /\ o.faults \in 0..MaxFaults /\ o.status \in Statuses \cup Errors
        /\ o.answer.tags \in Seq(TagReads)
        /\ o.module.protocol = module.protocol /\ o.module.filter = module.filter
        /\ o.line # <<>> => o.line[1].op = "GET_TAG_ID_BUFFER"
        /\ o.status = "SUCCESS" /\ line = <<>> =>
              /\ o.line = <<>>
              /\ Len(o.answer.tags) \in 1..255 /\ o.module.seen = module.seen
              /\ o.answer.tags \o o.module.buffer = module.buffer
    BY ZenonT(40), FetchFacts
  <1>4. CASE o.status = "SUCCESS"
    <2>1. /\ Parse(Len(o.answer.tags), o.answer.tags)
          /\ pc' = "fetch" /\ status' = status
      BY <1>1, <1>4
    <2>2. \E packet \in Seq(TagReads) :
                    /\ Parse(Len(packet), packet)
                    /\ line = <<>> =>
                         /\ line' = <<>> /\ Len(packet) \in 1..255
                         /\ module'.seen = module.seen
                         /\ packet \o module'.buffer = module.buffer
      BY <1>2, <1>3, <1>4, <2>1
    <2> QED
      BY <1>2, <1>3, <2>1, <2>2
  <1>5. CASE o.status # "SUCCESS"
    BY <1>1, <1>2, <1>3, <1>5
  <1> QED
    BY <1>4, <1>5

(* The step that sets the read filter.                                     *)
LEMMA FilterStep ==
  ASSUME TypeOK, NEW value \in BOOLEAN, SetReadFilter(value)
  PROVE  /\ module' \in Modules /\ line' \in Seq(Answers) /\ Len(line') <= 1
         /\ faults' \in 0..MaxFaults /\ module' \in {module, Filtering(value)}
         /\ pc' = "idle" /\ status' \in Statuses \cup Errors
         /\ line' # <<>> => line'[1].op = "SET_CONFIGURATION"
         /\ status' \notin Errors /\ line # <<>> => line[1].op = "SET_CONFIGURATION"
         /\ status' \notin Errors /\ line = <<>> =>
              /\ line' = <<>>
              /\ status' = "SUCCESS" => module' = Filtering(value)
              /\ status' # "SUCCESS" => module' = module
  <1>1. PICK o \in Outcomes("SET_CONFIGURATION",
                           Done("SET_CONFIGURATION", Filtering(value))) :
          Exchanged(o) /\ Return(o.status)
    BY DEF SetReadFilter
  <1>2. Filtering(value) \in Modules
    BY ModuleTypes
  <1> DEFINE m == Filtering(value)
             op == "SET_CONFIGURATION"
  <1>3. /\ o.module \in Modules /\ o.line \in Seq(Answers) /\ Len(o.line) <= 1
        /\ o.faults \in 0..MaxFaults /\ o.status \in Statuses \cup Errors
        /\ o.module \in {module, m}
        /\ o.line # <<>> =>
              o.line[1].op = op /\ (o.line[1].status = "SUCCESS" => o.module = m)
        /\ o.status \notin Errors /\ line # <<>> =>
              line[1].op = op /\ line[1].status = o.status
        /\ o.status \notin Errors /\ line = <<>> =>
              /\ o.line = <<>>
              /\ o.status = "SUCCESS" => o.module = m
              /\ o.status # "SUCCESS" => o.module = module
    BY <1>2, DoneFacts
  <1>4. /\ module' = o.module /\ line' = o.line /\ faults' = o.faults
        /\ pc' = "idle" /\ status' = o.status
    BY <1>1 DEF Exchanged, Return
  <1> QED
    BY <1>3, <1>4

(* The step of a tag operation.                                            *)
LEMMA TagOperationStep ==
  ASSUME TypeOK, TagOperation
  PROVE  /\ module' = module /\ line' \in Seq(Answers) /\ Len(line') <= 1
         /\ faults' \in 0..MaxFaults /\ pc' = "idle" /\ status' \in Statuses \cup Errors
         /\ line' # <<>> => line'[1].op = "TAG_OP"
  <1>1. PICK o \in Outcomes("TAG_OP", Done("TAG_OP", module)) :
          Exchanged(o) /\ Return(o.status)
    BY DEF TagOperation
  <1>2. module \in Modules
    BY DEF TypeOK
  <1>3. /\ o.line \in Seq(Answers) /\ Len(o.line) <= 1
        /\ o.faults \in 0..MaxFaults /\ o.status \in Statuses \cup Errors
        /\ o.module \in {module, module}
        /\ o.line # <<>> => o.line[1].op = "TAG_OP"
    BY <1>2, DoneFacts
  <1>4. /\ module' = o.module /\ line' = o.line /\ faults' = o.faults
        /\ pc' = "idle" /\ status' = o.status
    BY <1>1 DEF Exchanged, Return
  <1> QED
    BY <1>3, <1>4

(* TypeOK is inductive: no sequence of calls, answers and troubles takes a *)
(* counter below zero or a flag out of its range.                          *)
LEMMA TypeStep ==
  ASSUME TypeOK, Next
  PROVE  TypeOK'
  <1> USE DEF hostVars, settingVars, historyVars
  <1>1. /\ module \in Modules /\ call \in Calls /\ currentProtocol \in Protocols
        /\ call.protocol \in Protocols
    BY CallTypes DEF TypeOK
  <1>2. Plans \subseteq Calls /\ TagOp \in Calls /\ Configuration \in Calls
    BY DEF Calls
  <1>3. ASSUME NEW plan \in Plans, Read(plan) PROVE TypeOK'
    <2>1. call' \in Calls /\ read' \in 0..MaxReads /\ searches' \in 0..MaxSearches
      BY <1>2, <1>3, BoundsAssumption DEF Read, TypeOK
    <2> QED
      BY <1>3, <2>1 DEF Read, TypeOK, Points
  <1>4. ASSUME ResetStats PROVE TypeOK'
    <2>1. /\ module' = module /\ line' \in Seq(Answers) /\ Len(line') <= 1
          /\ faults' \in 0..MaxFaults
          /\ \/ pc' = "clear" /\ status' = status
             \/ pc' = "idle" /\ status' \in (Statuses \cup Errors) \ {"SUCCESS"}
      BY <1>4, ResetStatsFacts
    <2>2. boot' \in Boots
      BY <1>4 DEF ResetStats, TypeOK
    <2> QED
      BY <1>4, <2>1, <2>2 DEF ResetStats, TypeOK, Points
  <1>5. ASSUME ClearTagBuffer PROVE TypeOK'
    <2> DEFINE next == AfterClear
    <2>1. Acknowledged("CLEAR_TAG_ID_BUFFER", Cleared, next)
      BY <1>5, ClearFacts
    <2>2. Cleared \in Modules /\ next \in Points
      BY <1>1, ModuleTypes DEF AfterClear, Points, TypeOK
    <2> HIDE DEF next
    <2>3. /\ module' \in Modules /\ line' \in Seq(Answers) /\ Len(line') <= 1
          /\ faults' \in 0..MaxFaults
          /\ \/ pc' = next /\ status' = status
             \/ pc' = "idle" /\ status' \in (Statuses \cup Errors) \ {"SUCCESS"}
      BY <2>1, <2>2, AcknowledgedFacts
    <2>4. pc' \in Points /\ status' \in Statuses \cup Errors \cup {"none", "ABANDONED"}
      BY <2>2, <2>3 DEF TypeOK, Points
    <2>5. tagsRemaining' \in Nat
      BY <1>5, ClearFacts, <2>3 DEF TypeOK
    <2> QED
      BY <1>5, <2>3, <2>4, <2>5 DEF ClearTagBuffer, TypeOK
  <1>6. ASSUME DetectAntennas PROVE TypeOK'
    <2> DEFINE next == "antennas"
    <2>1. Acknowledged("ANTENNA_DETECT", module, next)
      BY <1>6 DEF DetectAntennas
    <2>2. module \in Modules /\ next \in Points
      BY <1>1, ModuleTypes DEF Points, TypeOK
    <2> HIDE DEF next
    <2>3. /\ module' \in Modules /\ line' \in Seq(Answers) /\ Len(line') <= 1
          /\ faults' \in 0..MaxFaults
          /\ \/ pc' = next /\ status' = status
             \/ pc' = "idle" /\ status' \in (Statuses \cup Errors) \ {"SUCCESS"}
      BY <2>1, <2>2, AcknowledgedFacts
    <2>4. pc' \in Points /\ status' \in Statuses \cup Errors \cup {"none", "ABANDONED"}
      BY <2>2, <2>3 DEF TypeOK, Points
    <2>5. currentProtocol' \in Protocols /\ unsettled' \in BOOLEAN
      BY <1>1, <1>6 DEF DetectAntennas, TypeOK
    <2> QED
      BY <1>6, <2>3, <2>4, <2>5 DEF DetectAntennas, TypeOK
  <1>7. ASSUME SetAntennas PROVE TypeOK'
    <2> DEFINE next == IF currentProtocol = call.protocol THEN "search" ELSE "protocol"
    <2>1. Acknowledged("SET_ANTENNAS", module, next)
      BY <1>7 DEF SetAntennas
    <2>2. module \in Modules /\ next \in Points
      BY <1>1, ModuleTypes DEF Points, TypeOK
    <2> HIDE DEF next
    <2>3. /\ module' \in Modules /\ line' \in Seq(Answers) /\ Len(line') <= 1
          /\ faults' \in 0..MaxFaults
          /\ \/ pc' = next /\ status' = status
             \/ pc' = "idle" /\ status' \in (Statuses \cup Errors) \ {"SUCCESS"}
      BY <2>1, <2>2, AcknowledgedFacts
    <2>4. pc' \in Points /\ status' \in Statuses \cup Errors \cup {"none", "ABANDONED"}
      BY <2>2, <2>3 DEF TypeOK, Points
    <2>5. currentProtocol' \in Protocols /\ unsettled' \in BOOLEAN
      BY <1>1, <1>7 DEF SetAntennas, TypeOK
    <2> QED
      BY <1>7, <2>3, <2>4, <2>5 DEF SetAntennas, TypeOK
  <1>8. ASSUME SetProtocol PROVE TypeOK'
    <2> DEFINE next == IF boot.m6e THEN "filter" ELSE "extended"
    <2>1. Acknowledged("SET_PROTOCOL", Switched, next)
      BY <1>8 DEF SetProtocol
    <2>2. Switched \in Modules /\ next \in Points
      BY <1>1, ModuleTypes DEF Points, TypeOK
    <2> HIDE DEF next
    <2>3. /\ module' \in Modules /\ line' \in Seq(Answers) /\ Len(line') <= 1
          /\ faults' \in 0..MaxFaults
          /\ \/ pc' = next /\ status' = status
             \/ pc' = "idle" /\ status' \in (Statuses \cup Errors) \ {"SUCCESS"}
      BY <2>1, <2>2, AcknowledgedFacts
    <2>4. pc' \in Points /\ status' \in Statuses \cup Errors \cup {"none", "ABANDONED"}
      BY <2>2, <2>3 DEF TypeOK, Points
    <2>5. currentProtocol' \in Protocols /\ unsettled' \in BOOLEAN
      BY <1>1, <1>8 DEF SetProtocol, TypeOK
    <2> QED
      BY <1>8, <2>3, <2>4, <2>5 DEF SetProtocol, TypeOK
  <1>9. ASSUME SetExtendedEPC PROVE TypeOK'
    <2> DEFINE next == "filter"
    <2>1. Acknowledged("SET_CONFIGURATION", module, next)
      BY <1>9 DEF SetExtendedEPC
    <2>2. module \in Modules /\ next \in Points
      BY <1>1, ModuleTypes DEF Points, TypeOK
    <2> HIDE DEF next
    <2>3. /\ module' \in Modules /\ line' \in Seq(Answers) /\ Len(line') <= 1
          /\ faults' \in 0..MaxFaults
          /\ \/ pc' = next /\ status' = status
             \/ pc' = "idle" /\ status' \in (Statuses \cup Errors) \ {"SUCCESS"}
      BY <2>1, <2>2, AcknowledgedFacts
    <2>4. pc' \in Points /\ status' \in Statuses \cup Errors \cup {"none", "ABANDONED"}
      BY <2>2, <2>3 DEF TypeOK, Points
    <2>5. currentProtocol' \in Protocols /\ unsettled' \in BOOLEAN
      BY <1>1, <1>9 DEF SetExtendedEPC, TypeOK
    <2> QED
      BY <1>9, <2>3, <2>4, <2>5 DEF SetExtendedEPC, TypeOK
  <1>10. ASSUME RestoreFilter PROVE TypeOK'
    <2> DEFINE next == "timeout"
    <2>1. Acknowledged("SET_CONFIGURATION", Filtering(enableReadFiltering), next)
      BY <1>10 DEF RestoreFilter
    <2>2. Filtering(enableReadFiltering) \in Modules /\ next \in Points
      BY <1>1, ModuleTypes DEF Points, TypeOK
    <2> HIDE DEF next
    <2>3. /\ module' \in Modules /\ line' \in Seq(Answers) /\ Len(line') <= 1
          /\ faults' \in 0..MaxFaults
          /\ \/ pc' = next /\ status' = status
             \/ pc' = "idle" /\ status' \in (Statuses \cup Errors) \ {"SUCCESS"}
      BY <2>1, <2>2, AcknowledgedFacts
    <2>4. pc' \in Points /\ status' \in Statuses \cup Errors \cup {"none", "ABANDONED"}
      BY <2>2, <2>3 DEF TypeOK, Points
    <2>5. currentProtocol' \in Protocols /\ unsettled' \in BOOLEAN
      BY <1>1, <1>10 DEF RestoreFilter, TypeOK
    <2> QED
      BY <1>10, <2>3, <2>4, <2>5 DEF RestoreFilter, TypeOK
  <1>11. ASSUME RestoreFilterTimeout PROVE TypeOK'
    <2> DEFINE next == Prepared
    <2>1. Acknowledged("SET_CONFIGURATION", module, next)
      BY <1>11 DEF RestoreFilterTimeout
    <2>2. module \in Modules /\ next \in Points
      BY <1>1, ModuleTypes DEF Prepared, Points, TypeOK
    <2> HIDE DEF next
    <2>3. /\ module' \in Modules /\ line' \in Seq(Answers) /\ Len(line') <= 1
          /\ faults' \in 0..MaxFaults
          /\ \/ pc' = next /\ status' = status
             \/ pc' = "idle" /\ status' \in (Statuses \cup Errors) \ {"SUCCESS"}
      BY <2>1, <2>2, AcknowledgedFacts
    <2>4. pc' \in Points /\ status' \in Statuses \cup Errors \cup {"none", "ABANDONED"}
      BY <2>2, <2>3 DEF TypeOK, Points
    <2>5. currentProtocol' \in Protocols /\ unsettled' \in BOOLEAN
      BY <1>1, <1>11 DEF RestoreFilterTimeout, TypeOK
    <2> QED
      BY <1>11, <2>3, <2>4, <2>5 DEF RestoreFilterTimeout, TypeOK
  <1>12. ASSUME SearchTags PROVE TypeOK'
    <2>1. /\ module' \in Modules /\ line' \in Seq(Answers) /\ Len(line') <= 1
          /\ faults' \in 0..MaxFaults /\ tagsRemaining' \in Nat
          /\ \/ pc' \in {"fetch", "search"} /\ status' = status
             \/ /\ pc' \in {"idle", "count"}
                /\ status' \in (Statuses \cup Errors) \ {"SUCCESS"}
      BY <1>12, SearchStep
    <2>2. searches' \in 0..MaxSearches
      BY <1>12, BoundsAssumption DEF SearchTags, TypeOK
    <2> QED
      BY <1>12, <2>1, <2>2 DEF SearchTags, TypeOK, Points
  <1>13. ASSUME TimeUp PROVE TypeOK'
    BY <1>13 DEF TimeUp, TypeOK, Points
  <1>14. ASSUME GetTagsRemaining PROVE TypeOK'
    <2>1. /\ module' \in Modules /\ line' \in Seq(Answers) /\ Len(line') <= 1
          /\ faults' \in 0..MaxFaults /\ tagsRemaining' \in Nat /\ pc' = "idle"
          /\ status' \in ((Statuses \cup Errors) \ {"SUCCESS"}) \cup {status}
      BY <1>14, CountStep
    <2> QED
      BY <1>14, <2>1 DEF GetTagsRemaining, TypeOK, Points
  <1>15. ASSUME GetNextTag PROVE TypeOK'
    <2>1. /\ tagsRemaining > 0 /\ tagsRemainingInBuffer \in Nat
          /\ bufResponse \in Seq(TagReads) /\ Parse(tagsRemainingInBuffer, bufResponse)
      BY <1>15 DEF GetNextTag, TypeOK, Byte
    <2>2. /\ results' \in Seq(TagReads) /\ bufResponse' \in Seq(TagReads)
          /\ tagsRemainingInBuffer' \in Byte /\ tagsRemaining' \in Nat
      BY <2>1, ParseFacts
    <2> QED
      BY <1>15, <2>2 DEF GetNextTag, TypeOK
  <1>16. ASSUME FetchTags PROVE TypeOK'
    <2>1. /\ module' \in Modules /\ line' \in Seq(Answers) /\ Len(line') <= 1
          /\ faults' \in 0..MaxFaults
          /\ \/ /\ pc' = "idle" /\ status' \in (Statuses \cup Errors) \ {"SUCCESS"}
                /\ UNCHANGED hostVars
             \/ /\ pc' = "fetch" /\ status' = status
                /\ \E packet \in Seq(TagReads) : Parse(Len(packet), packet)
      BY <1>16, FetchStep
    <2>2. /\ results' \in Seq(TagReads) /\ bufResponse' \in Seq(TagReads)
          /\ tagsRemainingInBuffer' \in Byte /\ tagsRemaining' \in Nat
      <3>1. CASE UNCHANGED hostVars
        BY <3>1 DEF TypeOK
      <3>2. CASE \E packet \in Seq(TagReads) : Parse(Len(packet), packet)
        <4>1. PICK packet \in Seq(TagReads) : Parse(Len(packet), packet)
          BY <3>2
        <4>2. Len(packet) \in Nat /\ tagsRemaining > 0
          BY <1>16 DEF FetchTags
        <4> QED
          BY <4>1, <4>2, ParseFacts
      <3> QED
        BY <2>1, <3>1, <3>2
    <2> QED
      BY <1>16, <2>1, <2>2 DEF FetchTags, TypeOK, Points
  <1>17. ASSUME ReadLoopEnds PROVE TypeOK'
    BY <1>17 DEF ReadLoopEnds, Return, TypeOK, Points
  <1>18. ASSUME Abandon PROVE TypeOK'
    BY <1>18 DEF Abandon, Return, TypeOK, Points
  <1>19. ASSUME ExecuteTagOp PROVE TypeOK'
    BY <1>2, <1>19 DEF ExecuteTagOp, TypeOK, Points
  <1>20. ASSUME TagOperation PROVE TypeOK'
    <2>1. /\ module' = module /\ line' \in Seq(Answers) /\ Len(line') <= 1
          /\ faults' \in 0..MaxFaults /\ pc' = "idle" /\ status' \in Statuses \cup Errors
      BY <1>20, TagOperationStep
    <2> QED
      BY <1>20, <2>1 DEF TagOperation, TypeOK, Points
  <1>21. ASSUME NEW value \in BOOLEAN, SetReadFilter(value) PROVE TypeOK'
    <2>1. /\ module' \in Modules /\ line' \in Seq(Answers) /\ Len(line') <= 1
          /\ faults' \in 0..MaxFaults /\ pc' = "idle" /\ status' \in Statuses \cup Errors
      BY <1>21, FilterStep
    <2>2. enableReadFiltering' \in BOOLEAN /\ unsettled' \in BOOLEAN
      BY <1>21 DEF SetReadFilter, TypeOK
    <2> QED
      BY <1>2, <1>21, <2>1, <2>2 DEF SetReadFilter, TypeOK, Points
  <1> QED
    BY <1>3, <1>4, <1>5, <1>6, <1>7, <1>8, <1>9, <1>10, <1>11, <1>12, <1>13,
       <1>14, <1>15, <1>16, <1>17, <1>18, <1>19, <1>20, <1>21 DEF Next

(* The initial state is well typed.                                        *)
LEMMA TypeInit == Init => TypeOK
  <1> SUFFICES ASSUME Init PROVE TypeOK
    OBVIOUS
  <1>1. TagOp \in Calls
    BY DEF Calls
  <1>2. module \in Modules /\ enableReadFiltering \in BOOLEAN
    <2>1. <<>> \in Seq(TagReads)
      OBVIOUS
    <2>2. enableReadFiltering \in BOOLEAN
      <3>1. {TRUE} \subseteq BOOLEAN
        OBVIOUS
      <3>2. enableReadFiltering \in IF boot.m6e THEN BOOLEAN ELSE {TRUE}
        BY DEF Init
      <3> QED
        BY <3>1, <3>2, Zenon
    <2> QED
      BY <2>1, <2>2, ProtocolsAssumption DEF Init, Modules
  <1>3. /\ line \in Seq(Answers) /\ Len(line) <= 1
        /\ bufResponse \in Seq(TagReads) /\ results \in Seq(TagReads)
    BY DEF Init
  <1>4. read \in 0..MaxReads /\ searches \in 0..MaxSearches /\ faults \in 0..MaxFaults
    BY BoundsAssumption DEF Init
  <1>5. /\ pc \in Points /\ status \in Statuses \cup Errors \cup {"none", "ABANDONED"}
        /\ tagsRemaining \in Nat /\ tagsRemainingInBuffer \in Byte
    BY DEF Init, Byte, Points
  <1>6. /\ call \in Calls /\ currentProtocol \in Protocols
        /\ unsettled \in BOOLEAN /\ boot \in Boots /\ stranded \in BOOLEAN
    BY <1>1, ProtocolsAssumption DEF Init
  <1> QED
    BY <1>2, <1>3, <1>4, <1>5, <1>6 DEF TypeOK

(* Every variable keeps its type, for every value of the constants.       *)
THEOREM TypeCorrect == Spec => []TypeOK
  <1>1. TypeOK /\ [Next]_vars => TypeOK'
    <2>1. TypeOK /\ UNCHANGED vars => TypeOK'
      BY DEF vars, hostVars, settingVars, historyVars, TypeOK
    <2> QED
      BY <2>1, TypeStep
  <1> QED
    BY <1>1, TypeInit, PTL DEF Spec

--------------------------------------------------------------------------------
(* A step that leaves the settings, and the answers to commands that change *)
(* them, alone.                                                            *)
LEMMA SettingsKept ==
  ASSUME SettingsInv, UNCHANGED settingVars,
         module'.protocol = module.protocol, module'.filter = module.filter,
         line' = line \/ (line' # <<>> => line'[1].op \notin Changes),
         pc \notin {"extended", "filter"}, pc' \notin {"extended", "filter"}
  PROVE  SettingsInv'
  BY DEF SettingsInv, settingVars, InStep

(* SettingsInv is inductive.                                               *)
LEMMA SettingsStep ==
  ASSUME TypeOK, SettingsInv, Next
  PROVE  SettingsInv'
  <1>1. ASSUME NEW plan \in Plans, Read(plan) PROVE SettingsInv'
    BY <1>1, SettingsKept DEF Read
  <1>2. ASSUME ResetStats PROVE SettingsInv'
    <2>1. /\ module'.protocol = module.protocol /\ module'.filter = module.filter
          /\ line' # <<>> => line'[1].op \notin Changes
          /\ pc' \notin {"extended", "filter"}
      BY <1>2, ResetStatsFacts DEF Changes
    <2> QED
      BY <1>2, <2>1, SettingsKept DEF ResetStats
  <1>3. ASSUME ClearTagBuffer PROVE SettingsInv'
    <2> DEFINE next == AfterClear
    <2>1. Acknowledged("CLEAR_TAG_ID_BUFFER", Cleared, next)
      BY <1>3, ClearFacts
    <2>2. /\ Cleared \in Modules /\ Cleared.protocol = module.protocol
          /\ Cleared.filter = module.filter /\ next \notin {"extended", "filter"}
      BY ModuleTypes DEF AfterClear, TypeOK, Cleared, Modules
    <2> HIDE DEF next
    <2>3. /\ module' \in {module, Cleared} /\ pc' \in {next, "idle"}
          /\ line' # <<>> => line'[1].op = "CLEAR_TAG_ID_BUFFER"
      BY <2>1, <2>2, AcknowledgedFacts
    <2>4. /\ module'.protocol = module.protocol /\ module'.filter = module.filter
          /\ line' # <<>> => line'[1].op \notin Changes
          /\ pc' \notin {"extended", "filter"}
      BY <2>2, <2>3 DEF Changes
    <2> QED
      BY <1>3, <2>4, SettingsKept DEF ClearTagBuffer
  <1>4. ASSUME DetectAntennas PROVE SettingsInv'
    <2> DEFINE next == "antennas"
    <2>1. Acknowledged("ANTENNA_DETECT", module, next)
      BY <1>4 DEF DetectAntennas
    <2>2. /\ module \in Modules /\ module.protocol = module.protocol
          /\ module.filter = module.filter /\ next \notin {"extended", "filter"}
      BY ModuleTypes DEF TypeOK
    <2> HIDE DEF next
    <2>3. /\ module' \in {module, module} /\ pc' \in {next, "idle"}
          /\ line' # <<>> => line'[1].op = "ANTENNA_DETECT"
      BY <2>1, <2>2, AcknowledgedFacts
    <2>4. /\ module'.protocol = module.protocol /\ module'.filter = module.filter
          /\ line' # <<>> => line'[1].op \notin Changes
          /\ pc' \notin {"extended", "filter"}
      BY <2>2, <2>3 DEF Changes
    <2> QED
      BY <1>4, <2>4, SettingsKept DEF DetectAntennas
  <1>5. ASSUME SetAntennas PROVE SettingsInv'
    <2> DEFINE next == IF currentProtocol = call.protocol THEN "search" ELSE "protocol"
    <2>1. Acknowledged("SET_ANTENNAS", module, next)
      BY <1>5 DEF SetAntennas
    <2>2. /\ module \in Modules /\ module.protocol = module.protocol
          /\ module.filter = module.filter /\ next \notin {"extended", "filter"}
      BY ModuleTypes DEF TypeOK
    <2> HIDE DEF next
    <2>3. /\ module' \in {module, module} /\ pc' \in {next, "idle"}
          /\ line' # <<>> => line'[1].op = "SET_ANTENNAS"
      BY <2>1, <2>2, AcknowledgedFacts
    <2>4. /\ module'.protocol = module.protocol /\ module'.filter = module.filter
          /\ line' # <<>> => line'[1].op \notin Changes
          /\ pc' \notin {"extended", "filter"}
      BY <2>2, <2>3 DEF Changes
    <2> QED
      BY <1>5, <2>4, SettingsKept DEF SetAntennas
  <1>6. ASSUME SearchTags PROVE SettingsInv'
    <2>1. /\ module'.protocol = module.protocol /\ module'.filter = module.filter
          /\ line' # <<>> => line'[1].op \notin Changes
          /\ pc' \notin {"extended", "filter"}
      BY <1>6, SearchStep DEF Changes
    <2> QED
      BY <1>6, <2>1, SettingsKept DEF SearchTags
  <1>7. ASSUME TimeUp PROVE SettingsInv'
    BY <1>7, SettingsKept DEF TimeUp
  <1>8. ASSUME GetTagsRemaining PROVE SettingsInv'
    <2>1. /\ module'.protocol = module.protocol /\ module'.filter = module.filter
          /\ line' # <<>> => line'[1].op \notin Changes
          /\ pc' \notin {"extended", "filter"}
      BY <1>8, CountStep DEF Changes
    <2> QED
      BY <1>8, <2>1, SettingsKept DEF GetTagsRemaining
  <1>9. ASSUME GetNextTag PROVE SettingsInv'
    BY <1>9, SettingsKept DEF GetNextTag
  <1>10. ASSUME FetchTags PROVE SettingsInv'
    <2>1. /\ module'.protocol = module.protocol /\ module'.filter = module.filter
          /\ line' # <<>> => line'[1].op \notin Changes
          /\ pc' \notin {"extended", "filter"}
      BY <1>10, FetchStep DEF Changes
    <2> QED
      BY <1>10, <2>1, SettingsKept DEF FetchTags
  <1>11. ASSUME ReadLoopEnds PROVE SettingsInv'
    BY <1>11, SettingsKept DEF ReadLoopEnds, Return
  <1>12. ASSUME Abandon PROVE SettingsInv'
    BY <1>12, SettingsKept DEF Abandon, Return
  <1>13. ASSUME ExecuteTagOp PROVE SettingsInv'
    BY <1>13, SettingsKept DEF ExecuteTagOp
  <1>14. ASSUME TagOperation PROVE SettingsInv'
    <2>1. /\ module'.protocol = module.protocol /\ module'.filter = module.filter
          /\ line' # <<>> => line'[1].op \notin Changes
          /\ pc' \notin {"extended", "filter"}
      BY <1>14, TagOperationStep DEF Changes
    <2> QED
      BY <1>14, <2>1, SettingsKept DEF TagOperation
  <1>15. ASSUME SetProtocol PROVE SettingsInv'
    <2> DEFINE next == IF boot.m6e THEN "filter" ELSE "extended"
    <2>1. Acknowledged("SET_PROTOCOL", Switched, next)
      BY <1>15 DEF SetProtocol
    <2>2. module \in Modules /\ Switched \in Modules
      BY ModuleTypes DEF TypeOK
    <2>3. /\ line' # <<>> => line'[1].op = "SET_PROTOCOL"
          /\ \/ /\ pc' = next
                /\ line # <<>> => line[1].op = "SET_PROTOCOL"
                /\ line = <<>> => line' = <<>> /\ module' = Switched
             \/ /\ pc' = "idle" /\ status' \in (Statuses \cup Errors) \ {"SUCCESS"}
                /\ status' \notin Errors =>
                     /\ line # <<>> => line[1].op = "SET_PROTOCOL"
                     /\ line = <<>> => line' = <<>> /\ module' = module
      BY <2>1, <2>2, AcknowledgedFacts
    <2> SUFFICES ASSUME ~unsettled' PROVE SettingsInv'
      BY DEF SettingsInv
    <2>4. ~unsettled
      BY <1>15 DEF SetProtocol
    <2>5. line # <<>> => line[1].op \notin Changes
      BY <2>4 DEF SettingsInv
    <2>6. line = <<>>
      BY <1>15, <2>3, <2>4, <2>5 DEF SetProtocol, Changes
    <2>7. InStep /\ Switched.protocol = call.protocol
      BY <1>15, <2>2, <2>4 DEF SettingsInv, SetProtocol, Switched, Modules
    <2>8. CASE pc' = "idle" /\ status' \notin Errors /\ module' = module /\ line' = <<>>
      BY <1>15, <2>7, <2>8 DEF SettingsInv, InStep, SetProtocol
    <2>9. CASE pc' = next /\ module' = Switched /\ line' = <<>>
      BY <1>15, <2>7, <2>9 DEF SettingsInv, InStep, SetProtocol
    <2> QED
      BY <1>15, <2>3, <2>6, <2>8, <2>9 DEF SetProtocol
  <1>16. ASSUME SetExtendedEPC PROVE SettingsInv'
    <2> DEFINE next == "filter"
    <2>1. Acknowledged("SET_CONFIGURATION", module, next)
      BY <1>16 DEF SetExtendedEPC
    <2>2. module \in Modules /\ module \in Modules
      BY ModuleTypes DEF TypeOK
    <2>3. /\ line' # <<>> => line'[1].op = "SET_CONFIGURATION"
          /\ \/ /\ pc' = next
                /\ line # <<>> => line[1].op = "SET_CONFIGURATION"
                /\ line = <<>> => line' = <<>> /\ module' = module
             \/ /\ pc' = "idle" /\ status' \in (Statuses \cup Errors) \ {"SUCCESS"}
                /\ status' \notin Errors =>
                     /\ line # <<>> => line[1].op = "SET_CONFIGURATION"
                     /\ line = <<>> => line' = <<>> /\ module' = module
      BY <2>1, <2>2, AcknowledgedFacts
    <2> SUFFICES ASSUME ~unsettled' PROVE SettingsInv'
      BY DEF SettingsInv
    <2>4. ~unsettled
      BY <1>16 DEF SetExtendedEPC
    <2>5. line # <<>> => line[1].op \notin Changes
      BY <2>4 DEF SettingsInv
    <2>6. pc' = "filter" /\ line = <<>> /\ line' = <<>> /\ module' = module
      BY <1>16, <2>3, <2>4, <2>5 DEF SetExtendedEPC, Changes
    <2>7. module.protocol = call.protocol
      BY <1>16, <2>4 DEF SettingsInv, SetExtendedEPC
    <2> QED
      BY <1>16, <2>6, <2>7 DEF SettingsInv, SetExtendedEPC
  <1>17. ASSUME RestoreFilter PROVE SettingsInv'
    <2> DEFINE next == "timeout"
    <2>1. Acknowledged("SET_CONFIGURATION", Filtering(enableReadFiltering), next)
      BY <1>17 DEF RestoreFilter
    <2>2. module \in Modules /\ Filtering(enableReadFiltering) \in Modules
      BY ModuleTypes DEF TypeOK
    <2>3. /\ line' # <<>> => line'[1].op = "SET_CONFIGURATION"
          /\ \/ /\ pc' = next
                /\ line # <<>> => line[1].op = "SET_CONFIGURATION"
                /\ line = <<>> => line' = <<>> /\ module' = Filtering(enableReadFiltering)
             \/ /\ pc' = "idle" /\ status' \in (Statuses \cup Errors) \ {"SUCCESS"}
                /\ status' \notin Errors =>
                     /\ line # <<>> => line[1].op = "SET_CONFIGURATION"
                     /\ line = <<>> => line' = <<>> /\ module' = module
      BY <2>1, <2>2, AcknowledgedFacts
    <2> SUFFICES ASSUME ~unsettled' PROVE SettingsInv'
      BY DEF SettingsInv
    <2>4. ~unsettled
      BY <1>17 DEF RestoreFilter
    <2>5. line # <<>> => line[1].op \notin Changes
      BY <2>4 DEF SettingsInv
    <2>6. /\ pc' = "timeout" /\ line = <<>> /\ line' = <<>>
          /\ module' = Filtering(enableReadFiltering)
      BY <1>17, <2>3, <2>4, <2>5 DEF RestoreFilter, Changes
    <2>7. module.protocol = call.protocol /\ currentProtocol = call.protocol
      BY <1>17, <2>4 DEF SettingsInv, RestoreFilter
    <2>8. /\ Filtering(enableReadFiltering).protocol = module.protocol
          /\ Filtering(enableReadFiltering).filter = enableReadFiltering
      BY <2>2 DEF Filtering, Modules
    <2> QED
      BY <1>17, <2>6, <2>7, <2>8 DEF SettingsInv, InStep, RestoreFilter
  <1>18. ASSUME RestoreFilterTimeout PROVE SettingsInv'
    <2> DEFINE next == Prepared
    <2>1. Acknowledged("SET_CONFIGURATION", module, next)
      BY <1>18 DEF RestoreFilterTimeout
    <2>2. module \in Modules /\ module \in Modules
      BY ModuleTypes DEF TypeOK
    <2>3. /\ line' # <<>> => line'[1].op = "SET_CONFIGURATION"
          /\ \/ /\ pc' = next
                /\ line # <<>> => line[1].op = "SET_CONFIGURATION"
                /\ line = <<>> => line' = <<>> /\ module' = module
             \/ /\ pc' = "idle" /\ status' \in (Statuses \cup Errors) \ {"SUCCESS"}
                /\ status' \notin Errors =>
                     /\ line # <<>> => line[1].op = "SET_CONFIGURATION"
                     /\ line = <<>> => line' = <<>> /\ module' = module
      BY <2>1, <2>2, AcknowledgedFacts
    <2> SUFFICES ASSUME ~unsettled' PROVE SettingsInv'
      BY DEF SettingsInv
    <2>4. ~unsettled
      BY <1>18 DEF RestoreFilterTimeout
    <2>5. line # <<>> => line[1].op \notin Changes
      BY <2>4 DEF SettingsInv
    <2>6. line = <<>>
      BY <1>18, <2>3, <2>4, <2>5 DEF RestoreFilterTimeout, Changes
    <2>7. InStep /\ pc' \notin {"extended", "filter"}
      BY <1>18, <2>3, <2>4 DEF SettingsInv, RestoreFilterTimeout, Prepared
    <2>8. module' = module /\ line' = <<>>
      BY <1>18, <2>3, <2>6 DEF RestoreFilterTimeout
    <2> QED
      BY <1>18, <2>7, <2>8 DEF SettingsInv, InStep, RestoreFilterTimeout
  <1>19. ASSUME NEW value \in BOOLEAN, SetReadFilter(value) PROVE SettingsInv'
    <2>1. /\ pc' = "idle" /\ status' \in Statuses \cup Errors
          /\ status' \notin Errors /\ line # <<>> => line[1].op = "SET_CONFIGURATION"
          /\ status' \notin Errors /\ line = <<>> =>
               /\ line' = <<>>
               /\ status' = "SUCCESS" => module' = Filtering(value)
               /\ status' # "SUCCESS" => module' = module
      BY <1>19, FilterStep
    <2> SUFFICES ASSUME ~unsettled' PROVE SettingsInv'
      BY DEF SettingsInv
    <2>2. ~unsettled /\ status' \notin Errors /\ InStep
      BY <1>19 DEF SettingsInv, SetReadFilter
    <2>3. line = <<>> /\ line' = <<>>
      BY <2>1, <2>2 DEF SettingsInv, Changes
    <2>4. Filtering(value).protocol = module.protocol /\ Filtering(value).filter = value
      BY DEF TypeOK, Filtering, Modules
    <2>5. CASE status' = "SUCCESS"
      BY <1>19, <2>1, <2>2, <2>3, <2>4, <2>5 DEF SettingsInv, InStep,
         SetReadFilter
    <2>6. CASE status' # "SUCCESS"
      BY <1>19, <2>1, <2>2, <2>3, <2>6 DEF SettingsInv, InStep, SetReadFilter
    <2> QED
      BY <2>5, <2>6
  <1> QED
    BY <1>1, <1>2, <1>3, <1>4, <1>5, <1>6, <1>7, <1>8, <1>9, <1>10, <1>11,
       <1>12, <1>13, <1>14, <1>15, <1>16, <1>17, <1>18, <1>19 DEF Next

(* As long as no change of a setting has met an accident, the protocol and *)
(* the filter of the module are the ones setProtocol has cached.           *)
THEOREM SettingsCorrect == Spec => []SettingsInStep
  <1>1. Init => SettingsInv
    BY DEF Init, SettingsInv, InStep
  <1>2. TypeOK /\ SettingsInv /\ [Next]_vars => SettingsInv'
    <2>1. SettingsInv /\ UNCHANGED vars => SettingsInv'
      BY DEF vars, settingVars, SettingsInv, InStep
    <2> QED
      BY <2>1, SettingsStep
  <1>3. SettingsInv => SettingsInStep
    BY DEF SettingsInv, InStep, SettingsInStep
  <1> QED
    BY <1>1, <1>2, <1>3, TypeCorrect, PTL DEF Spec

--------------------------------------------------------------------------------
(* A sequence that begins what is fresh is fresh.                         *)
LEMMA FreshPrefix ==
  ASSUME NEW s \in Seq(TagReads), NEW t \in Seq(TagReads), Fresh(s \o t)
  PROVE  Fresh(s)
  <1>1. Len(s) \in Nat /\ Len(t) \in Nat /\ DOMAIN s = 1..Len(s)
    BY LenProperties
  <1>2. s \o t \in Seq(TagReads) /\ Len(s \o t) = Len(s) + Len(t)
        /\ \A i \in 1..Len(s) + Len(t) :
             (s \o t)[i] = IF i <= Len(s) THEN s[i] ELSE t[i - Len(s)]
    BY ConcatProperties
  <1>3. DOMAIN (s \o t) = 1..Len(s) + Len(t)
    BY <1>2, LenProperties
  <1>4. ASSUME NEW i \in DOMAIN s PROVE s[i].read = read
    <2>1. i \in 1..Len(s) + Len(t) /\ i <= Len(s)
      BY <1>1, <1>4
    <2>2. (s \o t)[i] = s[i]
      BY <1>2, <2>1
    <2>3. (s \o t)[i].read = read
      BY <1>3, <2>1 DEF Fresh
    <2> QED
      BY <2>2, <2>3
  <1> QED
    BY <1>4 DEF Fresh

(* And so are two fresh sequences together.                                *)
LEMMA FreshConcat ==
  ASSUME NEW s \in Seq(TagReads), NEW t \in Seq(TagReads), Fresh(s), Fresh(t)
  PROVE  Fresh(s \o t)
  <1>1. Len(s) \in Nat /\ Len(t) \in Nat /\ DOMAIN s = 1..Len(s) /\ DOMAIN t = 1..Len(t)
    BY LenProperties
  <1>2. s \o t \in Seq(TagReads) /\ Len(s \o t) = Len(s) + Len(t)
        /\ \A i \in 1..Len(s) + Len(t) :
             (s \o t)[i] = IF i <= Len(s) THEN s[i] ELSE t[i - Len(s)]
    BY ConcatProperties
  <1>3. DOMAIN (s \o t) = 1..Len(s) + Len(t)
    BY <1>2, LenProperties
  <1>4. ASSUME NEW i \in 1..Len(s) + Len(t) PROVE (s \o t)[i].read = read
    <2>1. CASE i <= Len(s)
      <3>1. (s \o t)[i] = s[i] /\ i \in DOMAIN s
        BY <1>1, <1>2, <1>4, <2>1
      <3> QED
        BY <3>1 DEF Fresh
    <2>2. CASE ~(i <= Len(s))
      <3>1. (s \o t)[i] = t[i - Len(s)]
        BY <1>2, <1>4, <2>2
      <3>2. i - Len(s) \in DOMAIN t
        BY <1>1, <1>4, <2>2
      <3> QED
        BY <3>1, <3>2 DEF Fresh
    <2> QED
      BY <2>1, <2>2
  <1> QED
    BY <1>3, <1>4 DEF Fresh

(* Steps outside the fetching of tags leave the packet and the results.    *)
LEMMA PacketKept ==
  ASSUME PacketInv, pc # "fetch", tagsRemainingInBuffer' = tagsRemainingInBuffer,
         bufResponse' = bufResponse, results' = results, stranded' = stranded,
         call' = call, pc # "idle"
  PROVE  PacketInv'
  BY DEF PacketInv

(* FreshTags speaks of the results, of the read and of the call alone.     *)
LEMMA FreshKept ==
  ASSUME FreshTags, results' = results, stranded' = stranded, read' = read,
         call' = call
  PROVE  FreshTags'
  BY DEF FreshTags, LastReadTags

(* What one more parsed tag does to the results.                          *)
LEMMA ParsedTag ==
  ASSUME NEW a \in Seq(TagReads), NEW b \in Seq(TagReads), NEW c \in Seq(TagReads),
         b # <<>>, Fresh(a \o (b \o c))
  PROVE  /\ Append(a, Head(b)) \o (Tail(b) \o c) = a \o (b \o c)
         /\ Fresh(Append(a, Head(b)))
         /\ Len(b) + Len(c) - 1 = Len(Tail(b)) + Len(c)
  <1>1. Head(b) \in TagReads /\ Tail(b) \in Seq(TagReads) /\ Len(Tail(b)) = Len(b) - 1
    BY HeadTailProperties
  <1>2. Len(b) \in Nat /\ Len(c) \in Nat
    BY LenProperties
  <1>3. Append(a, Head(b)) \o (Tail(b) \o c) = a \o (b \o c)
    BY SMTT(30), TakeOne
  <1> DEFINE r == Append(a, Head(b))
             d == Tail(b) \o c
  <1>4. r \in Seq(TagReads) /\ d \in Seq(TagReads)
    BY <1>1, Appended, ConcatProperties
  <1>5. Fresh(r \o d)
    BY <1>3
  <1> HIDE DEF r, d
  <1>6. Fresh(r)
    BY <1>4, <1>5, FreshPrefix
  <1>7. Len(b) + Len(c) - 1 = Len(Tail(b)) + Len(c)
    BY <1>1, <1>2
  <1> QED
    BY <1>3, <1>6, <1>7 DEF r

(* ReadInv is inductive.                                                   *)
LEMMA ReadStep ==
  ASSUME TypeOK, ReadInv, Next
  PROVE  ReadInv'
  <1> USE DEF ReadInv, hostVars, settingVars, historyVars
  <1>1. ASSUME NEW plan \in Plans, Read(plan) PROVE ReadInv'
    <2>1. plan.kind = "read"
      BY DEF Plans
    <2>2. CallInv'
      BY <1>1, <2>1 DEF Read, CallInv, Preparing
    <2>3. ClearedInv'
      BY <1>1, <2>1 DEF Read, ClearedInv, Quiet, EmptyModule, Setting
    <2>4. SearchInv'
      BY <1>1, <2>1 DEF Read, SearchInv
    <2>5. FetchInv'
      BY <1>1, <2>1 DEF Read, FetchInv
    <2>6. PacketInv'
      BY <1>1, <2>1 DEF Read, PacketInv
    <2>7. FreshTags'
      BY <1>1, <2>1 DEF Read, FreshTags, LastReadTags
    <2>8. ReadComplete'
      BY <1>1, <2>1 DEF Read, ReadComplete
    <2> QED
      BY <2>2, <2>3, <2>4, <2>5, <2>6, <2>7, <2>8
  <1>2. ASSUME ResetStats PROVE ReadInv'
    <2>1. /\ module' = module
          /\ line' # <<>> => line'[1].op = "RESET_STATS"
          /\ \/ pc' = "clear" /\ status' = status
             \/ pc' = "idle" /\ status' \in (Statuses \cup Errors) \ {"SUCCESS"}
      BY <1>2, ResetStatsFacts
    <2>2. CallInv'
      BY <1>2, <2>1 DEF ResetStats, CallInv, Preparing, Setting
    <2>3. ClearedInv'
      BY <1>2, <2>1 DEF ResetStats, ClearedInv, EmptyModule, Quiet, Setting
    <2>4. SearchInv'
      BY <1>2, <2>1 DEF ResetStats, SearchInv
    <2>5. FetchInv'
      BY <1>2, <2>1 DEF ResetStats, FetchInv
    <2>6. PacketInv'
      BY <1>2, <2>1, PacketKept DEF ResetStats
    <2>7. FreshTags'
      BY <1>2, <2>1, FreshKept DEF ResetStats
    <2>8. ReadComplete'
      BY <1>2, <2>1 DEF ResetStats, ReadComplete, CallInv
    <2> QED
      BY <2>2, <2>3, <2>4, <2>5, <2>6, <2>7, <2>8
  <1>3. ASSUME ClearTagBuffer PROVE ReadInv'
    <2> DEFINE next == AfterClear
    <2>1. Acknowledged("CLEAR_TAG_ID_BUFFER", Cleared, next)
      BY <1>3, ClearFacts
    <2>2. Cleared \in Modules /\ module \in Modules
      BY ModuleTypes DEF TypeOK
    <2>3. /\ module' \in {module, Cleared}
          /\ line' # <<>> =>
               /\ line'[1].op = "CLEAR_TAG_ID_BUFFER"
               /\ line'[1].status = "SUCCESS" => module' = Cleared
          /\ \/ /\ pc' = next /\ status' = status
                /\ line # <<>> =>
                     /\ line[1].op = "CLEAR_TAG_ID_BUFFER"
                     /\ line[1].status = "SUCCESS"
                /\ line = <<>> => line' = <<>> /\ module' = Cleared
             \/ pc' = "idle" /\ status' \in (Statuses \cup Errors) \ {"SUCCESS"}
      BY <2>1, <2>2, AcknowledgedFacts
    <2>4. Cleared.buffer = <<>> /\ Cleared.seen = <<>>
      BY <2>2 DEF Cleared, Modules
    <2>5. /\ pc' = "idle" => tagsRemaining' = tagsRemaining
          /\ pc' # "idle" => tagsRemaining' = 0
      BY <1>3, ClearFacts
    <2>6. pc' \in {"idle", "detect", "antennas"}
      BY <2>3 DEF AfterClear
    <2>7. pc' # "idle" => EmptyModule'
      BY <2>3, <2>4, <2>6 DEF ClearedInv, EmptyModule
    <2>8. line' # <<>> =>
            line'[1].op = "CLEAR_TAG_ID_BUFFER" /\ (line'[1].status = "SUCCESS" => EmptyModule')
      BY <2>3, <2>4 DEF EmptyModule
    <2>9. status' = status \/ (pc' = "idle" /\ status' # "SUCCESS")
      BY <2>3
    <2>10. CallInv'
      BY <1>3, <2>5, <2>6, <2>7, <2>8, <2>9 DEF ClearTagBuffer, CallInv,
         Preparing, Setting
    <2>11. ClearedInv'
      BY <1>3, <2>5, <2>6, <2>7, <2>8 DEF ClearTagBuffer, ClearedInv, Quiet,
         Setting
    <2>12. SearchInv'
      BY <1>3, <2>5, <2>6, <2>7, <2>8, <2>9 DEF ClearTagBuffer, SearchInv
    <2>13. FetchInv'
      BY <1>3, <2>5, <2>6, <2>7, <2>8, <2>9 DEF ClearTagBuffer, FetchInv
    <2>14. PacketInv'
      BY <1>3, <2>5, <2>6, <2>7, <2>8, <2>9, PacketKept DEF ClearTagBuffer
    <2>15. FreshTags'
      BY <1>3, <2>5, <2>6, <2>7, <2>8, <2>9, FreshKept DEF ClearTagBuffer
    <2>16. ReadComplete'
      BY <1>3, <2>5, <2>6, <2>7, <2>8, <2>9 DEF ClearTagBuffer, ReadComplete,
         CallInv
    <2> QED
      BY <2>10, <2>11, <2>12, <2>13, <2>14, <2>15, <2>16
  <1>4. ASSUME DetectAntennas PROVE ReadInv'
    <2> DEFINE next == "antennas"
    <2>1. Acknowledged("ANTENNA_DETECT", module, next)
      BY <1>4 DEF DetectAntennas
    <2>2. module \in Modules /\ module \in Modules
      BY ModuleTypes DEF TypeOK
    <2>3. /\ module' \in {module, module}
          /\ line' # <<>> =>
               /\ line'[1].op = "ANTENNA_DETECT"
               /\ line'[1].status = "SUCCESS" => module' = module
          /\ \/ /\ pc' = next /\ status' = status
                /\ line # <<>> => line[1].op = "ANTENNA_DETECT" /\ line[1].status = "SUCCESS"
                /\ line = <<>> => line' = <<>> /\ module' = module
             \/ pc' = "idle" /\ status' \in (Statuses \cup Errors) \ {"SUCCESS"}
      BY <2>1, <2>2, AcknowledgedFacts
    <2>4. pc' \in {"idle", "antennas"} /\ module' = module
          /\ (status' = status \/ (pc' = "idle" /\ status' # "SUCCESS"))
      BY <2>3
    <2>5. line' # <<>> => line'[1].op # "CLEAR_TAG_ID_BUFFER"
      BY <2>3
    <2>6. pc' # "idle" => line' = <<>> /\ EmptyModule /\ tagsRemaining = 0
      BY <1>4, <2>3 DEF DetectAntennas, ClearedInv, Quiet
    <2>7. CallInv'
      BY <1>4, <2>4, <2>5, <2>6 DEF DetectAntennas, CallInv, Preparing, Setting
    <2>8. ClearedInv'
      BY <1>4, <2>4, <2>5, <2>6 DEF DetectAntennas, ClearedInv, EmptyModule,
         Quiet, Setting
    <2>9. SearchInv'
      BY <1>4, <2>4, <2>5, <2>6 DEF DetectAntennas, SearchInv, EmptyModule, Fresh
    <2>10. FetchInv'
      BY <1>4, <2>4, <2>5, <2>6 DEF DetectAntennas, FetchInv
    <2>11. PacketInv'
      BY <1>4, <2>4, <2>5, <2>6, PacketKept DEF DetectAntennas
    <2>12. FreshTags'
      BY <1>4, <2>4, <2>5, <2>6, FreshKept DEF DetectAntennas
    <2>13. ReadComplete'
      BY <1>4, <2>4, <2>5, <2>6 DEF DetectAntennas, ReadComplete, CallInv
    <2> QED
      BY <2>7, <2>8, <2>9, <2>10, <2>11, <2>12, <2>13
  <1>5. ASSUME SetAntennas PROVE ReadInv'
    <2> DEFINE next == IF currentProtocol = call.protocol THEN "search" ELSE "protocol"
    <2>1. Acknowledged("SET_ANTENNAS", module, next)
      BY <1>5 DEF SetAntennas
    <2>2. module \in Modules /\ module \in Modules
      BY ModuleTypes DEF TypeOK
    <2>3. /\ module' \in {module, module}
          /\ line' # <<>> =>
               /\ line'[1].op = "SET_ANTENNAS"
               /\ line'[1].status = "SUCCESS" => module' = module
          /\ \/ /\ pc' = next /\ status' = status
                /\ line # <<>> => line[1].op = "SET_ANTENNAS" /\ line[1].status = "SUCCESS"
                /\ line = <<>> => line' = <<>> /\ module' = module
             \/ pc' = "idle" /\ status' \in (Statuses \cup Errors) \ {"SUCCESS"}
      BY <2>1, <2>2, AcknowledgedFacts
    <2>4. pc' \in {"idle", "search", "protocol"} /\ module' = module
          /\ (status' = status \/ (pc' = "idle" /\ status' # "SUCCESS"))
      BY <2>3
    <2>5. line' # <<>> => line'[1].op # "CLEAR_TAG_ID_BUFFER"
      BY <2>3
    <2>6. pc' # "idle" => line' = <<>> /\ EmptyModule /\ tagsRemaining = 0
      BY <1>5, <2>3 DEF SetAntennas, ClearedInv, Quiet
    <2>7. CallInv'
      BY <1>5, <2>4, <2>5, <2>6 DEF SetAntennas, CallInv, Preparing, Setting
    <2>8. ClearedInv'
      BY <1>5, <2>4, <2>5, <2>6 DEF SetAntennas, ClearedInv, EmptyModule, Quiet,
         Setting
    <2>9. SearchInv'
      BY <1>5, <2>4, <2>5, <2>6 DEF SetAntennas, SearchInv, EmptyModule, Fresh
    <2>10. FetchInv'
      BY <1>5, <2>4, <2>5, <2>6 DEF SetAntennas, FetchInv
    <2>11. PacketInv'
      BY <1>5, <2>4, <2>5, <2>6, PacketKept DEF SetAntennas
    <2>12. FreshTags'
      BY <1>5, <2>4, <2>5, <2>6, FreshKept DEF SetAntennas
    <2>13. ReadComplete'
      BY <1>5, <2>4, <2>5, <2>6 DEF SetAntennas, ReadComplete, CallInv
    <2> QED
      BY <2>7, <2>8, <2>9, <2>10, <2>11, <2>12, <2>13
  <1>6. ASSUME SetProtocol PROVE ReadInv'
    <2> DEFINE next == IF boot.m6e THEN "filter" ELSE "extended"
    <2>1. Acknowledged("SET_PROTOCOL", Switched, next)
      BY <1>6 DEF SetProtocol
    <2>2. Switched \in Modules /\ module \in Modules
      BY ModuleTypes DEF TypeOK
    <2>3. /\ module' \in {module, Switched}
          /\ line' # <<>> =>
               /\ line'[1].op = "SET_PROTOCOL"
               /\ line'[1].status = "SUCCESS" => module' = Switched
          /\ \/ /\ pc' = next /\ status' = status
                /\ line # <<>> => line[1].op = "SET_PROTOCOL" /\ line[1].status = "SUCCESS"
                /\ line = <<>> => line' = <<>> /\ module' = Switched
             \/ pc' = "idle" /\ status' \in (Statuses \cup Errors) \ {"SUCCESS"}
      BY <2>1, <2>2, AcknowledgedFacts
    <2>4. /\ Switched.buffer = module.buffer /\ Switched.seen = module.seen
      BY <2>2 DEF Switched, Filtering, Modules
    <2>5. /\ pc' \in {"idle", "extended", "filter"}
          /\ module'.buffer = module.buffer /\ module'.seen = module.seen
          /\ (status' = status \/ (pc' = "idle" /\ status' # "SUCCESS"))
          /\ pc' = "search" => call.kind = "read"
          /\ pc' = "tagop" => call.kind # "read"
      BY <2>3, <2>4 DEF Prepared
    <2>6. line' # <<>> => line'[1].op # "CLEAR_TAG_ID_BUFFER"
      BY <2>3
    <2>7. pc' # "idle" /\ call.kind = "read" => line' = <<>> /\ EmptyModule /\ tagsRemaining = 0
      BY <1>6, <2>3 DEF SetProtocol, ClearedInv, Setting
    <2>8. CallInv'
      BY <1>6, <2>5, <2>6, <2>7 DEF SetProtocol, CallInv, Preparing, Setting
    <2>9. ClearedInv'
      BY <1>6, <2>5, <2>6, <2>7 DEF SetProtocol, ClearedInv, EmptyModule, Quiet,
         Setting
    <2>10. SearchInv'
      BY <1>6, <2>5, <2>6, <2>7 DEF SetProtocol, SearchInv, EmptyModule, Fresh
    <2>11. FetchInv'
      BY <1>6, <2>5, <2>6, <2>7 DEF SetProtocol, FetchInv
    <2>12. PacketInv'
      BY <1>6, <2>5, <2>6, <2>7, PacketKept DEF SetProtocol
    <2>13. FreshTags'
      BY <1>6, <2>5, <2>6, <2>7, FreshKept DEF SetProtocol
    <2>14. ReadComplete'
      BY <1>6, <2>5, <2>6, <2>7 DEF SetProtocol, ReadComplete, CallInv
    <2> QED
      BY <2>8, <2>9, <2>10, <2>11, <2>12, <2>13, <2>14
  <1>7. ASSUME SetExtendedEPC PROVE ReadInv'
    <2> DEFINE next == "filter"
    <2>1. Acknowledged("SET_CONFIGURATION", module, next)
      BY <1>7 DEF SetExtendedEPC
    <2>2. module \in Modules /\ module \in Modules
      BY ModuleTypes DEF TypeOK
    <2>3. /\ module' \in {module, module}
          /\ line' # <<>> =>
               /\ line'[1].op = "SET_CONFIGURATION"
               /\ line'[1].status = "SUCCESS" => module' = module
          /\ \/ /\ pc' = next /\ status' = status
                /\ line # <<>> => line[1].op = "SET_CONFIGURATION" /\ line[1].status = "SUCCESS"
                /\ line = <<>> => line' = <<>> /\ module' = module
             \/ pc' = "idle" /\ status' \in (Statuses \cup Errors) \ {"SUCCESS"}
      BY <2>1, <2>2, AcknowledgedFacts
    <2>4. /\ module.buffer = module.buffer /\ module.seen = module.seen
      BY <2>2 DEF Switched, Filtering, Modules
    <2>5. /\ pc' \in {"idle", "filter"}
          /\ module'.buffer = module.buffer /\ module'.seen = module.seen
          /\ (status' = status \/ (pc' = "idle" /\ status' # "SUCCESS"))
          /\ pc' = "search" => call.kind = "read"
          /\ pc' = "tagop" => call.kind # "read"
      BY <2>3, <2>4 DEF Prepared
    <2>6. line' # <<>> => line'[1].op # "CLEAR_TAG_ID_BUFFER"
      BY <2>3
    <2>7. pc' # "idle" /\ call.kind = "read" => line' = <<>> /\ EmptyModule /\ tagsRemaining = 0
      BY <1>7, <2>3 DEF SetExtendedEPC, ClearedInv, Setting
    <2>8. CallInv'
      BY <1>7, <2>5, <2>6, <2>7 DEF SetExtendedEPC, CallInv, Preparing, Setting
    <2>9. ClearedInv'
      BY <1>7, <2>5, <2>6, <2>7 DEF SetExtendedEPC, ClearedInv, EmptyModule,
         Quiet, Setting
    <2>10. SearchInv'
      BY <1>7, <2>5, <2>6, <2>7 DEF SetExtendedEPC, SearchInv, EmptyModule, Fresh
    <2>11. FetchInv'
      BY <1>7, <2>5, <2>6, <2>7 DEF SetExtendedEPC, FetchInv
    <2>12. PacketInv'
      BY <1>7, <2>5, <2>6, <2>7, PacketKept DEF SetExtendedEPC
    <2>13. FreshTags'
      BY <1>7, <2>5, <2>6, <2>7, FreshKept DEF SetExtendedEPC
    <2>14. ReadComplete'
      BY <1>7, <2>5, <2>6, <2>7 DEF SetExtendedEPC, ReadComplete, CallInv
    <2> QED
      BY <2>8, <2>9, <2>10, <2>11, <2>12, <2>13, <2>14
  <1>8. ASSUME RestoreFilter PROVE ReadInv'
    <2> DEFINE next == "timeout"
    <2>1. Acknowledged("SET_CONFIGURATION", Filtering(enableReadFiltering), next)
      BY <1>8 DEF RestoreFilter
    <2>2. Filtering(enableReadFiltering) \in Modules /\ module \in Modules
      BY ModuleTypes DEF TypeOK
    <2>3. /\ module' \in {module, Filtering(enableReadFiltering)}
          /\ line' # <<>> =>
               /\ line'[1].op = "SET_CONFIGURATION"
               /\ line'[1].status = "SUCCESS" => module' = Filtering(enableReadFiltering)
          /\ \/ /\ pc' = next /\ status' = status
                /\ line # <<>> => line[1].op = "SET_CONFIGURATION" /\ line[1].status = "SUCCESS"
                /\ line = <<>> => line' = <<>> /\ module' = Filtering(enableReadFiltering)
             \/ pc' = "idle" /\ status' \in (Statuses \cup Errors) \ {"SUCCESS"}
      BY <2>1, <2>2, AcknowledgedFacts
    <2>4. /\ Filtering(enableReadFiltering).buffer = module.buffer
          /\ Filtering(enableReadFiltering).seen = module.seen
      BY <2>2 DEF Switched, Filtering, Modules
    <2>5. /\ pc' \in {"idle", "timeout"}
          /\ module'.buffer = module.buffer /\ module'.seen = module.seen
          /\ (status' = status \/ (pc' = "idle" /\ status' # "SUCCESS"))
          /\ pc' = "search" => call.kind = "read"
          /\ pc' = "tagop" => call.kind # "read"
      BY <2>3, <2>4 DEF Prepared
    <2>6. line' # <<>> => line'[1].op # "CLEAR_TAG_ID_BUFFER"
      BY <2>3
    <2>7. pc' # "idle" /\ call.kind = "read" => line' = <<>> /\ EmptyModule /\ tagsRemaining = 0
      BY <1>8, <2>3 DEF RestoreFilter, ClearedInv, Setting
    <2>8. CallInv'
      BY <1>8, <2>5, <2>6, <2>7 DEF RestoreFilter, CallInv, Preparing, Setting
    <2>9. ClearedInv'
      BY <1>8, <2>5, <2>6, <2>7 DEF RestoreFilter, ClearedInv, EmptyModule,
         Quiet, Setting
    <2>10. SearchInv'
      BY <1>8, <2>5, <2>6, <2>7 DEF RestoreFilter, SearchInv, EmptyModule, Fresh
    <2>11. FetchInv'
      BY <1>8, <2>5, <2>6, <2>7 DEF RestoreFilter, FetchInv
    <2>12. PacketInv'
      BY <1>8, <2>5, <2>6, <2>7, PacketKept DEF RestoreFilter
    <2>13. FreshTags'
      BY <1>8, <2>5, <2>6, <2>7, FreshKept DEF RestoreFilter
    <2>14. ReadComplete'
      BY <1>8, <2>5, <2>6, <2>7 DEF RestoreFilter, ReadComplete, CallInv
    <2> QED
      BY <2>8, <2>9, <2>10, <2>11, <2>12, <2>13, <2>14
  <1>9. ASSUME RestoreFilterTimeout PROVE ReadInv'
    <2> DEFINE next == Prepared
    <2>1. Acknowledged("SET_CONFIGURATION", module, next)
      BY <1>9 DEF RestoreFilterTimeout
    <2>2. module \in Modules /\ module \in Modules
      BY ModuleTypes DEF TypeOK
    <2>3. /\ module' \in {module, module}
          /\ line' # <<>> =>
               /\ line'[1].op = "SET_CONFIGURATION"
               /\ line'[1].status = "SUCCESS" => module' = module
          /\ \/ /\ pc' = next /\ status' = status
                /\ line # <<>> => line[1].op = "SET_CONFIGURATION" /\ line[1].status = "SUCCESS"
                /\ line = <<>> => line' = <<>> /\ module' = module
             \/ pc' = "idle" /\ status' \in (Statuses \cup Errors) \ {"SUCCESS"}
      BY <2>1, <2>2, AcknowledgedFacts
    <2>4. /\ module.buffer = module.buffer /\ module.seen = module.seen
      BY <2>2 DEF Switched, Filtering, Modules
    <2>5. /\ pc' \in {"idle", "search", "tagop"}
          /\ module'.buffer = module.buffer /\ module'.seen = module.seen
          /\ (status' = status \/ (pc' = "idle" /\ status' # "SUCCESS"))
          /\ pc' = "search" => call.kind = "read"
          /\ pc' = "tagop" => call.kind # "read"
      BY <2>3, <2>4 DEF Prepared
    <2>6. line' # <<>> => line'[1].op # "CLEAR_TAG_ID_BUFFER"
      BY <2>3
    <2>7. pc' # "idle" /\ call.kind = "read" => line' = <<>> /\ EmptyModule /\ tagsRemaining = 0
      BY <1>9, <2>3 DEF RestoreFilterTimeout, ClearedInv, Setting
    <2>8. CallInv'
      BY <1>9, <2>5, <2>6, <2>7 DEF RestoreFilterTimeout, CallInv, Preparing,
         Setting
    <2>9. ClearedInv'
      BY <1>9, <2>5, <2>6, <2>7 DEF RestoreFilterTimeout, ClearedInv,
         EmptyModule, Quiet, Setting
    <2>10. SearchInv'
      BY <1>9, <2>5, <2>6, <2>7 DEF RestoreFilterTimeout, SearchInv,
         EmptyModule, Fresh
    <2>11. FetchInv'
      BY <1>9, <2>5, <2>6, <2>7 DEF RestoreFilterTimeout, FetchInv
    <2>12. PacketInv'
      BY <1>9, <2>5, <2>6, <2>7, PacketKept DEF RestoreFilterTimeout
    <2>13. FreshTags'
      BY <1>9, <2>5, <2>6, <2>7, FreshKept DEF RestoreFilterTimeout
    <2>14. ReadComplete'
      BY <1>9, <2>5, <2>6, <2>7 DEF RestoreFilterTimeout, ReadComplete, CallInv
    <2> QED
      BY <2>8, <2>9, <2>10, <2>11, <2>12, <2>13, <2>14
  <1>10. ASSUME SearchTags PROVE ReadInv'
    <2>1. /\ line' # <<>> => line'[1].op # "CLEAR_TAG_ID_BUFFER"
          /\ \/ /\ pc' \in {"fetch", "search"} /\ status' = status
                /\ line = <<>> =>
                     /\ line' = <<>>
                     /\ \E f \in Seq(TagReads) :
                          /\ module'.buffer = module.buffer \o f
                          /\ module'.seen = module.seen \o f
                          /\ tagsRemaining' = tagsRemaining + Len(f) /\ Fresh(f)
             \/ /\ pc' \in {"idle", "count"}
                /\ status' \in (Statuses \cup Errors) \ {"SUCCESS"}
      BY <1>10, SearchStep
    <2>2. /\ line = <<>> /\ module.buffer = module.seen /\ Fresh(module.seen)
          /\ tagsRemaining = Len(module.buffer) /\ call.kind = "read" /\ results = <<>>
      BY <1>10 DEF SearchTags, SearchInv, CallInv, PacketInv
    <2>3. module.buffer \in Seq(TagReads) /\ module'.buffer \in Seq(TagReads)
      BY <1>10, SearchStep DEF TypeOK, Modules
    <2>4. ASSUME pc' \in {"fetch", "search"}
          PROVE  /\ line' = <<>> /\ module'.buffer = module'.seen
                 /\ Fresh(module'.seen) /\ tagsRemaining' = Len(module'.buffer)
      <3>1. PICK f \in Seq(TagReads) :
              /\ module'.buffer = module.buffer \o f /\ module'.seen = module.seen \o f
              /\ tagsRemaining' = tagsRemaining + Len(f) /\ Fresh(f)
        BY <2>1, <2>2, <2>4
      <3>2. module'.buffer = module'.seen /\ line' = <<>>
        BY <2>1, <2>2, <2>4, <3>1
      <3>3. Fresh(module.seen \o f)
        BY <2>2, <2>3, <3>1, FreshConcat
      <3>4. Len(module.buffer \o f) = Len(module.buffer) + Len(f)
        BY <2>3, ConcatProperties
      <3> QED
        BY <2>2, <3>1, <3>2, <3>3, <3>4
    <2>5. Fresh(module'.seen) /\ read' = read => Fresh(module.seen)'
      BY DEF Fresh
    <2>6. pc' \in {"fetch", "search", "idle", "count"} /\ read' = read /\ call' = call
      BY <1>10, <2>1 DEF SearchTags
    <2>7. <<>> \o (<<>> \o module'.buffer) = module'.buffer
      BY <2>3, ConcatEmptySeq
    <2>8. CallInv'
      BY <1>10, <2>1, <2>2, <2>4, <2>5, <2>6 DEF SearchTags, CallInv, Preparing,
         Setting
    <2>9. ClearedInv'
      BY <1>10, <2>1, <2>2, <2>4, <2>5, <2>6 DEF SearchTags, ClearedInv,
         EmptyModule, Quiet, Setting
    <2>10. SearchInv'
      BY <1>10, <2>1, <2>2, <2>4, <2>5, <2>6 DEF SearchTags, SearchInv
    <2>11. FetchInv'
      <3>1. CASE pc' = "fetch" /\ ~stranded'
        <4>1. bufResponse' = <<>> /\ results' = <<>> /\ Len(bufResponse') = 0
          BY <1>10, <2>2, <3>1 DEF SearchTags, PacketInv
        <4>2. /\ line' = <<>> /\ module'.buffer = module'.seen
              /\ Fresh(module.seen)' /\ tagsRemaining' = Len(module'.buffer)
          BY <2>4, <2>5, <2>6, <3>1
        <4>3. Len(module'.buffer) \in Nat
          BY <2>3
        <4>4. tagsRemaining' = Len(bufResponse') + Len(module'.buffer)
          BY <4>1, <4>2, <4>3
        <4>5. results' \o (bufResponse' \o module'.buffer) = module'.seen
          BY <2>7, <4>1, <4>2
        <4> QED
          BY <4>2, <4>4, <4>5 DEF FetchInv
      <3>2. CASE pc' # "fetch" \/ stranded'
        BY <2>4, <3>2 DEF FetchInv
      <3> QED
        BY <3>1, <3>2
    <2>12. PacketInv'
      BY <1>10, <2>1, <2>2, <2>4, <2>5, <2>6, PacketKept DEF SearchTags
    <2>13. FreshTags'
      BY <1>10, <2>1, <2>2, <2>4, <2>5, <2>6, FreshKept DEF SearchTags
    <2>14. ReadComplete'
      BY <1>10, <2>1, <2>2, <2>4, <2>5, <2>6 DEF SearchTags, ReadComplete, CallInv
    <2> QED
      BY <2>8, <2>9, <2>10, <2>11, <2>12, <2>13, <2>14
  <1>11. ASSUME TimeUp PROVE ReadInv'
    <2>1. /\ line = <<>> /\ module.buffer = module.seen /\ Fresh(module.seen)
          /\ tagsRemaining = Len(module.buffer) /\ call.kind = "read" /\ results = <<>>
      BY <1>11 DEF TimeUp, SearchInv, CallInv, PacketInv
    <2>2. module.buffer \in Seq(TagReads)
      BY DEF TypeOK, Modules
    <2>3. <<>> \o (<<>> \o module.buffer) = module.buffer
      BY <2>2, ConcatEmptySeq
    <2>4. ~stranded => results \o (bufResponse \o module.buffer) = module.seen
      BY <1>11, <2>1, <2>3 DEF TimeUp, PacketInv
    <2>5. ~stranded => tagsRemaining = Len(bufResponse) + Len(module.buffer)
      <3>1. Len(module.buffer) \in Nat /\ Len(<<>>) = 0
        BY <2>2
      <3> QED
        BY <1>11, <2>1, <3>1 DEF TimeUp, PacketInv
    <2>6. CallInv'
      BY <1>11, <2>1, <2>4, <2>5 DEF TimeUp, CallInv, Preparing, Setting
    <2>7. ClearedInv'
      BY <1>11, <2>1, <2>4, <2>5 DEF TimeUp, ClearedInv, EmptyModule, Quiet,
         Setting
    <2>8. SearchInv'
      BY <1>11, <2>1, <2>4, <2>5 DEF TimeUp, SearchInv
    <2>9. FetchInv'
      BY <1>11, <2>1, <2>4, <2>5 DEF TimeUp, FetchInv, Fresh
    <2>10. PacketInv'
      BY <1>11, <2>1, <2>4, <2>5, PacketKept DEF TimeUp
    <2>11. FreshTags'
      BY <1>11, <2>1, <2>4, <2>5, FreshKept DEF TimeUp
    <2>12. ReadComplete'
      BY <1>11, <2>1, <2>4, <2>5 DEF TimeUp, ReadComplete, CallInv
    <2> QED
      BY <2>6, <2>7, <2>8, <2>9, <2>10, <2>11, <2>12
  <1>12. ASSUME GetTagsRemaining PROVE ReadInv'
    <2>1. /\ line' # <<>> => line'[1].op # "CLEAR_TAG_ID_BUFFER"
          /\ pc' = "idle"
          /\ status' \in ((Statuses \cup Errors) \ {"SUCCESS"}) \cup {status}
      BY <1>12, CountStep
    <2>2. status' # "SUCCESS"
      BY <1>12, <2>1 DEF GetTagsRemaining, CallInv
    <2>3. CallInv'
      BY <1>12, <2>1, <2>2 DEF GetTagsRemaining, CallInv, Preparing, Setting
    <2>4. ClearedInv'
      BY <1>12, <2>1, <2>2 DEF GetTagsRemaining, ClearedInv, EmptyModule, Quiet,
         Setting
    <2>5. SearchInv'
      BY <1>12, <2>1, <2>2 DEF GetTagsRemaining, SearchInv
    <2>6. FetchInv'
      BY <1>12, <2>1, <2>2 DEF GetTagsRemaining, FetchInv
    <2>7. PacketInv'
      BY <1>12, <2>1, <2>2, PacketKept DEF GetTagsRemaining
    <2>8. FreshTags'
      BY <1>12, <2>1, <2>2, FreshKept DEF GetTagsRemaining
    <2>9. ReadComplete'
      BY <1>12, <2>1, <2>2 DEF GetTagsRemaining, ReadComplete, CallInv
    <2> QED
      BY <2>3, <2>4, <2>5, <2>6, <2>7, <2>8, <2>9
  <1>13. ASSUME GetNextTag PROVE ReadInv'
    <2>1. /\ bufResponse \in Seq(TagReads) /\ results \in Seq(TagReads)
          /\ module.buffer \in Seq(TagReads) /\ tagsRemaining \in Nat
          /\ tagsRemainingInBuffer \in 0..255
      BY DEF TypeOK, Modules, Byte
    <2>2. tagsRemainingInBuffer # 0
      BY <1>13 DEF GetNextTag
    <2>3. tagsRemainingInBuffer \in 1..255
      BY <2>1, <2>2
    <2>4. /\ tagsRemainingInBuffer \in 1..255 /\ tagsRemainingInBuffer = Len(bufResponse)
          /\ tagsRemaining > 0 /\ Parse(tagsRemainingInBuffer, bufResponse)
          /\ line = <<>> /\ call.kind = "read" /\ status = "none"
      BY <1>13, <2>3 DEF GetNextTag, FetchInv, PacketInv, CallInv
    <2>5. /\ tagsRemaining' = tagsRemaining - 1 /\ bufResponse # <<>>
          /\ tagsRemainingInBuffer' = Len(bufResponse')
          /\ results' = Append(results, Head(bufResponse)) /\ bufResponse' = Tail(bufResponse)
      <3>1. tagsRemainingInBuffer \in Nat
        BY <2>1
      <3> QED
        BY <2>1, <2>4, <3>1, ParseFacts
    <2>6. ASSUME ~stranded
          PROVE  /\ results' \o (bufResponse' \o module.buffer) = module.seen
                 /\ Fresh(module.seen) /\ Fresh(results')
                 /\ tagsRemaining' = Len(bufResponse') + Len(module.buffer)
      <3>1. /\ results \o (bufResponse \o module.buffer) = module.seen
            /\ Fresh(module.seen)
            /\ tagsRemaining = Len(bufResponse) + Len(module.buffer)
        BY <1>13, <2>6 DEF GetNextTag, FetchInv
      <3>2. /\ Append(results, Head(bufResponse)) \o (Tail(bufResponse) \o module.buffer)
                  = module.seen
            /\ Fresh(Append(results, Head(bufResponse)))
            /\ Len(bufResponse) + Len(module.buffer) - 1
                  = Len(Tail(bufResponse)) + Len(module.buffer)
        <4>1. Fresh(results \o (bufResponse \o module.buffer))
          BY <3>1
        <4>2. /\ Append(results, Head(bufResponse)) \o (Tail(bufResponse) \o module.buffer)
                    = results \o (bufResponse \o module.buffer)
              /\ Fresh(Append(results, Head(bufResponse)))
              /\ Len(bufResponse) + Len(module.buffer) - 1
                  = Len(Tail(bufResponse)) + Len(module.buffer)
          BY <2>1, <2>5, <4>1, ParsedTag
        <4> QED
          BY <3>1, <4>2
      <3>3. results' \o (bufResponse' \o module.buffer) = module.seen
        BY <2>5, <3>2
      <3>4. Fresh(results')
        BY <2>5, <3>2
      <3>5. tagsRemaining' = Len(bufResponse') + Len(module.buffer)
        BY <2>5, <3>1, <3>2
      <3> QED
        BY <3>1, <3>3, <3>4, <3>5
    <2>7. CallInv'
      BY <1>13, <2>4, <2>5, <2>6 DEF GetNextTag, CallInv, Preparing
    <2>8. ClearedInv'
      BY <1>13, <2>4, <2>5, <2>6 DEF GetNextTag, ClearedInv, Quiet, Setting,
         EmptyModule
    <2>9. SearchInv'
      BY <1>13, <2>4, <2>5, <2>6 DEF GetNextTag, SearchInv
    <2>10. FetchInv'
      BY <1>13, <2>4, <2>5, <2>6 DEF GetNextTag, FetchInv, Fresh
    <2>11. PacketInv'
      BY <1>13, <2>4, <2>5, <2>6 DEF GetNextTag, PacketInv
    <2>12. FreshTags'
      BY <1>13, <2>4, <2>5, <2>6 DEF GetNextTag, FreshTags, LastReadTags, Fresh
    <2>13. ReadComplete'
      BY <1>13, <2>4, <2>5, <2>6 DEF GetNextTag, ReadComplete, CallInv
    <2> QED
      BY <2>7, <2>8, <2>9, <2>10, <2>11, <2>12, <2>13
  <1>14. ASSUME FetchTags PROVE ReadInv'
    <2>1. /\ bufResponse \in Seq(TagReads) /\ results \in Seq(TagReads)
          /\ module.buffer \in Seq(TagReads) /\ tagsRemaining \in Nat
      BY DEF TypeOK, Modules
    <2>2. /\ Len(bufResponse) = 0 /\ bufResponse = <<>> /\ tagsRemaining > 0
          /\ line = <<>> /\ call.kind = "read" /\ status = "none"
      BY <1>14, <2>1, EmptySeq DEF FetchTags, FetchInv, PacketInv, CallInv
    <2>3. /\ module'.buffer \in Seq(TagReads)
          /\ line' # <<>> => line'[1].op # "CLEAR_TAG_ID_BUFFER"
      BY <1>14, FetchStep DEF Modules
    <2>4. \/ /\ pc' = "idle" /\ status' \in (Statuses \cup Errors) \ {"SUCCESS"}
             /\ UNCHANGED hostVars
          \/ /\ pc' = "fetch" /\ status' = status
             /\ \E packet \in Seq(TagReads) :
                    /\ Parse(Len(packet), packet)
                    /\ line' = <<>> /\ Len(packet) \in 1..255
                    /\ module'.seen = module.seen
                    /\ packet \o module'.buffer = module.buffer
      BY <1>14, <2>2, FetchStep
    <2>5. /\ read' = read /\ stranded' = stranded /\ call' = call
      BY <1>14 DEF FetchTags
    <2>6. CASE pc' = "idle"
      <3>1. /\ status' # "SUCCESS" /\ UNCHANGED hostVars
        BY <2>4, <2>6
      <3>2. CallInv' /\ ClearedInv' /\ SearchInv' /\ FetchInv' /\ ReadComplete'
        BY <2>3, <2>6, <3>1 DEF CallInv, ClearedInv, SearchInv, FetchInv,
           ReadComplete, Preparing, Setting
      <3>3. PacketInv'
        BY <2>2, <2>5, <2>6, <3>1 DEF PacketInv
      <3>4. FreshTags'
        BY <2>5, <3>1, FreshKept
      <3> QED
        BY <3>2, <3>3, <3>4
    <2>7. CASE pc' = "fetch"
      <3>1. PICK packet \in Seq(TagReads) :
                    /\ Parse(Len(packet), packet)
                    /\ line' = <<>> /\ Len(packet) \in 1..255
                    /\ module'.seen = module.seen
                    /\ packet \o module'.buffer = module.buffer
        BY <2>4, <2>7
      <3>2. status' = "none"
        BY <2>2, <2>4, <2>7
      <3>3. /\ tagsRemaining' = tagsRemaining - 1 /\ packet # <<>>
            /\ tagsRemainingInBuffer' = Len(bufResponse')
            /\ results' = Append(results, Head(packet)) /\ bufResponse' = Tail(packet)
        <4>1. Len(packet) \in Nat
          BY <3>1, LenProperties, Zenon
        <4> QED
          BY <2>2, <3>1, <4>1, ParseFacts
      <3>4. ASSUME ~stranded
            PROVE  /\ results' \o (bufResponse' \o module'.buffer) = module'.seen
                   /\ Fresh(module'.seen) /\ Fresh(results')
                   /\ tagsRemaining' = Len(bufResponse') + Len(module'.buffer)
        <4>1. /\ results \o (bufResponse \o module.buffer) = module.seen
              /\ Fresh(module.seen)
              /\ tagsRemaining = Len(bufResponse) + Len(module.buffer)
          BY <1>14, <3>4 DEF FetchTags, FetchInv
        <4>2. bufResponse \o module.buffer = module.buffer
          BY <2>1, <2>2, ConcatEmptySeq
        <4>3. results \o (packet \o module'.buffer) = module'.seen /\ Fresh(module'.seen)
          BY <3>1, <4>1, <4>2
        <4>4. /\ Append(results, Head(packet)) \o (Tail(packet) \o module'.buffer)
                   = results \o (packet \o module'.buffer)
              /\ Fresh(Append(results, Head(packet)))
              /\ Len(packet) + Len(module'.buffer) - 1 = Len(Tail(packet)) + Len(module'.buffer)
          <5>1. Fresh(results \o (packet \o module'.buffer))
            BY <4>3
          <5> QED
            BY <2>1, <2>3, <3>3, <5>1, ParsedTag
        <4>5. Len(module.buffer) = Len(packet) + Len(module'.buffer)
          BY ZenonT(40), <2>3, <3>1, ConcatProperties
        <4>6. tagsRemaining = Len(packet) + Len(module'.buffer)
          BY <2>1, <2>2, <4>1, <4>5
        <4>7. tagsRemaining' = Len(bufResponse') + Len(module'.buffer)
          BY <3>3, <4>4, <4>6
        <4>8. results' \o (bufResponse' \o module'.buffer) = module'.seen
          BY <3>3, <4>3, <4>4
        <4>9. Fresh(results')
          BY <3>3, <4>4
        <4> QED
          BY <4>3, <4>7, <4>8, <4>9
      <3>5. CallInv' /\ ClearedInv' /\ SearchInv' /\ ReadComplete'
        BY <2>2, <2>5, <2>7, <3>1, <3>2
        DEF CallInv, ClearedInv, SearchInv, ReadComplete, Preparing, Setting, Quiet
      <3>6. PacketInv'
        BY <2>7, <3>3 DEF PacketInv
      <3>7. FetchInv'
        BY <2>5, <3>1, <3>4 DEF FetchInv, Fresh
      <3>8. FreshTags'
        BY <2>5, <3>4 DEF FreshTags, LastReadTags, Fresh
      <3> QED
        BY <3>5, <3>6, <3>7, <3>8
    <2> QED
      BY <2>4, <2>6, <2>7
  <1>15. ASSUME ReadLoopEnds PROVE ReadInv'
    <2>1. /\ bufResponse \in Seq(TagReads) /\ results \in Seq(TagReads)
          /\ module.buffer \in Seq(TagReads)
      BY DEF TypeOK, Modules
    <2>2. ASSUME ~stranded
          PROVE  results = module.seen /\ bufResponse = <<>>
      <3>1. /\ results \o (bufResponse \o module.buffer) = module.seen
            /\ Len(bufResponse) + Len(module.buffer) = 0
        BY <1>15, <2>2 DEF ReadLoopEnds, FetchInv
      <3>2. Len(bufResponse) = 0 /\ Len(module.buffer) = 0
        BY <2>1, <3>1
      <3>3. bufResponse = <<>> /\ module.buffer = <<>>
        BY <2>1, <3>2, EmptySeq
      <3>4. results \o (<<>> \o <<>>) = results
        BY <2>1, ConcatEmptySeq
      <3> QED
        BY <3>1, <3>3, <3>4
    <2>3. CallInv'
      BY <1>15 DEF ReadLoopEnds, Return, CallInv, Preparing
    <2>4. ClearedInv'
      BY <1>15 DEF ReadLoopEnds, Return, ClearedInv, Quiet, Setting, EmptyModule
    <2>5. SearchInv'
      BY <1>15 DEF ReadLoopEnds, Return, SearchInv
    <2>6. FetchInv'
      BY <1>15 DEF ReadLoopEnds, Return, FetchInv
    <2>7. PacketInv'
      BY <1>15, <2>2 DEF ReadLoopEnds, Return, PacketInv
    <2>8. FreshTags'
      BY <1>15, FreshKept DEF ReadLoopEnds, Return
    <2>9. ReadComplete'
      BY <1>15, <2>2 DEF ReadLoopEnds, Return, ReadComplete
    <2> QED
      BY <2>3, <2>4, <2>5, <2>6, <2>7, <2>8, <2>9
  <1>16. ASSUME Abandon PROVE ReadInv'
    <2>1. bufResponse \in Seq(TagReads)
      BY DEF TypeOK
    <2>2. ~stranded' => ~stranded /\ bufResponse = <<>>
      BY <1>16, <2>1, EmptySeq DEF Abandon, PacketInv
    <2>3. CallInv'
      BY <1>16 DEF Abandon, Return, CallInv, Preparing
    <2>4. ClearedInv'
      BY <1>16 DEF Abandon, Return, ClearedInv, Quiet, Setting, EmptyModule
    <2>5. SearchInv'
      BY <1>16 DEF Abandon, Return, SearchInv
    <2>6. FetchInv'
      BY <1>16 DEF Abandon, Return, FetchInv
    <2>7. PacketInv'
      BY <1>16, <2>2 DEF Abandon, Return, PacketInv
    <2>8. FreshTags'
      BY <1>16, <2>2 DEF Abandon, Return, FreshTags, LastReadTags
    <2>9. ReadComplete'
      BY <1>16, <2>2 DEF Abandon, Return, ReadComplete
    <2> QED
      BY <2>3, <2>4, <2>5, <2>6, <2>7, <2>8, <2>9
  <1>17. ASSUME ExecuteTagOp PROVE ReadInv'
    <2>1. CallInv'
      BY <1>17 DEF ExecuteTagOp, CallInv, Preparing, TagOp
    <2>2. ClearedInv'
      BY <1>17 DEF ExecuteTagOp, ClearedInv, Quiet, Setting, EmptyModule, TagOp
    <2>3. SearchInv'
      BY <1>17 DEF ExecuteTagOp, SearchInv, TagOp
    <2>4. FetchInv'
      BY <1>17 DEF ExecuteTagOp, FetchInv, TagOp
    <2>5. PacketInv'
      BY <1>17 DEF ExecuteTagOp, PacketInv, TagOp
    <2>6. FreshTags'
      BY <1>17 DEF ExecuteTagOp, FreshTags, LastReadTags, TagOp
    <2>7. ReadComplete'
      BY <1>17 DEF ExecuteTagOp, ReadComplete, TagOp
    <2> QED
      BY <2>1, <2>2, <2>3, <2>4, <2>5, <2>6, <2>7
  <1>18. ASSUME TagOperation PROVE ReadInv'
    <2>1. /\ module' = module /\ pc' = "idle" /\ status' \in Statuses \cup Errors
          /\ line' # <<>> => line'[1].op # "CLEAR_TAG_ID_BUFFER"
      BY <1>18, TagOperationStep
    <2>2. call.kind # "read"
      BY <1>18 DEF TagOperation, CallInv
    <2>3. CallInv'
      BY <1>18, <2>1, <2>2 DEF TagOperation, CallInv, Preparing
    <2>4. ClearedInv'
      BY <1>18, <2>1, <2>2 DEF TagOperation, ClearedInv, Quiet, Setting,
         EmptyModule
    <2>5. SearchInv'
      BY <1>18, <2>1, <2>2 DEF TagOperation, SearchInv
    <2>6. FetchInv'
      BY <1>18, <2>1, <2>2 DEF TagOperation, FetchInv
    <2>7. PacketInv'
      BY <1>18, <2>1, <2>2 DEF TagOperation, PacketInv
    <2>8. FreshTags'
      BY <1>18, <2>1, <2>2 DEF TagOperation, FreshTags, LastReadTags
    <2>9. ReadComplete'
      BY <1>18, <2>1, <2>2 DEF TagOperation, ReadComplete
    <2> QED
      BY <2>3, <2>4, <2>5, <2>6, <2>7, <2>8, <2>9
  <1>19. ASSUME NEW value \in BOOLEAN, SetReadFilter(value) PROVE ReadInv'
    <2>1. /\ pc' = "idle" /\ status' \in Statuses \cup Errors
          /\ line' # <<>> => line'[1].op # "CLEAR_TAG_ID_BUFFER"
      BY <1>19, FilterStep
    <2>2. call'.kind = "filter"
      BY <1>19 DEF SetReadFilter, Configuration, TagOp
    <2>3. CallInv'
      BY <1>19, <2>1, <2>2 DEF SetReadFilter, CallInv, Preparing
    <2>4. ClearedInv'
      BY <1>19, <2>1, <2>2 DEF SetReadFilter, ClearedInv, Quiet, Setting,
         EmptyModule
    <2>5. SearchInv'
      BY <1>19, <2>1, <2>2 DEF SetReadFilter, SearchInv
    <2>6. FetchInv'
      BY <1>19, <2>1, <2>2 DEF SetReadFilter, FetchInv
    <2>7. PacketInv'
      BY <1>19, <2>1, <2>2 DEF SetReadFilter, PacketInv
    <2>8. FreshTags'
      BY <1>19, <2>1, <2>2 DEF SetReadFilter, FreshTags, LastReadTags
    <2>9. ReadComplete'
      BY <1>19, <2>1, <2>2 DEF SetReadFilter, ReadComplete
    <2> QED
      BY <2>3, <2>4, <2>5, <2>6, <2>7, <2>8, <2>9
  <1> QED
    BY <1>1, <1>2, <1>3, <1>4, <1>5, <1>6, <1>7, <1>8, <1>9, <1>10, <1>11,
       <1>12, <1>13, <1>14, <1>15, <1>16, <1>17, <1>18, <1>19 DEF Next

(* ReadInv is an invariant.                                                *)
LEMMA ReadInvariant == Spec => [](TypeOK /\ ReadInv)
  <1>1. Init => ReadInv
    BY DEF Init, ReadInv, CallInv, ClearedInv, SearchInv, FetchInv, PacketInv,
       FreshTags,
           LastReadTags, ReadComplete, Preparing, Setting, TagOp
  <1>2. TypeOK /\ ReadInv /\ [Next]_vars => ReadInv'
    <2>1. ReadInv /\ UNCHANGED vars => ReadInv'
      BY DEF vars, hostVars, settingVars, historyVars, ReadInv, CallInv,
         ClearedInv,
             SearchInv, FetchInv, PacketInv, FreshTags, LastReadTags, ReadComplete,
             Preparing, Setting, EmptyModule, Quiet, Fresh
    <2> QED
      BY <2>1, ReadStep
  <1> QED
    BY <1>1, <1>2, TypeCorrect, PTL DEF Spec

(* Whatever is lost, refused or late, a caller that has never left a packet *)
(* half parsed is given the tags of its own read and no others.            *)
THEOREM ReadsFresh == Spec => []FreshTags
  BY ReadInvariant, PTL DEF ReadInv

(* A read that succeeds returns all that its searches found, in order.     *)
THEOREM ReadsComplete == Spec => []ReadComplete
  BY ReadInvariant, PTL DEF ReadInv

(* The counters of the host agree with the tags that are left.            *)
THEOREM CountersHonest == Spec => []CountHonest
  <1>1. ReadInv => CountHonest
    BY DEF ReadInv, PacketInv, FetchInv, CountHonest
  <1> QED
    BY <1>1, ReadInvariant, PTL

================================================================================
