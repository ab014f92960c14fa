----------------------------- MODULE LlrpTagProofs ----------------------------
(*****************************************************************************)
(* The tags of the synchronous reads of an LLRP reader: the array of their   *)
(* reports is never read after it was freed nor under the hands of the       *)
(* receiver thread, and whoever walks through it to the end has got each tag *)
(* once.                                                                     *)
(*                                                                           *)
(* A boot ends what an earlier session left running, so that a report which  *)
(* waits for its taker belongs to an operation (NumbersInv, OldInv). Reports *)
(* are full, and the walk through them stays inside the array (FullInv,      *)
(* WalkInv). The tags reported are those on their way, held and stored while *)
(* the read goes on, and those returned and remaining afterwards (CountInv). *)
(*****************************************************************************)
EXTENDS LlrpReadProofs

(* While the reader boots nothing of an operation is on its way.           *)
Booting == caller.doing \in {"unconnected", "connect"}
Inherited == history.trouble \in {"running", "periodic"}
Waking == {"enableRO", "startRO"}

(* A script that names its ROSpec before it wakes it.                      *)
Names(s, id) ==
  \A k \in DOMAIN s : s[k] \in Waking => id >= 1 \/ \E l \in 1..(k - 1) : s[l] = "addRO"

NumbersInv ==
  /\ Booting => /\ history.round = 0 /\ ~history.lost /\ pending = <<>>
                /\ \A i \in DOMAIN requests :
                     requests[i].id = 0 /\ requests[i].command \in Asked("connect")
  /\ caller.doing \in {"read", "tagop", "starting"} => history.round >= 1
  /\ OnAdd => roSpecId >= 1
  /\ Names(caller.script, roSpecId)
  /\ \A i \in DOMAIN requests :
       /\ requests[i].command \in Waking => requests[i].id >= 1
       /\ requests[i].command = "addRO" => requests[i].round >= 1

(* What the threads ask of the reader besides the commands of a script.    *)
LEMMA AskedFor ==
  ASSUME TypesInv, HandshakeInv, ScriptInv, Others
  PROVE  \/ requests' = requests
         \/ Sends /\ Asking
         \/ /\ ~Booting
            /\ \E q \in Commanded :
                 /\ q.command \in {"getReport", "deleteRO", "stopRO", "enableEvents"}
                                    /\ requests' = Append(requests, q)
<1>0. history \in Histories /\ caller \in Callers /\ roSpecId \in Nat
  BY DEF TypesInv, DataTypes, CallerTypes
<1> DEFINE C == {"getReport", "deleteRO", "stopRO", "enableEvents"}
<1>1. ASSUME NEW c \in C, ~Booting,
             requests' = requests \/ requests' = Append(requests, Request(c, roSpecId))
      PROVE  \/ requests' = requests
             \/ /\ ~Booting
                /\ \E q \in Commanded : q.command \in C /\ requests' = Append(requests, q)
  <2>1. Request(c, roSpecId) \in Commanded
    BY <1>0, RequestType DEF Commands
  <2>2. Request(c, roSpecId).command = c
    BY DEF Request
  <2>3. QED
    BY <1>1, <2>1, <2>2
<1>2. CASE SendsOnly
  <2>1. requests' = requests \/ requests' = Append(requests, Request("enableEvents", roSpecId))
    BY <1>2 DEF SendsOnly, Sent
  <2>2. caller.script # <<>> /\ Head(caller.script) = "enableEvents"
    BY <1>2 DEF SendsOnly, FirstIs
  <2>3. Head(caller.script) \in Asked(caller.doing)
    BY <2>2, HeadTailProperties DEF ScriptInv
  <2>4. ~Booting
    BY <2>2, <2>3 DEF Booting, Asked, Opening, PlanSteps
  <2>5. QED
    BY <1>1, <2>1, <2>4
<1>3. CASE Sends
  <2>1. CASE link = "up"
    BY <1>3, <2>1 DEF Sends, Sent, Asking
  <2>2. CASE link # "up"
    BY <1>3, <2>2 DEF Sends, Sent
  <2>3. QED
    BY <1>3, <2>1, <2>2
<1>4. CASE StreamStep
  <2>1. continuousReading
    BY <1>4 DEF StreamStep, StreamAsks, StreamTakes, StreamTimesOut, continuousReading
  <2>2. ~Booting
    BY <2>1 DEF Booting, HandshakeInv, StreamInv
  <2>3. \E c \in C : requests' = requests \/ requests' = Append(requests, Request(c, roSpecId))
    BY <1>4 DEF StreamStep, StreamAsks, StreamTakes, StreamTimesOut, Sent, StopCommand
  <2>4. QED
    BY <1>1, <2>2, <2>3
<1>5. CASE StopReading
  <2>1. ~Booting
    BY <1>5 DEF StopReading, Booting
  <2>2. \E c \in C : requests' = requests \/ requests' = Append(requests, Request(c, roSpecId))
    BY <1>5 DEF StopReading, Sent, StopCommand
  <2>3. QED
    BY <1>1, <2>1, <2>2
<1>6. CASE \/ ReceiverStep \/ Counts \/ Quiets \/ CommandTakes \/ CommandTimesOut \/ Awaits
           \/ AwaitsReport \/ StartsReading \/ StopsReading \/ Joins \/ Connect \/ Read
           \/ ExecuteTagOp \/ AskParameter \/ TakesTag \/ EndsWalk \/ StartReading \/ Destroy
  <2>1. requests' = requests
    BY <1>6 DEF ReceiverStep, ReceiverGoes, ReceiverTakes, ReceiverStores, ReceiverIdles,
                ReceiverFails, Counts, Quiets, CommandTakes, CommandTimesOut, Awaits, AwaitsReport,
                StartsReading, StopsReading, Joins, Connect, Read, ExecuteTagOp, AskParameter,
                TakesTag, EndsWalk, StartReading, Destroy
  <2>2. QED
    BY <2>1
<1>7. QED
  BY <1>2, <1>3, <1>4, <1>5, <1>6 DEF Others, CommandStep, UserStep

(* Every script names its ROSpec before it wakes it.                       *)
LEMMA ScriptsName ==
  /\ \A plan \in Plans : \A id : Names(ReadScript(plan), id) /\ Names(StreamScript(plan), id)
  /\ \A id : /\ Names(TagOpScript, id) /\ Names(BootScript, id) /\ Names(<<"parameter">>, id)
             /\ Names(<<"close">>, id) /\ Names(<<>>, id)
<1>1. ASSUME NEW s, NEW n \in Nat \ {0}, s[n] = "addRO", DOMAIN s \subseteq Nat,
             \A k \in DOMAIN s : s[k] \in Waking => n < k
      PROVE  \A id : Names(s, id)
  <2>1. \A k \in DOMAIN s : s[k] \in Waking => n \in 1..(k - 1)
    BY <1>1
  <2>2. QED
    BY <1>1, <2>1 DEF Names
<1>2. ASSUME NEW plan \in Plans PROVE \A id : Names(ReadScript(plan), id)
  <2> DEFINE s == ReadScript(plan)
  <2>1. CASE plan = "simple" \/ plan = "tagop"
    <3>1. /\ s[6] = "addRO" /\ DOMAIN s \subseteq Nat
          /\ \A k \in DOMAIN s : s[k] \in Waking => 6 < k
      BY <2>1 DEF ReadScript, PlanScript, Simple, Waking
    <3>2. QED
      BY <1>1, <3>1
  <2>2. CASE plan = "multi"
    <3>1. /\ s[7] = "addRO" /\ DOMAIN s \subseteq Nat
          /\ \A k \in DOMAIN s : s[k] \in Waking => 7 < k
      BY <2>2 DEF ReadScript, PlanScript, Simple, Waking
    <3>2. QED
      BY <1>1, <3>1
  <2>3. QED
    BY <2>1, <2>2, LlrpAssumption
<1>3. ASSUME NEW plan \in Plans PROVE \A id : Names(StreamScript(plan), id)
  <2> DEFINE s == StreamScript(plan)
  <2>1. CASE plan = "simple" \/ plan = "tagop"
    <3>1. /\ s[5] = "addRO" /\ DOMAIN s \subseteq Nat
          /\ \A k \in DOMAIN s : s[k] \in Waking => 5 < k
      BY <2>1 DEF StreamScript, PlanScript, Simple, Periodic, Waking
    <3>2. QED
      BY <1>1, <3>1
  <2>2. CASE plan = "multi"
    <3>1. /\ s[6] = "addRO" /\ DOMAIN s \subseteq Nat
          /\ \A k \in DOMAIN s : s[k] \in Waking => 6 < k
      BY <2>2 DEF StreamScript, PlanScript, Simple, Periodic, Waking
    <3>2. QED
      BY <1>1, <3>1
  <2>3. QED
    BY <2>1, <2>2, LlrpAssumption
<1>4. \A id : Names(TagOpScript, id)
  <2>1. /\ TagOpScript[3] = "addRO" /\ DOMAIN TagOpScript \subseteq Nat
        /\ \A k \in DOMAIN TagOpScript : TagOpScript[k] \in Waking => 3 < k
    BY DEF TagOpScript, Waking
  <2>2. QED
    BY <1>1, <2>1
<1>5. /\ \A k \in DOMAIN BootScript : BootScript[k] \notin Waking
      /\ \A k \in DOMAIN <<"parameter">> : <<"parameter">>[k] \notin Waking
      /\ \A k \in DOMAIN <<"close">> : <<"close">>[k] \notin Waking
      /\ \A k \in DOMAIN <<>> : FALSE
  BY DEF BootScript, Waking
<1>6. QED
  BY <1>2, <1>3, <1>4, <1>5 DEF Names

(* What is left of a script names them too, if the first step did not.     *)
LEMMA NamesTail ==
  ASSUME NEW E, NEW s \in Seq(E), s # <<>>, NEW id, Names(s, id), Head(s) # "addRO" \/ id >= 1
  PROVE  Names(Tail(s), id)
<1>1. /\ Len(s) \in Nat \ {0} /\ DOMAIN s = 1..Len(s) /\ Head(s) = s[1]
      /\ DOMAIN Tail(s) = 1..(Len(s) - 1) /\ \A i \in 1..(Len(s) - 1) : Tail(s)[i] = s[i + 1]
  BY Shortened
<1>2. ASSUME NEW k \in DOMAIN Tail(s), Tail(s)[k] \in Waking, ~(id >= 1)
      PROVE  \E l \in 1..(k - 1) : Tail(s)[l] = "addRO"
  <2>1. k + 1 \in DOMAIN s /\ s[k + 1] = Tail(s)[k] /\ k \in 1..(Len(s) - 1)
    BY <1>1, <1>2
  <2>2. PICK l \in 1..(k + 1 - 1) : s[l] = "addRO"
    BY <1>2, <2>1 DEF Names
  <2>3. l # 1
    BY <1>1, <1>2, <2>2
  <2>4. l - 1 \in 1..(k - 1) /\ l - 1 \in 1..(Len(s) - 1) /\ l - 1 + 1 = l
    BY <1>1, <2>1, <2>2, <2>3
  <2>5. QED
    BY <1>1, <2>2, <2>4
<1>3. QED
  BY <1>2 DEF Names

(* An identifier once given is never zero again.                           *)
LEMMA Given ==
  ASSUME roSpecId \in Nat
  PROVE  GivenId >= 1
BY DEF GivenId

(* A command keeps the numbers of its operation.                           *)
LEMMA NumbersStay ==
  ASSUME TypesInv, HandshakeInv, ScriptInv, ScriptInv', ModeInv, NumbersInv, Commanding
  PROVE  /\ Booting' => Booting /\ history'.round = history.round /\ history'.lost = history.lost
         /\ caller'.doing \in {"read", "tagop", "starting"} => history'.round >= 1
         /\ OnAdd' => roSpecId' >= 1
         /\ Names(caller'.script, roSpecId')
<1>0. /\ caller \in Callers /\ roSpecId \in Nat /\ caller.script \in Seq(Steps)
      /\ caller.script # <<>>
  BY CommandOutcome DEF TypesInv, CallerTypes, DataTypes, Callers, Commanding
<1>1. PICK h : /\ Like(h) /\ (Stays(h) \/ Finishes(TRUE, h) \/ Finishes(FALSE, h))
               /\ h.lost = history.lost \/ (Awaits /\ Finishes(FALSE, h))
  BY CommandOutcome DEF Commanding
<1>2. history'.round = history.round
  BY <1>1 DEF Like, Stays, Finishes, SameButBroken
<1>3. roSpecId' = roSpecId \/ (Sends /\ Head(caller.script) = "addRO" /\ roSpecId' = GivenId)
  BY DEF Commanding, SendsOnly, Counts, Quiets, Sends, CommandTakes, CommandTimesOut, Awaits,
         AwaitsReport
<1>4. roSpecId' = roSpecId \/ roSpecId' >= 1
  BY <1>0, <1>3, Given
<1>5. caller.doing # "unconnected"
  BY <1>0 DEF HandshakeInv, CallerInv, Resting
<1>6. Booting' => Booting /\ history'.lost = history.lost
  <2>1. ASSUME Booting' PROVE Stays(h)
    BY <1>1, <1>5, <2>1 DEF Finishes, Booting
  <2>2. Stays(h) /\ Finishes(FALSE, h) /\ Booting' => FALSE
    BY DEF Stays, Finishes, Booting
  <2>3. QED
    BY <1>1, <2>1, <2>2 DEF Stays, Booting
<1>7. caller'.doing \in {"read", "tagop", "starting"} => history'.round >= 1
  BY <1>1, <1>2 DEF Stays, Finishes, NumbersInv
<1>8. OnAdd' => roSpecId' >= 1
  <2> SUFFICES ASSUME OnAdd' PROVE roSpecId' >= 1
    OBVIOUS
  <2>1. CASE Sends
    <3>1. caller' = [caller EXCEPT !.at = "waiting"] \/ caller'.at = "ready"
      <4>1. CASE link = "closed"
        <5>1. Failed(history)
          BY <1>0, <2>1, <4>1, FailsFields DEF Sends, TypesInv, DataTypes
        <5>2. QED
          BY <5>1 DEF Failed, Advanced, Finishes, Continues
      <4>2. QED
        BY <2>1, <4>1 DEF Sends
    <3>2. Head(caller.script) = "addRO"
      BY <1>0, <3>1 DEF OnAdd, Callers
    <3>3. roSpecId' = GivenId
      BY <2>1, <3>2 DEF Sends
    <3>4. QED
      BY <1>0, <3>3, Given
  <2>2. CASE ~Sends
    <3>1. OnAdd
      <4>1. CASE Quiets
        BY <1>0, <4>1 DEF Quiets, OnAdd, Callers
      <4>2. CASE caller' = caller
        BY <4>2 DEF OnAdd
      <4>3. CASE caller'.at = "ready"
        BY <4>3 DEF OnAdd
      <4>4. Quiets \/ caller' = caller \/ caller'.at = "ready"
        <5>1. \A result, g : Ended(result, g) => caller'.at = "ready"
          BY <1>0 DEF Ended, Callers
        <5>2. \A s, g : Proceed(s, g) => caller'.at = "ready"
          BY <1>0, <5>1 DEF Proceed, Callers
        <5>3. \A g : Fails(g) => caller'.at = "ready"
          BY <5>1, <5>2 DEF Fails
        <5>4. \A m, g : Answered(m, g) => caller'.at = "ready"
          BY <5>2, <5>3 DEF Answered
        <5>5. CASE CommandTakes
          BY <5>4, <5>5 DEF CommandTakes
        <5>6. CASE SendsOnly \/ Counts \/ CommandTimesOut \/ Awaits \/ AwaitsReport
          BY <5>1, <5>2, <5>3, <5>6 DEF SendsOnly, Counts, CommandTimesOut, Awaits, AwaitsReport
        <5>7. QED
          BY <2>2, <5>5, <5>6 DEF Commanding
      <4>5. QED
        BY <4>1, <4>2, <4>3, <4>4
    <3>2. QED
      BY <1>4, <3>1 DEF NumbersInv
  <2>3. QED
    BY <2>1, <2>2
<1>9. Names(caller'.script, roSpecId')
  <2>1. Names(caller.script, roSpecId')
    BY <1>4 DEF Names, NumbersInv
  <2>2. caller'.script = Tail(caller.script) =>
          Head(caller.script) # "addRO" \/ roSpecId' >= 1 \/ caller'.script = caller.script
    <3>1. CASE Sends
      BY <1>0, <1>3, <3>1, Given DEF Sends
    <3>2. CASE CommandTakes \/ CommandTimesOut
      BY <1>4, <3>2 DEF CommandTakes, CommandTimesOut, OnAdd, NumbersInv
    <3>3. CASE SendsOnly \/ Counts \/ Awaits \/ AwaitsReport
      BY <3>3 DEF SendsOnly, Counts, Awaits, AwaitsReport, FirstIs
    <3>4. CASE Quiets
      BY <1>0, <3>4 DEF Quiets, Callers
    <3>5. QED
      BY <3>1, <3>2, <3>3, <3>4 DEF Commanding
  <2>3. CASE Stays(h) /\ caller'.script \in {caller.script, Tail(caller.script)}
    BY <1>0, <2>1, <2>2, <2>3, NamesTail
  <2>4. CASE Stays(h) /\ Head(caller.script) = "getROSpecs"
    <3>1. Head(caller.script) \in Asked(caller.doing)
      BY <1>0, HeadTailProperties DEF ScriptInv
    <3>2. caller'.doing = "connect"
      BY <2>4, <3>1 DEF Stays, Asked, Opening, PlanSteps
    <3>3. caller'.script \in Seq(Asked("connect"))
      BY <3>2 DEF ScriptInv
    <3>4. \A k \in DOMAIN caller'.script : caller'.script[k] \in Asked("connect")
      BY <3>3, ElementOfSeq, LenProperties
    <3>5. QED
      BY <3>4 DEF Names, Waking, Asked
  <2>5. CASE Finishes(TRUE, h) \/ Finishes(FALSE, h)
    BY <2>5, ScriptsName DEF Finishes, TypesInv, CallerTypes
  <2>6. QED
    BY <1>1, <2>3, <2>4, <2>5 DEF Stays
<1>10. QED
  BY <1>2, <1>6, <1>7, <1>8, <1>9

(* The beginning of an operation, and its end, know their numbers.         *)
LEMMA NumbersBegin ==
  ASSUME TypesInv, HandshakeInv, ScriptInv, ModeInv, NumbersInv,
         StartsReading \/ StopsReading \/ Joins \/ UserStep
  PROVE  /\ roSpecId' = roSpecId /\ pending' = pending
         /\ Booting' => Booting /\ history'.round = history.round /\ history'.lost = history.lost
         /\ caller'.doing \in {"read", "tagop", "starting"} => history'.round >= 1
         /\ OnAdd' => roSpecId' >= 1
         /\ Names(caller'.script, roSpecId')
<1>0. caller \in Callers /\ history \in Histories /\ history.round \in Nat
  BY DEF TypesInv, CallerTypes, DataTypes, Histories
<1>1. roSpecId' = roSpecId /\ pending' = pending
  BY DEF StartsReading, StopsReading, Joins, UserStep, Connect, Read, ExecuteTagOp, AskParameter,
         TakesTag, EndsWalk, StartReading, StopReading, Destroy
<1>2. CASE TakesTag \/ EndsWalk
  <2>1. caller' = caller /\ caller.doing = "nothing"
    BY <1>2 DEF TakesTag, EndsWalk
  <2>2. QED
    BY <1>1, <2>1 DEF Booting, NumbersInv, OnAdd
<1>3. CASE StopsReading \/ StopReading \/ Destroy
  <2>1. /\ caller.at = "ready" /\ caller.script = <<>>
        /\ caller'.at = "ready" /\ caller'.script = <<>>
        /\ caller'.doing \in {"nothing", "stopping", "destroying"}
    BY <1>0, <1>3 DEF StopsReading, StopReading, Destroy, Callers, HandshakeInv, CallerInv, Resting
  <2>2. QED
    BY <1>1, <2>1, ScriptsName DEF Booting, OnAdd
<1>4. ASSUME NEW doing, NEW plan, NEW script, Begin(doing, plan, script), caller.doing \in Resting
      PROVE  caller'.at = "ready" /\ caller'.doing = doing /\ caller'.script = script
  BY <1>0, <1>4 DEF Begin, Callers, HandshakeInv, CallerInv
<1>5. CASE Connect
  <2>1. caller'.at = "ready" /\ caller'.doing = "connect" /\ caller'.script = BootScript /\ Booting
    BY <1>4, <1>5 DEF Connect, Resting, Booting
  <2>2. history' = history
    BY <1>5 DEF Connect
  <2>3. QED
    BY <1>1, <2>1, <2>2, ScriptsName DEF OnAdd
<1>6. CASE Joins
  <2>1. caller'.at = "ready" /\ caller'.doing = "closing" /\ caller'.script = <<"close">>
    BY <1>4, <1>6 DEF Joins, Resting
  <2>2. QED
    BY <1>1, <2>1, ScriptsName DEF OnAdd, Booting
<1>7. CASE AskParameter
  <2>1. caller'.at = "ready" /\ caller'.doing = "parameter" /\ caller'.script = <<"parameter">>
    BY <1>4, <1>7 DEF AskParameter, Resting, Idle
  <2>2. QED
    BY <1>1, <2>1, ScriptsName DEF OnAdd, Booting
<1>8. CASE StartReading
  <2>1. caller'.at = "ready" /\ caller'.doing = "parking" /\ caller'.script = <<>>
    BY <1>4, <1>8 DEF StartReading, Resting, Idle
  <2>2. QED
    BY <1>1, <2>1, ScriptsName DEF OnAdd, Booting
<1>9. CASE Read \/ ExecuteTagOp \/ StartsReading
  <2>1. /\ caller'.at = "ready" /\ caller'.doing \in {"read", "tagop", "starting"}
        /\ Names(caller'.script, roSpecId')
    <3>1. CASE Read
      BY <1>1, <1>4, <3>1, ScriptsName DEF Read, Resting, Idle
    <3>2. CASE ExecuteTagOp
      BY <1>1, <1>4, <3>2, ScriptsName DEF ExecuteTagOp, Resting, Idle
    <3>3. CASE StartsReading
      <4>1. caller.plan \in Plans
        BY <3>3 DEF StartsReading, TypesInv, CallerTypes
      <4>2. QED
        BY <1>1, <1>4, <3>3, <4>1, ScriptsName DEF StartsReading, Resting
    <3>4. QED
      BY <1>9, <3>1, <3>2, <3>3
  <2>2. history'.round = history.round + 1
    <3>1. PICK loose \in BOOLEAN :
            \/ history' = NewRound(loose)
            \/ history' = [NewRound(loose) EXCEPT !.operations = history.operations]
      BY <1>9 DEF Read, ExecuteTagOp, StartsReading
    <3>2. NewRound(loose) \in Histories /\ NewRound(loose).round = history.round + 1
      BY <1>0, NewRoundType, NewRoundFields
    <3>3. history'.round = NewRound(loose).round
      BY <3>1, <3>2 DEF Histories
    <3>4. QED
      BY <3>2, <3>3
  <2>3. QED
    BY <1>0, <1>1, <2>1, <2>2 DEF OnAdd, Booting
<1>10. QED
  BY <1>2, <1>3, <1>5, <1>6, <1>7, <1>8, <1>9 DEF UserStep

(* So does each step of the threads.                                       *)
LEMMA NumbersOthers ==
  ASSUME TypesInv, HandshakeInv, ScriptInv, ScriptInv', ModeInv, NumbersInv, Others
  PROVE  NumbersInv'
<1>0. /\ caller \in Callers /\ history \in Histories /\ roSpecId \in Nat /\ history.round \in Nat
      /\ requests \in Seq(Commanded) /\ DOMAIN requests = 1..Len(requests) /\ Len(requests) \in Nat
  <2>1. requests \in Seq(Commanded)
    BY DEF TypesInv, SocketTypes
  <2>2. QED
    BY <2>1, LenProperties DEF TypesInv, CallerTypes, DataTypes, Histories
<1>1. /\ Booting' => Booting /\ history'.round = history.round /\ history'.lost = history.lost
      /\ caller'.doing \in {"read", "tagop", "starting"} => history'.round >= 1
      /\ OnAdd' => roSpecId' >= 1
      /\ Names(caller'.script, roSpecId')
  <2>1. CASE Commanding
    BY <2>1, NumbersStay
  <2>2. CASE ReceiverStep \/ StreamStep
    <3>1. caller' = caller /\ roSpecId' = roSpecId
      BY <2>2 DEF ReceiverStep, ReceiverGoes, ReceiverTakes, ReceiverStores, ReceiverIdles,
                  ReceiverFails, StreamStep, StreamAsks, StreamTakes, StreamTimesOut
    <3>2. \/ history' = history
          \/ /\ ~Booting
             /\ history' = [history EXCEPT !.broken = @ \cup {history.round}, !.lost = TRUE]
      <4>1. CASE ReceiverStep
        BY <4>1 DEF ReceiverStep, ReceiverGoes, ReceiverTakes, ReceiverStores, ReceiverIdles,
                    ReceiverFails
      <4>2. CASE StreamStep
        <5>1. ~Booting
          BY <4>2 DEF StreamStep, StreamAsks, StreamTakes, StreamTimesOut, continuousReading,
                      Booting, HandshakeInv, StreamInv
        <5>2. QED
          BY <4>2, <5>1 DEF StreamStep, StreamAsks, StreamTakes, StreamTimesOut
      <4>3. QED
        BY <2>2, <4>1, <4>2
    <3>3. history'.round = history.round
      BY <1>0, <3>2 DEF Histories
    <3>4. QED
      BY <3>1, <3>2, <3>3 DEF Booting, NumbersInv, OnAdd
  <2>3. CASE StartsReading \/ StopsReading \/ Joins \/ UserStep
    BY <2>3, NumbersBegin
  <2>4. QED
    BY <2>1, <2>2, <2>3 DEF Others, CommandStep, Commanding
<1>2. Booting' => pending' = <<>>
  <2>1. pending' = pending \/ pending' = <<>> \/ StreamStep
    BY DEF Others, ReceiverStep, ReceiverGoes, ReceiverTakes, ReceiverStores, ReceiverIdles,
           ReceiverFails, CommandStep, SendsOnly, Counts, Quiets, Sends, CommandTakes,
           CommandTimesOut, Awaits, AwaitsReport, StartsReading, StopsReading, Joins, UserStep,
           Connect, Read, ExecuteTagOp, AskParameter, TakesTag, EndsWalk, StartReading,
           StopReading, Destroy
  <2>2. StreamStep => ~Booting
    BY DEF StreamStep, StreamAsks, StreamTakes, StreamTimesOut, continuousReading, Booting,
           HandshakeInv, StreamInv
  <2>3. QED
    BY <1>1, <2>1, <2>2 DEF NumbersInv
<1> DEFINE Good(q) == /\ Booting' => q.id = 0 /\ q.command \in Asked("connect")
                      /\ q.command \in Waking => q.id >= 1
                      /\ q.command = "addRO" => q.round >= 1
<1>3. \A i \in DOMAIN requests : Good(requests[i])
  BY <1>1 DEF NumbersInv
<1>4. ASSUME NEW q \in Commanded, Good(q), requests' = Append(requests, q)
      PROVE  \A i \in DOMAIN requests' : Good(requests'[i])
  <2>1. /\ DOMAIN Append(requests, q) = 1..(Len(requests) + 1)
        /\ Append(requests, q)[Len(requests) + 1] = q
        /\ \A i \in 1..Len(requests) : Append(requests, q)[i] = requests[i]
    BY <1>0, Lengthened
  <2>2. \A i \in DOMAIN requests' :
          requests'[i] = q \/ (i \in DOMAIN requests /\ requests'[i] = requests[i])
    BY <1>0, <1>4, <2>1
  <2> HIDE DEF Good
  <2>3. QED
    BY <1>3, <1>4, <2>2
<1>5. \A i \in DOMAIN requests' : Good(requests'[i])
  <2>1. CASE requests' = requests
    BY <1>3, <2>1
  <2>2. CASE Sends /\ Asking
    <3> DEFINE c == Head(caller.script)
               q == Request(c, roSpecId')
    <3>1. c \in Commands /\ caller.script # <<>>
      BY <2>2 DEF Asking, TypesInv, CallerTypes
    <3>2. roSpecId' \in Nat
      BY <1>0, <2>2 DEF Asking, GivenId
    <3>3. q \in Commanded /\ requests' = Append(requests, q)
      <4>1. q \in Commanded
        BY <1>0, <3>1, <3>2, RequestType
      <4>2. QED
        BY <2>2, <4>1 DEF Asking
    <3>4. c \in Asked(caller.doing) /\ 1 \in DOMAIN caller.script /\ caller.script[1] = c
      <4>1. caller.script \in Seq(Asked(caller.doing))
        BY DEF ScriptInv
      <4>2. QED
        BY <3>1, <4>1, Shortened
    <3>5. caller'.doing = caller.doing
      BY <1>0, <2>2 DEF Asking, Callers
    <3>6. q.command = c /\ q.round = history.round
          /\ q.id = IF caller.doing = "connect" THEN 0 ELSE roSpecId'
      BY DEF Request
    <3>7. Booting' => caller.doing = "connect"
      <4>1. caller.doing # "unconnected"
        BY <3>1 DEF HandshakeInv, CallerInv, Resting
      <4>2. QED
        BY <3>5, <4>1 DEF Booting
    <3>8. c \in Waking => roSpecId' >= 1 /\ caller.doing # "connect"
      <4>1. ASSUME c \in Waking PROVE roSpecId' >= 1
        <5>1. roSpecId >= 1 \/ \E l \in 1..(1 - 1) : caller.script[l] = "addRO"
          BY <3>4, <4>1 DEF NumbersInv, Names
        <5>2. roSpecId' = roSpecId
          BY <2>2, <4>1 DEF Asking, Waking
        <5>3. QED
          BY <5>1, <5>2
      <4>2. c \in Waking => caller.doing # "connect"
        BY <3>4 DEF Waking, Asked
      <4>3. QED
        BY <4>1, <4>2
    <3>9. c = "addRO" => history.round >= 1
      <4>1. c = "addRO" => caller.doing \in {"read", "tagop", "starting"}
        BY <3>4 DEF Asked, Opening, PlanSteps
      <4>2. QED
        BY <4>1 DEF NumbersInv
    <3>10. Good(q)
      <4> HIDE DEF c, q
      <4>1. QED
        BY <3>4, <3>6, <3>7, <3>8, <3>9
    <3>11. QED
      BY <1>4, <3>3, <3>10
  <2>3. CASE /\ ~Booting
             /\ \E q \in Commanded :
                 /\ q.command \in {"getReport", "deleteRO", "stopRO", "enableEvents"}
                                     /\ requests' = Append(requests, q)
    <3>1. PICK q \in Commanded :
            /\ q.command \in {"getReport", "deleteRO", "stopRO", "enableEvents"}
            /\ requests' = Append(requests, q)
      BY <2>3
    <3>2. Good(q)
      BY <1>1, <2>3, <3>1 DEF Waking
    <3>3. QED
      BY <1>4, <3>1, <3>2
  <2>4. QED
    BY <2>1, <2>2, <2>3, AskedFor
<1>6. QED
  BY <1>1, <1>2, <1>5 DEF NumbersInv

(* The reader has no part in them.                                         *)
LEMMA NumbersKept ==
  ASSUME TypesInv, HandshakeInv, ScriptInv, ScriptInv', ModeInv, NumbersInv, LlrpNext
  PROVE  NumbersInv'
<1>1. CASE Others
  BY <1>1, NumbersOthers
<1>2. CASE ModuleStep \/ LinkFails
  <2>0. requests \in Seq(Commanded) /\ history \in Histories
    BY DEF TypesInv, SocketTypes, DataTypes
  <2>1. caller' = caller /\ pending' = pending /\ roSpecId' = roSpecId
    BY <1>2 DEF ModuleStep, ModuleHandles, ModuleReports, ModuleEnds, ModulePulses, LinkFails
  <2>2. history'.round = history.round /\ history'.lost = history.lost
    BY <1>2, <2>0 DEF ModuleStep, ModuleHandles, ModuleReports, ModuleEnds, ModulePulses, LinkFails,
                      Histories
  <2>3. requests' = requests \/ requests' = <<>> \/ (requests # <<>> /\ requests' = Tail(requests))
    BY <1>2 DEF ModuleStep, ModuleHandles, ModuleReports, ModuleEnds, ModulePulses, LinkFails
  <2>4. \A i \in DOMAIN requests' : \E j \in DOMAIN requests : requests'[i] = requests[j]
    <3>1. CASE requests # <<>> /\ requests' = Tail(requests)
      <4>1. \A i \in DOMAIN requests' : i + 1 \in DOMAIN requests /\ requests'[i] = requests[i + 1]
        BY <2>0, <3>1, Shortened
      <4>2. QED
        BY <4>1
    <3>2. QED
      BY <2>3, <3>1
  <2>5. QED
    BY <2>1, <2>2, <2>4 DEF NumbersInv, Booting, OnAdd
<1>3. QED
  BY <1>1, <1>2 DEF LlrpNext, Others

(* How a boot ends what an earlier session has left running.               *)
RestSteps == {"getRegion", "getCapabilities", "getProtocols", "getAntennas", "keepAlive"}
Rest == <<"getRegion", "getCapabilities", "getProtocols", "getAntennas", "keepAlive">>
FindScripts == {<<"holdEvents", "getROSpecs">> \o Rest, <<"getROSpecs">> \o Rest}
EndScripts == IF history.trouble = "periodic"
              THEN {<<"stopOld", "disableOld">> \o Rest, <<"disableOld">> \o Rest}
              ELSE {<<"stopOld">> \o Rest}
LastStop == IF history.trouble = "periodic" THEN "disableOld" ELSE "stopOld"

Finding == \/ caller.doing = "unconnected"
           \/ caller.doing = "connect" /\ caller.script \in FindScripts
Ending == caller.doing = "connect" /\ caller.script \in EndScripts
Past == \A i \in DOMAIN caller.script : caller.script[i] \in RestSteps

Running(s) == s.round = 0 /\ s.state = "active"
OldReport(m) == m.kind = "report" /\ m.round = 0
Stopped(m) == m.kind = "answer" /\ m.of = AnswerType(LastStop) /\ m.ok
OldGone ==
  /\ \A s \in specs : ~Running(s)
  /\ \A i \in DOMAIN wire : ~OldReport(wire[i])
  /\ receiver.at = "store" => ~OldReport(receiver.holds[1])
  /\ InRead => \A i \in DOMAIN buffer.reports : buffer.reports[i].round # 0
OldInv ==
  /\ \A s \in specs : s.round = 0 =>
       s.id = 0 /\ Inherited /\ (s.periodic <=> history.trouble = "periodic")
  /\ ~Inherited => OldGone
  /\ Inherited /\ Finding =>
       /\ \E s \in specs : Running(s)
       /\ \A i \in DOMAIN requests : requests[i].command \in {"holdEvents", "getROSpecs"}
  /\ Inherited /\ caller.doing = "connect" => Finding \/ Ending \/ Past
  /\ Inherited /\ Booting =>
       \A i \in DOMAIN wire : Stopped(wire[i]) =>
         /\ \A s \in specs : ~Running(s)
         /\ \A j \in DOMAIN wire : i < j => ~OldReport(wire[j])
  /\ Calm /\ ~Finding /\ ~Ending => OldGone

(* A script with a step or two put before it.                              *)
LEMMA Prefixed ==
  ASSUME NEW E, NEW s \in Seq(E), NEW a \in E, NEW b \in E
  PROVE  /\ Head(<<a>> \o s) = a /\ Tail(<<a>> \o s) = s /\ (<<a>> \o s)[1] = a
         /\ Head(<<a, b>> \o s) = a /\ Tail(<<a, b>> \o s) = <<b>> \o s
<1>1. Head(<<a>> \o s) = a /\ Tail(<<a>> \o s) = s
  OBVIOUS
<1>2. (<<a>> \o s)[1] = a
  OBVIOUS
<1>3. Tail(<<a, b>> \o s) = <<b>> \o s
  OBVIOUS
<1>4. Head(<<a, b>> \o s) = a
  OBVIOUS
<1>5. QED
  BY <1>1, <1>2, <1>3, <1>4

(* The scripts of a boot, step by step.                                    *)
LEMMA BootScripts ==
  /\ BootScript = <<"holdEvents", "getROSpecs">> \o Rest
  /\ Head(<<"holdEvents", "getROSpecs">> \o Rest) = "holdEvents"
  /\ Tail(<<"holdEvents", "getROSpecs">> \o Rest) = <<"getROSpecs">> \o Rest
  /\ Head(<<"getROSpecs">> \o Rest) = "getROSpecs" /\ Tail(<<"getROSpecs">> \o Rest) = Rest
  /\ Head(<<"stopOld", "disableOld">> \o Rest) = "stopOld"
  /\ Tail(<<"stopOld", "disableOld">> \o Rest) = <<"disableOld">> \o Rest
  /\ Head(<<"disableOld">> \o Rest) = "disableOld" /\ Tail(<<"disableOld">> \o Rest) = Rest
  /\ Head(<<"stopOld">> \o Rest) = "stopOld" /\ Tail(<<"stopOld">> \o Rest) = Rest
  /\ (<<"stopOld">> \o Rest)[1] = "stopOld" /\ (<<"stopOld">> \o Rest)[2] # "disableOld"
  /\ (<<"disableOld">> \o Rest)[1] = "disableOld" /\ (<<"getROSpecs">> \o Rest)[1] = "getROSpecs"
  /\ \A i \in DOMAIN Rest : Rest[i] \in RestSteps
<1> DEFINE E == RestSteps \cup {"holdEvents", "getROSpecs", "stopOld", "disableOld"}
<1>1. BootScript = <<"holdEvents", "getROSpecs">> \o Rest
  BY DEF BootScript, Rest
<1>2. Rest \in Seq(E)
  BY DEF Rest, RestSteps
<1>3. \A i \in DOMAIN Rest : Rest[i] \in RestSteps
  BY DEF Rest, RestSteps
<1>4. (<<"stopOld">> \o Rest)[2] # "disableOld"
  BY DEF Rest
<1>5. {"holdEvents", "getROSpecs", "stopOld", "disableOld"} \subseteq E
  OBVIOUS
<1> HIDE DEF E
<1>6. \A a \in E : Head(<<a>> \o Rest) = a /\ Tail(<<a>> \o Rest) = Rest /\ (<<a>> \o Rest)[1] = a
  BY <1>2, Prefixed
<1>7. \A a, b \in E : Head(<<a, b>> \o Rest) = a /\ Tail(<<a, b>> \o Rest) = <<b>> \o Rest
  BY <1>2, Prefixed
<1>8. QED
  BY <1>1, <1>3, <1>4, <1>5, <1>6, <1>7

(* A command that is carried out wakes nothing an earlier session left.    *)
LEMMA NotWoken ==
  ASSUME specs \subseteq ROSpecs, NEW q, CarriedOut(q), \A s \in specs : s.round = 0 => s.id = 0,
         q.command \in Waking => q.id # 0, q.command = "addRO" => q.round # 0,
         NEW t \in specs', t.round = 0
  PROVE  \E s \in specs : s.round = 0 /\ Same(s, t) /\ (Running(t) => Running(s))
<1>1. CASE q.command = "addRO"
  BY <1>1 DEF CarriedOut, Same
<1>2. CASE q.command = "enableRO"
  <2>1. PICK s \in specs : t = IF s.id = q.id
                               THEN [s EXCEPT !.state = IF s.periodic THEN "active" ELSE "inactive"]
                               ELSE s
    BY <1>2 DEF CarriedOut
  <2>2. s \in ROSpecs
    OBVIOUS
  <2>3. s.round = 0
    BY <2>1, <2>2 DEF ROSpecs
  <2>4. QED
    BY <1>2, <2>1, <2>3 DEF Same, Waking
<1>3. CASE q.command \in {"startRO", "stopRO", "stopOld", "disableOld"}
  <2>1. PICK st \in {"active", "inactive", "disabled"} :
          specs' = Become(q.id, st) /\ (st = "active" => q.command = "startRO")
    BY <1>3 DEF CarriedOut
  <2>2. PICK s \in specs : t = IF s.id = q.id THEN [s EXCEPT !.state = st] ELSE s
    BY <2>1 DEF Become
  <2>3. s \in ROSpecs
    OBVIOUS
  <2>4. s.round = 0 /\ Same(s, t)
    BY <2>2, <2>3 DEF ROSpecs, Same
  <2>5. Running(t) => Running(s)
    BY <2>1, <2>2, <2>3, <2>4 DEF Running, Waking, ROSpecs
  <2>6. QED
    BY <2>4, <2>5
<1>4. CASE q.command = "deleteRO"
  BY <1>4 DEF CarriedOut
<1>5. CASE q.command \notin {"addRO", "enableRO", "startRO", "stopRO", "stopOld", "disableOld",
                             "deleteRO"}
  BY <1>5 DEF CarriedOut, Same
<1>6. QED
  BY <1>1, <1>2, <1>3, <1>4, <1>5

(* Stopping it, or disabling it, ends it.                                  *)
LEMMA OldStopped ==
  ASSUME specs \subseteq ROSpecs, NEW q, CarriedOut(q), \A s \in specs : s.round = 0 => s.id = 0,
         q.command \in {"stopOld", "disableOld"}, q.id = 0, NEW t \in specs'
  PROVE  ~Running(t)
<1>1. PICK st \in {"inactive", "disabled"} : specs' = Become(q.id, st)
  BY DEF CarriedOut
<1>2. PICK s \in specs : t = IF s.id = q.id THEN [s EXCEPT !.state = st] ELSE s
  BY <1>1 DEF Become
<1>3. s \in ROSpecs
  OBVIOUS
<1>4. QED
  BY <1>1, <1>2, <1>3 DEF Running, ROSpecs

(* What is left of a boot that has ended the old session does not look for *)
(* it again.                                                               *)
LEMMA PastFinding ==
  ASSUME NEW s, \A i \in DOMAIN s : s[i] \in RestSteps
  PROVE  s \notin FindScripts
<1>1. s # <<"holdEvents", "getROSpecs">> \o Rest
  <2>1. LET b == <<"holdEvents", "getROSpecs">> \o Rest IN 1 \in DOMAIN b /\ b[1] = "holdEvents"
    BY DEF Rest
  <2>2. QED
    BY <2>1 DEF RestSteps
<1>2. s # <<"getROSpecs">> \o Rest
  <2>1. LET b == <<"getROSpecs">> \o Rest IN 1 \in DOMAIN b /\ b[1] = "getROSpecs"
    BY DEF Rest
  <2>2. QED
    BY <2>1 DEF RestSteps
<1>3. QED
  BY <1>1, <1>2 DEF FindScripts

(* What a boot makes of a command: it waits on, the command failed, or it  *)
(* was answered.                                                           *)
LEMMA BootCommand ==
  ASSUME TypesInv, HandshakeInv, ScriptInv, NumbersInv, Commanding, caller.doing = "connect"
  PROVE  /\ caller.script # <<>> /\ Head(caller.script) \in Asked("connect")
         /\ \/ caller'.doing = "connect" /\ caller'.script = caller.script
               /\ history'.broken = history.broken
            \/ \E h \in Histories : Like(h) /\ Failed(h)
            \/ /\ CommandTakes /\ wire # <<>> /\ wire' = Tail(wire)
               /\ Answers(Head(wire)) /\ Head(wire).ok
               /\ \E h \in Histories : Like(h) /\ Answered(Head(wire), h)
<1>0. /\ caller \in Callers /\ history \in Histories /\ caller.script # <<>>
      /\ caller.script \in Seq(Steps) /\ Like(history)
  BY CommandOutcome DEF TypesInv, CallerTypes, DataTypes, Callers, Commanding, Like
<1>1. Head(caller.script) \in Asked("connect")
  BY <1>0, HeadTailProperties DEF ScriptInv
<1>2. ~SendsOnly /\ ~Counts /\ ~Awaits /\ ~AwaitsReport
  BY <1>1 DEF SendsOnly, Counts, Awaits, AwaitsReport, FirstIs, Asked
<1>3. CASE Quiets
  BY <1>0, <1>1, <1>3 DEF Quiets, Callers
<1>4. CASE Sends
  <2>1. CASE link = "closed"
    BY <1>0, <1>1, <1>4, <2>1, FailsFields DEF Sends
  <2>2. CASE link # "closed"
    BY <1>0, <1>1, <1>4, <2>2 DEF Sends, Callers
  <2>3. QED
    BY <2>1, <2>2
<1>5. CASE CommandTakes
  <2> DEFINE h == [history EXCEPT !.eaten =
                     @ \/ (continuousReading /\ Head(wire).kind = "keepAlive")]
  <2>1. h \in Histories /\ Like(h)
    BY <1>0 DEF Histories, Like
  <2>2. pending = <<>>
    BY DEF NumbersInv, Booting
  <2>3. wire # <<>> /\ wire' = Tail(wire)
    BY <1>5 DEF CommandTakes
  <2>4. \/ Answers(Head(wire)) /\ Answered(Head(wire), h)
        \/ history' = h /\ caller' = caller
    BY <1>5, <2>2 DEF CommandTakes
  <2> HIDE DEF h
  <2>5. CASE Answers(Head(wire)) /\ Answered(Head(wire), h)
    <3>1. CASE Head(wire).ok
      BY <1>0, <1>1, <1>5, <2>1, <2>3, <2>5, <3>1
    <3>2. CASE ~Head(wire).ok
      <4>1. Failed(h)
        BY <1>0, <2>1, <2>5, <3>2, AnsweredFields
      <4>2. QED
        BY <1>0, <1>1, <2>1, <4>1
    <3>3. QED
      BY <3>1, <3>2
  <2>6. CASE history' = h /\ caller' = caller
    BY <1>0, <1>1, <2>1, <2>6 DEF Like
  <2>7. QED
    BY <2>4, <2>5, <2>6
<1>6. CASE CommandTimesOut
  <2> DEFINE h == [history EXCEPT !.troubles = history.troubles + 1]
  <2>1. h \in Histories /\ Like(h)
    <3>1. h \in Histories
      BY SMTT(30), <1>0 DEF Histories
    <3>2. Like(h)
      BY <1>0, <3>1 DEF Histories, Like
    <3>3. QED
      BY <3>1, <3>2
  <2>2. Fails(history) \/ Fails(h)
    BY <1>6 DEF CommandTimesOut
  <2> HIDE DEF h
  <2>3. Failed(history) \/ Failed(h)
    BY <1>0, <2>1, <2>2, FailsFields
  <2>4. QED
    BY <1>0, <1>1, <2>1, <2>3
<1>7. QED
  BY <1>2, <1>3, <1>4, <1>5, <1>6 DEF Commanding

(* A boot that goes on or ends.                                            *)
LEMMA BootGoes ==
  ASSUME caller.doing = "connect", NEW script, NEW h, Advanced(script, h)
  PROVE  IF script = <<>> THEN caller'.doing = "nothing"
         ELSE caller'.doing = "connect" /\ caller'.script = script
BY DEF Advanced, Finishes, Continues

(* A boot that fails is not taken for anything else.                       *)
LEMMA BootFails ==
  ASSUME caller.doing = "connect", NEW h, Finishes(FALSE, h)
  PROVE  caller'.doing = "unbooted" /\ ~Calm'
BY DEF Finishes, Calm

(* There is always something after the search.                             *)
LEMMA RestIsLong ==
  Rest # <<>> /\ Rest # <<"disableOld">> \o Rest /\ \A a : <<a>> \o Rest # <<>>
<1>1. \A a : 1 \in DOMAIN (<<a>> \o Rest)
  BY DEF Rest
<1>2. Rest[1] = "getRegion" /\ 1 \in DOMAIN Rest
  BY DEF Rest
<1>3. (<<"disableOld">> \o Rest)[1] = "disableOld"
  BY BootScripts
<1>4. DOMAIN <<>> = {}
  OBVIOUS
<1>5. Rest # <<>> /\ \A a : <<a>> \o Rest # <<>>
  BY <1>1, <1>2, <1>4, Zenon
<1>6. QED
  BY <1>2, <1>3, <1>5

(* The old session is looked for, then ended, then gone: nothing else on   *)
(* the way from the one to the other.                                      *)
LEMMA BootStep ==
  ASSUME TypesInv, HandshakeInv, ScriptInv, NumbersInv, OldInv, Inherited, Commanding,
         caller.doing = "connect", history'.trouble = history.trouble
  PROVE  \/ ~Calm' /\ caller'.doing = "unbooted"
         \/ Finding /\ (Finding' \/ Ending')
         \/ Ending /\ Ending'
         \/ /\ Ending /\ wire # <<>> /\ wire' = Tail(wire) /\ Stopped(Head(wire)) /\ CommandTakes
            /\ caller'.doing # "unconnected" /\ (caller'.doing = "connect" => Past')
         \/ /\ Past /\ ~Finding /\ ~Ending
            /\ caller'.doing # "unconnected" /\ (caller'.doing = "connect" => Past')
<1> DEFINE s == caller.script
           Goal == \/ ~Calm' /\ caller'.doing = "unbooted"
                   \/ Finding /\ (Finding' \/ Ending')
                   \/ Ending /\ Ending'
                   \/ /\ Ending /\ wire # <<>> /\ wire' = Tail(wire) /\ Stopped(Head(wire))
                      /\ CommandTakes
                      /\ caller'.doing # "unconnected" /\ (caller'.doing = "connect" => Past')
                   \/ /\ Past /\ ~Finding /\ ~Ending
                      /\ caller'.doing # "unconnected" /\ (caller'.doing = "connect" => Past')
<1>0. s # <<>> /\ Head(s) \in Asked("connect") /\ s \in Seq(Steps) /\ Tail(s) \in Seq(Steps)
  BY BootCommand, HeadTailProperties DEF TypesInv, CallerTypes, Callers
<1>1. EndScripts' = EndScripts
  BY DEF EndScripts
<1>2. Finding \/ Ending \/ Past
  BY DEF OldInv
<1>3. CASE caller'.doing = "connect" /\ caller'.script = caller.script
  BY <1>1, <1>2, <1>3 DEF Finding, Ending, Past
<1> DEFINE A == /\ wire # <<>> /\ wire' = Tail(wire) /\ Answers(Head(wire)) /\ Head(wire).ok
                /\ CommandTakes
<1>4. ASSUME NEW h, \/ Advanced(Tail(s), h) /\ (A \/ ~Fatal(s))
                    \/ Finishes(FALSE, h)
      PROVE  Head(s) # "getROSpecs" \/ ~A => Goal
  <2>1. CASE Finishes(FALSE, h)
    BY <2>1, BootFails
  <2>2. CASE Advanced(Tail(s), h) /\ (A \/ ~Fatal(s)) /\ (Head(s) # "getROSpecs" \/ ~A)
    <3>1. CASE s = <<"holdEvents", "getROSpecs">> \o Rest
      <4>1. Tail(s) \in FindScripts /\ Tail(s) # <<>>
        <5>1. Tail(s) = <<"getROSpecs">> \o Rest
          BY <3>1, BootScripts
        <5>2. QED
          BY <5>1, RestIsLong DEF FindScripts
      <4>2. caller'.doing = "connect" /\ caller'.script = Tail(s)
        BY <2>2, <4>1, BootGoes
      <4>3. QED
        BY <3>1, <4>1, <4>2 DEF Finding, FindScripts
    <3>2. CASE s = <<"getROSpecs">> \o Rest
      <4>1. Fatal(s)
        BY <3>2, BootScripts DEF Fatal
      <4>2. QED
        BY <2>2, <3>2, <4>1, BootScripts
    <3>3. CASE s = <<"stopOld", "disableOld">> \o Rest /\ Ending
      <4>1. Tail(s) = <<"disableOld">> \o Rest /\ Tail(s) # <<>>
        <5>1. Tail(s) = <<"disableOld">> \o Rest
          BY <3>3, BootScripts
        <5>2. QED
          BY <5>1, RestIsLong
      <4>2. caller'.doing = "connect" /\ caller'.script = Tail(s)
        BY <2>2, <4>1, BootGoes
      <4>3. Tail(s) \in EndScripts
        <5>1. s # <<"stopOld">> \o Rest
          BY <4>1, BootScripts, RestIsLong
        <5>2. QED
          BY <3>3, <4>1, <5>1 DEF Ending, EndScripts
      <4>4. QED
        BY <1>1, <3>3, <4>2, <4>3 DEF Ending
    <3>4. CASE s \in {<<"disableOld">> \o Rest, <<"stopOld">> \o Rest} /\ Ending
      <4>1. Fatal(s) /\ Tail(s) = Rest
        <5>1. Head(s) \in {"disableOld", "stopOld"} /\ Tail(s) = Rest
          BY <3>4, BootScripts
        <5>2. s[1] = "stopOld" => s[2] # "disableOld"
          <6>1. CASE s = <<"disableOld">> \o Rest
            BY <6>1, BootScripts
          <6>2. CASE s = <<"stopOld">> \o Rest
            BY <6>2, BootScripts
          <6>3. QED
            BY <3>4, <6>1, <6>2
        <5>3. QED
          BY <5>1, <5>2 DEF Fatal
      <4>2. A
        BY <2>2, <4>1
      <4>3. Head(s) = LastStop
        BY <3>4, BootScripts DEF Ending, EndScripts, LastStop
      <4>4. Stopped(Head(wire))
        BY <4>2, <4>3 DEF Stopped, Answers
      <4>5. caller'.doing \in {"nothing", "connect"} /\ (caller'.doing = "connect" => Past')
        <5>1. caller'.doing = "nothing" \/ (caller'.doing = "connect" /\ caller'.script = Rest)
          BY <2>2, <4>1, BootGoes
        <5>2. QED
          BY <5>1, BootScripts DEF Past
      <4>6. QED
        BY <3>4, <4>2, <4>4, <4>5
    <3>5. CASE Past /\ ~Finding /\ ~Ending
      <4>1. caller'.doing = "nothing" \/ (caller'.doing = "connect" /\ caller'.script = Tail(s))
        BY <2>2, BootGoes
      <4>2. \A i \in DOMAIN Tail(s) : Tail(s)[i] \in RestSteps
        <5>1. \A i \in DOMAIN Tail(s) : i + 1 \in DOMAIN s /\ Tail(s)[i] = s[i + 1]
          BY <1>0, Shortened
        <5>2. QED
          BY <3>5, <5>1 DEF Past
      <4>3. QED
        BY <3>5, <4>1, <4>2 DEF Past
    <3>6. QED
      BY <1>2, <3>1, <3>2, <3>3, <3>4, <3>5 DEF Finding, Ending, FindScripts, EndScripts
  <2>3. QED
    BY <1>4, <2>1, <2>2
<1>5. CASE \E h \in Histories : Like(h) /\ Failed(h)
  <2>1. PICK h \in Histories : Like(h) /\ Failed(h)
    BY <1>5
  <2>2. Finishes(FALSE, h) \/ (Advanced(Tail(s), h) /\ ~Fatal(s))
    BY <2>1 DEF Failed
  <2>3. CASE Head(s) # "getROSpecs" \/ ~A
    BY <1>4, <2>2, <2>3
  <2>4. CASE Head(s) = "getROSpecs"
    <3>1. Fatal(s)
      <4>1. s[1] = Head(s)
        BY <1>0, Shortened
      <4>2. QED
        BY <2>4, <4>1 DEF Fatal
    <3>2. QED
      BY <2>2, <3>1, BootFails
  <2>5. QED
    BY <2>3, <2>4
<1>6. CASE /\ A
           /\ \E h \in Histories : Like(h) /\ Answered(Head(wire), h)
  <2>1. PICK h \in Histories : Like(h) /\ Answered(Head(wire), h)
    BY <1>6
  <2> DEFINE found == {x \in specs : x.round = 0 /\ x.state = "active"}
             more  == IF Head(s) # "getROSpecs" \/ found = {} THEN <<>>
                      ELSE StopScript(\E x \in found : x.periodic)
  <2>2. Proceed(more \o Tail(s), h)
    BY <1>6, <2>1 DEF Answered
  <2>3. Advanced(more \o Tail(s), h)
    BY <2>1, <2>2, ProceedFields DEF TypesInv, CallerTypes
  <2>4. CASE Head(s) # "getROSpecs"
    <3>1. more \o Tail(s) = Tail(s)
      BY <1>0, <2>4, ConcatEmptySeq
    <3> HIDE DEF more
    <3>2. QED
      BY <1>4, <1>6, <2>3, <2>4, <3>1
  <2>5. CASE Head(s) = "getROSpecs"
    <3>1. Finding /\ s = <<"getROSpecs">> \o Rest
      <4>1. ~Past
        <5>1. 1 \in DOMAIN s /\ s[1] = "getROSpecs"
          BY <1>0, <2>5, Shortened
        <5>2. QED
          BY <5>1 DEF Past, RestSteps
      <4>2. s \notin EndScripts /\ s # <<"holdEvents", "getROSpecs">> \o Rest
        BY <2>5, BootScripts DEF EndScripts
      <4>3. QED
        BY <1>2, <4>1, <4>2 DEF Finding, Ending, FindScripts
    <3>2. found # {}
      BY <3>1 DEF OldInv, Running
    <3>3. (\E x \in found : x.periodic) <=> history.trouble = "periodic"
      <4>1. \A x \in found : x.periodic <=> history.trouble = "periodic"
        BY DEF OldInv
      <4>2. QED
        BY <3>2, <4>1
    <3>4. more = IF history.trouble = "periodic" THEN <<"stopOld", "disableOld">> ELSE <<"stopOld">>
      BY <2>5, <3>2, <3>3 DEF StopScript
    <3>5. Tail(s) = Rest
      BY <3>1, BootScripts
    <3> HIDE DEF more
    <3>6. more \o Tail(s) \in EndScripts
      BY <3>4, <3>5 DEF EndScripts
    <3>7. more \o Tail(s) # <<>>
      <4>1. \A x \in EndScripts : x # <<>>
        BY DEF EndScripts, Rest
      <4>2. QED
        BY <3>6, <4>1
    <3>8. caller'.doing = "connect" /\ caller'.script = more \o Tail(s)
      BY <2>3, <3>7, BootGoes
    <3>9. QED
      BY <1>1, <3>1, <3>6, <3>8 DEF Ending
  <2>6. QED
    BY <2>4, <2>5
<1>7. QED
  BY <1>3, <1>5, <1>6, BootCommand

(* What the reader does to the old session when the host does nothing.     *)
Loses ==
  \A t \in specs' : t.round = 0 =>
    \E s \in specs : s.round = 0 /\ Same(s, t) /\ (Running(t) => Running(s))
Says(m) ==
  /\ OldReport(m) => \E s \in specs : Running(s)
  /\ Inherited /\ Booting /\ Stopped(m) => \A t \in specs' : ~Running(t)
Tells == wire' = wire \/ \E m \in Message : wire' = Append(wire, m) /\ Says(m)
Lasts == Inherited /\ Finding => \E t \in specs' : Running(t)

(* A command is carried out.                                               *)
LEMMA OldHandled ==
  ASSUME TypesInv, NumbersInv, OldInv, ModuleHandles
  PROVE  Loses /\ Tells /\ Lasts
<1> DEFINE q == Head(requests)
<1>0. /\ requests # <<>> /\ q \in Commanded /\ specs \subseteq ROSpecs
      /\ \/ CarriedOut(q) /\ wire' = Append(wire, Answer(q.command, TRUE))
         \/ specs' = specs /\ wire' = Append(wire, Answer(q.command, FALSE))
         \/ specs' = specs /\ wire' = wire
      /\ q.command \in {"enableEvents", "getReport"} => wire' = wire
  <2>1. q.command \in {"enableEvents", "getReport"} => wire' = wire
    BY DEF ModuleHandles
  <2>2. QED
    BY <2>1, Handled DEF TypesInv, SocketTypes
<1>1. 1 \in DOMAIN requests /\ requests[1] = q
  <2>1. requests \in Seq(Commanded)
    BY DEF TypesInv, SocketTypes
  <2>2. DOMAIN requests = 1..Len(requests) /\ Len(requests) \in Nat \ {0} /\ requests[1] = q
    BY <1>0, <2>1, Shortened
  <2>3. QED
    BY <2>2
<1>2. /\ q.command \in Waking => q.id # 0
      /\ q.command = "addRO" => q.round # 0
      /\ Booting => q.id = 0 /\ q.command \in Asked("connect")
  BY <1>1 DEF NumbersInv
<1>3. \A s \in specs : s.round = 0 => s.id = 0
  BY DEF OldInv
<1> HIDE DEF q
<1>4. CASE specs' = specs
  <2>1. Loses /\ Lasts
    BY <1>4 DEF Loses, Lasts, Same, OldInv
  <2>2. Tells
    <3>1. CASE wire' = wire
      BY <3>1 DEF Tells
    <3>2. ASSUME NEW ok \in BOOLEAN, wire' = Append(wire, Answer(q.command, ok)),
                 ok => CarriedOut(q), q.command \notin {"enableEvents", "getReport"}
          PROVE  Tells
      <4>1. Answer(q.command, ok) \in Message
        BY <1>0, <3>2, MessageTypes DEF Commanded
      <4>2. ASSUME Inherited, Booting, Stopped(Answer(q.command, ok)), NEW t \in specs'
            PROVE  ~Running(t)
        <5>1. ok /\ AnswerType(q.command) = AnswerType(LastStop)
          BY <4>2 DEF Stopped, Answer
        <5>2. q.command = LastStop
          BY <1>2, <4>2, <5>1 DEF LastStop, AnswerType, Asked
        <5>3. QED
          BY <1>0, <1>2, <1>3, <3>2, <4>2, <5>1, <5>2, OldStopped DEF LastStop
      <4>3. ~OldReport(Answer(q.command, ok))
        BY DEF OldReport, Answer
      <4>4. QED
        BY <3>2, <4>1, <4>2, <4>3 DEF Tells, Says
    <3>3. QED
      BY <1>0, <3>1, <3>2
  <2>3. QED
    BY <2>1, <2>2
<1>5. CASE CarriedOut(q) /\ wire' = Append(wire, Answer(q.command, TRUE))
  <2>1. Loses
    BY <1>0, <1>2, <1>3, <1>5, NotWoken DEF Loses
  <2>2. Tells
    <3>1. CASE wire' = wire
      BY <3>1 DEF Tells
    <3>2. CASE q.command \notin {"enableEvents", "getReport"}
      <4>1. Answer(q.command, TRUE) \in Message
        BY <1>0, <3>2, MessageTypes DEF Commanded
      <4>2. ASSUME Inherited, Booting, Stopped(Answer(q.command, TRUE)), NEW t \in specs'
            PROVE  ~Running(t)
        <5>1. AnswerType(q.command) = AnswerType(LastStop)
          BY <4>2 DEF Stopped, Answer
        <5>2. q.command = LastStop
          BY <1>2, <4>2, <5>1 DEF LastStop, AnswerType, Asked
        <5>3. QED
          BY <1>0, <1>2, <1>3, <1>5, <4>2, <5>2, OldStopped DEF LastStop
      <4>3. ~OldReport(Answer(q.command, TRUE))
        BY DEF OldReport, Answer
      <4>4. QED
        BY <1>5, <4>1, <4>2, <4>3 DEF Tells, Says
    <3>3. QED
      BY <1>0, <3>1, <3>2
  <2>3. Lasts
    <3>1. ASSUME Inherited, Finding PROVE specs' = specs
      <4>1. q.command \in {"holdEvents", "getROSpecs"}
        BY <1>1, <3>1 DEF OldInv
      <4>2. QED
        BY <1>5, <4>1 DEF CarriedOut
    <3>2. QED
      BY <3>1 DEF Lasts, OldInv
  <2>4. QED
    BY <2>1, <2>2, <2>3
<1>6. QED
  BY <1>0, <1>4, <1>5

(* The other steps of the reader.                                          *)
LEMMA OldReaderSteps ==
  ASSUME TypesInv, HandshakeInv, ModeInv, RoundsInv, NumbersInv, OldInv, ModuleStep \/ LinkFails
  PROVE  Loses /\ Tells /\ Lasts
<1>0. specs \subseteq ROSpecs /\ history \in Histories
  BY DEF TypesInv, SocketTypes, DataTypes
<1>1. CASE ModuleHandles
  BY <1>1, OldHandled
<1>2. CASE ModuleReports
  <2>1. PICK s \in specs, n \in Nat :
          /\ s.state = "active" /\ wire' = Append(wire, Report(s.round, n))
          /\ specs' = (specs \ {s}) \cup {[s EXCEPT !.left = @ - 1]}
          /\ Same(s, [s EXCEPT !.left = @ - 1]) /\ [s EXCEPT !.left = @ - 1].state = s.state
    BY <1>2, Reported
  <2>2. Report(s.round, n) \in Message
    BY <1>0, MessageTypes DEF ROSpecs
  <2>3. Tells
    <3>1. ~Stopped(Report(s.round, n)) /\ (OldReport(Report(s.round, n)) => Running(s))
      BY <2>1 DEF Stopped, OldReport, Report, Running
    <3>2. QED
      BY <2>1, <2>2, <3>1 DEF Tells, Says
  <2> DEFINE t == [s EXCEPT !.left = @ - 1]
  <2>4. t \in specs' /\ Same(s, t) /\ t.state = s.state /\ specs' = (specs \ {s}) \cup {t}
    BY <2>1
  <2> HIDE DEF t
  <2>5. Running(t) <=> Running(s)
    BY <2>4 DEF Running, Same
  <2>6. \A r : Same(r, r)
    BY DEF Same
  <2>7. Loses
    BY <2>4, <2>5, <2>6 DEF Loses, Same
  <2>8. Lasts
    BY <2>4, <2>5 DEF Lasts, OldInv
  <2>9. QED
    BY <2>3, <2>7, <2>8
<1>3. CASE ModuleEnds
  <2>1. /\ wire' = wire \/ wire' = Append(wire, EndOfROSpec)
        /\ \E s \in specs :
             /\ s.timed
             /\ \A t \in specs' :
                  \E r \in specs : Same(r, t) /\ t.state \in {r.state, "inactive"}
    BY <1>3, EndReported
  <2>2. Tells
    <3>1. EndOfROSpec \in Message /\ ~OldReport(EndOfROSpec) /\ ~Stopped(EndOfROSpec)
      BY MessageTypes DEF EndOfROSpec, OldReport, Stopped
    <3>2. QED
      BY <2>1, <3>1 DEF Tells, Says
  <2>3. Loses
    BY <2>1 DEF Loses, Same, Running
  <2>4. ~Finding
    <3>1. PICK s \in specs : s.timed
      BY <2>1
    <3>2. s.round \in Nat /\ s.round <= history.round /\ s.round \notin history.loose
      BY <1>0, <3>1 DEF RoundsInv, Rounded, ROSpecs
    <3>3. s.round # 0
      BY <3>2 DEF ModeInv
    <3>4. QED
      BY <3>2, <3>3 DEF Finding, Booting, NumbersInv
  <2>5. QED
    BY <2>2, <2>3, <2>4 DEF Lasts
<1>4. CASE ModulePulses
  <2>1. KeepAlive \in Message /\ ~OldReport(KeepAlive) /\ ~Stopped(KeepAlive)
    BY MessageTypes DEF KeepAlive, OldReport, Stopped
  <2>2. specs' = specs /\ wire' = Append(wire, KeepAlive)
    BY <1>4 DEF ModulePulses
  <2>3. QED
    BY <2>1, <2>2 DEF Tells, Says, Loses, Lasts, Same, OldInv
<1>5. CASE LinkFails
  <2>1. specs' = {} /\ wire' = wire /\ ~Inherited
    BY <1>5 DEF LinkFails, Inherited
  <2>2. QED
    BY <2>1 DEF Loses, Tells, Lasts
<1>6. QED
  BY <1>1, <1>2, <1>3, <1>4, <1>5 DEF ModuleStep

(* They keep what is known of it.                                          *)
LEMMA OldModule ==
  ASSUME TypesInv, HandshakeInv, ModeInv, RoundsInv, NumbersInv, OldInv, ModuleStep \/ LinkFails
  PROVE  OldInv'
<1>0. wire \in Seq(Message) /\ requests \in Seq(Commanded)
  BY DEF TypesInv, SocketTypes
<1>1. Loses /\ Tells /\ Lasts
  BY OldReaderSteps
<1>2. /\ caller' = caller /\ receiver' = receiver /\ buffer' = buffer
      /\ history'.trouble = history.trouble /\ history'.broken = history.broken
  BY DEF ModuleStep, ModuleHandles, ModuleReports, ModuleEnds, ModulePulses, LinkFails, TypesInv,
         DataTypes, Histories
<1>3. /\ (Inherited' <=> Inherited) /\ (Booting' <=> Booting) /\ (Calm' <=> Calm)
      /\ (InRead' <=> InRead) /\ LastStop' = LastStop /\ EndScripts' = EndScripts
  BY <1>2 DEF Inherited, Booting, Calm, InRead, LastStop, EndScripts
<1>4. (Finding' <=> Finding) /\ (Ending' <=> Ending) /\ (Past' <=> Past)
  BY <1>2, <1>3 DEF Finding, Ending, Past
<1>5. \A i \in DOMAIN wire' :
        \/ i \in DOMAIN wire /\ wire'[i] = wire[i]
        \/ Says(wire'[i]) /\ \A j \in DOMAIN wire' : ~(i < j)
  <2>1. CASE wire' = wire
    BY <2>1
  <2>2. ASSUME NEW m \in Message, wire' = Append(wire, m), Says(m)
        PROVE  \A i \in DOMAIN wire' :
                 \/ i \in DOMAIN wire /\ wire'[i] = wire[i]
                 \/ Says(wire'[i]) /\ \A j \in DOMAIN wire' : ~(i < j)
    <3>1. /\ Len(wire) \in Nat /\ DOMAIN wire = 1..Len(wire) /\ DOMAIN wire' = 1..(Len(wire) + 1)
          /\ wire'[Len(wire) + 1] = m /\ \A i \in 1..Len(wire) : wire'[i] = wire[i]
      BY <1>0, <2>2, Lengthened
    <3>2. \A i \in 1..(Len(wire) + 1) : i \in 1..Len(wire) \/ i = Len(wire) + 1
      BY <3>1
    <3>3. \A j \in 1..(Len(wire) + 1) : ~(Len(wire) + 1 < j)
      BY <3>1
    <3>4. QED
      BY <2>2, <3>1, <3>2, <3>3
  <2>3. QED
    BY <1>1, <2>1, <2>2 DEF Tells
<1>6. \A t \in specs' : Running(t) => \E s \in specs : Running(s)
  BY <1>1 DEF Loses, Running
<1>7. \A s \in specs' : s.round = 0 =>
        s.id = 0 /\ Inherited' /\ (s.periodic <=> history'.trouble = "periodic")
  BY <1>1, <1>2, <1>3 DEF OldInv, Loses, Same
<1>8. OldGone => OldGone'
  <2> SUFFICES ASSUME OldGone PROVE OldGone'
    OBVIOUS
  <2>1. \A s \in specs' : ~Running(s)
    BY <1>6 DEF OldGone
  <2>2. \A i \in DOMAIN wire' : ~OldReport(wire'[i])
    BY <1>5 DEF OldGone, Says
  <2>3. QED
    BY <1>2, <1>3, <2>1, <2>2 DEF OldGone
<1>9. Inherited' /\ Finding' =>
        /\ \E s \in specs' : Running(s)
        /\ \A i \in DOMAIN requests' : requests'[i].command \in {"holdEvents", "getROSpecs"}
  <2>1. requests' = requests \/ requests' = <<>> \/ (requests # <<>> /\ requests' = Tail(requests))
    BY DEF ModuleStep, ModuleHandles, ModuleReports, ModuleEnds, ModulePulses, LinkFails
  <2>2. \A i \in DOMAIN requests' : \E j \in DOMAIN requests : requests'[i] = requests[j]
    <3>1. CASE requests # <<>> /\ requests' = Tail(requests)
      <4>1. \A i \in DOMAIN requests' : i + 1 \in DOMAIN requests /\ requests'[i] = requests[i + 1]
        BY <1>0, <3>1, Shortened
      <4>2. QED
        BY <4>1
    <3>2. QED
      BY <2>1, <3>1
  <2>3. QED
    BY <1>1, <1>3, <1>4, <2>2 DEF OldInv, Lasts
<1>10. ASSUME Inherited', Booting', NEW i \in DOMAIN wire', Stopped(wire[i])'
       PROVE  /\ \A s \in specs' : ~Running(s)
              /\ \A j \in DOMAIN wire' : i < j => ~OldReport(wire'[j])
  <2>1. Stopped(wire'[i])
    BY <1>3, <1>10 DEF Stopped
  <2>2. CASE i \in DOMAIN wire /\ wire'[i] = wire[i]
    <3>1. /\ \A s \in specs : ~Running(s)
          /\ \A j \in DOMAIN wire : i < j => ~OldReport(wire[j])
      BY <1>3, <1>10, <2>1, <2>2 DEF OldInv
    <3>2. QED
      BY <1>5, <1>6, <3>1 DEF Says
  <2>3. CASE Says(wire'[i]) /\ \A j \in DOMAIN wire' : ~(i < j)
    BY <1>3, <1>10, <2>1, <2>3 DEF Says
  <2>4. QED
    BY <1>5, <2>2, <2>3
<1>11. QED
  <2>2. Inherited' /\ caller'.doing = "connect" => Finding' \/ Ending' \/ Past'
    BY <1>2, <1>3, <1>4 DEF OldInv
  <2>3. ~Inherited' => OldGone'
    BY <1>3, <1>8 DEF OldInv
  <2>4. Calm' /\ ~Finding' /\ ~Ending' => OldGone'
    BY <1>3, <1>4, <1>8 DEF OldInv
  <2>5. Inherited' /\ Booting' =>
          \A i \in DOMAIN wire' : Stopped(wire[i])' =>
            /\ \A s \in specs' : ~Running(s)
            /\ \A j \in DOMAIN wire' : i < j => ~OldReport(wire'[j])
    BY <1>10
  <2>6. QED
    BY <1>7, <1>9, <2>2, <2>3, <2>4, <2>5 DEF OldInv, Running, OldReport

(* Who is booting, and how it comes to that.                               *)
LEMMA BootingSteps ==
  ASSUME TypesInv, HandshakeInv, ScriptInv, Others
  PROVE  \/ caller' = caller /\ ~Commanding
         \/ Commanding /\ caller.doing # "connect" /\ ~Booting /\ ~Booting'
         \/ Commanding /\ caller.doing = "connect"
         \/ Connect /\ caller.doing = "unconnected" /\ caller'.doing = "connect"
            /\ caller'.script = BootScript
         \/ ~Commanding /\ ~Booting /\ ~Booting'
<1>0. caller \in Callers
  BY DEF TypesInv, CallerTypes
<1>1. CASE Commanding
  <2>1. caller.script # <<>> /\ \E h : Stays(h) \/ Finishes(TRUE, h) \/ Finishes(FALSE, h)
    BY <1>1, CommandOutcome DEF Commanding
  <2>2. caller.doing # "unconnected"
    BY <2>1 DEF HandshakeInv, CallerInv, Resting
  <2>3. ~Booting => ~Booting'
    BY <2>1 DEF Stays, Finishes, Booting
  <2>4. QED
    BY <1>1, <2>2, <2>3 DEF Booting
<1>2. CASE ReceiverStep \/ StreamStep
  <2>1. caller' = caller
    BY <1>2 DEF ReceiverStep, ReceiverGoes, ReceiverTakes, ReceiverStores, ReceiverIdles,
                ReceiverFails, StreamStep, StreamAsks, StreamTakes, StreamTimesOut
  <2>2. QED
    BY <1>1, <2>1
<1>3. CASE TakesTag \/ EndsWalk
  <2>1. caller' = caller
    BY <1>3 DEF TakesTag, EndsWalk
  <2>2. QED
    BY <1>1, <2>1
<1>4. CASE Connect
  BY <1>0, <1>1, <1>4 DEF Connect, Begin, Callers
<1>5. CASE Read \/ ExecuteTagOp \/ AskParameter \/ StartReading \/ StopReading \/ Destroy
           \/ StartsReading \/ StopsReading \/ Joins
  <2>1. ~Booting /\ ~Booting'
    BY <1>0, <1>5 DEF Read, ExecuteTagOp, AskParameter, StartReading, StopReading, Destroy,
                      StartsReading, StopsReading, Joins, Begin, Callers, Booting, Idle
  <2>2. QED
    BY <1>1, <2>1
<1>6. QED
  BY <1>1, <1>2, <1>3, <1>4, <1>5 DEF Others, CommandStep, Commanding, UserStep

(* What is gone stays gone.                                                *)
LEMMA GoneStays ==
  ASSUME TypesInv, HandshakeInv, ScriptInv, ModeInv, OldGone, Others
  PROVE  OldGone'
<1>0. /\ wire \in Seq(Message) /\ buffer \in Buffers /\ Outside
      /\ receiver.at = "store" => receiver.holds[1].kind = "report"
  BY OthersOutside DEF TypesInv, SocketTypes, DataTypes, ThreadTypes
<1>1. \A s \in specs' : ~Running(s)
  BY <1>0 DEF Outside, OldGone
<1>2. wire # <<>> => ~OldReport(Head(wire))
  <2>1. wire # <<>> => 1 \in DOMAIN wire /\ Head(wire) = wire[1]
    <3>1. wire # <<>> =>
            DOMAIN wire = 1..Len(wire) /\ Len(wire) \in Nat \ {0} /\ Head(wire) = wire[1]
      BY <1>0, Shortened
    <3>2. QED
      BY <3>1
  <2>2. QED
    BY <2>1 DEF OldGone
<1>3. \A i \in DOMAIN wire' : ~OldReport(wire'[i])
  <2>1. CASE wire # <<>> /\ wire' = Tail(wire)
    <3>1. \A i \in DOMAIN wire' : i + 1 \in DOMAIN wire /\ wire'[i] = wire[i + 1]
      BY <1>0, <2>1, Shortened
    <3>2. QED
      BY <3>1 DEF OldGone
  <2>2. QED
    BY <1>0, <2>1 DEF OldGone, Outside
<1>4. receiver'.at = "store" => ~OldReport(receiver'.holds[1])
  <2>1. ASSUME receiver'.at = "store" PROVE ~OldReport(receiver'.holds[1])
    <3>1. CASE receiver.at = "store" /\ receiver'.holds = receiver.holds
      BY <3>1 DEF OldGone
    <3>2. CASE ReceiverTakes /\ receiver'.holds = <<Head(wire)>>
      <4>1. wire # <<>> /\ receiver'.holds[1] = Head(wire)
        BY <3>2 DEF ReceiverTakes
      <4>2. QED
        BY <1>2, <4>1
    <3>3. QED
      BY <2>1, <3>1, <3>2, StoreSteps
  <2>2. QED
    BY <2>1
<1>5. ASSUME InRead' PROVE \A i \in DOMAIN buffer'.reports : buffer'.reports[i].round # 0
  <2>1. CASE buffer'.reports = <<>>
    BY <2>1
  <2>2. CASE InRead /\ buffer'.reports = buffer.reports
    BY <2>2 DEF OldGone
  <2>3. ASSUME InRead, NEW m \in Message,
               \/ wire # <<>> /\ m = Head(wire) /\ m.kind = "report"
               \/ receiver.at = "store" /\ m = receiver.holds[1],
               buffer'.reports \in {<<ReportOf(m)>>, Append(buffer.reports, ReportOf(m))}
        PROVE  \A i \in DOMAIN buffer'.reports : buffer'.reports[i].round # 0
    <3>1. m.round # 0
      BY <1>0, <1>2, <2>3 DEF OldReport, OldGone
    <3> DEFINE b == buffer.reports
               x == ReportOf(m)
    <3>2. b \in Seq(Reports) /\ x \in Reports /\ x.round = m.round
      BY <1>0 DEF Buffers, ReportOf, Reports, Message
    <3>3. \A i \in DOMAIN b : b[i].round # 0
      BY <2>3 DEF OldGone
    <3>4. buffer'.reports = <<x>> \/ buffer'.reports = Append(b, x)
      BY <2>3
    <3> HIDE DEF b, x
    <3>5. CASE buffer'.reports = <<x>>
      BY <3>1, <3>2, <3>5
    <3>6. CASE buffer'.reports = Append(b, x)
      <4>1. /\ DOMAIN b = 1..Len(b) /\ Len(b) \in Nat /\ DOMAIN Append(b, x) = 1..(Len(b) + 1)
            /\ Append(b, x)[Len(b) + 1] = x /\ \A i \in 1..Len(b) : Append(b, x)[i] = b[i]
        BY <3>2, Lengthened
      <4>2. \A i \in 1..(Len(b) + 1) : i \in 1..Len(b) \/ i = Len(b) + 1
        BY <4>1
      <4>3. QED
        BY <3>1, <3>2, <3>3, <3>6, <4>1, <4>2
    <3>7. QED
      BY <3>4, <3>5, <3>6
  <2>4. QED
    BY <1>5, <2>1, <2>2, <2>3, BufferSteps
<1>6. QED
  BY <1>1, <1>3, <1>4, <1>5 DEF OldGone

(* It is not looked for and ended at once, nor when it has been.           *)
LEMMA StagesApart ==
  /\ FindScripts \cap EndScripts = {}
  /\ Past => caller.script \notin FindScripts
<1>1. \A s \in FindScripts : Head(s) \in {"holdEvents", "getROSpecs"}
  BY BootScripts DEF FindScripts
<1>2. \A s \in EndScripts : Head(s) \in {"stopOld", "disableOld"}
  BY BootScripts DEF EndScripts
<1>3. QED
  BY <1>1, <1>2, PastFinding DEF Past

(* The threads of the host, the stream and the user keep what is known of  *)
(* it; the boot of the host ends it.                                       *)
LEMMA OldOthers ==
  ASSUME TypesInv, HandshakeInv, ScriptInv, ModeInv, NumbersInv, OldInv, Others
  PROVE  OldInv'
<1>0. /\ wire \in Seq(Message) /\ requests \in Seq(Commanded) /\ caller \in Callers
      /\ Outside /\ specs' = specs /\ history'.trouble = history.trouble
      /\ wire' = wire \/ (wire # <<>> /\ wire' = Tail(wire))
      /\ Calm' => Calm
  <2>1. Outside
    BY OthersOutside
  <2>2. QED
    BY <2>1 DEF TypesInv, SocketTypes, CallerTypes, Outside, Begins, Calm
<1>1. /\ (Inherited' <=> Inherited) /\ LastStop' = LastStop /\ EndScripts' = EndScripts
  BY <1>0 DEF Inherited, LastStop, EndScripts
<1>2. OldGone => OldGone'
  BY GoneStays
<1>3. ASSUME Inherited, Commanding, caller.doing = "connect"
      PROVE  /\ Finding' => Finding
             /\ caller'.doing = "connect" => Finding' \/ Ending' \/ Past'
             /\ Calm' /\ ~Finding' /\ ~Ending' => OldGone'
  <2>1. CASE ~Calm' /\ caller'.doing = "unbooted"
    BY <2>1 DEF Finding
  <2>2. CASE Finding /\ (Finding' \/ Ending')
    BY <2>2
  <2>3. CASE Ending /\ Ending'
    <3>1. ~Finding'
      BY <1>1, <2>3, StagesApart DEF Ending, Finding
    <3>2. QED
      BY <2>3, <3>1
  <2>4. CASE /\ Ending /\ wire # <<>> /\ wire' = Tail(wire) /\ Stopped(Head(wire)) /\ CommandTakes
             /\ caller'.doing # "unconnected" /\ (caller'.doing = "connect" => Past')
    <3>1. ~Finding'
      <4>1. Past' => caller'.script \notin FindScripts
        BY PastFinding DEF Past
      <4>2. QED
        BY <2>4, <4>1 DEF Finding
    <3>2. OldGone'
      <4>1. /\ DOMAIN wire = 1..Len(wire) /\ Len(wire) \in Nat \ {0} /\ Head(wire) = wire[1]
            /\ DOMAIN wire' = 1..(Len(wire) - 1)
            /\ \A i \in 1..(Len(wire) - 1) : wire'[i] = wire[i + 1]
        BY <1>0, <2>4, Shortened
      <4>2. 1 \in DOMAIN wire
        BY <4>1
      <4>3. /\ \A s \in specs : ~Running(s)
            /\ \A j \in DOMAIN wire : 1 < j => ~OldReport(wire[j])
        BY <1>3, <2>4, <4>1, <4>2 DEF OldInv, Booting
      <4>4. \A i \in DOMAIN wire' : ~OldReport(wire'[i])
        <5>1. \A i \in DOMAIN wire' : i + 1 \in DOMAIN wire /\ 1 < i + 1 /\ wire'[i] = wire[i + 1]
          BY <4>1
        <5>2. QED
          BY <4>3, <5>1
      <4>5. receiver'.at # "store"
        <5>1. ~continuousReading /\ ~history.lost /\ caller.at = "waiting"
          BY <1>3, <2>4 DEF HandshakeInv, StreamInv, NumbersInv, Booting, CommandTakes
        <5>2. receiver.at \notin {"store", "select"}
          BY <5>1 DEF HandshakeInv, CommandInv, ThreadInv
        <5>3. QED
          BY <5>2, StoreSteps DEF ReceiverTakes
      <4>6. InRead' => buffer'.reports = <<>>
        <5>1. ~InRead
          BY <1>3 DEF InRead
        <5>2. QED
          BY <5>1, BufferSteps
      <4>7. QED
        BY <1>0, <4>3, <4>4, <4>5, <4>6 DEF OldGone
    <3>3. QED
      BY <2>4, <3>1, <3>2
  <2>5. CASE /\ Past /\ ~Finding /\ ~Ending
             /\ caller'.doing # "unconnected" /\ (caller'.doing = "connect" => Past')
    <3>1. ~Finding'
      <4>1. Past' => caller'.script \notin FindScripts
        BY PastFinding DEF Past
      <4>2. QED
        BY <2>5, <4>1 DEF Finding
    <3>2. Calm => OldGone
      BY <2>5 DEF OldInv
    <3>3. QED
      BY <1>0, <1>2, <2>5, <3>1, <3>2
  <2>6. QED
    BY <1>0, <1>3, <2>1, <2>2, <2>3, <2>4, <2>5, BootStep
<1>4. ASSUME Inherited
      PROVE  /\ Finding' => Finding
             /\ caller'.doing = "connect" => Finding' \/ Ending' \/ Past'
             /\ Calm' /\ ~Finding' /\ ~Ending' => OldGone'
             /\ Booting' => Booting
  <2>1. CASE caller' = caller
    <3>1. /\ (Finding' <=> Finding) /\ (Ending' <=> Ending)
          /\ (Past' <=> Past) /\ (Booting' <=> Booting)
      BY <1>1, <2>1 DEF Finding, Ending, Past, Booting
    <3>2. QED
      BY <1>0, <1>2, <1>4, <2>1, <3>1 DEF OldInv
  <2>2. CASE Connect /\ caller.doing = "unconnected" /\ caller'.doing = "connect"
             /\ caller'.script = BootScript
    <3>1. Finding /\ Finding' /\ Booting
      BY <2>2, BootScripts DEF Finding, FindScripts, Booting
    <3>2. QED
      BY <3>1
  <2>3. CASE Commanding /\ caller.doing = "connect"
    BY <1>3, <1>4, <2>3 DEF Booting
  <2>4. CASE ~Booting /\ ~Booting'
    <3>1. ~Finding /\ ~Ending /\ ~Finding' /\ ~Ending' /\ caller'.doing # "connect"
      BY <2>4 DEF Booting, Finding, Ending
    <3>2. QED
      BY <1>0, <1>2, <2>4, <3>1 DEF OldInv
  <2>5. QED
    BY <2>1, <2>2, <2>3, <2>4, BootingSteps
<1>5. Inherited' /\ Finding' =>
        /\ \E s \in specs' : Running(s)
        /\ \A i \in DOMAIN requests' : requests'[i].command \in {"holdEvents", "getROSpecs"}
  <2> SUFFICES ASSUME Inherited, Finding, Finding'
      PROVE  /\ \E s \in specs : Running(s)
             /\ \A i \in DOMAIN requests' : requests'[i].command \in {"holdEvents", "getROSpecs"}
    BY <1>0, <1>1, <1>4
  <2>1. /\ \E s \in specs : Running(s)
        /\ \A i \in DOMAIN requests : requests[i].command \in {"holdEvents", "getROSpecs"}
    BY DEF OldInv
  <2>2. CASE requests' = requests
    BY <2>1, <2>2
  <2>3. CASE Sends /\ Asking
    <3> DEFINE c == Head(caller.script)
               q == Request(c, roSpecId')
    <3>1. c \in Commands /\ caller.script # <<>> /\ caller.at # "ready" /\ roSpecId' \in Nat
      BY <2>3 DEF Asking, TypesInv, CallerTypes, DataTypes, GivenId
    <3>2. caller.doing = "connect" /\ caller.script \in FindScripts
      BY <3>1 DEF Finding, HandshakeInv, CallerInv, Resting
    <3>3. c \in {"holdEvents", "getROSpecs"}
      BY <3>2, BootScripts DEF FindScripts
    <3>4. q \in Commanded /\ q.command = c /\ requests' = Append(requests, q)
      <4>1. history \in Histories /\ roSpecId \in Nat
        BY DEF TypesInv, DataTypes
      <4>2. q \in Commanded
        BY <1>0, <3>1, <4>1, RequestType
      <4>3. QED
        BY <2>3, <4>2 DEF Asking, Request
    <3> HIDE DEF c, q
    <3>5. /\ DOMAIN requests = 1..Len(requests) /\ Len(requests) \in Nat
          /\ DOMAIN requests' = 1..(Len(requests) + 1) /\ requests'[Len(requests) + 1] = q
          /\ \A i \in 1..Len(requests) : requests'[i] = requests[i]
      BY <1>0, <3>4, Lengthened
    <3>6. \A i \in 1..(Len(requests) + 1) : i \in 1..Len(requests) \/ i = Len(requests) + 1
      BY <3>5
    <3>7. QED
      BY <2>1, <3>3, <3>4, <3>5, <3>6
  <2>4. CASE ~Booting
    BY <2>4 DEF Finding, Booting
  <2>5. QED
    BY <2>2, <2>3, <2>4, AskedFor
<1>6. ASSUME Inherited', Booting', NEW i \in DOMAIN wire', Stopped(wire[i])'
      PROVE  /\ \A s \in specs' : ~Running(s)
             /\ \A j \in DOMAIN wire' : i < j => ~OldReport(wire'[j])
  <2>1. Inherited /\ Booting /\ Stopped(wire'[i])
    BY <1>1, <1>4, <1>6 DEF Stopped
  <2>2. CASE wire' = wire
    BY <1>0, <1>6, <2>1, <2>2 DEF OldInv
  <2>3. CASE wire # <<>> /\ wire' = Tail(wire)
    <3>1. /\ DOMAIN wire = 1..Len(wire) /\ Len(wire) \in Nat \ {0}
          /\ DOMAIN wire' = 1..(Len(wire) - 1)
          /\ \A k \in 1..(Len(wire) - 1) : wire'[k] = wire[k + 1]
      BY <1>0, <2>3, Shortened
    <3>2. /\ i + 1 \in DOMAIN wire /\ wire'[i] = wire[i + 1]
          /\ \A j \in DOMAIN wire' : j + 1 \in DOMAIN wire /\ wire'[j] = wire[j + 1]
          /\ \A j \in DOMAIN wire' : i < j => i + 1 < j + 1
      BY <1>6, <3>1
    <3>3. /\ \A s \in specs : ~Running(s)
          /\ \A j \in DOMAIN wire : i + 1 < j => ~OldReport(wire[j])
      BY <2>1, <3>2 DEF OldInv
    <3>4. QED
      BY <1>0, <3>2, <3>3
  <2>4. QED
    BY <1>0, <2>2, <2>3
<1>7. Calm' /\ ~Finding' /\ ~Ending' => OldGone'
  <2>1. CASE Inherited
    BY <1>4, <2>1
  <2>2. CASE ~Inherited
    BY <1>2, <2>2 DEF OldInv
  <2>3. QED
    BY <2>1, <2>2
<1>8. QED
  <2>1. \A s \in specs' : s.round = 0 =>
          s.id = 0 /\ Inherited' /\ (s.periodic <=> history'.trouble = "periodic")
    BY <1>0, <1>1 DEF OldInv
  <2>2. ~Inherited' => OldGone'
    BY <1>1, <1>2 DEF OldInv
  <2>3. Inherited' /\ caller'.doing = "connect" => Finding' \/ Ending' \/ Past'
    BY <1>1, <1>4
  <2>4. Inherited' /\ Booting' =>
          \A i \in DOMAIN wire' : Stopped(wire[i])' =>
            /\ \A s \in specs' : ~Running(s)
            /\ \A j \in DOMAIN wire' : i < j => ~OldReport(wire'[j])
    BY <1>6
  <2>5. QED
    BY <1>5, <1>7, <2>1, <2>2, <2>3, <2>4 DEF OldInv, Running, OldReport

(* The numbers of the operations, and what is known of the old session,    *)
(* hold from the start on.                                                 *)
LEMMA OldInvariant == LlrpSpec => [](NumbersInv /\ OldInv)
<1>1. LlrpInit => NumbersInv /\ OldInv
  <2> SUFFICES ASSUME LlrpInit PROVE NumbersInv /\ OldInv
    OBVIOUS
  <2>1. /\ requests = <<>> /\ wire = <<>> /\ pending = <<>> /\ receiver.at = "none"
        /\ caller.doing = "unconnected" /\ caller.at = "ready" /\ caller.script = <<>>
        /\ history.round = 0 /\ history.lost = FALSE
        /\ specs = IF history.trouble \notin {"running", "periodic"} THEN {}
                   ELSE {[id |-> 0, round |-> 0, state |-> "active", timed |-> FALSE,
                          periodic |-> history.trouble = "periodic", left |-> 1]}
    BY DEF LlrpInit
  <2>2. NumbersInv
    BY <2>1, ScriptsName DEF NumbersInv, Booting, OnAdd
  <2>3. Finding /\ ~InRead
    BY <2>1 DEF Finding, InRead
  <2>4. /\ \A s \in specs : s.id = 0 /\ Inherited /\ (s.periodic <=> history.trouble = "periodic")
        /\ Inherited => \E s \in specs : Running(s)
        /\ ~Inherited => specs = {}
    <3>1. CASE Inherited
      <4> DEFINE x == [id |-> 0, round |-> 0, state |-> "active", timed |-> FALSE,
                       periodic |-> history.trouble = "periodic", left |-> 1]
      <4>1. specs = {x} /\ x.id = 0 /\ (x.periodic <=> history.trouble = "periodic") /\ Running(x)
        BY <2>1, <3>1 DEF Inherited, Running
      <4> HIDE DEF x
      <4>2. QED
        BY <3>1, <4>1
    <3>2. CASE ~Inherited
      BY <2>1, <3>2 DEF Inherited
    <3>3. QED
      BY <3>1, <3>2
  <2>5. OldInv
    <3>1. ~Inherited => OldGone
      BY <2>1, <2>3, <2>4 DEF OldGone
    <3>2. DOMAIN requests = {} /\ DOMAIN wire = {} /\ caller.doing # "connect"
      BY <2>1
    <3>3. QED
      BY <2>3, <2>4, <3>1, <3>2 DEF OldInv
  <2>6. QED
    BY <2>2, <2>5
<1>2. /\ TypesInv /\ HandshakeInv /\ WaitingInv /\ WaitingInv' /\ NumbersInv /\ OldInv
      /\ [LlrpNext]_llrpVars
      => NumbersInv' /\ OldInv'
  <2> SUFFICES ASSUME TypesInv, HandshakeInv, WaitingInv, WaitingInv', NumbersInv, OldInv,
                      [LlrpNext]_llrpVars
               PROVE  NumbersInv' /\ OldInv'
    OBVIOUS
  <2>0. ScriptInv /\ ScriptInv' /\ ModeInv /\ RoundsInv
    BY DEF WaitingInv
  <2>1. CASE LlrpNext
    <3>1. NumbersInv'
      BY <2>0, <2>1, NumbersKept
    <3>2. OldInv'
      <4>1. CASE ModuleStep \/ LinkFails
        BY <2>0, <4>1, OldModule
      <4>2. CASE Others
        BY <2>0, <4>2, OldOthers
      <4>3. QED
        BY <2>1, <4>1, <4>2 DEF LlrpNext, Others
    <3>3. QED
      BY <3>1, <3>2
  <2>2. CASE UNCHANGED llrpVars
    <3>1. /\ requests' = requests /\ wire' = wire /\ pending' = pending /\ receiver' = receiver
          /\ caller' = caller /\ history' = history /\ specs' = specs /\ buffer' = buffer
          /\ roSpecId' = roSpecId
      BY <2>2 DEF llrpVars
    <3>2. NumbersInv'
      BY <3>1 DEF NumbersInv, Booting, OnAdd
    <3>3. /\ (Finding' <=> Finding) /\ (Ending' <=> Ending) /\ (Past' <=> Past)
          /\ (OldGone' <=> OldGone) /\ (Inherited' <=> Inherited) /\ LastStop' = LastStop
          /\ (Booting' <=> Booting) /\ (Calm' <=> Calm)
      BY <3>1 DEF Finding, Ending, Past, EndScripts, OldGone, InRead, Inherited, LastStop, Booting,
                  Calm
    <3>4. \A m : Stopped(m)' <=> Stopped(m)
      BY <3>3 DEF Stopped
    <3>5. OldInv'
      BY <3>1, <3>3, <3>4 DEF OldInv
    <3>6. QED
      BY <3>2, <3>5
  <2>3. QED
    BY <2>1, <2>2
<1>3. QED
  BY <1>1, <1>2, WaitingInvariant, PTL DEF LlrpSpec

(* What a step makes of the array of reports.                              *)
LEMMA BufferSources ==
  ASSUME TypesInv, Others
  PROVE  \/ buffer' = buffer
         \/ \E m \in Message :
              /\ \/ wire # <<>> /\ m = Head(wire) /\ m.kind = "report"
                 \/ receiver.at = "store" /\ m = receiver.holds[1]
              /\ buffer' = Stored(buffer, m) /\ (ReceiverStores \/ CommandTakes)
         \/ Awaits /\ buffer' = [buffer EXCEPT !.tagsRemaining = Tags(buffer.reports)]
         \/ /\ buffer'.reports = <<>>
            /\ \/ AwaitsReport \/ StartsReading \/ Joins \/ StreamTakes
               \/ Read \/ ExecuteTagOp \/ EndsWalk
         \/ TakesTag
<1>0. wire \in Seq(Message) /\ receiver \in Receivers /\ buffer \in Buffers
  BY DEF TypesInv, SocketTypes, ThreadTypes, DataTypes
<1>1. CASE ReceiverStores
  <2>1. receiver.at = "store" /\ buffer' = Stored(buffer, receiver.holds[1])
    BY <1>1 DEF ReceiverStores
  <2>2. receiver.holds \in Seq(Message) /\ Len(receiver.holds) = 1
    BY <1>0, <2>1 DEF Receivers, TypesInv, ThreadTypes
  <2>3. receiver.holds[1] \in Message
    BY <2>2, ElementOfSeq
  <2>4. QED
    BY <1>1, <2>1, <2>3
<1>2. CASE CommandTakes
  <2>1. wire # <<>>
        /\ \/ buffer' = buffer
           \/ Head(wire).kind = "report" /\ buffer' = Stored(buffer, Head(wire))
    BY <1>2 DEF CommandTakes
  <2>2. Head(wire) \in Message
    BY <1>0, <2>1, Shortened
  <2>3. QED
    BY <1>2, <2>1, <2>2
<1>3. CASE Awaits
  BY <1>3 DEF Awaits
<1>4. CASE AwaitsReport \/ StartsReading \/ Joins \/ StreamTakes \/ Read \/ ExecuteTagOp \/ EndsWalk
  <2>1. buffer' = buffer \/ buffer'.reports = <<>>
    <3>1. CASE AwaitsReport \/ Joins \/ StreamTakes \/ EndsWalk \/ ExecuteTagOp
      <4>1. \E live \in BOOLEAN :
              buffer' \in {buffer, [buffer EXCEPT !.live = live, !.reports = <<>>]}
        <5>1. CASE AwaitsReport
          BY <5>1 DEF AwaitsReport
        <5>2. CASE Joins
          BY <5>2 DEF Joins
        <5>3. CASE StreamTakes
          BY <5>3 DEF StreamTakes
        <5>4. CASE EndsWalk
          BY <5>4 DEF EndsWalk
        <5>5. CASE ExecuteTagOp
          BY <5>5 DEF ExecuteTagOp
        <5>6. QED
          BY <3>1, <5>1, <5>2, <5>3, <5>4, <5>5
      <4>2. ASSUME NEW live PROVE [buffer EXCEPT !.live = live, !.reports = <<>>].reports = <<>>
        <5>1. "reports" \in DOMAIN [buffer EXCEPT !.live = live]
          BY <1>0 DEF Buffers
        <5> DEFINE c == [buffer EXCEPT !.live = live]
        <5>2. [buffer EXCEPT !.live = live, !.reports = <<>>] = [c EXCEPT !.reports = <<>>]
          OBVIOUS
        <5> HIDE DEF c
        <5>3. [c EXCEPT !.reports = <<>>].reports = <<>>
          BY <5>1 DEF c
        <5>4. QED
          BY <5>2, <5>3
      <4>3. QED
        BY <4>1, <4>2
    <3>2. CASE StartsReading \/ Read
      <4>1. buffer' = EmptyBuffer
        BY <3>2 DEF StartsReading, Read
      <4>2. QED
        BY <4>1 DEF EmptyBuffer
    <3>3. QED
      BY <1>4, <3>1, <3>2
  <2>2. QED
    BY <1>4, <2>1
<1>5. CASE \/ ReceiverGoes \/ ReceiverTakes \/ ReceiverIdles \/ ReceiverFails \/ SendsOnly \/ Counts
           \/ Quiets \/ Sends \/ CommandTimesOut \/ StopsReading \/ StreamAsks \/ StreamTimesOut
           \/ Connect \/ AskParameter \/ StartReading \/ StopReading \/ Destroy
  <2>1. buffer' = buffer
    BY <1>5 DEF ReceiverGoes, ReceiverTakes, ReceiverIdles, ReceiverFails, SendsOnly, Counts,
                Quiets, Sends, CommandTimesOut, StopsReading, StreamAsks, StreamTimesOut,
                Connect, AskParameter, StartReading, StopReading, Destroy
  <2>2. QED
    BY <2>1
<1>6. QED
  BY <1>1, <1>2, <1>3, <1>4, <1>5 DEF Others, ReceiverStep, CommandStep, StreamStep, UserStep

(* How a synchronous read goes on, is done or fails.                       *)
LEMMA ReadOutcome ==
  ASSUME TypesInv, ScriptInv, Commanding, InRead
  PROVE  /\ caller.script # <<>>
         /\ \E h : /\ Like(h)
                   /\ \/ Stays(h) /\ caller'.script = caller.script
                      \/ Advanced(Tail(caller.script), h)
                      \/ Finishes(FALSE, h)
         /\ Head(caller.script) = "await" =>
              Awaits /\ (events # -1 \/ \E h : Like(h) /\ Finishes(FALSE, h))
<1>0. caller \in Callers /\ history \in Histories /\ caller.doing = "read"
      /\ caller.script \in Seq(Steps) /\ caller.script # <<>> /\ Like(history)
  BY CommandOutcome DEF TypesInv, CallerTypes, DataTypes, InRead, Callers, Commanding, Like
<1> DEFINE Goal == \E h : /\ Like(h)
                          /\ \/ Stays(h) /\ caller'.script = caller.script
                             \/ Advanced(Tail(caller.script), h)
                             \/ Finishes(FALSE, h)
<1>1. ASSUME NEW h, Like(h), Failed(h) PROVE Goal
  BY <1>1 DEF Failed
<1>2. ASSUME SendsOnly PROVE Goal
  <2>1. CASE Ended("failed", history)
    <3>1. Finishes("failed" = "ok", history)
      BY <1>0, <2>1, EndedFields
    <3>2. Finishes(FALSE, history)
      BY <3>1
    <3>3. QED
      BY <1>0, <3>2
  <2>2. CASE Proceed(Tail(caller.script), history)
    BY <1>0, <2>2, ProceedFields
  <2>3. QED
    BY <1>2, <2>1, <2>2 DEF SendsOnly
<1>3. ASSUME Counts PROVE Goal
  BY <1>0, <1>3, ProceedFields DEF Counts
<1>4. ASSUME Quiets PROVE Goal
  <2>1. Stays(history) /\ caller'.script = caller.script
    BY <1>0, <1>4 DEF Quiets, Callers, Stays
  <2>2. QED
    BY <1>0, <2>1
<1>5. ASSUME Sends PROVE Goal
  <2>1. CASE link = "closed"
    BY <1>0, <1>1, <1>5, <2>1, FailsFields DEF Sends
  <2>2. CASE link # "closed"
    <3>1. Stays(history) /\ caller'.script = caller.script
      BY <1>0, <1>5, <2>2 DEF Sends, Callers, Stays
    <3>2. QED
      BY <1>0, <3>1
  <2>3. QED
    BY <2>1, <2>2
<1>6. ASSUME CommandTakes PROVE Goal
  <2> DEFINE h == [history EXCEPT !.eaten =
                     @ \/ (continuousReading /\ Head(wire).kind = "keepAlive")]
  <2>1. h \in Histories /\ Like(h)
    BY <1>0 DEF Histories, Like
  <2>2. Head(caller.script) # "getROSpecs"
    <3>1. Head(caller.script) \in Asked("read")
      BY <1>0, HeadTailProperties DEF ScriptInv
    <3>2. QED
      BY <3>1 DEF Asked, Opening, PlanSteps
  <2>3. \/ \E m : Answered(m, h)
        \/ history' = h /\ caller' = caller /\ stream' = stream
    BY <1>6 DEF CommandTakes
  <2> HIDE DEF h
  <2>4. ASSUME NEW m, Answered(m, h) PROVE Goal
    <3>1. CASE m.ok
      <4>1. PICK more : /\ Head(caller.script) # "getROSpecs" => more = <<>>
                        /\ Advanced(more \o Tail(caller.script), h)
        BY <1>0, <2>1, <2>4, <3>1, AnsweredFields
      <4>2. <<>> \o Tail(caller.script) = Tail(caller.script)
        BY <1>0, HeadTailProperties, ConcatEmptySeq
      <4>3. QED
        BY <2>1, <2>2, <4>1, <4>2
    <3>2. CASE ~m.ok
      BY <1>0, <1>1, <2>1, <2>4, <3>2, AnsweredFields
    <3>3. QED
      BY <3>1, <3>2
  <2>5. CASE history' = h /\ caller' = caller /\ stream' = stream
    <3>1. Stays(h) /\ caller'.script = caller.script
      BY <2>5 DEF Stays
    <3>2. QED
      BY <2>1, <3>1
  <2>6. QED
    BY <2>3, <2>4, <2>5
<1>7. ASSUME CommandTimesOut PROVE Goal
  <2> DEFINE h == [history EXCEPT !.troubles = history.troubles + 1]
  <2>1. h \in Histories
    BY SMTT(30), <1>0 DEF Histories
  <2>2. Like(h)
    BY <1>0, <2>1 DEF Histories, Like
  <2>3. Fails(history) \/ Fails(h)
    BY <1>7 DEF CommandTimesOut
  <2> HIDE DEF h
  <2>4. Failed(history) \/ Failed(h)
    BY <1>0, <2>1, <2>3, FailsFields
  <2>5. QED
    BY <1>0, <1>1, <2>2, <2>4
<1> DEFINE Waited == events # -1 \/ \E h : Like(h) /\ Finishes(FALSE, h)
<1>8. ASSUME Awaits PROVE Goal /\ Waited
  <2> DEFINE h == [history EXCEPT !.lost = TRUE]
  <2>1. h \in Histories /\ Like(h)
    BY <1>0 DEF Histories, Like
  <2>2. (events = -1 /\ Ended("lost", h)) \/ (events # -1 /\ Proceed(Tail(caller.script), history))
    BY <1>8 DEF Awaits
  <2> HIDE DEF h
  <2>3. Finishes("lost" = "ok", h) \/ (events # -1 /\ Advanced(Tail(caller.script), history))
    BY <1>0, <2>1, <2>2, EndedFields, ProceedFields
  <2>4. Finishes(FALSE, h) \/ (events # -1 /\ Advanced(Tail(caller.script), history))
    BY <2>3
  <2>5. Goal /\ Waited
    BY <1>0, <2>1, <2>4
  <2>6. QED
    BY <2>5
<1>9. Head(caller.script) = "await" => Awaits
  BY DEF Commanding, SendsOnly, Counts, Quiets, Sends, CommandTakes, CommandTimesOut, AwaitsReport,
         FirstIs, Commands, TypesInv, CallerTypes
<1>10. ~AwaitsReport
  <2>1. Head(caller.script) \in Asked("read")
    BY <1>0, HeadTailProperties DEF ScriptInv
  <2>2. QED
    BY <2>1 DEF AwaitsReport, FirstIs, Asked, Opening, PlanSteps
<1>11. Goal
  BY <1>2, <1>3, <1>4, <1>5, <1>6, <1>7, <1>8, <1>10 DEF Commanding
<1>12. QED
  BY <1>0, <1>8, <1>9, <1>11

(* The tags of full reports.                                               *)
LEMMA FullTags ==
  ASSUME NEW reports \in Seq(Reports), \A i \in DOMAIN reports : reports[i].tags = ReportSize
  PROVE  Tags(reports) = Len(reports) * ReportSize
<1>1. Len(reports) \in Nat /\ DOMAIN reports = 1..Len(reports) /\ ReportSize \in Nat \ {0}
  BY LenProperties, LlrpAssumption
<1> DEFINE S == 1..Len(reports)
           T == 1..ReportSize
<1>2. UNION {{i} \X (1..reports[i].tags) : i \in DOMAIN reports} = S \X T
  <2>1. \A i \in S : reports[i].tags = ReportSize
    BY <1>1
  <2>2. {{i} \X (1..reports[i].tags) : i \in DOMAIN reports} = {{i} \X T : i \in S}
    BY <1>1, <2>1
  <2> HIDE DEF S, T
  <2>3. UNION {{i} \X T : i \in S} = S \X T
    OBVIOUS
  <2>4. QED
    BY <2>2, <2>3
<1>0. ASSUME NEW n \in Nat PROVE IsFiniteSet(1..n) /\ Cardinality(1..n) = n
  <2>1. 1 \in Int /\ n \in Int
    OBVIOUS
  <2>2. IsFiniteSet(1..n) /\ Cardinality(1..n) = IF 1 > n THEN 0 ELSE n - 1 + 1
    BY <2>1, FS_Interval
  <2>3. QED
    BY <2>2
<1>3. IsFiniteSet(S) /\ Cardinality(S) = Len(reports)
  BY <1>0, <1>1
<1>4. IsFiniteSet(T) /\ Cardinality(T) = ReportSize
  BY <1>0, <1>1
<1> HIDE DEF S, T
<1>5. Cardinality(S \X T) = Cardinality(S) * Cardinality(T)
  BY <1>3, <1>4, FS_Product
<1>6. QED
  BY <1>2, <1>3, <1>4, <1>5 DEF Tags

(* The reports that are on their way and those that were stored are full,  *)
(* unless an empty one came; the walk stays inside the array.              *)
FullInv == ~history.empty =>
  /\ \A i \in DOMAIN wire : wire[i].kind = "report" => wire[i].tags = ReportSize
  /\ receiver.at = "store" => receiver.holds[1].tags = ReportSize
  /\ \A i \in DOMAIN buffer.reports :
       buffer.reports[i].tags = ReportSize /\ ~buffer.reports[i].freed

Over == caller.doing \in {"closing", "destroyed"}
Gathered == InRead /\ ~Has(caller.script, {"await"})
Ahead(current) == IF current > 1 THEN current - 1 ELSE 0
Walking ==
  /\ buffer.live
  /\ buffer.bufIndex <= Len(buffer.reports)
  /\ buffer.current > 0 => buffer.bufIndex >= 1
  /\ history.returned + Ahead(buffer.current) = buffer.bufIndex * ReportSize
  /\ history.returned + buffer.tagsRemaining <= Len(buffer.reports) * ReportSize
WalkInv ==
  /\ InRead => /\ buffer.live /\ buffer.bufIndex = 0 /\ buffer.current = 0
               /\ history.returned = 0
  /\ ~history.empty /\ (Gathered \/ (history.walk = "on" /\ ~Over)) => Walking

(* A report that is stored.                                                *)
LEMMA StoredFields ==
  ASSUME buffer \in Buffers, NEW m \in Message
  PROVE  LET b == Stored(buffer, m) IN
         /\ b.live /\ b.bufIndex = buffer.bufIndex /\ b.current = buffer.current
         /\ b.tagsRemaining = buffer.tagsRemaining
         /\ b.reports = IF buffer.live THEN Append(buffer.reports, ReportOf(m)) ELSE <<ReportOf(m)>>
         /\ ReportOf(m) \in Reports /\ ReportOf(m).tags = m.tags /\ ReportOf(m).freed = FALSE
<1>1. /\ ReportOf(m) \in Reports /\ ReportOf(m).tags = m.tags /\ ReportOf(m).freed = FALSE
  BY DEF ReportOf, Reports, Message
<1>2. CASE buffer.live
  <2>1. Stored(buffer, m) = [buffer EXCEPT !.reports = Append(@, ReportOf(m))]
    BY <1>2 DEF Stored, ReportOf
  <2>2. QED
    BY <1>1, <1>2, <2>1 DEF Buffers
<1>3. CASE ~buffer.live
  <2>1. Stored(buffer, m) = [buffer EXCEPT !.live = TRUE, !.reports = <<ReportOf(m)>>]
    BY <1>3 DEF Stored, ReportOf
  <2>2. QED
    BY <1>1, <1>3, <2>1 DEF Buffers
<1>4. QED
  BY <1>2, <1>3

(* What a step makes of the account of the tags.                           *)
Unread == history'.returned = history.returned /\ history'.reported = history.reported
NewReading == Read \/ ExecuteTagOp \/ StartsReading

(* What a step makes of the account of a walk.                             *)
LEMMA HistorySources ==
  ASSUME TypesInv, Others
  PROVE  /\ history'.empty = history.empty
         /\ \/ Unread /\ history'.walk = history.walk
            \/ Commanding /\ InRead /\ Unread
            \/ EndsWalk /\ Unread /\ history'.walk = "done"
            \/ TakesTag
            \/ /\ NewReading
               /\ history'.walk = "none" /\ history'.returned = 0 /\ history'.reported = 0
<1>0. history \in Histories
  BY DEF TypesInv, DataTypes
<1>1. CASE Commanding
  <2>1. PICK h : Like(h) /\ (Stays(h) \/ Finishes(TRUE, h) \/ Finishes(FALSE, h))
    BY <1>1, CommandOutcome DEF Commanding
  <2>2. /\ Unread /\ history'.empty = history.empty
        /\ ~InRead => history'.walk = history.walk
    BY <2>1 DEF Like, Stays, Finishes, SameButBroken, Unread, InRead
  <2>3. QED
    BY <1>1, <2>2
<1>2. CASE NewReading
  <2>1. PICK loose \in BOOLEAN :
          \/ history' = NewRound(loose)
          \/ history' = [NewRound(loose) EXCEPT !.operations = history.operations]
    BY <1>2 DEF NewReading, Read, ExecuteTagOp, StartsReading
  <2> DEFINE h == NewRound(loose)
  <2>2. /\ h \in Histories /\ h.walk = "none" /\ h.returned = 0 /\ h.reported = 0
        /\ h.empty = history.empty
    BY <1>0, NewRoundType, NewRoundFields
  <2> HIDE DEF h
  <2>3. /\ history'.walk = h.walk /\ history'.returned = h.returned
        /\ history'.reported = h.reported /\ history'.empty = h.empty
    BY <2>1, <2>2 DEF h, Histories
  <2>4. QED
    BY <1>2, <2>2, <2>3
<1>3. CASE EndsWalk
  <2>1. history' = [history EXCEPT !.walk = "done"]
    BY <1>3 DEF EndsWalk
  <2>2. QED
    BY <1>0, <1>3, <2>1 DEF Unread, Histories
<1>4. CASE TakesTag
  <2>1. history' = history \/ history' = [history EXCEPT !.returned = @ + 1]
    BY <1>4 DEF TakesTag
  <2>2. QED
    BY <1>0, <1>4, <2>1 DEF Histories
<1>5. CASE \/ ReceiverStep \/ StreamStep \/ StopsReading \/ Joins \/ Connect \/ AskParameter
           \/ StartReading \/ StopReading \/ Destroy
  <2>1. \/ history' = history
        \/ history' = [history EXCEPT !.operations = @ + 1]
        \/ history' = [history EXCEPT !.broken = @ \cup {history.round}, !.lost = TRUE]
    BY <1>5 DEF ReceiverStep, ReceiverGoes, ReceiverTakes, ReceiverStores, ReceiverIdles,
                ReceiverFails, StreamStep, StreamAsks, StreamTakes, StreamTimesOut, StopsReading,
                Joins, Connect, AskParameter, StartReading, StopReading, Destroy
  <2>2. QED
    BY <1>0, <2>1 DEF Unread, Histories
<1>6. QED
  BY <1>1, <1>2, <1>3, <1>4, <1>5 DEF Others, CommandStep, Commanding, UserStep, NewReading

(* Empty reports are told of.                                              *)
LEMMA FullModule ==
  ASSUME TypesInv, FullInv, ModuleStep \/ LinkFails
  PROVE  FullInv'
<1>0. wire \in Seq(Message) /\ history \in Histories /\ specs \subseteq ROSpecs
  BY DEF TypesInv, SocketTypes, DataTypes
<1>1. receiver' = receiver /\ buffer' = buffer /\ (history.empty => history'.empty)
  BY <1>0 DEF ModuleStep, ModuleHandles, ModuleReports, ModuleEnds, ModulePulses, LinkFails,
              Histories
<1>2. \/ wire' = wire
      \/ \E m \in Message : /\ wire' = Append(wire, m)
                            /\ m.kind = "report" => m.tags = ReportSize \/ history'.empty
  <2>1. CASE ModuleHandles
    <3> DEFINE q == Head(requests)
    <3>1. /\ q \in Commanded
          /\ \/ wire' = wire
             \/ /\ q.command \notin {"enableEvents", "getReport"}
                /\ \E ok \in BOOLEAN : wire' = Append(wire, Answer(q.command, ok))
      BY <2>1, Handled DEF ModuleHandles
    <3>2. CASE wire' = wire
      BY <3>2
    <3>3. ASSUME NEW ok \in BOOLEAN, wire' = Append(wire, Answer(q.command, ok)),
                 q.command \notin {"enableEvents", "getReport"}
          PROVE  \E m \in Message : wire' = Append(wire, m) /\ m.kind # "report"
      <4>1. Answer(q.command, ok) \in Message
        BY <3>1, <3>3, MessageTypes DEF Commanded
      <4>2. Answer(q.command, ok).kind = "answer"
        BY DEF Answer
      <4>3. QED
        BY <3>3, <4>1, <4>2
    <3>4. QED
      BY <3>1, <3>2, <3>3
  <2>2. CASE ModuleReports
    <3>1. PICK s \in specs, n \in {ReportSize} \cup (IF MayHappen("empty") THEN {0} ELSE {}) :
            /\ wire' = Append(wire, Report(s.round, n))
            /\ history' = [history EXCEPT !.empty = @ \/ n = 0,
                         !.troubles = IF n = 0 THEN @ + 1 ELSE @,
                         !.reported = IF s.round = history.round THEN @ + n ELSE @]
      BY <2>2 DEF ModuleReports
    <3>2. n \in Nat /\ (n = ReportSize \/ n = 0)
      BY <3>1, LlrpAssumption
    <3>3. Report(s.round, n) \in Message /\ Report(s.round, n).tags = n
      BY <1>0, <3>2, MessageTypes DEF ROSpecs, Report
    <3>4. n = 0 => history'.empty
      BY <1>0, <3>1 DEF Histories
    <3>5. QED
      BY <3>1, <3>2, <3>3, <3>4
  <2>3. CASE ModuleEnds
    <3>1. EndOfROSpec \in Message /\ EndOfROSpec.kind = "event"
      BY MessageTypes DEF EndOfROSpec
    <3>2. QED
      BY <2>3, <3>1, EndReported
  <2>4. CASE ModulePulses
    <3>1. KeepAlive \in Message /\ KeepAlive.kind = "keepAlive"
      BY MessageTypes DEF KeepAlive
    <3>2. QED
      BY <2>4, <3>1 DEF ModulePulses
  <2>5. CASE LinkFails
    BY <2>5 DEF LinkFails
  <2>6. QED
    BY <2>1, <2>2, <2>3, <2>4, <2>5 DEF ModuleStep
<1>3. ASSUME ~history'.empty, NEW i \in DOMAIN wire', wire'[i].kind = "report"
      PROVE  wire'[i].tags = ReportSize
  <2>1. CASE wire' = wire
    BY <1>1, <1>3, <2>1 DEF FullInv
  <2>2. ASSUME NEW m \in Message, wire' = Append(wire, m),
               m.kind = "report" => m.tags = ReportSize \/ history'.empty
        PROVE  wire'[i].tags = ReportSize
    <3>1. /\ DOMAIN wire = 1..Len(wire) /\ Len(wire) \in Nat /\ DOMAIN wire' = 1..(Len(wire) + 1)
          /\ wire'[Len(wire) + 1] = m /\ \A k \in 1..Len(wire) : wire'[k] = wire[k]
      BY <1>0, <2>2, Lengthened
    <3>2. i \in 1..Len(wire) \/ i = Len(wire) + 1
      BY <1>3, <3>1
    <3>3. QED
      BY <1>1, <1>3, <2>2, <3>1, <3>2 DEF FullInv
  <2>3. QED
    BY <1>2, <2>1, <2>2
<1>4. QED
  BY <1>1, <1>3 DEF FullInv

(* n reports and one more.                                                 *)
LEMMA OneReportMore ==
  ASSUME NEW n \in Nat, NEW r \in Nat
  PROVE  (n + 1) * r = n * r + r
OBVIOUS

(* The next tag is in the report that is walked, or in the next one.       *)
LEMMA TagTaken ==
  ASSUME TypesInv, FullInv, Walking, ~history.empty, TakesTag
  PROVE  \E idx \in DOMAIN buffer.reports, cur \in Nat \ {0} :
           /\ fault' = Touched({idx}) /\ idx >= 1
           /\ buffer' = [buffer EXCEPT !.bufIndex = idx, !.current = cur, !.tagsRemaining = @ - 1]
           /\ history' = [history EXCEPT !.returned = @ + 1]
           /\ history.returned + 1 + Ahead(cur) = idx * ReportSize
           /\ idx <= Len(buffer.reports)
<1>0. /\ buffer.bufIndex \in Nat /\ buffer.current \in Nat /\ buffer.tagsRemaining \in Nat
      /\ history.returned \in Nat /\ ReportSize \in Nat \ {0}
      /\ Len(buffer.reports) \in Nat /\ DOMAIN buffer.reports = 1..Len(buffer.reports)
  <2>1. buffer.reports \in Seq(Reports)
    BY DEF TypesInv, DataTypes, Buffers
  <2>2. QED
    BY <2>1, LenProperties, LlrpAssumption DEF TypesInv, DataTypes, Buffers, Histories
<1> DEFINE stay == buffer.current > 1
           idx  == IF stay THEN buffer.bufIndex ELSE buffer.bufIndex + 1
           cur  == IF stay THEN buffer.current - 1 ELSE buffer.reports[idx].tags
<1>1. idx \in 1..Len(buffer.reports)
  <2>1. CASE stay
    BY <1>0, <2>1 DEF Walking
  <2>2. CASE ~stay
    <3>1. history.returned = buffer.bufIndex * ReportSize
      BY <1>0, <2>2 DEF Walking, Ahead
    <3>2. buffer.tagsRemaining > 0
      BY DEF TakesTag
    <3>3. buffer.bufIndex # Len(buffer.reports)
      <4> DEFINE p == buffer.bufIndex * ReportSize
      <4>1. p \in Nat
        BY <1>0
      <4>2. ASSUME buffer.bufIndex = Len(buffer.reports) PROVE p + buffer.tagsRemaining <= p
        BY <3>1, <4>2 DEF Walking
      <4> HIDE DEF p
      <4>3. QED
        BY <1>0, <3>2, <4>1, <4>2
    <3>4. QED
      BY <1>0, <2>2, <3>3 DEF Walking
  <2>3. QED
    BY <2>1, <2>2
<1>2. cur \in Nat \ {0} /\ (~stay => cur = ReportSize)
  <2>1. ~stay => cur = ReportSize
    BY <1>0, <1>1 DEF FullInv
  <2>2. stay => cur \in Nat \ {0}
    BY <1>0
  <2>3. QED
    BY <1>0, <2>1, <2>2
<1>3. history.returned + 1 + Ahead(cur) = idx * ReportSize
  <2>1. CASE stay
    <3> DEFINE p == buffer.bufIndex * ReportSize
    <3>1. p \in Nat /\ idx * ReportSize = p /\ history.returned + (buffer.current - 1) = p
      BY <1>0, <2>1 DEF Walking, Ahead
    <3>2. Ahead(cur) = buffer.current - 2
      BY <1>0, <2>1 DEF Ahead
    <3> HIDE DEF p, idx, cur
    <3>3. QED
      BY <1>0, <3>1, <3>2
  <2>2. CASE ~stay
    <3> DEFINE p == buffer.bufIndex * ReportSize
    <3>1. p \in Nat /\ history.returned = p
      BY <1>0, <2>2 DEF Walking, Ahead
    <3>2. idx * ReportSize = p + ReportSize
      BY <1>0, <2>2, OneReportMore
    <3>3. Ahead(cur) = ReportSize - 1
      BY <1>0, <1>2, <2>2 DEF Ahead
    <3> HIDE DEF p, idx, cur
    <3>4. QED
      BY <1>0, <3>1, <3>2, <3>3
  <2>3. QED
    BY <2>1, <2>2
<1>4. /\ fault' = Touched({idx})
      /\ buffer' = [buffer EXCEPT !.bufIndex = idx, !.current = cur, !.tagsRemaining = @ - 1]
      /\ history' = [history EXCEPT !.returned = @ + 1]
  <2>1. ~(idx > Len(buffer.reports)) /\ cur > 0
    BY <1>0, <1>1, <1>2
  <2>2. QED
    BY <2>1 DEF TakesTag
<1>5. /\ idx \in DOMAIN buffer.reports /\ cur \in Nat \ {0}
      /\ idx >= 1 /\ idx <= Len(buffer.reports)
  <2> HIDE DEF idx, cur
  <2>1. QED
    BY <1>0, <1>1, <1>2
<1> HIDE DEF idx, cur
<1> USE <1>5
<1>6. WITNESS idx \in DOMAIN buffer.reports, cur \in Nat \ {0}
<1>7. QED
  BY <1>3, <1>4

(* An array that gets one report more.                                     *)
LEMMA ReportsAdded ==
  ASSUME NEW s \in Seq(Reports), NEW r \in Reports,
         NEW t, t \in {<<r>>, Append(s, r)}, NEW i \in DOMAIN t
  PROVE  t[i] = r \/ (i \in DOMAIN s /\ t[i] = s[i])
<1>1. CASE t = <<r>>
  BY <1>1
<1>2. CASE t = Append(s, r)
  <2>1. /\ DOMAIN s = 1..Len(s) /\ Len(s) \in Nat /\ DOMAIN t = 1..(Len(s) + 1)
        /\ t[Len(s) + 1] = r /\ \A k \in 1..Len(s) : t[k] = s[k]
    BY <1>2, Lengthened
  <2>2. i \in 1..Len(s) \/ i = Len(s) + 1
    BY <2>1
  <2>3. QED
    BY <2>1, <2>2
<1>3. QED
  BY <1>1, <1>2

(* The walk is on when a tag is taken.                                     *)
LEMMA TakingWalks ==
  ASSUME WalkInv, TakesTag, ~history.empty
  PROVE  Walking
BY DEF WalkInv, TakesTag, Over

(* A tag that is taken leaves the reports alone.                           *)
LEMMA TagLeft ==
  ASSUME TypesInv, FullInv, WalkInv, ~history.empty, TakesTag
  PROVE  \E idx \in DOMAIN buffer.reports, cur \in Nat \ {0} :
           /\ fault' = Touched({idx}) /\ idx >= 1 /\ idx <= Len(buffer.reports)
           /\ buffer'.reports = buffer.reports /\ buffer'.live = buffer.live
           /\ buffer'.bufIndex = idx /\ buffer'.current = cur
           /\ buffer'.tagsRemaining = buffer.tagsRemaining - 1 /\ buffer.tagsRemaining > 0
           /\ history'.returned = history.returned + 1 /\ history'.reported = history.reported
           /\ history'.walk = history.walk
           /\ history.returned + 1 + Ahead(cur) = idx * ReportSize
<1>1. Walking
  BY TakingWalks
<1>2. PICK idx \in DOMAIN buffer.reports, cur \in Nat \ {0} :
           /\ fault' = Touched({idx}) /\ idx >= 1
           /\ buffer' = [buffer EXCEPT !.bufIndex = idx, !.current = cur, !.tagsRemaining = @ - 1]
           /\ history' = [history EXCEPT !.returned = @ + 1]
           /\ history.returned + 1 + Ahead(cur) = idx * ReportSize
           /\ idx <= Len(buffer.reports)
  BY <1>1, TagTaken
<1>3. buffer \in Buffers /\ history \in Histories
  BY DEF TypesInv, DataTypes
<1>4. ASSUME NEW a, NEW b, NEW c
      PROVE  LET f == [buffer EXCEPT !.bufIndex = a, !.current = b, !.tagsRemaining = c] IN
             /\ f.reports = buffer.reports /\ f.live = buffer.live
             /\ f.bufIndex = a /\ f.current = b /\ f.tagsRemaining = c
  BY <1>3 DEF Buffers
<1>5. /\ buffer'.reports = buffer.reports /\ buffer'.live = buffer.live
      /\ buffer'.bufIndex = idx /\ buffer'.current = cur
      /\ buffer'.tagsRemaining = buffer.tagsRemaining - 1
  BY <1>2, <1>4
<1>6. ASSUME NEW a
      PROVE  LET f == [history EXCEPT !.returned = a] IN
             f.returned = a /\ f.reported = history.reported /\ f.walk = history.walk
  BY <1>3 DEF Histories
<1>7. history'.returned = history.returned + 1 /\ history'.reported = history.reported
      /\ history'.walk = history.walk
  BY <1>2, <1>6
<1>8. buffer.tagsRemaining > 0
  BY DEF TakesTag
<1>9. QED
  BY <1>2, <1>5, <1>7, <1>8

(* What the threads of the host do keeps reports full.                     *)
LEMMA FullOthers ==
  ASSUME TypesInv, HandshakeInv, FullInv, WalkInv, Others
  PROVE  FullInv'
<1>0. wire \in Seq(Message) /\ receiver \in Receivers /\ buffer \in Buffers
      /\ buffer.reports \in Seq(Reports)
  BY DEF TypesInv, SocketTypes, ThreadTypes, DataTypes, Buffers
<1>1. history'.empty = history.empty
  BY HistorySources
<1>2. ASSUME ~history.empty, NEW i \in DOMAIN wire', wire'[i].kind = "report"
      PROVE  wire'[i].tags = ReportSize
  <2>1. CASE wire' = wire
    BY <1>2, <2>1 DEF FullInv
  <2>2. CASE wire # <<>> /\ wire' = Tail(wire)
    <3>1. /\ Len(wire) \in Nat \ {0} /\ DOMAIN wire = 1..Len(wire)
          /\ DOMAIN wire' = 1..(Len(wire) - 1)
          /\ \A k \in 1..(Len(wire) - 1) : wire'[k] = wire[k + 1]
      BY <1>0, <2>2, Shortened
    <3>2. i \in 1..(Len(wire) - 1) /\ i + 1 \in DOMAIN wire /\ wire'[i] = wire[i + 1]
      BY <1>2, <3>1
    <3>3. QED
      BY <1>2, <3>2 DEF FullInv
  <2>3. QED
    BY <2>1, <2>2, OthersOutside DEF Outside
<1>3. ASSUME wire # <<>> PROVE 1 \in DOMAIN wire /\ Head(wire) = wire[1]
  BY <1>0, <1>3, Shortened
<1>4. ASSUME ~history.empty, receiver'.at = "store" PROVE receiver'.holds[1].tags = ReportSize
  <2>1. CASE receiver.at = "store" /\ receiver'.holds = receiver.holds
    BY <1>4, <2>1 DEF FullInv
  <2>2. CASE ReceiverTakes /\ Head(wire).kind = "report" /\ receiver'.holds = <<Head(wire)>>
    <3>1. wire # <<>>
      BY <2>2 DEF ReceiverTakes
    <3>2. receiver'.holds[1] = wire[1] /\ wire[1].kind = "report" /\ 1 \in DOMAIN wire
      BY <1>3, <2>2, <3>1
    <3>3. QED
      BY <1>4, <3>2 DEF FullInv
  <2>3. QED
    BY <1>4, <2>1, <2>2, StoreSteps
<1>5. ASSUME ~history.empty, NEW i \in DOMAIN buffer'.reports
      PROVE  buffer'.reports[i].tags = ReportSize /\ ~buffer'.reports[i].freed
  <2>1. CASE buffer'.reports = buffer.reports
    BY <1>5, <2>1 DEF FullInv
  <2>2. ASSUME NEW m \in Message,
               \/ wire # <<>> /\ m = Head(wire) /\ m.kind = "report"
               \/ receiver.at = "store" /\ m = receiver.holds[1],
               buffer' = Stored(buffer, m)
        PROVE  buffer'.reports[i].tags = ReportSize /\ ~buffer'.reports[i].freed
    <3>1. m.tags = ReportSize
      BY <1>3, <1>5, <2>2 DEF FullInv
    <3>2. /\ buffer'.reports \in {<<ReportOf(m)>>, Append(buffer.reports, ReportOf(m))}
          /\ ReportOf(m) \in Reports /\ ReportOf(m).tags = m.tags /\ ReportOf(m).freed = FALSE
      BY <1>0, <2>2, StoredFields
    <3>3. buffer'.reports[i] = ReportOf(m)
          \/ (i \in DOMAIN buffer.reports /\ buffer'.reports[i] = buffer.reports[i])
      BY <1>0, <1>5, <3>2, ReportsAdded
    <3>4. QED
      BY <1>5, <3>1, <3>2, <3>3 DEF FullInv
  <2>3. CASE buffer' = [buffer EXCEPT !.tagsRemaining = Tags(buffer.reports)]
    <3>1. buffer'.reports = buffer.reports
      BY <1>0, <2>3 DEF Buffers
    <3>2. QED
      BY <2>1, <3>1
  <2>4. CASE buffer'.reports = <<>>
    BY <1>5, <2>4
  <2>5. CASE TakesTag
    <3>1. buffer'.reports = buffer.reports
      BY <1>5, <2>5, TagLeft
    <3>2. QED
      BY <2>1, <3>1
  <2>6. QED
    BY <2>1, <2>2, <2>3, <2>4, <2>5, BufferSources
<1>6. QED
  BY <1>1, <1>2, <1>4, <1>5 DEF FullInv

(* A report more changes nothing of the walk.                              *)
LEMMA WalksOn ==
  ASSUME TypesInv, Walking, history'.returned = history.returned,
         buffer' = buffer \/ \E m \in Message : buffer' = Stored(buffer, m)
  PROVE  Walking'
<1>0. buffer \in Buffers /\ history \in Histories /\ buffer.reports \in Seq(Reports)
      /\ ReportSize \in Nat \ {0}
  BY LlrpAssumption DEF TypesInv, DataTypes, Buffers
<1>1. CASE buffer' = buffer
  BY <1>1 DEF Walking, Ahead
<1>2. ASSUME NEW m \in Message, buffer' = Stored(buffer, m) PROVE Walking'
  <2>1. buffer.live
    BY DEF Walking
  <2>2. /\ buffer'.live /\ buffer'.bufIndex = buffer.bufIndex /\ buffer'.current = buffer.current
        /\ buffer'.tagsRemaining = buffer.tagsRemaining
        /\ buffer'.reports = Append(buffer.reports, ReportOf(m)) /\ ReportOf(m) \in Reports
    BY <1>0, <1>2, <2>1, StoredFields
  <2>3. Len(buffer.reports) \in Nat /\ Len(buffer'.reports) = Len(buffer.reports) + 1
    BY <1>0, <2>2, Lengthened
  <2> DEFINE n == Len(buffer.reports)
             p == n * ReportSize
             x == buffer.bufIndex
             y == history.returned + buffer.tagsRemaining
             m2 == Len(buffer'.reports)
             q == m2 * ReportSize
  <2>4. q = p + ReportSize /\ p \in Nat
    BY <1>0, <2>3, OneReportMore
  <2>5. n \in Nat /\ x \in Nat /\ y \in Nat /\ x <= n /\ y <= p /\ m2 = n + 1
    BY <1>0, <2>3 DEF Walking, Buffers, Histories
  <2>6. y <= q /\ x <= m2
    <3> HIDE DEF n, p, x, y, q, m2
    <3>1. QED
      BY <1>0, <2>4, <2>5
  <2>7. /\ buffer'.bufIndex = x /\ history'.returned + buffer'.tagsRemaining = y
        /\ history'.returned + Ahead(buffer'.current) = buffer'.bufIndex * ReportSize
        /\ buffer'.current > 0 => buffer'.bufIndex >= 1
    BY <2>2 DEF Walking
  <2>8. /\ buffer'.bufIndex <= Len(buffer'.reports)
        /\ history'.returned + buffer'.tagsRemaining <= Len(buffer'.reports) * ReportSize
    <3>1. buffer'.bufIndex <= m2 /\ history'.returned + buffer'.tagsRemaining <= q
      <4> HIDE DEF x, y, m2, q
      <4>1. QED
        BY <2>6, <2>7
    <3>2. QED
      BY <3>1
  <2> HIDE DEF n, p, x, y, q, m2
  <2>9. QED
    BY <2>2, <2>7, <2>8 DEF Walking
<1>3. QED
  BY <1>1, <1>2

(* The steps inside a read.                                                *)
LEMMA ReadingSteps ==
  ASSUME TypesInv, HandshakeInv, ModeInv, Others, InRead', ~Read
  PROVE  /\ InRead
         /\ Commanding \/ (ReceiverStep /\ caller' = caller /\ history' = history)
<1>0. caller \in Callers
  BY DEF TypesInv, CallerTypes
<1>1. CASE Commanding
  <2>1. PICK h : Like(h) /\ (Stays(h) \/ Finishes(TRUE, h) \/ Finishes(FALSE, h))
    BY <1>1, CommandOutcome DEF Commanding
  <2>2. InRead
    BY <2>1 DEF Stays, Finishes, InRead
  <2>3. QED
    BY <1>1, <2>2
<1>2. CASE ReceiverStep
  BY <1>2 DEF ReceiverStep, ReceiverGoes, ReceiverTakes, ReceiverStores, ReceiverIdles,
              ReceiverFails, InRead
<1>3. CASE StreamStep
  <2>1. continuousReading /\ caller' = caller
    BY <1>3 DEF StreamStep, StreamAsks, StreamTakes, StreamTimesOut, continuousReading
  <2>2. QED
    BY <2>1 DEF ModeInv, InRead
<1>4. CASE StartsReading \/ StopsReading \/ Joins \/ UserStep
  BY <1>0, <1>4 DEF StartsReading, StopsReading, Joins, UserStep, Connect, ExecuteTagOp,
     AskParameter, TakesTag, EndsWalk, StartReading, StopReading, Destroy, Begin, InRead, Callers
<1>5. QED
  BY <1>1, <1>2, <1>3, <1>4 DEF Others, CommandStep, Commanding

(* A read begins the walk at the front.                                    *)
LEMMA WalkAtFront ==
  ASSUME TypesInv, HandshakeInv, ScriptInv, ModeInv, WalkInv, Others, InRead'
  PROVE  buffer'.live /\ buffer'.bufIndex = 0 /\ buffer'.current = 0 /\ history'.returned = 0
<1>0. buffer \in Buffers /\ history \in Histories
  BY DEF TypesInv, DataTypes
<1>1. CASE Read
  <2>1. buffer' = EmptyBuffer
    BY <1>1 DEF Read
  <2>2. history' = NewRound(FALSE)
    BY <1>1 DEF Read
  <2>3. history'.returned = 0
    BY <1>0, <2>2, NewRoundFields
  <2>4. QED
    BY <2>1, <2>3 DEF EmptyBuffer
<1>2. CASE ~Read
  <2>1. InRead /\ (Commanding \/ (ReceiverStep /\ caller' = caller /\ history' = history))
    BY <1>2, ReadingSteps
  <2>2. buffer.live /\ buffer.bufIndex = 0 /\ buffer.current = 0 /\ history.returned = 0
    BY <2>1 DEF WalkInv
  <2>3. history'.returned = 0
    <3>1. ~TakesTag /\ ~EndsWalk /\ ~NewReading
      BY <2>1 DEF TakesTag, EndsWalk, NewReading, Read, ExecuteTagOp, StartsReading, Idle, InRead
    <3>2. QED
      BY <2>2, <3>1, HistorySources DEF Unread
  <2>4. ~AwaitsReport
    <3>1. ASSUME AwaitsReport PROVE FALSE
      <4>1. caller.script # <<>> /\ Head(caller.script) = "awaitReport"
        BY <3>1 DEF AwaitsReport, FirstIs
      <4>2. caller.script \in Seq(Asked("read"))
        BY <2>1 DEF ScriptInv, InRead
      <4>3. Head(caller.script) \in Asked("read")
        BY <4>1, <4>2, HeadTailProperties
      <4>4. QED
        BY <4>1, <4>3 DEF Asked, Opening, PlanSteps
    <3>2. QED
      BY <3>1
  <2>5. \/ buffer' = buffer
        \/ \E m \in Message : buffer' = Stored(buffer, m)
        \/ buffer' = [buffer EXCEPT !.tagsRemaining = Tags(buffer.reports)]
    <3>1. /\ ~StartsReading /\ ~Joins /\ ~StreamTakes
          /\ ~Read /\ ~ExecuteTagOp /\ ~EndsWalk /\ ~TakesTag
      <4>1. ~continuousReading
        BY <2>1 DEF ModeInv, InRead
      <4>2. QED
        BY <2>1, <4>1 DEF TakesTag, EndsWalk, NewReading, Read, ExecuteTagOp, StartsReading, Idle,
             InRead, Joins, StreamTakes, continuousReading
    <3>2. QED
      BY <2>4, <3>1, BufferSources
  <2>6. QED
    <3>1. ASSUME NEW m \in Message, buffer' = Stored(buffer, m)
          PROVE  buffer'.live /\ buffer'.bufIndex = 0 /\ buffer'.current = 0
      BY <1>0, <2>2, <3>1, StoredFields
    <3>2. CASE buffer' = [buffer EXCEPT !.tagsRemaining = Tags(buffer.reports)]
      BY <1>0, <2>2, <2>3, <3>2 DEF Buffers
    <3>3. QED
      BY <2>2, <2>3, <2>5, <3>1, <3>2
<1>3. QED
  BY <1>1, <1>2

(* The tags are counted: the walk starts at the front.                     *)
LEMMA WalkCounted ==
  ASSUME TypesInv, FullInv, WalkInv, InRead, ~history.empty,
         history'.returned = history.returned,
         buffer' = [buffer EXCEPT !.tagsRemaining = Tags(buffer.reports)]
  PROVE  Walking'
<1>0. buffer \in Buffers /\ buffer.reports \in Seq(Reports)
      /\ ReportSize \in Nat \ {0} /\ Len(buffer.reports) \in Nat
  BY LlrpAssumption, LenProperties DEF TypesInv, DataTypes, Buffers
<1>1. buffer.live /\ buffer.bufIndex = 0 /\ buffer.current = 0 /\ history.returned = 0
  BY DEF WalkInv
<1>2. Tags(buffer.reports) = Len(buffer.reports) * ReportSize
  BY <1>0, FullTags DEF FullInv
<1>3. /\ buffer'.live /\ buffer'.bufIndex = 0 /\ buffer'.current = 0
      /\ buffer'.reports = buffer.reports /\ buffer'.tagsRemaining = Tags(buffer.reports)
  BY <1>0, <1>1 DEF Buffers
<1> DEFINE t == Len(buffer.reports) * ReportSize
<1>4. t \in Nat /\ buffer'.tagsRemaining = t /\ t = Len(buffer'.reports) * ReportSize
  BY <1>0, <1>2, <1>3
<1>5. history'.returned + buffer'.tagsRemaining <= t
  <2> HIDE DEF t
  <2>1. QED
    BY <1>1, <1>4
<1>6. Ahead(buffer'.current) = 0
  BY <1>3 DEF Ahead
<1>7. history'.returned + Ahead(buffer'.current) = buffer'.bufIndex * ReportSize
  BY <1>0, <1>1, <1>3, <1>6
<1>8. QED
  BY <1>0, <1>3, <1>4, <1>5, <1>7 DEF Walking

(* A read has gathered its reports before the step, or counts them in it.  *)
LEMMA GatheredBefore ==
  ASSUME TypesInv, HandshakeInv, ScriptInv, ModeInv, Commanding, InRead,
         Gathered' \/ history'.walk = "on"
  PROVE  Gathered \/ (Awaits /\ events # -1)
<1>0. caller.script \in Seq(Asked("read")) /\ history.walk = "none"
  BY DEF ScriptInv, ModeInv, InRead
<1>1. PICK h : /\ Like(h)
               /\ \/ Stays(h) /\ caller'.script = caller.script
                  \/ Advanced(Tail(caller.script), h)
                  \/ Finishes(FALSE, h)
  BY ReadOutcome
<1>2. caller.script # <<>>
  BY ReadOutcome
<1>3. Has(caller.script, {"await"}) <=>
        Head(caller.script) \in {"await"} \/ Has(Tail(caller.script), {"await"})
  BY <1>0, <1>2, TailHas
<1>4. CASE Stays(h) /\ caller'.script = caller.script
  <2>1. history'.walk = "none" /\ Gathered'
    BY <1>0, <1>1, <1>4 DEF Stays, Like
  <2>2. QED
    BY <1>4, <2>1 DEF Gathered, Has
<1>5. ASSUME Finishes(FALSE, h) PROVE FALSE
  <2>1. history'.walk = "none"
    BY <1>0, <1>1, <1>5 DEF Finishes, Like, InRead
  <2>2. caller'.doing = "nothing"
    BY <1>5 DEF Finishes, InRead
  <2>3. QED
    BY <2>1, <2>2 DEF Gathered, InRead
<1>6. CASE Advanced(Tail(caller.script), h)
  <2>1. CASE Head(caller.script) = "await"
    <3>1. Awaits /\ (events # -1 \/ \E k : Like(k) /\ Finishes(FALSE, k))
      BY <2>1, ReadOutcome
    <3>2. ASSUME NEW k, Like(k), Finishes(FALSE, k) PROVE FALSE
      <4>1. history'.walk = "none"
        BY <1>0, <3>2 DEF Finishes, Like, InRead
      <4>2. caller'.doing = "nothing"
        BY <3>2 DEF Finishes, InRead
      <4>3. QED
        BY <4>1, <4>2 DEF Gathered, InRead
    <3>3. QED
      BY <3>1, <3>2
  <2>2. CASE Head(caller.script) # "await"
    <3>1. CASE Tail(caller.script) = <<>>
      <4>1. ~Has(Tail(caller.script), {"await"})
        BY <3>1 DEF Has
      <4>2. QED
        BY <1>3, <2>2, <4>1 DEF Gathered
    <3>2. CASE Tail(caller.script) # <<>>
      <4>1. caller'.script = Tail(caller.script) /\ history'.walk = "none"
        BY <1>0, <1>1, <1>6, <3>2 DEF Advanced, Continues, Like
      <4>2. ~Has(Tail(caller.script), {"await"})
        BY <4>1 DEF Gathered, Has
      <4>3. QED
        BY <1>3, <2>2, <4>2 DEF Gathered
    <3>3. QED
      BY <3>1, <3>2
  <2>3. QED
    BY <2>1, <2>2
<1>7. QED
  BY <1>1, <1>4, <1>5, <1>6

(* The wait is in the script from the start.                               *)
LEMMA ReadWaits == \A plan \in Plans : Has(ReadScript(plan), {"await"})
<1> SUFFICES ASSUME NEW plan \in Plans PROVE Has(ReadScript(plan), {"await"})
  OBVIOUS
<1> DEFINE s == ReadScript(plan)
<1>1. CASE plan = "simple"
  <2>1. DOMAIN s = 1..10 /\ s[9] = "await"
    BY <1>1 DEF ReadScript, PlanScript, Simple
  <2> HIDE DEF s
  <2>2. Has(s, {"await"})
    BY <2>1 DEF Has
  <2>3. QED
    BY <2>2 DEF s
<1>2. CASE plan = "tagop"
  <2>1. DOMAIN s = 1..12 /\ s[11] = "await"
    BY <1>2 DEF ReadScript, PlanScript
  <2> HIDE DEF s
  <2>2. Has(s, {"await"})
    BY <2>1 DEF Has
  <2>3. QED
    BY <2>2 DEF s
<1>3. CASE plan = "multi"
  <2>1. DOMAIN s = 1..14 /\ s[13] = "await"
    BY <1>3 DEF ReadScript, PlanScript, Simple
  <2> HIDE DEF s
  <2>2. Has(s, {"await"})
    BY <2>1 DEF Has
  <2>3. QED
    BY <2>2 DEF s
<1>4. QED
  BY <1>1, <1>2, <1>3, LlrpAssumption

(* Who waits for what.                                                     *)
LEMMA WhoAwaits ==
  ASSUME TypesInv, ScriptInv
  PROVE  (Awaits => InRead) /\ (AwaitsReport => caller.doing = "tagop")
<1>1. ASSUME NEW c \in {"await", "awaitReport"}, FirstIs({c})
      PROVE  caller.doing = IF c = "await" THEN "read" ELSE "tagop"
  <2>1. caller.script # <<>> /\ Head(caller.script) = c
    BY <1>1 DEF FirstIs
  <2>2. caller.script \in Seq(Asked(caller.doing))
    BY DEF ScriptInv
  <2>3. c \in Asked(caller.doing)
    BY <2>1, <2>2, HeadTailProperties
  <2>4. QED
    BY <1>1, <2>3 DEF Asked, Opening, PlanSteps
<1>2. QED
  BY <1>1 DEF Awaits, AwaitsReport, InRead

(* What a step of a read makes of the array.                               *)
LEMMA BufferInRead ==
  ASSUME TypesInv, ScriptInv, ModeInv, Others, InRead
  PROVE  \/ buffer' = buffer
         \/ \E m \in Message : buffer' = Stored(buffer, m)
         \/ Awaits /\ buffer' = [buffer EXCEPT !.tagsRemaining = Tags(buffer.reports)]
<1>1. ~AwaitsReport
  BY WhoAwaits DEF InRead
<1>2. ~continuousReading
  BY DEF ModeInv, InRead
<1>3. /\ ~StartsReading /\ ~Joins /\ ~StreamTakes
      /\ ~Read /\ ~ExecuteTagOp /\ ~EndsWalk /\ ~TakesTag
  BY <1>2 DEF TakesTag, EndsWalk, Read, ExecuteTagOp, StartsReading, Idle, InRead, Joins,
              StreamTakes, continuousReading
<1>4. QED
  BY <1>1, <1>3, BufferSources

(* The reader is on its way to be destroyed for good.                      *)
LEMMA OverStays ==
  ASSUME TypesInv, HandshakeInv, Others, Over
  PROVE  Over'
<1>0. caller \in Callers
  BY DEF TypesInv, CallerTypes
<1>1. CASE Commanding
  <2>1. PICK h : Like(h) /\ (Stays(h) \/ Finishes(TRUE, h) \/ Finishes(FALSE, h))
    BY <1>1, CommandOutcome DEF Commanding
  <2>2. caller.script # <<>>
    BY <1>1, CommandOutcome DEF Commanding
  <2>3. caller.doing = "closing"
    BY <2>2 DEF HandshakeInv, CallerInv, Resting, Over
  <2>4. QED
    BY <2>1, <2>3 DEF Stays, Finishes, Over
<1>2. CASE ReceiverStep \/ StreamStep
  BY <1>2 DEF ReceiverStep, ReceiverGoes, ReceiverTakes, ReceiverStores, ReceiverIdles,
              ReceiverFails, StreamStep, StreamAsks, StreamTakes, StreamTimesOut, Over
<1>3. CASE StartsReading \/ StopsReading \/ Joins \/ UserStep
  BY <1>0, <1>3 DEF StartsReading, StopsReading, Joins, UserStep, Connect, Read, ExecuteTagOp,
     AskParameter, TakesTag, EndsWalk, StartReading, StopReading, Destroy, Begin, Idle, Over
<1>4. QED
  BY <1>1, <1>2, <1>3 DEF Others, CommandStep, Commanding

(* A tag is taken: the walk goes on.                                       *)
LEMMA WalkTaken ==
  ASSUME TypesInv, FullInv, WalkInv, ~history.empty, TakesTag
  PROVE  Walking'
<1>0. buffer \in Buffers /\ history \in Histories
  BY DEF TypesInv, DataTypes
<1>1. Walking
  BY TakingWalks
<1>2. PICK idx \in DOMAIN buffer.reports, cur \in Nat \ {0} :
           /\ idx >= 1 /\ idx <= Len(buffer.reports)
           /\ buffer'.reports = buffer.reports /\ buffer'.live = buffer.live
           /\ buffer'.bufIndex = idx /\ buffer'.current = cur
           /\ buffer'.tagsRemaining = buffer.tagsRemaining - 1 /\ buffer.tagsRemaining > 0
           /\ history'.returned = history.returned + 1
           /\ history.returned + 1 + Ahead(cur) = idx * ReportSize
  BY TagLeft
<1> DEFINE a == history.returned
           b == buffer.tagsRemaining
           c == Len(buffer.reports) * ReportSize
           d == buffer'.tagsRemaining
           e == history'.returned
<1>3. /\ a \in Nat /\ b \in Nat /\ a + b <= c /\ d = b - 1 /\ e = a + 1
      /\ c = Len(buffer'.reports) * ReportSize
  BY <1>0, <1>1, <1>2 DEF Walking, Buffers, Histories
<1>4. e + d = a + b
  <2> HIDE DEF a, b, d, e
  <2>1. QED
    BY <1>3
<1>5. e + d <= c
  BY <1>3, <1>4
<1> HIDE DEF a, b, c, d, e
<1>6. history'.returned + buffer'.tagsRemaining <= Len(buffer'.reports) * ReportSize
  BY <1>3, <1>5 DEF d, e
<1>7. buffer'.live /\ buffer'.bufIndex <= Len(buffer'.reports)
      /\ (buffer'.current > 0 => buffer'.bufIndex >= 1)
  BY <1>1, <1>2 DEF Walking
<1>8. history'.returned + Ahead(buffer'.current) = buffer'.bufIndex * ReportSize
  BY <1>2
<1>9. QED
  BY <1>6, <1>7, <1>8 DEF Walking

(* What the threads of the host do keeps a walk inside the array.          *)
LEMMA WalkOthers ==
  ASSUME TypesInv, HandshakeInv, ScriptInv, ModeInv, FullInv, WalkInv, Others, ~history.empty,
         Gathered' \/ (history'.walk = "on" /\ ~Over')
  PROVE  Walking'
<1>0. buffer \in Buffers /\ history \in Histories
  BY DEF TypesInv, DataTypes
<1>1. ASSUME InRead, Commanding PROVE Walking'
  <2>1. history'.returned = history.returned
    <3>1. ~EndsWalk /\ ~TakesTag /\ ~NewReading
      BY <1>1 DEF TakesTag, EndsWalk, NewReading, Read, ExecuteTagOp, StartsReading, Idle, InRead
    <3>2. QED
      BY <3>1, HistorySources DEF Unread
  <2>2. CASE buffer' = [buffer EXCEPT !.tagsRemaining = Tags(buffer.reports)]
    BY <1>1, <2>1, <2>2, WalkCounted
  <2>3. CASE Gathered /\ (buffer' = buffer \/ \E m \in Message : buffer' = Stored(buffer, m))
    <3>1. Walking
      BY <2>3 DEF WalkInv
    <3>2. QED
      BY <2>1, <2>3, <3>1, WalksOn
  <2>4. CASE Awaits /\ events # -1
    <3>1. buffer' = [buffer EXCEPT !.tagsRemaining = Tags(buffer.reports)]
      BY <2>4 DEF Awaits
    <3>2. QED
      BY <2>2, <3>1
  <2>5. Gathered \/ (Awaits /\ events # -1)
    BY <1>1, GatheredBefore
  <2>6. QED
    BY <1>1, <2>2, <2>3, <2>4, <2>5, BufferInRead
<1>2. ASSUME InRead, ~Commanding PROVE Walking'
  <2>0. ~Read /\ ~EndsWalk /\ ~TakesTag /\ ~NewReading
    BY <1>2 DEF TakesTag, EndsWalk, NewReading, Read, ExecuteTagOp, StartsReading, Idle, InRead
  <2>1. history'.walk = "none" /\ history'.returned = history.returned
    <3>1. history.walk = "none"
      BY <1>2 DEF ModeInv, InRead
    <3>2. QED
      BY <1>2, <2>0, <3>1, HistorySources DEF Unread
  <2>2. caller' = caller
    BY <1>2, <2>0, <2>1, ReadingSteps DEF Gathered
  <2>3. Gathered
    BY <2>1, <2>2 DEF Gathered, InRead, Has
  <2>4. Walking
    BY <2>3 DEF WalkInv
  <2>5. ~Awaits
    BY <1>2 DEF Commanding
  <2>6. buffer' = buffer \/ \E m \in Message : buffer' = Stored(buffer, m)
    BY <1>2, <2>5, BufferInRead
  <2>7. QED
    BY <2>1, <2>4, <2>6, WalksOn
<1>3. ASSUME ~InRead PROVE Walking'
  <2>1. ~Read
    <3>1. ASSUME Read PROVE FALSE
      <4>1. PICK plan \in Plans : Begin("read", plan, ReadScript(plan))
        BY <3>1 DEF Read
      <4>2. caller'.script = ReadScript(plan)
        BY <4>1 DEF Begin, TypesInv, CallerTypes, Callers
      <4>3. Has(caller'.script, {"await"})
        BY <4>2, ReadWaits
      <4>4. history'.walk = "none"
        BY <3>1, NewRoundFields, <1>0 DEF Read
      <4>5. QED
        BY <4>3, <4>4 DEF Gathered, Has
    <3>2. QED
      BY <3>1
  <2>2. history'.walk = "on" /\ ~Over'
    BY <1>3, <2>1, ReadingSteps DEF Gathered
  <2>3. CASE TakesTag
    BY <2>3, WalkTaken
  <2>4. CASE ~TakesTag
    <3>1. Unread /\ history.walk = "on"
      BY <1>3, <2>2, <2>4, HistorySources
    <3>2. Walking
      BY <2>2, <3>1, OverStays DEF WalkInv
    <3>3. ~Awaits /\ ~AwaitsReport
      BY <1>3, <3>1, WhoAwaits DEF ModeInv
    <3>4. ~continuousReading
      BY <3>1 DEF ModeInv
    <3>5. ~StreamTakes
      BY <3>4 DEF StreamTakes, continuousReading
    <3>6. ~Joins
      BY <2>2 DEF Joins, Begin, Over, TypesInv, CallerTypes, Callers
    <3>7. ~NewReading
      <4>1. ASSUME NewReading PROVE FALSE
        <5>1. history'.walk = "none"
          <6>1. PICK loose \in BOOLEAN :
                  \/ history' = NewRound(loose)
                  \/ history' = [NewRound(loose) EXCEPT !.operations = history.operations]
            BY <4>1 DEF NewReading, Read, ExecuteTagOp, StartsReading
          <6> DEFINE h == NewRound(loose)
          <6>2. h \in Histories /\ h.walk = "none"
            BY <1>0, NewRoundType, NewRoundFields
          <6> HIDE DEF h
          <6>3. history'.walk = h.walk
            BY <6>1, <6>2 DEF h, Histories
          <6>4. QED
            BY <6>2, <6>3
        <5>2. QED
          BY <2>2, <5>1
      <4>2. QED
        BY <4>1
    <3>8. ~EndsWalk
      <4>1. EndsWalk => history'.walk = "done"
        BY <1>0 DEF EndsWalk, Histories
      <4>2. QED
        BY <2>2, <4>1
    <3>9. buffer' = buffer \/ \E m \in Message : buffer' = Stored(buffer, m)
      BY <2>4, <3>3, <3>5, <3>6, <3>7, <3>8, BufferSources DEF NewReading
    <3>10. QED
      BY <3>1, <3>2, <3>9, WalksOn DEF Unread
  <2>5. QED
    BY <2>3, <2>4
<1>4. QED
  BY <1>1, <1>2, <1>3

(* So do the reader, which sends full reports, and the link.               *)
LEMMA WalkModule ==
  ASSUME TypesInv, WalkInv, ModuleStep \/ LinkFails
  PROVE  WalkInv'
<1>0. history \in Histories
  BY DEF TypesInv, DataTypes
<1>1. buffer' = buffer /\ caller' = caller
  BY DEF ModuleStep, ModuleHandles, ModuleReports, ModuleEnds, ModulePulses, LinkFails
<1>2. history'.returned = history.returned /\ history'.walk = history.walk
      /\ (history.empty => history'.empty)
  <2>1. CASE ModuleHandles
    BY <1>0, <2>1 DEF ModuleHandles, Histories
  <2>2. CASE ModuleReports
    BY <1>0, <2>2 DEF ModuleReports, Histories
  <2>3. CASE ModuleEnds \/ LinkFails
    BY <1>0, <2>3 DEF ModuleEnds, LinkFails
  <2>4. CASE ModulePulses
    BY <1>0, <2>4 DEF ModulePulses, Histories
  <2>5. QED
    BY <2>1, <2>2, <2>3, <2>4 DEF ModuleStep
<1>3. QED
  BY <1>1, <1>2 DEF WalkInv, InRead, Gathered, Over, Walking, Has

(* So does every step.                                                     *)
LEMMA FullAndWalkKept ==
  ASSUME TypesInv, HandshakeInv, ScriptInv, ModeInv, FullInv, WalkInv, LlrpNext
  PROVE  FullInv' /\ WalkInv'
<1>1. CASE ModuleStep \/ LinkFails
  BY <1>1, FullModule, WalkModule
<1>2. CASE Others
  <2>1. history'.empty = history.empty
    BY <1>2, HistorySources
  <2>2. InRead' => buffer'.live /\ buffer'.bufIndex = 0 /\ buffer'.current = 0
                   /\ history'.returned = 0
    BY <1>2, WalkAtFront
  <2>3. ~history'.empty /\ (Gathered' \/ (history'.walk = "on" /\ ~Over')) => Walking'
    BY <1>2, <2>1, WalkOthers
  <2>4. WalkInv'
    BY <2>2, <2>3 DEF WalkInv
  <2>5. QED
    BY <1>2, <2>4, FullOthers
<1>3. QED
  BY <1>1, <1>2 DEF LlrpNext, Others

(* Reports are full and walks inside the array from the start on.          *)
LEMMA WalkInvariant == LlrpSpec => [](FullInv /\ WalkInv)
<1>1. LlrpInit => FullInv /\ WalkInv
  BY DEF LlrpInit, FullInv, WalkInv, InRead, Gathered
<1>2. TypesInv /\ HandshakeInv /\ WaitingInv /\ FullInv /\ WalkInv /\ [LlrpNext]_llrpVars
        => FullInv' /\ WalkInv'
  <2> SUFFICES ASSUME TypesInv, HandshakeInv, WaitingInv, FullInv, WalkInv, [LlrpNext]_llrpVars
               PROVE  FullInv' /\ WalkInv'
    OBVIOUS
  <2>1. CASE LlrpNext
    BY <2>1, FullAndWalkKept DEF WaitingInv
  <2>2. CASE UNCHANGED llrpVars
    BY <2>2 DEF llrpVars, FullInv, WalkInv, InRead, Gathered, Over, Walking, Has
  <2>3. QED
    BY <2>1, <2>2
<1>3. QED
  BY <1>1, <1>2, WaitingInvariant, PTL DEF LlrpSpec

(* Who has waited for its ROSpecs finds nothing more of them.              *)
LEMMA AwaitsQuiet ==
  ASSUME TypesInv, HandshakeInv, WaitingInv, Calm, Awaits
  PROVE  AllQuiet
<1>0. /\ ScriptInv /\ LinkInv /\ WaitInv /\ IsFiniteSet(Awake) /\ events \in Int /\ InRead
      /\ Arriving \in Nat /\ Started \in Nat /\ Left \in Nat /\ Cardinality(Awake) \in Nat
  <2>1. ScriptInv /\ LinkInv /\ WaitInv /\ IsFiniteSet(Awake)
    BY DEF WaitingInv, WaitInv
  <2>2. QED
    BY <2>1, CountTypes, AwakeZero, WhoAwaits DEF TypesInv, DataTypes
<1>1. caller.script # <<>> /\ Head(caller.script) = "await" /\ events <= 0
  BY DEF Awaits, FirstIs
<1>2. ~Has(caller.script, CountSteps)
  <2>1. caller.script \in Seq(Asked("read")) /\ InOrder(caller.script)
    BY <1>0 DEF ScriptInv, InRead
  <2>2. /\ Len(caller.script) \in Nat \ {0} /\ DOMAIN caller.script = 1..Len(caller.script)
        /\ caller.script[1] = "await"
    BY <1>1, <2>1, Shortened
  <2>3. ASSUME NEW k \in DOMAIN caller.script PROVE caller.script[k] \notin CountSteps
    <3>1. CASE k = 1
      BY <2>2, <3>1 DEF CountSteps
    <3>2. CASE k # 1
      <4>1. 1 < k /\ 1 \in DOMAIN caller.script
        BY <2>2, <3>2
      <4>2. caller.script[k] = "notifyOff"
        BY <2>1, <2>2, <4>1 DEF InOrder
      <4>3. QED
        BY <4>2 DEF CountSteps
    <3>3. QED
      BY <3>1, <3>2
  <2>4. QED
    BY <2>3 DEF Has
<1>3. Enough
  BY <1>0, <1>2 DEF WaitInv, Counted
<1>4. Dead \/ events = 0
  BY <1>0, <1>1, <1>3 DEF Enough
<1>5. QED
  BY <1>0, <1>1, <1>3, <1>4, Settled

(* Nothing is stored that nobody knows of.                                 *)
LEMMA NothingStored ==
  ASSUME TypesInv, OldInv, AllQuiet, Calm, ~Booting, history.loose = {0}
  PROVE  receiver.at # "store"
<1> SUFFICES ASSUME receiver.at = "store" PROVE FALSE
  OBVIOUS
<1>1. receiver.holds[1].kind = "report"
  BY DEF TypesInv, ThreadTypes
<1>2. ~Own(receiver.holds[1], history.loose)
  BY DEF AllQuiet
<1>3. receiver.holds[1].round = 0
  BY <1>1, <1>2 DEF Own
<1>4. OldGone
  BY DEF OldInv, Finding, Ending, Booting
<1>5. QED
  BY <1>1, <1>3, <1>4 DEF OldGone, OldReport

(* The steps that touch the array.                                         *)
LEMMA Toucher ==
  ASSUME TypesInv, HandshakeInv, Others
  PROVE  /\ Well
         /\ \/ fault' = fault
            \/ \E used : /\ fault' = Touched(used)
                         /\ \/ Read \/ Awaits \/ AwaitsReport
                            \/ EndsWalk \/ StartsReading \/ ExecuteTagOp
            \/ TakesTag
            \/ Joins /\ fault' = Touched(Held(buffer))
            \/ Destroy /\ fault' \in {"none", "join"}
<1>1. Well
  BY DEF Others, ReceiverStep, ReceiverGoes, ReceiverTakes, ReceiverStores, ReceiverIdles,
         ReceiverFails, CommandStep, SendsOnly, Counts, Quiets, Sends, CommandTakes,
         CommandTimesOut, Awaits, AwaitsReport, StartsReading, StopsReading, Joins, StreamStep,
         StreamAsks, StreamTakes, StreamTimesOut, UserStep, Connect, Read, ExecuteTagOp,
         AskParameter, TakesTag, EndsWalk, StartReading, StopReading, Destroy
<1>2. CASE \/ ReceiverStep \/ StreamStep \/ SendsOnly \/ Counts \/ Quiets \/ Sends \/ CommandTakes
           \/ CommandTimesOut \/ StopsReading \/ Connect \/ AskParameter \/ StartReading
           \/ StopReading
  <2>1. fault' = fault
    BY <1>2 DEF ReceiverStep, ReceiverGoes, ReceiverTakes, ReceiverStores, ReceiverIdles,
         ReceiverFails, SendsOnly, Counts, Quiets, Sends, CommandTakes, CommandTimesOut,
         StopsReading, StreamStep, StreamAsks, StreamTakes, StreamTimesOut, Connect,
         AskParameter, StartReading, StopReading
  <2>2. QED
    BY <1>1, <2>1
<1>3. CASE Read \/ Awaits \/ AwaitsReport \/ EndsWalk \/ StartsReading \/ ExecuteTagOp
  <2>1. fault' = fault \/ \E used : fault' = Touched(used)
    BY <1>3 DEF Read, Awaits, AwaitsReport, EndsWalk, StartsReading, ExecuteTagOp
  <2>2. QED
    BY <1>1, <1>3, <2>1
<1>4. CASE TakesTag
  BY <1>1, <1>4
<1>5. CASE Joins
  BY <1>1, <1>5 DEF Joins
<1>6. CASE Destroy
  BY <1>1, <1>6 DEF Destroy
<1>7. QED
  BY <1>2, <1>3, <1>4, <1>5, <1>6 DEF Others, CommandStep, UserStep

(* The array is not touched while the receiver stores into it.             *)
LEMMA NoRace ==
  ASSUME TypesInv, HandshakeInv, WaitingInv, NumbersInv, OldInv, Others, fault' = "race",
         Calm', history'.loose = {0}
  PROVE  FALSE
<1>0. /\ history \in Histories /\ ModeInv /\ ScriptInv
      /\ history.round \in Nat
  BY DEF TypesInv, DataTypes, WaitingInv, Histories
<1>1. Calm /\ history.loose \subseteq {0}
  <2>1. Outside
    BY OthersOutside
  <2>2. QED
    BY <2>1 DEF Outside, Begins, Calm
<1>2. history.loose = {0}
  BY <1>0, <1>1 DEF ModeInv
<1>3. Well /\ fault = "none"
  BY Toucher DEF Well
<1>4. ASSUME NEW used, Touched(used) = "race" PROVE receiver.at = "store"
  BY <1>4 DEF Touched
<1>5. ~StartsReading /\ ~ExecuteTagOp
  <2>1. ASSUME StartsReading \/ ExecuteTagOp PROVE FALSE
    <3>1. history'.loose = NewRound(TRUE).loose
      <4>1. \/ history' = NewRound(TRUE)
            \/ history' = [NewRound(TRUE) EXCEPT !.operations = history.operations]
        BY <2>1 DEF StartsReading, ExecuteTagOp
      <4> DEFINE h == NewRound(TRUE)
      <4>2. h \in Histories
        BY <1>0, NewRoundType
      <4> HIDE DEF h
      <4>3. history'.loose = h.loose
        BY <4>1, <4>2 DEF h, Histories
      <4>4. QED
        BY <4>3 DEF h
    <3>2. history.round + 1 \in history'.loose
      BY <1>0, <3>1, NewRoundFields
    <3>3. QED
      BY <1>0, <3>2
  <2>2. QED
    BY <2>1
<1>6. ~AwaitsReport
  <2>1. ASSUME AwaitsReport PROVE FALSE
    <3>1. caller.doing = "tagop"
      BY <1>0, <2>1, WhoAwaits
    <3>2. history.round \in history.loose /\ history.round >= 1
      BY <1>0, <3>1 DEF ModeInv, NumbersInv
    <3>3. QED
      BY <1>0, <1>2, <3>2
  <2>2. QED
    BY <2>1
<1>7. ~Joins
  <2>1. ASSUME Joins PROVE FALSE
    <3>1. receiver.at = "exit" /\ fault' = Touched(Held(buffer))
      BY <2>1 DEF Joins
    <3>2. QED
      BY <1>4, <3>1
  <2>2. QED
    BY <2>1
<1>8. (Read \/ Awaits \/ EndsWalk \/ TakesTag) /\ receiver.at = "store"
  <2>1. CASE TakesTag
    <3>1. \E used : fault' = Touched(used)
      BY <2>1 DEF TakesTag
    <3>2. QED
      BY <1>4, <2>1, <3>1
  <2>2. CASE ~TakesTag
    <3>1. Read \/ Awaits \/ EndsWalk
      BY <1>3, <1>5, <1>6, <1>7, <2>2, Toucher
    <3>2. \E used : fault' = Touched(used)
      BY <1>3, <1>5, <1>6, <1>7, <2>2, Toucher
    <3>3. QED
      BY <1>4, <3>1, <3>2
  <2>3. QED
    BY <2>1, <2>2
<1>9. AllQuiet /\ ~Booting
  <2>1. CASE Awaits
    <3>1. AllQuiet
      BY <1>1, <2>1, AwaitsQuiet
    <3>2. InRead
      BY <1>0, <2>1, WhoAwaits
    <3>3. QED
      BY <3>1, <3>2 DEF InRead, Booting
  <2>2. CASE Read \/ EndsWalk \/ TakesTag
    <3>1. caller.doing = "nothing"
      BY <2>2 DEF Read, Idle, EndsWalk, TakesTag
    <3>2. ~Counted /\ ~Booting
      BY <3>1 DEF Counted, InRead, Booting
    <3>3. QED
      BY <1>1, <3>2 DEF WaitingInv, WaitInv
  <2>3. QED
    BY <1>8, <2>1, <2>2
<1>10. QED
  BY <1>1, <1>2, <1>8, <1>9, NothingStored

(* What is used has not been freed, and lies in the array.                 *)
LEMMA NoFreed ==
  ASSUME TypesInv, HandshakeInv, FullInv, WalkInv, Others, fault' \in {"freed", "walk"}
  PROVE  history'.empty
<1> SUFFICES ASSUME ~history'.empty PROVE FALSE
  OBVIOUS
<1>0. ~history.empty /\ fault = "none"
  BY HistorySources, Toucher DEF Well
<1>1. buffer \in Buffers /\ buffer.reports \in Seq(Reports)
      /\ DOMAIN buffer.reports = 1..Len(buffer.reports) /\ Len(buffer.reports) \in Nat
  BY LenProperties DEF TypesInv, DataTypes, Buffers
<1>2. \A i \in DOMAIN buffer.reports : ~buffer.reports[i].freed
  BY <1>0 DEF FullInv
<1>3. ASSUME NEW used, used \subseteq DOMAIN buffer.reports, fault' = Touched(used) PROVE FALSE
  BY <1>2, <1>3 DEF Touched
<1>4. Held(buffer) \subseteq DOMAIN buffer.reports /\ {} \subseteq DOMAIN buffer.reports
  BY DEF Held
<1>5. CASE TakesTag
  <2>1. PICK idx \in DOMAIN buffer.reports : fault' = Touched({idx})
    BY <1>0, <1>5, TagLeft
  <2>2. QED
    BY <1>3, <2>1
<1>6. CASE EndsWalk
  <2>1. Walking
    BY <1>0, <1>6 DEF EndsWalk, WalkInv, Over
  <2>2. 1..buffer.bufIndex \subseteq DOMAIN buffer.reports
    BY <1>1, <2>1 DEF Walking, Buffers
  <2>3. fault' = Touched(1..buffer.bufIndex)
    BY <1>6 DEF EndsWalk
  <2>4. QED
    BY <1>3, <2>2, <2>3
<1>7. CASE Read \/ Awaits \/ AwaitsReport \/ StartsReading \/ ExecuteTagOp \/ Joins
  <2>1. fault' = fault \/ fault' = Touched({}) \/ fault' = Touched(Held(buffer))
    BY <1>7 DEF Read, Awaits, AwaitsReport, StartsReading, ExecuteTagOp, Joins
  <2>2. QED
    BY <1>0, <1>3, <1>4, <2>1
<1>8. QED
  BY <1>0, <1>5, <1>6, <1>7, Toucher

(* The array of reports is not freed, counted or walked through            *)
(* (TMR_LLRP_hasMoreTags, TMR_LLRP_getNextTag) while the receiver thread   *)
(* stores into it, unless an operation was given up or left ROSpecs        *)
(* running by design; and unless a report came without tags no freed       *)
(* report is used and the walk stays inside the array.                     *)
THEOREM MemorySafeCorrect == LlrpSpec => []MemorySafe
<1>1. LlrpInit => MemorySafe
  BY DEF LlrpInit, MemorySafe
<1>2. TypesInv /\ HandshakeInv /\ WaitingInv /\ NumbersInv /\ OldInv /\ FullInv /\ WalkInv
        /\ MemorySafe /\ [LlrpNext]_llrpVars
        => MemorySafe'
  <2> SUFFICES ASSUME TypesInv, HandshakeInv, WaitingInv, NumbersInv, OldInv, FullInv, WalkInv,
                      MemorySafe, [LlrpNext]_llrpVars
               PROVE  MemorySafe'
    OBVIOUS
  <2>1. CASE ModuleStep \/ LinkFails
    <3>1. Well /\ fault' = fault
      BY <2>1 DEF ModuleStep, ModuleHandles, ModuleReports, ModuleEnds, ModulePulses, LinkFails
    <3>2. QED
      BY <3>1 DEF Well, MemorySafe
  <2>2. CASE Others
    <3>1. fault' = "race" => history'.broken # {} \/ history'.loose # {0}
      BY <2>2, NoRace DEF Calm
    <3>2. fault' \in {"freed", "walk"} => history'.empty
      BY <2>2, NoFreed
    <3>3. QED
      BY <3>1, <3>2 DEF MemorySafe
  <2>3. CASE UNCHANGED llrpVars
    BY <2>3 DEF llrpVars, MemorySafe
  <2>4. QED
    BY <2>1, <2>2, <2>3 DEF LlrpNext, Others
<1>3. QED
  BY <1>1, <1>2, WaitingInvariant, OldInvariant, WalkInvariant, PTL DEF LlrpSpec

(* The account of the tags.                                                *)
ReportMessages == {m \in Message : m.kind = "report"}
Heard == Count(wire, ReportMessages) + (IF receiver.at = "store" THEN 1 ELSE 0)
           + Len(buffer.reports)
Sound == Calm /\ history.loose = {0} /\ ~history.empty
CountInv == Sound =>
  /\ InRead => history.reported = Heard * ReportSize
  /\ Gathered \/ history.walk = "on" => history.reported = history.returned + buffer.tagsRemaining
  /\ history.walk = "done" => history.reported = history.returned

(* A read that has gathered its reports, or none: nothing is on its way.   *)
LEMMA GatheredQuiet ==
  ASSUME TypesInv, WaitingInv, Calm, Gathered \/ ~InRead
  PROVE  AllQuiet
<1>0. /\ ScriptInv /\ LinkInv /\ WaitInv /\ IsFiniteSet(Awake)
  BY DEF WaitingInv, WaitInv
<1>1. CASE ~InRead
  BY <1>0, <1>1 DEF WaitInv, Counted
<1>2. CASE Gathered
  <2>1. InRead /\ ~Has(caller.script, {"await"}) /\ InOrder(caller.script)
    BY <1>0, <1>2 DEF Gathered, ScriptInv, InRead
  <2>2. \A k \in DOMAIN caller.script : caller.script[k] = "notifyOff"
    BY <2>1 DEF InOrder, Has
  <2>3. ~Has(caller.script, CountSteps)
    BY <2>2 DEF Has, CountSteps
  <2>4. Enough
    BY <1>0, <2>1, <2>3 DEF WaitInv, Counted
  <2>5. events <= 0 /\ (Dead \/ events = 0)
    <3>1. events = 0 \/ (Dead /\ events <= 0)
      BY <2>1, <2>4 DEF Enough
    <3>2. QED
      BY <3>1
  <2>6. QED
    BY <1>0, <2>4, <2>5, Settled
<1>3. QED
  BY <1>1, <1>2

(* Then no ROSpec of the last operation is active.                         *)
LEMMA QuietRound ==
  ASSUME TypesInv, RoundsInv, AllQuiet, history.round \notin history.loose,
         NEW s \in specs, s.state = "active"
  PROVE  s.round # history.round
<1> SUFFICES ASSUME s.round = history.round PROVE FALSE
  OBVIOUS
<1>1. s.timed
  BY DEF RoundsInv, Rounded
<1>2. s.id \in Nat
  BY DEF TypesInv, SocketTypes, ROSpecs
<1>3. s.id \in Awake
  BY <1>1, <1>2 DEF Awake
<1>4. QED
  BY <1>3 DEF AllQuiet

(* Nothing is on its way that nobody knows of.                             *)
LEMMA NothingLeft ==
  ASSUME TypesInv, OldInv, AllQuiet, Calm, ~Booting, history.loose = {0}
  PROVE  Count(wire, ReportMessages) = 0 /\ receiver.at # "store"
<1>1. wire \in Seq(Message) /\ Len(wire) \in Nat /\ DOMAIN wire = 1..Len(wire)
  BY LenProperties DEF TypesInv, SocketTypes
<1>2. OldGone
  BY DEF OldInv, Finding, Ending, Booting
<1>3. ASSUME NEW i \in 1..Len(wire) PROVE wire[i] \notin ReportMessages
  <2>1. ~Own(wire[i], history.loose) /\ ~OldReport(wire[i])
    BY <1>1, <1>2 DEF AllQuiet, OldGone
  <2>2. QED
    BY <2>1 DEF Own, OldReport, ReportMessages
<1>4. QED
  BY <1>1, <1>3, CountPart, NothingStored

(* A report that comes in a read is of that read.                          *)
LEMMA OwnReport ==
  ASSUME TypesInv, OwnInv, OldInv, Calm, history.loose = {0}, InRead,
         NEW s \in specs, s.state = "active"
  PROVE  s.round = history.round
<1>1. OldGone
  BY DEF OldInv, Finding, Ending, InRead
<1>2. s.round # 0
  BY <1>1 DEF OldGone, Running
<1>3. Owned(s.round, history, caller.doing)
  BY DEF OwnInv
<1>4. QED
  BY <1>2, <1>3 DEF Owned, Calm, InRead

(* What is counted.                                                        *)
LEMMA HeardType ==
  ASSUME TypesInv
  PROVE  /\ Heard \in Nat /\ Count(wire, ReportMessages) \in Nat /\ Len(buffer.reports) \in Nat
         /\ wire \in Seq(Message) /\ buffer.reports \in Seq(Reports)
<1>1. wire \in Seq(Message) /\ Len(wire) \in Nat /\ buffer.reports \in Seq(Reports)
      /\ Len(buffer.reports) \in Nat
  BY LenProperties DEF TypesInv, SocketTypes, DataTypes, Buffers
<1>2. Count(wire, ReportMessages) \in Nat
  BY <1>1, CountPart
<1>3. QED
  BY <1>1, <1>2 DEF Heard

(* A report the reader sends is counted when it is sent, and is on its     *)
(* way.                                                                    *)
LEMMA CountModule ==
  ASSUME TypesInv, HandshakeInv, WaitingInv, OwnInv, OldInv, CountInv, ModuleStep \/ LinkFails
  PROVE  CountInv'
<1>0. /\ history \in Histories /\ wire \in Seq(Message) /\ ReportSize \in Nat \ {0}
      /\ ModeInv /\ RoundsInv /\ history.reported \in Nat /\ specs \subseteq ROSpecs
  BY LlrpAssumption DEF TypesInv, SocketTypes, DataTypes, WaitingInv, Histories
<1>1. receiver' = receiver /\ buffer' = buffer /\ caller' = caller
  BY DEF ModuleStep, ModuleHandles, ModuleReports, ModuleEnds, ModulePulses, LinkFails
<1>2. ASSUME history'.reported = history.reported, history'.returned = history.returned,
             history'.walk = history.walk, Sound' => Sound,
             wire' = wire \/ \E m \in Message : wire' = Append(wire, m) /\ m \notin ReportMessages
      PROVE  CountInv'
  <2>1. Count(wire', ReportMessages) = Count(wire, ReportMessages)
    <3>1. ASSUME NEW m \in Message, wire' = Append(wire, m), m \notin ReportMessages
          PROVE  Count(wire', ReportMessages) = Count(wire, ReportMessages)
      <4>1. Count(wire', ReportMessages)
              = Count(wire, ReportMessages) + (IF m \in ReportMessages THEN 1 ELSE 0)
        BY <1>0, <3>1, CountAppend
      <4>2. Count(wire, ReportMessages) \in Nat
        BY HeardType
      <4>3. QED
        BY <3>1, <4>1, <4>2
    <3>2. QED
      BY <1>2, <3>1
  <2>2. Heard' = Heard
    BY <1>1, <2>1 DEF Heard
  <2>3. (InRead' <=> InRead) /\ (Gathered' <=> Gathered)
    BY <1>1 DEF InRead, Gathered, Has
  <2>4. QED
    BY <1>1, <1>2, <2>2, <2>3 DEF CountInv
<1>3. CASE ModuleHandles
  <2> DEFINE q == Head(requests)
  <2>1. /\ history'.reported = history.reported /\ history'.returned = history.returned
        /\ history'.walk = history.walk /\ history'.empty = history.empty
    BY <1>0, <1>3 DEF ModuleHandles, Histories
  <2>2. /\ q \in Commanded
        /\ history'.loose = history.loose /\ history'.broken = history.broken
        /\ \/ wire' = wire
           \/ /\ q.command \notin {"enableEvents", "getReport"}
              /\ \E ok \in BOOLEAN : wire' = Append(wire, Answer(q.command, ok))
    BY <1>3, Handled DEF ModuleHandles
  <2>3. ASSUME NEW ok \in BOOLEAN, q.command \notin {"enableEvents", "getReport"}
        PROVE  Answer(q.command, ok) \in Message /\ Answer(q.command, ok) \notin ReportMessages
    <3>1. Answer(q.command, ok) \in Message
      BY <2>2, <2>3, MessageTypes DEF Commanded
    <3>2. Answer(q.command, ok).kind = "answer"
      BY DEF Answer
    <3>3. QED
      BY <3>1, <3>2 DEF ReportMessages
  <2> HIDE DEF q
  <2>4. wire' = wire \/ \E m \in Message : wire' = Append(wire, m) /\ m \notin ReportMessages
    BY <2>2, <2>3
  <2>5. Sound' => Sound
    BY <2>1, <2>2 DEF Sound, Calm
  <2>6. QED
    BY <1>2, <2>1, <2>4, <2>5
<1>4. CASE ModuleEnds \/ ModulePulses \/ LinkFails
  <2>1. /\ history'.reported = history.reported /\ history'.returned = history.returned
        /\ history'.walk = history.walk /\ (Sound' => Sound)
    BY <1>0, <1>4 DEF ModuleEnds, ModulePulses, LinkFails, Histories, Sound, Calm
  <2>2. /\ EndOfROSpec \in Message /\ EndOfROSpec.kind = "event"
        /\ KeepAlive \in Message /\ KeepAlive.kind = "keepAlive"
    BY MessageTypes DEF EndOfROSpec, KeepAlive
  <2>3. wire' = wire \/ wire' = Append(wire, EndOfROSpec) \/ wire' = Append(wire, KeepAlive)
    BY <1>4 DEF ModuleEnds, ModulePulses, LinkFails
  <2>4. wire' = wire \/ \E m \in Message : wire' = Append(wire, m) /\ m \notin ReportMessages
    BY <2>2, <2>3 DEF ReportMessages
  <2>5. QED
    BY <1>2, <2>1, <2>4
<1>5. CASE ModuleReports
  <2>1. PICK s \in specs, n \in {ReportSize} \cup (IF MayHappen("empty") THEN {0} ELSE {}) :
          /\ s.state = "active"
          /\ wire' = Append(wire, Report(s.round, n))
          /\ history' = [history EXCEPT !.empty = @ \/ n = 0,
                         !.troubles = IF n = 0 THEN @ + 1 ELSE @,
                         !.reported = IF s.round = history.round THEN @ + n ELSE @]
    BY <1>5 DEF ModuleReports
  <2>2. n \in Nat /\ (n = 0 \/ n = ReportSize)
    BY <1>0, <2>1
  <2>3. /\ history'.reported = IF s.round = history.round THEN history.reported + n
                                                           ELSE history.reported
        /\ history'.returned = history.returned /\ history'.walk = history.walk
        /\ history'.loose = history.loose /\ history'.broken = history.broken
        /\ history'.round = history.round
    BY <1>0, <2>1 DEF Histories
  <2>4. (history.empty => history'.empty) /\ (n = 0 => history'.empty)
    BY <1>0, <2>1 DEF Histories
  <2>5. Sound' => Sound /\ n = ReportSize
    BY <2>2, <2>3, <2>4 DEF Sound, Calm
  <2>6. (InRead' <=> InRead) /\ (Gathered' <=> Gathered)
    BY <1>1 DEF InRead, Gathered, Has
  <2>7. ASSUME Sound', InRead PROVE history'.reported = Heard' * ReportSize
    <3>1. Sound /\ n = ReportSize /\ history.reported = Heard * ReportSize
      BY <2>5, <2>7 DEF CountInv
    <3>2. history'.reported = history.reported + ReportSize
      BY <2>1, <2>3, <2>7, <3>1, OwnReport DEF Sound
    <3>3. Report(s.round, n) \in ReportMessages
      <4>1. Report(s.round, n) \in Message /\ Report(s.round, n).kind = "report"
        BY <1>0, <2>2, MessageTypes DEF ROSpecs, Report
      <4>2. QED
        BY <4>1 DEF ReportMessages
    <3>4. Count(wire', ReportMessages) = Count(wire, ReportMessages) + 1
      <4>1. Report(s.round, n) \in Message
        BY <3>3 DEF ReportMessages
      <4>2. Count(wire', ReportMessages) = Count(wire, ReportMessages)
              + (IF Report(s.round, n) \in ReportMessages THEN 1 ELSE 0)
        BY <1>0, <2>1, <4>1, CountAppend
      <4>3. QED
        BY <3>3, <4>2
    <3>5. Heard' = Heard + 1 /\ Heard \in Nat
      <4> DEFINE a == Count(wire, ReportMessages)
                 a2 == Count(wire', ReportMessages)
                 b == IF receiver.at = "store" THEN 1 ELSE 0
                 c == Len(buffer.reports)
      <4>1. Heard = a + b + c /\ Heard' = a2 + b + c
        BY <1>1 DEF Heard
      <4>2. a2 = a + 1 /\ a \in Nat /\ b \in Nat /\ c \in Nat
        BY <3>4, HeardType
      <4> HIDE DEF a, a2, b, c
      <4>3. QED
        BY <4>1, <4>2
    <3>6. (Heard + 1) * ReportSize = Heard * ReportSize + ReportSize
      BY <1>0, <3>5, OneReportMore
    <3>7. QED
      BY <3>1, <3>2, <3>5, <3>6
  <2>8. ASSUME Sound', Gathered \/ history.walk # "none" PROVE history'.reported = history.reported
    <3>1. Gathered \/ ~InRead
      BY <1>0, <2>8 DEF ModeInv, InRead
    <3>2. AllQuiet
      BY <2>5, <2>8, <3>1, GatheredQuiet DEF Sound
    <3>3. history.round \notin history.loose
      BY <1>0, <2>8 DEF ModeInv, Gathered
    <3>4. s.round # history.round
      BY <1>0, <2>1, <3>2, <3>3, QuietRound
    <3>5. QED
      BY <2>3, <3>4
  <2>9. ASSUME Sound', Gathered \/ history.walk = "on"
        PROVE  history'.reported = history'.returned + buffer'.tagsRemaining
    BY <1>1, <2>3, <2>5, <2>8, <2>9 DEF CountInv
  <2>10. ASSUME Sound', history.walk = "done" PROVE history'.reported = history'.returned
    BY <2>3, <2>5, <2>8, <2>10 DEF CountInv
  <2>11. QED
    BY <2>3, <2>6, <2>7, <2>9, <2>10 DEF CountInv
<1>6. QED
  BY <1>3, <1>4, <1>5 DEF ModuleStep

(* The account was sound if it is.                                         *)
LEMMA SoundBefore ==
  ASSUME TypesInv, HandshakeInv, ModeInv, Others, Sound'
  PROVE  Sound
<1>1. Outside /\ history'.empty = history.empty
  BY OthersOutside, HistorySources
<1>2. history.broken \subseteq history'.broken /\ history.loose \subseteq history'.loose
  BY <1>1 DEF Outside, Begins
<1>3. QED
  BY <1>1, <1>2 DEF Sound, Calm, ModeInv

(* A step inside a read moves the reports and loses none.                  *)
LEMMA HeardStays ==
  ASSUME TypesInv, HandshakeInv, ScriptInv, ModeInv, WalkInv, Others, InRead, InRead'
  PROVE  Heard' = Heard
<1>0. /\ wire \in Seq(Message) /\ receiver \in Receivers /\ buffer \in Buffers /\ buffer.live
      /\ buffer.reports \in Seq(Reports) /\ caller.doing = "read" /\ ~continuousReading
  BY HeardType DEF TypesInv, ThreadTypes, DataTypes, WalkInv, InRead, ModeInv
<1> DEFINE a  == Count(wire, ReportMessages)
           a2 == Count(wire', ReportMessages)
           b  == IF receiver.at = "store" THEN 1 ELSE 0
           b2 == IF receiver'.at = "store" THEN 1 ELSE 0
           c  == Len(buffer.reports)
           c2 == Len(buffer'.reports)
<1>1. Heard = a + b + c /\ Heard' = a2 + b2 + c2 /\ a \in Nat /\ c \in Nat /\ b \in Nat
  BY HeardType DEF Heard
<1>2. ASSUME wire # <<>>, wire' = Tail(wire)
      PROVE  /\ a2 \in Nat /\ a = a2 + (IF Head(wire) \in ReportMessages THEN 1 ELSE 0)
             /\ (Head(wire) \in ReportMessages <=> Head(wire).kind = "report")
             /\ Head(wire) \in Message
  <2>1. a = a2 + (IF Head(wire) \in ReportMessages THEN 1 ELSE 0) /\ a2 \in Nat
    BY <1>0, <1>2, CountTail
  <2>2. Head(wire) \in Message
    BY <1>0, <1>2, Shortened
  <2>3. QED
    BY <2>1, <2>2 DEF ReportMessages
<1>3. ASSUME NEW m \in Message, buffer' = Stored(buffer, m) PROVE c2 = c + 1
  <2>1. buffer'.reports = Append(buffer.reports, ReportOf(m)) /\ ReportOf(m) \in Reports
    BY <1>0, <1>3, StoredFields
  <2>2. QED
    BY <1>0, <2>1, Lengthened
<1>4. ~Read
  BY <1>0 DEF Read, Idle
<1>5. CASE ReceiverStores
  <2>1. /\ receiver.at = "store" /\ buffer' = Stored(buffer, receiver.holds[1]) /\ wire' = wire
        /\ receiver' = LoopEnds
    BY <1>5 DEF ReceiverStores
  <2>2. receiver.holds[1] \in Message
    <3>1. receiver.holds \in Seq(Message) /\ Len(receiver.holds) = 1
      BY <1>0, <2>1 DEF Receivers, TypesInv, ThreadTypes
    <3>2. QED
      BY <3>1, ElementOfSeq
  <2>3. c2 = c + 1 /\ b = 1 /\ b2 = 0 /\ a2 = a
    BY <1>0, <1>3, <2>1, <2>2, LoopEndsType
  <2> HIDE DEF a, a2, b, b2, c, c2
  <2>4. QED
    BY <1>1, <2>3
<1>6. CASE ReceiverTakes
  <2>1. /\ receiver.at = "select" /\ wire # <<>> /\ wire' = Tail(wire) /\ buffer' = buffer
        /\ IF Head(wire).kind = "report"
           THEN receiver' = [receiver EXCEPT !.at = "store", !.holds = <<Head(wire)>>]
           ELSE receiver' = LoopEnds
    BY <1>6 DEF ReceiverTakes
  <2>2. c2 = c /\ b = 0
    BY <2>1
  <2>3. b2 = IF Head(wire).kind = "report" THEN 1 ELSE 0
    BY <1>0, <2>1, LoopEndsType DEF Receivers
  <2>4. /\ a2 \in Nat /\ a = a2 + (IF Head(wire) \in ReportMessages THEN 1 ELSE 0)
        /\ (Head(wire) \in ReportMessages <=> Head(wire).kind = "report")
    BY <1>2, <2>1
  <2>5. a = a2 + b2
    BY <2>3, <2>4
  <2> HIDE DEF a, a2, b, b2, c, c2
  <2>6. b2 \in Nat
    BY <2>3 DEF b2
  <2>7. QED
    BY <1>1, <2>2, <2>4, <2>5, <2>6
<1>7. CASE ReceiverGoes \/ ReceiverIdles \/ ReceiverFails
  <2>1. /\ wire' = wire /\ buffer' = buffer /\ receiver.at # "store"
        /\ (receiver' = LoopEnds \/ receiver'.at = "select")
    BY <1>0, <1>7 DEF ReceiverGoes, ReceiverIdles, ReceiverFails, Receivers
  <2>2. receiver'.at # "store"
    BY <1>0, <2>1, LoopEndsType
  <2>3. QED
    BY <1>1, <2>1, <2>2
<1>8. CASE Commanding /\ ~CommandTakes
  <2>1. wire' = wire
    BY <1>8 DEF Commanding, SendsOnly, Counts, Quiets, Sends, CommandTimesOut, Awaits, AwaitsReport
  <2>2. receiver'.at = receiver.at
    <3>1. \/ receiver' = receiver \/ receiver' = Resumed
          \/ receiver' = [receiver EXCEPT !.enabled = FALSE]
      <4>1. CASE SendsOnly \/ Counts \/ Awaits \/ AwaitsReport
        BY <4>1 DEF SendsOnly, Counts, Awaits, AwaitsReport
      <4>2. CASE Quiets
        BY <4>2 DEF Quiets
      <4>3. CASE Sends
        BY <4>3 DEF Sends
      <4>4. CASE CommandTimesOut
        BY <4>4 DEF CommandTimesOut
      <4>5. QED
        BY <1>8, <4>1, <4>2, <4>3, <4>4 DEF Commanding
    <3>2. QED
      BY <1>0, <3>1, ResumedType DEF Receivers
  <2>3. buffer'.reports = buffer.reports
    <3>1. ~AwaitsReport
      BY <1>0, WhoAwaits
    <3>2. buffer' = buffer \/ buffer' = [buffer EXCEPT !.tagsRemaining = Tags(buffer.reports)]
      BY <1>8, <3>1 DEF Commanding, SendsOnly, Counts, Quiets, Sends, CommandTimesOut, Awaits
    <3>3. QED
      BY <1>0, <3>2 DEF Buffers
  <2>4. QED
    BY <1>1, <2>1, <2>2, <2>3
<1>9. CASE CommandTakes
  <2> DEFINE m == Head(wire)
             h == [history EXCEPT !.eaten = @ \/ (continuousReading /\ m.kind = "keepAlive")]
  <2>1. wire # <<>> /\ wire' = Tail(wire)
    BY <1>9 DEF CommandTakes
  <2>2. buffer' = IF m.kind = "report" THEN Stored(buffer, m) ELSE buffer
    BY <1>9 DEF CommandTakes, Answers
  <2>3. receiver' = receiver \/ \E x : Answered(x, h)
    BY <1>9 DEF CommandTakes
  <2>4. receiver'.at = receiver.at
    <3>1. ASSUME NEW x, Answered(x, h) PROVE receiver' = Resumed
      BY <1>0, <3>1 DEF Answered
    <3>2. QED
      BY <1>0, <2>3, <3>1, ResumedType
  <2>5. /\ a2 \in Nat /\ a = a2 + (IF m \in ReportMessages THEN 1 ELSE 0)
        /\ (m \in ReportMessages <=> m.kind = "report") /\ m \in Message
    BY <1>2, <2>1
  <2>6. c2 = c + (IF m \in ReportMessages THEN 1 ELSE 0)
    <3>1. CASE m \in ReportMessages
      <4>1. buffer' = Stored(buffer, m) /\ m \in Message
        BY <2>2, <2>5, <3>1
      <4>2. c2 = c + 1
        BY <1>3, <4>1
      <4>3. QED
        BY <3>1, <4>2
    <3>2. CASE m \notin ReportMessages
      <4>1. c2 = c
        BY <2>2, <2>5, <3>2
      <4> HIDE DEF c, c2, m
      <4>2. QED
        BY <1>1, <3>2, <4>1
    <3>3. QED
      BY <3>1, <3>2
  <2>7. b2 = b
    BY <2>4
  <2> HIDE DEF a, a2, b, b2, c, c2, m, h
  <2>8. QED
    BY <1>1, <2>5, <2>6, <2>7
<1>10. QED
  BY <1>4, <1>5, <1>6, <1>7, <1>8, <1>9, ReadingSteps DEF ReceiverStep

(* What is left to be taken changes where it is counted or taken only.     *)
LEMMA TagsRemain ==
  ASSUME TypesInv, Others, ~Awaits, ~TakesTag, ~Read, ~StartsReading
  PROVE  buffer'.tagsRemaining = buffer.tagsRemaining
<1>0. buffer \in Buffers
  BY DEF TypesInv, DataTypes
<1>1. ASSUME NEW live, NEW reports, buffer' = [buffer EXCEPT !.live = live, !.reports = reports]
      PROVE  buffer'.tagsRemaining = buffer.tagsRemaining
  BY <1>0, <1>1 DEF Buffers
<1>2. CASE AwaitsReport \/ Joins \/ StreamTakes \/ ExecuteTagOp \/ EndsWalk
  <2>1. \/ buffer' = buffer
        \/ \E live \in BOOLEAN : buffer' = [buffer EXCEPT !.live = live, !.reports = <<>>]
    <3>1. CASE AwaitsReport
      BY <3>1 DEF AwaitsReport
    <3>2. CASE Joins
      BY <3>2 DEF Joins
    <3>3. CASE StreamTakes
      BY <3>3 DEF StreamTakes
    <3>4. CASE ExecuteTagOp
      BY <3>4 DEF ExecuteTagOp
    <3>5. CASE EndsWalk
      BY <3>5 DEF EndsWalk
    <3>6. QED
      BY <1>2, <3>1, <3>2, <3>3, <3>4, <3>5
  <2>2. QED
    BY <1>1, <2>1
<1>3. ASSUME NEW m \in Message, buffer' = Stored(buffer, m)
      PROVE  buffer'.tagsRemaining = buffer.tagsRemaining
  BY <1>0, <1>3, StoredFields
<1>4. QED
  BY <1>2, <1>3, BufferSources

(* In a read every report of it is on its way, held or stored.             *)
LEMMA CountRead ==
  ASSUME TypesInv, HandshakeInv, WaitingInv, OldInv, WalkInv, CountInv, Others, Sound', InRead'
  PROVE  history'.reported = Heard' * ReportSize
<1>0. /\ ScriptInv /\ ModeInv /\ Sound /\ history \in Histories /\ ReportSize \in Nat \ {0}
  BY SoundBefore, LlrpAssumption DEF WaitingInv, TypesInv, DataTypes
<1>1. CASE Read
  <2>1. caller.doing = "nothing" /\ wire' = wire /\ receiver' = receiver /\ buffer' = EmptyBuffer
        /\ history' = NewRound(FALSE)
    BY <1>1 DEF Read, Idle
  <2>2. ~InRead /\ ~Booting
    BY <2>1 DEF InRead, Booting
  <2>3. AllQuiet
    BY <1>0, <2>2, GatheredQuiet DEF Sound
  <2>4. Count(wire, ReportMessages) = 0 /\ receiver.at # "store"
    BY <1>0, <2>2, <2>3, NothingLeft DEF Sound
  <2>5. Len(buffer'.reports) = 0
    BY <2>1 DEF EmptyBuffer
  <2>6. Heard' = 0
    BY <2>1, <2>4, <2>5 DEF Heard
  <2>7. history'.reported = 0
    BY <1>0, <2>1, NewRoundFields
  <2>8. QED
    BY <1>0, <2>6, <2>7
<1>2. CASE ~Read
  <2>1. InRead
    BY <1>0, <1>2, ReadingSteps
  <2>2. Heard' = Heard
    BY <1>0, <2>1, HeardStays
  <2>3. history'.reported = history.reported
    <3>1. ~EndsWalk /\ ~TakesTag /\ ~NewReading
      BY <2>1 DEF TakesTag, EndsWalk, NewReading, Read, ExecuteTagOp, StartsReading, Idle, InRead
    <3>2. QED
      BY <3>1, HistorySources DEF Unread
  <2>4. QED
    BY <1>0, <2>1, <2>2, <2>3 DEF CountInv
<1>3. QED
  BY <1>1, <1>2

(* The tags are counted when all reports of the read are stored.           *)
LEMMA CountCounted ==
  ASSUME TypesInv, HandshakeInv, WaitingInv, OldInv, FullInv, WalkInv, CountInv, Sound,
         Awaits, events # -1
  PROVE  history'.reported = history'.returned + buffer'.tagsRemaining
<1>0. /\ ScriptInv /\ history \in Histories /\ buffer \in Buffers /\ InRead
      /\ buffer.reports \in Seq(Reports) /\ Len(buffer.reports) \in Nat
      /\ ReportSize \in Nat \ {0} /\ ~Booting
  BY WhoAwaits, HeardType, LlrpAssumption
     DEF WaitingInv, TypesInv, DataTypes, InRead, Booting
<1>1. AllQuiet
  BY AwaitsQuiet DEF Sound
<1>2. Count(wire, ReportMessages) = 0 /\ receiver.at # "store"
  BY <1>0, <1>1, NothingLeft DEF Sound
<1>3. Heard = Len(buffer.reports)
  BY <1>0, <1>2 DEF Heard
<1>4. history.reported = Len(buffer.reports) * ReportSize
  BY <1>0, <1>3 DEF CountInv
<1>5. Tags(buffer.reports) = Len(buffer.reports) * ReportSize
  BY <1>0, FullTags DEF FullInv, Sound
<1>6. buffer'.tagsRemaining = Tags(buffer.reports)
  BY <1>0 DEF Awaits, Buffers
<1>7. history'.reported = history.reported /\ history'.returned = history.returned
  <2>1. Others /\ ~EndsWalk /\ ~TakesTag /\ ~NewReading
    BY <1>0 DEF TakesTag, EndsWalk, NewReading, Read, ExecuteTagOp, StartsReading, Idle, InRead,
                Others, CommandStep
  <2>2. QED
    BY <2>1, HistorySources DEF Unread
<1>8. history.returned = 0
  BY <1>0 DEF WalkInv
<1> DEFINE t == Len(buffer.reports) * ReportSize
<1>9. t \in Nat /\ history'.reported = t /\ buffer'.tagsRemaining = t /\ history'.returned = 0
  BY <1>0, <1>4, <1>5, <1>6, <1>7, <1>8
<1> HIDE DEF t
<1>10. QED
  BY <1>9

(* What was reported is what was returned and what is left.                *)
LEMMA CountWalk ==
  ASSUME TypesInv, HandshakeInv, WaitingInv, OldInv, FullInv, WalkInv, CountInv, Others, Sound',
         Gathered' \/ history'.walk = "on"
  PROVE  history'.reported = history'.returned + buffer'.tagsRemaining
<1>0. /\ ScriptInv /\ ModeInv /\ Sound /\ history \in Histories /\ buffer \in Buffers
      /\ ~history.empty
  BY SoundBefore DEF WaitingInv, TypesInv, DataTypes, Sound
<1>1. CASE TakesTag
  <2>1. /\ buffer'.tagsRemaining = buffer.tagsRemaining - 1 /\ buffer.tagsRemaining > 0
        /\ history'.returned = history.returned + 1 /\ history'.reported = history.reported
    BY <1>0, <1>1, TagLeft
  <2>2. history.reported = history.returned + buffer.tagsRemaining
    BY <1>0, <1>1 DEF TakesTag, CountInv
  <2> DEFINE a == history.returned
             b == buffer.tagsRemaining
             c == history.reported
             d == buffer'.tagsRemaining
             e == history'.returned
  <2>3. a \in Nat /\ b \in Nat /\ c = a + b /\ d = b - 1 /\ e = a + 1 /\ history'.reported = c
    BY <1>0, <2>1, <2>2 DEF Histories, Buffers
  <2>4. c = e + d
    <3> HIDE DEF a, b, c, d, e
    <3>1. QED
      BY <2>3
  <2>5. QED
    BY <2>3, <2>4
<1>2. CASE Awaits /\ events # -1
  BY <1>0, <1>2, CountCounted
<1>3. ASSUME ~TakesTag, ~(Awaits /\ events # -1)
      PROVE  history'.reported = history'.returned + buffer'.tagsRemaining
  <2>1. ~NewReading
    <3>1. ASSUME NewReading PROVE FALSE
      <4>1. history'.walk = "none" /\ ~Commanding
        <5>1. history'.walk = "none"
          <6>1. PICK loose \in BOOLEAN :
                  \/ history' = NewRound(loose)
                  \/ history' = [NewRound(loose) EXCEPT !.operations = history.operations]
            BY <3>1 DEF NewReading, Read, ExecuteTagOp, StartsReading
          <6> DEFINE h == NewRound(loose)
          <6>2. h \in Histories /\ h.walk = "none"
            BY <1>0, NewRoundType, NewRoundFields
          <6> HIDE DEF h
          <6>3. history'.walk = h.walk
            BY <6>1, <6>2 DEF h, Histories
          <6>4. QED
            BY <6>2, <6>3
        <5>2. ~Commanding
          <6>1. caller.doing \in Resting
            BY <3>1 DEF NewReading, Read, ExecuteTagOp, StartsReading, Idle, Resting
          <6>2. caller.script = <<>>
            BY <6>1 DEF HandshakeInv, CallerInv
          <6>3. QED
            BY <6>2, CommandOutcome DEF Commanding
        <5>3. QED
          BY <5>1, <5>2
      <4>2. Gathered'
        BY <4>1
      <4>3. Read
        BY <1>0, <3>1, <4>1, <4>2, ReadingSteps DEF Gathered, NewReading, Read, ExecuteTagOp,
             StartsReading, Idle, InRead
      <4>4. PICK plan \in Plans : Begin("read", plan, ReadScript(plan))
        BY <4>3 DEF Read
      <4>5. caller'.script = ReadScript(plan)
        BY <4>4 DEF Begin, TypesInv, CallerTypes, Callers
      <4>6. Has(caller'.script, {"await"})
        BY <4>5, ReadWaits
      <4>7. QED
        BY <4>2, <4>6 DEF Gathered, Has
    <3>2. QED
      BY <3>1
  <2>2. history'.returned = history.returned /\ history'.reported = history.reported
    BY <1>3, <2>1, HistorySources DEF Unread
  <2>3. Gathered \/ history.walk = "on"
    <3>1. CASE Commanding /\ InRead
      BY <1>0, <1>3, <3>1, GatheredBefore
    <3>2. CASE ~(Commanding /\ InRead)
      <4>1. CASE history'.walk = "on"
        BY <1>3, <2>1, <3>2, <4>1, HistorySources
      <4>2. CASE Gathered'
        <5>1. InRead /\ caller' = caller
          BY <1>0, <2>1, <3>2, <4>2, ReadingSteps DEF Gathered, NewReading
        <5>2. QED
          BY <4>2, <5>1 DEF Gathered, Has
      <4>3. QED
        BY <4>1, <4>2
    <3>3. QED
      BY <3>1, <3>2
  <2>4. ~Awaits
    <3>1. ASSUME Awaits PROVE FALSE
      <4>1. caller.script # <<>> /\ Head(caller.script) = "await"
        BY <3>1 DEF Awaits, FirstIs
      <4>2. InRead
        BY <1>0, <3>1, WhoAwaits
      <4>3. Gathered
        BY <1>0, <2>3, <4>2 DEF ModeInv, InRead
      <4>4. caller.script \in Seq(Asked("read"))
        BY <1>0, <4>2 DEF ScriptInv, InRead
      <4>5. Has(caller.script, {"await"})
        BY <4>1, <4>4, TailHas
      <4>6. QED
        BY <4>3, <4>5 DEF Gathered
    <3>2. QED
      BY <3>1
  <2>5. buffer'.tagsRemaining = buffer.tagsRemaining
    BY <1>3, <2>1, <2>4, TagsRemain DEF NewReading
  <2>6. QED
    BY <1>0, <2>2, <2>3, <2>5 DEF CountInv
<1>4. QED
  BY <1>1, <1>2, <1>3

(* When the walk is done, they are all returned.                           *)
LEMMA CountDone ==
  ASSUME TypesInv, HandshakeInv, WaitingInv, FullInv, WalkInv, CountInv, Others, Sound',
         history'.walk = "done"
  PROVE  history'.reported = history'.returned
<1>0. /\ ScriptInv /\ ModeInv /\ Sound /\ history \in Histories /\ buffer \in Buffers
      /\ ~history.empty
  BY SoundBefore DEF WaitingInv, TypesInv, DataTypes, Sound
<1>1. CASE EndsWalk
  <2>1. history.walk = "on" /\ buffer.tagsRemaining = 0
    BY <1>1 DEF EndsWalk
  <2>2. history.reported = history.returned + buffer.tagsRemaining
    BY <1>0, <2>1 DEF CountInv
  <2>3. history' = [history EXCEPT !.walk = "done"]
    BY <1>1 DEF EndsWalk
  <2>4. history'.reported = history.reported /\ history'.returned = history.returned
    BY <1>0, <2>3 DEF Histories
  <2>5. history.returned \in Nat
    BY <1>0 DEF Histories
  <2>6. QED
    BY <2>1, <2>2, <2>4, <2>5
<1>2. CASE TakesTag
  <2>1. history'.walk = history.walk /\ history.walk = "on"
    BY <1>0, <1>2, TagLeft DEF TakesTag
  <2>2. QED
    BY <2>1
<1>3. CASE Commanding /\ InRead
  <2>1. PICK h : Like(h) /\ (Stays(h) \/ Finishes(TRUE, h) \/ Finishes(FALSE, h))
    BY <1>3, CommandOutcome DEF Commanding
  <2>2. history.walk = "none"
    BY <1>0, <1>3 DEF ModeInv, InRead
  <2>3. history'.walk # "done"
    BY <2>1, <2>2 DEF Like, Stays, Finishes
  <2>4. QED
    BY <2>3
<1>4. CASE ~EndsWalk /\ ~TakesTag /\ ~(Commanding /\ InRead)
  <2>1. Unread /\ history.walk = "done"
    BY <1>4, HistorySources
  <2>2. QED
    BY <1>0, <2>1 DEF Unread, CountInv
<1>5. QED
  BY <1>1, <1>2, <1>3, <1>4

(* The account is true from the start on.                                  *)
LEMMA CountInvariant == LlrpSpec => []CountInv
<1>1. LlrpInit => CountInv
  BY DEF LlrpInit, CountInv, InRead, Gathered
<1>2. TypesInv /\ HandshakeInv /\ WaitingInv /\ OwnInv /\ OldInv /\ FullInv /\ WalkInv
        /\ CountInv /\ [LlrpNext]_llrpVars
        => CountInv'
  <2> SUFFICES ASSUME TypesInv, HandshakeInv, WaitingInv, OwnInv, OldInv, FullInv, WalkInv,
                      CountInv, [LlrpNext]_llrpVars
               PROVE  CountInv'
    OBVIOUS
  <2>1. CASE ModuleStep \/ LinkFails
    BY <2>1, CountModule
  <2>2. CASE Others
    BY <2>2, CountRead, CountWalk, CountDone DEF CountInv
  <2>3. CASE UNCHANGED llrpVars
    BY <2>3 DEF llrpVars, CountInv, Sound, Calm, InRead, Gathered, Heard, Has
  <2>4. QED
    BY <2>1, <2>2, <2>3 DEF LlrpNext, Others
<1>3. QED
  BY <1>1, <1>2, WaitingInvariant, OwnInvariant, OldInvariant, WalkInvariant, PTL DEF LlrpSpec

(* Whoever walks through the tags of a synchronous read to its end has got *)
(* each tag that its ROSpecs reported, once (TMR_LLRP_verifyReadOperation  *)
(* counts them, TMR_LLRP_getNextTag hands them out), unless an operation   *)
(* was given up, a report was empty, or ROSpecs were left running by       *)
(* design.                                                                 *)
THEOREM AllTagsReturnedCorrect == LlrpSpec => []AllTagsReturned
<1>1. CountInv => AllTagsReturned
  BY DEF CountInv, Sound, Calm, AllTagsReturned
<1>2. QED
  BY <1>1, CountInvariant, PTL
===============================================================================
