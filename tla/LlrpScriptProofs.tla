--------------------------- MODULE LlrpScriptProofs ---------------------------
(*****************************************************************************)
(* What the operations of an LLRP reader ask for, in which order, and what the *)
(* reader makes of it: lemmas about the queues between the two, the scripts, the *)
(* rounds, and the ROSpecs that the starts are for.                          *)
(*****************************************************************************)
EXTENDS LlrpReaderProofs

-------------------------------------------------------------------------------
(* Counting in a queue: how many of the entries before place i are in S.   *)
Places(w, S, i) == {j \in 1..(i - 1) : w[j] \in S}
Before(w, S, i) == Cardinality(Places(w, S, i))
Count(w, S) == Before(w, S, Len(w) + 1)

(* They are finitely many.                                                 *)
LEMMA BeforeFinite ==
  ASSUME NEW w, NEW S, NEW i \in Int
  PROVE  IsFiniteSet(Places(w, S, i))
<1>1. IsFiniteSet(1..(i - 1))
  BY FS_Interval
<1>2. Places(w, S, i) \in SUBSET (1..(i - 1))
  BY DEF Places
<1>3. QED
  BY <1>1, <1>2, FS_Subset

(* Their number is a number.                                               *)
LEMMA BeforeType ==
  ASSUME NEW w, NEW S, NEW i \in Int
  PROVE  Before(w, S, i) \in Nat
BY BeforeFinite, FS_CardinalityType DEF Before

(* Nothing is before the first place, and the entry at a place counts for  *)
(* the next.                                                               *)
LEMMA BeforeNext ==
  ASSUME NEW w, NEW S, NEW i \in Nat \ {0}
  PROVE  /\ Before(w, S, 1) = 0
         /\ Before(w, S, i + 1) = Before(w, S, i) + (IF w[i] \in S THEN 1 ELSE 0)
<1> DEFINE T == Places(w, S, i)
           U == Places(w, S, i + 1)
<1>0. Before(w, S, i + 1) = Cardinality(U)
  BY DEF Before
<1>1. IsFiniteSet(T) /\ Cardinality(T) = Before(w, S, i) /\ Before(w, S, i) \in Nat
  BY BeforeFinite, BeforeType DEF Before
<1>2. Before(w, S, 1) = 0
  <2>1. Places(w, S, 1) = {}
    BY DEF Places
  <2>2. QED
    BY <2>1, FS_EmptySet DEF Before
<1>3. CASE w[i] \in S
  <2>1. U = T \cup {i} /\ i \notin T
    BY <1>3 DEF Places
  <2>2. Cardinality(T \cup {i}) = Cardinality(T) + 1
    <3> HIDE DEF T
    <3>1. QED
      BY <1>1, <2>1, FS_AddElement
  <2>3. Before(w, S, i + 1) = Cardinality(T \cup {i})
    <3> HIDE DEF T, U
    <3>1. QED
      BY <1>0, <2>1
  <2>4. QED
    BY <1>1, <1>2, <1>3, <2>2, <2>3
<1>4. CASE w[i] \notin S
  <2>1. U = T
    BY <1>4 DEF Places
  <2>2. Before(w, S, i + 1) = Cardinality(T)
    <3> HIDE DEF T, U
    <3>1. QED
      BY <1>0, <2>1
  <2>3. QED
    BY <1>1, <1>2, <1>4, <2>2
<1>5. QED
  BY <1>3, <1>4

(* Later places have more before them.                                     *)
LEMMA BeforeGrows ==
  ASSUME NEW w, NEW S, NEW i \in Nat, NEW k \in Nat, i <= k
  PROVE  Before(w, S, i) <= Before(w, S, k)
<1>1. IsFiniteSet(Places(w, S, k))
  BY BeforeFinite
<1>2. Places(w, S, i) \in SUBSET Places(w, S, k)
  BY DEF Places
<1>3. QED
  BY <1>1, <1>2, FS_Subset DEF Before

(* Nothing is counted where nothing is.                                    *)
LEMMA CountZero ==
  ASSUME NEW w, NEW S, NEW i \in Nat
  PROVE  Before(w, S, i) = 0 <=> \A j \in 1..(i - 1) : w[j] \notin S
<1> DEFINE T == Places(w, S, i)
<1>1. IsFiniteSet(T)
  BY BeforeFinite
<1>2. Cardinality(T) = 0 <=> T = {}
  <2> HIDE DEF T
  <2>1. QED
    BY <1>1, FS_EmptySet
<1>3. T = {} <=> \A j \in 1..(i - 1) : w[j] \notin S
  BY DEF Places
<1>4. QED
  BY <1>2, <1>3 DEF Before

(* What is added to a queue leaves the earlier places as they were.        *)
LEMMA CountAppend ==
  ASSUME NEW E, NEW w \in Seq(E), NEW x \in E, NEW S
  PROVE  /\ \A i \in 1..(Len(w) + 1) : Before(Append(w, x), S, i) = Before(w, S, i)
         /\ Count(Append(w, x), S) = Count(w, S) + (IF x \in S THEN 1 ELSE 0)
         /\ Count(w, S) \in Nat
<1> DEFINE v == Append(w, x)
<1>1. /\ Len(w) \in Nat /\ Len(v) = Len(w) + 1 /\ v[Len(w) + 1] = x
      /\ \A j \in 1..Len(w) : v[j] = w[j]
  BY AppendProperties, LenProperties
<1> HIDE DEF v
<1>2. ASSUME NEW i \in 1..(Len(w) + 1) PROVE Before(v, S, i) = Before(w, S, i)
  <2>1. Places(v, S, i) = Places(w, S, i)
    BY <1>1 DEF Places
  <2>2. QED
    BY <2>1 DEF Before
<1>3. Before(v, S, Len(w) + 1 + 1) = Before(v, S, Len(w) + 1)
          + (IF v[Len(w) + 1] \in S THEN 1 ELSE 0)
  BY SMTT(30), <1>1, BeforeNext
<1>4. Count(w, S) \in Nat
  BY <1>1, BeforeType DEF Count
<1>5. Count(v, S) = Count(w, S) + (IF x \in S THEN 1 ELSE 0)
  <2>1. Len(w) + 1 \in 1..(Len(w) + 1)
    BY <1>1
  <2>2. Before(v, S, Len(w) + 1) = Count(w, S)
    BY <1>2, <2>1 DEF Count
  <2>3. Count(v, S) = Before(v, S, Len(w) + 1 + 1)
    BY <1>1 DEF Count
  <2>4. QED
    BY <1>1, <1>3, <2>2, <2>3
<1>6. QED
  BY <1>2, <1>4, <1>5 DEF v

(* When the first entry is taken, all others move up.                      *)
LEMMA CountTail ==
  ASSUME NEW E, NEW w \in Seq(E), w # <<>>, NEW S
  PROVE  /\ \A i \in 1..Len(w) :
              Before(w, S, i + 1) = Before(Tail(w), S, i) + (IF Head(w) \in S THEN 1 ELSE 0)
         /\ Count(w, S) = Count(Tail(w), S) + (IF Head(w) \in S THEN 1 ELSE 0)
         /\ Count(Tail(w), S) \in Nat
<1> DEFINE v == Tail(w)
<1>1. /\ Len(w) \in Nat \ {0} /\ Len(v) = Len(w) - 1 /\ Head(w) = w[1]
      /\ \A j \in 1..Len(v) : v[j] = w[j + 1]
  BY HeadTailProperties, LenProperties, EmptySeq
<1> HIDE DEF v
<1>2. ASSUME NEW i \in 1..Len(w)
      PROVE  Before(w, S, i + 1) = Before(v, S, i) + (IF Head(w) \in S THEN 1 ELSE 0)
  <2> DEFINE A == Places(v, S, i)
             B == Places(w, S, i + 1)
             C == {j \in 2..i : w[j] \in S}
             f == [j \in A |-> j + 1]
  <2>1. IsFiniteSet(A) /\ Cardinality(A) = Before(v, S, i) /\ Before(v, S, i) \in Nat
    BY BeforeFinite, BeforeType DEF Before
  <2>2. f \in Bijection(A, C)
    <3>1. \A j \in A : j + 1 \in C
      BY <1>1 DEF Places
    <3>2. \A k \in C : k - 1 \in A /\ (k - 1) + 1 = k
      BY <1>1 DEF Places
    <3>3. \A a, b \in A : a + 1 = b + 1 => a = b
      BY DEF Places
    <3>4. f \in [A -> C] /\ \A a, b \in A : f[a] = f[b] => a = b
      <4> HIDE DEF C
      <4>1. QED
        BY <3>1, <3>3
    <3>5. \A k \in C : \E j \in A : f[j] = k
      <4> TAKE k \in C
      <4>1. k - 1 \in A /\ f[k - 1] = k
        BY <3>2
      <4>2. QED
        BY <4>1
    <3>6. QED
      <4> HIDE DEF A, C, f
      <4>1. QED
        BY <3>4, <3>5 DEF Bijection, Injection, Surjection, IsInjective
  <2> HIDE DEF f
  <2>3. IsFiniteSet(C) /\ Cardinality(C) = Cardinality(A)
    <3>1. ExistsBijection(A, C)
      BY <2>2 DEF ExistsBijection
    <3>2. QED
      BY <2>1, <3>1, FS_Bijection
  <2>4. B = IF w[1] \in S THEN C \cup {1} ELSE C
    BY DEF Places
  <2>5. 1 \notin C
    OBVIOUS
  <2>6. Cardinality(B) = Cardinality(C) + (IF w[1] \in S THEN 1 ELSE 0)
    <3> HIDE DEF B, C
    <3>1. Cardinality(C) \in Nat
      BY <2>3, FS_CardinalityType
    <3>2. Cardinality(C \cup {1}) = Cardinality(C) + 1
      BY <2>3, <2>5, FS_AddElement
    <3>3. QED
      BY <2>4, <3>1, <3>2
  <2>7. Before(w, S, i + 1) = Cardinality(B)
    BY DEF Before
  <2>8. QED
    BY <1>1, <2>1, <2>3, <2>6, <2>7
<1>3. Count(v, S) \in Nat
  BY <1>1, BeforeType DEF Count
<1>4. Count(w, S) = Count(v, S) + (IF Head(w) \in S THEN 1 ELSE 0)
  <2>1. Len(w) \in 1..Len(w)
    BY <1>1
  <2>2. Before(w, S, Len(w) + 1) = Before(v, S, Len(w)) + (IF Head(w) \in S THEN 1 ELSE 0)
    BY <1>2, <2>1
  <2>3. Count(v, S) = Before(v, S, Len(w)) /\ Count(w, S) = Before(w, S, Len(w) + 1)
    BY <1>1 DEF Count
  <2>4. QED
    BY <2>2, <2>3
<1>5. QED
  BY <1>2, <1>3, <1>4 DEF v

(* No place has more before it than there are in all.                      *)
LEMMA CountPart ==
  ASSUME NEW w, Len(w) \in Nat, NEW S
  PROVE  /\ Count(w, S) \in Nat
         /\ \A i \in 1..(Len(w) + 1) : Before(w, S, i) \in Nat /\ Before(w, S, i) <= Count(w, S)
         /\ Count(w, S) = 0 => \A j \in 1..Len(w) : w[j] \notin S
         /\ (\A j \in 1..Len(w) : w[j] \notin S) => Count(w, S) = 0
<1>1. Len(w) + 1 \in Nat /\ Len(w) + 1 - 1 = Len(w)
  OBVIOUS
<1>2. Count(w, S) = 0 <=> \A j \in 1..(Len(w) + 1 - 1) : w[j] \notin S
  BY <1>1, CountZero DEF Count
<1>3. QED
  BY <1>1, <1>2, BeforeType, BeforeGrows DEF Count

-------------------------------------------------------------------------------
(* How an operation goes on or ends, field by field.                       *)
SameButBroken(h) ==
  /\ history'.round = h.round /\ history'.loose = h.loose /\ history'.eaten = h.eaten
  /\ history'.empty = h.empty /\ history'.lost = h.lost /\ history'.reported = h.reported
  /\ history'.returned = h.returned /\ history'.trouble = h.trouble
  /\ history'.troubles = h.troubles

\* The operation ends.
Finishes(ok, h) ==
  /\ caller'.at = "ready" /\ caller'.plan = caller.plan
  /\ IF caller.doing = "starting" /\ ~ok
     THEN caller'.doing = "starting" /\ caller'.script = StreamScript(caller.plan)
     ELSE /\ caller'.script = <<>>
          /\ caller'.doing = IF caller.doing = "closing" THEN "destroyed"
                             ELSE IF caller.doing = "connect" /\ ~ok THEN "unbooted" ELSE "nothing"
  /\ IF caller.doing = "starting" /\ ok
     THEN stream' = [phase |-> "on", getReport |-> FALSE, reportSeen |-> FALSE]
     ELSE stream' = stream
  /\ history'.walk = IF ok /\ caller.doing = "read" THEN "on" ELSE h.walk
  /\ history'.broken = IF ok \/ caller.doing = "parameter" THEN h.broken
                       ELSE h.broken \cup {h.round}
  /\ SameButBroken(h)

\* It goes on with the rest of its script.
Continues(script, h) ==
  /\ script # <<>>
  /\ caller'.at = "ready" /\ caller'.plan = caller.plan /\ caller'.doing = caller.doing
  /\ caller'.script = script /\ stream' = stream /\ history' = h

Advanced(script, h) == IF script = <<>> THEN Finishes(TRUE, h) ELSE Continues(script, h)
Failed(h) == IF Fatal(caller.script) THEN Finishes(FALSE, h) ELSE Advanced(Tail(caller.script), h)

(* The end of an operation.                                                *)
LEMMA EndedFields ==
  ASSUME caller \in Callers, NEW result, NEW h \in Histories, Ended(result, h)
  PROVE  Finishes(result = "ok", h)
<1>1. /\ caller'.at = "ready" /\ caller'.plan = caller.plan
      /\ IF caller.doing = "starting" /\ result # "ok"
         THEN caller'.doing = "starting" /\ caller'.script = StreamScript(caller.plan)
         ELSE /\ caller'.script = <<>>
              /\ caller'.doing = IF caller.doing = "closing" THEN "destroyed"
                                 ELSE IF caller.doing = "connect" /\ result # "ok" THEN "unbooted"
                                 ELSE "nothing"
  <2>1. CASE caller.doing = "starting" /\ result # "ok"
    BY <2>1 DEF Ended, Callers
  <2>2. CASE ~(caller.doing = "starting" /\ result # "ok")
    BY <2>2 DEF Ended, Callers
  <2>3. QED
    BY <2>1, <2>2
<1>2. IF caller.doing = "starting" /\ result = "ok"
      THEN stream' = [phase |-> "on", getReport |-> FALSE, reportSeen |-> FALSE]
      ELSE stream' = stream
  BY DEF Ended
<1>3. /\ history'.walk = IF result = "ok" /\ caller.doing = "read" THEN "on" ELSE h.walk
      /\ history'.broken = IF result = "ok" \/ caller.doing = "parameter" THEN h.broken
                           ELSE h.broken \cup {h.round}
      /\ SameButBroken(h)
  <2>1. CASE result = "ok"
    BY <2>1 DEF Ended, Histories, SameButBroken
  <2>2. CASE result # "ok"
    BY <2>2 DEF Ended, Histories, SameButBroken
  <2>3. QED
    BY <2>1, <2>2
<1>4. QED
  BY <1>1, <1>2, <1>3 DEF Finishes

(* An operation that goes on.                                              *)
LEMMA ProceedFields ==
  ASSUME caller \in Callers, NEW script, NEW h \in Histories, Proceed(script, h)
  PROVE  Advanced(script, h)
<1>1. CASE script = <<>>
  <2>1. Ended("ok", h)
    BY <1>1 DEF Proceed
  <2>2. Finishes("ok" = "ok", h)
    BY <2>1, EndedFields
  <2>3. QED
    BY <1>1, <2>2 DEF Advanced
<1>2. CASE script # <<>>
  BY <1>2 DEF Proceed, Advanced, Continues, Callers
<1>3. QED
  BY <1>1, <1>2

(* A command that fails.                                                   *)
LEMMA FailsFields ==
  ASSUME caller \in Callers, NEW h \in Histories, Fails(h)
  PROVE  Failed(h)
<1>1. CASE Fatal(caller.script)
  <2>1. Ended("failed", h)
    BY <1>1 DEF Fails
  <2>2. Finishes("failed" = "ok", h) /\ ("failed" = "ok") = FALSE
    BY <2>1, EndedFields
  <2>3. QED
    BY <1>1, <2>2 DEF Failed
<1>2. CASE ~Fatal(caller.script)
  BY <1>2, ProceedFields DEF Fails, Failed
<1>3. QED
  BY <1>1, <1>2

(* A round more.                                                           *)
LEMMA NewRoundFields ==
  ASSUME history \in Histories, NEW loose \in BOOLEAN
  PROVE  LET h == NewRound(loose) IN
         /\ h.round = history.round + 1 /\ h.walk = "none" /\ h.lost = FALSE
         /\ h.loose = IF loose THEN history.loose \cup {history.round + 1} ELSE history.loose
         /\ h.reported = 0 /\ h.returned = 0 /\ h.broken = history.broken
         /\ h.eaten = history.eaten /\ h.empty = history.empty /\ h.trouble = history.trouble
         /\ h.troubles = history.troubles
BY DEF NewRound, Histories

(* What a command, or a step between commands, makes of the operation.     *)
\* History but for what the step itself adds.
Like(h) ==
  /\ h \in Histories /\ h.round = history.round /\ h.loose = history.loose
  /\ h.broken = history.broken /\ h.walk = history.walk /\ h.empty = history.empty
  /\ h.reported = history.reported /\ h.returned = history.returned
  /\ h.trouble = history.trouble

(* A command that is answered.                                             *)
LEMMA AnsweredFields ==
  ASSUME TypesInv, caller.script # <<>>, NEW m, NEW h \in Histories, Answered(m, h)
  PROVE  /\ m.ok =>
              \E more : /\ more \in {<<>>, <<"stopOld", "disableOld">>, <<"stopOld">>}
                        /\ Head(caller.script) # "getROSpecs" => more = <<>>
                        /\ (\E s \in specs : s.round = 0 /\ s.state = "active")
                              /\ Head(caller.script) = "getROSpecs" => more # <<>>
                        /\ Advanced(more \o Tail(caller.script), h)
         /\ ~m.ok => Failed(h)
<1>1. caller \in Callers
  BY DEF TypesInv, CallerTypes
<1>2. ASSUME m.ok
      PROVE \E more : /\ more \in {<<>>, <<"stopOld", "disableOld">>, <<"stopOld">>}
                      /\ Head(caller.script) # "getROSpecs" => more = <<>>
                      /\ (\E s \in specs : s.round = 0 /\ s.state = "active")
                            /\ Head(caller.script) = "getROSpecs" => more # <<>>
                      /\ Advanced(more \o Tail(caller.script), h)
  <2>1. PICK more : /\ more \in {<<>>, <<"stopOld", "disableOld">>, <<"stopOld">>}
                    /\ Head(caller.script) # "getROSpecs" => more = <<>>
                    /\ (\E s \in specs : s.round = 0 /\ s.state = "active")
                          /\ Head(caller.script) = "getROSpecs" => more # <<>>
                    /\ Proceed(more \o Tail(caller.script), h)
    BY <1>2 DEF Answered, StopScript
  <2>2. Advanced(more \o Tail(caller.script), h)
    BY <1>1, <2>1, ProceedFields
  <2>3. QED
    BY <2>1, <2>2
<1>3. ASSUME ~m.ok PROVE Failed(h)
  BY <1>1, <1>3, FailsFields DEF Answered
<1>4. QED
  BY <1>2, <1>3

StopScripts == {<<"stopOld", "disableOld">>, <<"stopOld">>}

Stays(h) ==
  /\ caller'.doing = caller.doing /\ caller'.plan = caller.plan
  /\ stream' = stream /\ history' = h
  /\ \/ caller'.script = caller.script
     \/ caller'.script = Tail(caller.script)
     \/ /\ Head(caller.script) = "getROSpecs"
        /\ \E more \in StopScripts : caller'.script = more \o Tail(caller.script)

(* A command, or a step between commands, leaves its operation where it    *)
(* was, at a later step of its script, or at its end.                      *)
LEMMA CommandOutcome ==
  ASSUME TypesInv,
         SendsOnly \/ Counts \/ Quiets \/ Sends \/ CommandTakes \/ CommandTimesOut
           \/ Awaits \/ AwaitsReport
  PROVE  /\ caller.script # <<>>
         /\ \E h : /\ Like(h)
                   /\ Stays(h) \/ Finishes(TRUE, h) \/ Finishes(FALSE, h)
                   /\ \/ h.lost = history.lost
                      \/ Awaits /\ Finishes(FALSE, h)
<1> DEFINE Goal == \E h : /\ Like(h)
                          /\ Stays(h) \/ Finishes(TRUE, h) \/ Finishes(FALSE, h)
                          /\ \/ h.lost = history.lost
                             \/ Awaits /\ Finishes(FALSE, h)
<1>1. caller \in Callers /\ history \in Histories /\ Like(history)
  BY DEF TypesInv, CallerTypes, DataTypes, Like
<1>2. ASSUME NEW script, NEW h, Like(h), h.lost = history.lost, Advanced(script, h),
             \/ script = Tail(caller.script)
             \/ /\ Head(caller.script) = "getROSpecs"
                /\ \E more \in StopScripts : script = more \o Tail(caller.script)
      PROVE Goal
  BY <1>2 DEF Advanced, Continues, Stays
<1>3. ASSUME NEW h, Like(h), h.lost = history.lost, Failed(h) PROVE Goal
  BY <1>2, <1>3 DEF Failed
<1>4. caller.script # <<>>
  BY DEF TypesInv, CallerTypes, SendsOnly, Counts, Quiets, Sends, CommandTakes, CommandTimesOut,
         Awaits, AwaitsReport, FirstIs
<1>5. CASE SendsOnly
  <2>1. Ended("failed", history) \/ Proceed(Tail(caller.script), history)
    BY <1>5 DEF SendsOnly
  <2>2. CASE Ended("failed", history)
    <3>1. Finishes("failed" = "ok", history)
      BY <1>1, <2>2, EndedFields
    <3>2. Finishes(FALSE, history)
      BY <3>1
    <3>3. QED
      BY <1>1, <1>4, <3>2
  <2>3. CASE Proceed(Tail(caller.script), history)
    BY <1>1, <1>2, <1>4, <2>3, ProceedFields
  <2>4. QED
    BY <2>1, <2>2, <2>3
<1>6. CASE Counts
  BY <1>1, <1>2, <1>4, <1>6, ProceedFields DEF Counts
<1>7. CASE Quiets
  <2>1. Stays(history)
    BY <1>1, <1>7 DEF Quiets, Stays, Callers
  <2>2. QED
    BY <1>1, <1>4, <2>1
<1>8. CASE Sends
  <2>1. CASE link = "closed"
    BY <1>1, <1>3, <1>4, <1>8, <2>1, FailsFields DEF Sends
  <2>2. CASE link # "closed"
    <3>1. Stays(history)
      BY <1>1, <1>8, <2>2 DEF Sends, Stays, Callers
    <3>2. QED
      BY <1>1, <1>4, <3>1
  <2>3. QED
    BY <2>1, <2>2
<1>9. CASE CommandTakes
  <2> DEFINE h == [history EXCEPT !.eaten =
                     @ \/ (continuousReading /\ Head(wire).kind = "keepAlive")]
  <2>1. Like(h) /\ h.lost = history.lost /\ h \in Histories
    BY <1>1 DEF Like, Histories
  <2>2. \/ \E a : Answered(a, h)
        \/ history' = h /\ UNCHANGED <<receiver, caller, stream>>
    BY <1>9 DEF CommandTakes
  <2> HIDE DEF h
  <2>3. CASE \E a : Answered(a, h)
    <3>1. \/ Failed(h)
          \/ \E more : /\ \/ more = <<>>
                          \/ Head(caller.script) = "getROSpecs" /\ more \in StopScripts
                       /\ Advanced(more \o Tail(caller.script), h)
      BY <1>4, <2>1, <2>3, AnsweredFields DEF StopScripts
    <3>2. Tail(caller.script) \in Seq(Steps)
      BY <1>1, <1>4, HeadTailProperties DEF Callers
    <3>3. <<>> \o Tail(caller.script) = Tail(caller.script)
      BY <3>2, ConcatEmptySeq
    <3>4. QED
      BY <1>2, <1>3, <1>4, <2>1, <3>1, <3>3
  <2>4. CASE history' = h /\ UNCHANGED <<receiver, caller, stream>>
    <3>1. Stays(h)
      BY <2>4 DEF Stays
    <3>2. QED
      BY <1>4, <2>1, <3>1
  <2>5. QED
    BY <2>2, <2>3, <2>4
<1>10. CASE CommandTimesOut
  <2> DEFINE h == [history EXCEPT !.troubles = history.troubles + 1]
  <2>1. Like(h) /\ h.lost = history.lost /\ h \in Histories
    <3>1. history.troubles + 1 \in Nat
      BY <1>1 DEF Histories
    <3>2. QED
      BY <1>1, <3>1 DEF Like, Histories
  <2>2. Fails(history) \/ Fails(h)
    BY <1>10 DEF CommandTimesOut
  <2> HIDE DEF h
  <2>3. QED
    BY <1>1, <1>3, <1>4, <2>1, <2>2, FailsFields
<1>11. CASE Awaits
  <2> DEFINE h == [history EXCEPT !.lost = TRUE]
  <2>1. Like(h) /\ h \in Histories
    BY <1>1 DEF Like, Histories
  <2>2. Ended("lost", h) \/ Proceed(Tail(caller.script), history)
    BY <1>11 DEF Awaits
  <2> HIDE DEF h
  <2>3. CASE Ended("lost", h)
    <3>1. Finishes("lost" = "ok", h)
      BY <1>1, <2>1, <2>3, EndedFields
    <3>2. Finishes(FALSE, h)
      BY <3>1
    <3>3. QED
      BY <1>4, <1>11, <2>1, <3>2
  <2>4. CASE Proceed(Tail(caller.script), history)
    BY <1>1, <1>2, <1>4, <2>4, ProceedFields
  <2>5. QED
    BY <2>2, <2>3, <2>4
<1>12. CASE AwaitsReport
  <2>1. PICK result : Ended(result, history)
    BY <1>12 DEF AwaitsReport
  <2>2. Finishes(result = "ok", history)
    BY <1>1, <2>1, EndedFields
  <2>3. Finishes(TRUE, history) \/ Finishes(FALSE, history)
    BY <2>2 DEF Finishes
  <2>4. QED
    BY <1>1, <1>4, <2>3
<1>13. QED
  BY <1>5, <1>6, <1>7, <1>8, <1>9, <1>10, <1>11, <1>12

-------------------------------------------------------------------------------
(* What the scripts of each operation ask for, and in which order.         *)
CountSteps == {"count1", "count2"}
Opening == {"enableEvents", "deleteRO", "deleteAccess", "notifyOn", "count1"}
PlanSteps == {"count2", "addRO", "enableRO", "startRO", "addAccess", "enableAccess"}
Asked(doing) ==
  CASE doing = "read"      -> Opening \cup PlanSteps \cup {"await", "notifyOff"}
    [] doing = "starting"  -> Opening \cup PlanSteps
    [] doing = "tagop"     -> {"deleteRO", "deleteAccess", "awaitReport"} \cup PlanSteps
    [] doing = "connect"   -> {"holdEvents", "getROSpecs", "stopOld", "disableOld", "getRegion",
                               "getCapabilities", "getProtocols", "getAntennas", "keepAlive"}
    [] doing = "parameter" -> {"parameter"}
    [] doing = "closing"   -> {"close"}
    [] OTHER               -> {}

\* The end is waited for when all is started, and only the events are turned off
\* then; what is counted is known before anything starts, and is enough.
InOrder(s) ==
  /\ \A j, k \in DOMAIN s : j < k /\ s[j] = "await" => s[k] = "notifyOff"
  /\ \A j, k \in DOMAIN s : j < k /\ s[k] \in CountSteps => s[j] # "startRO"
  /\ (\A k \in DOMAIN s : s[k] # "await") => \A k \in DOMAIN s : s[k] = "notifyOff"
  /\ \A k \in DOMAIN s : s[k] \in CountSteps
         /\ (\A l \in DOMAIN s : k < l => s[l] \notin CountSteps)
       => Count(s, {"startRO"}) <= IF s[k] = "count1" THEN 1 ELSE 2

ScriptInv ==
  /\ caller.script \in Seq(Asked(caller.doing))
  /\ caller.doing = "read" => InOrder(caller.script)

(* A queue of elements of a set is one of that set.                        *)
LEMMA Narrower ==
  ASSUME NEW E, NEW A, NEW s \in Seq(E), \A i \in DOMAIN s : s[i] \in A
  PROVE  s \in Seq(A)
<1>1. Len(s) \in Nat /\ s \in [1..Len(s) -> E] /\ DOMAIN s = 1..Len(s)
  BY LenProperties
<1>2. s \in [1..Len(s) -> A]
  BY <1>1
<1>3. QED
  BY <1>1, <1>2, SeqDef

(* The script of a synchronous read is in order.                           *)
LEMMA ReadInOrder ==
  ASSUME NEW plan \in Plans
  PROVE  InOrder(ReadScript(plan)) /\ ReadScript(plan) \in Seq(Asked("read"))
<1> DEFINE s == ReadScript(plan)
           starts == Places(s, {"startRO"}, Len(s) + 1)
<1>1. plan = "simple" \/ plan = "tagop" \/ plan = "multi"
  BY LlrpAssumption
<1>2. s \in Seq(Steps)
  BY ScriptTypes
<1>3. Cardinality({8}) = 1 /\ Cardinality({10}) = 1 /\ Cardinality({9}) = 1 /\ IsFiniteSet({9})
  BY FS_Singleton, Zenon
<1>4. Cardinality({9} \cup {12}) = 2
  BY <1>3, FS_AddElement
<1>5. InOrder(s) /\ \A i \in DOMAIN s : s[i] \in Asked("read")
  <2>1. CASE plan = "simple"
    <3>1. /\ Len(s) = 10 /\ DOMAIN s = 1..10
          /\ s[1] = "enableEvents" /\ s[2] = "deleteRO" /\ s[3] = "deleteAccess"
               /\ s[4] = "notifyOn"
          /\ s[5] = "count1" /\ s[6] = "addRO" /\ s[7] = "enableRO" /\ s[8] = "startRO"
          /\ s[9] = "await" /\ s[10] = "notifyOff"
      BY <2>1 DEF ReadScript, PlanScript, Simple
    <3> HIDE DEF s
    <3>2. starts = {8}
      BY <3>1 DEF Places
    <3>3. Count(s, {"startRO"}) = 1
      BY <1>3, <3>2, Zenon DEF Count, Before
    <3>4. InOrder(s)
      BY <3>1, <3>3 DEF InOrder, CountSteps
    <3>5. QED
      BY <3>1, <3>4 DEF Asked, Opening, PlanSteps
  <2>2. CASE plan = "tagop"
    <3>1. /\ Len(s) = 12 /\ DOMAIN s = 1..12
          /\ s[1] = "enableEvents" /\ s[2] = "deleteRO" /\ s[3] = "deleteAccess"
               /\ s[4] = "notifyOn"
          /\ s[5] = "count1" /\ s[6] = "addRO" /\ s[7] = "enableRO" /\ s[8] = "addAccess"
          /\ s[9] = "enableAccess" /\ s[10] = "startRO" /\ s[11] = "await" /\ s[12] = "notifyOff"
      BY <2>2 DEF ReadScript, PlanScript
    <3> HIDE DEF s
    <3>2. starts = {10}
      BY <3>1 DEF Places
    <3>3. Count(s, {"startRO"}) = 1
      BY <1>3, <3>2, Zenon DEF Count, Before
    <3>4. InOrder(s)
      BY <3>1, <3>3 DEF InOrder, CountSteps
    <3>5. QED
      BY <3>1, <3>4 DEF Asked, Opening, PlanSteps
  <2>3. CASE plan = "multi"
    <3>1. /\ Len(s) = 14 /\ DOMAIN s = 1..14
          /\ s[1] = "enableEvents" /\ s[2] = "deleteRO" /\ s[3] = "deleteAccess"
               /\ s[4] = "notifyOn"
          /\ s[5] = "count1" /\ s[6] = "count2" /\ s[7] = "addRO" /\ s[8] = "enableRO"
          /\ s[9] = "startRO" /\ s[10] = "addRO" /\ s[11] = "enableRO" /\ s[12] = "startRO"
          /\ s[13] = "await" /\ s[14] = "notifyOff"
      BY <2>3 DEF ReadScript, PlanScript, Simple
    <3> HIDE DEF s
    <3>2. starts = {9} \cup {12}
      BY <3>1 DEF Places
    <3>3. Count(s, {"startRO"}) = 2
      BY <1>4, <3>2, Zenon DEF Count, Before
    <3>4. InOrder(s)
      BY <3>1, <3>3 DEF InOrder, CountSteps
    <3>5. QED
      BY <3>1, <3>4 DEF Asked, Opening, PlanSteps
  <2>4. QED
    BY <1>1, <2>1, <2>2, <2>3
<1> HIDE DEF s
<1>6. s \in Seq(Asked("read"))
  BY <1>2, <1>5, Narrower
<1>7. QED
  BY <1>5, <1>6 DEF s

(* What is left of it stays so.                                            *)
LEMMA OrderKept ==
  ASSUME NEW E, NEW s \in Seq(E), s # <<>>, InOrder(s)
  PROVE  InOrder(Tail(s))
<1> DEFINE t == Tail(s)
<1>1. /\ Len(s) \in Nat \ {0} /\ DOMAIN s = 1..Len(s) /\ DOMAIN t = 1..Len(t)
      /\ Len(t) = Len(s) - 1 /\ \A i \in 1..Len(t) : t[i] = s[i + 1]
  BY HeadTailProperties, LenProperties, EmptySeq
<1>2. /\ Count(s, {"startRO"}) = Count(t, {"startRO"}) + (IF Head(s) \in {"startRO"} THEN 1 ELSE 0)
      /\ Count(t, {"startRO"}) \in Nat
  BY CountTail
<1> HIDE DEF t
<1>3. \A k \in DOMAIN t : k + 1 \in DOMAIN s /\ s[k + 1] = t[k]
  BY <1>1
<1>4. \A k \in DOMAIN s : k # 1 => k - 1 \in DOMAIN t /\ t[k - 1] = s[k]
  BY <1>1
<1>5. \A j, k \in DOMAIN t : j < k /\ t[j] = "await" => t[k] = "notifyOff"
  BY <1>1, <1>3 DEF InOrder
<1>6. \A j, k \in DOMAIN t : j < k /\ t[k] \in CountSteps => t[j] # "startRO"
  BY <1>1, <1>3 DEF InOrder
<1>7. (\A k \in DOMAIN t : t[k] # "await") => \A k \in DOMAIN t : t[k] = "notifyOff"
  <2> SUFFICES ASSUME \A k \in DOMAIN t : t[k] # "await", NEW k \in DOMAIN t
               PROVE  t[k] = "notifyOff"
    OBVIOUS
  <2>1. CASE s[1] = "await"
    <3>1. 1 \in DOMAIN s /\ k + 1 \in DOMAIN s /\ 1 < k + 1 /\ s[k + 1] = t[k]
      BY <1>1, <1>3
    <3>2. QED
      BY <2>1, <3>1 DEF InOrder
  <2>2. CASE s[1] # "await"
    <3>1. \A i \in DOMAIN s : s[i] # "await"
      BY <1>1, <1>4, <2>2
    <3>2. QED
      BY <1>3, <3>1 DEF InOrder
  <2>3. QED
    BY <2>1, <2>2
<1>8. ASSUME NEW k \in DOMAIN t, t[k] \in CountSteps,
             \A l \in DOMAIN t : k < l => t[l] \notin CountSteps
      PROVE  Count(t, {"startRO"}) <= IF t[k] = "count1" THEN 1 ELSE 2
  <2>1. k + 1 \in DOMAIN s /\ s[k + 1] = t[k]
    BY <1>3
  <2>2. \A l \in DOMAIN s : k + 1 < l => s[l] \notin CountSteps
    BY <1>1, <1>4, <1>8
  <2>3. Count(s, {"startRO"}) <= IF t[k] = "count1" THEN 1 ELSE 2
    BY <1>8, <2>1, <2>2 DEF InOrder
  <2>4. Count(t, {"startRO"}) <= Count(s, {"startRO"})
    BY <1>2
  <2>5. Count(s, {"startRO"}) \in Nat
    BY <1>2
  <2>6. QED
    BY <1>2, <2>3, <2>4, <2>5
<1>9. QED
  BY <1>5, <1>6, <1>7, <1>8 DEF InOrder, t

(* The scripts of the other operations ask for no more than they may.      *)
LEMMA OtherScripts ==
  /\ BootScript \in Seq(Asked("connect")) /\ TagOpScript \in Seq(Asked("tagop"))
  /\ \A plan \in Plans : StreamScript(plan) \in Seq(Asked("starting"))
  /\ StopScripts \subseteq Seq(Asked("connect"))
  /\ <<"parameter">> \in Seq(Asked("parameter")) /\ <<"close">> \in Seq(Asked("closing"))
<1>1. BootScript \in Seq(Asked("connect"))
  <2>1. \A i \in DOMAIN BootScript : BootScript[i] \in Asked("connect")
    BY DEF BootScript, Asked
  <2>2. QED
    BY <2>1, ScriptTypes, Narrower
<1>2. TagOpScript \in Seq(Asked("tagop"))
  <2>1. \A i \in DOMAIN TagOpScript : TagOpScript[i] \in Asked("tagop")
    BY DEF TagOpScript, Asked, PlanSteps
  <2>2. QED
    BY <2>1, ScriptTypes, Narrower
<1>3. ASSUME NEW plan \in Plans PROVE StreamScript(plan) \in Seq(Asked("starting"))
  <2>1. plan = "simple" \/ plan = "tagop" \/ plan = "multi"
    BY LlrpAssumption
  <2>2. \A i \in DOMAIN StreamScript(plan) : StreamScript(plan)[i] \in Asked("starting")
    BY <2>1 DEF StreamScript, PlanScript, Simple, Periodic, Asked, Opening, PlanSteps
  <2>3. QED
    BY <2>2, ScriptTypes, Narrower
<1>4. /\ StopScripts \subseteq Seq(Asked("connect"))
      /\ <<"parameter">> \in Seq(Asked("parameter")) /\ <<"close">> \in Seq(Asked("closing"))
  BY DEF StopScripts, Asked
<1>5. QED
  BY <1>1, <1>2, <1>3, <1>4

(* A command keeps the script in order.                                    *)
LEMMA ScriptStays ==
  ASSUME TypesInv, ScriptInv,
         SendsOnly \/ Counts \/ Quiets \/ Sends \/ CommandTakes \/ CommandTimesOut
           \/ Awaits \/ AwaitsReport
  PROVE  ScriptInv'
<1> DEFINE A == Asked(caller.doing)
<1>1. /\ caller.script # <<>> /\ caller.script \in Seq(A) /\ Tail(caller.script) \in Seq(A)
      /\ Head(caller.script) \in A
  BY CommandOutcome, HeadTailProperties DEF ScriptInv
<1>2. PICK h : Stays(h) \/ Finishes(TRUE, h) \/ Finishes(FALSE, h)
  BY CommandOutcome
<1>3. CASE Stays(h)
  <2>1. CASE caller'.script = caller.script
    BY <1>3, <2>1 DEF ScriptInv, Stays
  <2>2. CASE caller'.script = Tail(caller.script)
    BY <1>1, <1>3, <2>2, OrderKept DEF ScriptInv, Stays
  <2>3. CASE /\ Head(caller.script) = "getROSpecs"
             /\ \E more \in StopScripts : caller'.script = more \o Tail(caller.script)
    <3>1. caller.doing = "connect"
      BY <1>1, <2>3 DEF Asked, Opening, PlanSteps
    <3>2. PICK more \in StopScripts : caller'.script = more \o Tail(caller.script)
      BY <2>3
    <3>3. more \in Seq(A)
      BY <3>1, OtherScripts
    <3>4. caller'.script \in Seq(A)
      BY <1>1, <3>2, <3>3, ConcatProperties
    <3>5. QED
      BY <1>3, <3>1, <3>4 DEF ScriptInv, Stays
  <2>4. QED
    BY <1>3, <2>1, <2>2, <2>3 DEF Stays
<1>4. CASE Finishes(TRUE, h) \/ Finishes(FALSE, h)
  <2>1. CASE caller'.script = <<>> /\ caller'.doing # "read"
    BY <2>1, EmptySeq DEF ScriptInv
  <2>2. CASE /\ caller.doing = "starting" /\ caller'.doing = "starting"
             /\ caller'.script = StreamScript(caller.plan)
    BY <2>2, OtherScripts DEF ScriptInv, TypesInv, CallerTypes
  <2>3. QED
    BY <1>4, <2>1, <2>2 DEF Finishes
<1>5. QED
  BY <1>2, <1>3, <1>4

(* Every step keeps the script in order.                                   *)
LEMMA ScriptKept ==
  ASSUME TypesInv, CallerInv, ScriptInv, LlrpNext
  PROVE  ScriptInv'
<1>0. caller \in Callers
  BY DEF TypesInv, CallerTypes
<1>1. CASE caller' = caller
  BY <1>1 DEF ScriptInv
<1>2. ASSUME NEW doing, NEW plan, NEW script, Begin(doing, plan, script),
             script \in Seq(Asked(doing)), doing = "read" => InOrder(script)
      PROVE  ScriptInv'
  BY <1>0, <1>2 DEF Begin, ScriptInv, Callers
<1>3. CASE \/ SendsOnly \/ Counts \/ Quiets \/ Sends \/ CommandTakes \/ CommandTimesOut
           \/ Awaits \/ AwaitsReport
  BY <1>3, ScriptStays
<1>4. CASE ModuleStep \/ LinkFails \/ ReceiverStep \/ StreamStep
  <2>1. caller' = caller
    BY <1>4 DEF ModuleStep, LinkFails, ReceiverStep, StreamStep, ModuleHandles, ModuleReports,
                ModuleEnds, ModulePulses, ReceiverGoes, ReceiverTakes, ReceiverStores,
                ReceiverIdles, ReceiverFails, StreamAsks, StreamTakes, StreamTimesOut
  <2>2. QED
    BY <1>1, <2>1
<1>5. CASE StartsReading
  BY <1>2, <1>5, OtherScripts DEF StartsReading, TypesInv, CallerTypes
<1>6. CASE StopsReading \/ StopReading \/ Destroy
  <2>1. caller.script = <<>> /\ caller'.script = caller.script /\ caller'.doing # "read"
    BY <1>0, <1>6 DEF StopsReading, StopReading, Destroy, CallerInv, Resting, Callers
  <2>2. QED
    BY <2>1, EmptySeq DEF ScriptInv
<1>7. CASE Joins
  BY <1>2, <1>7, OtherScripts DEF Joins
<1>8. CASE Connect
  BY <1>2, <1>8, OtherScripts DEF Connect
<1>9. CASE Read
  BY <1>2, <1>9, ReadInOrder DEF Read
<1>10. CASE ExecuteTagOp
  BY <1>2, <1>10, OtherScripts DEF ExecuteTagOp
<1>11. CASE AskParameter
  BY <1>2, <1>11, OtherScripts DEF AskParameter
<1>12. CASE StartReading
  BY <1>2, <1>12, EmptySeq DEF StartReading
<1>13. CASE TakesTag \/ EndsWalk
  <2>1. caller' = caller
    BY <1>13 DEF TakesTag, EndsWalk
  <2>2. QED
    BY <1>1, <2>1
<1>14. QED
  BY <1>3, <1>4, <1>5, <1>6, <1>7, <1>8, <1>9, <1>10, <1>11, <1>12, <1>13
     DEF LlrpNext, CommandStep, UserStep

-------------------------------------------------------------------------------
(* Rounds, and what is known of the operation under way.                   *)
InRead == caller.doing = "read"

ModeInv ==
  /\ history.loose \subseteq 0..history.round /\ history.broken \subseteq 0..history.round
  /\ 0 \in history.loose
  /\ caller.doing \in {"read", "tagop", "starting"} => ~history.lost /\ history.walk = "none"
  /\ caller.doing \in {"read", "tagop"} => ~continuousReading
  /\ InRead => history.round \notin history.broken \cup history.loose
  /\ caller.doing \in {"tagop", "starting"} => history.round \in history.loose
  /\ continuousReading => history.walk = "none"
  /\ history.walk # "none" => history.round \notin history.loose

(* A command keeps what is known of the operation.                         *)
LEMMA ModeStays ==
  ASSUME TypesInv, HandshakeInv, ScriptInv, ModeInv,
         SendsOnly \/ Counts \/ Quiets \/ Sends \/ CommandTakes \/ CommandTimesOut
           \/ Awaits \/ AwaitsReport
  PROVE  ModeInv'
<1>1. PICK h : /\ Like(h)
               /\ Stays(h) \/ Finishes(TRUE, h) \/ Finishes(FALSE, h)
               /\ \/ h.lost = history.lost
                  \/ Awaits /\ Finishes(FALSE, h)
  BY CommandOutcome
<1>2. /\ h.round = history.round /\ h.loose = history.loose /\ h.broken = history.broken
      /\ h.walk = history.walk /\ history.round \in Nat /\ history.broken \subseteq Nat
  BY <1>1 DEF Like, TypesInv, DataTypes, Histories
<1>3. CASE Stays(h) /\ h.lost = history.lost
  BY <1>2, <1>3 DEF Stays, ModeInv, InRead, continuousReading
<1>4. ASSUME NEW ok \in BOOLEAN, Finishes(ok, h) PROVE ModeInv'
  <2>1. /\ history'.round = history.round /\ history'.loose = history.loose
        /\ history'.broken \in {history.broken, history.broken \cup {history.round}}
        /\ history'.walk = IF ok /\ InRead THEN "on" ELSE history.walk
        /\ history'.lost = h.lost
        /\ caller'.doing \in {"starting", "nothing", "destroyed", "unbooted"}
        /\ caller'.doing = "starting" => caller.doing = "starting"
        /\ continuousReading' => continuousReading \/ caller.doing = "starting"
    BY <1>2, <1>4 DEF Finishes, SameButBroken, InRead, continuousReading
  <2>2. caller.doing = "starting" => h.lost = history.lost
    <3>1. ASSUME Awaits, caller.doing = "starting" PROVE FALSE
      <4>1. caller.script # <<>> /\ Head(caller.script) = "await"
        BY <3>1 DEF Awaits, FirstIs
      <4>2. Head(caller.script) \in Asked("starting")
        BY <3>1, <4>1, HeadTailProperties DEF ScriptInv
      <4>3. QED
        BY <4>1, <4>2 DEF Asked, Opening, PlanSteps
    <3>2. QED
      BY <1>1, <3>1
  <2>3. history'.broken \subseteq 0..history.round
    BY <1>2, <2>1 DEF ModeInv
  <2>4. QED
    BY <2>1, <2>2, <2>3 DEF ModeInv, InRead
<1>5. QED
  BY <1>1, <1>3, <1>4

(* Every step does.                                                        *)
LEMMA ModeKept ==
  ASSUME TypesInv, HandshakeInv, ScriptInv, ModeInv, LlrpNext
  PROVE  ModeInv'
<1>0. history \in Histories /\ caller \in Callers /\ stream \in Streams
  BY DEF TypesInv, DataTypes, CallerTypes, ThreadTypes
<1>1. ASSUME UNCHANGED <<caller, stream>>,
             /\ history'.round = history.round /\ history'.loose = history.loose
             /\ history'.broken = history.broken /\ history'.lost = history.lost
             /\ \/ history'.walk = history.walk
                \/ history.walk # "none" /\ history'.walk # "none"
      PROVE  ModeInv'
  BY <1>1 DEF ModeInv, InRead, continuousReading
<1>2. CASE ModuleStep \/ LinkFails \/ ReceiverStep
  <2>1. UNCHANGED <<caller, stream>>
    BY <1>2 DEF ModuleStep, LinkFails, ReceiverStep, ModuleHandles, ModuleReports,
                ModuleEnds, ModulePulses, ReceiverGoes, ReceiverTakes, ReceiverStores,
                ReceiverIdles, ReceiverFails
  <2>2. /\ history'.round = history.round /\ history'.loose = history.loose
        /\ history'.broken = history.broken /\ history'.lost = history.lost
        /\ history'.walk = history.walk
    <3>1. CASE ModuleHandles \/ ModulePulses
      BY <1>0, <3>1 DEF ModuleHandles, ModulePulses, Histories
    <3>2. CASE ModuleReports
      BY <1>0, <3>2 DEF ModuleReports, Histories
    <3>3. CASE ModuleEnds \/ LinkFails \/ ReceiverStep
      BY <3>3 DEF LinkFails, ReceiverStep, ModuleEnds, ReceiverGoes, ReceiverTakes,
                  ReceiverStores, ReceiverIdles, ReceiverFails
    <3>4. QED
      BY <1>2, <3>1, <3>2, <3>3 DEF ModuleStep
  <2>3. QED
    BY <1>1, <2>1, <2>2
<1>3. CASE TakesTag \/ EndsWalk
  <2>1. UNCHANGED <<caller, stream>>
    BY <1>3 DEF TakesTag, EndsWalk
  <2>2. /\ history'.round = history.round /\ history'.loose = history.loose
        /\ history'.broken = history.broken /\ history'.lost = history.lost
        /\ \/ history'.walk = history.walk
           \/ history.walk # "none" /\ history'.walk # "none"
    <3>1. CASE TakesTag
      <4>1. history' = history \/ history' = [history EXCEPT !.returned = @ + 1]
        BY <3>1 DEF TakesTag
      <4>2. QED
        BY <1>0, <4>1 DEF Histories
    <3>2. CASE EndsWalk
      BY <1>0, <3>2 DEF EndsWalk, Histories
    <3>3. QED
      BY <1>3, <3>1, <3>2
  <2>3. QED
    BY <1>1, <2>1, <2>2
<1>4. CASE StreamStep
  <2>1. caller' = caller
    BY <1>4 DEF StreamStep, StreamAsks, StreamTakes, StreamTimesOut
  <2>2. continuousReading /\ stream'.phase \in {"on", "ended", "off"}
    BY <1>0, <1>4 DEF StreamStep, StreamAsks, StreamTakes, StreamTimesOut, continuousReading,
       Streams
  <2>3. \/ history' = history
        \/ history' = [history EXCEPT !.broken = @ \cup {history.round}, !.lost = TRUE]
    BY <1>4 DEF StreamStep, StreamAsks, StreamTakes, StreamTimesOut
  <2>4. CASE history' = history
    BY <2>1, <2>2, <2>4 DEF ModeInv, InRead, continuousReading
  <2>5. CASE history' = [history EXCEPT !.broken = @ \cup {history.round}, !.lost = TRUE]
    <3>1. caller.doing \notin {"read", "tagop", "starting"}
      BY <1>4, <2>2, <2>5, <1>0
         DEF ModeInv, HandshakeInv, StreamInv, StreamStep, StreamAsks, StreamTakes,
                          StreamTimesOut
    <3>2. /\ history'.round = history.round /\ history'.loose = history.loose
          /\ history'.broken = history.broken \cup {history.round}
          /\ history'.walk = history.walk /\ history.round \in Nat
      BY <1>0, <2>5 DEF Histories
    <3>3. QED
      BY <2>1, <2>2, <3>1, <3>2 DEF ModeInv, InRead
  <2>6. QED
    BY <2>3, <2>4, <2>5
<1>5. CASE \/ SendsOnly \/ Counts \/ Quiets \/ Sends \/ CommandTakes \/ CommandTimesOut
           \/ Awaits \/ AwaitsReport
  BY <1>5, ModeStays
<1>6. CASE StartsReading
  <2>1. /\ caller'.doing = "starting" /\ continuousReading'
        /\ history' = [NewRound(TRUE) EXCEPT !.operations = history.operations]
    BY <1>0, <1>6 DEF StartsReading, Begin, Callers, Streams, continuousReading
  <2>2. NewRound(TRUE) \in Histories
    BY <1>0, NewRoundType
  <2>3. /\ history'.round = history.round + 1 /\ history'.walk = "none" /\ ~history'.lost
        /\ history'.loose = history.loose \cup {history.round + 1}
        /\ history'.broken = history.broken
    BY <1>0, <2>1, <2>2, NewRoundFields DEF Histories
  <2>4. history.round \in Nat
    BY <1>0 DEF Histories
  <2>5. /\ history'.loose \subseteq 0..history'.round /\ history'.broken \subseteq 0..history'.round
        /\ 0 \in history'.loose /\ history'.round \in history'.loose
    BY <2>3, <2>4 DEF ModeInv
  <2>6. QED
    BY <2>1, <2>3, <2>5 DEF ModeInv, InRead
<1>7. CASE StopsReading
  <2>1. /\ caller'.doing = "nothing" /\ ~continuousReading' /\ history' = history
    BY <1>0, <1>7 DEF StopsReading, Callers, Streams, continuousReading
  <2>2. QED
    BY <2>1 DEF ModeInv, InRead
<1>8. CASE Joins \/ Connect \/ StopReading \/ Destroy
  <2>1. /\ caller'.doing \in {"closing", "connect", "stopping", "destroying"} /\ stream' = stream
        /\ history' = history
    BY <1>0, <1>8 DEF Joins, Connect, StopReading, Destroy, Begin, Callers
  <2>2. QED
    BY <2>1 DEF ModeInv, InRead, continuousReading
<1>9. CASE AskParameter \/ StartReading
  <2>1. /\ caller'.doing \in {"parameter", "parking"} /\ stream' = stream
        /\ history' = [history EXCEPT !.operations = @ + 1]
    BY <1>0, <1>9 DEF AskParameter, StartReading, Begin, Callers
  <2>2. /\ history'.round = history.round /\ history'.loose = history.loose
        /\ history'.broken = history.broken /\ history'.lost = history.lost
        /\ history'.walk = history.walk
    BY <1>0, <2>1 DEF Histories
  <2>3. QED
    BY <2>1, <2>2 DEF ModeInv, InRead, continuousReading
<1>10. CASE Read \/ ExecuteTagOp
  <2>1. PICK loose \in BOOLEAN :
          /\ stream' = stream /\ ~continuousReading /\ history' = NewRound(loose)
          /\ caller'.doing = IF loose THEN "tagop" ELSE "read"
    <3>1. CASE Read
      <4>1. stream' = stream /\ ~continuousReading /\ history' = NewRound(FALSE)
            /\ caller'.doing = "read"
        BY <1>0, <3>1 DEF Read, Begin, Callers
      <4>2. QED
        BY <4>1
    <3>2. CASE ExecuteTagOp
      <4>1. stream' = stream /\ ~continuousReading /\ history' = NewRound(TRUE)
            /\ caller'.doing = "tagop"
        BY <1>0, <3>2 DEF ExecuteTagOp, Begin, Callers
      <4>2. QED
        BY <4>1
    <3>3. QED
      BY <1>10, <3>1, <3>2
  <2>2. /\ history'.round = history.round + 1 /\ history'.walk = "none" /\ ~history'.lost
        /\ history'.loose = IF loose THEN history.loose \cup {history.round + 1} ELSE history.loose
        /\ history'.broken = history.broken /\ history.round \in Nat
    BY <1>0, <2>1, NewRoundFields DEF Histories
  <2>3. QED
    BY <2>1, <2>2 DEF ModeInv, InRead, continuousReading
<1>11. QED
  BY <1>2, <1>3, <1>4, <1>5, <1>6, <1>7, <1>8, <1>9, <1>10
     DEF LlrpNext, CommandStep, UserStep

-------------------------------------------------------------------------------
(* What the threads of the host, the stream and the user do to the socket: *)
(* they append a request or take the first message.                        *)
Others == \/ ReceiverStep \/ CommandStep \/ StreamStep \/ UserStep
Commanding == \/ SendsOnly \/ Counts \/ Quiets \/ Sends \/ CommandTakes \/ CommandTimesOut
              \/ Awaits \/ AwaitsReport
Asking == \* Sends, on a working link
  /\ link = "up" /\ caller.at \in {"quieting", "sending"}
  /\ caller' = [caller EXCEPT !.at = "waiting"] /\ history' = history /\ UNCHANGED stream
  /\ roSpecId' = IF Head(caller.script) = "addRO" THEN GivenId ELSE roSpecId
  /\ requests' = Append(requests, Request(Head(caller.script), roSpecId'))

Requesting ==
  \/ requests' = requests
  \/ Sends /\ Asking
  \/ \E q \in Commanded : q.command \notin {"addRO", "startRO"} /\ requests' = Append(requests, q)

Begins(loose) ==
  /\ requests' = requests /\ wire' = wire /\ receiver' = receiver
  /\ history'.round = history.round + 1 /\ history'.broken = history.broken
  /\ history'.loose = IF loose THEN history.loose \cup {history.round + 1} ELSE history.loose
  /\ caller.doing # "read" /\ caller.at = "ready" /\ caller.script = <<>> /\ caller'.at = "ready"
  /\ caller'.doing = "read" => ~loose

Outside ==
  /\ specs' = specs /\ link' = link /\ history'.trouble = history.trouble
  /\ wire' = wire \/ (wire # <<>> /\ wire' = Tail(wire))
  /\ roSpecId' = roSpecId \/ (Sends /\ Head(caller.script) = "addRO")
  /\ Requesting
  /\ \/ /\ history'.round = history.round /\ history'.loose = history.loose
        /\ history'.broken \in {history.broken, history.broken \cup {history.round}}
     \/ ~Commanding /\ \E loose \in BOOLEAN : Begins(loose)

(* What a command does outside the application.                            *)
LEMMA CommandsOutside ==
  ASSUME TypesInv, Commanding
  PROVE  Outside
<1>0. history \in Histories /\ caller \in Callers /\ stream \in Streams /\ roSpecId \in Nat
  BY DEF TypesInv, DataTypes, CallerTypes, ThreadTypes
<1>1. PICK h : Like(h) /\ (Stays(h) \/ Finishes(TRUE, h) \/ Finishes(FALSE, h))
  BY CommandOutcome DEF Commanding
<1>2. /\ history'.round = history.round /\ history'.loose = history.loose
      /\ history'.broken \in {history.broken, history.broken \cup {history.round}}
      /\ history'.trouble = history.trouble
  BY <1>1 DEF Like, Stays, Finishes, SameButBroken
<1>3. specs' = specs /\ link' = link
  BY DEF Commanding, SendsOnly, Counts, Quiets, Sends, CommandTakes, CommandTimesOut, Awaits,
         AwaitsReport
<1>4. wire' = wire \/ (wire # <<>> /\ wire' = Tail(wire))
  BY DEF Commanding, SendsOnly, Counts, Quiets, Sends, CommandTakes, CommandTimesOut, Awaits,
         AwaitsReport
<1>5. roSpecId' = roSpecId \/ (Sends /\ Head(caller.script) = "addRO")
  BY DEF Commanding, SendsOnly, Counts, Quiets, Sends, CommandTakes, CommandTimesOut, Awaits,
         AwaitsReport
<1>6. Requesting
  <2>1. CASE SendsOnly
    <3>1. Request("enableEvents", roSpecId) \in Commanded
      BY <1>0, RequestType DEF Commands
    <3>2. Request("enableEvents", roSpecId).command = "enableEvents"
      BY DEF Request
    <3>3. requests' = requests \/ requests' = Append(requests, Request("enableEvents", roSpecId))
      BY <2>1 DEF SendsOnly, Sent
    <3>4. QED
      BY <3>1, <3>2, <3>3 DEF Requesting
  <2>2. CASE Sends
    <3>1. requests' = requests \/ Asking
      <4>1. CASE link = "up"
        BY <2>2, <4>1 DEF Sends, Sent, Asking
      <4>2. CASE link # "up"
        BY <2>2, <4>2 DEF Sends, Sent
      <4>3. QED
        BY <4>1, <4>2
    <3>2. QED
      BY <2>2, <3>1 DEF Requesting
  <2>3. CASE ~SendsOnly /\ ~Sends
    BY <2>3 DEF Commanding, Counts, Quiets, CommandTakes, CommandTimesOut, Awaits, AwaitsReport,
                Requesting
  <2>4. QED
    BY <2>1, <2>2, <2>3
<1>7. QED
  BY <1>2, <1>3, <1>4, <1>5, <1>6 DEF Outside

(* What any step but the reader's and the link's does there.               *)
LEMMA OthersOutside ==
  ASSUME TypesInv, HandshakeInv, Others
  PROVE  Outside
<1>0. history \in Histories /\ caller \in Callers /\ stream \in Streams /\ roSpecId \in Nat
  BY DEF TypesInv, DataTypes, CallerTypes, ThreadTypes
<1>1. CASE Commanding
  BY <1>1, CommandsOutside
<1>2. CASE ReceiverStep
  BY <1>2 DEF ReceiverStep, ReceiverGoes, ReceiverTakes, ReceiverStores, ReceiverIdles,
              ReceiverFails, Outside, Requesting
<1>3. CASE StreamStep
  <2>1. specs' = specs /\ link' = link /\ roSpecId' = roSpecId
    BY <1>3 DEF StreamStep, StreamAsks, StreamTakes, StreamTimesOut
  <2>2. wire' = wire \/ (wire # <<>> /\ wire' = Tail(wire))
    BY <1>3 DEF StreamStep, StreamAsks, StreamTakes, StreamTimesOut
  <2>3. \/ history' = history
        \/ history' = [history EXCEPT !.broken = @ \cup {history.round}, !.lost = TRUE]
    BY <1>3 DEF StreamStep, StreamAsks, StreamTakes, StreamTimesOut
  <2>4. /\ history'.round = history.round /\ history'.loose = history.loose
        /\ history'.broken \in {history.broken, history.broken \cup {history.round}}
        /\ history'.trouble = history.trouble
    <3>1. CASE history' = history
      BY <3>1
    <3>2. CASE history' = [history EXCEPT !.broken = @ \cup {history.round}, !.lost = TRUE]
      BY <1>0, <3>2 DEF Histories
    <3>3. QED
      BY <2>3, <3>1, <3>2
  <2>5. \/ requests' = requests
        \/ \E c \in {"getReport", "deleteRO", "stopRO"} :
             requests' = Append(requests, Request(c, roSpecId))
    BY <1>3 DEF StreamStep, StreamAsks, StreamTakes, StreamTimesOut, Sent, StopCommand
  <2>6. Requesting
    <3>1. \A c \in {"getReport", "deleteRO", "stopRO"} :
            Request(c, roSpecId) \in Commanded /\ Request(c, roSpecId).command = c
      BY <1>0 DEF Request, Commanded, Commands, Histories
    <3>2. QED
      BY <2>5, <3>1 DEF Requesting
  <2>7. QED
    BY <2>1, <2>2, <2>4, <2>6 DEF Outside
<1>4. CASE StopsReading \/ Joins \/ Connect \/ TakesTag \/ EndsWalk \/ Destroy \/ AskParameter
             \/ StartReading
  <2>1. specs' = specs /\ link' = link /\ roSpecId' = roSpecId /\ wire' = wire
        /\ requests' = requests
    BY <1>4 DEF StopsReading, Joins, Connect, TakesTag, EndsWalk, Destroy, AskParameter,
                StartReading
  <2>2. \/ history' = history
        \/ history' = [history EXCEPT !.returned = @ + 1]
        \/ history' = [history EXCEPT !.walk = "done"]
        \/ history' = [history EXCEPT !.operations = @ + 1]
    BY <1>4 DEF StopsReading, Joins, Connect, TakesTag, EndsWalk, Destroy, AskParameter,
                StartReading
  <2>3. /\ history'.round = history.round /\ history'.loose = history.loose
        /\ history'.broken = history.broken /\ history'.trouble = history.trouble
    BY <1>0, <2>2 DEF Histories
  <2>4. QED
    BY <2>1, <2>3 DEF Outside, Requesting
<1>5. CASE StopReading
  <2>1. PICK c \in {"deleteRO", "stopRO"} : requests' \in {requests,
                                                Append(requests, Request(c, roSpecId))}
    BY <1>5 DEF StopReading, Sent, StopCommand
  <2>2. Request(c, roSpecId) \in Commanded /\ Request(c, roSpecId).command = c
    BY <1>0 DEF Request, Commanded, Commands, Histories
  <2>3. QED
    BY <1>5, <2>1, <2>2 DEF Outside, Requesting, StopReading
<1>6. CASE ~Commanding /\ (Read \/ ExecuteTagOp \/ StartsReading)
  <2>1. caller.doing \in {"nothing", "parking"} /\ caller.at = "ready" /\ caller.script = <<>>
    BY <1>6 DEF Read, ExecuteTagOp, StartsReading, Idle, HandshakeInv, CallerInv, Resting
  <2>2. caller'.at = "ready" /\ caller'.doing \in {"read", "tagop", "starting"}
    BY <1>0, <1>6, <2>1 DEF Read, ExecuteTagOp, StartsReading, Begin, Callers
  <2>3. /\ specs' = specs /\ link' = link /\ roSpecId' = roSpecId /\ wire' = wire
        /\ requests' = requests /\ receiver' = receiver
    BY <1>6 DEF Read, ExecuteTagOp, StartsReading
  <2>4. PICK loose \in BOOLEAN :
          /\ caller'.doing = "read" => ~loose
          /\ \/ history' = NewRound(loose)
             \/ history' = [NewRound(loose) EXCEPT !.operations = history.operations]
    <3>1. CASE Read
      BY <3>1 DEF Read
    <3>2. CASE ExecuteTagOp \/ StartsReading
      <4>1. caller'.doing # "read"
        BY <1>0, <3>2 DEF ExecuteTagOp, StartsReading, Begin, Callers
      <4>2. QED
        BY <3>2, <4>1 DEF ExecuteTagOp, StartsReading
    <3>3. QED
      BY <1>6, <3>1, <3>2
  <2>5. NewRound(loose) \in Histories
    BY <1>0, NewRoundType
  <2>6. /\ history'.round = history.round + 1 /\ history'.broken = history.broken
        /\ history'.loose = IF loose THEN history.loose \cup {history.round + 1} ELSE history.loose
        /\ history'.trouble = history.trouble
    <3>1. CASE history' = NewRound(loose)
      BY <1>0, <3>1, NewRoundFields
    <3>2. CASE history' = [NewRound(loose) EXCEPT !.operations = history.operations]
      <4>1. /\ history'.round = NewRound(loose).round /\ history'.broken = NewRound(loose).broken
            /\ history'.loose = NewRound(loose).loose /\ history'.trouble = NewRound(loose).trouble
        BY <2>5, <3>2 DEF Histories
      <4>2. QED
        BY <1>0, <4>1, NewRoundFields
    <3>3. QED
      BY <2>4, <3>1, <3>2
  <2>7. QED
    BY <1>6, <2>1, <2>2, <2>3, <2>4, <2>6 DEF Outside, Begins, Requesting
<1>7. QED
  BY <1>1, <1>2, <1>3, <1>4, <1>5, <1>6 DEF Others, CommandStep, UserStep, Commanding

-------------------------------------------------------------------------------
(* A queue without its first entry, and with one entry more.               *)
LEMMA Shortened ==
  ASSUME NEW E, NEW w \in Seq(E), w # <<>>
  PROVE  /\ Len(w) \in Nat \ {0} /\ DOMAIN w = 1..Len(w) /\ Head(w) = w[1] /\ w[1] \in E
         /\ Tail(w) \in Seq(E) /\ Len(Tail(w)) = Len(w) - 1 /\ DOMAIN Tail(w) = 1..(Len(w) - 1)
         /\ \A i \in 1..(Len(w) - 1) : Tail(w)[i] = w[i + 1]
BY HeadTailProperties, LenProperties, EmptySeq

(* The queue with one entry more.                                          *)
LEMMA Lengthened ==
  ASSUME NEW E, NEW w \in Seq(E), NEW x \in E
  PROVE  /\ Len(w) \in Nat /\ DOMAIN w = 1..Len(w) /\ Append(w, x) \in Seq(E)
         /\ Len(Append(w, x)) = Len(w) + 1 /\ DOMAIN Append(w, x) = 1..(Len(w) + 1)
         /\ Append(w, x)[Len(w) + 1] = x /\ \A i \in 1..Len(w) : Append(w, x)[i] = w[i]
BY AppendProperties, LenProperties

(* What a ROSpec keeps as long as it is one.                               *)
Same(s, t) == t.id = s.id /\ t.round = s.round /\ t.timed = s.timed /\ t.periodic = s.periodic

\* Where a ROSpec comes from when the reader has carried out q.
Added(q, t) == /\ q.command = "addRO" /\ t.id = q.id /\ t.round = q.round
               /\ t.timed = q.timed /\ t.periodic = q.periodic /\ t.state = "disabled"
Kept(q, s, t) ==
  /\ Same(s, t)
  /\ q.command = "addRO" => s.id # q.id
  /\ t.state = "active" => \/ s.state = "active"
                           \/ s.id = q.id /\ (q.command = "startRO" \/ s.periodic)

(* A ROSpec was added by the command or was there before.                  *)
LEMMA Origin ==
  ASSUME specs \subseteq ROSpecs, NEW q, CarriedOut(q), NEW t \in specs'
  PROVE  Added(q, t) \/ \E s \in specs : Kept(q, s, t)
<1>1. CASE q.command = "addRO"
  <2>1. \/ t \in specs /\ t.id # q.id
        \/ t = [id |-> q.id, round |-> q.round, state |-> "disabled", timed |-> q.timed,
                periodic |-> q.periodic, left |-> MaxReports]
    BY <1>1 DEF CarriedOut
  <2>2. QED
    BY <1>1, <2>1 DEF Added, Kept, Same
<1>2. CASE q.command = "enableRO"
  <2>1. PICK s \in specs : t = IF s.id = q.id
                               THEN [s EXCEPT !.state = IF s.periodic THEN "active" ELSE "inactive"]
                               ELSE s
    BY <1>2 DEF CarriedOut
  <2>2. s \in ROSpecs
    OBVIOUS
  <2>3. Kept(q, s, t)
    BY <1>2, <2>1, <2>2 DEF Kept, Same, ROSpecs
  <2>4. QED
    BY <2>3
<1>3. CASE q.command \in {"startRO", "stopRO", "stopOld", "disableOld"}
  <2>1. PICK st \in {"active", "inactive", "disabled"} :
          /\ specs' = Become(q.id, st)
          /\ st = "active" => q.command = "startRO"
    BY <1>3 DEF CarriedOut
  <2>2. PICK s \in specs : t = IF s.id = q.id THEN [s EXCEPT !.state = st] ELSE s
    BY <2>1 DEF Become
  <2>3. s \in ROSpecs
    OBVIOUS
  <2>4. Kept(q, s, t)
    BY <1>3, <2>1, <2>2, <2>3 DEF Kept, Same, ROSpecs
  <2>5. QED
    BY <2>4
<1>4. CASE q.command = "deleteRO"
  BY <1>4 DEF CarriedOut
<1>5. CASE q.command \notin {"addRO", "enableRO", "startRO", "stopRO", "stopOld", "disableOld",
                             "deleteRO"}
  <2>1. t \in specs
    BY <1>5 DEF CarriedOut
  <2>2. Kept(q, t, t)
    BY <1>5 DEF Kept, Same
  <2>3. QED
    BY <2>1, <2>2
<1>6. QED
  BY <1>1, <1>2, <1>3, <1>4, <1>5

(* The first command is carried out, refused or without an answer.         *)
LEMMA Handled ==
  ASSUME TypesInv, ModuleHandles
  PROVE  LET q == Head(requests) IN
         /\ link = "up" /\ requests # <<>> /\ requests' = Tail(requests) /\ q \in Commanded
         /\ history'.round = history.round /\ history'.loose = history.loose
         /\ history'.broken = history.broken /\ history'.trouble = history.trouble
         /\ UNCHANGED <<link, receiver, caller, roSpecId, events, pending, stream, monitor>>
         /\ \/ CarriedOut(q) /\ wire' = Append(wire, Answer(q.command, TRUE))
            \/ /\ history.trouble = "refusal" /\ specs' = specs
               /\ wire' = Append(wire, Answer(q.command, FALSE))
            \/ q.command \in {"enableEvents", "getReport"} /\ specs' = specs /\ wire' = wire
<1>1. Head(requests) \in Commanded
  BY HeadTailProperties DEF TypesInv, SocketTypes, ModuleHandles
<1>2. /\ history'.round = history.round /\ history'.loose = history.loose
      /\ history'.broken = history.broken /\ history'.trouble = history.trouble
  BY DEF ModuleHandles, TypesInv, DataTypes, Histories
<1>3. QED
  BY <1>1, <1>2 DEF ModuleHandles, MayHappen

(* An active ROSpec reports, or ends.                                      *)
LEMMA Reported ==
  ASSUME TypesInv, ModuleReports
  PROVE  \E s \in specs, n \in Nat :
           /\ s.state = "active" /\ s.left > 0 /\ wire' = Append(wire, Report(s.round, n))
           /\ specs' = (specs \ {s}) \cup {[s EXCEPT !.left = @ - 1]}
           /\ Same(s, [s EXCEPT !.left = @ - 1]) /\ [s EXCEPT !.left = @ - 1].state = s.state
           /\ link = "up"
           /\ history'.round = history.round /\ history'.loose = history.loose
           /\ history'.broken = history.broken /\ history'.trouble = history.trouble
           /\ UNCHANGED <<link, requests, receiver, caller, roSpecId, events, pending, stream,
                          monitor>>
<1>1. PICK s \in specs, n \in {ReportSize} \cup (IF MayHappen("empty") THEN {0} ELSE {}) :
        /\ s.state = "active" /\ s.left > 0
        /\ specs' = (specs \ {s}) \cup {[s EXCEPT !.left = @ - 1]}
        /\ wire' = Append(wire, Report(s.round, n))
        /\ history' = [history EXCEPT !.empty = @ \/ n = 0,
                         !.troubles = IF n = 0 THEN @ + 1 ELSE @,
                         !.reported = IF s.round = history.round THEN @ + n ELSE @]
  BY DEF ModuleReports
<1>2. n \in Nat
  BY LlrpAssumption
<1>3. s \in ROSpecs /\ history \in Histories
  BY DEF TypesInv, SocketTypes, DataTypes
<1>4. Same(s, [s EXCEPT !.left = @ - 1]) /\ [s EXCEPT !.left = @ - 1].state = s.state
  BY <1>3 DEF Same, ROSpecs
<1>5. /\ history'.round = history.round /\ history'.loose = history.loose
      /\ history'.broken = history.broken /\ history'.trouble = history.trouble
  BY <1>1, <1>3 DEF Histories
<1>6. QED
  BY <1>1, <1>2, <1>4, <1>5 DEF ModuleReports

(* A timed ROSpec ends, and says so if it is to.                           *)
LEMMA EndReported ==
  ASSUME TypesInv, ModuleEnds
  PROVE  /\ link = "up"
         /\ UNCHANGED <<link, requests, receiver, caller, roSpecId, events, pending, stream,
                        monitor, history>>
         /\ wire' = wire \/ wire' = Append(wire, EndOfROSpec)
         /\ \E s \in specs :
              /\ s.state = "active" /\ s.timed
              /\ \A t \in specs' :
                   \E r \in specs : /\ Same(r, t) /\ t.state \in {r.state, "inactive"}
                                    /\ r.id = s.id => t.state = "inactive"
<1>1. PICK s \in specs : s.state = "active" /\ s.timed /\ specs' = Become(s.id, "inactive")
  BY DEF ModuleEnds
<1>2. ASSUME NEW t \in specs'
      PROVE  \E r \in specs : /\ Same(r, t) /\ t.state \in {r.state, "inactive"}
                              /\ r.id = s.id => t.state = "inactive"
  <2>1. PICK r \in specs : t = IF r.id = s.id THEN [r EXCEPT !.state = "inactive"] ELSE r
    BY <1>1 DEF Become
  <2>2. r \in ROSpecs
    BY DEF TypesInv, SocketTypes
  <2>3. QED
    BY <2>1, <2>2 DEF Same, ROSpecs
<1>3. QED
  BY <1>1, <1>2 DEF ModuleEnds

-------------------------------------------------------------------------------
(* A link that fails takes the reader with it; what a ROSpec and the       *)
(* commands about it are for is known by their round.                      *)
LinkInv ==
  /\ link # "up" => requests = <<>> /\ specs = {}
  /\ history.trouble = "refusal" => link = "up"

\* x is of a round so far; it ends by itself if that round is a synchronous read's.
Rounded(x) ==
  /\ x.round <= history.round
  /\ x.timed <=> x.round \notin history.loose
  /\ x.timed => ~x.periodic
Planned(q) == q.command \in {"addRO", "startRO"}
RoundsInv ==
  /\ \A s \in specs : Rounded(s)
  /\ \A i \in DOMAIN requests : Planned(requests[i]) => Rounded(requests[i])

(* Every step keeps what a failed link means.                              *)
LEMMA LinkKept ==
  ASSUME TypesInv, HandshakeInv, LinkInv, LlrpNext
  PROVE  LinkInv'
<1>1. CASE ModuleHandles
  BY <1>1, Handled DEF LinkInv
<1>2. CASE ModuleReports
  BY <1>2, Reported DEF LinkInv
<1>3. CASE ModuleEnds
  BY <1>3, EndReported DEF LinkInv
<1>4. CASE ModulePulses
  <2>1. history'.trouble = history.trouble
    BY <1>4 DEF ModulePulses, TypesInv, DataTypes, Histories
  <2>2. QED
    BY <1>4, <2>1 DEF ModulePulses, LinkInv
<1>5. CASE LinkFails
  BY <1>5 DEF LinkFails, LinkInv
<1>6. CASE Others
  <2>1. Outside
    BY <1>6, OthersOutside
  <2>2. link # "up" => requests' = requests
    <3>1. ASSUME link # "up" PROVE requests' = requests
      BY <1>6, <3>1 DEF Others, ReceiverStep, CommandStep, StreamStep, UserStep, ReceiverGoes,
         ReceiverTakes, ReceiverStores, ReceiverIdles, ReceiverFails, SendsOnly, Counts, Quiets,
         Sends, CommandTakes, CommandTimesOut, Awaits, AwaitsReport, StartsReading, StopsReading,
         Joins, StreamAsks, StreamTakes, StreamTimesOut, Connect, Read, ExecuteTagOp,
         AskParameter, TakesTag, EndsWalk, StartReading, StopReading, Destroy, Sent
    <3>2. QED
      BY <3>1
  <2>3. QED
    BY <2>1, <2>2 DEF LinkInv, Outside
<1>7. QED
  BY <1>1, <1>2, <1>3, <1>4, <1>5, <1>6 DEF LlrpNext, ModuleStep, Others

(* Every step keeps the rounds.                                            *)
LEMMA RoundsKept ==
  ASSUME TypesInv, HandshakeInv, ScriptInv, ModeInv, RoundsInv, LlrpNext
  PROVE  RoundsInv'
<1>0. /\ requests \in Seq(Commanded) /\ specs \subseteq ROSpecs /\ history \in Histories
      /\ caller \in Callers /\ roSpecId \in Nat /\ history.round \in Nat /\ roSpecId' \in Nat
  <2>1. roSpecId' \in Nat
    BY TypesKept DEF TypesInv, DataTypes
  <2>2. QED
    BY <2>1 DEF TypesInv, SocketTypes, DataTypes, CallerTypes, Histories
<1>1. ASSUME NEW x, NEW y, Rounded(x), y.round = x.round, y.timed = x.timed,
             y.periodic = x.periodic, history'.round = history.round,
             history'.loose = history.loose
      PROVE  /\ y.round <= history'.round
             /\ y.timed <=> y.round \notin history'.loose
             /\ y.timed => ~y.periodic
  BY <1>1 DEF Rounded
<1>2. CASE ModuleHandles
  <2> DEFINE q == Head(requests)
  <2>1. /\ requests # <<>> /\ requests' = Tail(requests) /\ q \in Commanded
        /\ history'.round = history.round /\ history'.loose = history.loose
        /\ CarriedOut(q) \/ specs' = specs
    BY <1>2, Handled
  <2>2. /\ DOMAIN requests = 1..Len(requests) /\ Len(requests) \in Nat \ {0} /\ q = requests[1]
        /\ DOMAIN requests' = 1..(Len(requests) - 1)
        /\ \A i \in 1..(Len(requests) - 1) : requests'[i] = requests[i + 1]
    BY <1>0, <2>1, Shortened
  <2>3. ASSUME NEW i \in DOMAIN requests', Planned(requests'[i]) PROVE Rounded(requests[i + 1])
    BY <2>2, <2>3 DEF RoundsInv
  <2>4. ASSUME NEW t \in specs'
        PROVE  \E x : /\ Rounded(x) /\ t.round = x.round /\ t.timed = x.timed
                      /\ t.periodic = x.periodic
    <3>1. CASE specs' = specs
      BY <3>1 DEF RoundsInv
    <3>2. CASE CarriedOut(q)
      <4>1. CASE Added(q, t)
        <5>1. Rounded(q)
          BY <2>2, <4>1 DEF RoundsInv, Added, Planned
        <5>2. QED
          BY <4>1, <5>1 DEF Added
      <4>2. CASE \E s \in specs : Kept(q, s, t)
        BY <4>2 DEF RoundsInv, Kept, Same
      <4>3. QED
        BY <1>0, <3>2, <4>1, <4>2, Origin
    <3>3. QED
      BY <2>1, <3>1, <3>2
  <2>5. \A t \in specs' : /\ t.round <= history'.round
                          /\ t.timed <=> t.round \notin history'.loose
                          /\ t.timed => ~t.periodic
    BY <1>1, <2>1, <2>4
  <2>6. \A i \in DOMAIN requests' : Planned(requests'[i]) =>
          /\ requests'[i].round <= history'.round
          /\ requests'[i].timed <=> requests'[i].round \notin history'.loose
          /\ requests'[i].timed => ~requests'[i].periodic
    BY <1>1, <2>1, <2>2, <2>3
  <2>7. QED
    BY <2>5, <2>6 DEF RoundsInv, Rounded, Planned
<1>3. CASE ModuleReports
  <2>1. PICK s \in specs : /\ specs' = (specs \ {s}) \cup {[s EXCEPT !.left = @ - 1]}
                           /\ Same(s, [s EXCEPT !.left = @ - 1]) /\ requests' = requests
                           /\ history'.round = history.round /\ history'.loose = history.loose
    BY <1>3, Reported
  <2>2. \A t \in specs' : \E r \in specs : Same(r, t)
    BY <2>1 DEF Same
  <2>3. \A t \in specs' : /\ t.round <= history'.round
                          /\ t.timed <=> t.round \notin history'.loose
                          /\ t.timed => ~t.periodic
    BY <1>1, <2>1, <2>2 DEF RoundsInv, Same
  <2>4. QED
    BY <2>1, <2>3 DEF RoundsInv, Rounded
<1>4. CASE ModuleEnds
  <2>1. /\ requests' = requests /\ history' = history
             /\ \A t \in specs' : \E r \in specs : Same(r, t)
    BY <1>4, EndReported
  <2>2. QED
    BY <2>1 DEF RoundsInv, Rounded, Same
<1>5. CASE ModulePulses
  <2>1. history'.round = history.round /\ history'.loose = history.loose
    BY <1>0, <1>5 DEF ModulePulses, Histories
  <2>2. QED
    BY <1>5, <2>1 DEF ModulePulses, RoundsInv, Rounded
<1>6. CASE LinkFails
  BY <1>6, EmptySeq DEF LinkFails, RoundsInv
<1>7. CASE Others
  <2>1. Outside
    BY <1>7, OthersOutside
  <2>2. ASSUME NEW loose \in BOOLEAN, Begins(loose), specs' = specs PROVE RoundsInv'
    <3>1. ASSUME NEW x, Rounded(x), x.round \in Nat
          PROVE  /\ x.round <= history'.round
                 /\ x.round \notin history.loose <=> x.round \notin history'.loose
      <4>1. /\ history'.round = history.round + 1
            /\ \/ history'.loose = history.loose
               \/ history'.loose = history.loose \cup {history.round + 1}
        BY <2>2 DEF Begins
      <4>2. x.round <= history.round /\ x.round # history.round + 1
        BY <1>0, <3>1 DEF Rounded
      <4>3. x.round <= history'.round
        BY <1>0, <3>1, <4>1, <4>2
      <4>4. QED
        BY <4>1, <4>2, <4>3
    <3>2. \A i \in DOMAIN requests : requests[i].round \in Nat
      <4>1. \A i \in DOMAIN requests : requests[i] \in Commanded
        BY <1>0, ElementOfSeq, LenProperties
      <4>2. QED
        BY <4>1 DEF Commanded
    <3>3. \A s \in specs : s.round \in Nat
      BY <1>0 DEF ROSpecs
    <3>4. \A s \in specs : /\ s.round <= history'.round
                           /\ s.timed <=> s.round \notin history'.loose
                           /\ s.timed => ~s.periodic
      BY <3>1, <3>3 DEF RoundsInv, Rounded
    <3>5. \A i \in DOMAIN requests : Planned(requests[i]) =>
            /\ requests[i].round <= history'.round
            /\ requests[i].timed <=> requests[i].round \notin history'.loose
            /\ requests[i].timed => ~requests[i].periodic
      BY <3>1, <3>2 DEF RoundsInv, Rounded
    <3>6. requests' = requests
      BY <2>2 DEF Begins
    <3>7. QED
      BY <2>2, <3>4, <3>5, <3>6 DEF RoundsInv, Rounded, Planned
  <2>3. ASSUME specs' = specs, history'.round = history.round, history'.loose = history.loose,
               Requesting
        PROVE  RoundsInv'
    <3>1. CASE requests' = requests
      BY <2>3, <3>1 DEF RoundsInv, Rounded
    <3>2. ASSUME NEW q \in Commanded, requests' = Append(requests, q), Planned(q) => Rounded(q)
          PROVE  RoundsInv'
      <4>1. \A i \in DOMAIN requests' : requests'[i] = q
              \/ (i \in DOMAIN requests /\ requests'[i] = requests[i])
        BY <1>0, <3>2, Lengthened
      <4>2. QED
        BY <2>3, <3>2, <4>1 DEF RoundsInv, Rounded
    <3>3. CASE Sends /\ Asking
      <4> DEFINE q == Request(Head(caller.script), roSpecId')
      <4>1. Head(caller.script) \in Commands /\ caller.script # <<>>
        BY <3>3 DEF Asking, TypesInv, CallerTypes
      <4>2. q \in Commanded
        BY <1>0, <4>1, RequestType
      <4>3. Planned(q) => caller.doing \in {"read", "tagop", "starting"}
        <5>1. Head(caller.script) \in Asked(caller.doing)
          BY <4>1, HeadTailProperties DEF ScriptInv
        <5>2. QED
          BY <5>1 DEF Planned, Request, Asked, Opening, PlanSteps
      <4>4. Planned(q) => Rounded(q)
        <5>1. /\ q.round = history.round
              /\ q.timed <=> caller.doing = "read"
              /\ q.timed => ~q.periodic
          BY DEF Request
        <5>2. caller.doing \in {"read", "tagop", "starting"} =>
                (caller.doing = "read" <=> history.round \notin history.loose)
          BY DEF ModeInv, InRead
        <5> HIDE DEF q
        <5>3. ASSUME Planned(q) PROVE Rounded(q)
          <6>1. q.timed <=> q.round \notin history.loose
            BY <4>3, <5>1, <5>2, <5>3
          <6>2. q.round <= history.round
            BY <1>0, <5>1
          <6>3. QED
            BY <5>1, <6>1, <6>2 DEF Rounded
        <5>4. QED
          BY <5>3
      <4>5. requests' = Append(requests, q)
        BY <3>3 DEF Asking
      <4> HIDE DEF q
      <4>6. QED
        BY <3>2, <4>2, <4>4, <4>5
    <3>4. QED
      BY <2>3, <3>1, <3>2, <3>3 DEF Requesting, Planned
  <2>4. QED
    BY <2>1, <2>2, <2>3 DEF Outside
<1>8. QED
  BY <1>2, <1>3, <1>4, <1>5, <1>6, <1>7 DEF LlrpNext, ModuleStep, Others

-------------------------------------------------------------------------------
(* The ROSpec that a start is for: when the n first requests in rq are     *)
(* carried out, a ROSpec in sp with this id is one of round r, for         *)
(* whatever else had the id is replaced.                                   *)
Adds(q, id) == q.command = "addRO" /\ q.id = id
Ready(sp, rq, id, r, n) ==
  /\ \A s \in sp : s.id = id /\ s.round # r =>
       \E i \in 1..n : Adds(rq[i], id) /\ rq[i].round = r
  /\ \A k \in 1..n : Adds(rq[k], id) /\ rq[k].round # r =>
       \E i \in 1..n : k < i /\ Adds(rq[i], id) /\ rq[i].round = r

(* Carrying out a command leaves the ROSpecs ready for the starts behind   *)
(* it.                                                                     *)
LEMMA ReadyHandled ==
  ASSUME NEW rq \in Seq(Commanded), rq # <<>>, NEW sp, NEW sp2, NEW id, NEW r,
         NEW n \in 1..Len(rq), Ready(sp, rq, id, r, n),
         \A t \in sp2 : Added(Head(rq), t) \/ \E s \in sp : Kept(Head(rq), s, t)
  PROVE  Ready(sp2, Tail(rq), id, r, n - 1)
<1>1. /\ Len(rq) \in Nat \ {0} /\ Head(rq) = rq[1]
      /\ \A i \in 1..(Len(rq) - 1) : Tail(rq)[i] = rq[i + 1]
  BY Shortened
<1>2. ASSUME NEW i \in 1..n, i # 1, Adds(rq[i], id), rq[i].round = r
      PROVE  /\ i - 1 \in 1..(n - 1)
             /\ Adds(Tail(rq)[i - 1], id) /\ Tail(rq)[i - 1].round = r
  <2>1. i - 1 \in 1..(n - 1) /\ i - 1 \in 1..(Len(rq) - 1) /\ i - 1 + 1 = i
    BY <1>1, <1>2
  <2>2. Tail(rq)[i - 1] = rq[i]
    BY <1>1, <2>1
  <2>3. QED
    BY <1>2, <2>1, <2>2
<1>3. ASSUME NEW t \in sp2, t.id = id, t.round # r
      PROVE  \E i \in 1..(n - 1) : Adds(Tail(rq)[i], id) /\ Tail(rq)[i].round = r
  <2>1. PICK i \in 1..n : i # 1 /\ Adds(rq[i], id) /\ rq[i].round = r
    <3>1. CASE Added(Head(rq), t)
      <4>1. Adds(rq[1], id) /\ rq[1].round # r /\ 1 \in 1..n
        BY <1>1, <1>3, <3>1 DEF Added, Adds
      <4>2. PICK i \in 1..n : 1 < i /\ Adds(rq[i], id) /\ rq[i].round = r
        BY <4>1 DEF Ready
      <4>3. QED
        BY <4>2
    <3>2. CASE \E s \in sp : Kept(Head(rq), s, t)
      <4>1. PICK s \in sp : Kept(Head(rq), s, t)
        BY <3>2
      <4>2. s.id = id /\ s.round # r
        BY <1>3, <4>1 DEF Kept, Same
      <4>3. PICK i \in 1..n : Adds(rq[i], id) /\ rq[i].round = r
        BY <4>2 DEF Ready
      <4>4. i # 1
        BY <1>1, <4>1, <4>2, <4>3 DEF Kept, Adds
      <4>5. QED
        BY <4>3, <4>4
    <3>3. QED
      BY <3>1, <3>2
  <2>2. QED
    BY <1>2, <2>1
<1>4. ASSUME NEW k \in 1..(n - 1), Adds(Tail(rq)[k], id), Tail(rq)[k].round # r
      PROVE  \E i \in 1..(n - 1) : k < i /\ Adds(Tail(rq)[i], id) /\ Tail(rq)[i].round = r
  <2>1. k + 1 \in 1..n /\ k \in 1..(Len(rq) - 1) /\ k \in Nat
    BY <1>1
  <2>2. Tail(rq)[k] = rq[k + 1]
    BY <1>1, <2>1
  <2>3. PICK i \in 1..n : k + 1 < i /\ Adds(rq[i], id) /\ rq[i].round = r
    BY <1>4, <2>1, <2>2 DEF Ready
  <2>4. i # 1 /\ k < i - 1
    BY <2>1, <2>3
  <2>5. QED
    BY <1>2, <2>3, <2>4
<1>5. QED
  BY <1>3, <1>4 DEF Ready

(* A command more changes nothing for the starts before it.                *)
LEMMA ReadyLater ==
  ASSUME NEW rq \in Seq(Commanded), NEW q \in Commanded, NEW sp, NEW id, NEW r
  PROVE  /\ \A n \in 1..Len(rq) : Ready(sp, rq, id, r, n) => Ready(sp, Append(rq, q), id, r, n)
         /\ Ready(sp, rq, id, r, Len(rq)) /\ ~Adds(q, id) =>
              Ready(sp, Append(rq, q), id, r, Len(Append(rq, q)))
         /\ Adds(q, id) /\ q.round = r => Ready(sp, Append(rq, q), id, r, Len(Append(rq, q)))
<1> DEFINE v == Append(rq, q)
<1>1. /\ Len(rq) \in Nat /\ Len(v) = Len(rq) + 1 /\ v[Len(rq) + 1] = q
      /\ \A i \in 1..Len(rq) : v[i] = rq[i]
  BY Lengthened
<1> HIDE DEF v
<1>2. ASSUME NEW n \in 1..Len(rq), Ready(sp, rq, id, r, n) PROVE Ready(sp, v, id, r, n)
  <2>1. \A i \in 1..n : i \in 1..Len(rq) /\ v[i] = rq[i]
    BY <1>1
  <2>2. QED
    BY <1>2, <2>1 DEF Ready
<1>3. ASSUME Ready(sp, rq, id, r, Len(rq)), ~Adds(q, id) PROVE Ready(sp, v, id, r, Len(v))
  <2>1. /\ \A i \in 1..Len(rq) : i \in 1..Len(v) /\ v[i] = rq[i]
        /\ \A i \in 1..Len(v) : i \in 1..Len(rq) \/ ~Adds(v[i], id)
    BY <1>1, <1>3
  <2>2. QED
    BY <1>3, <2>1 DEF Ready
<1>4. ASSUME Adds(q, id), q.round = r PROVE Ready(sp, v, id, r, Len(v))
  <2>1. /\ Len(v) \in 1..Len(v) /\ Adds(v[Len(v)], id) /\ v[Len(v)].round = r
        /\ \A k \in 1..Len(v) : v[k].round # r => k < Len(v)
    BY <1>1, <1>4
  <2>2. QED
    BY <2>1 DEF Ready
<1>5. QED
  BY <1>2, <1>3, <1>4 DEF v

(* Nor does a change of the ROSpecs that keeps what they are for.          *)
LEMMA ReadySame ==
  ASSUME NEW rq, NEW sp, NEW sp2, NEW id, NEW r, NEW n, Ready(sp, rq, id, r, n),
         \A t \in sp2 : \E s \in sp : Same(s, t)
  PROVE  Ready(sp2, rq, id, r, n)
BY DEF Ready, Same

-------------------------------------------------------------------------------
OnAdd == caller.at = "waiting" /\ Head(caller.script) = "addRO"
PastAdd(s) == \E k \in DOMAIN s : s[k] = "startRO" /\ \A l \in 1..k : s[l] # "addRO"
Placed == Ready(specs, requests, roSpecId, history.round, Len(requests))

(* A start is for a ROSpec of its own operation.                           *)
PlantInv ==
  /\ \A j \in DOMAIN requests : requests[j].command = "startRO" =>
       Ready(specs, requests, requests[j].id, requests[j].round, j)
  /\ PastAdd(caller.script) => Placed
  /\ history.trouble # "refusal" /\ OnAdd => Placed

(* Where commands may be refused an answer is never late: the ROSpec is    *)
(* there when its command is said to have succeeded.                       *)
AddRequests == {q \in Commanded : q.command = "addRO"}
AddAnswers == {m \in Message : m.kind = "answer" /\ m.of = "addRO"}
Accepted == (\E i \in DOMAIN requests : requests[i] \in AddRequests)
              \/ (\E i \in DOMAIN wire : wire[i] \in AddAnswers /\ wire[i].ok)
RefusalInv ==
  history.trouble = "refusal" =>
    /\ Count(requests, AddRequests) + Count(wire, AddAnswers) = IF OnAdd THEN 1 ELSE 0
    /\ \A i \in DOMAIN requests : requests[i] \in AddRequests => i = Len(requests)
    /\ Accepted => Placed
    /\ pending # <<>> => pending[1] \notin AddAnswers

(* Other operations start nothing.                                         *)
LEMMA NotPastAdd ==
  /\ \A doing : doing \notin {"read", "tagop", "starting"} =>
       \A s \in Seq(Asked(doing)) : ~PastAdd(s)
  /\ ~PastAdd(TagOpScript) /\ ~PastAdd(<<>>)
  /\ \A plan \in Plans : ~PastAdd(ReadScript(plan)) /\ ~PastAdd(StreamScript(plan))
<1>1. ASSUME NEW doing, doing \notin {"read", "tagop", "starting"}, NEW s \in Seq(Asked(doing))
      PROVE  ~PastAdd(s)
  <2>1. \A k \in DOMAIN s : s[k] \in Asked(doing)
    BY ElementOfSeq, LenProperties
  <2>2. "startRO" \notin Asked(doing)
    BY <1>1 DEF Asked
  <2>3. QED
    BY <2>1, <2>2 DEF PastAdd
<1>2. ~PastAdd(TagOpScript) /\ ~PastAdd(<<>>)
  BY DEF PastAdd, TagOpScript
<1>3. ASSUME NEW plan \in Plans PROVE ~PastAdd(ReadScript(plan)) /\ ~PastAdd(StreamScript(plan))
  <2>1. plan = "simple" \/ plan = "tagop" \/ plan = "multi"
    BY LlrpAssumption
  <2>2. CASE plan = "simple"
    BY <2>2 DEF PastAdd, ReadScript, StreamScript, PlanScript, Simple, Periodic
  <2>3. CASE plan = "tagop"
    BY <2>3 DEF PastAdd, ReadScript, StreamScript, PlanScript, Simple, Periodic
  <2>4. CASE plan = "multi"
    BY <2>4 DEF PastAdd, ReadScript, StreamScript, PlanScript, Simple, Periodic
  <2>5. QED
    BY <2>1, <2>2, <2>3, <2>4
<1>4. QED
  BY <1>1, <1>2, <1>3

(* What is past the adding of a ROSpec stays so.                           *)
LEMMA PastAddTail ==
  ASSUME NEW E, NEW s \in Seq(E), s # <<>>
  PROVE  /\ PastAdd(Tail(s)) => PastAdd(s) \/ Head(s) = "addRO"
         /\ Head(s) = "startRO" => PastAdd(s)
<1>1. /\ Len(s) \in Nat \ {0} /\ DOMAIN s = 1..Len(s) /\ Head(s) = s[1]
      /\ DOMAIN Tail(s) = 1..(Len(s) - 1) /\ \A i \in 1..(Len(s) - 1) : Tail(s)[i] = s[i + 1]
  BY Shortened
<1>2. ASSUME PastAdd(Tail(s)), Head(s) # "addRO" PROVE PastAdd(s)
  <2>1. PICK k \in 1..(Len(s) - 1) : Tail(s)[k] = "startRO" /\ \A l \in 1..k : Tail(s)[l] # "addRO"
    BY <1>1, <1>2 DEF PastAdd
  <2>2. k + 1 \in DOMAIN s /\ s[k + 1] = "startRO"
    BY <1>1, <2>1
  <2>3. ASSUME NEW l \in 1..(k + 1) PROVE s[l] # "addRO"
    <3>1. CASE l = 1
      BY <1>1, <1>2, <3>1
    <3>2. CASE l # 1
      <4>1. l - 1 \in 1..k /\ l - 1 \in 1..(Len(s) - 1) /\ l - 1 + 1 = l
        BY <1>1, <3>2
      <4>2. QED
        BY <1>1, <2>1, <4>1
    <3>3. QED
      BY <3>1, <3>2
  <2>4. QED
    BY <2>2, <2>3 DEF PastAdd
<1>3. Head(s) = "startRO" => PastAdd(s)
  BY <1>1 DEF PastAdd
<1>4. QED
  BY <1>2, <1>3

-------------------------------------------------------------------------------
(* An answer is one to adding a ROSpec only if the command was.            *)
LEMMA AnswerSorts ==
  /\ \A r, n : Report(r, n) \notin AddAnswers
  /\ EndOfROSpec \notin AddAnswers /\ KeepAlive \notin AddAnswers
  /\ \A q \in Commanded, ok \in BOOLEAN :
       q.command \notin {"enableEvents", "getReport"} =>
         /\ Answer(q.command, ok) \in Message /\ Answer(q.command, ok).ok = ok
         /\ q.command = "addRO" <=> Answer(q.command, ok) \in AddAnswers
<1>1. ASSUME NEW q \in Commanded, NEW ok \in BOOLEAN,
             q.command \notin {"enableEvents", "getReport"}
      PROVE  /\ Answer(q.command, ok) \in Message /\ Answer(q.command, ok).ok = ok
             /\ q.command = "addRO" <=> Answer(q.command, ok) \in AddAnswers
  <2>1. q.command \in Commands \cup {"stopRO"}
    BY <1>1 DEF Commanded
  <2>2. Answer(q.command, ok) \in Message
    BY <2>1, MessageTypes
  <2>3. AnswerType(q.command) = "addRO" <=> q.command = "addRO"
    BY <2>1 DEF AnswerType, Commands
  <2>4. QED
    BY <2>2, <2>3 DEF Answer, AddAnswers
<1>2. QED
  BY <1>1 DEF Report, EndOfROSpec, KeepAlive, AddAnswers

(* A command carried out leaves every start with a ROSpec of its           *)
(* operation.                                                              *)
LEMMA PlantHandled ==
  ASSUME TypesInv, PlantInv, RefusalInv, ModuleHandles
  PROVE  PlantInv' /\ RefusalInv'
<1> DEFINE q == Head(requests)
           refused == history.trouble = "refusal" /\ specs' = specs /\ q.command = "addRO"
                      /\ wire' = Append(wire, Answer(q.command, FALSE))
<1>1. /\ requests \in Seq(Commanded) /\ wire \in Seq(Message) /\ specs \subseteq ROSpecs
  BY DEF TypesInv, SocketTypes
<1>2. /\ requests # <<>> /\ requests' = Tail(requests) /\ q \in Commanded
      /\ history'.round = history.round /\ history'.trouble = history.trouble
      /\ UNCHANGED <<caller, roSpecId, pending>>
  BY Handled
<1>3. /\ Len(requests) \in Nat \ {0} /\ DOMAIN requests = 1..Len(requests) /\ q = requests[1]
      /\ Len(requests') = Len(requests) - 1 /\ DOMAIN requests' = 1..(Len(requests) - 1)
      /\ \A i \in 1..(Len(requests) - 1) : requests'[i] = requests[i + 1]
  BY <1>1, <1>2, Shortened
<1>4. (OnAdd' <=> OnAdd) /\ (PastAdd(caller'.script) <=> PastAdd(caller.script))
  BY <1>2 DEF OnAdd
<1>5. /\ Count(requests, AddRequests)
           = Count(requests', AddRequests) + (IF q \in AddRequests THEN 1 ELSE 0)
      /\ Count(requests', AddRequests) \in Nat
  BY <1>1, <1>2, CountTail
<1>6. q \in AddRequests <=> q.command = "addRO"
  BY <1>2 DEF AddRequests
<1>7. \A m \in Message :
        /\ Count(Append(wire, m), AddAnswers)
             = Count(wire, AddAnswers) + (IF m \in AddAnswers THEN 1 ELSE 0)
        /\ Count(wire, AddAnswers) \in Nat
        /\ DOMAIN wire = 1..Len(wire) /\ Len(wire) \in Nat
        /\ DOMAIN Append(wire, m) = 1..(Len(wire) + 1) /\ Append(wire, m)[Len(wire) + 1] = m
        /\ \A i \in 1..Len(wire) : Append(wire, m)[i] = wire[i]
  BY <1>1, CountAppend, Lengthened
<1>8. CASE refused
  <2>1. /\ OnAdd => Count(requests, AddRequests) + Count(wire, AddAnswers) = 1
        /\ ~OnAdd => Count(requests, AddRequests) + Count(wire, AddAnswers) = 0
        /\ Len(requests) = 1
    BY <1>3, <1>6, <1>8 DEF RefusalInv
  <2> DEFINE m == Answer(q.command, FALSE)
  <2>2. m \in Message /\ m \in AddAnswers /\ ~m.ok /\ wire' = Append(wire, m)
    BY <1>2, <1>8, AnswerSorts
  <2>3. /\ Count(requests, AddRequests) = Count(requests', AddRequests) + 1
        /\ Count(wire', AddAnswers) = Count(wire, AddAnswers) + 1
        /\ Count(wire, AddAnswers) \in Nat /\ Count(requests', AddRequests) \in Nat
    <3> HIDE DEF m
    <3>1. QED
      BY <1>5, <1>6, <1>7, <1>8, <2>2
  <2>4. OnAdd /\ Count(wire, AddAnswers) = 0 /\ DOMAIN requests' = {}
    BY <1>3, <2>1, <2>3
  <2>5. \A i \in 1..Len(wire) : wire[i] \notin AddAnswers
    <3>1. Len(wire) \in Nat
      BY <1>1, LenProperties
    <3>2. QED
      BY <2>4, <3>1, CountPart
  <2>6. ~PastAdd(caller.script)
    <3>1. caller.script \in Seq(Steps) /\ caller.script # <<>>
      BY <2>4 DEF OnAdd, TypesInv, CallerTypes, Callers
    <3>2. caller.script[1] = "addRO" /\ DOMAIN caller.script = 1..Len(caller.script)
      BY <2>4, <3>1, Shortened DEF OnAdd
    <3>3. QED
      BY <3>2 DEF PastAdd
  <2>7. PlantInv'
    BY <1>2, <1>4, <1>8, <2>4, <2>6 DEF PlantInv
  <2>8. Count(requests', AddRequests) + Count(wire', AddAnswers) = IF OnAdd THEN 1 ELSE 0
    <3>1. Count(requests', AddRequests) + Count(wire', AddAnswers) = 1
      BY <2>1, <2>3, <2>4
    <3>2. QED
      BY <2>4, <3>1
  <2>9. ~Accepted'
    <3>1. \A i \in DOMAIN wire' : wire'[i] \notin AddAnswers \/ ~wire'[i].ok
      <4> HIDE DEF m
      <4>1. QED
        BY <1>7, <2>2, <2>5
    <3>2. QED
      BY <2>4, <3>1 DEF Accepted
  <2>10. QED
    BY <1>2, <1>4, <2>1, <2>4, <2>7, <2>8, <2>9 DEF RefusalInv
<1>9. CASE ~refused
  <2>1. \A t \in specs' : Added(q, t) \/ \E s \in specs : Kept(q, s, t)
    <3>1. CASE CarriedOut(q)
      BY <1>1, <3>1, Origin
    <3>2. CASE specs' = specs /\ q.command # "addRO"
      <4>1. \A t \in specs : Kept(q, t, t)
        BY <3>2 DEF Kept, Same
      <4>2. QED
        BY <3>2, <4>1
    <3>3. QED
      BY <1>9, <3>1, <3>2, Handled
  <2>2. ASSUME NEW id, NEW r, NEW n \in 1..Len(requests), Ready(specs, requests, id, r, n)
        PROVE  Ready(specs', requests', id, r, n - 1)
    <3> HIDE DEF q
    <3>1. Head(requests) = q
      BY DEF q
    <3>2. QED
      BY <1>1, <1>2, <2>1, <2>2, <3>1, ReadyHandled
  <2>3. Placed => Placed'
    <3>1. Len(requests) \in 1..Len(requests)
      BY <1>3
    <3>2. QED
      BY <1>2, <1>3, <2>2, <3>1 DEF Placed
  <2>4. ASSUME NEW j \in DOMAIN requests', requests'[j].command = "startRO"
        PROVE  Ready(specs', requests', requests'[j].id, requests'[j].round, j)
    <3>1. /\ j \in Nat /\ j + 1 \in 1..Len(requests) /\ requests'[j] = requests[j + 1]
          /\ j + 1 - 1 = j
      BY <1>3
    <3>2. Ready(specs, requests, requests'[j].id, requests'[j].round, j + 1)
      BY <1>3, <2>4, <3>1 DEF PlantInv
    <3>3. PICK n \in 1..Len(requests) : n = j + 1 /\ n - 1 = j
      BY <3>1
    <3>4. Ready(specs, requests, requests'[j].id, requests'[j].round, n)
      BY <3>2, <3>3
    <3>5. Ready(specs', requests', requests'[j].id, requests'[j].round, n - 1)
      BY <2>2, <3>4
    <3>6. QED
      BY <3>3, <3>5
  <2>5. PlantInv'
    BY <1>2, <1>4, <2>3, <2>4 DEF PlantInv
  <2>6. PICK m \in Message : /\ wire' = wire \/ wire' = Append(wire, m)
                             /\ wire' = wire => q.command \in {"enableEvents", "getReport"}
                             /\ q.command = "addRO" <=> m \in AddAnswers
    <3>1. CASE q.command \in {"enableEvents", "getReport"}
      <4>1. EndOfROSpec \in Message
        BY MessageTypes
      <4>2. wire' = wire \/ \E a \in BOOLEAN : wire' = Append(wire, Answer(q.command, a))
        BY <1>2, Handled
      <4>3. wire' = wire
        BY <3>1 DEF ModuleHandles
      <4>4. QED
        BY <3>1, <4>1, <4>3, AnswerSorts
    <3>2. CASE q.command \notin {"enableEvents", "getReport"}
      <4>1. \E a \in BOOLEAN : wire' = Append(wire, Answer(q.command, a))
        BY <3>2, Handled
      <4>2. PICK a \in BOOLEAN : wire' = Append(wire, Answer(q.command, a))
        BY <4>1
      <4>3. Answer(q.command, a) \in Message
            /\ (q.command = "addRO" <=> Answer(q.command, a) \in AddAnswers)
        BY <1>2, <3>2, AnswerSorts
      <4>4. Append(wire, Answer(q.command, a)) # wire
        BY <1>7, <4>3
      <4>5. QED
        BY <4>2, <4>3, <4>4
    <3>3. QED
      BY <3>1, <3>2
  <2>7. Count(wire', AddAnswers) = Count(wire, AddAnswers) + (IF q.command = "addRO" THEN 1 ELSE 0)
    <3>1. CASE wire' = wire
      <4>1. q.command # "addRO" /\ Count(wire, AddAnswers) \in Nat
        BY <1>7, <2>6, <3>1
      <4>2. QED
        BY <3>1, <4>1
    <3>2. CASE wire' = Append(wire, m)
      BY <1>7, <2>6, <3>2
    <3>3. QED
      BY <2>6, <3>1, <3>2
  <2>8. Count(requests', AddRequests) + Count(wire', AddAnswers)
          = Count(requests, AddRequests) + Count(wire, AddAnswers)
    BY <1>5, <1>6, <1>7, <2>6, <2>7
  <2>9. Accepted' => Accepted
    <3>1. \A i \in DOMAIN requests' : i + 1 \in DOMAIN requests /\ requests'[i] = requests[i + 1]
      BY <1>3
    <3>2. \A i \in DOMAIN wire' : \/ i \in DOMAIN wire /\ wire'[i] = wire[i]
                                  \/ wire'[i] = m
      BY <1>7, <2>6
    <3>3. q.command = "addRO" => Accepted
      BY <1>3, <1>6 DEF Accepted
    <3>4. QED
      BY <2>6, <3>1, <3>2, <3>3 DEF Accepted
  <2>10. (\A i \in DOMAIN requests : requests[i] \in AddRequests => i = Len(requests)) =>
           \A i \in DOMAIN requests' : requests'[i] \in AddRequests => i = Len(requests')
    BY <1>3
  <2>11. QED
    BY <1>2, <1>4, <2>3, <2>5, <2>8, <2>9, <2>10 DEF RefusalInv
<1>10. QED
  BY <1>8, <1>9

(* What else the reader does leaves the requests alone.                    *)
LEMMA PlantReported ==
  ASSUME TypesInv, PlantInv, RefusalInv,
         UNCHANGED <<requests, caller, roSpecId, pending>>,
         history'.round = history.round, history'.trouble = history.trouble,
         \A t \in specs' : \E s \in specs : Same(s, t),
         NEW m \in Message \ AddAnswers, wire' = wire \/ wire' = Append(wire, m)
  PROVE  PlantInv' /\ RefusalInv'
<1>1. wire \in Seq(Message)
  BY DEF TypesInv, SocketTypes
<1>2. /\ Count(Append(wire, m), AddAnswers) = Count(wire, AddAnswers) + 0
      /\ Count(wire, AddAnswers) \in Nat
      /\ DOMAIN wire = 1..Len(wire) /\ Len(wire) \in Nat
      /\ DOMAIN Append(wire, m) = 1..(Len(wire) + 1) /\ Append(wire, m)[Len(wire) + 1] = m
      /\ \A i \in 1..Len(wire) : Append(wire, m)[i] = wire[i]
  BY <1>1, CountAppend, Lengthened
<1>3. Count(wire', AddAnswers) = Count(wire, AddAnswers)
  <2>1. Count(Append(wire, m), AddAnswers) = Count(wire, AddAnswers)
    BY <1>2
  <2>2. CASE wire' = wire
    BY <2>2
  <2>3. CASE wire' = Append(wire, m)
    BY <2>1, <2>3
  <2>4. QED
    BY <2>2, <2>3
<1>4. Accepted' => Accepted
  <2>1. \A i \in DOMAIN wire' : \/ i \in DOMAIN wire /\ wire'[i] = wire[i]
                                \/ wire'[i] = m
    BY <1>2
  <2>2. QED
    BY <2>1 DEF Accepted
<1>5. \A id, r, n : Ready(specs, requests, id, r, n) => Ready(specs', requests', id, r, n)
  BY ReadySame
<1>6. (Placed => Placed') /\ (OnAdd' <=> OnAdd)
  BY <1>5 DEF Placed, OnAdd
<1>7. PlantInv'
  BY <1>5, <1>6 DEF PlantInv
<1>8. QED
  BY <1>3, <1>4, <1>6, <1>7 DEF RefusalInv

-------------------------------------------------------------------------------
(* What makes a command succeed: an answer of its type.                    *)
Taken == \/ Answers(Head(wire)) /\ Head(wire).ok
         \/ pending # <<>> /\ Answers(pending[1]) /\ pending[1].ok

(* What is known of the script after a command was answered or refused.    *)
LEMMA Progress ==
  ASSUME TypesInv, HandshakeInv, ScriptInv, ModeInv, Others, ~Sends
  PROVE  /\ caller'.at = "waiting" => caller' = caller
         /\ PastAdd(caller'.script) =>
              \/ PastAdd(caller.script)
              \/ CommandTakes /\ Head(caller.script) = "addRO" /\ Taken
<1>0. caller \in Callers /\ history \in Histories /\ stream \in Streams
  BY DEF TypesInv, CallerTypes, DataTypes, ThreadTypes
<1>1. CASE caller' = caller
  BY <1>1
<1>2. ASSUME NEW h, Finishes(TRUE, h) \/ Finishes(FALSE, h)
      PROVE  caller'.at = "ready" /\ ~PastAdd(caller'.script)
  <2>1. caller'.script = <<>> \/ (caller.doing = "starting" /\ caller'.script = StreamScript(caller.plan))
    BY <1>2 DEF Finishes
  <2>2. QED
    BY <1>2, <2>1, NotPastAdd DEF Finishes, TypesInv, CallerTypes
<1>3. ASSUME caller.script # <<>>, NEW h, Advanced(Tail(caller.script), h)
      PROVE  /\ caller'.at = "ready"
             /\ PastAdd(caller'.script) => PastAdd(caller.script) \/ Head(caller.script) = "addRO"
  <2>1. caller.script \in Seq(Steps)
    BY <1>0 DEF Callers
  <2>2. CASE Continues(Tail(caller.script), h)
    BY <1>3, <2>1, <2>2, PastAddTail DEF Continues
  <2>3. CASE Finishes(TRUE, h)
    BY <1>2, <2>3
  <2>4. QED
    BY <1>3, <2>2, <2>3 DEF Advanced
<1>4. ASSUME caller.script # <<>>, NEW h, Failed(h)
      PROVE  caller'.at = "ready" /\ (PastAdd(caller'.script) => PastAdd(caller.script))
  <2>1. CASE Fatal(caller.script)
    BY <1>2, <1>4, <2>1 DEF Failed
  <2>2. CASE ~Fatal(caller.script)
    <3>1. Head(caller.script) # "addRO"
      <4>1. caller.script[1] = Head(caller.script)
        BY <1>0, <1>4, Shortened DEF Callers
      <4>2. QED
        BY <2>2, <4>1 DEF Fatal
    <3>2. QED
      BY <1>3, <1>4, <2>2, <3>1 DEF Failed
  <2>3. QED
    BY <2>1, <2>2
<1>5. CASE SendsOnly
  <2>1. caller.script # <<>> /\ Head(caller.script) = "enableEvents"
    BY <1>5 DEF SendsOnly, FirstIs
  <2>2. CASE Ended("failed", history)
    <3>1. Finishes("failed" = "ok", history)
      BY <1>0, <2>2, EndedFields
    <3>2. Finishes(FALSE, history)
      BY <3>1
    <3>3. QED
      BY <1>2, <3>2
  <2>3. CASE Proceed(Tail(caller.script), history)
    <3>1. Advanced(Tail(caller.script), history)
      BY <1>0, <2>3, ProceedFields
    <3>2. QED
      BY <1>3, <2>1, <3>1
  <2>4. QED
    BY <1>5, <2>2, <2>3 DEF SendsOnly
<1>6. CASE Counts
  <2>1. caller.script # <<>> /\ Head(caller.script) # "addRO"
    BY <1>6 DEF Counts, FirstIs
  <2>2. Advanced(Tail(caller.script), history)
    BY <1>0, <1>6, ProceedFields DEF Counts
  <2>3. QED
    BY <1>3, <2>1, <2>2
<1>7. CASE Quiets
  <2>1. caller'.at # "waiting" /\ caller'.script = caller.script
    BY <1>0, <1>7 DEF Quiets, Callers
  <2>2. QED
    BY <2>1
<1>8. CASE CommandTakes
  <2> DEFINE h == [history EXCEPT !.eaten =
                     @ \/ (continuousReading /\ Head(wire).kind = "keepAlive")]
  <2>1. h \in Histories
    BY <1>0 DEF Histories
  <2>2. \/ \E a : /\ Answered(a, h)
                  /\ \/ a = Head(wire) /\ Answers(a)
                     \/ pending # <<>> /\ a = pending[1] /\ Answers(a)
        \/ caller' = caller
    BY <1>8 DEF CommandTakes
  <2>3. caller.script # <<>>
    BY <1>8 DEF CommandTakes, TypesInv, CallerTypes
  <2> HIDE DEF h
  <2>4. ASSUME NEW a, Answered(a, h), Answers(a), a = Head(wire)
               \/ (pending # <<>> /\ a = pending[1])
        PROVE /\ caller'.at = "ready"
              /\ PastAdd(caller'.script) =>
                   PastAdd(caller.script) \/ (Head(caller.script) = "addRO" /\ Taken)
    <3>1. CASE ~a.ok
      <4>1. Failed(h)
        BY <2>1, <2>3, <2>4, <3>1, AnsweredFields
      <4>2. QED
        BY <1>4, <2>3, <4>1
    <3>2. CASE a.ok
      <4>1. PICK more : /\ more \in {<<>>, <<"stopOld", "disableOld">>, <<"stopOld">>}
                        /\ Head(caller.script) # "getROSpecs" => more = <<>>
                        /\ Advanced(more \o Tail(caller.script), h)
        BY <2>1, <2>3, <2>4, <3>2, AnsweredFields
      <4>2. CASE more = <<>>
        <5>1. more \o Tail(caller.script) = Tail(caller.script)
          <6>1. Tail(caller.script) \in Seq(Steps)
            BY <1>0, <2>3, HeadTailProperties DEF Callers
          <6>2. QED
            BY <4>2, <6>1, ConcatEmptySeq
        <5>2. QED
          BY <1>3, <2>3, <2>4, <3>2, <4>1, <5>1 DEF Taken
      <4>3. CASE more # <<>>
        <5>1. CASE Finishes(TRUE, h)
          BY <1>2, <5>1
        <5>2. CASE Continues(more \o Tail(caller.script), h)
          <6>1. Head(caller.script) \in Asked(caller.doing)
            BY <2>3, HeadTailProperties DEF ScriptInv
          <6>2. caller.doing = "connect"
            BY <4>1, <4>3, <6>1 DEF Asked, Opening, PlanSteps
          <6>3. caller'.at = "ready" /\ caller'.doing = "connect"
            BY <5>2, <6>2 DEF Continues
          <6>4. caller'.script \in Seq(Asked("connect"))
            <7>1. ScriptInv'
              BY <1>8, ScriptStays
            <7>2. QED
              BY <6>3, <7>1 DEF ScriptInv
          <6>5. ~PastAdd(caller'.script)
            BY <6>4, NotPastAdd
          <6>6. QED
            BY <6>3, <6>5
        <5>3. QED
          BY <4>1, <5>1, <5>2 DEF Advanced
      <4>4. QED
        BY <4>2, <4>3
    <3>3. QED
      BY <3>1, <3>2
  <2>5. QED
    BY <1>1, <1>8, <2>2, <2>4
<1>9. CASE CommandTimesOut
  <2> DEFINE h == [history EXCEPT !.troubles = history.troubles + 1]
  <2>1. h \in Histories
    BY <1>0 DEF Histories
  <2>2. Fails(history) \/ Fails(h)
    BY <1>9 DEF CommandTimesOut
  <2>3. caller.script # <<>>
    BY <1>9 DEF CommandTimesOut, TypesInv, CallerTypes
  <2> HIDE DEF h
  <2>4. Failed(history) \/ Failed(h)
    BY <1>0, <2>1, <2>2, FailsFields
  <2>5. QED
    BY <1>4, <2>3, <2>4
<1>10. CASE Awaits
  <2>1. caller.script # <<>> /\ Head(caller.script) = "await"
    BY <1>10 DEF Awaits, FirstIs
  <2> DEFINE h == [history EXCEPT !.lost = TRUE]
  <2>2. h \in Histories
    BY <1>0 DEF Histories
  <2>3. Ended("lost", h) \/ Proceed(Tail(caller.script), history)
    BY <1>10 DEF Awaits
  <2> HIDE DEF h
  <2>4. Finishes("lost" = "ok", h) \/ Advanced(Tail(caller.script), history)
    BY <1>0, <2>2, <2>3, EndedFields, ProceedFields
  <2>5. Finishes(FALSE, h) \/ Advanced(Tail(caller.script), history)
    BY <2>4
  <2>6. QED
    BY <1>2, <1>3, <2>1, <2>5
<1>11. CASE AwaitsReport
  <2>1. PICK result : Ended(result, history)
    BY <1>11 DEF AwaitsReport
  <2>2. Finishes(result = "ok", history)
    BY <1>0, <2>1, EndedFields
  <2>3. Finishes(TRUE, history) \/ Finishes(FALSE, history)
    BY <2>2 DEF Finishes
  <2>4. QED
    BY <1>2, <2>3
<1>12. CASE ReceiverStep \/ StreamStep \/ TakesTag \/ EndsWalk
  <2>1. caller' = caller
    BY <1>12 DEF ReceiverStep, StreamStep, TakesTag, EndsWalk, ReceiverGoes, ReceiverTakes,
                 ReceiverStores, ReceiverIdles, ReceiverFails, StreamAsks, StreamTakes,
                 StreamTimesOut
  <2>2. QED
    BY <1>1, <2>1
<1>13. CASE StopsReading \/ StopReading \/ Destroy
  <2>1. caller'.at = caller.at /\ caller'.script = caller.script /\ caller.at = "ready"
    BY <1>0, <1>13 DEF StopsReading, StopReading, Destroy, Callers, HandshakeInv, CallerInv, Resting
  <2>2. QED
    BY <2>1
<1>14. ASSUME NEW doing, NEW plan, NEW script, Begin(doing, plan, script), ~PastAdd(script),
              caller.doing \in Resting
       PROVE  caller'.at = "ready" /\ ~PastAdd(caller'.script)
  BY <1>0, <1>14 DEF Begin, Callers, HandshakeInv, CallerInv
<1>15. CASE StartsReading \/ Read \/ ExecuteTagOp \/ Connect \/ StartReading
  <2>1. caller.doing \in Resting
    BY <1>15 DEF StartsReading, Read, ExecuteTagOp, Connect, StartReading, Idle, Resting
  <2>2. ~PastAdd(BootScript)
    <3>1. BootScript \in Seq(Asked("connect"))
      BY OtherScripts
    <3>2. QED
      BY <3>1, NotPastAdd
  <2>3. CASE StartsReading
    BY <1>14, <2>1, <2>3, NotPastAdd DEF StartsReading, TypesInv, CallerTypes
  <2>4. CASE Read
    BY <1>14, <2>1, <2>4, NotPastAdd DEF Read
  <2>5. CASE ExecuteTagOp
    BY <1>14, <2>1, <2>5, NotPastAdd DEF ExecuteTagOp
  <2>6. CASE Connect
    BY <1>14, <2>1, <2>2, <2>6 DEF Connect
  <2>7. CASE StartReading
    BY <1>14, <2>1, <2>7, NotPastAdd DEF StartReading
  <2>8. QED
    BY <1>15, <2>3, <2>4, <2>5, <2>6, <2>7
<1>16. CASE Joins \/ AskParameter
  <2>1. caller.doing \in Resting
    BY <1>16 DEF Joins, AskParameter, Idle, Resting
  <2>2. ~PastAdd(<<"parameter">>) /\ ~PastAdd(<<"close">>)
    <3>1. <<"parameter">> \in Seq(Asked("parameter")) /\ <<"close">> \in Seq(Asked("closing"))
      BY OtherScripts
    <3>2. QED
      BY <3>1, NotPastAdd
  <2>3. QED
    BY <1>14, <1>16, <2>1, <2>2 DEF Joins, AskParameter
<1>17. QED
  BY <1>5, <1>6, <1>7, <1>8, <1>9, <1>10, <1>11, <1>12, <1>13, <1>15, <1>16
     DEF Others, CommandStep, UserStep

-------------------------------------------------------------------------------
(* While the application waits for the answer to an addRO, nobody else     *)
(* takes messages from the socket or asks the reader for anything.         *)
LEMMA AnsweredReady ==
  ASSUME TypesInv, caller.script # <<>>, NEW m, NEW h \in Histories, Answered(m, h)
  PROVE  caller'.at = "ready"
<1>1. CASE m.ok
  <2>1. PICK more : Advanced(more \o Tail(caller.script), h)
    BY <1>1, AnsweredFields
  <2>2. QED
    BY <2>1 DEF Advanced, Finishes, Continues
<1>2. CASE ~m.ok
  <2>1. Failed(h)
    BY <1>2, AnsweredFields
  <2>2. QED
    BY <2>1 DEF Failed, Advanced, Finishes, Continues
<1>3. QED
  BY <1>1, <1>2

(* Where commands may be refused, the ROSpec being added is the only one.  *)
LEMMA Alone ==
  ASSUME TypesInv, HandshakeInv, ScriptInv, ModeInv, OnAdd
  PROVE  /\ stream.phase # "on" /\ receiver.at # "select"
         /\ caller.doing \in {"read", "tagop", "starting"} /\ caller.doing \notin Resting
         /\ caller.script # <<>>
<1>1. caller \in Callers /\ caller.script # <<>> /\ caller.at = "waiting"
      /\ Head(caller.script) = "addRO"
  BY DEF TypesInv, CallerTypes, OnAdd
<1>2. "addRO" \in Asked(caller.doing)
  BY <1>1, HeadTailProperties DEF ScriptInv
<1>3. caller.doing \in {"read", "tagop", "starting"}
  BY <1>2 DEF Asked
<1>4. stream.phase # "on"
  BY <1>3 DEF ModeInv, continuousReading, HandshakeInv, StreamInv
<1>5. receiver.at # "select"
  BY <1>1, <1>3 DEF HandshakeInv, ThreadInv, CommandInv, StreamInv, FieldsInv, ModeInv
<1>6. QED
  BY <1>1, <1>3, <1>4, <1>5 DEF Resting

(* How the operation leaves the adding of a ROSpec.                        *)
LEMMA OnAddSteps ==
  ASSUME TypesInv, HandshakeInv, ScriptInv, ModeInv, OnAdd, Others
  PROVE  /\ requests' = requests /\ ~Sends
         /\ \/ CommandTakes \/ CommandTimesOut
            \/ caller' = caller /\ wire' = wire /\ pending' = pending
<1>1. /\ stream.phase # "on" /\ receiver.at # "select" /\ caller.at = "waiting"
      /\ caller.doing \notin Resting /\ caller.doing # "nothing"
  BY Alone DEF OnAdd, Resting
<1>2. ~Sends
  BY <1>1 DEF Sends
<1>3. CASE ReceiverStep
  BY <1>1, <1>2, <1>3 DEF ReceiverStep, ReceiverGoes, ReceiverTakes, ReceiverStores, ReceiverIdles,
                          ReceiverFails
<1>4. CASE StreamStep
  BY <1>1, <1>4 DEF StreamStep, StreamAsks, StreamTakes, StreamTimesOut
<1>5. CASE UserStep
  BY <1>1, <1>5 DEF UserStep, Connect, Read, ExecuteTagOp, AskParameter, TakesTag, EndsWalk,
                    StartReading, StopReading, Destroy, Idle, Resting
<1>6. CASE CommandStep
  <2>1. CommandTakes \/ CommandTimesOut
    BY <1>1, <1>2, <1>6 DEF CommandStep, SendsOnly, Counts, Quiets, Awaits, AwaitsReport, FirstIs,
                            StartsReading, StopsReading, Joins, Resting
  <2>2. QED
    BY <1>2, <2>1 DEF CommandTakes, CommandTimesOut
<1>7. QED
  BY <1>3, <1>4, <1>5, <1>6 DEF Others

(* A start that is sent is for the ROSpec that was added.                  *)
LEMMA PlantSends ==
  ASSUME TypesInv, HandshakeInv, ScriptInv, ModeInv, LinkInv, PlantInv, RefusalInv, Sends
  PROVE  PlantInv' /\ RefusalInv'
<1> DEFINE c == Head(caller.script)
           q == Request(c, roSpecId')
<1>0. /\ caller \in Callers /\ history \in Histories /\ roSpecId \in Nat /\ roSpecId' \in Nat
      /\ requests \in Seq(Commanded) /\ wire \in Seq(Message)
      /\ caller.at # "waiting" /\ caller.at # "ready" /\ caller.script # <<>> /\ c \in Commands
  BY DEF TypesInv, CallerTypes, DataTypes, SocketTypes, Sends, GivenId
<1>1. /\ specs' = specs /\ link' = link /\ history'.trouble = history.trouble /\ wire' = wire
      /\ pending' = pending /\ ~OnAdd
  <2>1. Outside
    BY OthersOutside DEF Others, CommandStep
  <2>2. QED
    BY <1>0, <2>1 DEF Outside, Sends, OnAdd
<1>2. CASE link # "up"
  <2>1. requests' = requests /\ requests = <<>> /\ specs = {} /\ history.trouble # "refusal"
    BY <1>2 DEF LinkInv, Sends, Sent
  <2>2. \A id, r, n : n \in {0} => Ready(specs', requests', id, r, n)
    BY <1>1, <2>1 DEF Ready
  <2>3. Placed'
    BY <2>1, <2>2 DEF Placed
  <2>4. QED
    BY <1>1, <2>1, <2>3 DEF PlantInv, RefusalInv
<1>3. CASE link = "up"
  <2>1. Asking
    BY <1>3 DEF Sends, Sent, Asking
  <2>2. /\ requests' = Append(requests, q) /\ q \in Commanded /\ history' = history
        /\ caller'.at = "waiting" /\ caller'.script = caller.script
        /\ c # "addRO" => roSpecId' = roSpecId
    BY <1>0, <2>1, RequestType DEF Asking, Callers
  <2>3. q.command = c /\ q.round = history.round
    BY DEF Request
  <2>4. c \in {"addRO", "startRO"} => q.id = roSpecId'
    <3>1. c \in Asked(caller.doing)
      BY <1>0, HeadTailProperties DEF ScriptInv
    <3>2. c \in {"addRO", "startRO"} => caller.doing # "connect"
      BY <3>1 DEF Asked
    <3>3. QED
      BY <3>2 DEF Request
  <2>5. /\ Len(requests) \in Nat /\ DOMAIN requests = 1..Len(requests)
        /\ Len(requests') = Len(requests) + 1 /\ DOMAIN requests' = 1..(Len(requests) + 1)
        /\ requests'[Len(requests) + 1] = q
        /\ \A i \in 1..Len(requests) : requests'[i] = requests[i]
    BY <1>0, <2>2, Lengthened
  <2> HIDE DEF q, c
  <2>6. /\ PastAdd(caller.script) => Placed /\ c # "addRO"
        /\ c = "startRO" => PastAdd(caller.script)
    <3>1. PastAdd(caller.script) => c # "addRO"
      <4>1. c = caller.script[1]
        BY <1>0, Shortened DEF Callers, c
      <4>2. \A k \in DOMAIN caller.script : 1 \in 1..k
        BY <1>0, Shortened DEF Callers
      <4>3. QED
        BY <4>1, <4>2 DEF PastAdd
    <3>2. c = "startRO" => PastAdd(caller.script)
      BY <1>0, PastAddTail DEF Callers, c
    <3>3. QED
      BY <3>1, <3>2 DEF PlantInv
  <2>7. PastAdd(caller.script) => Placed'
    <3>1. ASSUME PastAdd(caller.script) PROVE Placed'
      <4>1. Placed /\ c # "addRO" /\ ~Adds(q, roSpecId)
        BY <2>3, <2>6, <3>1 DEF Adds
      <4>2. Ready(specs, Append(requests, q), roSpecId, history.round, Len(Append(requests, q)))
        BY <1>0, <2>2, <4>1, ReadyLater DEF Placed
      <4>3. QED
        BY <1>1, <2>2, <4>1, <4>2 DEF Placed
    <3>2. QED
      BY <3>1
  <2>8. c = "addRO" => Placed'
    <3>1. ASSUME c = "addRO" PROVE Placed'
      <4>1. Adds(q, roSpecId') /\ q.round = history.round
        BY <2>3, <2>4, <3>1 DEF Adds
      <4>2. Ready(specs, Append(requests, q), roSpecId', history.round, Len(Append(requests, q)))
        BY <1>0, <2>2, <4>1, ReadyLater
      <4>3. QED
        BY <1>1, <2>2, <4>2 DEF Placed
    <3>2. QED
      BY <3>1
  <2>9. OnAdd' <=> c = "addRO"
    BY <2>2 DEF OnAdd, c
  <2>10. PlantInv'
    <3>1. ASSUME NEW j \in DOMAIN requests', requests'[j].command = "startRO"
          PROVE  Ready(specs', requests', requests'[j].id, requests'[j].round, j)
      <4>1. CASE j \in 1..Len(requests)
        <5>1. Ready(specs, requests, requests[j].id, requests[j].round, j)
          BY <2>5, <3>1, <4>1 DEF PlantInv
        <5>2. Ready(specs, Append(requests, q), requests[j].id, requests[j].round, j)
          BY <1>0, <2>2, <4>1, <5>1, ReadyLater
        <5>3. QED
          BY <1>1, <2>2, <2>5, <4>1, <5>2
      <4>2. CASE j = Len(requests) + 1
        <5>1. requests'[j] = q /\ c = "startRO" /\ Placed'
          BY <2>3, <2>5, <2>6, <2>7, <3>1, <4>2
        <5>2. QED
          BY <2>2, <2>3, <2>4, <2>5, <4>2, <5>1 DEF Placed
      <4>3. QED
        BY <2>5, <4>1, <4>2
    <3>2. QED
      BY <2>2, <2>7, <2>8, <2>9, <3>1 DEF PlantInv
  <2>11. RefusalInv'
    <3>1. ASSUME history.trouble = "refusal" PROVE RefusalInv'
      <4>1. /\ Count(requests, AddRequests) + Count(wire, AddAnswers) = 0
            /\ Count(requests, AddRequests) \in Nat /\ Count(wire, AddAnswers) \in Nat
        BY <1>0, <1>1, <3>1, LenProperties, CountPart DEF RefusalInv
      <4>2. Count(requests, AddRequests) = 0 /\ Count(wire, AddAnswers) = 0
        BY <4>1
      <4>3. /\ \A i \in DOMAIN requests : requests[i] \notin AddRequests
            /\ \A i \in DOMAIN wire : wire[i] \notin AddAnswers
        BY <1>0, <4>2, LenProperties, CountPart
      <4>4. q \in AddRequests <=> c = "addRO"
        BY <2>2, <2>3 DEF AddRequests
      <4>5. Count(requests', AddRequests) = IF OnAdd' THEN 1 ELSE 0
        <5>1. CASE c = "addRO"
          BY <1>0, <2>2, <2>9, <4>2, <4>4, <5>1, CountAppend
        <5>2. CASE c # "addRO"
          BY <1>0, <2>2, <2>9, <4>2, <4>4, <5>2, CountAppend
        <5>3. QED
          BY <5>1, <5>2
      <4>6. Count(requests', AddRequests) + Count(wire', AddAnswers) = IF OnAdd' THEN 1 ELSE 0
        <5>1. Count(wire', AddAnswers) = 0
          BY <1>1, <4>2
        <5>2. QED
          BY <4>5, <5>1
      <4>7. \A i \in DOMAIN requests' :
              requests'[i] \in AddRequests => i = Len(requests') /\ c = "addRO"
        BY <2>5, <4>3, <4>4
      <4>8. Accepted' => Placed'
        BY <1>1, <2>8, <4>3, <4>7 DEF Accepted
      <4>9. QED
        BY <1>1, <3>1, <4>6, <4>7, <4>8 DEF RefusalInv
    <3>2. QED
      BY <1>1, <3>1 DEF RefusalInv
  <2>12. QED
    BY <2>10, <2>11
<1>4. QED
  BY <1>2, <1>3

(* What the threads of the host do leaves every start with its ROSpec.     *)
LEMMA PlantOthers ==
  ASSUME TypesInv, HandshakeInv, ScriptInv, ModeInv, PlantInv, RefusalInv, LinkInv, Others, ~Sends
  PROVE  PlantInv' /\ RefusalInv'
<1>0. /\ caller \in Callers /\ history \in Histories /\ roSpecId \in Nat
      /\ requests \in Seq(Commanded) /\ wire \in Seq(Message) /\ pending \in Seq(Message)
  BY DEF TypesInv, CallerTypes, DataTypes, SocketTypes
<1>1. /\ specs' = specs /\ history'.trouble = history.trouble /\ roSpecId' = roSpecId
      /\ wire' = wire \/ (wire # <<>> /\ wire' = Tail(wire))
      /\ \/ requests' = requests
         \/ \E q \in Commanded : /\ q.command \notin {"addRO", "startRO"}
                                 /\ requests' = Append(requests, q)
      /\ \/ history'.round = history.round
         \/ caller.script = <<>> /\ caller'.at = "ready" /\ ~CommandTakes
  <2>1. Outside
    BY OthersOutside
  <2>2. CommandTakes => Commanding
    BY DEF Commanding
  <2>3. QED
    BY <2>1, <2>2 DEF Outside, Requesting, Begins
<1>2. /\ \A n \in 1..Len(requests) : \A id, r :
             Ready(specs, requests, id, r, n) => Ready(specs', requests', id, r, n)
      /\ Placed /\ history'.round = history.round => Placed'
      /\ \A j \in DOMAIN requests' : requests'[j].command \in {"addRO", "startRO"} =>
            j \in 1..Len(requests) /\ j \in DOMAIN requests /\ requests'[j] = requests[j]
  <2>1. CASE requests' = requests
    BY <1>0, <1>1, <2>1, LenProperties DEF Placed
  <2>2. ASSUME NEW q \in Commanded, q.command \notin {"addRO", "startRO"},
               requests' = Append(requests, q)
        PROVE  /\ \A n \in 1..Len(requests) : \A id, r :
                      Ready(specs, requests, id, r, n) => Ready(specs', requests', id, r, n)
               /\ Placed /\ history'.round = history.round => Placed'
               /\ \A j \in DOMAIN requests' : requests'[j].command \in {"addRO", "startRO"} =>
                     j \in 1..Len(requests) /\ j \in DOMAIN requests /\ requests'[j] = requests[j]
    <3>1. ~Adds(q, roSpecId)
      BY <2>2 DEF Adds
    <3>2. Placed /\ history'.round = history.round => Placed'
      BY <1>0, <1>1, <2>2, <3>1, ReadyLater DEF Placed
    <3>3. \A j \in DOMAIN requests' : requests'[j].command \in {"addRO", "startRO"} =>
                     j \in 1..Len(requests) /\ j \in DOMAIN requests /\ requests'[j] = requests[j]
      BY <1>0, <2>2, Lengthened
    <3>4. QED
      BY <1>0, <1>1, <2>2, <3>2, <3>3, ReadyLater
  <2>3. QED
    BY <1>1, <2>1, <2>2
<1>3. /\ OnAdd' => OnAdd /\ caller' = caller /\ history'.round = history.round
      /\ OnAdd => history'.round = history.round
  BY <1>0, <1>1, Progress, Alone DEF OnAdd, Callers
<1>4. history.trouble = "refusal" =>
        /\ Count(requests, AddRequests) \in Nat /\ Count(wire, AddAnswers) \in Nat
        /\ Count(wire, AddAnswers) = 0 => \A i \in DOMAIN wire : wire[i] \notin AddAnswers
        /\ Count(requests, AddRequests) = 0 => \A i \in DOMAIN requests : requests[i] \notin AddRequests
  BY <1>0, LenProperties, CountPart
<1>5. PlantInv'
  <2>1. ASSUME NEW j \in DOMAIN requests', requests'[j].command = "startRO"
        PROVE  Ready(specs', requests', requests'[j].id, requests'[j].round, j)
    <3>1. j \in 1..Len(requests) /\ j \in DOMAIN requests /\ requests'[j] = requests[j]
      BY <1>2, <2>1
    <3>2. Ready(specs, requests, requests[j].id, requests[j].round, j)
      BY <2>1, <3>1 DEF PlantInv
    <3>3. QED
      BY <1>2, <3>1, <3>2
  <2>2. ASSUME PastAdd(caller'.script) PROVE Placed'
    <3>1. CASE PastAdd(caller.script)
      <4>1. caller.script # <<>>
        BY <3>1 DEF PastAdd
      <4>2. QED
        BY <1>1, <1>2, <3>1, <4>1 DEF PlantInv
    <3>2. CASE CommandTakes /\ Head(caller.script) = "addRO" /\ Taken
      <4>1. OnAdd /\ wire # <<>> /\ history'.round = history.round
        BY <1>1, <3>2 DEF CommandTakes, OnAdd
      <4>2. CASE history.trouble # "refusal"
        BY <1>2, <4>1, <4>2 DEF PlantInv
      <4>3. CASE history.trouble = "refusal"
        <5>1. \A m \in Message : Answers(m) => m \in AddAnswers
          BY <3>2 DEF Answers, AddAnswers, AnswerType
        <5>2. pending # <<>> => pending[1] \in Message
          BY <1>0, Shortened
        <5>3. Answers(Head(wire)) /\ Head(wire).ok
          BY <3>2, <4>3, <5>1, <5>2 DEF Taken, RefusalInv
        <5>4. 1 \in DOMAIN wire /\ wire[1] \in AddAnswers /\ wire[1].ok
          BY <1>0, <4>1, <5>1, <5>3, Shortened
        <5>5. Placed
          BY <4>3, <5>4 DEF RefusalInv, Accepted
        <5>6. QED
          BY <1>2, <4>1, <5>5
      <4>4. QED
        BY <4>2, <4>3
    <3>3. QED
      BY <2>2, <3>1, <3>2, Progress
  <2>3. history'.trouble # "refusal" /\ OnAdd' => Placed'
    BY <1>1, <1>2, <1>3 DEF PlantInv
  <2>4. QED
    BY <2>1, <2>2, <2>3 DEF PlantInv
<1>6. ASSUME history.trouble = "refusal", ~OnAdd PROVE RefusalInv'
  <2>1. Count(requests, AddRequests) = 0 /\ Count(wire, AddAnswers) = 0
    BY <1>4, <1>6 DEF RefusalInv
  <2>2. /\ \A i \in DOMAIN requests : requests[i] \notin AddRequests
        /\ \A i \in DOMAIN wire : wire[i] \notin AddAnswers
    BY <1>4, <1>6, <2>1
  <2>3. \A i \in DOMAIN wire' : wire'[i] \notin AddAnswers
    <3>1. CASE wire' = wire
      BY <2>2, <3>1
    <3>2. CASE wire # <<>> /\ wire' = Tail(wire)
      BY <1>0, <2>2, <3>2, Shortened
    <3>3. QED
      BY <1>1, <3>1, <3>2
  <2>4. \A i \in DOMAIN requests' : requests'[i] \notin AddRequests
    BY <1>2, <2>2 DEF AddRequests
  <2>5. wire' \in Seq(Message) /\ requests' \in Seq(Commanded)
    <3>1. wire # <<>> => Tail(wire) \in Seq(Message)
      BY <1>0, Shortened
    <3>2. \A q \in Commanded : Append(requests, q) \in Seq(Commanded)
      BY <1>0, Lengthened
    <3>3. QED
      BY <1>0, <1>1, <3>1, <3>2
  <2>6. Count(wire', AddAnswers) = 0 /\ Count(requests', AddRequests) = 0
    BY <2>3, <2>4, <2>5, LenProperties, CountPart
  <2>7. ~OnAdd' /\ ~Accepted'
    BY <1>3, <1>6, <2>3, <2>4 DEF Accepted
  <2>8. pending' # <<>> => pending'[1] \notin AddAnswers
    <3>1. pending' = pending \/ pending' = <<>> \/ (wire # <<>> /\ pending' = <<Head(wire)>>)
      BY DEF Others, ReceiverStep, CommandStep, StreamStep, UserStep, ReceiverGoes, ReceiverTakes,
             ReceiverStores, ReceiverIdles, ReceiverFails, SendsOnly, Counts, Quiets, Sends,
             CommandTakes, CommandTimesOut, Awaits, AwaitsReport, StartsReading, StopsReading,
             Joins, StreamAsks, StreamTakes, StreamTimesOut, Connect, Read, ExecuteTagOp,
             AskParameter, TakesTag, EndsWalk, StartReading, StopReading, Destroy
    <3>2. wire # <<>> => Head(wire) \notin AddAnswers
      BY <1>0, <2>2, Shortened
    <3>3. QED
      BY <1>6, <3>1, <3>2 DEF RefusalInv
  <2>9. QED
    BY <2>4, <2>6, <2>7, <2>8 DEF RefusalInv
<1>7. ASSUME history.trouble = "refusal", OnAdd PROVE RefusalInv'
  <2>1. /\ requests' = requests
        /\ \/ CommandTakes \/ CommandTimesOut
           \/ caller' = caller /\ wire' = wire /\ pending' = pending
    BY <1>7, OnAddSteps
  <2>2. /\ Count(requests, AddRequests) + Count(wire, AddAnswers) = 1
        /\ \A i \in DOMAIN requests : requests[i] \in AddRequests => i = Len(requests)
        /\ Accepted => Placed
        /\ pending # <<>> => pending[1] \notin AddAnswers
    BY <1>7 DEF RefusalInv
  <2>3. Accepted' => Placed'
    <3>1. Accepted' => Accepted
      <4>1. CASE wire' = wire
        BY <2>1, <4>1 DEF Accepted
      <4>2. CASE wire # <<>> /\ wire' = Tail(wire)
        <5>1. \A i \in DOMAIN wire' : i + 1 \in DOMAIN wire /\ wire'[i] = wire[i + 1]
          BY <1>0, <4>2, Shortened
        <5>2. QED
          BY <2>1, <5>1 DEF Accepted
      <4>3. QED
        BY <1>1, <4>1, <4>2
    <3>2. QED
      BY <1>2, <1>3, <1>7, <2>2, <3>1
  <2>4. CASE CommandTakes
    <3> DEFINE h == [history EXCEPT !.eaten =
                       @ \/ (continuousReading /\ Head(wire).kind = "keepAlive")]
    <3>1. /\ wire # <<>> /\ wire' = Tail(wire) /\ caller.script # <<>> /\ h \in Histories
          /\ Head(wire) \in Message /\ Head(caller.script) = "addRO" /\ caller.at = "waiting"
      <4>1. wire # <<>> /\ wire' = Tail(wire) /\ Head(caller.script) = "addRO"
            /\ caller.at = "waiting"
        BY <1>7, <2>4 DEF CommandTakes, OnAdd
      <4>2. h \in Histories
        BY <1>0 DEF Histories
      <4>3. caller.script # <<>>
        BY <1>7, Alone
      <4>4. Head(wire) \in Message
        BY <1>0, <4>1, Shortened
      <4>5. QED
        BY <4>1, <4>2, <4>3, <4>4
    <3>2. /\ Count(wire, AddAnswers) = Count(wire', AddAnswers)
                                        + (IF Head(wire) \in AddAnswers THEN 1 ELSE 0)
          /\ Count(wire', AddAnswers) \in Nat
      BY <1>0, <3>1, CountTail
    <3>3. Answers(Head(wire)) <=> Head(wire) \in AddAnswers
      BY <3>1 DEF Answers, AnswerType, AddAnswers
    <3>4. CASE Answers(Head(wire))
      <4>1. Answered(Head(wire), h) /\ pending' = pending
        BY <2>4, <3>4 DEF CommandTakes
      <4>2. caller'.at = "ready"
        <5> HIDE DEF h
        <5>1. QED
          BY <3>1, <4>1, AnsweredReady
      <4>3. ~OnAdd'
        BY <4>2 DEF OnAdd
      <4>4. Count(requests', AddRequests) + Count(wire', AddAnswers) = 0
        BY <1>4, <1>7, <2>1, <2>2, <3>2, <3>3, <3>4
      <4>5. QED
        BY <2>1, <2>2, <2>3, <4>1, <4>3, <4>4 DEF RefusalInv
    <3>5. CASE ~Answers(Head(wire))
      <4>1. ~(pending # <<>> /\ Answers(pending[1]))
        <5>1. pending # <<>> => pending[1] \in Message
          BY <1>0, Shortened
        <5>2. QED
          BY <2>2, <3>1, <5>1 DEF Answers, AnswerType, AddAnswers
      <4>2. caller' = caller /\ pending' = pending
        BY <2>4, <3>5, <4>1 DEF CommandTakes
      <4>3. OnAdd'
        BY <1>7, <4>2 DEF OnAdd
      <4>4. Count(requests', AddRequests) + Count(wire', AddAnswers) = 1
        BY <1>4, <1>7, <2>1, <2>2, <3>2, <3>3, <3>5
      <4>5. QED
        BY <2>1, <2>2, <2>3, <4>2, <4>3, <4>4 DEF RefusalInv
    <3>6. QED
      BY <3>4, <3>5
  <2>5. CASE CommandTimesOut
    <3>1. wire = <<>> /\ requests = <<>>
      BY <1>7, <2>5 DEF CommandTimesOut, LinkInv, MayHappen
    <3>2. Count(requests, AddRequests) = 0 /\ Count(wire, AddAnswers) = 0
      <4>1. Len(<<>>) = 0 /\ 1..0 = {}
        OBVIOUS
      <4>2. QED
        BY <1>0, <3>1, <4>1, LenProperties, CountPart
    <3>3. QED
      BY <2>2, <3>2
  <2>6. CASE caller' = caller /\ wire' = wire /\ pending' = pending
    <3>1. OnAdd'
      BY <1>7, <2>6 DEF OnAdd
    <3>2. Count(requests', AddRequests) + Count(wire', AddAnswers) = 1
      BY <2>1, <2>2, <2>6
    <3>3. QED
      BY <2>1, <2>2, <2>3, <2>6, <3>1, <3>2 DEF RefusalInv
  <2>7. QED
    BY <2>1, <2>4, <2>5, <2>6
<1>8. RefusalInv'
  <2>1. history.trouble # "refusal" => RefusalInv'
    BY <1>1 DEF RefusalInv
  <2>2. QED
    BY <1>6, <1>7, <2>1
<1>9. QED
  BY <1>5, <1>8

(* Every step leaves every start with a ROSpec of its operation.           *)
LEMMA PlantKept ==
  ASSUME TypesInv, HandshakeInv, ScriptInv, ModeInv, LinkInv, PlantInv, RefusalInv, LlrpNext
  PROVE  PlantInv' /\ RefusalInv'
<1>1. CASE ModuleHandles
  BY <1>1, PlantHandled
<1>2. CASE ModuleReports
  <2>1. PICK s \in specs, n \in Nat :
           /\ wire' = Append(wire, Report(s.round, n))
           /\ specs' = (specs \ {s}) \cup {[s EXCEPT !.left = @ - 1]}
           /\ Same(s, [s EXCEPT !.left = @ - 1])
           /\ history'.round = history.round /\ history'.trouble = history.trouble
           /\ UNCHANGED <<requests, caller, roSpecId, pending>>
    BY <1>2, Reported
  <2>2. Report(s.round, n) \in Message \ AddAnswers
    <3>1. s.round \in Nat
      BY DEF TypesInv, SocketTypes, ROSpecs
    <3>2. QED
      BY <3>1, MessageTypes, AnswerSorts
  <2>3. \A t \in specs' : \E r \in specs : Same(r, t)
    BY <2>1 DEF Same
  <2>4. QED
    BY <2>1, <2>2, <2>3, PlantReported
<1>3. CASE ModuleEnds
  <2>1. EndOfROSpec \in Message \ AddAnswers
    BY MessageTypes, AnswerSorts
  <2>2. /\ UNCHANGED <<requests, caller, roSpecId, pending, history>>
        /\ wire' = wire \/ wire' = Append(wire, EndOfROSpec)
        /\ \A t \in specs' : \E r \in specs : Same(r, t)
    BY <1>3, EndReported
  <2>3. QED
    BY <2>1, <2>2, PlantReported
<1>4. CASE ModulePulses
  <2>1. KeepAlive \in Message \ AddAnswers
    BY MessageTypes, AnswerSorts
  <2>2. history'.round = history.round /\ history'.trouble = history.trouble
    BY <1>4 DEF ModulePulses, TypesInv, DataTypes, Histories
  <2>3. \A t \in specs' : \E r \in specs : Same(r, t)
    BY <1>4 DEF ModulePulses, Same
  <2>4. QED
    BY <1>4, <2>1, <2>2, <2>3, PlantReported DEF ModulePulses
<1>5. CASE LinkFails
  <2>1. /\ requests' = <<>> /\ specs' = {} /\ history'.trouble # "refusal"
        /\ Len(<<>>) = 0 /\ DOMAIN requests' = {}
    BY <1>5 DEF LinkFails
  <2>2. Placed'
    BY <2>1 DEF Placed, Ready
  <2>3. QED
    BY <2>1, <2>2 DEF PlantInv, RefusalInv
<1>6. CASE Others /\ ~Sends
  BY <1>6, PlantOthers
<1>7. CASE Sends
  BY <1>7, PlantSends
<1>8. QED
  BY <1>1, <1>2, <1>3, <1>4, <1>5, <1>6, <1>7 DEF LlrpNext, ModuleStep, Others
===============================================================================
