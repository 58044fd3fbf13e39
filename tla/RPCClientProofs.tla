--------------------------- MODULE RPCClientProofs ---------------------------
(***************************************************************************)
(* Proofs about RPCClient, for any families of addresses, any batch and    *)
(* any number of calls under retries.  Dialling, retrying and batches      *)
(* share no variable but stage, which the invariants of the other two do   *)
(* not mention: each part has an invariant of its own.  Then those about   *)
(* ConnectionPool, for any size and any number of callers.                 *)
(***************************************************************************)
EXTENDS RPCClient, ConnectionPool, FiniteSetTheorems, SequenceTheorems, TLAPS

Outcomes == {"open", "unreachable", "error"}
Results == [addr : Dialled, outcome : Outcomes]

(* The dials that have ended.                                              *)
Ended == {a \in Dialled : attempt[a] \in Outcomes}

DialTypes ==
    /\ stage \in {"unused", "start", "waiting", "ready", "failed"} \cup LaterDials
    /\ attempt \in [Dialled -> {"none", "dialling"} \cup Outcomes]
    /\ results \in Seq(Results)
    /\ received \in 0..Cardinality(Dialled) /\ noRoute \in BOOLEAN
    /\ conn \in Dialled \cup LaterDials \cup {"none"}

(* Until there is a connection, a dial that has ended is either received   *)
(* or waits in the channel, and one that is open waits there.              *)
DialsPending ==
    /\ conn = "none"
    /\ received + Len(results) = Cardinality(Ended)
    /\ \A a \in Dialled : attempt[a] = "open" => \E k \in 1..Len(results) : results[k].outcome = "open"
    /\ stage \in {"unused", "start"} => \A a \in Dialled : attempt[a] = "none"
    /\ stage \in {"force", "last", "failed"} => received = Cardinality(Dialled)

DialInv == DialTypes /\ (stage # "ready" => DialsPending)

-----------------------------------------------------------------------------
LEMMA DialledFinite == IsFiniteSet(Dialled) /\ Cardinality(Dialled) \in Nat
<1>1. IsFiniteSet({"four", "six"}) /\ IsFiniteSet({"host"})
  <2>1. IsFiniteSet({})
    BY FS_EmptySet
  <2>2. IsFiniteSet({"four"}) /\ IsFiniteSet({"host"})
    BY <2>1, FS_AddElement, {"four"} = {} \cup {"four"}, {"host"} = {} \cup {"host"}
  <2>3. {"four", "six"} = {"four"} \cup {"six"}
    OBVIOUS
  <2> QED BY <2>2, <2>3, FS_AddElement
<1>2. IsFiniteSet(Families)
  BY <1>1, FamiliesKnown, FS_Subset
<1> QED BY <1>1, <1>2, FS_CardinalityType DEF Dialled

LEMMA EndedFinite ==
    /\ IsFiniteSet(Ended) /\ Cardinality(Ended) \in Nat
    /\ Cardinality(Ended) <= Cardinality(Dialled)
    /\ Cardinality(Ended) = Cardinality(Dialled) => Ended = Dialled
<1>1. Ended \subseteq Dialled
  BY DEF Ended
<1> QED BY <1>1, DialledFinite, FS_Subset, FS_CardinalityType

LEMMA NoneEnded ==
    ASSUME \A a \in Dialled : attempt[a] \in {"none", "dialling"}
    PROVE  Cardinality(Ended) = 0
<1>1. Ended = {}
  BY DEF Ended, Outcomes
<1> QED BY <1>1, FS_EmptySet

LEMMA DialInitial == Init => DialInv
<1> SUFFICES ASSUME Init PROVE DialInv
  OBVIOUS
<1>1. Cardinality(Ended) = 0
  BY NoneEnded DEF Init
<1>2. results = <<>> /\ results \in Seq(Results) /\ Len(results) = 0
  BY DEF Init
<1>3. DialTypes
  <2>1. attempt \in [Dialled -> {"none", "dialling"} \cup Outcomes] /\ received \in 0..Cardinality(Dialled)
    BY DialledFinite DEF Init
  <2> QED BY <1>2, <2>1 DEF Init, DialTypes
<1>4. DialsPending
  BY <1>1, <1>2 DEF Init, DialsPending
<1> QED BY <1>3, <1>4 DEF DialInv

LEMMA StartDialsStep ==
    ASSUME DialInv, StartDials
    PROVE  DialInv'
<1>1. /\ stage = "start" /\ stage' = "waiting"
      /\ attempt' = [a \in Dialled |-> "dialling"]
      /\ UNCHANGED <<results, received, noRoute, conn>>
  BY DEF StartDials
<1>2. DialTypes'
  BY <1>1 DEF DialInv, DialTypes
<1>3. Cardinality(Ended) = 0
  BY <1>1, NoneEnded DEF DialInv, DialsPending
<1>4. Cardinality(Ended)' = 0
  <2>1. Ended' = {}
    BY <1>1 DEF Ended, Outcomes
  <2> QED BY <2>1, FS_EmptySet
<1> QED BY <1>1, <1>2, <1>3, <1>4 DEF DialInv, DialsPending

LEMMA DialEndsStep ==
    ASSUME DialInv, NEW a \in Dialled, DialEnds(a)
    PROVE  DialInv'
<1>1. PICK o \in Outcomes : /\ attempt' = [attempt EXCEPT ![a] = o]
                            /\ results' = Append(results, [addr |-> a, outcome |-> o])
  BY DEF DialEnds, Outcomes
<1>2. attempt[a] = "dialling" /\ UNCHANGED <<stage, received, noRoute, conn>>
  BY DEF DialEnds
<1> DEFINE e == [addr |-> a, outcome |-> o]
<1>3. e \in Results /\ results \in Seq(Results)
  BY DEF Results, DialInv, DialTypes
<1>4. /\ results' \in Seq(Results) /\ Len(results') = Len(results) + 1
      /\ \A i \in 1..Len(results) : results'[i] = results[i]
      /\ results'[Len(results) + 1] = e /\ Len(results) \in Nat
  BY <1>1, <1>3, AppendProperties, LenProperties
<1>5. DialTypes'
  BY <1>1, <1>2, <1>4 DEF DialInv, DialTypes
<1>6. ASSUME stage # "ready" PROVE DialsPending'
  <2>1. DialsPending
    BY <1>6 DEF DialInv
  <2>2. Ended' = Ended \cup {a} /\ a \notin Ended
    BY <1>1, <1>2 DEF Ended, DialInv, DialTypes, Outcomes
  <2>3. Cardinality(Ended)' = Cardinality(Ended) + 1
    BY <2>2, EndedFinite, FS_AddElement
  <2>4. received' + Len(results') = Cardinality(Ended)'
    BY <2>1, <2>3, <1>2, <1>4, EndedFinite DEF DialsPending, DialInv, DialTypes
  <2>5. ASSUME NEW b \in Dialled, attempt'[b] = "open"
        PROVE  \E k \in 1..Len(results') : results'[k].outcome = "open"
    <3>1. CASE b = a
      <4>1. o = "open"
        BY <2>5, <3>1, <1>1 DEF DialInv, DialTypes
      <4> QED BY <4>1, <1>4
    <3>2. CASE b # a
      <4>1. PICK k \in 1..Len(results) : results[k].outcome = "open"
        BY <2>1, <2>5, <3>2, <1>1 DEF DialsPending, DialInv, DialTypes
      <4> QED BY <4>1, <1>4
    <3> QED BY <3>1, <3>2
  <2>6. stage \notin {"unused", "start"}
    BY <2>1, <1>2 DEF DialsPending
  <2> QED BY <2>1, <2>4, <2>5, <2>6, <1>2 DEF DialsPending
<1> QED BY <1>2, <1>5, <1>6 DEF DialInv

LEMMA ReceiveConnectionStep ==
    ASSUME DialInv, ReceiveConnection
    PROVE  DialInv'
<1>1. /\ stage = "waiting" /\ results # <<>> /\ results' = Tail(results)
      /\ conn' = Head(results).addr /\ stage' = "ready"
      /\ UNCHANGED <<attempt, received, noRoute>>
  BY DEF ReceiveConnection
<1>2. results \in Seq(Results)
  BY DEF DialInv, DialTypes
<1>3. Head(results) \in Results /\ results' \in Seq(Results)
  BY <1>1, <1>2, HeadTailProperties
<1> QED BY <1>1, <1>3 DEF DialInv, DialTypes, Results

LEMMA ReceiveErrorStep ==
    ASSUME DialInv, ReceiveError
    PROVE  DialInv'
<1>1. /\ stage = "waiting" /\ results # <<>> /\ Head(results).outcome # "open"
      /\ results' = Tail(results) /\ received' = received + 1
      /\ UNCHANGED <<attempt, conn>>
  BY DEF ReceiveError
<1>2. stage' \in {"waiting", "four"} /\ noRoute' \in BOOLEAN
  BY <1>1 DEF ReceiveError, DialInv, DialTypes
<1>3. results \in Seq(Results)
  BY DEF DialInv, DialTypes
<1>4. /\ results' \in Seq(Results) /\ Len(results') = Len(results) - 1
      /\ \A i \in 1..Len(results') : results'[i] = results[i + 1]
      /\ Len(results) \in Nat \ {0} /\ Head(results) = results[1]
  BY <1>1, <1>3, HeadTailProperties, LenProperties, EmptySeq
<1>5. DialsPending
  BY <1>1 DEF DialInv
<1>6. /\ received + Len(results) = Cardinality(Ended) /\ received \in Nat
      /\ Cardinality(Ended) <= Cardinality(Dialled) /\ Cardinality(Ended) \in Nat
      /\ Cardinality(Dialled) \in Nat
  BY <1>5, EndedFinite, DialledFinite DEF DialsPending, DialInv, DialTypes
<1>7. received' \in 0..Cardinality(Dialled)
  BY <1>1, <1>4, <1>6
<1>8. DialTypes'
  BY <1>1, <1>2, <1>4, <1>7 DEF DialInv, DialTypes, LaterDials
<1>9. Ended' = Ended
  BY <1>1 DEF Ended
<1>10. received' + Len(results') = Cardinality(Ended)'
  BY <1>1, <1>4, <1>6, <1>9
<1>11. ASSUME NEW a \in Dialled, attempt'[a] = "open"
       PROVE  \E k \in 1..Len(results') : results'[k].outcome = "open"
  <2>1. PICK k \in 1..Len(results) : results[k].outcome = "open"
    BY <1>1, <1>5, <1>11 DEF DialsPending
  <2>2. k # 1
    BY <2>1, <1>1, <1>4
  <2>3. k - 1 \in 1..Len(results') /\ results'[k - 1] = results[k]
    BY <2>1, <2>2, <1>4
  <2> QED BY <2>1, <2>3
<1> QED BY <1>1, <1>2, <1>5, <1>8, <1>10, <1>11 DEF DialInv, DialsPending

(* When as many results were received as dials were made, none is left in  *)
(* the channel, and no dial is open.                                       *)
LEMMA AllFailed ==
    ASSUME DialInv, stage # "ready", received = Cardinality(Dialled)
    PROVE  \A a \in Dialled : attempt[a] \in {"unreachable", "error"}
<1>1. DialsPending
  BY DEF DialInv
<1>2. Len(results) \in Nat
  BY LenProperties DEF DialInv, DialTypes
<1>3. Len(results) = 0 /\ Cardinality(Ended) = Cardinality(Dialled)
  BY <1>1, <1>2, EndedFinite, DialledFinite DEF DialsPending
<1>4. Ended = Dialled
  BY <1>3, EndedFinite
<1> QED BY <1>1, <1>3, <1>4 DEF DialsPending, Ended, Outcomes

LEMMA OtherDialSteps ==
    ASSUME DialInv, AllReceived \/ LaterDial \/ NewClient
    PROVE  DialInv'
<1>1. CASE AllReceived
  BY <1>1 DEF AllReceived, DialInv, DialTypes, DialsPending, LaterDials, Ended
<1>2. CASE LaterDial
  <2>1. UNCHANGED <<attempt, results, received, noRoute>> /\ stage \in LaterDials
    BY <1>2 DEF LaterDial
  <2>2. CASE conn' = stage /\ stage' = "ready"
    BY <2>1, <2>2 DEF DialInv, DialTypes
  <2>3. CASE /\ UNCHANGED conn
             /\ stage' = CASE stage = "four"  -> "waiting"
                           [] stage = "force" -> "last"
                           [] stage = "last"  -> "failed"
    <3>1. /\ stage = "four" => stage' = "waiting"
          /\ stage = "force" => stage' = "last"
          /\ stage = "last" => stage' = "failed"
      BY <2>3
    <3> QED BY <2>1, <2>3, <3>1 DEF DialInv, DialTypes, DialsPending, LaterDials, Ended
  <2> QED BY <1>2, <2>2, <2>3 DEF LaterDial
<1>3. CASE NewClient
  <2>1. /\ stage \in {"unused", "failed"} /\ stage' = "start"
        /\ attempt' = [a \in Dialled |-> "none"]
        /\ results' = <<>> /\ received' = 0 /\ noRoute' = FALSE
        /\ UNCHANGED conn
    BY <1>3 DEF NewClient
  <2>2. Ended' = {}
    BY <2>1 DEF Ended, Outcomes
  <2>3. Cardinality(Ended)' = 0
    BY <2>2, FS_EmptySet
  <2>4. results' \in Seq(Results) /\ Len(results') = 0
    BY <2>1
  <2>5. DialTypes'
    <3>1. /\ attempt' \in [Dialled -> {"none", "dialling"} \cup Outcomes]
          /\ received' \in 0..Cardinality(Dialled)
      BY <2>1, DialledFinite
    <3> QED BY <2>1, <2>4, <3>1 DEF DialInv, DialTypes
  <2>6. DialsPending'
    BY <2>1, <2>3, <2>4 DEF DialInv, DialsPending
  <2> QED BY <2>5, <2>6 DEF DialInv
<1> QED BY <1>1, <1>2, <1>3

LEMMA DialStays ==
    ASSUME DialInv, UNCHANGED dialVars
    PROVE  DialInv'
BY DEF DialInv, DialTypes, DialsPending, Ended, dialVars

-----------------------------------------------------------------------------
CallAts == {"idle", "running", "waiting", "returned"}
CallErrors == Errors \cup {"none", "cancelled"}
Delays == 0..MaxDelay \cup {InitialDelay}
CallType == [at : CallAts, retries : 0..MaxRetries, delay : Delays, error : CallErrors]

(* A call that waits has an attempt left.                                  *)
CallInv ==
    /\ call \in [Calls -> CallType]
    /\ \A c \in Calls : call[c].at = "waiting" => call[c].retries < MaxRetries

LEMMA Numbers ==
    /\ MaxRetries \in Nat /\ InitialDelay \in Nat /\ MaxDelay \in Nat /\ Multiplier \in Nat
    /\ \A d \in Delays : NextDelay(d) \in Delays
<1>1. MaxRetries \in Nat /\ InitialDelay \in Nat /\ MaxDelay \in Nat /\ Multiplier \in Nat
  BY RetryNumbers
<1>2. ASSUME NEW d \in Delays PROVE NextDelay(d) \in Delays
  <2>1. d \in Nat
    BY <1>1 DEF Delays
  <2>2. d * Multiplier \in Nat
    BY <1>1, <2>1
  <2> QED BY <1>1, <2>2 DEF NextDelay, Delays
<1> QED BY <1>1, <1>2

LEMMA FreshCall == Fresh \in CallType /\ Fresh.at # "waiting" /\ [Fresh EXCEPT !.at = "running"] \in CallType
                   /\ [Fresh EXCEPT !.at = "running"].at = "running"
<1>1. 0 \in 0..MaxRetries /\ InitialDelay \in Delays
  BY Numbers DEF Delays
<1>2. "none" \in CallErrors /\ "idle" \in CallAts /\ "running" \in CallAts
  BY DEF CallErrors, CallAts
<1>3. Fresh \in CallType
  BY <1>1, <1>2 DEF Fresh, CallType
<1> QED BY <1>2, <1>3 DEF CallType, Fresh

LEMMA CallInitial == Init => CallInv
BY FreshCall DEF Init, CallInv

(* A call that ends or waits gets a state and an error.                    *)
LEMMA CallSet ==
    ASSUME call \in [Calls -> CallType], NEW c \in Calls, NEW a \in CallAts, NEW e \in CallErrors,
           \/ call' = [call EXCEPT ![c].at = a, ![c].error = e]
           \/ call' = [call EXCEPT ![c].error = e, ![c].at = a]
    PROVE  /\ call' \in [Calls -> CallType]
           /\ call'[c].at = a /\ call'[c].error = e /\ call'[c].retries = call[c].retries
           /\ \A d \in Calls : d # c => call'[d] = call[d]
<1>1. CASE call' = [call EXCEPT ![c].at = a, ![c].error = e]
  BY <1>1 DEF CallType
<1>2. CASE call' = [call EXCEPT ![c].error = e, ![c].at = a]
  BY <1>2 DEF CallType
<1> QED BY <1>1, <1>2

(* What Fails does to a call: it waits only with an attempt left, and      *)
(* returns only without one or for an error not to be retried.             *)
LEMMA FailsCall ==
    ASSUME CallInv, NEW c \in Calls, Fails(c)
    PROVE  /\ call' \in [Calls -> CallType]
           /\ \A d \in Calls : d # c => call'[d] = call[d]
           /\ call'[c].retries = call[c].retries
           /\ \/ /\ call'[c].at = "waiting" /\ call[c].retries < MaxRetries
              \/ /\ call'[c].at = "returned"
                 /\ call'[c].error \notin RetryableErrors \/ call[c].retries = MaxRetries
<1>1. PICK e \in Errors :
         call' = [call EXCEPT ![c].error = e,
                     ![c].at = IF e \in RetryableErrors /\ call[c].retries < MaxRetries
                               THEN "waiting" ELSE "returned"]
  BY DEF Fails
<1> DEFINE a == IF e \in RetryableErrors /\ call[c].retries < MaxRetries THEN "waiting" ELSE "returned"
<1>2. a \in CallAts /\ e \in CallErrors /\ call \in [Calls -> CallType]
  BY DEF CallAts, CallErrors, CallInv
<1>3. call' = [call EXCEPT ![c].error = e, ![c].at = a]
  BY <1>1
<1>4. /\ call' \in [Calls -> CallType]
      /\ call'[c].at = a /\ call'[c].error = e /\ call'[c].retries = call[c].retries
      /\ \A d \in Calls : d # c => call'[d] = call[d]
  <2> HIDE DEF a
  <2> QED BY <1>2, <1>3, CallSet
<1>5. call[c].retries \in 0..MaxRetries /\ MaxRetries \in Nat
  BY <1>2, Numbers DEF CallType
<1> QED BY <1>4, <1>5

LEMMA CallSteps ==
    ASSUME CallInv, NEW c \in Calls, Execute(c) \/ Executing(c)
    PROVE  CallInv'
<1>1. CASE Execute(c)
  BY <1>1, FreshCall DEF Execute, CallInv
<1>2. CASE Succeeds(c)
  <2>1. "returned" \in CallAts /\ "none" \in CallErrors
    BY DEF CallAts, CallErrors
  <2>2. /\ call' \in [Calls -> CallType] /\ call'[c].at = "returned"
        /\ \A d \in Calls : d # c => call'[d] = call[d]
    BY <1>2, <2>1, CallSet DEF Succeeds, CallInv
  <2> QED BY <2>2 DEF CallInv
<1>3. CASE Fails(c)
  BY <1>3, FailsCall DEF CallInv
<1>4. CASE WaitEnds(c)
  <2>1. /\ call[c].at = "waiting"
        /\ call' = [call EXCEPT ![c].at = "running", ![c].retries = @ + 1, ![c].delay = NextDelay(@)]
    BY <1>4 DEF WaitEnds
  <2>2. call[c] \in CallType /\ call[c].retries < MaxRetries
    BY <2>1 DEF CallInv
  <2>3. /\ call[c].retries + 1 \in 0..MaxRetries /\ NextDelay(call[c].delay) \in Delays
        /\ "running" \in CallAts
    BY <2>2, Numbers DEF CallType, CallAts
  <2>4. /\ call' \in [Calls -> CallType] /\ call'[c].at = "running"
        /\ \A d \in Calls : d # c => call'[d] = call[d]
    BY <2>1, <2>2, <2>3 DEF CallInv, CallType
  <2> QED BY <2>4 DEF CallInv
<1>5. CASE WaitCancelled(c)
  <2>1. "returned" \in CallAts /\ "cancelled" \in CallErrors
    BY DEF CallAts, CallErrors
  <2>2. /\ call' \in [Calls -> CallType] /\ call'[c].at = "returned"
        /\ \A d \in Calls : d # c => call'[d] = call[d]
    BY <1>5, <2>1, CallSet DEF WaitCancelled, CallInv
  <2> QED BY <2>2 DEF CallInv
<1> QED BY <1>1, <1>2, <1>3, <1>4, <1>5 DEF Executing

-----------------------------------------------------------------------------
WorkerAts == {"none", "fetching", "leaving", "done"}
Holding == {i \in Indices : worker[i] \in {"fetching", "leaving"}}
Past == {i \in Indices : worker[i] \in {"leaving", "done"}}

BatchTypes ==
    /\ batch \in [at : {"idle", "sending", "collecting", "returned"}, sent : 0..Requests]
    /\ worker \in [Indices -> WorkerAts]
    /\ answers \in Seq(Answers) /\ responses \in Seq(Answers)

(* A token is held by each goroutine under way, and no goroutine is ahead  *)
(* of the loop that starts them.                                           *)
TokensHeld ==
    /\ tokens = Cardinality(Holding) /\ tokens <= Limit
    /\ \A i \in Indices : i > batch.sent => worker[i] = "none"

(* Every answer is that of another goroutine, which has fetched.           *)
AnswersApart ==
    /\ \A k \in 1..Len(answers) : answers[k].req \in Past
    /\ \A k \in 1..Len(responses) : responses[k].req \in Past
    /\ \A j, k \in 1..Len(answers) : answers[j].req = answers[k].req => j = k
    /\ \A j, k \in 1..Len(responses) : responses[j].req = responses[k].req => j = k
    /\ \A j \in 1..Len(answers), k \in 1..Len(responses) : answers[j].req # responses[k].req

BatchInv ==
    /\ BatchTypes /\ TokensHeld /\ AnswersApart
    /\ batch.at = "returned" => Len(responses) = Requests

LEMMA BatchFacts ==
    /\ Requests \in Nat /\ Limit \in Nat /\ Indices = 1..Requests
    /\ IsFiniteSet(Indices) /\ Cardinality(Indices) = Requests
<1>1. Requests \in Nat /\ Limit \in Nat
  BY BatchNumbers DEF Limit
<1>2. IsFiniteSet(1..Requests) /\ Cardinality(1..Requests) = Requests
  BY <1>1, FS_Interval
<1> QED BY <1>1, <1>2 DEF Indices

LEMMA HoldingFinite == IsFiniteSet(Holding) /\ Cardinality(Holding) \in Nat
<1>1. Holding \subseteq Indices
  BY DEF Holding
<1> QED BY <1>1, BatchFacts, FS_Subset, FS_CardinalityType

LEMMA NoAnswers == <<>> \in Seq(Answers) /\ Len(<<>>) = 0
OBVIOUS

LEMMA BatchInitial == Init => BatchInv
<1> SUFFICES ASSUME Init PROVE BatchInv
  OBVIOUS
<1>1. /\ batch = [at |-> "idle", sent |-> 0] /\ tokens = 0
      /\ worker = [i \in Indices |-> "none"] /\ answers = <<>> /\ responses = <<>>
  BY DEF Init
<1>2. Holding = {}
  BY <1>1 DEF Holding
<1>3. BatchTypes
  BY <1>1, NoAnswers, BatchFacts DEF BatchTypes, WorkerAts
<1>4. TokensHeld
  BY <1>1, <1>2, BatchFacts, FS_EmptySet DEF TokensHeld
<1>5. AnswersApart
  BY <1>1, NoAnswers DEF AnswersApart
<1> QED BY <1>1, <1>3, <1>4, <1>5 DEF BatchInv

LEMMA BatchBeginsStep ==
    ASSUME BatchInv, BatchBegins
    PROVE  BatchInv'
<1>1. /\ batch' = [at |-> "sending", sent |-> 0] /\ tokens' = 0
      /\ worker' = [i \in Indices |-> "none"] /\ answers' = <<>> /\ responses' = <<>>
  BY DEF BatchBegins
<1>2. Holding' = {}
  BY <1>1 DEF Holding
<1>3. BatchTypes'
  BY <1>1, NoAnswers, BatchFacts DEF BatchTypes, WorkerAts
<1>4. TokensHeld'
  BY <1>1, <1>2, BatchFacts, FS_EmptySet DEF TokensHeld
<1>5. AnswersApart'
  BY <1>1, NoAnswers DEF AnswersApart
<1> QED BY <1>1, <1>3, <1>4, <1>5 DEF BatchInv

LEMMA SendStep ==
    ASSUME BatchInv, Send
    PROVE  BatchInv'
<1> DEFINE i == batch.sent + 1
<1>1. /\ batch.at = "sending" /\ batch.sent < Requests /\ tokens < Limit
      /\ tokens' = tokens + 1 /\ batch' = [batch EXCEPT !.sent = @ + 1]
      /\ worker' = [worker EXCEPT ![i] = "fetching"]
      /\ UNCHANGED <<answers, responses>>
  BY DEF Send
<1>2. i \in Indices /\ batch.sent \in Nat /\ worker[i] = "none"
  BY <1>1, BatchFacts DEF BatchInv, BatchTypes, TokensHeld
<1>3. BatchTypes'
  BY <1>1, <1>2, BatchFacts DEF BatchInv, BatchTypes, WorkerAts
<1>4. Holding' = Holding \cup {i} /\ i \notin Holding
  BY <1>1, <1>2 DEF Holding, BatchInv, BatchTypes
<1>5. Cardinality(Holding)' = Cardinality(Holding) + 1
  BY <1>4, HoldingFinite, FS_AddElement
<1>6. TokensHeld'
  <2>1. tokens' = Cardinality(Holding)' /\ tokens' <= Limit
    BY <1>1, <1>5, HoldingFinite, BatchFacts DEF BatchInv, TokensHeld
  <2>2. ASSUME NEW j \in Indices, j > batch'.sent PROVE worker'[j] = "none"
    BY <1>1, <1>2, <2>2, BatchFacts DEF BatchInv, BatchTypes, TokensHeld
  <2> QED BY <2>1, <2>2 DEF TokensHeld
<1>7. Past \subseteq Past'
  BY <1>1, <1>2 DEF Past, BatchInv, BatchTypes
<1>8. AnswersApart'
  BY <1>1, <1>7 DEF BatchInv, AnswersApart
<1> QED BY <1>1, <1>3, <1>6, <1>8 DEF BatchInv, BatchTypes

LEMMA WorkerAnswersStep ==
    ASSUME BatchInv, NEW i \in Indices, WorkerAnswers(i)
    PROVE  BatchInv'
<1>1. PICK ok \in BOOLEAN : answers' = Append(answers, [req |-> i, ok |-> ok])
  BY DEF WorkerAnswers
<1>2. /\ worker[i] = "fetching" /\ worker' = [worker EXCEPT ![i] = "leaving"]
      /\ UNCHANGED <<batch, tokens, responses>>
  BY DEF WorkerAnswers
<1> DEFINE e == [req |-> i, ok |-> ok]
           n == Len(answers)
<1>3. e \in Answers /\ answers \in Seq(Answers) /\ responses \in Seq(Answers)
  BY DEF Answers, BatchInv, BatchTypes
<1>4. /\ answers' \in Seq(Answers) /\ Len(answers') = n + 1 /\ n \in Nat
      /\ \A k \in 1..n : answers'[k] = answers[k]
      /\ answers'[n + 1] = e
  BY <1>1, <1>3, AppendProperties, LenProperties
<1>6. BatchTypes'
  BY <1>2, <1>4 DEF BatchInv, BatchTypes, WorkerAts
<1>7. Holding' = Holding /\ Past \subseteq Past'
  BY <1>2 DEF Holding, Past, BatchInv, BatchTypes
<1>8. TokensHeld'
  <2>1. i <= batch.sent
    BY <1>2, BatchFacts DEF BatchInv, BatchTypes, TokensHeld
  <2>2. \A j \in Indices : j > batch.sent => worker'[j] = "none"
    BY <1>2, <2>1, BatchFacts DEF BatchInv, BatchTypes, TokensHeld
  <2> QED BY <1>2, <1>7, <2>2 DEF BatchInv, TokensHeld
<1>9. i \in Past' /\ i \notin Past
  BY <1>2 DEF Past, BatchInv, BatchTypes
<1>10. AnswersApart'
  <2>1. /\ \A k \in 1..n : answers[k].req # i
        /\ \A k \in 1..Len(responses) : responses[k].req # i
    BY <1>9 DEF BatchInv, AnswersApart
  <2> HIDE DEF n
  <2>2. \A k \in 1..(n + 1) : answers'[k].req \in Past'
    <3> SUFFICES ASSUME NEW k \in 1..(n + 1) PROVE answers'[k].req \in Past'
      OBVIOUS
    <3>1. CASE k = n + 1
      BY <3>1, <1>4, <1>9
    <3>2. CASE k \in 1..n
      BY <3>2, <1>4, <1>7 DEF BatchInv, AnswersApart, n
    <3> QED BY <3>1, <3>2, <1>4
  <2>3. ASSUME NEW j \in 1..(n + 1), NEW k \in 1..(n + 1), answers'[j].req = answers'[k].req
        PROVE  j = k
    <3>1. CASE j \in 1..n /\ k \in 1..n
      BY <3>1, <2>3, <1>4 DEF BatchInv, AnswersApart, n
    <3>2. CASE ~(j \in 1..n /\ k \in 1..n)
      BY <3>2, <2>1, <2>3, <1>4
    <3> QED BY <3>1, <3>2
  <2>4. ASSUME NEW j \in 1..(n + 1), NEW k \in 1..Len(responses)
        PROVE  answers'[j].req # responses[k].req
    <3>1. CASE j \in 1..n
      BY <3>1, <2>4, <1>4 DEF BatchInv, AnswersApart, n
    <3>2. CASE j = n + 1
      BY <3>2, <2>1, <2>4, <1>4
    <3> QED BY <3>1, <3>2, <1>4
  <2>5. \A k \in 1..Len(responses) : responses[k].req \in Past'
    BY <1>7 DEF BatchInv, AnswersApart
  <2> QED BY <2>2, <2>3, <2>4, <2>5, <1>2, <1>4 DEF BatchInv, AnswersApart
<1> QED BY <1>2, <1>6, <1>8, <1>10 DEF BatchInv

LEMMA WorkerLeavesStep ==
    ASSUME BatchInv, NEW i \in Indices, WorkerLeaves(i)
    PROVE  BatchInv'
<1>1. /\ worker[i] = "leaving" /\ worker' = [worker EXCEPT ![i] = "done"] /\ tokens' = tokens - 1
      /\ UNCHANGED <<batch, answers, responses>>
  BY DEF WorkerLeaves
<1>2. BatchTypes'
  BY <1>1 DEF BatchInv, BatchTypes, WorkerAts
<1>3. Holding' = Holding \ {i} /\ i \in Holding
  BY <1>1 DEF Holding, BatchInv, BatchTypes
<1>4. Cardinality(Holding)' = Cardinality(Holding) - 1
  BY <1>3, HoldingFinite, FS_RemoveElement
<1>5. TokensHeld'
  <2>1. tokens' = Cardinality(Holding)' /\ tokens' <= Limit
    BY <1>1, <1>4, HoldingFinite, BatchFacts DEF BatchInv, TokensHeld
  <2>2. \A j \in Indices : j > batch.sent => worker'[j] = "none"
    BY <1>1 DEF BatchInv, BatchTypes, TokensHeld
  <2> QED BY <1>1, <2>1, <2>2 DEF TokensHeld
<1>6. Past \subseteq Past'
  BY <1>1 DEF Past, BatchInv, BatchTypes
<1>7. AnswersApart'
  BY <1>1, <1>6 DEF BatchInv, AnswersApart
<1> QED BY <1>1, <1>2, <1>5, <1>7 DEF BatchInv

LEMMA CollectStep ==
    ASSUME BatchInv, Collect
    PROVE  BatchInv'
<1> DEFINE m == Len(answers)
           n == Len(responses)
<1>1. /\ batch.at = "collecting" /\ answers # <<>>
      /\ responses' = Append(responses, Head(answers)) /\ answers' = Tail(answers)
      /\ UNCHANGED <<batch, tokens, worker>>
  BY DEF Collect
<1>2. answers \in Seq(Answers) /\ responses \in Seq(Answers)
  BY DEF BatchInv, BatchTypes
<1>3. /\ answers' \in Seq(Answers) /\ Len(answers') = m - 1 /\ m \in Nat \ {0}
      /\ \A k \in 1..(m - 1) : answers'[k] = answers[k + 1]
      /\ Head(answers) = answers[1] /\ Head(answers) \in Answers
  BY <1>1, <1>2, HeadTailProperties, LenProperties, EmptySeq
<1>4. /\ responses' \in Seq(Answers) /\ Len(responses') = n + 1 /\ n \in Nat
      /\ \A k \in 1..n : responses'[k] = responses[k]
      /\ responses'[n + 1] = answers[1]
  BY <1>1, <1>2, <1>3, AppendProperties, LenProperties
<1>5. BatchTypes'
  BY <1>1, <1>3, <1>4 DEF BatchInv, BatchTypes
<1>6. TokensHeld'
  BY <1>1 DEF BatchInv, TokensHeld, Holding
<1>7. /\ \A k \in 1..m : answers[k].req \in Past
      /\ \A k \in 1..n : responses[k].req \in Past
      /\ \A j, k \in 1..m : answers[j].req = answers[k].req => j = k
      /\ \A j, k \in 1..n : responses[j].req = responses[k].req => j = k
      /\ \A j \in 1..m, k \in 1..n : answers[j].req # responses[k].req
  BY DEF BatchInv, AnswersApart
<1> HIDE DEF m, n
<1>8. \A k \in 1..(m - 1) : k + 1 \in 1..m /\ k + 1 # 1
  BY <1>3
<1>9. 1 \in 1..m
  BY <1>3
<1>10. \A k \in 1..(n + 1) : k \in 1..n \/ k = n + 1
  BY <1>4
<1>11. AnswersApart'
  <2>1. \A k \in 1..(m - 1) : answers'[k].req \in Past'
    BY <1>1, <1>3, <1>7, <1>8 DEF Past
  <2>2. \A k \in 1..(n + 1) : responses'[k].req \in Past'
    BY <1>1, <1>4, <1>7, <1>9, <1>10 DEF Past
  <2>3. ASSUME NEW j \in 1..(m - 1), NEW k \in 1..(m - 1), answers'[j].req = answers'[k].req
        PROVE  j = k
    <3>1. j + 1 = k + 1
      BY <2>3, <1>3, <1>7, <1>8
    <3> QED BY <3>1
  <2>4. ASSUME NEW j \in 1..(n + 1), NEW k \in 1..(n + 1), responses'[j].req = responses'[k].req
        PROVE  j = k
    BY <2>4, <1>4, <1>7, <1>9, <1>10
  <2>5. ASSUME NEW j \in 1..(m - 1), NEW k \in 1..(n + 1)
        PROVE  answers'[j].req # responses'[k].req
    BY <1>3, <1>4, <1>7, <1>8, <1>9, <1>10
  <2> QED BY <2>1, <2>2, <2>3, <2>4, <2>5, <1>3, <1>4 DEF AnswersApart
<1> QED BY <1>1, <1>5, <1>6, <1>11 DEF BatchInv

LEMMA BatchEndSteps ==
    ASSUME BatchInv, AllSent \/ BatchReturns
    PROVE  BatchInv'
<1>1. /\ UNCHANGED <<tokens, worker, answers, responses>>
      /\ \/ batch' = [batch EXCEPT !.at = "collecting"]
         \/ Len(responses) = Requests /\ batch' = [batch EXCEPT !.at = "returned"]
  BY DEF AllSent, BatchReturns
<1>2. batch' \in [at : {"idle", "sending", "collecting", "returned"}, sent : 0..Requests] /\ batch'.sent = batch.sent
      /\ (batch'.at = "returned" => Len(responses) = Requests)
  BY <1>1 DEF BatchInv, BatchTypes
<1> QED BY <1>1, <1>2 DEF BatchInv, BatchTypes, TokensHeld, Holding, AnswersApart, Past

LEMMA BatchStays ==
    ASSUME BatchInv, UNCHANGED batchVars
    PROVE  BatchInv'
BY DEF BatchInv, BatchTypes, TokensHeld, Holding, AnswersApart, Past, batchVars

-----------------------------------------------------------------------------
ClientInv == DialInv /\ CallInv /\ BatchInv

LEMMA ClientStep ==
    ASSUME ClientInv, [Next]_vars
    PROVE  ClientInv'
<1> USE DEF ClientInv
<1>1. ASSUME Dialling \/ NewClient \/ \E a \in Dialled : DialEnds(a) PROVE ClientInv'
  <2>1. UNCHANGED <<call, batchVars>>
    BY <1>1 DEF Dialling, NewClient, StartDials, ReceiveConnection, ReceiveError, AllReceived, LaterDial, DialEnds
  <2>2. DialInv'
    BY <1>1, StartDialsStep, ReceiveConnectionStep, ReceiveErrorStep, OtherDialSteps, DialEndsStep DEF Dialling
  <2> QED BY <2>1, <2>2, BatchStays DEF CallInv
<1>2. ASSUME NEW c \in Calls, Execute(c) \/ Executing(c) PROVE ClientInv'
  <2>1. UNCHANGED <<dialVars, batchVars>>
    BY <1>2 DEF Execute, Executing, Succeeds, Fails, WaitEnds, WaitCancelled
  <2> QED BY <2>1, <1>2, CallSteps, DialStays, BatchStays
<1>3. ASSUME BatchBegins \/ Batching \/ \E i \in Indices : Working(i) PROVE ClientInv'
  <2>1. UNCHANGED <<dialVars, call>>
    BY <1>3 DEF BatchBegins, Batching, Send, AllSent, Collect, BatchReturns, Working, WorkerAnswers, WorkerLeaves
  <2>2. BatchInv'
    BY <1>3, BatchBeginsStep, SendStep, CollectStep, BatchEndSteps, WorkerAnswersStep, WorkerLeavesStep
       DEF Batching, Working
  <2> QED BY <2>1, <2>2, DialStays DEF CallInv
<1>4. CASE UNCHANGED vars
  <2>1. UNCHANGED <<dialVars, call, batchVars>>
    BY <1>4 DEF vars
  <2> QED BY <2>1, DialStays, BatchStays DEF CallInv
<1> QED BY <1>1, <1>2, <1>3, <1>4 DEF Next

(* The invariants of dialling, retrying and batches, together.             *)
THEOREM ClientInvariant == Spec => []ClientInv
<1>1. Init => ClientInv
  BY DialInitial, CallInitial, BatchInitial DEF ClientInv
<1>2. ClientInv /\ [Next]_vars => ClientInv'
  BY ClientStep
<1> QED BY <1>1, <1>2, PTL DEF Spec

(* The variables of the client keep their types; no batch has more tokens  *)
(* than its limit, and no delay grows past its own (retry.go:118).         *)
THEOREM ClientTypes == Spec => []ClientTypeOK
<1>1. ClientInv => ClientTypeOK
  <2> SUFFICES ASSUME ClientInv PROVE ClientTypeOK
    OBVIOUS
  <2>1. tokens \in 0..Limit
    BY BatchFacts, HoldingFinite DEF ClientInv, BatchInv, TokensHeld
  <2>2. call \in [Calls -> [at : {"idle", "running", "waiting", "returned"}, retries : 0..MaxRetries,
                            delay : 0..MaxDelay \cup {InitialDelay}, error : Errors \cup {"none", "cancelled"}]]
    BY DEF ClientInv, CallInv, CallType, CallAts, CallErrors, Delays
  <2>3. attempt \in [Dialled -> {"none", "dialling", "open", "unreachable", "error"}]
    BY DEF ClientInv, DialInv, DialTypes, Outcomes
  <2>4. /\ worker \in [Indices -> {"none", "fetching", "leaving", "done"}]
        /\ batch \in [at : {"idle", "sending", "collecting", "returned"}, sent : 0..Requests]
    BY DEF ClientInv, BatchInv, BatchTypes, WorkerAts
  <2> QED BY <2>1, <2>2, <2>3, <2>4 DEF ClientInv, DialInv, DialTypes, ClientTypeOK
<1> QED BY <1>1, ClientInvariant, PTL

(* NewQuicClient gives up only after all dials have failed                 *)
(* (quic_client.go:197), for every set of addresses and every order.       *)
THEOREM GivesUpAfterAll == Spec => []GivesUpLast
<1>1. ClientInv => GivesUpLast
  BY AllFailed DEF ClientInv, DialInv, DialsPending, GivesUpLast
<1> QED BY <1>1, ClientInvariant, PTL

(* A batch that returns has one response for each request, whatever its    *)
(* length and limit (client.go:197).                                       *)
THEOREM BatchAnswered == Spec => []BatchComplete
<1>1. ClientInv => BatchComplete
  <2> SUFFICES ASSUME ClientInv, batch.at = "returned"
               PROVE  Len(responses) = Requests /\ {responses[k].req : k \in DOMAIN responses} = Indices
    BY DEF BatchComplete
  <2>1. Len(responses) = Requests /\ responses \in Seq(Answers)
    BY DEF ClientInv, BatchInv, BatchTypes
  <2>2. DOMAIN responses = Indices
    BY <2>1, BatchFacts, LenProperties
  <2> DEFINE f == [k \in Indices |-> responses[k].req]
  <2>3. f \in [Indices -> Indices]
    <3>1. \A k \in Indices : responses[k].req \in Indices
      BY <2>1, <2>2, BatchFacts DEF ClientInv, BatchInv, AnswersApart, Past
    <3> QED BY <3>1
  <2>4. \A j, k \in Indices : f[j] = f[k] => j = k
    BY <2>1, BatchFacts DEF ClientInv, BatchInv, AnswersApart
  <2>5. f \in Injection(Indices, Indices)
    BY <2>3, <2>4 DEF Injection, IsInjective
  <2>6. f \in Surjection(Indices, Indices)
    BY <2>5, BatchFacts, FS_Injection
  <2>7. \A i \in Indices : \E k \in Indices : f[k] = i
    BY <2>6 DEF Surjection
  <2> QED BY <2>1, <2>2, <2>3, <2>7
<1> QED BY <1>1, ClientInvariant, PTL

(* No call of Execute gives up on an error worth retrying before its       *)
(* attempts are used up (retry.go:109).                                    *)
THEOREM RetriesUsed == Spec => UsesAllRetries
<1>1. ClientInv /\ [Next]_vars =>
         [\A c \in Calls :
             (call[c].at # "returned" /\ call'[c].at = "returned" /\ call'[c].error # "none") =>
                 \/ call'[c].error \notin RetryableErrors
                 \/ call[c].retries = MaxRetries]_vars
  <2> SUFFICES ASSUME ClientInv, Next, NEW c \in Calls,
                      call[c].at # "returned", call'[c].at = "returned", call'[c].error # "none"
               PROVE  call'[c].error \notin RetryableErrors \/ call[c].retries = MaxRetries
    OBVIOUS
  <2>1. CallInv
    BY DEF ClientInv
  <2>2. PICK d \in Calls : Execute(d) \/ Executing(d)
    BY DEF Next, Dialling, NewClient, StartDials, ReceiveConnection, ReceiveError, AllReceived, LaterDial, DialEnds,
           BatchBegins, Batching, Send, AllSent, Collect, BatchReturns, Working, WorkerAnswers, WorkerLeaves
  <2>3. CASE Execute(d)
    BY <2>1, <2>3, FreshCall DEF Execute, CallInv
  <2>4. CASE Succeeds(d)
    <3>1. "returned" \in CallAts /\ "none" \in CallErrors
      BY DEF CallAts, CallErrors
    <3>2. call \in [Calls -> CallType]
      BY <2>1 DEF CallInv
    <3>3. call'[d].error = "none" /\ \A b \in Calls : b # d => call'[b] = call[b]
      BY <2>4, <3>2 DEF Succeeds, CallType
    <3> QED BY <3>1, <3>3
  <2>5. CASE Fails(d)
    BY <2>1, <2>5, FailsCall
  <2>6. CASE WaitEnds(d)
    <3>1. call'[d].at = "running" /\ \A b \in Calls : b # d => call'[b] = call[b]
      BY <2>1, <2>6 DEF WaitEnds, CallInv, CallType
    <3> QED BY <3>1
  <2>7. CASE WaitCancelled(d)
    <3>1. "returned" \in CallAts /\ "cancelled" \in CallErrors
      BY DEF CallAts, CallErrors
    <3>2. call \in [Calls -> CallType]
      BY <2>1 DEF CallInv
    <3>3. call'[d].error = "cancelled" /\ \A b \in Calls : b # d => call'[b] = call[b]
      BY <2>7, <3>2 DEF WaitCancelled, CallType
    <3> QED BY <3>1, <3>3, RetryableAreErrors
  <2> QED BY <2>2, <2>3, <2>4, <2>5, <2>6, <2>7 DEF Executing
<1> QED BY <1>1, ClientInvariant, PTL DEF Spec, UsesAllRetries

-----------------------------------------------------------------------------
(***************************************************************************)
(* The pool of connections.  While a caller looks at them, its index is    *)
(* that of a connection of the list.                                       *)
(***************************************************************************)
ConnStates == {"new", "idle", "connecting", "ready", "failing", "shutdown"}

ConnInv ==
    /\ connections \in Seq(Conns) /\ net \in [Conns -> ConnStates]
    /\ held \in [Callers -> Conns \cup {NoConn}]
    /\ getting \in [by : Callers \cup {Nobody}, at : Nat] /\ getting.at <= Len(connections)
    /\ AccountsForAll

(* What RemoveAt leaves of a list.                                         *)
LEMMA RemoveAtFacts ==
    ASSUME NEW S, NEW s \in Seq(S), NEW i \in 1..Len(s)
    PROVE  /\ RemoveAt(s, i) \in Seq(S) /\ Len(RemoveAt(s, i)) = Len(s) - 1
           /\ \A k \in 1..(Len(s) - 1) : RemoveAt(s, i)[k] = IF k < i THEN s[k] ELSE s[k + 1]
<1> DEFINE n == Len(s)
           left == SubSeq(s, 1, i - 1)
           right == SubSeq(s, i + 1, n)
<1>1. n \in Nat /\ i \in 1..n /\ \A k \in 1..n : s[k] \in S
  BY LenProperties, ElementOfSeq
<1> HIDE DEF n
<1>2. /\ left \in Seq(S) /\ Len(left) = i - 1
      /\ \A k \in 1..(i - 1) : left[k] = s[k]
  <2>1. 1 \in Int /\ i - 1 \in Int /\ \A k \in 1..(i - 1) : s[k] \in S
    BY <1>1
  <2>2. /\ left \in Seq(S) /\ Len(left) = IF 1 <= i - 1 THEN i - 1 - 1 + 1 ELSE 0
        /\ \A k \in 1..(i - 1 - 1 + 1) : left[k] = s[1 + k - 1]
    BY <2>1, SubSeqProperties
  <2> QED BY <1>1, <2>2
<1>3. /\ right \in Seq(S) /\ Len(right) = n - i
      /\ \A k \in 1..(n - i) : right[k] = s[i + k]
  <2>1. i + 1 \in Int /\ n \in Int /\ \A k \in (i + 1)..n : s[k] \in S
    BY <1>1
  <2>2. /\ right \in Seq(S) /\ Len(right) = IF i + 1 <= n THEN n - (i + 1) + 1 ELSE 0
        /\ \A k \in 1..(n - (i + 1) + 1) : right[k] = s[i + 1 + k - 1]
    BY <2>1, SubSeqProperties
  <2> QED BY <1>1, <2>2
<1>4. RemoveAt(s, i) = left \o right
  BY DEF RemoveAt, n
<1> HIDE DEF left, right
<1>5. /\ left \o right \in Seq(S) /\ Len(left \o right) = Len(left) + Len(right)
      /\ \A k \in 1..(Len(left) + Len(right)) :
            (left \o right)[k] = IF k <= Len(left) THEN left[k] ELSE right[k - Len(left)]
  BY <1>2, <1>3, ConcatProperties
<1>6. Len(left) + Len(right) = n - 1
  BY <1>1, <1>2, <1>3
<1>7. ASSUME NEW k \in 1..(n - 1)
      PROVE  (left \o right)[k] = IF k < i THEN s[k] ELSE s[k + 1]
  <2>1. CASE k < i
    BY <1>1, <1>2, <1>5, <1>6, <2>1
  <2>2. CASE ~(k < i)
    <3>1. k - (i - 1) \in 1..(n - i) /\ i + (k - (i - 1)) = k + 1
      BY <1>1, <2>2
    <3>2. (left \o right)[k] = right[k - (i - 1)]
      BY <1>1, <1>2, <1>5, <1>6, <2>2
    <3> QED BY <1>1, <1>3, <2>2, <3>1, <3>2
  <2> QED BY <2>1, <2>2
<1> QED BY <1>4, <1>5, <1>6, <1>7 DEF n

(* A size that is not positive is replaced.                                *)
LEMMA SizeIsPositive == MaxSize \in Nat \ {0}
BY SizesAreNumbers DEF MaxSize

(* With room in the pool there is a name for a new connection.             *)
LEMMA NewConnIsNew ==
    ASSUME ConnInv, currentSize < MaxSize \/ connections = <<>>
    PROVE  /\ NewConn \in Conns /\ net[NewConn] \in {"new", "shutdown"}
           /\ NewConn \notin ToSet(connections) /\ currentSize < MaxSize
<1> DEFINE Listed == ToSet(connections)
           Held == {held[p] : p \in Callers}
<1>1. connections \in Seq(Conns) /\ Len(connections) = currentSize /\ Len(connections) \in Nat
  BY LenProperties DEF ConnInv, AccountsForAll
<1>2. currentSize < MaxSize
  BY <1>1, SizeIsPositive
<1>3. IsFiniteSet(Listed) /\ Cardinality(Listed) <= Len(connections)
  <2>1. connections \in Surjection(1..Len(connections), Listed)
    BY <1>1, LenProperties DEF Surjection, ToSet
  <2>2. IsFiniteSet(1..Len(connections)) /\ Cardinality(1..Len(connections)) = Len(connections)
    BY <1>1, FS_Interval
  <2> HIDE DEF Listed
  <2> QED BY <2>1, <2>2, FS_Surjection
<1>4. IsFiniteSet(Held) /\ Cardinality(Held) <= Cardinality(Callers)
  <2>1. held \in Surjection(Callers, Held)
    BY DEF Surjection, ConnInv
  <2> HIDE DEF Held
  <2> QED BY <2>1, NamesSuffice, FS_Surjection
<1> HIDE DEF Listed, Held
<1>5. \E c \in Conns : c \notin Listed /\ c \notin Held
  <2> SUFFICES ASSUME Conns \subseteq Listed \cup Held PROVE FALSE
    OBVIOUS
  <2>1. IsFiniteSet(Listed \cup Held)
    BY <1>3, <1>4, FS_Union
  <2>2. Cardinality(Listed \cup Held) = Cardinality(Listed) + Cardinality(Held) - Cardinality(Listed \cap Held)
    BY <1>3, <1>4, FS_Union
  <2>3. IsFiniteSet(Listed \cap Held)
    BY <1>3, FS_Subset
  <2>4. Cardinality(Listed \cap Held) \in Nat /\ Cardinality(Listed) \in Nat /\ Cardinality(Held) \in Nat
        /\ Cardinality(Callers) \in Nat
    BY <1>3, <1>4, <2>3, NamesSuffice, FS_CardinalityType
  <2>5. IsFiniteSet(Conns) /\ Cardinality(Conns) <= Cardinality(Listed \cup Held)
    BY <2>1, FS_Subset
  <2>6. Cardinality(Conns) \in Nat /\ Cardinality(Conns) >= MaxSize + Cardinality(Callers)
    BY <2>5, NamesSuffice, FS_CardinalityType
  <2> QED BY <1>1, <1>2, <1>3, <1>4, <2>2, <2>4, <2>5, <2>6, SizeIsPositive
<1>6. PICK c \in Conns : c \notin Listed /\ c \notin Held
  BY <1>5
<1>7. net[c] \in {"new", "shutdown"} /\ c \notin ToSet(connections) /\ \A p \in Callers : held[p] # c
  BY <1>6 DEF ConnInv, AccountsForAll, Listed, Held
<1>8. NewConn \in Conns /\ net[NewConn] \in {"new", "shutdown"} /\ NewConn \notin ToSet(connections)
  BY <1>7, Zenon DEF NewConn
<1> QED BY <1>2, <1>8

(* A connection that failed is closed and dropped, whoever else holds it.  *)
LEMMA LookBrokenKeeps ==
    ASSUME ConnInv, LookBroken
    PROVE  ConnInv'
<1> DEFINE n == Len(connections)
           i == getting.at
           rest == RemoveAt(connections, i)
<1>1. /\ connections \in Seq(Conns) /\ n \in Nat /\ i \in Nat /\ i <= n /\ i > 0
      /\ currentSize = n /\ n <= MaxSize
      /\ \A j, k \in 1..n : connections[j] = connections[k] => j = k
  BY LenProperties DEF ConnInv, AccountsForAll, IsInjective, LookBroken, Looked
<1>2. i \in 1..n
  <2> HIDE DEF n, i
  <2> QED BY <1>1
<1>3. /\ rest \in Seq(Conns) /\ Len(rest) = n - 1
      /\ \A k \in 1..(n - 1) : rest[k] = IF k < i THEN connections[k] ELSE connections[k + 1]
  BY <1>1, <1>2, RemoveAtFacts
<1>4. connections' = rest /\ currentSize' = currentSize - 1 /\ getting' = [getting EXCEPT !.at = @ - 1]
  BY DEF LookBroken
<1>5. net' = [net EXCEPT ![connections[i]] = "shutdown"] /\ held' = held /\ connections[i] \in Conns
  BY <1>1, <1>2, ElementOfSeq DEF LookBroken
<1>6. \A j \in 1..n : j # i => \E k \in 1..(n - 1) : rest[k] = connections[j]
  <2> HIDE DEF n, i, rest
  <2> SUFFICES ASSUME NEW j \in 1..n, j # i PROVE \E k \in 1..(n - 1) : rest[k] = connections[j]
    OBVIOUS
  <2>1. CASE j < i
    BY <1>1, <1>2, <1>3, <2>1
  <2>2. CASE j > i
    <3>1. j - 1 \in 1..(n - 1) /\ ~(j - 1 < i) /\ (j - 1) + 1 = j
      BY <1>1, <1>2, <2>2
    <3> QED BY <1>3, <3>1
  <2> QED BY <1>2, <2>1, <2>2
<1>7. \A c \in Conns : net'[c] \notin {"new", "shutdown"} => c \in ToSet(connections')
  <2> SUFFICES ASSUME NEW c \in Conns, net'[c] \notin {"new", "shutdown"}
               PROVE  c \in ToSet(connections')
    OBVIOUS
  <2>1. c # connections[i] /\ net[c] \notin {"new", "shutdown"}
    BY <1>5 DEF ConnInv
  <2>2. PICK j \in 1..n : connections[j] = c
    BY <1>1, <2>1, LenProperties DEF ConnInv, AccountsForAll, ToSet
  <2>3. \E k \in 1..(n - 1) : rest[k] = c
    BY <1>6, <2>1, <2>2
  <2> HIDE DEF n, rest
  <2> QED BY <1>3, <1>4, <2>3, LenProperties DEF ToSet
<1>8. \A j, k \in 1..(n - 1) : rest[j] = rest[k] => j = k
  <2> HIDE DEF n, i, rest
  <2> QED BY <1>1, <1>2, <1>3
<1>9. IsInjective(connections')
  <2> HIDE DEF n, rest
  <2> QED BY <1>3, <1>4, <1>8, LenProperties DEF IsInjective
<1>10. AccountsForAll'
  <2> HIDE DEF n, rest
  <2> QED BY <1>1, <1>3, <1>4, <1>7, <1>9, SizeIsPositive DEF AccountsForAll
<1>11. getting' \in [by : Callers \cup {Nobody}, at : Nat] /\ getting'.at = i - 1
  BY <1>1, <1>4 DEF ConnInv
<1>12. net' \in [Conns -> ConnStates]
  BY <1>5 DEF ConnInv, ConnStates
<1> HIDE DEF n, i, rest
<1> QED BY <1>1, <1>3, <1>4, <1>5, <1>10, <1>11, <1>12 DEF ConnInv

(* Returning a connection releases the lock.                               *)
LEMMA ReturnKeeps ==
    ASSUME ConnInv, NEW c \in Conns, getting # Free, Return(c)
    PROVE  held' \in [Callers -> Conns \cup {NoConn}] /\ getting' \in [by : Callers \cup {Nobody}, at : Nat]
           /\ getting'.at = 0
BY DEF ConnInv, Return, Free

(* A connection made is listed and counted.                                *)
LEMMA CreateKeeps ==
    ASSUME ConnInv, CreateConnection
    PROVE  ConnInv'
<1> DEFINE n == Len(connections)
           c == NewConn
<1>1. /\ connections \in Seq(Conns) /\ n \in Nat /\ currentSize = n
      /\ \A j, k \in 1..n : connections[j] = connections[k] => j = k
  BY LenProperties DEF ConnInv, AccountsForAll, IsInjective
<1>2. c \in Conns /\ c \notin ToSet(connections) /\ currentSize < MaxSize
  BY NewConnIsNew DEF CreateConnection
<1>3. /\ connections' = Append(connections, c) /\ currentSize' = currentSize + 1
      /\ net' = [net EXCEPT ![c] = "idle"] /\ Return(c) /\ getting # Free
  BY DEF CreateConnection, AllSeen
<1> HIDE DEF c
<1>4. /\ connections' \in Seq(Conns) /\ Len(connections') = n + 1
      /\ \A k \in 1..n : connections'[k] = connections[k]
      /\ connections'[n + 1] = c
  BY <1>1, <1>2, <1>3, AppendProperties
<1>5. \A k \in 1..n : connections[k] # c
  BY <1>1, <1>2, LenProperties DEF ToSet
<1>6. IsInjective(connections')
  <2> HIDE DEF n
  <2>1. \A j, k \in 1..(n + 1) : connections'[j] = connections'[k] => j = k
    BY <1>1, <1>4, <1>5
  <2> QED BY <1>4, <2>1, LenProperties DEF IsInjective
<1>7. \A d \in Conns : net'[d] \notin {"new", "shutdown"} => d \in ToSet(connections')
  <2> SUFFICES ASSUME NEW d \in Conns, net'[d] \notin {"new", "shutdown"}
               PROVE  d \in ToSet(connections')
    OBVIOUS
  <2>1. DOMAIN connections' = 1..(n + 1) /\ n + 1 \in 1..(n + 1) /\ \A k \in 1..n : k \in 1..(n + 1)
    <3> HIDE DEF n
    <3> QED BY <1>1, <1>4, LenProperties
  <2>2. CASE d = c
    BY <1>4, <2>1, <2>2 DEF ToSet
  <2>3. CASE d # c
    <3>1. d \in ToSet(connections)
      BY <1>3, <2>3 DEF ConnInv, AccountsForAll
    <3>2. \E k \in 1..n : connections[k] = d
      BY <1>1, <3>1, LenProperties DEF ToSet
    <3> QED BY <1>4, <2>1, <3>2 DEF ToSet
  <2> QED BY <2>2, <2>3
<1>8. AccountsForAll'
  <2> HIDE DEF n
  <2> QED BY <1>1, <1>2, <1>3, <1>4, <1>6, <1>7, SizeIsPositive DEF AccountsForAll
<1>9. net' \in [Conns -> ConnStates]
  BY <1>2, <1>3 DEF ConnInv, ConnStates
<1>10. held' \in [Callers -> Conns \cup {NoConn}] /\ getting' \in [by : Callers \cup {Nobody}, at : Nat]
       /\ getting'.at = 0
  BY <1>2, <1>3, ReturnKeeps
<1> QED BY <1>1, <1>4, <1>8, <1>9, <1>10 DEF ConnInv

(* No step of the pool, of gRPC or of who holds a connection breaks it.    *)
LEMMA ConnStep == ConnInv /\ [ConnNext]_connVars => ConnInv'
<1> SUFFICES ASSUME ConnInv, [ConnNext]_connVars PROVE ConnInv'
  OBVIOUS
<1>1. /\ connections \in Seq(Conns) /\ Len(connections) \in Nat
      /\ getting \in [by : Callers \cup {Nobody}, at : Nat] /\ getting.at <= Len(connections)
      /\ \A k \in 1..Len(connections) : connections[k] \in Conns
  BY LenProperties, ElementOfSeq DEF ConnInv
<1>2. ASSUME NEW p \in Callers, GetConnection(p) PROVE ConnInv'
  BY <1>1, <1>2 DEF GetConnection, ConnInv, AccountsForAll
<1>3. CASE LookReady \/ ReturnFirst
  <2>1. \E c \in Conns : Return(c)
    <3>1. CASE LookReady
      <4>1. getting.at \in 1..Len(connections)
        BY <1>1, <3>1 DEF LookReady, Looked
      <4> QED BY <1>1, <3>1, <4>1 DEF LookReady
    <3>2. CASE ReturnFirst
      <4>1. 1 \in 1..Len(connections)
        BY <1>1, <3>2, EmptySeq DEF ReturnFirst
      <4> QED BY <1>1, <3>2, <4>1 DEF ReturnFirst
    <3> QED BY <1>3, <3>1, <3>2
  <2>2. getting # Free /\ UNCHANGED <<connections, currentSize, net>>
    BY <1>3 DEF LookReady, ReturnFirst, Looked, AllSeen
  <2>3. held' \in [Callers -> Conns \cup {NoConn}] /\ getting' \in [by : Callers \cup {Nobody}, at : Nat]
        /\ getting'.at = 0
    BY <2>1, <2>2, ReturnKeeps
  <2> QED BY <1>1, <2>2, <2>3 DEF ConnInv, AccountsForAll
<1>4. CASE LookOther
  <2>1. getting'.at = getting.at - 1 /\ getting' \in [by : Callers \cup {Nobody}, at : Nat]
    BY <1>1, <1>4 DEF LookOther, Looked
  <2> QED BY <1>1, <1>4, <2>1 DEF LookOther, ConnInv, AccountsForAll
<1>5. CASE DialFails
  BY <1>1, <1>5 DEF DialFails, Free, ConnInv, AccountsForAll
<1>6. CASE ClosePool
  <2>1. connections' = <<>> /\ Len(connections') = 0 /\ currentSize' = 0 /\ connections' \in Seq(Conns)
    BY <1>6, EmptySeq DEF ClosePool
  <2>2. \A c \in Conns : net'[c] \in {"new", "shutdown"}
    BY <1>6 DEF ClosePool, ConnInv, AccountsForAll
  <2>3. AccountsForAll'
    BY <2>1, <2>2, SizeIsPositive DEF AccountsForAll, IsInjective
  <2>4. net' \in [Conns -> ConnStates]
    BY <1>6 DEF ClosePool, ConnInv, ConnStates
  <2> QED BY <1>1, <1>6, <2>1, <2>3, <2>4 DEF ClosePool, ConnInv, Free
<1>7. ASSUME NEW c \in Conns, StateChanges(c) PROVE ConnInv'
  <2>1. net' \in [Conns -> ConnStates] /\ \A d \in Conns : net'[d] \notin {"new", "shutdown"} => net[d] \notin {"new", "shutdown"}
    BY <1>7 DEF StateChanges, ConnInv, ConnStates
  <2> QED BY <1>1, <1>7, <2>1 DEF StateChanges, ConnInv, AccountsForAll
<1>8. ASSUME NEW p \in Callers, HolderCloses(p) PROVE ConnInv'
  <2>1. net' \in [Conns -> ConnStates] /\ \A d \in Conns : net'[d] \notin {"new", "shutdown"} => net[d] \notin {"new", "shutdown"}
    BY <1>8 DEF HolderCloses, ConnInv, ConnStates
  <2> QED BY <1>1, <1>8, <2>1 DEF HolderCloses, ConnInv, AccountsForAll
<1>9. CASE UNCHANGED connVars
  BY <1>9 DEF connVars, ConnInv, AccountsForAll
<1> QED BY <1>2, <1>3, <1>4, <1>5, <1>6, <1>7, <1>8, <1>9, LookBrokenKeeps, CreateKeeps DEF ConnNext

(* The pool keeps its invariant with any number of callers and any size.   *)
THEOREM ConnInvariant == ConnSpec => []ConnInv
<1>1. ConnInit => ConnInv
  <2> SUFFICES ASSUME ConnInit PROVE ConnInv
    OBVIOUS
  <2>1. connections \in Seq(Conns) /\ Len(connections) = 0 /\ IsInjective(connections)
    BY EmptySeq DEF ConnInit, IsInjective
  <2> QED BY <2>1, SizeIsPositive DEF ConnInit, ConnInv, AccountsForAll, ConnStates, Free
<1> QED BY <1>1, ConnStep, PTL DEF ConnSpec

(* GetConnection and Close lose no open connection and never exceed the    *)
(* size, whatever gRPC and the holders do to connections meanwhile.        *)
THEOREM PoolAccounts == ConnSpec => []AccountsForAll
BY ConnInvariant, PTL DEF ConnInv
=============================================================================
