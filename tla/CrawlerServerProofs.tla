------------------------- MODULE CrawlerServerProofs -------------------------
(***************************************************************************)
(* Proofs about CrawlerServer, for any calls, batches, limits and bounds.  *)
(* The invariant has four parts: types; each batch with its goroutines,    *)
(* tokens and answers; the counters; and the window of Fetch.  A step      *)
(* belongs to Fetch, to a batch or to the admin service, and leaves the    *)
(* variables of the other two alone.  At the end, the steps on the         *)
(* statistics are those of RequestLedger.                                  *)
(***************************************************************************)
EXTENDS CrawlerServer, FiniteSetTheorems, TLAPS

Types ==
    /\ ServerTypeOK
    /\ worker = [b \in Batches |-> worker[b]]
    /\ responses = [b \in Batches |-> responses[b]]
    /\ {finished, collected, resets} \subseteq Nat

Answer(b, i, r) == [url |-> Requests[b][i], result |-> r]

(* Every token is held by a goroutine that fetches or leaves; those that   *)
(* have fetched have put their answer in its place.                        *)
BatchOK(b) ==
    /\ tokens[b] = Cardinality(Within(b))
    /\ batch[b].at = "running" => tokens[b] <= batch[b].limit
    /\ batch[b].at = "returned" => \A i \in Indices(b) : worker[b][i] = "done"
    /\ \A i \in Indices(b) : worker[b][i] \in {"leaving", "done"} =>
          \E r \in Outcomes : responses[b][i] = {Answer(b, i, r)}

BatchesOK == \A b \in Batches : BatchOK(b)

CountsOK ==
    /\ CountsAddUp
    /\ report.seen <= stats.total
    /\ IsFiniteSet(Counting) /\ IsFiniteSet(connections)

(* A URL in its window that was answered is among the recent ones, from    *)
(* the moment its answer is stored.                                        *)
WindowOK ==
    Dedupe => /\ answered \subseteq recent
              /\ \A c \in Calls : (call[c].at = "count" /\ call[c].result = "ok") => call[c].url \in recent

ServerInv == Types /\ BatchesOK /\ CountsOK /\ WindowOK

-----------------------------------------------------------------------------
LEMMA RequestsListed ==
    ASSUME NEW b \in Batches
    PROVE  /\ Indices(b) = 1..Len(Requests[b]) /\ Len(Requests[b]) \in Nat
           /\ IsFiniteSet(Indices(b))
           /\ \A i \in Indices(b) : Requests[b][i] \in URLs
<1>1. Requests[b] \in Seq(URLs)
  BY RequestsAreURLs
<1>2. Len(Requests[b]) \in Nat /\ \A i \in 1..Len(Requests[b]) : Requests[b][i] \in URLs
  BY <1>1
<1>3. IsFiniteSet(1..Len(Requests[b]))
  BY <1>2, FS_Interval
<1> QED BY <1>2, <1>3 DEF Indices

(* A batch all of whose goroutines wait has no tokens and no answers.      *)
LEMMA FreshBatch ==
    ASSUME NEW b \in Batches, \A i \in Indices(b) : worker[b][i] = "waiting"
    PROVE  Within(b) = {} /\ Cardinality(Within(b)) = 0
<1>1. Within(b) = {}
  BY DEF Within
<1> QED BY <1>1, FS_EmptySet

LEMMA WithinFinite ==
    ASSUME NEW b \in Batches
    PROVE  IsFiniteSet(Within(b)) /\ Cardinality(Within(b)) \in Nat
<1>1. IsFiniteSet(Indices(b)) /\ Within(b) \subseteq Indices(b)
  BY RequestsListed DEF Within
<1>2. IsFiniteSet(Within(b))
  BY <1>1, FS_Subset
<1> QED BY <1>2, FS_CardinalityType

LEMMA LimitsAreNat ==
    ASSUME NEW b \in Batches
    PROVE  Limits(b) \subseteq Nat
<1> SUFFICES ASSUME NEW l \in Limits(b) PROVE l \in Nat
  OBVIOUS
<1>1. Asked[b] \in Int
  BY LimitsAreNumbers
<1>2. CASE Asked[b] > 0
  BY <1>1, <1>2 DEF Limits
<1>3. CASE ~(Asked[b] > 0) /\ Configured > 0
  BY <1>3, LimitsAreNumbers DEF Limits
<1>4. CASE ~(Asked[b] > 0) /\ ~(Configured > 0)
  BY <1>4, SomeIsDrawn DEF Limits
<1> QED BY <1>2, <1>3, <1>4

(* Recording keeps the sum of successes and errors.                        *)
LEMMA RecordedAdds ==
    ASSUME NEW s \in [total : Nat, success : Nat, errors : Nat], NEW r
    PROVE  /\ Recorded(s, r) \in [total : Nat, success : Nat, errors : Nat]
           /\ Recorded(s, r).total = s.total + 1
           /\ Recorded(s, r).success + Recorded(s, r).errors = s.success + s.errors + 1
BY DEF Recorded

-----------------------------------------------------------------------------
LEMMA ServerInitial == Init => ServerInv
<1> SUFFICES ASSUME Init PROVE ServerInv
  OBVIOUS
<1>1. (CHOOSE u \in URLs : TRUE) \in URLs
  BY SomeURLs
<1>2. call \in [Calls -> [at : {"idle"}, url : URLs, result : {"ok"}]]
  BY <1>1 DEF Init
<1>3. Types
  <2>1. call \in [Calls -> [at : {"idle", "fetching", "store", "count"}, url : URLs,
                           result : Outcomes \cup {"dedup"}]]
    BY <1>2 DEF Outcomes
  <2> QED BY <2>1 DEF Init, Types, ServerTypeOK, Zero
<1>4. BatchesOK
  <2> SUFFICES ASSUME NEW b \in Batches PROVE BatchOK(b)
    BY DEF BatchesOK
  <2>1. /\ \A i \in Indices(b) : worker[b][i] = "waiting"
        /\ tokens[b] = 0 /\ batch[b].at = "idle"
    BY DEF Init
  <2> QED BY <2>1, FreshBatch DEF BatchOK
<1>5. CountsOK
  <2>1. Counting = {}
    BY <1>2 DEF Counting
  <2> QED BY <2>1, FS_EmptySet DEF Init, CountsOK, CountsAddUp, Zero
<1>6. WindowOK
  BY <1>2 DEF Init, WindowOK
<1> QED BY <1>3, <1>4, <1>5, <1>6 DEF ServerInv

LEMMA BatchesStay ==
    ASSUME BatchesOK, UNCHANGED batchVars
    PROVE  BatchesOK'
BY DEF BatchesOK, BatchOK, Within, batchVars

-----------------------------------------------------------------------------
CallAts == {"idle", "fetching", "store", "count"}
CallResults == Outcomes \cup {"dedup"}
CallType == [at : CallAts, url : URLs, result : CallResults]

(* What an assignment to two fields of a call leaves.                      *)
LEMMA UrlAssigned ==
    ASSUME call \in [Calls -> CallType], NEW c \in Calls, NEW a \in CallAts, NEW u \in URLs,
           call' = [call EXCEPT ![c].at = a, ![c].url = u]
    PROVE  /\ call' \in [Calls -> CallType]
           /\ call'[c].at = a
           /\ \A d \in Calls : d # c => call'[d] = call[d]
BY DEF CallType

LEMMA ResultAssigned ==
    ASSUME call \in [Calls -> CallType], NEW c \in Calls, NEW a \in CallAts, NEW r \in CallResults,
           call' = [call EXCEPT ![c].at = a, ![c].result = r]
    PROVE  /\ call' \in [Calls -> CallType]
           /\ call'[c].at = a
           /\ \A d \in Calls : d # c => call'[d] = call[d]
BY DEF CallType

(* The steps of Fetch before and after the site has answered.              *)
LEMMA FetchSteps ==
    ASSUME ServerInv, NEW c \in Calls, NEW u \in URLs,
           FetchRepeats(c, u) \/ FetchBegins(c, u) \/ StoreRecent(c)
    PROVE  ServerInv'
<1> USE DEF ServerInv
<1>1. /\ UNCHANGED <<answered, batchVars, adminVars, stats, finished>>
      /\ \A d \in Calls : d # c => call'[d] = call[d]
      /\ recent \subseteq recent' /\ recent' \subseteq URLs
      /\ call' \in [Calls -> [at : {"idle", "fetching", "store", "count"}, url : URLs,
                              result : Outcomes \cup {"dedup"}]]
      /\ (call'[c].at \in {"store", "count"}) = (call[c].at \in {"store", "count"})
      /\ Dedupe /\ call'[c].at = "count" /\ call'[c].result = "ok" => call'[c].url \in recent'
  <2>1. CASE FetchRepeats(c, u)
    BY <2>1 DEF FetchRepeats, Types, ServerTypeOK
  <2>2. CASE FetchBegins(c, u)
    <3>1. /\ call' = [call EXCEPT ![c].at = "fetching", ![c].url = u]
          /\ UNCHANGED <<recent, answered, batchVars, adminVars, stats, finished>>
      BY <2>2 DEF FetchBegins
    <3>2. call[c].at = "idle" /\ call \in [Calls -> CallType] /\ recent \subseteq URLs
      BY <2>2 DEF FetchBegins, Types, ServerTypeOK, CallType, CallAts, CallResults
    <3>3. /\ call' \in [Calls -> CallType] /\ call'[c].at = "fetching"
          /\ \A d \in Calls : d # c => call'[d] = call[d]
      BY <3>1, <3>2, UrlAssigned DEF CallAts
    <3> QED BY <3>1, <3>2, <3>3 DEF CallType, CallAts, CallResults
  <2>3. CASE StoreRecent(c)
    BY <2>3 DEF StoreRecent, Types, ServerTypeOK
  <2> QED BY <2>1, <2>2, <2>3
<1>2. Types'
  BY <1>1 DEF Types, ServerTypeOK, batchVars, adminVars
<1>3. BatchesOK'
  BY <1>1, BatchesStay
<1>4. Counting' = Counting
  BY <1>1 DEF Counting
<1>5. CountsOK'
  BY <1>1, <1>4 DEF CountsOK, CountsAddUp, adminVars
<1>6. WindowOK'
  BY <1>1 DEF WindowOK
<1> QED BY <1>2, <1>3, <1>5, <1>6

(* A visit that ends is counted among the finished ones and waits to be    *)
(* recorded.                                                               *)
LEMMA SiteAnswersStep ==
    ASSUME ServerInv, NEW c \in Calls, SiteAnswers(c)
    PROVE  ServerInv'
<1> USE DEF ServerInv
<1>1. PICK r \in Outcomes :
         call' = [call EXCEPT ![c].at = "store", ![c].result = r]
  BY DEF SiteAnswers
<1>2. /\ call[c].at = "fetching" /\ finished' = finished + 1
      /\ UNCHANGED <<recent, answered, batchVars, adminVars, stats>>
  BY DEF SiteAnswers
<1>3. /\ call' \in [Calls -> [at : {"idle", "fetching", "store", "count"}, url : URLs,
                              result : Outcomes \cup {"dedup"}]]
      /\ call'[c].at = "store" /\ \A d \in Calls : d # c => call'[d] = call[d]
  <2>1. call \in [Calls -> CallType]
    BY DEF Types, ServerTypeOK, CallType, CallAts, CallResults
  <2>2. r \in CallResults /\ "store" \in CallAts
    BY DEF CallResults, CallAts
  <2>3. call' \in [Calls -> CallType] /\ call'[c].at = "store" /\ \A d \in Calls : d # c => call'[d] = call[d]
    BY <1>1, <2>1, <2>2, ResultAssigned
  <2> QED BY <2>3 DEF CallType, CallAts, CallResults
<1>4. Types'
  BY <1>2, <1>3 DEF Types, ServerTypeOK, batchVars, adminVars
<1>5. BatchesOK'
  BY <1>2, BatchesStay
<1>6. Counting' = Counting \cup {c} /\ c \notin Counting
  BY <1>2, <1>3 DEF Counting
<1>7. /\ IsFiniteSet(Counting') /\ Cardinality(Counting)' = Cardinality(Counting) + 1
      /\ Cardinality(Counting) \in Nat
  BY <1>6, FS_AddElement, FS_CardinalityType DEF CountsOK
<1>8. CountsOK'
  BY <1>2, <1>7 DEF CountsOK, CountsAddUp, adminVars, Types, ServerTypeOK
<1>9. WindowOK'
  BY <1>2, <1>3 DEF WindowOK
<1> QED BY <1>4, <1>5, <1>8, <1>9

LEMMA FetchReturnsStep ==
    ASSUME ServerInv, NEW c \in Calls, FetchReturns(c)
    PROVE  ServerInv'
<1> USE DEF ServerInv
<1>1. /\ call[c].at = "count" /\ call' = [call EXCEPT ![c].at = "idle"]
      /\ stats' = Recorded(stats, call[c].result)
      /\ answered' = IF call[c].result = "ok" THEN answered \cup {call[c].url} ELSE answered
      /\ UNCHANGED <<recent, batchVars, adminVars, finished>>
  BY DEF FetchReturns
<1>2. stats \in [total : Nat, success : Nat, errors : Nat]
  BY DEF Types, ServerTypeOK
<1>3. /\ stats' \in [total : Nat, success : Nat, errors : Nat]
      /\ stats'.total = stats.total + 1
      /\ stats'.success + stats'.errors = stats.success + stats.errors + 1
  BY <1>1, <1>2, RecordedAdds
<1>4. Types'
  BY <1>1, <1>3 DEF Types, ServerTypeOK, batchVars, adminVars
<1>5. BatchesOK'
  BY <1>1, BatchesStay
<1>6. Counting' = Counting \ {c} /\ c \in Counting
  BY <1>1 DEF Counting, Types, ServerTypeOK
<1>7. /\ IsFiniteSet(Counting') /\ Cardinality(Counting)' = Cardinality(Counting) - 1
      /\ Cardinality(Counting) \in Nat
  BY <1>6, FS_RemoveElement, FS_CardinalityType DEF CountsOK
<1>8. CountsOK'
  BY <1>1, <1>2, <1>3, <1>7 DEF CountsOK, CountsAddUp, adminVars, Types, ServerTypeOK
<1>9. WindowOK'
  BY <1>1 DEF WindowOK, Types, ServerTypeOK
<1> QED BY <1>4, <1>5, <1>8, <1>9

LEMMA ExpireStep ==
    ASSUME ServerInv, NEW u \in URLs, Expire(u)
    PROVE  ServerInv'
<1> USE DEF ServerInv
<1>1. /\ recent' = recent \ {u} /\ answered' = answered \ {u}
      /\ \A c \in Calls : ~(call[c].at = "count" /\ call[c].url = u)
      /\ UNCHANGED <<call, batchVars, adminVars, stats, finished>>
  BY DEF Expire
<1>2. Types'
  BY <1>1 DEF Types, ServerTypeOK, batchVars, adminVars
<1>3. BatchesOK'
  BY <1>1, BatchesStay
<1>4. CountsOK'
  BY <1>1 DEF CountsOK, CountsAddUp, Counting, adminVars
<1>5. WindowOK'
  BY <1>1 DEF WindowOK
<1> QED BY <1>2, <1>3, <1>4, <1>5

-----------------------------------------------------------------------------
(* A step of batch b leaves the other batches, Fetch and the admin service *)
(* alone: it keeps the invariant if it keeps that of b and counts what it  *)
(* has finished.                                                           *)
LEMMA OfOneBatch ==
    ASSUME ServerInv, NEW b \in Batches,
           UNCHANGED <<fetchVars, adminVars>>,
           \A d \in Batches : d # b =>
              UNCHANGED <<batch[d], worker[d], tokens[d], responses[d]>>,
           Types', BatchOK(b)',
           \/ UNCHANGED <<stats, finished>>
           \/ finished' = finished + 1 /\ \E r \in Outcomes : stats' = Recorded(stats, r)
    PROVE  ServerInv'
<1> USE DEF ServerInv
<1>1. BatchesOK'
  <2> SUFFICES ASSUME NEW d \in Batches, d # b PROVE BatchOK(d)'
    BY DEF BatchesOK
  <2> QED BY DEF BatchesOK, BatchOK, Within
<1>2. WindowOK'
  BY DEF WindowOK, fetchVars
<1>3. Counting' = Counting /\ UNCHANGED <<connections, current, report, collected, resets>>
  BY DEF Counting, fetchVars, adminVars
<1>4. Cardinality(Counting) \in Nat
  BY FS_CardinalityType DEF CountsOK
<1>5. CountsOK'
  <2>1. CASE UNCHANGED <<stats, finished>>
    BY <2>1, <1>3 DEF CountsOK, CountsAddUp
  <2>2. ASSUME finished' = finished + 1, NEW r \in Outcomes, stats' = Recorded(stats, r)
        PROVE  CountsOK'
    <3>1. stats \in [total : Nat, success : Nat, errors : Nat]
      BY DEF Types, ServerTypeOK
    <3>2. /\ stats'.total = stats.total + 1
          /\ stats'.success + stats'.errors = stats.success + stats.errors + 1
      BY <3>1, <2>2, RecordedAdds
    <3>3. stats' \in [total : Nat, success : Nat, errors : Nat]
      BY <3>1, <2>2, RecordedAdds
    <3> QED BY <2>2, <3>1, <3>2, <3>3, <1>3, <1>4 DEF CountsOK, CountsAddUp, Types, ServerTypeOK
  <2> QED BY <2>1, <2>2
<1> QED BY <1>1, <1>2, <1>5

LEMMA BatchBeginsStep ==
    ASSUME ServerInv, NEW b \in Batches, BatchBegins(b)
    PROVE  ServerInv'
<1> USE DEF ServerInv
<1>1. PICK l \in Limits(b) : batch' = [batch EXCEPT ![b] = [at |-> "running", limit |-> l]]
  BY DEF BatchBegins
<1>2. /\ worker' = [worker EXCEPT ![b] = [i \in Indices(b) |-> "waiting"]]
      /\ tokens' = [tokens EXCEPT ![b] = 0]
      /\ responses' = [responses EXCEPT ![b] = [i \in Indices(b) |-> {}]]
      /\ UNCHANGED <<fetchVars, adminVars, stats, finished>>
  BY DEF BatchBegins
<1>3. l \in Nat
  BY LimitsAreNat
<1>4. DOMAIN worker = Batches /\ DOMAIN responses = Batches
  BY DEF Types
<1>5. /\ worker' = [d \in Batches |-> worker'[d]] /\ responses' = [d \in Batches |-> responses'[d]]
      /\ worker'[b] = [i \in Indices(b) |-> "waiting"]
      /\ responses'[b] = [i \in Indices(b) |-> {}]
      /\ \A d \in Batches : d # b => worker'[d] = worker[d] /\ responses'[d] = responses[d]
  BY <1>2, <1>4
<1>6. Types'
  BY <1>1, <1>2, <1>3, <1>5 DEF Types, ServerTypeOK, fetchVars, adminVars
<1>7. BatchOK(b)'
  <2>1. Within(b)' = {}
    BY <1>5 DEF Within
  <2>2. batch'[b].at = "running" /\ batch'[b].limit = l /\ tokens'[b] = 0
    BY <1>1, <1>2 DEF Types, ServerTypeOK
  <2>3. \A i \in Indices(b) : worker'[b][i] \notin {"leaving", "done"}
    BY <1>5
  <2> QED BY <2>1, <2>2, <2>3, <1>3, FS_EmptySet DEF BatchOK
<1>8. \A d \in Batches : d # b => UNCHANGED <<batch[d], worker[d], tokens[d], responses[d]>>
  BY <1>1, <1>2, <1>5 DEF Types, ServerTypeOK
<1> QED BY <1>2, <1>6, <1>7, <1>8, OfOneBatch

LEMMA AcquireStep ==
    ASSUME ServerInv, NEW b \in Batches, NEW i \in Indices(b), Acquire(b, i)
    PROVE  ServerInv'
<1> USE DEF ServerInv
<1>1. /\ batch[b].at = "running" /\ worker[b][i] = "waiting" /\ tokens[b] < batch[b].limit
      /\ tokens' = [tokens EXCEPT ![b] = @ + 1]
      /\ worker' = [worker EXCEPT ![b][i] = "fetching"]
      /\ UNCHANGED <<fetchVars, adminVars, batch, responses, stats, finished>>
  BY DEF Acquire
<1>2. DOMAIN worker = Batches /\ worker[b] \in [Indices(b) -> {"waiting", "fetching", "leaving", "done"}]
  BY DEF Types, ServerTypeOK
<1>3. /\ worker' = [d \in Batches |-> worker'[d]]
      /\ worker'[b] = [worker[b] EXCEPT ![i] = "fetching"]
      /\ \A d \in Batches : d # b => worker'[d] = worker[d]
  BY <1>1, <1>2
<1>4. tokens' \in [Batches -> Nat] /\ tokens'[b] = tokens[b] + 1 /\ tokens[b] \in Nat
      /\ \A d \in Batches : d # b => tokens'[d] = tokens[d]
  BY <1>1 DEF Types, ServerTypeOK
<1>5. Types'
  BY <1>1, <1>2, <1>3, <1>4 DEF Types, ServerTypeOK, fetchVars, adminVars
<1>6. Within(b)' = Within(b) \cup {i} /\ i \notin Within(b)
  BY <1>1, <1>2, <1>3 DEF Within
<1>7. Cardinality(Within(b))' = Cardinality(Within(b)) + 1
  BY <1>6, WithinFinite, FS_AddElement
<1>8. BatchOK(b)'
  <2>1. tokens'[b] = Cardinality(Within(b))'
    BY <1>4, <1>7 DEF BatchesOK, BatchOK
  <2>2. batch[b].limit \in Nat
    BY DEF Types, ServerTypeOK
  <2> QED BY <1>1, <1>2, <1>3, <1>4, <2>1, <2>2 DEF BatchesOK, BatchOK
<1> QED BY <1>1, <1>3, <1>4, <1>5, <1>8, OfOneBatch

LEMMA WorkerAnswersStep ==
    ASSUME ServerInv, NEW b \in Batches, NEW i \in Indices(b), WorkerAnswers(b, i)
    PROVE  ServerInv'
<1> USE DEF ServerInv
<1>1. PICK r \in Outcomes :
         stats' = Recorded(stats, r) /\ responses' = [responses EXCEPT ![b][i] = {Answer(b, i, r)}]
  BY DEF WorkerAnswers, Answer
<1>2. /\ worker[b][i] = "fetching" /\ worker' = [worker EXCEPT ![b][i] = "leaving"]
      /\ finished' = finished + 1
      /\ UNCHANGED <<fetchVars, adminVars, batch, tokens>>
  BY DEF WorkerAnswers
<1>3. /\ DOMAIN worker = Batches /\ DOMAIN responses = Batches
      /\ worker[b] \in [Indices(b) -> {"waiting", "fetching", "leaving", "done"}]
      /\ responses[b] \in [Indices(b) -> SUBSET Answers]
  BY DEF Types, ServerTypeOK
<1>4. /\ worker' = [d \in Batches |-> worker'[d]] /\ responses' = [d \in Batches |-> responses'[d]]
      /\ worker'[b] = [worker[b] EXCEPT ![i] = "leaving"]
      /\ responses'[b] = [responses[b] EXCEPT ![i] = {Answer(b, i, r)}]
      /\ \A d \in Batches : d # b => worker'[d] = worker[d] /\ responses'[d] = responses[d]
  BY <1>1, <1>2, <1>3
<1>5. Answer(b, i, r) \in Answers
  BY RequestsListed DEF Answer, Answers
<1>6. stats' \in [total : Nat, success : Nat, errors : Nat]
  BY <1>1, RecordedAdds DEF Types, ServerTypeOK
<1>7. Types'
  <2>1. worker'[b] \in [Indices(b) -> {"waiting", "fetching", "leaving", "done"}]
    BY <1>3, <1>4
  <2>2. responses'[b] \in [Indices(b) -> SUBSET Answers]
    BY <1>3, <1>4, <1>5
  <2>3. \A d \in Batches :
           /\ worker'[d] \in [Indices(d) -> {"waiting", "fetching", "leaving", "done"}]
           /\ responses'[d] \in [Indices(d) -> SUBSET Answers]
    BY <1>4, <2>1, <2>2 DEF Types, ServerTypeOK
  <2> HIDE DEF Answers, Outcomes, Indices
  <2> QED BY <1>2, <1>4, <1>6, <2>3 DEF Types, ServerTypeOK, fetchVars, adminVars
<1>8. Within(b)' = Within(b)
  BY <1>2, <1>3, <1>4 DEF Within
<1>9. BatchOK(b)'
  <2>1. BatchOK(b)
    BY DEF BatchesOK
  <2>2. batch[b].at # "returned"
    BY <1>2, <2>1 DEF BatchOK
  <2>3. ASSUME NEW j \in Indices(b), worker'[b][j] \in {"leaving", "done"}
        PROVE  \E s \in Outcomes : responses'[b][j] = {Answer(b, j, s)}
    <3>1. CASE j = i
      BY <3>1, <1>3, <1>4
    <3>2. CASE j # i
      BY <3>2, <2>3, <1>3, <1>4, <2>1 DEF BatchOK
    <3> QED BY <3>1, <3>2
  <2> QED BY <1>2, <1>8, <2>1, <2>2, <2>3 DEF BatchOK, Answer
<1> QED BY <1>1, <1>2, <1>4, <1>7, <1>9, OfOneBatch

LEMMA LeaveStep ==
    ASSUME ServerInv, NEW b \in Batches, NEW i \in Indices(b), Leave(b, i)
    PROVE  ServerInv'
<1> USE DEF ServerInv
<1>1. /\ worker[b][i] = "leaving" /\ worker' = [worker EXCEPT ![b][i] = "done"]
      /\ tokens' = [tokens EXCEPT ![b] = @ - 1]
      /\ UNCHANGED <<fetchVars, adminVars, batch, responses, stats, finished>>
  BY DEF Leave
<1>2. /\ DOMAIN worker = Batches
      /\ worker[b] \in [Indices(b) -> {"waiting", "fetching", "leaving", "done"}]
  BY DEF Types, ServerTypeOK
<1>3. /\ worker' = [d \in Batches |-> worker'[d]]
      /\ worker'[b] = [worker[b] EXCEPT ![i] = "done"]
      /\ \A d \in Batches : d # b => worker'[d] = worker[d]
  BY <1>1, <1>2
<1>4. Within(b)' = Within(b) \ {i} /\ i \in Within(b)
  BY <1>1, <1>2, <1>3 DEF Within
<1>5. /\ Cardinality(Within(b))' = Cardinality(Within(b)) - 1
      /\ Cardinality(Within(b))' \in Nat /\ Cardinality(Within(b)) \in Nat
  <2>1. IsFiniteSet(Within(b)) /\ IsFiniteSet(Within(b) \ {i})
    BY WithinFinite, FS_RemoveElement
  <2> QED BY <1>4, <2>1, FS_RemoveElement, FS_CardinalityType
<1>6. BatchOK(b)
  BY DEF BatchesOK
<1>7. /\ tokens'[b] = tokens[b] - 1 /\ tokens[b] = Cardinality(Within(b))
      /\ \A d \in Batches : d # b => tokens'[d] = tokens[d]
  BY <1>1, <1>6 DEF BatchOK, Types, ServerTypeOK
<1>8. tokens'[b] = Cardinality(Within(b))' /\ tokens'[b] \in Nat
  BY <1>5, <1>7
<1>9. tokens' \in [Batches -> Nat]
  BY <1>1, <1>7, <1>8 DEF Types, ServerTypeOK
<1>10. Types'
  BY <1>1, <1>2, <1>3, <1>9 DEF Types, ServerTypeOK, fetchVars, adminVars
<1>11. BatchOK(b)'
  <2>1. batch[b].at # "returned"
    BY <1>1, <1>6 DEF BatchOK
  <2>2. batch[b].limit \in Nat /\ tokens[b] \in Nat
    BY DEF Types, ServerTypeOK
  <2>3. batch[b].at = "running" => tokens'[b] <= batch[b].limit
    BY <1>6, <1>7, <2>2 DEF BatchOK
  <2>4. \A j \in Indices(b) : worker'[b][j] \in {"leaving", "done"} => worker[b][j] \in {"leaving", "done"}
    BY <1>1, <1>2, <1>3
  <2> QED BY <1>1, <1>6, <1>8, <2>1, <2>3, <2>4 DEF BatchOK, Answer
<1> QED BY <1>1, <1>3, <1>7, <1>10, <1>11, OfOneBatch

LEMMA BatchReturnsStep ==
    ASSUME ServerInv, NEW b \in Batches, BatchReturns(b)
    PROVE  ServerInv'
<1> USE DEF ServerInv
<1>1. /\ \A i \in Indices(b) : worker[b][i] = "done"
      /\ batch' = [batch EXCEPT ![b].at = "returned"]
      /\ UNCHANGED <<fetchVars, adminVars, worker, tokens, responses, stats, finished>>
  BY DEF BatchReturns
<1>2. Types'
  BY <1>1 DEF Types, ServerTypeOK, fetchVars, adminVars
<1>3. /\ batch'[b].at = "returned"
      /\ \A d \in Batches : d # b => batch'[d] = batch[d]
  BY <1>1 DEF Types, ServerTypeOK
<1>4. BatchOK(b)'
  BY <1>1, <1>3 DEF BatchesOK, BatchOK, Within
<1> QED BY <1>1, <1>2, <1>3, <1>4, OfOneBatch

-----------------------------------------------------------------------------
(* Reading and resetting are two steps: what is counted in between only    *)
(* makes the reports smaller.                                              *)
LEMMA StatsSteps ==
    ASSUME ServerInv, ReadStats \/ ResetStats
    PROVE  ServerInv'
<1> USE DEF ServerInv
<1>1. UNCHANGED <<fetchVars, batchVars, connections, current, finished>>
  BY DEF ReadStats, ResetStats
<1>2. BatchesOK' /\ WindowOK' /\ Counting' = Counting
  BY <1>1, BatchesStay DEF WindowOK, Counting, fetchVars
<1>3. Cardinality(Counting) \in Nat
  BY FS_CardinalityType DEF CountsOK
<1>4. CASE ReadStats
  <2>1. Types'
    BY <1>1, <1>4 DEF ReadStats, Types, ServerTypeOK, fetchVars, batchVars
  <2>2. CountsOK'
    BY <1>1, <1>2, <1>4 DEF ReadStats, CountsOK, CountsAddUp, Types, ServerTypeOK
  <2> QED BY <1>2, <2>1, <2>2
<1>5. CASE ResetStats
  <2>1. Types'
    BY <1>1, <1>5 DEF ResetStats, Zero, Types, ServerTypeOK, fetchVars, batchVars
  <2>2. CountsOK'
    BY <1>1, <1>2, <1>3, <1>5 DEF ResetStats, Zero, CountsOK, CountsAddUp, Types, ServerTypeOK
  <2> QED BY <1>2, <2>1, <2>2
<1> QED BY <1>4, <1>5

LEMMA ConnectionSteps ==
    ASSUME ServerInv, NEW a \in Clients, RegisterConnection(a) \/ UnregisterConnection(a)
    PROVE  ServerInv'
<1> USE DEF ServerInv
<1>1. UNCHANGED <<fetchVars, batchVars, report, collected, resets, stats, finished>>
  BY DEF RegisterConnection, UnregisterConnection
<1>2. BatchesOK' /\ WindowOK' /\ Counting' = Counting
  BY <1>1, BatchesStay DEF WindowOK, Counting, fetchVars
<1>3. /\ connections' \subseteq Clients /\ current' \in Nat
      /\ IsFiniteSet(connections') /\ Cardinality(connections') <= current'
  <2>1. IsFiniteSet(connections) /\ Cardinality(connections) \in Nat
    BY FS_CardinalityType DEF CountsOK
  <2>2. Cardinality(connections) <= current /\ current \in Nat /\ connections \subseteq Clients
    BY DEF CountsOK, CountsAddUp, Types, ServerTypeOK
  <2>3. CASE RegisterConnection(a)
    <3>1. connections' = connections \cup {a} /\ current' = current + 1
      BY <2>3 DEF RegisterConnection
    <3>2. /\ IsFiniteSet(connections \cup {a})
          /\ Cardinality(connections \cup {a}) <= Cardinality(connections) + 1
      <4>1. IsFiniteSet(connections \cup {a})
        BY <2>1, FS_AddElement
      <4>2. \/ Cardinality(connections \cup {a}) = Cardinality(connections)
            \/ Cardinality(connections \cup {a}) = Cardinality(connections) + 1
        BY <2>1, FS_AddElement
      <4> QED BY <2>1, <4>1, <4>2
    <3> QED BY <2>1, <2>2, <3>1, <3>2, FS_CardinalityType
  <2>4. CASE UnregisterConnection(a)
    <3>1. /\ a \in connections /\ connections' = connections \ {a}
          /\ current' = IF current > 0 THEN current - 1 ELSE current
      BY <2>4 DEF UnregisterConnection
    <3>2. /\ IsFiniteSet(connections \ {a})
          /\ Cardinality(connections \ {a}) = Cardinality(connections) - 1
      BY <2>1, <3>1, FS_RemoveElement
    <3>3. Cardinality(connections \ {a}) \in Nat
      BY <3>2, FS_CardinalityType
    <3> QED BY <2>1, <2>2, <3>1, <3>2, <3>3
  <2> QED BY <2>3, <2>4
<1>4. Types'
  BY <1>1, <1>3 DEF Types, ServerTypeOK, fetchVars, batchVars
<1>5. CountsOK'
  BY <1>1, <1>2, <1>3 DEF CountsOK, CountsAddUp
<1> QED BY <1>2, <1>4, <1>5

-----------------------------------------------------------------------------
LEMMA ServerStep ==
    ASSUME ServerInv, [Next]_vars
    PROVE  ServerInv'
<1>1. CASE UNCHANGED vars
  <2> USE <1>1 DEF vars, fetchVars, batchVars, adminVars, ServerInv
  <2>1. Types'
    BY DEF Types, ServerTypeOK
  <2>2. BatchesOK'
    BY BatchesStay
  <2>3. CountsOK' /\ WindowOK'
    BY DEF CountsOK, CountsAddUp, Counting, WindowOK
  <2> QED BY <2>1, <2>2, <2>3
<1>2. ASSUME NEW c \in Calls, Fetching(c) PROVE ServerInv'
  <2>1. PICK u \in URLs : TRUE
    BY SomeURLs
  <2> QED BY <1>2, <2>1, SiteAnswersStep, FetchSteps, FetchReturnsStep DEF Fetching
<1>3. ASSUME NEW c \in Calls, NEW u \in URLs, FetchRepeats(c, u) \/ FetchBegins(c, u) PROVE ServerInv'
  BY <1>3, FetchSteps
<1>4. ASSUME NEW u \in URLs, Expire(u) PROVE ServerInv'
  BY <1>4, ExpireStep
<1>5. ASSUME NEW b \in Batches, BatchBegins(b) \/ BatchReturns(b) PROVE ServerInv'
  BY <1>5, BatchBeginsStep, BatchReturnsStep
<1>6. ASSUME NEW b \in Batches, NEW i \in Indices(b), Working(b, i) PROVE ServerInv'
  BY <1>6, AcquireStep, WorkerAnswersStep, LeaveStep DEF Working
<1>7. CASE ReadStats \/ ResetStats
  BY <1>7, StatsSteps
<1>8. ASSUME NEW a \in Clients, RegisterConnection(a) \/ UnregisterConnection(a) PROVE ServerInv'
  BY <1>8, ConnectionSteps
<1> QED BY <1>1, <1>2, <1>3, <1>4, <1>5, <1>6, <1>7, <1>8 DEF Next

(* The inductive invariant of the crawler service.                         *)
THEOREM ServerInvariant == Spec => []ServerInv
<1>1. ServerInv /\ [Next]_vars => ServerInv'
  BY ServerStep
<1> QED BY ServerInitial, <1>1, PTL DEF Spec

(* No batch exceeds its limit, and no token is lost (server.go:225).       *)
THEOREM LimitKept == Spec => []BatchWithinLimit
<1>1. ServerInv => BatchWithinLimit
  BY DEF ServerInv, BatchesOK, BatchOK, BatchWithinLimit
<1> QED BY <1>1, ServerInvariant, PTL

(* A batch that returns has every answer in its place (server.go:308).     *)
THEOREM AnswersInPlace == Spec => []BatchAnswersMatch
<1>1. ServerInv => BatchAnswersMatch
  BY DEF ServerInv, BatchesOK, BatchOK, BatchAnswersMatch, Answer
<1> QED BY <1>1, ServerInvariant, PTL

(* Statistics add up, through any number of resets (stats.go).             *)
THEOREM StatisticsAddUp == Spec => []CountsAddUp
<1>1. ServerInv => CountsAddUp
  BY DEF ServerInv, CountsOK
<1> QED BY <1>1, ServerInvariant, PTL

(* An answered URL is not fetched again in its window (server.go:99).      *)
THEOREM WindowRespected == Spec => RepeatsNotFetched
<1>1. ServerInv /\ [Next]_vars =>
         [\A c \in Calls, u \in URLs : FetchBegins(c, u) => ~(Dedupe /\ u \in answered)]_vars
  <2> SUFFICES ASSUME ServerInv, NEW c \in Calls, NEW u \in URLs, FetchBegins(c, u), Dedupe
               PROVE  u \notin answered
    OBVIOUS
  <2> QED BY DEF ServerInv, WindowOK, FetchBegins, Repeated
<1> QED BY <1>1, ServerInvariant, PTL DEF Spec, RepeatsNotFetched
-----------------------------------------------------------------------------
(* The service implements the ledger: every step on the statistics, by any *)
(* call, goroutine or reset, is one of the ledger, and no other step has   *)
(* anything to do with it.                                                 *)
Books == <<Cardinality(Counting), stats.success, stats.errors, collected,
           finished - Cardinality(Counting) - stats.total - collected>>

Booked == [Ledger!Next]_Books

LEMMA BooksStay ==
    ASSUME UNCHANGED <<stats, collected, finished>>, Counting' = Counting
    PROVE  Booked
BY DEF Booked, Books

LEMMA NumbersBooked ==
    ASSUME ServerInv
    PROVE  /\ Cardinality(Counting) \in Nat /\ IsFiniteSet(Counting)
           /\ stats \in [total : Nat, success : Nat, errors : Nat]
           /\ stats.total = stats.success + stats.errors
           /\ {finished, collected} \subseteq Nat
           /\ report.seen \in Nat /\ report.seen <= stats.total
BY FS_CardinalityType DEF ServerInv, CountsOK, CountsAddUp, Types, ServerTypeOK

(* A visit ends and waits to be counted.                                   *)
LEMMA EndBooked ==
    ASSUME ServerInv, NEW c \in Calls, SiteAnswers(c)
    PROVE  Booked
<1>1. /\ call[c].at = "fetching" /\ call \in [Calls -> CallType]
      /\ finished' = finished + 1 /\ UNCHANGED <<stats, collected>>
  BY DEF SiteAnswers, ServerInv, Types, ServerTypeOK, CallType, CallAts, CallResults, adminVars
<1>2. PICK r \in Outcomes : call' = [call EXCEPT ![c].at = "store", ![c].result = r]
  BY DEF SiteAnswers
<1>3. call'[c].at = "store" /\ \A d \in Calls : d # c => call'[d] = call[d]
  BY <1>1, <1>2, ResultAssigned DEF CallAts, CallResults
<1>4. Counting' = Counting \cup {c} /\ c \notin Counting
  BY <1>1, <1>3 DEF Counting
<1>5. Cardinality(Counting)' = Cardinality(Counting) + 1
  BY <1>4, NumbersBooked, FS_AddElement
<1>6. Ledger!End
  BY <1>1, <1>5, NumbersBooked DEF Ledger!End
<1> QED BY <1>6 DEF Booked, Ledger!Next

(* It is counted when its call returns ...                                 *)
LEMMA CountBooked ==
    ASSUME ServerInv, NEW c \in Calls, FetchReturns(c)
    PROVE  Booked
<1>1. /\ call[c].at = "count" /\ call' = [call EXCEPT ![c].at = "idle"]
      /\ stats' = Recorded(stats, call[c].result) /\ UNCHANGED <<finished, collected>>
  BY DEF FetchReturns, adminVars
<1>2. Counting' = Counting \ {c} /\ c \in Counting
  BY <1>1 DEF Counting, ServerInv, Types, ServerTypeOK
<1>3. Cardinality(Counting)' = Cardinality(Counting) - 1 /\ Cardinality(Counting) # 0
  BY <1>2, NumbersBooked, FS_RemoveElement, FS_EmptySet
<1>4. /\ stats'.total = stats.total + 1
      /\ \/ stats'.success = stats.success + 1 /\ stats'.errors = stats.errors
         \/ stats'.errors = stats.errors + 1 /\ stats'.success = stats.success
  BY <1>1, NumbersBooked DEF Recorded
<1>5. Ledger!CountPending
  BY <1>1, <1>3, <1>4, NumbersBooked DEF Ledger!CountPending, Ledger!Count
<1> QED BY <1>5 DEF Booked, Ledger!Next

(* ... or, in a batch, at once.                                            *)
LEMMA WorkerBooked ==
    ASSUME ServerInv, NEW b \in Batches, NEW i \in Indices(b), WorkerAnswers(b, i)
    PROVE  Booked
<1>1. PICK r \in Outcomes : stats' = Recorded(stats, r)
  BY DEF WorkerAnswers
<1>2. finished' = finished + 1 /\ UNCHANGED collected /\ Counting' = Counting
  BY DEF WorkerAnswers, adminVars, fetchVars, Counting
<1>3. /\ stats'.total = stats.total + 1
      /\ \/ stats'.success = stats.success + 1 /\ stats'.errors = stats.errors
         \/ stats'.errors = stats.errors + 1 /\ stats'.success = stats.success
  BY <1>1, NumbersBooked DEF Recorded
<1>4. Ledger!CountAtOnce
  BY <1>2, <1>3, NumbersBooked DEF Ledger!CountAtOnce, Ledger!Count
<1> QED BY <1>4 DEF Booked, Ledger!Next

(* A reset reports what was read, and misses the rest.                     *)
LEMMA ResetBooked ==
    ASSUME ServerInv, ResetStats
    PROVE  Booked
<1>1. /\ stats' = Zero /\ collected' = collected + report.seen
      /\ UNCHANGED finished /\ Counting' = Counting
  BY DEF ResetStats, fetchVars, Counting
<1>2. stats'.total = 0 /\ stats'.success = 0 /\ stats'.errors = 0
  BY <1>1 DEF Zero
<1>3. report.seen \in 0..(stats.success + stats.errors)
  BY NumbersBooked
<1>4. Ledger!Reset
  BY <1>1, <1>2, <1>3, NumbersBooked DEF Ledger!Reset
<1> QED BY <1>4 DEF Booked, Ledger!Next

LEMMA StepBooked == ServerInv /\ [Next]_vars => Booked
<1> SUFFICES ASSUME ServerInv, [Next]_vars PROVE Booked
  OBVIOUS
<1>1. CASE UNCHANGED vars
  BY <1>1, BooksStay DEF vars, adminVars, fetchVars, Counting
<1>2. ASSUME NEW c \in Calls, StoreRecent(c) PROVE Booked
  <2>1. Counting' = Counting
    BY <1>2 DEF StoreRecent, Counting, ServerInv, Types, ServerTypeOK
  <2> QED BY <1>2, <2>1, BooksStay DEF StoreRecent, adminVars
<1>3. ASSUME NEW c \in Calls, NEW u \in URLs, FetchRepeats(c, u) \/ FetchBegins(c, u) PROVE Booked
  <2>1. call \in [Calls -> CallType] /\ call[c].at = "idle"
    BY <1>3 DEF FetchRepeats, FetchBegins, ServerInv, Types, ServerTypeOK, CallType, CallAts, CallResults
  <2>2. call'[c].at \in {"idle", "fetching"} /\ \A d \in Calls : d # c => call'[d] = call[d]
    BY <1>3, <2>1, UrlAssigned DEF FetchRepeats, FetchBegins, CallAts
  <2>3. Counting' = Counting
    BY <2>1, <2>2 DEF Counting
  <2> QED BY <1>3, <2>3, BooksStay DEF FetchRepeats, FetchBegins, adminVars
<1>4. CASE \/ \E u \in URLs : Expire(u)
           \/ \E b \in Batches : \/ BatchBegins(b) \/ BatchReturns(b)
                                 \/ \E i \in Indices(b) : Acquire(b, i) \/ Leave(b, i)
           \/ ReadStats
           \/ \E a \in Clients : RegisterConnection(a) \/ UnregisterConnection(a)
  <2>1. UNCHANGED <<call, stats, collected, finished>>
    BY <1>4 DEF Expire, BatchBegins, BatchReturns, Acquire, Leave, ReadStats, RegisterConnection,
       UnregisterConnection, fetchVars, adminVars
  <2> QED BY <2>1, BooksStay DEF Counting
<1> QED BY <1>1, <1>2, <1>3, <1>4, EndBooked, CountBooked, WorkerBooked, ResetBooked
      DEF Next, Fetching, Working

(* Every visit that ends is counted once, and once it was reported or      *)
(* missed by a reset it never comes back (stats.go, admin_server.go:101).  *)
THEOREM LedgerKept == Spec => Ledger!Spec
<1>1. Init => Ledger!Init
  <2> SUFFICES ASSUME Init PROVE Ledger!Init
    OBVIOUS
  <2>1. Counting = {}
    BY DEF Init, Counting
  <2> QED BY <2>1, FS_EmptySet DEF Init, Zero, Ledger!Init
<1>2. ServerInv /\ [Next]_vars => [Ledger!Next]_Books
  BY StepBooked DEF Booked
<1> QED BY <1>1, <1>2, ServerInvariant, PTL DEF Spec, Ledger!Spec, Books
=============================================================================
