---------------------------- MODULE CrawlerServer ----------------------------
(***************************************************************************)
(* The crawler service and its statistics: Fetch and BatchFetch of         *)
(* server/server.go, StatsCollector of server/stats.go, and of the admin   *)
(* service what touches them (server/admin_server.go).                     *)
(*                                                                         *)
(* What happens inside UTLSClient.Fetch is the matter of FetchPath; here   *)
(* it ends with an answer or an error.  It never sets the field Error of   *)
(* an answer, so "response_error" does not occur.                          *)
(***************************************************************************)
EXTENDS Integers, Sequences, FiniteSets

CONSTANTS
    URLs,
    Calls,             \* the calls of Fetch that run at once
    Batches,           \* the calls of BatchFetch that run at once
    Requests,          \* the URLs of each batch
    Asked,             \* BatchFetchRequest.max_concurrent of each batch
    Configured,        \* crawler.max_concurrent_requests
    Drawn,             \* what getRandomConcurrency returns, 5..8 in the code
    Dedupe,            \* crawler.dedupe_window is positive
    Clients,           \* addresses of connections that get registered
    MaxFetches,        \* bound: calls and batches begun
    MaxResets,         \* bound: statistics read and reset
    MaxRegistered      \* bound: connections counted

ASSUME SomeURLs == URLs # {}
ASSUME RequestsAreURLs == Requests \in [Batches -> Seq(URLs)]
ASSUME LimitsAreNumbers == Asked \in [Batches -> Int] /\ Configured \in Int
ASSUME SomeIsDrawn == Drawn \subseteq Nat \ {0} /\ Drawn # {}
ASSUME ServerBounds == Dedupe \in BOOLEAN /\ {MaxFetches, MaxResets, MaxRegistered} \subseteq Nat

VARIABLES
    recent,            \* the URLs in CrawlerServer.recent, in their window
    call,              \* the calls of Fetch
    batch,             \* the calls of BatchFetch: where, and with which limit
    worker,            \* their goroutines, one per request
    tokens,            \* the length of the channel semaphore
    responses,         \* the answers of a batch, a set of one or, for nil, none
    stats,
    connections,       \* AdminServer.connections
    current,           \* StatsCollector.currentConnections
    report,            \* AdminServer.GetStats, between reading and resetting
    begun, finished,   \* calls and batches begun, visits to a site that ended
    collected, resets, \* requests in the statistics reported and reset
    answered           \* history: the URLs answered in their window

fetchVars == <<recent, call, answered>>
batchVars == <<batch, worker, tokens, responses>>
adminVars == <<connections, current, report, collected, resets>>
vars == <<fetchVars, batchVars, adminVars, stats, begun, finished>>

Outcomes == {"ok", "fetch_error"}

Indices(b) == 1..Len(Requests[b])

Zero == [total |-> 0, success |-> 0, errors |-> 0]

Init ==
    /\ recent = {} /\ answered = {}
    /\ call \in [Calls -> [at : {"idle"}, url : {CHOOSE u \in URLs : TRUE}, result : {"ok"}]]
    /\ batch = [b \in Batches |-> [at |-> "idle", limit |-> 0]]
    /\ worker = [b \in Batches |-> [i \in Indices(b) |-> "waiting"]]
    /\ tokens = [b \in Batches |-> 0]
    /\ responses = [b \in Batches |-> [i \in Indices(b) |-> {}]]
    /\ stats = Zero
    /\ connections = {} /\ current = 0
    /\ report = [at |-> "idle", seen |-> 0]
    /\ begun = 0 /\ finished = 0 /\ collected = 0 /\ resets = 0

(* RecordRequest.                                                          *)
Recorded(s, result) ==
    [total   |-> s.total + 1,
     success |-> s.success + (IF result = "ok" THEN 1 ELSE 0),
     errors  |-> s.errors + (IF result = "ok" THEN 0 ELSE 1)]

-----------------------------------------------------------------------------
(* Fetch.  A repeat in the window is answered with 204.                    *)
Repeated(u) == Dedupe /\ u \in recent

FetchRepeats(c, u) ==
    /\ call[c].at = "idle" /\ begun < MaxFetches
    /\ Repeated(u)
    /\ begun' = begun + 1
    /\ call' = [call EXCEPT ![c] = [at |-> "idle", url |-> u, result |-> "dedup"]]
    /\ UNCHANGED <<recent, answered, batchVars, adminVars, stats, finished>>

FetchBegins(c, u) ==
    /\ call[c].at = "idle" /\ begun < MaxFetches
    /\ ~Repeated(u)
    /\ begun' = begun + 1
    /\ call' = [call EXCEPT ![c].at = "fetching", ![c].url = u]
    /\ UNCHANGED <<recent, answered, batchVars, adminVars, stats, finished>>

SiteAnswers(c) ==
    /\ call[c].at = "fetching"
    /\ \E r \in Outcomes : call' = [call EXCEPT ![c].at = "store", ![c].result = r]
    /\ finished' = finished + 1
    /\ UNCHANGED <<recent, answered, batchVars, adminVars, stats, begun>>

(* Mutant of StoreRecent: errors are kept instead of answers.              *)
StoreErrors(c) ==
    /\ call[c].at = "store"
    /\ recent' = IF Dedupe /\ call[c].result # "ok" THEN recent \cup {call[c].url} ELSE recent
    /\ call' = [call EXCEPT ![c].at = "count"]
    /\ UNCHANGED <<answered, batchVars, adminVars, stats, begun, finished>>

StoreRecent(c) ==
    /\ call[c].at = "store"
    /\ recent' = IF Dedupe /\ call[c].result = "ok" THEN recent \cup {call[c].url} ELSE recent
    /\ call' = [call EXCEPT ![c].at = "count"]
    /\ UNCHANGED <<answered, batchVars, adminVars, stats, begun, finished>>

FetchReturns(c) ==
    /\ call[c].at = "count"
    /\ stats' = Recorded(stats, call[c].result)
    /\ call' = [call EXCEPT ![c].at = "idle"]
    /\ answered' = IF call[c].result = "ok" THEN answered \cup {call[c].url} ELSE answered
    /\ UNCHANGED <<recent, batchVars, adminVars, begun, finished>>

(* The window of a URL ends.  It is longer than the moment between storing *)
(* the URL and returning.                                                  *)
Expire(u) ==
    /\ u \in recent
    /\ \A c \in Calls : ~(call[c].at = "count" /\ call[c].url = u)
    /\ recent' = recent \ {u} /\ answered' = answered \ {u}
    /\ UNCHANGED <<call, batchVars, adminVars, stats, begun, finished>>

-----------------------------------------------------------------------------
(* Mutant of Limits: nothing is drawn, and the channel holds no token.     *)
LimitsUnset(b) == IF Asked[b] > 0 THEN {Asked[b]} ELSE {Configured}

(* BatchFetch.  The limit is the caller's, else the configured one, else   *)
(* drawn.                                                                  *)
Limits(b) ==
    IF Asked[b] > 0 THEN {Asked[b]} ELSE IF Configured > 0 THEN {Configured} ELSE Drawn

BatchBegins(b) ==
    /\ batch[b].at \in {"idle", "returned"} /\ begun < MaxFetches
    /\ begun' = begun + 1
    /\ \E l \in Limits(b) : batch' = [batch EXCEPT ![b] = [at |-> "running", limit |-> l]]
    /\ worker' = [worker EXCEPT ![b] = [i \in Indices(b) |-> "waiting"]]
    /\ tokens' = [tokens EXCEPT ![b] = 0]
    /\ responses' = [responses EXCEPT ![b] = [i \in Indices(b) |-> {}]]
    /\ UNCHANGED <<fetchVars, adminVars, stats, finished>>

(* Mutant of Acquire: the channel holds one token more.                    *)
AcquireOneMore(b, i) ==
    /\ batch[b].at = "running" /\ worker[b][i] = "waiting"
    /\ tokens[b] <= batch[b].limit
    /\ tokens' = [tokens EXCEPT ![b] = @ + 1]
    /\ worker' = [worker EXCEPT ![b][i] = "fetching"]
    /\ UNCHANGED <<fetchVars, adminVars, batch, responses, stats, begun, finished>>

Acquire(b, i) ==
    /\ batch[b].at = "running" /\ worker[b][i] = "waiting"
    /\ tokens[b] < batch[b].limit
    /\ tokens' = [tokens EXCEPT ![b] = @ + 1]
    /\ worker' = [worker EXCEPT ![b][i] = "fetching"]
    /\ UNCHANGED <<fetchVars, adminVars, batch, responses, stats, begun, finished>>

(* Mutant of WorkerAnswers: the goroutines share one index, that of the    *)
(* last request.                                                           *)
WorkerAnswersLast(b, i) ==
    /\ worker[b][i] = "fetching"
    /\ \E r \in Outcomes :
          /\ stats' = Recorded(stats, r)
          /\ responses' = [responses EXCEPT ![b][Len(Requests[b])] = {[url |-> Requests[b][i], result |-> r]}]
    /\ worker' = [worker EXCEPT ![b][i] = "leaving"]
    /\ finished' = finished + 1
    /\ UNCHANGED <<fetchVars, adminVars, batch, tokens, begun>>

(* The site has answered; the request is counted and its answer put in its *)
(* place under the lock of the batch.                                      *)
WorkerAnswers(b, i) ==
    /\ worker[b][i] = "fetching"
    /\ \E r \in Outcomes :
          /\ stats' = Recorded(stats, r)
          /\ responses' = [responses EXCEPT ![b][i] = {[url |-> Requests[b][i], result |-> r]}]
    /\ worker' = [worker EXCEPT ![b][i] = "leaving"]
    /\ finished' = finished + 1
    /\ UNCHANGED <<fetchVars, adminVars, batch, tokens, begun>>

(* The deferred calls of the goroutine.                                    *)
Leave(b, i) ==
    /\ worker[b][i] = "leaving"
    /\ tokens' = [tokens EXCEPT ![b] = @ - 1]
    /\ worker' = [worker EXCEPT ![b][i] = "done"]
    /\ UNCHANGED <<fetchVars, adminVars, batch, responses, stats, begun, finished>>

BatchReturns(b) ==
    /\ batch[b].at = "running"
    /\ \A i \in Indices(b) : worker[b][i] = "done"
    /\ batch' = [batch EXCEPT ![b].at = "returned"]
    /\ UNCHANGED <<fetchVars, adminVars, worker, tokens, responses, stats, begun, finished>>

-----------------------------------------------------------------------------
(* GetStats of the admin service with reset.  What is counted between its  *)
(* two steps is in no report.                                              *)
ReadStats ==
    /\ report.at = "idle" /\ resets < MaxResets
    /\ report' = [at |-> "reset", seen |-> stats.total]
    /\ UNCHANGED <<fetchVars, batchVars, connections, current, collected, resets, stats, begun, finished>>

(* Mutant of ResetStats: the open connections are forgotten as well.       *)
ResetAll ==
    /\ report.at = "reset"
    /\ report' = [at |-> "idle", seen |-> 0]
    /\ stats' = Zero /\ current' = 0
    /\ collected' = collected + report.seen /\ resets' = resets + 1
    /\ UNCHANGED <<fetchVars, batchVars, connections, begun, finished>>

ResetStats ==
    /\ report.at = "reset"
    /\ report' = [at |-> "idle", seen |-> 0]
    /\ stats' = Zero
    /\ collected' = collected + report.seen /\ resets' = resets + 1
    /\ UNCHANGED <<fetchVars, batchVars, connections, current, begun, finished>>

(* An address registered twice is counted twice and unregistered once.     *)
RegisterConnection(a) ==
    /\ current < MaxRegistered
    /\ connections' = connections \cup {a}
    /\ current' = current + 1
    /\ UNCHANGED <<fetchVars, batchVars, report, collected, resets, stats, begun, finished>>

UnregisterConnection(a) ==
    /\ a \in connections
    /\ connections' = connections \ {a}
    /\ current' = IF current > 0 THEN current - 1 ELSE current
    /\ UNCHANGED <<fetchVars, batchVars, report, collected, resets, stats, begun, finished>>

Fetching(c) == SiteAnswers(c) \/ StoreRecent(c) \/ FetchReturns(c)

Working(b, i) == Acquire(b, i) \/ WorkerAnswers(b, i) \/ Leave(b, i)

Next ==
    \/ \E c \in Calls : Fetching(c) \/ \E u \in URLs : FetchRepeats(c, u) \/ FetchBegins(c, u)
    \/ \E u \in URLs : Expire(u)
    \/ \E b \in Batches : BatchBegins(b) \/ BatchReturns(b) \/ \E i \in Indices(b) : Working(b, i)
    \/ ReadStats \/ ResetStats
    \/ \E a \in Clients : RegisterConnection(a) \/ UnregisterConnection(a)

(* Goroutines run, and every fetch has a timeout.                          *)
Spec ==
    /\ Init /\ [][Next]_vars
    /\ \A c \in Calls : WF_vars(Fetching(c))
    /\ \A b \in Batches :
          /\ WF_vars(BatchReturns(b))
          /\ \A i \in Indices(b) : WF_vars(Working(b, i))

-----------------------------------------------------------------------------
Answers == [url : URLs, result : Outcomes]

ServerTypeOK ==
    /\ recent \subseteq URLs /\ answered \subseteq URLs
    /\ call \in [Calls -> [at : {"idle", "fetching", "store", "count"}, url : URLs,
                           result : Outcomes \cup {"dedup"}]]
    /\ batch \in [Batches -> [at : {"idle", "running", "returned"}, limit : Nat]]
    /\ \A b \in Batches :
          /\ worker[b] \in [Indices(b) -> {"waiting", "fetching", "leaving", "done"}]
          /\ responses[b] \in [Indices(b) -> SUBSET Answers]
    /\ tokens \in [Batches -> Nat]
    /\ stats \in [total : Nat, success : Nat, errors : Nat]
    /\ connections \subseteq Clients /\ current \in Nat
    /\ report \in [at : {"idle", "reset"}, seen : Nat]

Within(b) == {i \in Indices(b) : worker[b][i] \in {"fetching", "leaving"}}

(* A batch never has more fetches under way than its limit ("使用buffered  *)
(* channel作为信号量，限制同时运行的goroutine数量", server.go:225), and       *)
(* every token belongs to one of them.                                     *)
BatchWithinLimit ==
    \A b \in Batches : batch[b].at = "running" =>
        /\ tokens[b] = Cardinality(Within(b))
        /\ tokens[b] <= batch[b].limit

(* When a batch returns, every request has the answer to itself in its own *)
(* place, in whatever order the sites answered (server_test.go:119).       *)
BatchAnswersMatch ==
    \A b \in Batches : batch[b].at = "returned" =>
        \A i \in Indices(b) :
            \E r \in Outcomes : responses[b][i] = {[url |-> Requests[b][i], result |-> r]}

(* Once Fetch has answered a URL, no call that begins in its window visits *)
(* the site again, whatever calls overlap (server.go:99).                  *)
RepeatsNotFetched ==
    [][\A c \in Calls, u \in URLs :
          FetchBegins(c, u) => ~(Dedupe /\ u \in answered)]_vars

Counting == {c \in Calls : call[c].at \in {"store", "count"}}

(* The statistics are of whole requests, each counted once: reset or not,  *)
(* reports and counters never add up to more than was fetched, nor to less *)
(* before the first reset; and a reset forgets no registered connection.   *)
CountsAddUp ==
    /\ stats.total = stats.success + stats.errors
    /\ stats.total + collected + Cardinality(Counting) <= finished
    /\ resets = 0 => stats.total + Cardinality(Counting) = finished
    /\ Cardinality(connections) <= current

(* Requests are counted, reported and reset as in a ledger: what is in no  *)
(* report was missed between reading and resetting.                        *)
Ledger == INSTANCE RequestLedger
    WITH pending <- Cardinality(Counting), success <- stats.success, errors <- stats.errors,
         reported <- collected,
         missed <- finished - Cardinality(Counting) - stats.total - collected

(* Every call and every batch returns: no goroutine waits for a token that *)
(* is not given back.                                                      *)
EveryCallAnswered ==
    /\ \A c \in Calls : call[c].at = "fetching" ~> call[c].at = "idle"
    /\ \A b \in Batches : batch[b].at = "running" ~> batch[b].at = "returned"
=============================================================================
