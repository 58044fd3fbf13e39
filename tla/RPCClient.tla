------------------------------ MODULE RPCClient ------------------------------
(***************************************************************************)
(* The client of a node (package client): NewQuicClient dials both address *)
(* families at once (quic_client.go), BatchFetch sends its requests over   *)
(* the connection from as many goroutines as allowed (client.go), and      *)
(* RetryExecutor repeats a function while it fails (retry.go).             *)
(*                                                                         *)
(* The executor takes any function; that of Client.Fetch fails with errors *)
(* of QUIC, which carry no gRPC code and are never in RetryableErrors.     *)
(***************************************************************************)
EXTENDS Integers, Sequences, FiniteSets

CONSTANTS
    Families,          \* those of the addresses found for the host, of "four"
                       \* and "six"; none for a literal or unknown address
    Requests,          \* how many requests a batch has
    Asked,             \* BatchFetchRequest.max_concurrent
    DefaultConcurrent, \* ... and what replaces it when not positive, 10
    Calls,             \* the calls of RetryExecutor.Execute
    Errors, RetryableErrors, MaxRetries, InitialDelay, MaxDelay, Multiplier

ASSUME FamiliesKnown == Families \subseteq {"four", "six"}
ASSUME BatchNumbers == Requests \in Nat /\ Asked \in Int /\ DefaultConcurrent \in Nat \ {0}
ASSUME RetryNumbers == {MaxRetries, InitialDelay, MaxDelay, Multiplier} \subseteq Nat
ASSUME RetryableAreErrors == RetryableErrors \subseteq Errors /\ "cancelled" \notin Errors

(* The addresses dialled at once: of each family, or the one given.        *)
Dialled == IF Families = {} THEN {"host"} ELSE Families

VARIABLES
    stage,             \* where NewQuicClient is: "unused", "start",
                       \* "waiting", in one of its three later dials,
                       \* "ready" or "failed"
    attempt,           \* its goroutines
    results,           \* the channel resCh
    received, noRoute, \* results taken from it; ip6Failed
    conn,              \* QuicClient.conn, named after the dial
    call,              \* the calls of Execute
    batch, tokens,     \* BatchFetch: its main goroutine, the length of sem
    worker, answers, responses

dialVars == <<stage, attempt, results, received, noRoute, conn>>
batchVars == <<batch, tokens, worker, answers, responses>>
vars == <<dialVars, call, batchVars>>

LaterDials == {"four", "force", "last"}

Indices == 1..Requests

Fresh == [at |-> "idle", retries |-> 0, delay |-> InitialDelay, error |-> "none"]

Init ==
    /\ stage = "unused" /\ conn = "none"
    /\ attempt = [a \in Dialled |-> "none"]
    /\ results = <<>> /\ received = 0 /\ noRoute = FALSE
    /\ call = [c \in Calls |-> Fresh]
    /\ batch = [at |-> "idle", sent |-> 0] /\ tokens = 0
    /\ worker = [i \in Indices |-> "none"] /\ answers = <<>> /\ responses = <<>>

-----------------------------------------------------------------------------
StartDials ==
    /\ stage = "start" /\ stage' = "waiting"
    /\ attempt' = [a \in Dialled |-> "dialling"]
    /\ UNCHANGED <<results, received, noRoute, conn, call, batchVars>>

(* A dial ends, also after NewQuicClient has returned and cancelled it.    *)
DialEnds(a) ==
    /\ attempt[a] = "dialling"
    /\ \E outcome \in {"open", "unreachable", "error"} :
          /\ attempt' = [attempt EXCEPT ![a] = outcome]
          /\ results' = Append(results, [addr |-> a, outcome |-> outcome])
    /\ UNCHANGED <<stage, received, noRoute, conn, call, batchVars>>

(* Mutant of ReceiveError: the other dial is not waited for.               *)
ReceiveErrorLast ==
    /\ stage = "waiting" /\ results # <<>> /\ Head(results).outcome # "open"
    /\ results' = Tail(results) /\ received' = received + 1
    /\ stage' = "last"
    /\ UNCHANGED <<noRoute, attempt, conn, call, batchVars>>

ReceiveConnection ==
    /\ stage = "waiting" /\ results # <<>> /\ Head(results).outcome = "open"
    /\ results' = Tail(results)
    /\ conn' = Head(results).addr /\ stage' = "ready"
    /\ UNCHANGED <<attempt, received, noRoute, call, batchVars>>

(* Any unreachable address is taken for the IPv6 one if there is one: IPv4 *)
(* is dialled again, while the first dial of it may still be under way.    *)
ReceiveError ==
    /\ stage = "waiting" /\ results # <<>> /\ Head(results).outcome # "open"
    /\ results' = Tail(results) /\ received' = received + 1
    /\ LET unreachable == Head(results).outcome = "unreachable" /\ "six" \in Families
       IN  /\ noRoute' = (noRoute \/ unreachable)
           /\ stage' = IF unreachable /\ "four" \in Families THEN "four" ELSE stage
    /\ UNCHANGED <<attempt, conn, call, batchVars>>

AllReceived ==
    /\ stage = "waiting" /\ received = Cardinality(Dialled)
    /\ stage' = IF noRoute /\ "four" \in Families THEN "force" ELSE "last"
    /\ UNCHANGED <<attempt, results, received, noRoute, conn, call, batchVars>>

(* The dials NewQuicClient waits for itself: IPv4 once more, on the way    *)
(* and after all have failed, and at last the address it preferred.        *)
LaterDial ==
    /\ stage \in LaterDials
    /\ \/ conn' = stage /\ stage' = "ready"
       \/ /\ stage' = CASE stage = "four"  -> "waiting"
                        [] stage = "force" -> "last"
                        [] stage = "last"  -> "failed"
          /\ UNCHANGED conn
    /\ UNCHANGED <<attempt, results, received, noRoute, call, batchVars>>

(* The program makes a client, again after a failure.                      *)
NewClient ==
    /\ stage \in {"unused", "failed"} /\ stage' = "start"
    /\ attempt' = [a \in Dialled |-> "none"]
    /\ results' = <<>> /\ received' = 0 /\ noRoute' = FALSE
    /\ UNCHANGED <<conn, call, batchVars>>

-----------------------------------------------------------------------------
NextDelay(d) == IF d * Multiplier > MaxDelay THEN MaxDelay ELSE d * Multiplier

(* The executor is made once there is a connection (NewClient).            *)
Execute(c) ==
    /\ stage = "ready" /\ call[c].at \in {"idle", "returned"}
    /\ call' = [call EXCEPT ![c] = [Fresh EXCEPT !.at = "running"]]
    /\ UNCHANGED <<dialVars, batchVars>>

Succeeds(c) ==
    /\ call[c].at = "running"
    /\ call' = [call EXCEPT ![c].at = "returned", ![c].error = "none"]
    /\ UNCHANGED <<dialVars, batchVars>>

(* Mutant of Fails: the last attempt is not made.                          *)
FailsEarly(c) ==
    /\ call[c].at = "running"
    /\ \E e \in Errors :
          call' = [call EXCEPT ![c].error = e,
                      ![c].at = IF e \in RetryableErrors /\ call[c].retries + 1 < MaxRetries
                                THEN "waiting" ELSE "returned"]
    /\ UNCHANGED <<dialVars, batchVars>>

Fails(c) ==
    /\ call[c].at = "running"
    /\ \E e \in Errors :
          call' = [call EXCEPT ![c].error = e,
                      ![c].at = IF e \in RetryableErrors /\ call[c].retries < MaxRetries
                                THEN "waiting" ELSE "returned"]
    /\ UNCHANGED <<dialVars, batchVars>>

WaitEnds(c) ==
    /\ call[c].at = "waiting"
    /\ call' = [call EXCEPT ![c].at = "running", ![c].retries = @ + 1, ![c].delay = NextDelay(@)]
    /\ UNCHANGED <<dialVars, batchVars>>

(* The context ends while the executor waits.                              *)
WaitCancelled(c) ==
    /\ call[c].at = "waiting"
    /\ call' = [call EXCEPT ![c].at = "returned", ![c].error = "cancelled"]
    /\ UNCHANGED <<dialVars, batchVars>>

-----------------------------------------------------------------------------
(* BatchFetch.  Its channels are its own: a goroutine of the last batch    *)
(* that still has to leave does not concern this one.                      *)
Limit == IF Asked > 0 THEN Asked ELSE DefaultConcurrent

BatchBegins ==
    /\ stage = "ready" /\ batch.at \in {"idle", "returned"}
    /\ batch' = [at |-> "sending", sent |-> 0] /\ tokens' = 0
    /\ worker' = [i \in Indices |-> "none"] /\ answers' = <<>> /\ responses' = <<>>
    /\ UNCHANGED <<dialVars, call>>

(* A token is taken before the goroutine of the request is started.        *)
Send ==
    /\ batch.at = "sending" /\ batch.sent < Requests /\ tokens < Limit
    /\ tokens' = tokens + 1
    /\ batch' = [batch EXCEPT !.sent = @ + 1]
    /\ worker' = [worker EXCEPT ![batch.sent + 1] = "fetching"]
    /\ UNCHANGED <<dialVars, call, answers, responses>>

AllSent ==
    /\ batch.at = "sending" /\ batch.sent = Requests
    /\ batch' = [batch EXCEPT !.at = "collecting"]
    /\ UNCHANGED <<dialVars, call, tokens, worker, answers, responses>>

(* Mutants of WorkerAnswers: the goroutines share the variable of the      *)
(* loop; a failure is not sent.                                            *)
WorkerAnswersShared(i) ==
    /\ worker[i] = "fetching"
    /\ worker' = [worker EXCEPT ![i] = "leaving"]
    /\ \E ok \in BOOLEAN : answers' = Append(answers, [req |-> batch.sent, ok |-> ok])
    /\ UNCHANGED <<dialVars, call, batch, tokens, responses>>

WorkerAnswersOnce(i) ==
    /\ worker[i] = "fetching"
    /\ worker' = [worker EXCEPT ![i] = "leaving"]
    /\ \E ok \in BOOLEAN : answers' = IF ok THEN Append(answers, [req |-> i, ok |-> ok]) ELSE answers
    /\ UNCHANGED <<dialVars, call, batch, tokens, responses>>

(* A request fails or is answered; the response of a failed one is nil.    *)
WorkerAnswers(i) ==
    /\ worker[i] = "fetching"
    /\ worker' = [worker EXCEPT ![i] = "leaving"]
    /\ \E ok \in BOOLEAN : answers' = Append(answers, [req |-> i, ok |-> ok])
    /\ UNCHANGED <<dialVars, call, batch, tokens, responses>>

WorkerLeaves(i) ==
    /\ worker[i] = "leaving"
    /\ worker' = [worker EXCEPT ![i] = "done"] /\ tokens' = tokens - 1
    /\ UNCHANGED <<dialVars, call, batch, answers, responses>>

Collect ==
    /\ batch.at = "collecting" /\ answers # <<>> /\ Len(responses) < Requests
    /\ responses' = Append(responses, Head(answers)) /\ answers' = Tail(answers)
    /\ UNCHANGED <<dialVars, call, batch, tokens, worker>>

BatchReturns ==
    /\ batch.at = "collecting" /\ Len(responses) = Requests
    /\ batch' = [batch EXCEPT !.at = "returned"]
    /\ UNCHANGED <<dialVars, call, tokens, worker, answers, responses>>

-----------------------------------------------------------------------------
Dialling == StartDials \/ ReceiveConnection \/ ReceiveError \/ AllReceived \/ LaterDial

Executing(c) == Succeeds(c) \/ Fails(c) \/ WaitEnds(c) \/ WaitCancelled(c)

Batching == Send \/ AllSent \/ Collect \/ BatchReturns

Working(i) == WorkerAnswers(i) \/ WorkerLeaves(i)

Next ==
    \/ Dialling \/ NewClient \/ \E a \in Dialled : DialEnds(a)
    \/ \E c \in Calls : Execute(c) \/ Executing(c)
    \/ BatchBegins \/ Batching \/ \E i \in Indices : Working(i)

(* Dials and waits have timeouts, goroutines run, and the server answers   *)
(* every request or closes the connection.                                 *)
Scheduling ==
    /\ WF_vars(Dialling) /\ \A a \in Dialled : WF_vars(DialEnds(a))
    /\ \A c \in Calls : WF_vars(Executing(c))
    /\ WF_vars(Batching) /\ \A i \in Indices : WF_vars(Working(i))

Spec == Init /\ [][Next]_vars /\ Scheduling

-----------------------------------------------------------------------------
Answers == [req : Indices, ok : BOOLEAN]

ClientTypeOK ==
    /\ stage \in {"unused", "start", "waiting", "ready", "failed"} \cup LaterDials
    /\ attempt \in [Dialled -> {"none", "dialling", "open", "unreachable", "error"}]
    /\ received \in 0..Cardinality(Dialled) /\ noRoute \in BOOLEAN
    /\ conn \in Dialled \cup LaterDials \cup {"none"}
    /\ call \in [Calls -> [at : {"idle", "running", "waiting", "returned"},
                           retries : 0..MaxRetries,
                           delay : 0..MaxDelay \cup {InitialDelay},
                           error : Errors \cup {"none", "cancelled"}]]
    /\ batch \in [at : {"idle", "sending", "collecting", "returned"}, sent : 0..Requests]
    /\ tokens \in 0..Limit
    /\ worker \in [Indices -> {"none", "fetching", "leaving", "done"}]

(* NewQuicClient gives up only when every address it has found has failed, *)
(* and it then has no connection ("非IPv6路由错误，记录错误但继续等待其他   *)
(* 连接结果", quic_client.go:197).                                          *)
GivesUpLast ==
    stage = "failed" =>
        conn = "none" /\ \A a \in Dialled : attempt[a] \in {"unreachable", "error"}

(* When BatchFetch returns, each request has one response among its        *)
(* responses, in whatever order the answers came, one that failed too.     *)
BatchComplete ==
    batch.at = "returned" =>
        Len(responses) = Requests /\ {responses[k].req : k \in DOMAIN responses} = Indices

(* A call of Execute ends without a success only for an error not to be    *)
(* retried, for its context, or when all its attempts are used up          *)
(* ("请求失败时的最大重试次数", retry.go:17).                               *)
UsesAllRetries ==
    [][\A c \in Calls :
          (call[c].at # "returned" /\ call'[c].at = "returned" /\ call'[c].error # "none") =>
              \/ call'[c].error \notin RetryableErrors
              \/ call[c].retries = MaxRetries]_vars

(* Dialling, retrying and a batch come to an end, whatever fails.          *)
EveryUseEnds ==
    /\ stage = "start" ~> stage \in {"ready", "failed"}
    /\ \A c \in Calls : call[c].at = "running" ~> call[c].at = "returned"
    /\ batch.at = "sending" ~> batch.at = "returned"
=============================================================================
