----------------------------- MODULE SourcePool -----------------------------
(***************************************************************************)
(* The addresses of this node that requests leave from (proxy/ipv6_pool.go *)
(* and the end of UTLSClient.Fetch): a list found on the system again each *)
(* minute, a rotation over its healthy addresses, and what is recorded of  *)
(* each for its health.  Dials take addresses from the same rotation.      *)
(*                                                                         *)
(* An address without an entry in stats has one that counts nothing: the   *)
(* two differ in GetStats alone.  Successes and 429s are counted among the *)
(* requests only, since nothing reads them but GetStats.                   *)
(* turns, the last addresses drawn, and denials, the 403s each request was *)
(* charged with, are history variables.                                    *)
(***************************************************************************)
EXTENDS Integers, Sequences, SequencesExt

CONSTANTS
    Sources, Listings, \* local addresses, what discovery may list
    Requests,          \* fetches at once
    BanAfter,          \* 403s that exclude an address, 5
    FewRequests,       \* requests up to which failures do not, 20
    MaxFailures,       \* percentage of failures that does not, 30
    MaxRequests,       \* bound of the requests recorded of an address
    NoSource

ASSUME ListedOnce == \A l \in Listings : l \in Seq(Sources) /\ IsInjective(l)
ASSUME PoolNumbers == {BanAfter, FewRequests, MaxFailures, MaxRequests} \subseteq Nat
ASSUME NoSourceIsNone == NoSource \notin Sources

VARIABLES
    addresses,         \* IPv6Pool.addresses
    stats,             \* IPv6Pool.stats
    currentIndex,      \* IPv6Pool.currentIndex
    request,           \* where each fetch is and usedIPv6Source
    turns, denials

statVars == <<addresses, stats>>
poolVars == <<addresses, stats, currentIndex, turns, denials>>
sourceVars == <<poolVars, request>>

Unused == [total |-> 0, failed |-> 0, denied |-> 0]

IdleRequest == [at |-> "idle", source |-> NoSource]

SourceInit ==
    /\ addresses \in Listings
    /\ stats = [s \in Sources |-> Unused]
    /\ currentIndex = 0
    /\ request = [r \in Requests |-> IdleRequest]
    /\ turns = <<>> /\ denials = [s \in Sources |-> 0]

-----------------------------------------------------------------------------
Healthy(s) ==
    /\ stats[s].denied < BanAfter
    /\ \/ stats[s].total <= FewRequests
       \/ 100 * stats[s].failed <= MaxFailures * stats[s].total

(* The healthy ones of the first k addresses.                              *)
HealthyAddresses[k \in 0..Len(addresses)] ==
    IF k = 0
    THEN <<>>
    ELSE IF Healthy(addresses[k])
         THEN Append(HealthyAddresses[k - 1], addresses[k])
         ELSE HealthyAddresses[k - 1]

(* All addresses are used when none is healthy.                            *)
InUse ==
    LET healthy == HealthyAddresses[Len(addresses)]
    IN  IF healthy = <<>> THEN addresses ELSE healthy

(* The draws since the addresses in use changed, of one round at most.     *)
Remember(drawn) ==
    LET all == IF InUse' = InUse THEN turns \o drawn ELSE <<>>
        n == Len(InUse)
    IN  turns' = IF Len(all) > n THEN SubSeq(all, Len(all) - n + 1, Len(all)) ELSE all

(* Mutant of GetHealthyNext: the index goes round all addresses.           *)
GetHealthyNextOfAll(s) ==
    /\ UNCHANGED <<statVars, denials>>
    /\ IF InUse = <<>>
       THEN s = NoSource /\ UNCHANGED <<currentIndex, turns>>
       ELSE /\ s = InUse[(currentIndex % Len(InUse)) + 1]
            /\ currentIndex' = (currentIndex + 1) % Len(addresses)
            /\ Remember(<<s>>)

GetHealthyNext(s) ==
    /\ UNCHANGED <<statVars, denials>>
    /\ IF InUse = <<>>
       THEN s = NoSource /\ UNCHANGED <<currentIndex, turns>>
       ELSE /\ s = InUse[(currentIndex % Len(InUse)) + 1]
            /\ currentIndex' = (currentIndex + 1) % Len(InUse)
            /\ Remember(<<s>>)

(* What the system lists at the moment: global unicast addresses, each     *)
(* once.                                                                   *)
DiscoverIPv6LocalAddrs == addresses' \in Listings

(* Mutant of Refresh: the statistics start again.                          *)
RefreshForgets ==
    /\ DiscoverIPv6LocalAddrs
    /\ stats' = [s \in Sources |-> Unused]
    /\ denials' = [s \in Sources |-> IF s \in ToSet(addresses') THEN denials[s] ELSE 0]
    /\ currentIndex' = IF currentIndex >= Len(addresses') THEN 0 ELSE currentIndex
    /\ Remember(<<>>)
    /\ UNCHANGED request

(* Every minute: addresses still listed keep their statistics.             *)
Refresh ==
    /\ DiscoverIPv6LocalAddrs
    /\ stats' = [s \in Sources |-> IF s \in ToSet(addresses') THEN stats[s] ELSE Unused]
    /\ denials' = [s \in Sources |-> IF s \in ToSet(addresses') THEN denials[s] ELSE 0]
    /\ currentIndex' = IF currentIndex >= Len(addresses') THEN 0 ELSE currentIndex
    /\ Remember(<<>>)
    /\ UNCHANGED request

(* dialUTLS, for any fetch, race or prewarming, takes a turn of its own.   *)
Dial ==
    /\ \E s \in Sources \cup {NoSource} : GetHealthyNext(s)
    /\ UNCHANGED request

-----------------------------------------------------------------------------
(* RecordSuccess, RecordError403, RecordError429 and RecordFailure, also   *)
(* of an address no longer listed.                                         *)
Record(s, outcome) ==
    /\ UNCHANGED <<addresses, currentIndex>>
    /\ IF s = NoSource
       THEN UNCHANGED <<stats, turns, denials>>
       ELSE /\ stats' = [stats EXCEPT
                  ![s].total = @ + 1,
                  ![s].failed = IF outcome = "failed" THEN @ + 1 ELSE @,
                  ![s].denied = IF outcome = "denied" THEN @ + 1 ELSE @]
            /\ denials' = [denials EXCEPT ![s] = IF outcome = "denied" THEN @ + 1 ELSE @]
            /\ Remember(<<>>)

UnderWay == {r \in Requests : request[r] # IdleRequest}

(* A fetch takes the address it will charge, unless its target is an IPv4  *)
(* one and no IPv6 source is forced.                                       *)
Begin(r) ==
    /\ request[r] = IdleRequest
    /\ \A s \in Sources : stats[s].total + Cardinality(UnderWay) < MaxRequests
    /\ \/ /\ \E s \in Sources \cup {NoSource} :
                GetHealthyNext(s) /\ request' = [request EXCEPT ![r] = [at |-> "h2", source |-> s]]
       \/ request' = [request EXCEPT ![r].at = "h2"] /\ UNCHANGED poolVars

(* An answer to any of the three attempts: 403 is a denial, other statuses *)
(* of 400 and more but 429 are failures.                                   *)
Answered(r) ==
    /\ request[r].at \in {"h2", "h1", "std"}
    /\ \E outcome \in {"well", "denied", "failed"} : Record(request[r].source, outcome)
    /\ request' = [request EXCEPT ![r] = IdleRequest]

(* The body of an answer breaks off: nothing is recorded.                  *)
BodyFails(r) ==
    /\ request[r].at \in {"h2", "h1", "std"}
    /\ request' = [request EXCEPT ![r] = IdleRequest]
    /\ UNCHANGED poolVars

(* Mutant of FallsBack: each attempt that fails is recorded.               *)
FallsBackRecorded(r) ==
    /\ request[r].at \in {"h2", "h1"}
    /\ \A s \in Sources : stats[s].total < MaxRequests
    /\ request' = [request EXCEPT ![r].at = IF @ = "h2" THEN "h1" ELSE "std"]
    /\ Record(request[r].source, "failed")

FallsBack(r) ==
    /\ request[r].at \in {"h2", "h1"}
    /\ request' = [request EXCEPT ![r].at = IF @ = "h2" THEN "h1" ELSE "std"]
    /\ UNCHANGED poolVars

AllFailed(r) ==
    /\ request[r].at = "std"
    /\ Record(request[r].source, "failed")
    /\ request' = [request EXCEPT ![r] = IdleRequest]

-----------------------------------------------------------------------------
SourceNext ==
    \/ Refresh \/ Dial
    \/ \E r \in Requests : Begin(r) \/ Answered(r) \/ BodyFails(r) \/ FallsBack(r) \/ AllFailed(r)

SourceSpec == SourceInit /\ [][SourceNext]_sourceVars

-----------------------------------------------------------------------------
(* While the addresses in use stay the same, none is drawn again before    *)
(* all others have been: fetches and dials take turns, "轮询选择"           *)
(* (ipv6_pool.go:142), whatever the index was when they last changed.      *)
SourcesInTurn == IsInjective(turns)

(* An address that denied its requests BanAfter times since it was listed  *)
(* is not used while another is fit: "被拉黑（403 >= 5次）→ 排除"           *)
(* (ipv6_pool.go:121), through every refresh of the list.                  *)
BannedSpared ==
    \A s \in ToSet(InUse) :
        denials[s] >= BanAfter => \A other \in ToSet(addresses) : ~Healthy(other)

(* Unless the list is refreshed, statistics change only when a fetch ends, *)
(* and then by one request of the address drawn for its record: no attempt *)
(* that fails on the way counts ("全部失败，记录IPv6源地址失败",            *)
(* utls_client.go:1042).  That is not the address a connection left from,  *)
(* which Dial draws, and a body that breaks off charges nobody.            *)
ChargedAtEnd ==
    [][\A s \in Sources : stats'[s] # stats[s] =>
          \/ stats'[s] = Unused /\ s \notin ToSet(addresses')
          \/ /\ stats'[s].total = stats[s].total + 1
             /\ \E r \in Requests : request[r].source = s /\ request'[r] = IdleRequest]_sourceVars
=============================================================================
