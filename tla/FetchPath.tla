------------------------------ MODULE FetchPath ------------------------------
(***************************************************************************)
(* UTLSClient.Fetch (proxy/utls_client.go) for a domain with a DNS pool:   *)
(* how a request selects the address it contacts, what it contacts in fact *)
(* and what it reports to the pool.  One fetch is followed step by step;   *)
(* other fetches, prewarming and the probes run between any two steps and  *)
(* are met here as what they do to the record (Elsewhere).                 *)
(*                                                                         *)
(* NextIP is used through its promise, ReturnsListed of NextIPReserve: a   *)
(* listed address, which may have been banned while it was set aside.      *)
(* The rotation index is therefore left at zero, and the file alone.       *)
(* heard is a history variable: what the last step learnt first hand, an   *)
(* address and the status it answered, or that it was found or reached.    *)
(***************************************************************************)
EXTENDS DNSPool

CONSTANTS
    NoIP,              \* the empty address: dial the domain
    Nothing            \* the last step heard nothing

ASSUME NoIPIsNone == NoIP \notin IPs

VARIABLES fetch, heard

vars == <<rec, fetch, heard>>

(* heard of an address: the lookup of the domain found it, the TLS         *)
(* handshake with it succeeded.                                            *)
LookedUp == 0
Reached == 1

(* at: the statement Fetch is at; ip: selectedIP; todo: addresses looked   *)
(* up and not reported yet; four, six: the lists GetIPs returned; ip4 and  *)
(* ip6 the addresses of a dual-stack race and run4, run6 its goroutines.   *)
Start == [at |-> "start", ip |-> NoIP, todo |-> {}, four |-> {}, six |-> {},
          ip4 |-> NoIP, ip6 |-> NoIP, run4 |-> "none", run6 |-> "none"]

FetchInit == rec = NoRecord /\ fetch = [Start EXCEPT !.at = "done"] /\ heard = Nothing

Quiet == heard' = Nothing

(* ReportResult and ReportLatency after an answer of ip itself.            *)
Hear(ip, status) == ReportResult(ip, status) /\ heard' = <<ip, status>>

(* What NextIP does and may return.                                        *)
NextIP(ip) ==
    /\ \/ rec # NoRecord /\ UNCHANGED rec
       \/ rec = NoRecord /\ \E answer \in DNSAnswers : Save(answer)
       \/ rec = NoRecord /\ ip = NoIP /\ UNCHANGED rec
    /\ \/ ip \in IPs \cap KnownIPs(Current')
       \/ ip = NoIP /\ <<>> \in Candidates(Current')

-----------------------------------------------------------------------------
Lookup ==
    /\ fetch.at = "start"
    /\ \E found \in {{}} \cup DNSAnswers :
          fetch' = [fetch EXCEPT !.at = "lookup", !.todo = found]
    /\ Quiet /\ UNCHANGED rec

(* Every address looked up is reported a success, unseen.                  *)
ReportLookup(ip) ==
    /\ fetch.at = "lookup" /\ ip \in fetch.todo
    /\ fetch' = [fetch EXCEPT !.todo = @ \ {ip}]
    /\ ReportResult(ip, 200) /\ heard' = <<ip, LookedUp>>

(* One in ten fetches only probes and does not look for a second family;   *)
(* the resolution it starts is one of those that run elsewhere.            *)
Choose ==
    /\ fetch.at = "lookup" /\ fetch.todo = {}
    /\ \E ip \in IPs \cup {NoIP}, next \in {"stack", "check"} :
          NextIP(ip) /\ fetch' = [fetch EXCEPT !.at = next, !.ip = ip]
    /\ Quiet

(* GetIPs returns the lists, or just the answer of a refresh, which it     *)
(* makes of lists that are short (five addresses) or old ...               *)
ListsPicked(four, six) ==
    /\ Cardinality(four) > 1 \/ Cardinality(six) > 1
    /\ fetch' = [fetch EXCEPT !.at = "pick6", !.four = four, !.six = six]

TwoFamilies ==
    /\ fetch.at = "stack"
    /\ \/ rec # NoRecord /\ UNCHANGED rec
          /\ ListsPicked(Elements(rec.v4), Elements(rec.v6))
       \/ \E answer \in DNSAnswers :
             Save(answer) /\ ListsPicked(answer \cap V4, answer \cap V6)
    /\ Quiet

(* ... which, when it fails or is short, leaves one more turn to NextIP.   *)
OneFamily ==
    /\ fetch.at = "stack"
    /\ \E ip \in IPs \cup {NoIP} :
          /\ NextIP(ip)
          /\ fetch' = [fetch EXCEPT !.at = "check", !.ip = IF ip = NoIP THEN @ ELSE ip]
    /\ Quiet

(* Each family takes a turn of NextIP, and is left out if the turn falls   *)
(* on the other one, unless nothing else is left.                          *)
PickSix ==
    /\ fetch.at = "pick6"
    /\ \/ fetch.six = {} /\ UNCHANGED rec /\ fetch' = [fetch EXCEPT !.at = "pick4"]
       \/ /\ fetch.six # {}
          /\ \E turn \in IPs \cup {NoIP} :
                /\ NextIP(turn)
                /\ \E ip \in IF turn \in V6 THEN {turn}
                             ELSE IF fetch.four = {} THEN fetch.six ELSE {NoIP} :
                      fetch' = [fetch EXCEPT !.at = "pick4", !.ip6 = ip]
    /\ Quiet

(* With an address of each family the two race, with one it is selected.   *)
RaceOrSelect(ip4) ==
    fetch' = IF ip4 # NoIP /\ fetch.ip6 # NoIP
             THEN [fetch EXCEPT !.at = "race", !.ip4 = ip4, !.run4 = "trying", !.run6 = "trying"]
             ELSE [fetch EXCEPT !.at = "check", !.ip4 = ip4,
                                !.ip = IF ip4 # NoIP THEN ip4 ELSE fetch.ip6]

PickFour ==
    /\ fetch.at = "pick4"
    /\ \/ fetch.four = {} /\ UNCHANGED rec /\ RaceOrSelect(NoIP)
       \/ /\ fetch.four # {}
          /\ \E turn \in IPs \cup {NoIP} :
                /\ NextIP(turn)
                /\ \E ip \in IF turn \in V4 THEN {turn}
                             ELSE IF fetch.ip6 = NoIP THEN fetch.four ELSE {NoIP} :
                      RaceOrSelect(ip)
    /\ Quiet

(* Mutant of RunnerAnswers: the status is reported of the address selected *)
(* before the race.                                                        *)
RunnerReportsSelected(run, ip, status) ==
    /\ fetch[run] = "trying"
    /\ fetch' = [fetch EXCEPT ![run] = "won", !.at = IF @ = "race" THEN "done" ELSE @]
    /\ ReportResult(IF fetch.ip = NoIP THEN ip ELSE fetch.ip, status)
    /\ heard' = <<ip, status>>

(* doOnce: a goroutine of the race reports the answer of its own address,  *)
(* the loser too, be it after Fetch has returned.                          *)
RunnerAnswers(run, ip, status) ==
    /\ fetch[run] = "trying"
    /\ fetch' = [fetch EXCEPT ![run] = "won", !.at = IF @ = "race" THEN "done" ELSE @]
    /\ Hear(ip, status)

RunnerFails(run) ==
    /\ fetch[run] = "trying"
    /\ fetch' = [fetch EXCEPT ![run] = "lost"]
    /\ Quiet /\ UNCHANGED rec

(* Both have failed: the IPv4 address is tried once more on its own.       *)
RaceLost ==
    /\ fetch.at = "race" /\ fetch.run4 = "lost" /\ fetch.run6 = "lost"
    /\ fetch' = [fetch EXCEPT !.at = "check", !.ip = fetch.ip4]
    /\ Quiet /\ UNCHANGED rec

(* The selection is dropped if the address is banned by now ...            *)
CheckBanned ==
    /\ fetch.at = "check"
    /\ fetch' = [fetch EXCEPT !.at = IF fetch.ip \in Current.black THEN "again" ELSE "h2"]
    /\ Quiet /\ UNCHANGED rec

(* Mutant of SelectAgain: the new selection is checked again.              *)
SelectUntilUnbanned ==
    /\ fetch.at = "again"
    /\ \E ip \in IPs \cup {NoIP} : NextIP(ip) /\ fetch' = [fetch EXCEPT !.at = "check", !.ip = ip]
    /\ Quiet

(* ... and another made, which is not checked.                             *)
SelectAgain ==
    /\ fetch.at = "again"
    /\ \E ip \in IPs \cup {NoIP} : NextIP(ip) /\ fetch' = [fetch EXCEPT !.at = "h2", !.ip = ip]
    /\ Quiet

(* The addresses the uTLS clients contact: the one selected, or one the    *)
(* system knows for the domain.                                            *)
Contacted == IF fetch.ip = NoIP THEN IPs ELSE {fetch.ip}

(* dialUTLS reports the address it reached; a pooled connection needs none.*)
Handshake(ip) ==
    /\ \/ fetch.at \in {"h2", "h1"} /\ ip \in Contacted
       \/ fetch.run4 = "trying" /\ ip = fetch.ip4
       \/ fetch.run6 = "trying" /\ ip = fetch.ip6
    /\ ReportResult(ip, 200) /\ heard' = <<ip, Reached>>
    /\ UNCHANGED fetch

Answer(ip, status) ==
    /\ fetch.at \in {"h2", "h1"}
    /\ fetch' = [fetch EXCEPT !.at = "done"]
    /\ ip \in Contacted /\ heard' = <<ip, status>>
    /\ IF fetch.ip = NoIP THEN UNCHANGED rec ELSE ReportResult(ip, status)

(* http.Client dials the domain of the URL, the status is reported of the  *)
(* address selected.                                                       *)
AnswerOfDomain(ip, status) ==
    /\ fetch.at = "std"
    /\ fetch' = [fetch EXCEPT !.at = "done"]
    /\ heard' = <<ip, status>>
    /\ IF fetch.ip = NoIP THEN UNCHANGED rec ELSE ReportResult(fetch.ip, status)

(* An attempt fails and the next one follows, or a body breaks off.        *)
AttemptFails ==
    /\ \/ fetch.at = "h2" /\ \E next \in {"h1", "done"} : fetch' = [fetch EXCEPT !.at = next]
       \/ fetch.at = "h1" /\ \E next \in {"std", "done"} : fetch' = [fetch EXCEPT !.at = next]
       \/ fetch.at = "std" /\ fetch' = [fetch EXCEPT !.at = "done"]
    /\ Quiet /\ UNCHANGED rec

(* The next fetch: goroutines left over from a race run on elsewhere.      *)
Again == fetch.at = "done" /\ fetch' = Start /\ Quiet /\ UNCHANGED rec

(* What runs elsewhere: domains are resolved, by the probes among others;  *)
Resolution == \E answer \in DNSAnswers : Save(answer) /\ Quiet

(* the probes contact addresses reported or just resolved and report what  *)
(* each answered, if it is of use;                                         *)
Probe == \E ip \in IPs, status \in Statuses : Hear(ip, status)

(* connections are opened ahead, which reports an address reached;         *)
PrewarmContacts == \E ip \in IPs : ReportResult(ip, 200) /\ heard' = <<ip, Reached>>

(* other fetches do all of this and report lookups and latencies.          *)
OtherFetch ==
    \/ \E ip \in IPs : ReportResult(ip, 200) /\ heard' = <<ip, LookedUp>>
    \/ ReportLatency /\ Quiet

Elsewhere == UNCHANGED fetch /\ (Resolution \/ Probe \/ PrewarmContacts \/ OtherFetch)

(* The statements of Fetch, each of which ends in time.                    *)
Progress ==
    \/ Lookup
    \/ \E ip \in IPs : ReportLookup(ip)
    \/ Choose
    \/ TwoFamilies
    \/ OneFamily
    \/ PickSix
    \/ PickFour
    \/ RaceLost
    \/ CheckBanned
    \/ SelectAgain
    \/ \E ip \in IPs, status \in Statuses : Answer(ip, status)
    \/ \E ip \in IPs, status \in Statuses : AnswerOfDomain(ip, status)
    \/ AttemptFails

Runner(run, ip) == (\E status \in Statuses : RunnerAnswers(run, ip, status)) \/ RunnerFails(run)

FetchNext ==
    \/ Progress
    \/ Runner("run4", fetch.ip4)
    \/ Runner("run6", fetch.ip6)
    \/ \E ip \in IPs : Handshake(ip)
    \/ Again
    \/ Elsewhere

(* Every step of a request runs under the timeout of the request.          *)
FetchScheduling ==
    /\ WF_vars(Progress)
    /\ WF_vars(Runner("run4", fetch.ip4)) /\ WF_vars(Runner("run6", fetch.ip6))

FetchSpec == FetchInit /\ [][FetchNext]_vars /\ FetchScheduling

-----------------------------------------------------------------------------
(* The last resort answers: its status is reported of the address selected *)
(* before, which is not necessarily the one that sent it.                  *)
LastResort(ip) == fetch.at = "std" /\ fetch'.at = "done" /\ fetch.ip = ip

(* An address is banned only for a 403 it answered itself, "本地复测后才落黑 *)
(* /解封" (README.md:8), whichever goroutine of a race reports it and       *)
(* however late; the last resort alone may ban another one.                *)
BannedForOwn403 ==
    [][\A ip \in Current'.black \ Current.black :
          heard' = <<ip, 403>> \/ LastResort(ip)]_vars

(* ... and its ban is lifted only when it was reached, or answered 200     *)
(* (README.md:8 again).  Fetch also lifts it when a lookup finds the       *)
(* address, which nobody has contacted.                                    *)
UnbannedWhenTested ==
    [][\A ip \in Current.black \ Current'.black :
          heard' \in {ip} \X {Reached, 200} \/ LastResort(ip)]_vars

(* Every fetch comes to an end, whatever is banned meanwhile.              *)
EveryFetchEnds == fetch.at = "start" ~> fetch.at = "done"
=============================================================================
