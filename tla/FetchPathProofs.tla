---------------------------- MODULE FetchPathProofs ----------------------------
(***************************************************************************)
(* Proofs about FetchPath: whichever way a fetch takes, and whatever runs  *)
(* beside it, a ban is made for what the address itself answered.  The     *)
(* invariant is that whoever reports has an address to report of: the      *)
(* selection may be empty, the addresses of a race are not.                *)
(***************************************************************************)
EXTENDS FetchPath, DNSPoolProofs

Statements == {"start", "lookup", "stack", "pick6", "pick4", "race", "check",
               "again", "h2", "h1", "std", "done"}

RunnerStates == {"none", "trying", "won", "lost"}

Fetches == [at : Statements, ip : IPs \cup {NoIP}, todo : SUBSET IPs,
            four : SUBSET IPs, six : SUBSET IPs,
            ip4 : IPs \cup {NoIP}, ip6 : IPs \cup {NoIP},
            run4 : RunnerStates, run6 : RunnerStates]

RacersHaveAddresses ==
    /\ fetch.run4 = "trying" => fetch.ip4 \in IPs
    /\ fetch.run6 = "trying" => fetch.ip6 \in IPs

(* Nothing is in the hands of a race until the addresses are picked.       *)
NoRaceYet ==
    fetch.at \in {"start", "lookup", "stack", "pick6", "pick4"} =>
        fetch.run4 = "none" /\ fetch.run6 = "none"

FetchInv == PoolInv /\ fetch \in Fetches /\ RacersHaveAddresses /\ NoRaceYet

-----------------------------------------------------------------------------
(* What a step may do to the bans: nothing, or what one report of an       *)
(* address does.                                                           *)
BansStay == PoolInv' /\ Current'.black = Current.black

Reports(ip, status) ==
    /\ PoolInv'
    /\ Current.black \ Current'.black \subseteq IF status = 200 THEN {ip} ELSE {}
    /\ Current'.black \ Current.black \subseteq IF status = 403 THEN {ip} ELSE {}

LEMMA SoundIsCurrent ==
    ASSUME Sound(rec')
    PROVE  PoolInv' /\ Current' = rec'
BY NoRecordIsNil DEF Sound, PoolInv, Current

LEMMA UnchangedStays == PoolInv /\ UNCHANGED rec => BansStay
BY DEF BansStay, PoolInv, Current

LEMMA SaveStays ==
    ASSUME PoolInv, NEW answer \in DNSAnswers, Save(answer)
    PROVE  BansStay
BY SaveKeeps, SoundIsCurrent DEF Keeps, BansStay

LEMMA ReportReports ==
    ASSUME PoolInv, NEW ip \in IPs, NEW status \in Statuses, ReportResult(ip, status)
    PROVE  Reports(ip, status)
BY ReportResultKeeps, SoundIsCurrent DEF Reports

LEMMA NextIPStays ==
    ASSUME PoolInv, NEW ip, NextIP(ip)
    PROVE  BansStay
BY UnchangedStays, SaveStays DEF NextIP

LEMMA LatencyStays == PoolInv /\ ReportLatency => BansStay
BY ReportLatencyKeeps, SoundIsCurrent DEF Keeps, BansStay

-----------------------------------------------------------------------------
(* What each step keeps: the invariant, and the claim about bans.          *)
BanJustified(ip) == heard' = <<ip, 403>> \/ LastResort(ip)

Justified == \A ip \in Current'.black \ Current.black : BanJustified(ip)

FetchKept == fetch' \in Fetches /\ RacersHaveAddresses' /\ NoRaceYet'

LEMMA StayJustified == BansStay => PoolInv' /\ Justified
BY DEF BansStay, Justified

(* A report of what was just heard of the address.                         *)
LEMMA HeardJustified ==
    ASSUME PoolInv, NEW ip \in IPs, NEW status \in Statuses, Hear(ip, status)
    PROVE  PoolInv' /\ Justified
<1>1. Reports(ip, status) /\ heard' = <<ip, status>>
  BY ReportReports DEF Hear
<1> QED BY <1>1 DEF Reports, Justified, BanJustified

LEMMA ReachedJustified ==
    ASSUME PoolInv, NEW ip \in IPs, ReportResult(ip, 200)
    PROVE  PoolInv' /\ Justified
<1>1. Reports(ip, 200)
  BY ReportReports DEF Statuses
<1> QED BY <1>1 DEF Reports, Justified, BanJustified

-----------------------------------------------------------------------------
(* Steps that look up, select or give up, and those that run elsewhere     *)
(* without a report: no ban changes.                                       *)
LEMMA SelectionStays ==
    ASSUME FetchInv,
           \/ Lookup \/ Choose \/ TwoFamilies \/ OneFamily \/ PickSix \/ PickFour
           \/ RaceLost \/ CheckBanned \/ SelectAgain \/ AttemptFails \/ Again
           \/ RunnerFails("run4") \/ RunnerFails("run6")
    PROVE  BansStay
<1> USE DEF FetchInv
<1>1. CASE UNCHANGED rec
  BY <1>1, UnchangedStays
<1>2. CASE \E ip \in IPs \cup {NoIP} : NextIP(ip)
  BY <1>2, NextIPStays
<1>3. CASE \E answer \in DNSAnswers : Save(answer)
  BY <1>3, SaveStays
<1> QED BY <1>1, <1>2, <1>3 DEF Lookup, Choose, TwoFamilies, OneFamily, PickSix, PickFour,
          RaceLost, CheckBanned, SelectAgain, AttemptFails, Again, RunnerFails

LEMMA ListsAreIPs ==
    ASSUME PoolInv, rec # NoRecord
    PROVE  Elements(rec.v4) \in SUBSET IPs /\ Elements(rec.v6) \in SUBSET IPs
<1>1. rec.v4 \in Seq(V4) /\ rec.v6 \in Seq(V6)
  BY DEF PoolInv, Sound, DNSRecord
<1> QED BY <1>1, ElementOfSeq, LenProperties DEF Elements, IPs

LEMMA SelectionKeeps ==
    ASSUME FetchInv,
           \/ Lookup \/ Choose \/ TwoFamilies \/ OneFamily \/ PickSix \/ PickFour
           \/ RaceLost \/ CheckBanned \/ SelectAgain \/ AttemptFails \/ Again
           \/ RunnerFails("run4") \/ RunnerFails("run6")
    PROVE  FetchKept
<1>1. /\ fetch \in Fetches
      /\ fetch.run4 = "trying" => fetch.ip4 \in IPs
      /\ fetch.run6 = "trying" => fetch.ip6 \in IPs
      /\ NoRaceYet
  BY DEF FetchInv, RacersHaveAddresses
<1> USE DEF FetchKept, RacersHaveAddresses, NoRaceYet, Fetches, Statements, RunnerStates
<1>2. CASE Lookup
  <2>1. PICK found \in {{}} \cup DNSAnswers :
           fetch' = [fetch EXCEPT !.at = "lookup", !.todo = found]
    BY <1>2 DEF Lookup
  <2>2. found \in SUBSET IPs
    BY AnswersAreIPs
  <2>3. fetch.at = "start"
    BY <1>2 DEF Lookup
  <2> QED BY <1>1, <2>1, <2>2, <2>3
<1>3. CASE Choose
  BY <1>1, <1>3 DEF Choose
<1>4. CASE TwoFamilies
  <2>1. PICK four \in SUBSET IPs, six \in SUBSET IPs : ListsPicked(four, six)
    <3>1. CASE rec # NoRecord /\ ListsPicked(Elements(rec.v4), Elements(rec.v6))
      BY <3>1, ListsAreIPs DEF FetchInv
    <3>2. ASSUME NEW answer \in DNSAnswers, ListsPicked(answer \cap V4, answer \cap V6)
          PROVE  \E four \in SUBSET IPs, six \in SUBSET IPs : ListsPicked(four, six)
      <4>1. answer \cap V4 \in SUBSET IPs /\ answer \cap V6 \in SUBSET IPs
        BY DEF IPs
      <4> QED BY <3>2, <4>1
    <3> QED BY <1>4, <3>1, <3>2 DEF TwoFamilies
  <2>2. fetch.at = "stack"
    BY <1>4 DEF TwoFamilies
  <2> QED BY <1>1, <2>1, <2>2 DEF ListsPicked
<1>5. CASE OneFamily
  BY <1>1, <1>5 DEF OneFamily
<1>6. CASE PickSix
  <2>1. \/ fetch' = [fetch EXCEPT !.at = "pick4"]
        \/ \E ip \in IPs \cup {NoIP} : fetch' = [fetch EXCEPT !.at = "pick4", !.ip6 = ip]
    BY <1>1, <1>6 DEF PickSix
  <2>2. fetch.at = "pick6"
    BY <1>6 DEF PickSix
  <2> QED BY <1>1, <2>1, <2>2
<1>7. CASE PickFour
  <2>1. PICK ip \in IPs \cup {NoIP} : RaceOrSelect(ip)
    BY <1>1, <1>7 DEF PickFour
  <2>2. fetch.at = "pick4"
    BY <1>7 DEF PickFour
  <2> QED BY <1>1, <2>1, <2>2 DEF RaceOrSelect
<1>8. CASE RaceLost
  BY <1>1, <1>8 DEF RaceLost
<1>9. CASE CheckBanned
  BY <1>1, <1>9 DEF CheckBanned
<1>10. CASE SelectAgain
  BY <1>1, <1>10 DEF SelectAgain
<1>11. CASE AttemptFails
  BY <1>1, <1>11 DEF AttemptFails
<1>12. CASE Again
  BY <1>1, <1>12 DEF Again, Start
<1>13. CASE RunnerFails("run4") \/ RunnerFails("run6")
  BY <1>1, <1>13 DEF RunnerFails
<1> QED BY <1>2, <1>3, <1>4, <1>5, <1>6, <1>7, <1>8, <1>9, <1>10, <1>11, <1>12, <1>13

(* Steps that report what they heard themselves.                           *)
LEMMA ReporterKeeps ==
    ASSUME FetchInv,
           \/ \E ip \in IPs : ReportLookup(ip) \/ Handshake(ip)
           \/ \E ip \in IPs, status \in Statuses : Answer(ip, status)
           \/ \E ip \in IPs, status \in Statuses : AnswerOfDomain(ip, status)
           \/ \E status \in Statuses : RunnerAnswers("run4", fetch.ip4, status)
           \/ \E status \in Statuses : RunnerAnswers("run6", fetch.ip6, status)
    PROVE  FetchKept
<1>1. /\ fetch \in Fetches
      /\ fetch.run4 = "trying" => fetch.ip4 \in IPs
      /\ fetch.run6 = "trying" => fetch.ip6 \in IPs
      /\ NoRaceYet
  BY DEF FetchInv, RacersHaveAddresses
<1> USE DEF FetchKept, RacersHaveAddresses, NoRaceYet, Fetches, Statements, RunnerStates
<1>2. ASSUME NEW ip \in IPs, ReportLookup(ip) PROVE FetchKept
  BY <1>1, <1>2 DEF ReportLookup
<1>3. ASSUME NEW ip \in IPs, Handshake(ip) PROVE FetchKept
  BY <1>1, <1>3 DEF Handshake
<1>4. ASSUME NEW ip \in IPs, NEW status \in Statuses, Answer(ip, status) \/ AnswerOfDomain(ip, status)
      PROVE  FetchKept
  BY <1>1, <1>4 DEF Answer, AnswerOfDomain
<1>5. ASSUME NEW status \in Statuses, RunnerAnswers("run4", fetch.ip4, status)
      PROVE  FetchKept
  BY <1>1, <1>5 DEF RunnerAnswers
<1>6. ASSUME NEW status \in Statuses, RunnerAnswers("run6", fetch.ip6, status)
      PROVE  FetchKept
  BY <1>1, <1>6 DEF RunnerAnswers
<1> QED BY <1>2, <1>3, <1>4, <1>5, <1>6

LEMMA ReporterJustified ==
    ASSUME FetchInv,
           \/ \E ip \in IPs : ReportLookup(ip) \/ Handshake(ip)
           \/ \E ip \in IPs, status \in Statuses : Answer(ip, status)
           \/ \E ip \in IPs, status \in Statuses : AnswerOfDomain(ip, status)
           \/ \E status \in Statuses : RunnerAnswers("run4", fetch.ip4, status)
           \/ \E status \in Statuses : RunnerAnswers("run6", fetch.ip6, status)
    PROVE  PoolInv' /\ Justified
<1>1. PoolInv /\ fetch.ip \in IPs \cup {NoIP}
  BY DEF FetchInv, Fetches
<1>2. ASSUME NEW ip \in IPs, ReportLookup(ip) \/ Handshake(ip) PROVE PoolInv' /\ Justified
  BY <1>1, <1>2, ReachedJustified DEF ReportLookup, Handshake
<1>3. ASSUME NEW ip \in IPs, NEW status \in Statuses, Answer(ip, status)
      PROVE  PoolInv' /\ Justified
  <2>1. UNCHANGED rec \/ Hear(ip, status)
    BY <1>3 DEF Answer, Hear
  <2> QED BY <1>1, <2>1, UnchangedStays, StayJustified, HeardJustified
<1>4. ASSUME NEW ip \in IPs, NEW status \in Statuses, AnswerOfDomain(ip, status)
      PROVE  PoolInv' /\ Justified
  <2>1. CASE fetch.ip = NoIP
    BY <1>1, <1>4, <2>1, UnchangedStays, StayJustified DEF AnswerOfDomain
  <2>2. CASE fetch.ip # NoIP
    <3>1. Reports(fetch.ip, status)
      BY <1>1, <1>4, <2>2, ReportReports DEF AnswerOfDomain
    <3>2. LastResort(fetch.ip)
      BY <1>4 DEF AnswerOfDomain, LastResort, FetchInv, Fetches
    <3> QED BY <3>1, <3>2 DEF Reports, Justified, BanJustified
  <2> QED BY <2>1, <2>2
<1>5. ASSUME NEW status \in Statuses,
             RunnerAnswers("run4", fetch.ip4, status) \/ RunnerAnswers("run6", fetch.ip6, status)
      PROVE  PoolInv' /\ Justified
  BY <1>1, <1>5, HeardJustified DEF RunnerAnswers, FetchInv, RacersHaveAddresses
<1> QED BY <1>2, <1>3, <1>4, <1>5

LEMMA ElsewhereJustified ==
    ASSUME FetchInv, Elsewhere
    PROVE  PoolInv' /\ Justified
<1> USE DEF FetchInv
<1>1. CASE Resolution
  BY <1>1, SaveStays, StayJustified DEF Resolution
<1>2. CASE Probe
  BY <1>2, HeardJustified DEF Probe
<1>3. CASE PrewarmContacts
  BY <1>3, ReachedJustified DEF PrewarmContacts
<1>4. CASE OtherFetch
  BY <1>4, ReachedJustified, LatencyStays, StayJustified DEF OtherFetch
<1> QED BY <1>1, <1>2, <1>3, <1>4 DEF Elsewhere

(* Every step.                                                             *)
LEMMA FetchSteps ==
    ASSUME FetchInv, FetchNext
    PROVE  FetchInv' /\ Justified
<1>1. ASSUME BansStay, FetchKept PROVE FetchInv' /\ Justified
  BY <1>1, StayJustified DEF FetchInv, FetchKept
<1>2. ASSUME PoolInv', Justified, FetchKept PROVE FetchInv' /\ Justified
  BY <1>2 DEF FetchInv, FetchKept
<1>3. CASE Elsewhere
  <2>1. FetchKept
    BY <1>3 DEF Elsewhere, FetchInv, FetchKept, RacersHaveAddresses, NoRaceYet
  <2> QED BY <1>2, <1>3, <2>1, ElsewhereJustified
<1>4. CASE \/ \E ip \in IPs : ReportLookup(ip) \/ Handshake(ip)
           \/ \E ip \in IPs, status \in Statuses : Answer(ip, status)
           \/ \E ip \in IPs, status \in Statuses : AnswerOfDomain(ip, status)
           \/ \E status \in Statuses : RunnerAnswers("run4", fetch.ip4, status)
           \/ \E status \in Statuses : RunnerAnswers("run6", fetch.ip6, status)
  BY <1>2, <1>4, ReporterKeeps, ReporterJustified
<1>5. CASE \/ Lookup \/ Choose \/ TwoFamilies \/ OneFamily \/ PickSix \/ PickFour
           \/ RaceLost \/ CheckBanned \/ SelectAgain \/ AttemptFails \/ Again
           \/ RunnerFails("run4") \/ RunnerFails("run6")
  BY <1>1, <1>5, SelectionStays, SelectionKeeps
<1> QED BY <1>3, <1>4, <1>5 DEF FetchNext, Progress, Runner

THEOREM FetchInvariant == FetchSpec => []FetchInv
<1>1. FetchInit => FetchInv
  BY DEF FetchInit, Start, FetchInv, PoolInv, Fetches, Statements, RunnerStates,
         RacersHaveAddresses, NoRaceYet
<1>2. FetchInv /\ UNCHANGED vars => FetchInv'
  BY DEF vars, FetchInv, PoolInv, RacersHaveAddresses, NoRaceYet
<1> QED BY <1>1, <1>2, FetchSteps, PTL DEF FetchSpec

(* An address is banned for a 403 it answered itself, but for the last     *)
(* resort: for any addresses, answers and races.                           *)
THEOREM BannedForItself == FetchSpec => BannedForOwn403
<1>1. FetchInv /\ [FetchNext]_vars
        => [\A ip \in Current'.black \ Current.black :
              heard' = <<ip, 403>> \/ LastResort(ip)]_vars
  BY FetchSteps DEF Justified, BanJustified
<1> QED BY <1>1, FetchInvariant, PTL DEF FetchSpec, BannedForOwn403

-----------------------------------------------------------------------------
(* A fetch does nothing to the record but what the pool offers: in every   *)
(* step it calls one operation of the pool or leaves the record alone, so  *)
(* what holds of the pool holds under any fetches.                         *)
LEMMA FetchOperates == FetchInv /\ FetchNext => Next \/ UNCHANGED rec
<1> SUFFICES ASSUME FetchInv, FetchNext PROVE Next \/ UNCHANGED rec
  OBVIOUS
<1>1. ASSUME NEW ip, NextIP(ip) PROVE Next \/ UNCHANGED rec
  BY <1>1 DEF NextIP, Next
<1>2. \A ip \in IPs, status \in Statuses : ReportResult(ip, status) => Next
  BY DEF Next
<1>3. \A ip \in IPs : ReportResult(ip, 200) => Next
  BY <1>2 DEF Statuses
<1>4. CASE Elsewhere
  BY <1>2, <1>3, <1>4 DEF Elsewhere, Resolution, Probe, Hear, PrewarmContacts, OtherFetch, Next
<1>5. CASE \E ip \in IPs : ReportLookup(ip) \/ Handshake(ip)
  BY <1>3, <1>5 DEF ReportLookup, Handshake
<1>6. CASE \E ip \in IPs, status \in Statuses : Answer(ip, status) \/ AnswerOfDomain(ip, status)
  <2>1. fetch.ip = NoIP \/ fetch.ip \in IPs
    BY DEF FetchInv, Fetches
  <2>2. PICK ip \in IPs, status \in Statuses : Answer(ip, status) \/ AnswerOfDomain(ip, status)
    BY <1>6
  <2> QED BY <1>2, <2>1, <2>2 DEF Answer, AnswerOfDomain
<1>7. CASE \E status \in Statuses :
              RunnerAnswers("run4", fetch.ip4, status) \/ RunnerAnswers("run6", fetch.ip6, status)
  <2>1. PICK status \in Statuses :
           RunnerAnswers("run4", fetch.ip4, status) \/ RunnerAnswers("run6", fetch.ip6, status)
    BY <1>7
  <2> QED BY <1>2, <2>1 DEF RunnerAnswers, Hear, FetchInv, RacersHaveAddresses
<1>8. CASE \/ Lookup \/ RaceLost \/ CheckBanned \/ AttemptFails \/ Again
           \/ RunnerFails("run4") \/ RunnerFails("run6")
  BY <1>8 DEF Lookup, RaceLost, CheckBanned, AttemptFails, Again, RunnerFails
<1>9. CASE Choose \/ OneFamily \/ PickSix \/ PickFour \/ SelectAgain
  BY <1>1, <1>9 DEF Choose, OneFamily, PickSix, PickFour, SelectAgain
<1>10. CASE TwoFamilies
  BY <1>10 DEF TwoFamilies, Next
<1> QED BY <1>4, <1>5, <1>6, <1>7, <1>8, <1>9, <1>10 DEF FetchNext, Progress, Runner

(* The fetches implement the pool (dns_pool.go locks each operation).      *)
THEOREM FetchIsPool == FetchSpec => Spec
<1>1. FetchInit => Init
  BY DEF FetchInit, Init, Loaded
<1>2. FetchInv /\ [FetchNext]_vars => [Next]_rec
  BY FetchOperates DEF vars
<1> QED BY <1>1, <1>2, FetchInvariant, PTL DEF FetchSpec, Spec
=============================================================================
