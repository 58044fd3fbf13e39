------------------------------- MODULE DNSPool -------------------------------
(***************************************************************************)
(* The record that proxy/dns_pool.go keeps for one domain: the addresses   *)
(* learnt for it, the black and white lists, and the index of the rotation *)
(* NextIP and NextIPs serve requests from.                                 *)
(*                                                                         *)
(* Every operation holds DNSPool.mu from the moment it reads the record to *)
(* the moment it has written it, so each is one action.  The pool maps     *)
(* domains to such records and no operation relates two domains: the ones  *)
(* that visit several (MergeFromPeer, loadFromDisk) treat them one by one. *)
(* The module is therefore about the entry of one domain.                  *)
(*                                                                         *)
(* Left out: UpdatedAt (only decides when to resolve again, and resolving  *)
(* is always possible here), the latency averages (written, never read)    *)
(* and NextIndex6 / NextPreferV6 (never given another value than zero).    *)
(***************************************************************************)
EXTENDS Integers, Sequences, FiniteSets, Functions

CONSTANTS
    V4, V6,            \* the IPv4 and the IPv6 addresses of the domain
    HasV4, HasV6,      \* the address families of this host (net_cap.go)
    PreferV6,          \* config dns.prefer_ipv6
    DNSAnswers,        \* the address sets the resolver may return
    PeerOffers,        \* the address sets a peer may send for the domain
    FileRecords,       \* the records an external tool may put in the file
    NoRecord           \* nil: the pool has no entry for the domain

IPs == V4 \cup V6

Statuses == {200, 403, 500}   \* 500 stands for every other code

(* The number of addresses one call takes: NextIP one, NextIPs eight.      *)
Counts == {1, 8}

DNSRecord == [v4 : Seq(V4), v6 : Seq(V6),
              black : SUBSET IPs, white : SUBSET IPs, idx : Nat]

Elements(s) == {s[i] : i \in DOMAIN s}

KnownIPs(r) == Elements(r.v4) \cup Elements(r.v6)

DuplicateFree(r) == IsInjective(r.v4) /\ IsInjective(r.v6)

ASSUME IPsFinite == IsFiniteSet(V4) /\ IsFiniteSet(V6)
ASSUME FamiliesDisjoint == V4 \cap V6 = {}
ASSUME HostFamilies == HasV4 \in BOOLEAN /\ HasV6 \in BOOLEAN /\ PreferV6 \in BOOLEAN
ASSUME AnswersAreIPs == DNSAnswers \subseteq SUBSET IPs
ASSUME OffersAreIPs == PeerOffers \subseteq SUBSET IPs
ASSUME FilesAreRecords == \A f \in FileRecords : f \in DNSRecord /\ DuplicateFree(f)
ASSUME NoRecordIsNil == NoRecord \notin DNSRecord

VARIABLE rec           \* the entry of the domain in DNSPool.records

-----------------------------------------------------------------------------
EmptyRecord == [v4 |-> <<>>, v6 |-> <<>>, black |-> {}, white |-> {}, idx |-> 0]

Current == IF rec = NoRecord THEN EmptyRecord ELSE rec

(* Go iterates over a map in any order: the lists built from one are the   *)
(* orderings of its keys.                                                  *)
Orderings(S) == Bijection(1..Cardinality(S), S)

(* Mutant of Extending: the test for presence is dropped.                  *)
ExtendingAll(list, S) == {list \o q : q \in Orderings(S)}

(* The list with the addresses of S it misses appended.                    *)
Extending(list, S) == {list \o q : q \in Orderings(S \ Elements(list))}

(* Mutant of Listing: every address is taken for an IPv4 one.              *)
ListingAsV4(r, S) == {[r EXCEPT !.v4 = l] : l \in Extending(r.v4, S)}

(* The record with both its lists extended by the addresses of S.          *)
Listing(r, S) ==
    { [r EXCEPT !.v4 = l[1], !.v6 = l[2]] :
        l \in Extending(r.v4, S \cap V4) \X Extending(r.v6, S \cap V6) }

(* The record with its lists rebuilt from the union of their addresses and *)
(* S, the order of the old lists being lost.                               *)
Rebuilding(r, S) ==
    { [r EXCEPT !.v4 = l[1], !.v6 = l[2]] :
        l \in Orderings((S \cap V4) \cup Elements(r.v4))
                \X Orderings((S \cap V6) \cup Elements(r.v6)) }

(* The lists of the families the host can use, the preferred one first.    *)
Usable(r) ==
    LET four == IF HasV4 THEN r.v4 ELSE <<>>
        six  == IF HasV6 THEN r.v6 ELSE <<>>
    IN  IF HasV6 /\ (PreferV6 \/ ~HasV4) THEN six \o four ELSE four \o six

(* allAvailableIPs: the usable addresses that are not blacklisted, in the  *)
(* order of the lists.  The set has exactly one element.                   *)
Candidates(r) ==
    LET all  == Usable(r)
        keep == {i \in DOMAIN all : all[i] \notin r.black}
    IN  { [k \in 1..Cardinality(keep) |-> all[pos[k]]] :
            pos \in {f \in Orderings(keep) :
                       \A i, j \in 1..Cardinality(keep) : i < j => f[i] < f[j]} }

(* Mutants of HandOut: the loop variable is not added to the index ...     *)
HandOutStuck(c, idx, n) == [i \in 1..n |-> c[(idx % Len(c)) + 1]]

(* ... or the rotation stops at the last candidate.                        *)
HandOutClamped(c, idx, n) ==
    [i \in 1..n |-> c[IF idx + i > Len(c) THEN Len(c) ELSE idx + i]]

(* The addresses a call that takes n of the candidates returns.            *)
HandOut(c, idx, n) == [i \in 1..n |-> c[((idx + i - 1) % Len(c)) + 1]]

-----------------------------------------------------------------------------
(* Mutant of Loaded: white-listed addresses are not put back on the lists. *)
LoadedRaw == {NoRecord} \cup FileRecords

(* loadFromDisk: what the file holds replaces the entry, white-listed      *)
(* addresses are put back on the lists.                                    *)
Loaded == {NoRecord} \cup UNION {Listing(f, f.white) : f \in FileRecords}

Init == rec \in Loaded

HotReload == rec' \in Loaded

(* Mutants of Save: the answer replaces the lists; the index always        *)
(* restarts.                                                               *)
SaveReplaces(answer) ==
    /\ answer # {}
    /\ rec' \in Listing([Current EXCEPT !.v4 = <<>>, !.v6 = <<>>], answer \cup Current.white)

SaveRestarts(answer) ==
    /\ answer # {}
    /\ rec' \in Listing([Current EXCEPT !.idx = 0], answer)

(* resolveAndStore and resolveAndStoreQuick end in save, unless the domain *)
(* has no address.  The resolvers leave NextIndex4 of what they save at 0. *)
Save(answer) ==
    /\ answer # {}
    /\ \E r \in Listing(Current, answer) :
          rec' = [r EXCEPT !.idx = IF @ >= Len(r.v4) THEN 0 ELSE @]

(* The critical section of NextIP and NextIPs: r is the record with its    *)
(* white-listed addresses listed, n of its candidates c are taken.         *)
Take(r, c, n) ==
    /\ c # <<>>
    /\ rec' = [r EXCEPT !.idx = (@ + n) % Len(c)]

NextIPs(n) ==
    /\ rec # NoRecord
    /\ \E r \in Listing(rec, rec.white) : \E c \in Candidates(r) : Take(r, c, n)

(* ... and its error path: every address is blacklisted or unusable.       *)
NextIPsFails ==
    /\ rec # NoRecord
    /\ rec' \in Listing(rec, rec.white)
    /\ <<>> \in Candidates(rec')

(* ReportResult: 403 blacklists the address, 200 clears and white-lists it. *)
ReportResult(ip, status) ==
    \E r \in Listing(Current, {ip}) :
       rec' = [r EXCEPT
                 !.black = CASE status = 403 -> @ \cup {ip}
                             [] status = 200 -> @ \ {ip}
                             [] OTHER        -> @,
                 !.white = CASE status = 403 -> @ \ {ip}
                             [] status = 200 -> @ \cup {ip}
                             [] OTHER        -> @]

(* ReportLatency: of the modelled state it only creates a missing entry.   *)
ReportLatency == rec' = Current

(* Mutant of MergeFromPeer: what the peer vouches for is no longer banned. *)
MergeUnbans(offer) ==
    \E r \in Rebuilding(Current, offer) :
       rec' = [r EXCEPT !.white = @ \cup offer, !.black = @ \ offer]

(* MergeFromPeer: the peer's addresses join the lists and the whitelist.   *)
MergeFromPeer(offer) ==
    \E r \in Rebuilding(Current, offer) :
       rec' \in Listing([r EXCEPT !.white = @ \cup offer], r.white \cup offer)

Next ==
    \/ HotReload
    \/ \E answer \in DNSAnswers : Save(answer)
    \/ \E n \in Counts : NextIPs(n)
    \/ NextIPsFails
    \/ \E ip \in IPs, status \in Statuses : ReportResult(ip, status)
    \/ ReportLatency
    \/ \E offer \in PeerOffers : MergeFromPeer(offer)

Spec == Init /\ [][Next]_rec

-----------------------------------------------------------------------------
TypeOK == rec \in DNSRecord \cup {NoRecord}

(* An address is at most once on a list, however reports, resolutions,     *)
(* peer merges and reloads interleave: twice would give it twice the load. *)
NoDuplicateIPs == rec # NoRecord => DuplicateFree(rec)

(* Every white-listed address is on a list and so takes part in the        *)
(* rotation, whoever white-listed it (dns_pool.go:127).                    *)
WhitelistedAreListed == rec # NoRecord => rec.white \subseteq KnownIPs(rec)

(* No operation but a reload of the file forgets an address.               *)
NeverForgets ==
    [][HotReload \/ KnownIPs(Current) \subseteq KnownIPs(Current')]_rec

(* A banned address leaves the blacklist only on a 200 reported for it or  *)
(* on a reload: resolving it again, a peer's offer or a selection never    *)
(* clears it ("403 入黑、200 解封", README.md:43).                          *)
UnbannedOnlyBy200 ==
    [][HotReload \/ \A ip \in Current.black \ Current'.black : ReportResult(ip, 200)]_rec
=============================================================================
