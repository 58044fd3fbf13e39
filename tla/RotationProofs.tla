--------------------------- MODULE RotationProofs ---------------------------
(***************************************************************************)
(* Proofs about the rotations.  Of the addresses of a domain: a batch      *)
(* never repeats one while it can avoid it, and a domain with addresses of *)
(* one family only is served strictly in turn.  Of the callers of NextIP:  *)
(* what they set aside stays such a batch, of known addresses.  Of the     *)
(* source addresses of the node: they take turns, those denied too often   *)
(* are spared, and a fetch charges one of them once.                       *)
(***************************************************************************)
EXTENDS DNSRotation, NextIPReserve, SourcePool, DNSPoolProofs, WellFoundedInduction

(* The remainder of the next number.                                       *)
LEMMA NextRemainder ==
    ASSUME NEW L \in Nat \ {0}, NEW x \in Nat
    PROVE  (x + 1) % L = ((x % L) + 1) % L
<1> DEFINE k == x \div L
           m == x % L
           l == (x + 1) \div L
           n == (x + 1) % L
<1>1. x = L * k + m /\ k \in Int /\ m \in 0..(L - 1)
  BY Quotient
<1>2. x + 1 = L * l + n /\ l \in Int /\ n \in 0..(L - 1)
  BY Quotient
<1> HIDE DEF k, m, l, n
<1>3. CASE m + 1 < L
  <2>1. L * k + (m + 1) = L * l + n
    BY <1>1, <1>2
  <2>2. m + 1 = n
    BY <1>1, <1>2, <1>3, <2>1, RemainderUnique
  <2>3. (m + 1) % L = m + 1
    BY <1>1, <1>3, SmallRemainder
  <2> QED BY <2>2, <2>3 DEF m, n
<1>4. CASE m + 1 = L
  <2>1. L * (k + 1) + 0 = L * l + n
    BY <1>1, <1>2, <1>4
  <2>2. n = 0
    BY <1>1, <1>2, <2>1, RemainderUnique
  <2>3. L % L = 0
    <3>1. L = L * (L \div L) + (L % L) /\ L % L \in 0..(L - 1) /\ L \div L \in Int
      BY Quotient
    <3>2. L * (L \div L) + (L % L) = L * 1 + 0
      BY <3>1
    <3> QED BY <3>1, <3>2, RemainderUnique
  <2> QED BY <1>4, <2>2, <2>3 DEF m, n
<1> QED BY <1>1, <1>3, <1>4

-----------------------------------------------------------------------------
(* With the history variable hidden, the rotation is the pool.             *)
THEOREM RotationIsPool == RotationSpec => Spec
<1>1. RotationInit => Init
  BY DEF RotationInit
<1>2. [RotationNext]_rotationVars => [Next]_rec
  BY DEF RotationNext, NewRotation, Serve, NextIPs, Other, Next, rotationVars
<1> QED BY <1>1, <1>2, PTL DEF RotationSpec, Spec

(* In every state, any run of as many addresses as there are candidates is *)
(* free of repetition: the batch NextIPs makes loads them evenly.          *)
THEOREM BatchSpreads == RotationSpec => []EvenShare
<1>1. PoolInv => EvenShare
  <2> SUFFICES ASSUME PoolInv, rec # NoRecord,
                      NEW c \in Candidates(rec), c # <<>>, NEW n \in Counts,
                      NEW i \in 1..n, NEW j \in 1..n, i < j, j - i < Len(c)
               PROVE  HandOut(c, rec.idx, n)[i] # HandOut(c, rec.idx, n)[j]
    BY DEF EvenShare
  <2>1. c \in Seq(IPs) /\ IsInjective(c) /\ rec.idx \in Nat
    BY CandidatesAre DEF PoolInv, Sound, DNSRecord
  <2>2. n \in Nat
    BY DEF Counts
  <2> QED BY <2>1, <2>2, HandOutSpreads
<1> QED BY <1>1, RotationIsPool, PoolInvariant, PTL

-----------------------------------------------------------------------------
(* Without IPv6 addresses the index is where the last call left it, and    *)
(* small enough for save not to reset it.                                  *)
TurnInv ==
    last # NoTurn =>
        /\ rec # NoRecord
        /\ Len(last.cands) \in Nat \ {0} /\ last.pos \in Nat
        /\ rec.v6 = <<>> => /\ rec.idx = last.pos % Len(last.cands)
                           /\ Len(last.cands) <= Len(rec.v4)

(* A record without IPv6 addresses knows what is on its other list.        *)
LEMMA OneListKnown ==
    ASSUME NEW r, Sound(r), r.v6 = <<>>
    PROVE  KnownIPs(r) = Elements(r.v4) /\ r.v4 \in Seq(V4) /\ IsInjective(r.v4)
<1>1. r.v4 \in Seq(V4) /\ IsInjective(r.v4)
  BY DEF Sound, DNSRecord, DuplicateFree
<1>2. Elements(r.v6) = {}
  BY EmptySeq DEF Elements
<1> QED BY <1>1, <1>2 DEF KnownIPs

(* IPv6 addresses do not go away while no address is forgotten.            *)
LEMMA OneListBefore ==
    ASSUME NEW r, Sound(r), NEW t, Sound(t), KnownIPs(r) \subseteq KnownIPs(t), t.v6 = <<>>
    PROVE  r.v6 = <<>>
<1>1. r.v6 \in Seq(V6) /\ Elements(r.v6) \subseteq Elements(t.v4) /\ t.v4 \in Seq(V4)
  BY OneListKnown DEF KnownIPs, Sound, DNSRecord
<1>2. Elements(t.v4) \subseteq V4
  BY <1>1, ElementOfSeq, LenProperties DEF Elements
<1> SUFFICES ASSUME r.v6 # <<>> PROVE FALSE
  OBVIOUS
<1>3. 1 \in 1..Len(r.v6)
  BY <1>1, EmptySeq, LenProperties
<1>4. r.v6[1] \in V6 /\ r.v6[1] \in Elements(r.v6)
  BY <1>1, <1>3, ElementOfSeq, LenProperties DEF Elements
<1> QED BY <1>1, <1>2, <1>4, FamiliesDisjoint

(* With one family, who knows more has a longer list.                      *)
LEMMA MoreKnownLonger ==
    ASSUME NEW r, Sound(r), NEW t, Sound(t), KnownIPs(r) \subseteq KnownIPs(t), t.v6 = <<>>
    PROVE  Len(r.v4) <= Len(t.v4) /\ Len(r.v4) \in Nat /\ Len(t.v4) \in Nat
<1>1. /\ KnownIPs(r) = Elements(r.v4) /\ r.v4 \in Seq(V4) /\ IsInjective(r.v4)
      /\ KnownIPs(t) = Elements(t.v4) /\ t.v4 \in Seq(V4) /\ IsInjective(t.v4)
  BY OneListBefore, OneListKnown
<1>2. Cardinality(Elements(r.v4)) <= Cardinality(Elements(t.v4))
  BY <1>1, LengthIsSize, FS_Subset
<1> QED BY <1>1, <1>2, LengthIsSize, LenProperties

(* There are no more candidates than addresses on the IPv4 list.           *)
LEMMA CandidatesFit ==
    ASSUME NEW r, Sound(r), r.v6 = <<>>, NEW c \in Candidates(r)
    PROVE  Len(c) <= Len(r.v4) /\ c \in Seq(IPs)
<1>1. r \in DNSRecord /\ DuplicateFree(r)
  BY DEF Sound
<1>2. c \in Seq(IPs) /\ IsInjective(c) /\ Elements(c) \subseteq KnownIPs(r)
  BY <1>1, CandidatesAre
<1>3. KnownIPs(r) = Elements(r.v4) /\ r.v4 \in Seq(V4) /\ IsInjective(r.v4)
  BY OneListKnown
<1>4. IsInjective(c) /\ c \in Seq(IPs) /\ r.v4 \in Seq(IPs)
  BY <1>2, <1>3, SeqDef DEF IPs
<1> QED BY <1>2, <1>3, <1>4, LengthIsSize, FS_Subset, LenProperties

(* Between two calls no address is forgotten, and without IPv6 addresses   *)
(* nothing moves an index that is inside the IPv4 list.                    *)
LEMMA IndexKept ==
    ASSUME PoolInv, rec # NoRecord, Other
    PROVE  /\ Sound(rec') /\ KnownIPs(rec) \subseteq KnownIPs(rec')
           /\ (rec'.v6 = <<>> /\ rec.idx < Len(rec.v4)) => rec'.idx = rec.idx
<1>1. Current = rec /\ Sound(rec) /\ rec \in DNSRecord
  BY DEF Current, PoolInv, Sound
<1>2. CASE \E answer \in DNSAnswers : Save(answer)
  <2>1. PICK answer \in DNSAnswers : Save(answer)
    BY <1>2
  <2>2. Keeps(rec, rec')
    BY <1>1, <2>1, SaveKeeps
  <2>3. answer \in SUBSET IPs
    BY AnswersAreIPs
  <2>4. PICK r \in Listing(rec, answer) :
           rec' = [r EXCEPT !.idx = IF r.idx >= Len(r.v4) THEN 0 ELSE r.idx]
    BY <1>1, <2>1 DEF Save
  <2>5. Sound(r) /\ r.idx = rec.idx /\ KnownIPs(rec) \subseteq KnownIPs(r)
    BY <1>1, <2>3, ListingSound
  <2> SUFFICES ASSUME rec'.v6 = <<>>, rec.idx < Len(rec.v4) PROVE rec'.idx = rec.idx
    BY <2>2 DEF Keeps
  <2>10. r.v6 = <<>>
    BY <2>4, <2>5 DEF Sound, DNSRecord
  <2>6. Len(rec.v4) <= Len(r.v4) /\ Len(rec.v4) \in Nat /\ Len(r.v4) \in Nat
    BY <1>1, <2>5, <2>10, MoreKnownLonger
  <2>7. r.idx < Len(r.v4) /\ r.idx \in Nat
    BY <2>5, <2>6, <1>1 DEF DNSRecord
  <2>8. rec'.idx = rec.idx
    BY <2>4, <2>5, <2>6, <2>7 DEF Sound, DNSRecord
  <2> QED BY <2>8
<1>3. CASE NextIPsFails
  <2>1. rec' \in Listing(rec, rec.white) /\ rec.white \in SUBSET IPs
    BY <1>1, <1>3 DEF NextIPsFails, DNSRecord
  <2> QED BY <1>1, <2>1, ListingSound
<1>4. CASE \E ip \in IPs, status \in Statuses : ReportResult(ip, status)
  <2>1. PICK ip \in IPs, status \in Statuses : ReportResult(ip, status)
    BY <1>4
  <2>2. Sound(rec') /\ KnownIPs(rec) \subseteq KnownIPs(rec') /\ rec'.idx = rec.idx
    BY <1>1, <2>1, ReportResultKeeps
  <2> QED BY <2>2
<1>5. CASE ReportLatency
  BY <1>1, <1>5 DEF ReportLatency
<1>6. CASE \E offer \in PeerOffers : MergeFromPeer(offer)
  <2>1. PICK offer \in PeerOffers : MergeFromPeer(offer)
    BY <1>6
  <2>2. Keeps(rec, rec')
    BY <1>1, <2>1, MergeFromPeerKeeps
  <2>3. offer \in SUBSET IPs
    BY OffersAreIPs
  <2>4. PICK r \in Rebuilding(rec, offer) :
           rec' \in Listing([r EXCEPT !.white = r.white \cup offer], r.white \cup offer)
    BY <1>1, <2>1 DEF MergeFromPeer
  <2>5. r \in DNSRecord /\ DuplicateFree(r) /\ r.idx = rec.idx
    BY <1>1, <2>3, RebuildingKeeps DEF Sound
  <2> DEFINE u == [r EXCEPT !.white = r.white \cup offer]
  <2>6. u \in DNSRecord /\ DuplicateFree(u) /\ u.idx = r.idx
    BY <2>3, <2>5 DEF DNSRecord, DuplicateFree
  <2>7. r.white \cup offer \in SUBSET IPs
    BY <2>3, <2>5 DEF DNSRecord
  <2> HIDE DEF u
  <2>8. rec'.idx = u.idx
    BY <2>4, <2>6, <2>7, ListingKeeps DEF u
  <2> QED BY <2>2, <2>5, <2>6, <2>8 DEF Keeps
<1> QED BY <1>2, <1>3, <1>4, <1>5, <1>6 DEF Other

LEMMA ServeTurns ==
    ASSUME PoolInv, NEW n \in Counts, Serve(n)
    PROVE  TurnInv'
<1>1. PICK r \in Listing(rec, rec.white) :
         /\ rec # NoRecord
         /\ \E c \in Candidates(r) :
               /\ Take(r, c, n)
               /\ last' = [cands |-> c, pos |-> ((r.idx + n - 1) % Len(c)) + 1]
  BY DEF Serve
<1>2. PICK c \in Candidates(r) :
         /\ Take(r, c, n)
         /\ last' = [cands |-> c, pos |-> ((r.idx + n - 1) % Len(c)) + 1]
  BY <1>1
<1>3. Sound(r)
  BY <1>1, WhiteListing DEF Keeps
<1>4. c \in Seq(IPs) /\ c # <<>> /\ (r.v6 = <<>> => Len(c) <= Len(r.v4))
  BY <1>2, <1>3, CandidatesFit, CandidatesAre DEF Take, Sound
<1>5. Len(c) \in Nat \ {0}
  BY <1>4, EmptySeq
<1>6. r.idx \in Nat /\ n \in Nat /\ r.idx + n - 1 \in Nat
  BY <1>3 DEF Sound, DNSRecord, Counts
<1>7. (r.idx + n) % Len(c) = (((r.idx + n - 1) % Len(c)) + 1) % Len(c)
  <2>1. ((r.idx + n - 1) + 1) % Len(c) = (((r.idx + n - 1) % Len(c)) + 1) % Len(c)
    BY <1>5, <1>6, NextRemainder
  <2>2. (r.idx + n - 1) + 1 = r.idx + n
    BY <1>6
  <2> QED BY <2>1, <2>2
<1>8. rec' \in DNSRecord /\ rec'.idx = (r.idx + n) % Len(c) /\ rec'.v4 = r.v4 /\ rec'.v6 = r.v6
  <2>1. (r.idx + n) % Len(c) \in Nat
    BY <1>5, <1>6
  <2>2. rec' = [r EXCEPT !.idx = (r.idx + n) % Len(c)]
    BY <1>2 DEF Take
  <2> QED BY <1>3, <2>1, <2>2 DEF Sound, DNSRecord
<1>9. ((r.idx + n - 1) % Len(c)) + 1 \in Nat
  BY <1>5, <1>6
<1>10. /\ last'.cands = c
       /\ last'.pos = ((r.idx + n - 1) % Len(c)) + 1
  BY <1>2
<1> QED BY <1>4, <1>5, <1>7, <1>8, <1>9, <1>10, NoRecordIsNil DEF TurnInv

(* As long as all addresses known of a domain are IPv4, they are served    *)
(* strictly in turn, whatever is resolved, reported or merged between two  *)
(* calls (dns_pool.go:454).  With both families save compares the index,   *)
(* which runs over both lists, with the length of one and restarts the     *)
(* rotation, and the claim is false.                                       *)
THEOREM OneFamilyInTurn == RotationSpec => []InTurn
<1>1. RotationInit => TurnInv
  BY DEF RotationInit, TurnInv
<1>2. PoolInv /\ TurnInv /\ [RotationNext]_rotationVars => TurnInv'
  <2> SUFFICES ASSUME PoolInv, TurnInv, [RotationNext]_rotationVars
               PROVE  TurnInv'
    OBVIOUS
  <2>1. CASE NewRotation
    BY <2>1 DEF NewRotation, TurnInv
  <2>2. CASE \E n \in Counts : Serve(n)
    BY <2>2, ServeTurns
  <2>3. CASE Other
    <3> SUFFICES ASSUME last # NoTurn PROVE TurnInv'
      BY <2>3 DEF Other, TurnInv
    <3>1. rec # NoRecord /\ Sound(rec) /\ Len(last.cands) \in Nat \ {0} /\ last.pos \in Nat
      BY DEF TurnInv, PoolInv
    <3>2. /\ Sound(rec') /\ KnownIPs(rec) \subseteq KnownIPs(rec')
          /\ (rec'.v6 = <<>> /\ rec.idx < Len(rec.v4)) => rec'.idx = rec.idx
      BY <2>3, <3>1, IndexKept
    <3>3. rec' # NoRecord /\ last' = last
      BY <2>3, <3>2, NoRecordIsNil DEF Sound, Other
    <3> SUFFICES ASSUME rec'.v6 = <<>>
                 PROVE  rec'.idx = last.pos % Len(last.cands) /\ Len(last.cands) <= Len(rec'.v4)
      BY <3>1, <3>3 DEF TurnInv
    <3> DEFINE L == Len(last.cands)
    <3>4. rec.v6 = <<>>
      BY <3>1, <3>2, OneListBefore
    <3>5. L \in Nat \ {0} /\ last.pos \in Nat /\ rec.idx = last.pos % L /\ L <= Len(rec.v4)
      BY <3>4 DEF TurnInv
    <3>6. Len(rec.v4) <= Len(rec'.v4) /\ Len(rec'.v4) \in Nat /\ Len(rec.v4) \in Nat
      BY <3>1, <3>2, MoreKnownLonger
    <3> HIDE DEF L
    <3>7. last.pos % L \in 0..(L - 1)
      BY <3>5, Quotient
    <3>8. rec.idx < Len(rec.v4) /\ L <= Len(rec'.v4)
      BY <3>5, <3>6, <3>7
    <3> QED BY <3>2, <3>5, <3>8 DEF L
  <2>4. CASE UNCHANGED rotationVars
    BY <2>4 DEF rotationVars, TurnInv
  <2> QED BY <2>1, <2>2, <2>3, <2>4 DEF RotationNext
<1>3. PoolInv /\ TurnInv => InTurn
  <2> SUFFICES ASSUME PoolInv, TurnInv, last # NoTurn, rec # NoRecord, rec.v6 = <<>>
               PROVE  HandOut(last.cands, rec.idx, 1)[1]
                         = last.cands[(last.pos % Len(last.cands)) + 1]
    BY DEF InTurn
  <2> DEFINE L == Len(last.cands)
  <2>1. L \in Nat \ {0} /\ last.pos \in Nat /\ rec.idx = last.pos % L
    BY DEF TurnInv
  <2>2. rec.idx \in 0..(L - 1)
    BY <2>1, Quotient
  <2>3. (rec.idx + 1 - 1) % L = rec.idx
    BY <2>1, <2>2, SmallRemainder
  <2> QED BY <2>1, <2>3 DEF HandOut
<1> QED BY <1>1, <1>2, <1>3, RotationIsPool, PoolInvariant, PTL DEF RotationSpec

-----------------------------------------------------------------------------
(* The callers of NextIP.  What they set aside, or carry to be set aside,  *)
(* is the rest of one batch.                                               *)
CallStates == [at : Steps, batch : Seq(IPs), ip : IPs \cup {NoIP}]

ReserveTypes ==
    /\ call \in [Callers -> CallStates]
    /\ reserved \in Seq(IPs)

BatchesEven ==
    /\ Even(reserved)
    /\ \A c \in Callers : call[c].at = "store" =>
          Even(call[c].batch) /\ Len(call[c].batch) = BatchSize

(* As no address is forgotten but by a reload, all of them are known.      *)
SetAsideKnown ==
    ~reloaded =>
        /\ Elements(reserved) \subseteq KnownIPs(Current)
        /\ \A c \in Callers : Elements(call[c].batch) \subseteq KnownIPs(Current)

ReserveInv == PoolInv /\ ReserveTypes /\ BatchesEven /\ SetAsideKnown

(* The pool's part of a step: one of its operations, or none.              *)
LEMMA PoolGrows ==
    ASSUME PoolInv,
           \/ UNCHANGED rec
           \/ Unreported
           \/ \E ip \in IPs, status \in Statuses : ReportResult(ip, status)
    PROVE  PoolInv' /\ KnownIPs(Current) \subseteq KnownIPs(Current')
<1>1. CASE UNCHANGED rec
  BY <1>1 DEF PoolInv, Current
<1>2. ASSUME Sound(rec'), KnownIPs(Current) \subseteq KnownIPs(rec')
      PROVE  PoolInv' /\ KnownIPs(Current) \subseteq KnownIPs(Current')
  <2>1. Current' = rec'
    BY <1>2, NoRecordIsNil DEF Sound, Current
  <2> QED BY <1>2, <2>1 DEF PoolInv
<1>3. CASE Unreported
  BY <1>2, <1>3, UnreportedKeeps DEF Keeps
<1>4. CASE \E ip \in IPs, status \in Statuses : ReportResult(ip, status)
  BY <1>2, <1>4, ReportResultKeeps
<1> QED BY <1>1, <1>3, <1>4

(* What is taken of the candidates is listed in the record left behind.    *)
LEMMA TakeKnown ==
    ASSUME PoolInv, rec # NoRecord, NEW r \in Listing(rec, rec.white),
           NEW cands \in Candidates(r), NEW n \in Counts, Take(r, cands, n)
    PROVE  /\ HandOut(cands, r.idx, n) \in Seq(IPs)
           /\ Len(HandOut(cands, r.idx, n)) = n
           /\ Elements(HandOut(cands, r.idx, n)) \subseteq KnownIPs(Current')
           /\ Even(HandOut(cands, r.idx, n))
<1>1. Sound(r) /\ r \in DNSRecord /\ r.idx \in Nat /\ n \in Nat
  BY WhiteListing DEF Keeps, Sound, DNSRecord, Counts
<1>2. cands \in Seq(IPs) /\ IsInjective(cands) /\ cands # <<>>
      /\ Elements(cands) \subseteq KnownIPs(r)
  BY <1>1, CandidatesAre DEF Sound, Take
<1>3. KnownIPs(rec') = KnownIPs(r) /\ rec' # NoRecord
  <2>1. Len(cands) \in Nat \ {0}
    BY <1>2, EmptySeq, LenProperties
  <2>2. (r.idx + n) % Len(cands) \in Nat
    BY <1>1, <2>1
  <2>3. rec' = [r EXCEPT !.idx = (r.idx + n) % Len(cands)]
    BY DEF Take
  <2>4. rec' \in DNSRecord /\ rec'.v4 = r.v4 /\ rec'.v6 = r.v6
    BY <1>1, <2>2, <2>3 DEF DNSRecord
  <2> QED BY <2>4, NoRecordIsNil DEF KnownIPs
<1>4. Current' = rec'
  BY <1>3 DEF Current
<1> QED BY <1>1, <1>2, <1>3, <1>4, HandOutIsList, HandOutEven

(* What a step of caller c leaves behind: the invariant, seen from c, and  *)
(* a known address if it is one that returns.                              *)
Moves(c) ==
    /\ call' \in [Callers -> CallStates]
    /\ \A d \in Callers \ {c} : call'[d] = call[d]
    /\ reserved' \in Seq(IPs) /\ Even(reserved')
    /\ call'[c].at = "store" => Even(call'[c].batch) /\ Len(call'[c].batch) = BatchSize
    /\ ~reloaded => /\ Elements(reserved') \subseteq KnownIPs(Current')
                    /\ Elements(call'[c].batch) \subseteq KnownIPs(Current')
    /\ (call'[c].at = "done" /\ call[c].at # "done" /\ ~reloaded) =>
          call'[c].ip \in KnownIPs(Current') \cup {NoIP}

(* The call goes on, and what it holds stays.                              *)
LEMMA GotoMoves ==
    ASSUME ReserveInv, PoolInv', KnownIPs(Current) \subseteq KnownIPs(Current'),
           NEW c \in Callers, NEW from, NEW to \in Steps \ {"store", "done"},
           Goto(c, from, to), reserved' = reserved \/ reserved' = <<>>
    PROVE  Moves(c)
<1>1. call \in [Callers -> CallStates] /\ reserved \in Seq(IPs) /\ Even(reserved)
  BY DEF ReserveInv, ReserveTypes, BatchesEven
<1>2. /\ call' \in [Callers -> CallStates]
      /\ call'[c].at = to /\ call'[c].batch = call[c].batch
      /\ \A d \in Callers \ {c} : call'[d] = call[d]
  BY <1>1 DEF Goto, CallStates
<1>3. <<>> \in Seq(IPs) /\ Even(<<>>) /\ Elements(<<>>) = {}
  BY DEF Even, Elements
<1>4. reserved' \in Seq(IPs) /\ Even(reserved') /\ Elements(reserved') \subseteq Elements(reserved)
  BY <1>1, <1>3
<1>5. ~reloaded => /\ Elements(reserved) \subseteq KnownIPs(Current)
                   /\ Elements(call[c].batch) \subseteq KnownIPs(Current)
  BY DEF ReserveInv, SetAsideKnown
<1> QED BY <1>2, <1>4, <1>5 DEF Moves

(* The call returns an address and holds nothing any more.                 *)
LEMMA ReturnMoves ==
    ASSUME ReserveInv, NEW c \in Callers, NEW from, NEW ip \in IPs \cup {NoIP},
           Return(c, from, ip), reserved' \in Seq(IPs), Even(reserved'),
           ~reloaded => /\ Elements(reserved') \subseteq KnownIPs(Current')
                        /\ ip \in KnownIPs(Current') \cup {NoIP}
    PROVE  Moves(c)
<1>1. call \in [Callers -> CallStates]
  BY DEF ReserveInv, ReserveTypes
<1>2. <<>> \in Seq(IPs) /\ Elements(<<>>) = {}
  BY DEF Elements
<1> DEFINE k == [Idle EXCEPT !.at = "done", !.ip = ip]
<1>3. k \in CallStates /\ k.at = "done" /\ k.batch = <<>> /\ k.ip = ip
  BY <1>2 DEF Idle, CallStates, Steps
<1>4. call' = [call EXCEPT ![c] = k]
  BY DEF Return
<1> HIDE DEF k
<1>5. /\ call' \in [Callers -> CallStates] /\ call'[c] = k
      /\ \A d \in Callers \ {c} : call'[d] = call[d]
  BY <1>1, <1>3, <1>4
<1> QED BY <1>2, <1>3, <1>5 DEF Moves

LEMMA TakeBatchMoves ==
    ASSUME ReserveInv, NEW c \in Callers, TakeBatch(c)
    PROVE  PoolInv' /\ KnownIPs(Current) \subseteq KnownIPs(Current') /\ Moves(c)
<1>1. PICK r \in Listing(rec, rec.white) : \E cands \in Candidates(r) :
          /\ Take(r, cands, BatchSize)
          /\ call' = [call EXCEPT ![c].at = "store",
                                  ![c].batch = HandOut(cands, r.idx, BatchSize)]
  BY DEF TakeBatch
<1>2. PICK cands \in Candidates(r) :
          /\ Take(r, cands, BatchSize)
          /\ call' = [call EXCEPT ![c].at = "store",
                                  ![c].batch = HandOut(cands, r.idx, BatchSize)]
  BY <1>1
<1>3. BatchSize \in Counts /\ rec # NoRecord /\ reserved' = reserved
  BY DEF BatchSize, Counts, TakeBatch
<1>4. PoolInv' /\ KnownIPs(Current) \subseteq KnownIPs(Current')
  <2>1. NextIPs(BatchSize)
    BY <1>2, <1>3 DEF NextIPs
  <2> QED BY <1>3, <2>1, PoolGrows DEF ReserveInv, Unreported
<1> DEFINE b == HandOut(cands, r.idx, BatchSize)
<1>5. /\ b \in Seq(IPs) /\ Len(b) = BatchSize /\ Even(b)
      /\ Elements(b) \subseteq KnownIPs(Current')
  BY <1>2, <1>3, TakeKnown DEF ReserveInv
<1> HIDE DEF b
<1>6. call' = [call EXCEPT ![c].at = "store", ![c].batch = b]
  BY <1>2 DEF b
<1>7. call \in [Callers -> CallStates] /\ reserved \in Seq(IPs) /\ Even(reserved)
  BY DEF ReserveInv, ReserveTypes, BatchesEven
<1>8. /\ call'[c].at = "store" /\ call'[c].batch = b
      /\ \A d \in Callers \ {c} : call'[d] = call[d]
  BY <1>6, <1>7 DEF CallStates
<1>9. call' \in [Callers -> CallStates]
  BY <1>5, <1>6, <1>7 DEF CallStates, Steps
<1>10. ~reloaded => Elements(reserved) \subseteq KnownIPs(Current)
  BY DEF ReserveInv, SetAsideKnown
<1> QED BY <1>3, <1>4, <1>5, <1>7, <1>8, <1>9, <1>10 DEF Moves

LEMMA TakeOneMoves ==
    ASSUME ReserveInv, NEW c \in Callers, TakeOne(c)
    PROVE  PoolInv' /\ KnownIPs(Current) \subseteq KnownIPs(Current') /\ Moves(c)
<1>1. PICK r \in Listing(rec, rec.white) : \E cands \in Candidates(r) :
          Take(r, cands, 1) /\ Return(c, "take1", HandOut(cands, r.idx, 1)[1])
  BY DEF TakeOne
<1>2. PICK cands \in Candidates(r) :
          Take(r, cands, 1) /\ Return(c, "take1", HandOut(cands, r.idx, 1)[1])
  BY <1>1
<1>3. 1 \in Counts /\ rec # NoRecord /\ reserved' = reserved
  BY DEF Counts, TakeOne
<1>4. PoolInv' /\ KnownIPs(Current) \subseteq KnownIPs(Current')
  <2>1. NextIPs(1)
    BY <1>2, <1>3 DEF NextIPs
  <2> QED BY <1>3, <2>1, PoolGrows DEF ReserveInv, Unreported
<1> DEFINE b == HandOut(cands, r.idx, 1)
<1>5. b \in Seq(IPs) /\ Len(b) = 1 /\ Elements(b) \subseteq KnownIPs(Current')
  BY <1>2, <1>3, TakeKnown DEF ReserveInv
<1> HIDE DEF b
<1>6. b[1] \in IPs /\ b[1] \in KnownIPs(Current')
  BY <1>5, LenProperties, ElementOfSeq DEF Elements
<1>7. Return(c, "take1", b[1])
  BY <1>2 DEF b
<1>8. /\ reserved' \in Seq(IPs) /\ Even(reserved')
      /\ ~reloaded => Elements(reserved') \subseteq KnownIPs(Current')
  BY <1>3, <1>4 DEF ReserveInv, ReserveTypes, BatchesEven, SetAsideKnown
<1> QED BY <1>4, <1>6, <1>7, <1>8, ReturnMoves

(* The steps that leave the record alone.                                  *)
LEMMA SetAsideMoves ==
    ASSUME ReserveInv, NEW c \in Callers,
           PopReserved(c) \/ MissReserved(c) \/ CheckWindow(c) \/ StoreBatch(c)
    PROVE  PoolInv' /\ KnownIPs(Current) \subseteq KnownIPs(Current') /\ Moves(c)
<1>1. UNCHANGED rec
  BY DEF PopReserved, MissReserved, CheckWindow, StoreBatch
<1>2. PoolInv' /\ Current' = Current
  BY <1>1 DEF ReserveInv, PoolInv, Current
<1>3. /\ call \in [Callers -> CallStates] /\ reserved \in Seq(IPs) /\ Even(reserved)
      /\ ~reloaded => /\ Elements(reserved) \subseteq KnownIPs(Current)
                      /\ Elements(call[c].batch) \subseteq KnownIPs(Current)
  BY DEF ReserveInv, ReserveTypes, BatchesEven, SetAsideKnown
<1>4. CASE PopReserved(c)
  <2>1. /\ Tail(reserved) \in Seq(IPs) /\ Even(Tail(reserved))
        /\ Head(reserved) \in IPs /\ Head(reserved) \in Elements(reserved)
        /\ Elements(Tail(reserved)) \subseteq Elements(reserved)
    BY <1>3, <1>4, TailEven DEF PopReserved
  <2>2. Return(c, "reserve", Head(reserved)) /\ reserved' = Tail(reserved)
    BY <1>4 DEF PopReserved
  <2> QED BY <1>2, <1>3, <2>1, <2>2, ReturnMoves
<1>5. CASE MissReserved(c)
  BY <1>2, <1>5, GotoMoves DEF MissReserved, Steps
<1>6. CASE CheckWindow(c)
  BY <1>2, <1>6, GotoMoves DEF CheckWindow, Steps
<1>7. CASE StoreBatch(c)
  <2>1. call[c].at = "store"
    BY <1>7 DEF StoreBatch, Return
  <2>2. call[c].batch \in Seq(IPs) /\ Even(call[c].batch) /\ Len(call[c].batch) = 8
    BY <1>3, <2>1 DEF ReserveInv, BatchesEven, BatchSize, CallStates
  <2>3. call[c].batch[1] \in IPs /\ call[c].batch[1] \in Elements(call[c].batch)
    BY <2>2, LenProperties, ElementOfSeq DEF Elements
  <2>4. Return(c, "store", call[c].batch[1]) /\ reserved' = call[c].batch
    BY <1>7 DEF StoreBatch
  <2> QED BY <1>2, <1>3, <2>2, <2>3, <2>4, ReturnMoves
<1> QED BY <1>2, <1>4, <1>5, <1>6, <1>7

LEMMA InsideMoves ==
    ASSUME ReserveInv, NEW c \in Callers, Inside(c)
    PROVE  PoolInv' /\ KnownIPs(Current) \subseteq KnownIPs(Current') /\ Moves(c)
<1>1. /\ reserved \in Seq(IPs) /\ Even(reserved)
      /\ ~reloaded => Elements(reserved) \subseteq KnownIPs(Current)
  BY DEF ReserveInv, ReserveTypes, BatchesEven, SetAsideKnown
<1>2. ASSUME NEW from, NEW to \in {"take8", "take1"}, FindRecord(c, from, to)
      PROVE  PoolInv' /\ KnownIPs(Current) \subseteq KnownIPs(Current') /\ Moves(c)
  <2>1. UNCHANGED rec \/ Unreported
    BY <1>2 DEF FindRecord, Unreported
  <2>2. Goto(c, from, to) /\ reserved' = reserved /\ to \in Steps \ {"store", "done"}
    BY <1>2 DEF FindRecord, Steps
  <2>3. PoolInv' /\ KnownIPs(Current) \subseteq KnownIPs(Current')
    BY <2>1, PoolGrows DEF ReserveInv
  <2> QED BY <2>2, <2>3, GotoMoves
<1>3. CASE BatchFails(c)
  <2>1. UNCHANGED rec \/ Unreported
    BY <1>3 DEF BatchFails, Unreported
  <2>2. PoolInv' /\ KnownIPs(Current) \subseteq KnownIPs(Current')
    BY <2>1, PoolGrows DEF ReserveInv
  <2>3. reserved' = reserved /\ "find1" \in Steps \ {"store", "done"}
    BY <1>3 DEF BatchFails, Steps
  <2>4. Goto(c, "find8", "find1") \/ Goto(c, "take8", "find1")
    BY <1>3 DEF BatchFails
  <2> QED BY <2>2, <2>3, <2>4, GotoMoves
<1>4. CASE OneFails(c)
  <2>1. UNCHANGED rec \/ Unreported
    BY <1>4 DEF OneFails, Unreported
  <2>2. PoolInv' /\ KnownIPs(Current) \subseteq KnownIPs(Current')
    BY <2>1, PoolGrows DEF ReserveInv
  <2>3. reserved' = reserved
    BY <1>4 DEF OneFails
  <2>4. Return(c, "find1", NoIP) \/ Return(c, "take1", NoIP)
    BY <1>4 DEF OneFails
  <2> QED BY <1>1, <2>2, <2>3, <2>4, ReturnMoves
<1> QED BY <1>2, <1>3, <1>4, SetAsideMoves, TakeBatchMoves, TakeOneMoves DEF Inside

(* The two ends of a call.                                                 *)
LEMMA CallerMoves ==
    ASSUME ReserveInv, NEW c \in Callers, CallNextIP(c) \/ Inside(c) \/ Resume(c)
    PROVE  PoolInv' /\ KnownIPs(Current) \subseteq KnownIPs(Current') /\ Moves(c)
<1>1. ASSUME UNCHANGED rec PROVE PoolInv' /\ Current' = Current
  BY <1>1 DEF ReserveInv, PoolInv, Current
<1>2. CASE CallNextIP(c)
  BY <1>1, <1>2, GotoMoves DEF CallNextIP, Steps
<1>3. CASE Resume(c)
  <2>1. call' = [call EXCEPT ![c] = Idle] /\ reserved' = reserved /\ Current' = Current /\ PoolInv'
    BY <1>1, <1>3 DEF Resume
  <2>2. Idle \in CallStates /\ Idle.at = "idle" /\ Elements(Idle.batch) = {}
    BY DEF Idle, CallStates, Steps, Elements
  <2>3. call \in [Callers -> CallStates] /\ reserved \in Seq(IPs) /\ Even(reserved)
    BY DEF ReserveInv, ReserveTypes, BatchesEven
  <2>4. /\ call' \in [Callers -> CallStates] /\ call'[c] = Idle
        /\ \A d \in Callers \ {c} : call'[d] = call[d]
    BY <2>1, <2>2, <2>3
  <2>5. ~reloaded => Elements(reserved) \subseteq KnownIPs(Current)
    BY DEF ReserveInv, SetAsideKnown
  <2> QED BY <2>1, <2>2, <2>3, <2>4, <2>5 DEF Moves
<1> QED BY <1>2, <1>3, InsideMoves

LEMMA MovesKeep ==
    ASSUME ReserveInv, UNCHANGED reloaded, NEW c \in Callers,
           PoolInv', KnownIPs(Current) \subseteq KnownIPs(Current'), Moves(c)
    PROVE  ReserveInv'
<1>1. ReserveTypes'
  BY DEF Moves, ReserveTypes
<1>2. BatchesEven'
  BY DEF Moves, ReserveInv, BatchesEven
<1>3. SetAsideKnown'
  BY DEF Moves, ReserveInv, SetAsideKnown
<1> QED BY <1>1, <1>2, <1>3 DEF ReserveInv

LEMMA ReserveStep == ReserveInv /\ [ReserveNext]_vars => ReserveInv'
<1> SUFFICES ASSUME ReserveInv, [ReserveNext]_vars PROVE ReserveInv'
  OBVIOUS
<1>1. CASE Reload
  <2>1. PoolInv'
    BY <1>1, LoadedSound DEF Reload, HotReload, PoolInv
  <2> QED BY <1>1, <2>1 DEF Reload, ReserveInv, ReserveTypes, BatchesEven, SetAsideKnown
<1>2. ASSUME NEW c \in Callers, CallNextIP(c) \/ Inside(c) \/ Resume(c), UNCHANGED reloaded
      PROVE  ReserveInv'
  BY <1>2, CallerMoves, MovesKeep
<1>3. ASSUME UNCHANGED <<reserved, call, reloaded>>, PoolInv',
             KnownIPs(Current) \subseteq KnownIPs(Current')
      PROVE  ReserveInv'
  BY <1>3 DEF ReserveInv, ReserveTypes, BatchesEven, SetAsideKnown
<1>4. CASE Elsewhere /\ UNCHANGED reloaded
  <2>1. Unreported \/ \E ip \in IPs, status \in Statuses : ReportResult(ip, status)
    BY <1>4 DEF Elsewhere, Unreported
  <2> QED BY <1>3, <1>4, <2>1, PoolGrows DEF Elsewhere, ReserveInv
<1>5. CASE UNCHANGED vars
  BY <1>3, <1>5, PoolGrows DEF vars, ReserveInv
<1> QED BY <1>1, <1>2, <1>4, <1>5 DEF ReserveNext

(* The invariant of the callers, for any number of them.                   *)
THEOREM ReserveInvariant == ReserveSpec => []ReserveInv
<1>1. ReserveInit => ReserveInv
  <2> SUFFICES ASSUME ReserveInit PROVE ReserveInv
    OBVIOUS
  <2>1. PoolInv
    BY LoadedSound DEF ReserveInit, Init, PoolInv
  <2>2. <<>> \in Seq(IPs) /\ Elements(<<>>) = {} /\ Even(<<>>)
    BY DEF Elements, Even
  <2>3. Idle \in CallStates /\ Idle.at # "store" /\ Idle.batch = <<>>
    BY <2>2 DEF Idle, CallStates, Steps
  <2> QED BY <2>1, <2>2, <2>3 DEF ReserveInit, ReserveInv, ReserveTypes, BatchesEven, SetAsideKnown
<1> QED BY <1>1, ReserveStep, PTL DEF ReserveSpec

(* However calls interleave, what is set aside for the next ones is the    *)
(* rest of a batch that favours no address.                                *)
THEOREM SetAsideEvenly == ReserveSpec => []ReserveEven
<1>1. ReserveInv => ReserveEven
  BY DEF ReserveInv, BatchesEven, Even, ReserveEven
<1> QED BY <1>1, ReserveInvariant, PTL

(* A call never returns an address the pool does not know, until the file  *)
(* is loaded again: however long a batch was set aside, and whatever was   *)
(* reported or merged since.                                               *)
THEOREM KnownReturned == ReserveSpec => ReturnsListed
<1> DEFINE Listed ==
      \A c \in Callers : (call'[c].at = "done" /\ call[c].at # "done" /\ ~reloaded) =>
          call'[c].ip \in KnownIPs(Current') \cup {NoIP}
<1>1. ReserveInv /\ [ReserveNext]_vars => [Listed]_vars
  <2> SUFFICES ASSUME ReserveInv, ReserveNext PROVE Listed
    OBVIOUS
  <2>1. CASE Reload \/ Elsewhere
    BY <2>1 DEF Reload, Elsewhere
  <2>2. ASSUME NEW c \in Callers, CallNextIP(c) \/ Inside(c) \/ Resume(c) PROVE Listed
    <3>1. Moves(c)
      BY <2>2, CallerMoves
    <3> QED BY <3>1 DEF Moves
  <2> QED BY <2>1, <2>2 DEF ReserveNext
<1> QED BY <1>1, ReserveInvariant, PTL DEF ReserveSpec, ReturnsListed

(* What FetchPath uses NextIP through: it returns an address listed in the *)
(* record it leaves behind, or none, and that only when the record offers  *)
(* no candidate.                                                           *)
Promised(ip) == ip \in IPs \cap KnownIPs(Current') \/ (ip = NoIP /\ <<>> \in Candidates(Current'))

(* A domain without a record has no candidates.                            *)
LEMMA NoneOfNothing == <<>> \in Candidates(EmptyRecord)
<1> DEFINE keep == {i \in DOMAIN Usable(EmptyRecord) : Usable(EmptyRecord)[i] \notin EmptyRecord.black}
<1>1. Usable(EmptyRecord) = <<>>
  BY DEF Usable, EmptyRecord
<1>2. keep = {} /\ Cardinality({}) = 0 /\ 1..0 = {}
  BY <1>1, FS_EmptySet
<1>3. <<>> \in Orderings({})
  <2>1. <<>> \in [{} -> {}] /\ DOMAIN <<>> = {}
    OBVIOUS
  <2> QED BY <1>2, <2>1 DEF Orderings, Bijection, Injection, Surjection, IsInjective
<1>4. <<>> = [k \in 1..Cardinality(keep) |-> Usable(EmptyRecord)[<<>>[k]]]
  <2>1. 1..Cardinality(keep) = {}
    BY <1>2
  <2>2. \A F : F = <<>> <=> (F = [x \in {} |-> F[x]])
    OBVIOUS
  <2> QED BY <2>1, <2>2
<1>5. \A i, j \in 1..Cardinality(keep) : i < j => <<>>[i] < <<>>[j]
  BY <1>2
<1>6. <<>> \in Orderings(keep)
  BY <1>2, <1>3
<1> QED BY <1>4, <1>5, <1>6 DEF Candidates

LEMMA NoneMeansNone ==
    ASSUME NEW c \in Callers, OneFails(c)
    PROVE  <<>> \in Candidates(Current')
<1>1. CASE NoRecordFound(call[c].at) /\ UNCHANGED rec
  BY <1>1, NoneOfNothing DEF NoRecordFound, Current
<1>2. CASE NextIPsFails
  <2>1. CASE rec' = NoRecord
    BY <2>1, NoneOfNothing DEF Current
  <2>2. CASE rec' # NoRecord
    BY <1>2, <2>2 DEF NextIPsFails, Current
  <2> QED BY <2>1, <2>2
<1> QED BY <1>1, <1>2 DEF OneFails

LEMMA ReturnsPromised ==
    ASSUME ReserveInv, NEW c \in Callers, CallNextIP(c) \/ Inside(c) \/ Resume(c),
           call'[c].at = "done", call[c].at # "done", ~reloaded
    PROVE  Promised(call'[c].ip)
<1>1. call'[c].ip \in KnownIPs(Current') \cup {NoIP}
  BY CallerMoves DEF Moves
<1>2. /\ call \in [Callers -> CallStates] /\ reserved \in Seq(IPs)
      /\ call[c].at = "store" => Len(call[c].batch) = BatchSize
  BY DEF ReserveInv, ReserveTypes, BatchesEven
<1>3. ASSUME call'[c].ip \in IPs PROVE Promised(call'[c].ip)
  BY <1>1, <1>3, NoIPIsNone DEF Promised
<1>4. ASSUME NEW from, NEW ip, Return(c, from, ip) PROVE call'[c].ip = ip
  BY <1>2, <1>4 DEF Return, Idle
<1>5. CASE PopReserved(c)
  BY <1>2, <1>3, <1>4, <1>5 DEF PopReserved
<1>6. CASE StoreBatch(c)
  <2>1. call[c].batch \in Seq(IPs) /\ Len(call[c].batch) = 8
    BY <1>2, <1>6 DEF StoreBatch, Return, CallStates, BatchSize
  <2>2. call[c].batch[1] \in IPs
    BY <2>1
  <2> QED BY <1>3, <1>4, <1>6, <2>2 DEF StoreBatch
<1>7. CASE TakeOne(c)
  <2>1. PICK r \in Listing(rec, rec.white) : \E cands \in Candidates(r) :
           Take(r, cands, 1) /\ Return(c, "take1", HandOut(cands, r.idx, 1)[1])
    BY <1>7 DEF TakeOne
  <2>2. PICK cands \in Candidates(r) :
           Take(r, cands, 1) /\ Return(c, "take1", HandOut(cands, r.idx, 1)[1])
    BY <2>1
  <2>3. 1 \in Counts /\ PoolInv /\ rec # NoRecord
    BY <1>7 DEF Counts, TakeOne, ReserveInv
  <2>4. HandOut(cands, r.idx, 1) \in Seq(IPs) /\ Len(HandOut(cands, r.idx, 1)) = 1
    BY <2>2, <2>3, TakeKnown
  <2>5. HandOut(cands, r.idx, 1)[1] \in IPs
    BY <2>4
  <2> QED BY <1>3, <1>4, <2>2, <2>5
<1>8. CASE OneFails(c)
  <2>1. Return(c, "find1", NoIP) \/ Return(c, "take1", NoIP)
    BY <1>8 DEF OneFails
  <2> QED BY <1>4, <1>8, <2>1, NoneMeansNone DEF Promised
<1>9. ASSUME NEW from, NEW to, to # "done" PROVE ~Goto(c, from, to)
  BY <1>2, <1>9 DEF Goto, CallStates
<1>10. ~Resume(c)
  BY <1>2 DEF Resume, Idle
<1>11. ~TakeBatch(c)
  BY <1>2 DEF TakeBatch, CallStates
<1>12. /\ ~CallNextIP(c) /\ ~MissReserved(c) /\ ~CheckWindow(c) /\ ~BatchFails(c)
       /\ ~FindRecord(c, "find8", "take8") /\ ~FindRecord(c, "find1", "take1")
  BY <1>9 DEF CallNextIP, MissReserved, CheckWindow, BatchFails, FindRecord
<1> QED BY <1>5, <1>6, <1>7, <1>8, <1>10, <1>11, <1>12 DEF Inside

(* A call that returns keeps that promise, until the file is loaded again. *)
THEOREM NextIPPromise ==
    ReserveSpec =>
        [][\A c \in Callers : (call'[c].at = "done" /\ call[c].at # "done" /\ ~reloaded) =>
              Promised(call'[c].ip)]_vars
<1>1. ReserveInv /\ [ReserveNext]_vars
        => [\A c \in Callers : (call'[c].at = "done" /\ call[c].at # "done" /\ ~reloaded) =>
               Promised(call'[c].ip)]_vars
  <2> SUFFICES ASSUME ReserveInv, ReserveNext, NEW c \in Callers,
                      call'[c].at = "done", call[c].at # "done", ~reloaded
               PROVE  Promised(call'[c].ip)
    OBVIOUS
  <2>1. ~Reload /\ ~Elsewhere
    BY DEF Reload, Elsewhere
  <2>2. PICK d \in Callers : CallNextIP(d) \/ Inside(d) \/ Resume(d)
    BY <2>1 DEF ReserveNext
  <2>3. d = c
    BY <2>2, CallerMoves DEF Moves
  <2> QED BY <2>2, <2>3, ReturnsPromised
<1> QED BY <1>1, ReserveInvariant, PTL DEF ReserveSpec

(* The callers of NextIP, in any number and at any step, do nothing to the *)
(* record but what the pool offers, one locked operation at a time: what   *)
(* holds of the pool holds under every interleaving of them.               *)
THEOREM ReserveIsPool == ReserveSpec => Spec
<1>1. ReserveInit => Init
  BY DEF ReserveInit
<1>2. ReserveNext => Next \/ UNCHANGED rec
  <2> SUFFICES ASSUME ReserveNext PROVE Next \/ UNCHANGED rec
    OBVIOUS
  <2>1. ASSUME NEW n \in Counts, rec # NoRecord,
               \E r \in Listing(rec, rec.white) : \E c \in Candidates(r) : Take(r, c, n)
        PROVE  Next
    BY <2>1 DEF NextIPs, Next
  <2>2. 1 \in Counts /\ BatchSize \in Counts
    BY DEF Counts, BatchSize
  <2>3. CASE Reload \/ Elsewhere
    BY <2>3 DEF Reload, Elsewhere, Next
  <2>4. ASSUME NEW c \in Callers, TakeBatch(c) \/ TakeOne(c) PROVE Next
    BY <2>1, <2>2, <2>4 DEF TakeBatch, TakeOne
  <2>5. ASSUME NEW c \in Callers, BatchFails(c) \/ OneFails(c) PROVE Next \/ UNCHANGED rec
    BY <2>5 DEF BatchFails, OneFails, Next
  <2>6. ASSUME NEW c \in Callers, NEW from, NEW to, FindRecord(c, from, to)
        PROVE  Next \/ UNCHANGED rec
    BY <2>6 DEF FindRecord, Next
  <2>7. ASSUME NEW c \in Callers, Inside(c) PROVE Next \/ UNCHANGED rec
    BY <2>4, <2>5, <2>6, <2>7 DEF Inside, PopReserved, MissReserved, CheckWindow, StoreBatch
  <2> QED BY <2>3, <2>7 DEF ReserveNext, CallNextIP, Resume
<1>3. [ReserveNext]_vars => [Next]_rec
  BY <1>2 DEF vars
<1> QED BY <1>1, <1>3, PTL DEF ReserveSpec, Spec

-----------------------------------------------------------------------------
(* Induction over the natural numbers for a set: the library's rule has an *)
(* operator for its parameter.                                             *)
LEMMA Least ==
    ASSUME NEW T \in SUBSET Nat, T # {}
    PROVE  \E m \in T : \A n \in T : m <= n
<1> DEFINE R == OpToRel(<, Nat)
<1>1. IsWellFoundedOn(R, Nat)
  BY NatLessThanWellFounded
<1>2. \A x, y \in Nat : <<x, y>> \in R <=> x < y
  BY DEF OpToRel
<1> HIDE DEF R
<1>3. PICK m \in T : \A n \in T : ~(<<n, m>> \in R)
  BY <1>1, WFMin
<1>4. ASSUME NEW n \in T PROVE m <= n
  <2>1. m \in Nat /\ n \in Nat OBVIOUS
  <2>2. ~(n < m) BY <1>2, <1>3, <2>1
  <2> QED BY <2>1, <2>2
<1> QED BY <1>4

(* A set with 0 and the successors of its members is all of Nat.           *)
LEMMA SetInduction ==
    ASSUME NEW T \in SUBSET Nat, 0 \in T, \A n \in T : n + 1 \in T
    PROVE  T = Nat
<1> SUFFICES ASSUME Nat \ T # {} PROVE FALSE
  OBVIOUS
<1>1. PICK m \in Nat \ T : \A n \in Nat \ T : m <= n
  BY Least
<1>2. m - 1 \in T
  BY <1>1
<1> QED BY <1>1, <1>2

-----------------------------------------------------------------------------
(***************************************************************************)
(* The loop of GetHealthyNext over its addresses: F is what it has kept    *)
(* after k of them.                                                        *)
(***************************************************************************)
(* F lists, for each k, those of the first k members of A that are in G.   *)
Filters(F, A, G) ==
    /\ F = [k \in 0..Len(A) |-> F[k]]
    /\ F[0] = <<>>
    /\ \A k \in 1..Len(A) : F[k] = IF A[k] \in G THEN Append(F[k - 1], A[k]) ELSE F[k - 1]

(* Whatever A and G, there is such an F.                                   *)
LEMMA FilterExists ==
    ASSUME NEW S, NEW A \in Seq(S), NEW G
    PROVE  \E F : Filters(F, A, G)
<1> DEFINE Until(n, F) ==
       /\ F = [k \in 0..n |-> F[k]]
       /\ F[0] = <<>>
       /\ \A k \in 1..n : F[k] = IF A[k] \in G THEN Append(F[k - 1], A[k]) ELSE F[k - 1]
    T == {n \in Nat : \E F : Until(n, F)}
<1>1. 0 \in T
  <2>1. Until(0, [k \in 0..0 |-> <<>>])
    OBVIOUS
  <2> QED BY <2>1
<1>2. ASSUME NEW n \in T PROVE n + 1 \in T
  <2>1. PICK F : Until(n, F)
    OBVIOUS
  <2> DEFINE H == [k \in 0..(n + 1) |-> IF k \in 0..n THEN F[k]
                       ELSE IF A[k] \in G THEN Append(F[n], A[k]) ELSE F[n]]
  <2>2. n \in Nat /\ H[0] = <<>> /\ \A k \in 0..n : H[k] = F[k]
    BY <2>1
  <2>3. H[n + 1] = IF A[n + 1] \in G THEN Append(F[n], A[n + 1]) ELSE F[n]
    BY <2>2
  <2>4. \A k \in 1..(n + 1) : H[k] = IF A[k] \in G THEN Append(H[k - 1], A[k]) ELSE H[k - 1]
    <3> HIDE DEF H
    <3> SUFFICES ASSUME NEW k \in 1..(n + 1)
                 PROVE  H[k] = IF A[k] \in G THEN Append(H[k - 1], A[k]) ELSE H[k - 1]
      OBVIOUS
    <3>1. CASE k = n + 1
      BY <2>2, <2>3, <3>1
    <3>2. CASE k \in 1..n
      <4>1. k \in 0..n /\ k - 1 \in 0..n
        BY <2>2, <3>2
      <4>2. H[k] = F[k] /\ H[k - 1] = F[k - 1]
        BY <2>2, <4>1
      <4>3. F[k] = IF A[k] \in G THEN Append(F[k - 1], A[k]) ELSE F[k - 1]
        BY <2>1, <3>2
      <4> QED BY <4>2, <4>3
    <3> QED BY <2>2, <3>1, <3>2
  <2>5. H = [k \in 0..(n + 1) |-> H[k]]
    OBVIOUS
  <2>6. Until(n + 1, H)
    BY <2>2, <2>4, <2>5
  <2>7. \E K : Until(n + 1, K)
    <3> HIDE DEF H, Until
    <3> QED BY <2>6
  <2>8. n + 1 \in Nat
    BY <2>2
  <2> HIDE DEF Until
  <2> QED BY <2>7, <2>8
<1>3. T = Nat
  <2> HIDE DEF T
  <2>1. T \in SUBSET Nat
    BY DEF T
  <2> QED BY <1>1, <1>2, <2>1, SetInduction
<1>4. Len(A) \in T
  <2> HIDE DEF T
  <2> QED BY <1>3, LenProperties
<1> QED BY <1>4 DEF Filters

(* B has the members in G of the first k of A and no other, each once.     *)
Selected(B, A, G, k) ==
    /\ B \in Seq(Sources) /\ IsInjective(B) /\ Len(B) <= k
    /\ \A s : (\E i \in 1..Len(B) : B[i] = s) <=> s \in G /\ \E j \in 1..k : A[j] = s

(* Each list of F is the selection it should be.                           *)
LEMMA FilterFacts ==
    ASSUME NEW A \in Seq(Sources), IsInjective(A), NEW G, NEW F, Filters(F, A, G),
           NEW k \in 0..Len(A)
    PROVE  Selected(F[k], A, G, k)
<1> DEFINE Good(m) == Selected(F[m], A, G, m)
           T == {m \in Nat : m <= Len(A) => Good(m)}
<1> USE DEF Selected
<1>1. Good(0)
  <2>1. F[0] = <<>>
    BY DEF Filters
  <2> QED BY <2>1, EmptySeq DEF IsInjective
<1>2. ASSUME NEW m \in Nat, m + 1 <= Len(A), Good(m) PROVE Good(m + 1)
  <2>1. m + 1 \in 1..Len(A) /\ A[m + 1] \in Sources /\ (m + 1) - 1 = m
    BY <1>2, ElementOfSeq, LenProperties
  <2>2. F[m + 1] = IF A[m + 1] \in G THEN Append(F[m], A[m + 1]) ELSE F[m]
    BY <2>1 DEF Filters
  <2>3. \A s : (\E j \in 1..(m + 1) : A[j] = s) <=> (\E j \in 1..m : A[j] = s) \/ s = A[m + 1]
    <3>1. 1..(m + 1) = (1..m) \cup {m + 1}
      OBVIOUS
    <3> QED BY <3>1
  <2>4. CASE A[m + 1] \notin G
    BY <1>2, <2>2, <2>3, <2>4, LenProperties
  <2>5. CASE A[m + 1] \in G
    <3> DEFINE B == F[m]
               e == A[m + 1]
               L == Len(F[m])
    <3>1. L \in Nat /\ L <= m /\ B \in Seq(Sources) /\ IsInjective(B) /\ e \in Sources
      BY <1>2, <2>1, LenProperties
    <3>2. /\ F[m + 1] \in Seq(Sources) /\ Len(F[m + 1]) = L + 1
          /\ \A i \in 1..L : F[m + 1][i] = B[i]
          /\ F[m + 1][L + 1] = e
      BY <2>2, <2>5, <3>1, AppendProperties
    <3>3. \A i \in 1..L : B[i] # e
      <4> SUFFICES ASSUME NEW i \in 1..L, B[i] = e PROVE FALSE
        OBVIOUS
      <4>1. PICK j \in 1..m : A[j] = e
        BY <1>2
      <4>2. j \in 1..Len(A) /\ j # m + 1
        BY <1>2, <2>1, LenProperties
      <4> QED BY <2>1, <4>1, <4>2, LenProperties DEF IsInjective
    <3>4. 1..(L + 1) = (1..L) \cup {L + 1}
      BY <3>1
    <3>5. IsInjective(F[m + 1])
      <4>1. \A i, j \in 1..L : B[i] = B[j] => i = j
        BY <3>1, LenProperties DEF IsInjective
      <4>2. \A i, j \in 1..(L + 1) : F[m + 1][i] = F[m + 1][j] => i = j
        <5> HIDE DEF B, e, L
        <5> QED BY <3>2, <3>3, <3>4, <4>1
      <4>3. DOMAIN F[m + 1] = 1..(L + 1)
        BY <3>2, LenProperties
      <4> QED BY <4>2, <4>3 DEF IsInjective
    <3>6. \A s : (\E i \in 1..Len(F[m + 1]) : F[m + 1][i] = s)
                     <=> (\E i \in 1..L : B[i] = s) \/ s = e
      <4> HIDE DEF B, e, L
      <4> QED BY <3>2, <3>4
    <3>7. \A s : (\E i \in 1..L : B[i] = s) <=> s \in G /\ \E j \in 1..m : A[j] = s
      BY <1>2
    <3>8. \A s : (\E i \in 1..Len(F[m + 1]) : F[m + 1][i] = s)
                     <=> s \in G /\ \E j \in 1..(m + 1) : A[j] = s
      <4>1. e \in G /\ \A s : (\E j \in 1..(m + 1) : A[j] = s) <=> (\E j \in 1..m : A[j] = s) \/ s = e
        BY <2>3, <2>5
      <4> HIDE DEF B, e, L
      <4> QED BY <3>6, <3>7, <4>1
    <3>9. Len(F[m + 1]) <= m + 1
      BY <3>1, <3>2
    <3> QED BY <3>2, <3>5, <3>8, <3>9
  <2> QED BY <2>4, <2>5
<1> HIDE DEF Good
<1>3. 0 \in T
  BY <1>1
<1>4. ASSUME NEW m \in T PROVE m + 1 \in T
  <2>1. m \in Nat /\ (m <= Len(A) => Good(m)) /\ Len(A) \in Nat
    BY LenProperties
  <2> QED BY <1>2, <2>1
<1>5. T = Nat
  <2> HIDE DEF T
  <2>1. T \in SUBSET Nat
    BY DEF T
  <2> QED BY <1>3, <1>4, <2>1, SetInduction
<1>6. k \in T /\ k <= Len(A)
  <2>1. Len(A) \in Nat
    BY LenProperties
  <2> HIDE DEF T
  <2> QED BY <1>5, <2>1
<1> QED BY <1>6 DEF Good

(* The recursive definition of the model is such an F, for the healthy.    *)
LEMMA HealthyFilters ==
    addresses \in Seq(Sources) =>
        Filters(HealthyAddresses, addresses, {s \in Sources : Healthy(s)})
<1> SUFFICES ASSUME addresses \in Seq(Sources)
             PROVE  Filters(HealthyAddresses, addresses, {s \in Sources : Healthy(s)})
  OBVIOUS
<1> DEFINE Fit == {s \in Sources : Healthy(s)}
           Chosen(f) == f = [k \in 0..Len(addresses) |->
                               IF k = 0 THEN <<>>
                               ELSE IF Healthy(addresses[k])
                                    THEN Append(f[k - 1], addresses[k])
                                    ELSE f[k - 1]]
<1>1. PICK F : Filters(F, addresses, Fit)
  BY FilterExists
<1>2. Len(addresses) \in Nat /\ \A k \in 1..Len(addresses) : addresses[k] \in Fit <=> Healthy(addresses[k])
  BY LenProperties, ElementOfSeq
<1>3. Chosen(F)
  <2> DEFINE E == [k \in 0..Len(addresses) |->
                               IF k = 0 THEN <<>>
                               ELSE IF Healthy(addresses[k])
                                    THEN Append(F[k - 1], addresses[k])
                                    ELSE F[k - 1]]
  <2>1. \A k \in 0..Len(addresses) : F[k] = E[k]
    <3> SUFFICES ASSUME NEW k \in 0..Len(addresses) PROVE F[k] = E[k]
      OBVIOUS
    <3>1. CASE k = 0
      BY <1>1, <1>2, <3>1 DEF Filters
    <3>2. CASE k # 0
      <4>1. k \in 1..Len(addresses)
        BY <1>2, <3>2
      <4> HIDE DEF Fit
      <4>2. F[k] = IF addresses[k] \in Fit THEN Append(F[k - 1], addresses[k]) ELSE F[k - 1]
        BY <1>1, <4>1 DEF Filters
      <4>3. E[k] = IF Healthy(addresses[k]) THEN Append(F[k - 1], addresses[k]) ELSE F[k - 1]
        BY <3>2
      <4> QED BY <1>2, <4>1, <4>2, <4>3
    <3> QED BY <3>1, <3>2
  <2>2. F = [k \in 0..Len(addresses) |-> F[k]]
    BY <1>1 DEF Filters
  <2>3. E = [k \in 0..Len(addresses) |-> E[k]]
    OBVIOUS
  <2> HIDE DEF E
  <2>4. F = E
    BY <2>1, <2>2, <2>3
  <2> QED BY <2>4 DEF E
<1>4. HealthyAddresses = CHOOSE f : Chosen(f)
  BY Zenon DEF HealthyAddresses
<1>5. Chosen(HealthyAddresses)
  <2> HIDE DEF Chosen
  <2> QED BY <1>3, <1>4
<1> DEFINE H == HealthyAddresses
<1>6. H = [k \in 0..Len(addresses) |->
                               IF k = 0 THEN <<>>
                               ELSE IF Healthy(addresses[k])
                                    THEN Append(H[k - 1], addresses[k])
                                    ELSE H[k - 1]]
  BY <1>5
<1> HIDE DEF H
<1>7. H = [k \in 0..Len(addresses) |-> H[k]] /\ H[0] = <<>>
  BY <1>2, <1>6
<1>8. \A k \in 1..Len(addresses) :
         H[k] = IF addresses[k] \in Fit THEN Append(H[k - 1], addresses[k]) ELSE H[k - 1]
  <2> SUFFICES ASSUME NEW k \in 1..Len(addresses)
               PROVE  H[k] = IF addresses[k] \in Fit THEN Append(H[k - 1], addresses[k])
                                                     ELSE H[k - 1]
    OBVIOUS
  <2>1. k \in 0..Len(addresses) /\ k # 0
    BY <1>2
  <2>2. H[k] = IF Healthy(addresses[k]) THEN Append(H[k - 1], addresses[k]) ELSE H[k - 1]
    BY <1>6, <2>1
  <2> HIDE DEF Fit
  <2> QED BY <1>2, <2>2
<1> QED BY <1>7, <1>8 DEF Filters, H

-----------------------------------------------------------------------------
(***************************************************************************)
(* The source addresses: who is in use, whose turn it is and what is held  *)
(* against each.                                                           *)
(***************************************************************************)
SourceStat == [total : Nat, failed : Nat, denied : Nat]

SourceTypes ==
    /\ addresses \in Seq(Sources) /\ IsInjective(addresses)
    /\ stats \in [Sources -> SourceStat] /\ denials \in [Sources -> Nat]
    /\ currentIndex \in Nat

(* The addresses drawn follow each other among those in use, from some     *)
(* number b on, and the index is where the next one is.                    *)
RoundFrom(b) ==
    /\ InUse # <<>> /\ Len(turns) <= Len(InUse)
    /\ currentIndex = (b + Len(turns)) % Len(InUse)
    /\ \A k \in 1..Len(turns) : turns[k] = InUse[((b + k - 1) % Len(InUse)) + 1]

TurnsFollow == turns \in Seq(Sources) /\ (turns # <<>> => \E b \in Nat : RoundFrom(b))

(* What is held against an address is what its requests were denied.       *)
AsDenied == \A s \in Sources : denials[s] = stats[s].denied

RequestTypes ==
    request \in [Requests -> [at : {"idle", "h2", "h1", "std"}, source : Sources \cup {NoSource}]]

SourceInv == SourceTypes /\ TurnsFollow /\ AsDenied /\ RequestTypes

(* The addresses in use are among those listed, each once.                 *)
LEMMA InUseFacts ==
    SourceTypes =>
        /\ InUse \in Seq(Sources) /\ IsInjective(InUse)
        /\ Len(InUse) <= Len(addresses) /\ Len(InUse) \in Nat /\ Len(addresses) \in Nat
        /\ \A s \in ToSet(InUse) : Healthy(s) \/ \A t \in ToSet(addresses) : ~Healthy(t)
<1> SUFFICES ASSUME SourceTypes
             PROVE  /\ InUse \in Seq(Sources) /\ IsInjective(InUse)
                    /\ Len(InUse) <= Len(addresses) /\ Len(InUse) \in Nat /\ Len(addresses) \in Nat
                    /\ \A s \in ToSet(InUse) : Healthy(s) \/ \A t \in ToSet(addresses) : ~Healthy(t)
  OBVIOUS
<1> DEFINE n == Len(addresses)
           h == HealthyAddresses[n]
           G == {s \in Sources : Healthy(s)}
<1>1. addresses \in Seq(Sources) /\ IsInjective(addresses) /\ n \in Nat
  BY LenProperties DEF SourceTypes
<1>2. Filters(HealthyAddresses, addresses, G)
  BY <1>1, HealthyFilters
<1>3. n \in 0..Len(addresses)
  BY <1>1
<1>4. /\ h \in Seq(Sources) /\ IsInjective(h) /\ Len(h) <= n
      /\ \A s : (\E i \in 1..Len(h) : h[i] = s) <=> s \in G /\ \E j \in 1..n : addresses[j] = s
  <2> HIDE DEF G
  <2>1. Selected(h, addresses, G, n)
    BY <1>1, <1>2, <1>3, FilterFacts
  <2> QED BY <2>1 DEF Selected
<1>5. InUse = IF h = <<>> THEN addresses ELSE h
  BY DEF InUse
<1> HIDE DEF h, G
<1>6. CASE h = <<>>
  <2>1. Len(h) = 0
    BY <1>6
  <2>2. \A j \in 1..n : addresses[j] \notin G /\ addresses[j] \in Sources
    BY <1>1, <1>4, <2>1, ElementOfSeq
  <2>3. \A t \in ToSet(addresses) : ~Healthy(t)
    BY <1>1, <2>2, LenProperties DEF ToSet, G
  <2> QED BY <1>1, <1>5, <1>6, <2>3
<1>7. CASE h # <<>>
  <2>1. \A s \in ToSet(h) : Healthy(s)
    BY <1>4, LenProperties DEF ToSet, G
  <2>2. Len(h) \in Nat
    BY <1>4, LenProperties
  <2> QED BY <1>1, <1>4, <1>5, <1>7, <2>1, <2>2
<1> QED BY <1>6, <1>7

(* The same of the next state, as far as Refresh needs it.                 *)
LEMMA InUseFits ==
    SourceTypes' => (Len(InUse) <= Len(addresses) /\ Len(InUse) \in Nat)'
<1>1. SourceTypes => Len(InUse) <= Len(addresses) /\ Len(InUse) \in Nat
  BY InUseFacts
<1> QED BY <1>1, PTL

(* Nothing drawn: the round goes on while the addresses in use stay.       *)
LEMMA RoundStays ==
    ASSUME SourceInv, Remember(<<>>), InUse' = InUse => currentIndex' = currentIndex
    PROVE  TurnsFollow'
<1>1. turns \in Seq(Sources) /\ turns \o <<>> = turns /\ Len(turns) \in Nat /\ Len(InUse) \in Nat
  BY ConcatProperties, EmptySeq, LenProperties, InUseFacts DEF SourceInv, TurnsFollow
<1>2. CASE InUse' # InUse
  <2>1. turns' = <<>>
    BY <1>1, <1>2 DEF Remember
  <2> QED BY <2>1, EmptySeq DEF TurnsFollow
<1>3. CASE InUse' = InUse /\ turns = <<>>
  <2>1. turns' = <<>>
    BY <1>1, <1>3 DEF Remember
  <2> QED BY <2>1, EmptySeq DEF TurnsFollow
<1>4. CASE InUse' = InUse /\ turns # <<>>
  <2>1. PICK b \in Nat : RoundFrom(b)
    BY <1>4 DEF SourceInv, TurnsFollow
  <2>2. turns' = turns
    BY <1>1, <1>4, <2>1 DEF Remember, RoundFrom
  <2>3. RoundFrom(b)'
    BY <1>4, <2>1, <2>2 DEF RoundFrom
  <2> QED BY <1>1, <2>2, <2>3 DEF TurnsFollow
<1> QED BY <1>2, <1>3, <1>4

(* One drawn: the round goes on by one, and forgets its first when it is   *)
(* complete.                                                               *)
LEMMA RoundGrows ==
    ASSUME SourceInv, NEW s, GetHealthyNext(s), InUse # <<>>
    PROVE  TurnsFollow' /\ s \in Sources /\ currentIndex' \in Nat
<1> DEFINE n == Len(InUse)
           all == turns \o <<s>>
           L == Len(turns)
<1>1. InUse \in Seq(Sources) /\ n \in Nat \ {0} /\ currentIndex \in Nat
  BY InUseFacts, EmptySeq, LenProperties DEF SourceInv, SourceTypes
<1>2. \A x \in Nat : x % n \in 0..(n - 1) /\ InUse[(x % n) + 1] \in Sources
  <2> SUFFICES ASSUME NEW x \in Nat
               PROVE  x % n \in 0..(n - 1) /\ InUse[(x % n) + 1] \in Sources
    OBVIOUS
  <2> HIDE DEF n
  <2>1. x % n \in 0..(n - 1)
    BY <1>1, Quotient
  <2>2. (x % n) + 1 \in 1..n
    BY <1>1, <2>1
  <2> QED BY <1>1, <2>1, <2>2, ElementOfSeq DEF n
<1>3. s = InUse[(currentIndex % n) + 1] /\ currentIndex' = (currentIndex + 1) % n /\ Remember(<<s>>)
  BY DEF GetHealthyNext
<1>4. s \in Sources /\ currentIndex' \in Nat
  <2> HIDE DEF n
  <2>1. currentIndex + 1 \in Nat /\ n \in Nat
    BY <1>1
  <2>2. (currentIndex + 1) % n \in Nat
    BY <1>2, <2>1
  <2> QED BY <1>1, <1>2, <1>3, <2>2
<1>5. InUse' = InUse
  <2>1. addresses' = addresses /\ stats' = stats
    BY DEF GetHealthyNext, statVars
  <2>2. \A x : Healthy(x)' = Healthy(x)
    BY <2>1 DEF Healthy
  <2>3. HealthyAddresses' = HealthyAddresses
    BY <2>1, <2>2, Zenon DEF HealthyAddresses
  <2> QED BY <2>1, <2>3 DEF InUse
<1>6. turns \in Seq(Sources) /\ L \in Nat
  BY LenProperties DEF SourceInv, TurnsFollow
<1>7. PICK b \in Nat : /\ L <= n /\ currentIndex % n = (b + L) % n
                       /\ \A k \in 1..L : turns[k] = InUse[((b + k - 1) % n) + 1]
  <2>1. CASE turns = <<>>
    <3>1. L = 0
      BY <2>1
    <3> HIDE DEF n, L
    <3>2. currentIndex \in Nat /\ L <= n /\ currentIndex % n = (currentIndex + L) % n /\ 1..L = {}
      BY <1>1, <3>1
    <3> QED BY <3>2
  <2>2. CASE turns # <<>>
    <3>1. PICK b \in Nat : RoundFrom(b)
      BY <2>2 DEF SourceInv, TurnsFollow
    <3>2. currentIndex = (b + L) % n /\ b + L \in Nat
      BY <1>6, <3>1 DEF RoundFrom
    <3>3. currentIndex % n = currentIndex
      <4> HIDE DEF n, L
      <4> QED BY <1>1, <1>2, <3>2, SmallRemainder
    <3> QED BY <3>1, <3>2, <3>3 DEF RoundFrom
  <2> QED BY <2>1, <2>2
<1>8. /\ all \in Seq(Sources) /\ Len(all) = L + 1
      /\ \A k \in 1..L : all[k] = turns[k]
      /\ all[L + 1] = s
  BY <1>4, <1>6, ConcatProperties
<1>9. \A k \in 1..(L + 1) : all[k] = InUse[((b + k - 1) % n) + 1]
  <2> SUFFICES ASSUME NEW k \in 1..(L + 1) PROVE all[k] = InUse[((b + k - 1) % n) + 1]
    OBVIOUS
  <2> HIDE DEF n, L, all
  <2>1. CASE k = L + 1
    <3>1. b + k - 1 = b + L
      BY <1>6, <2>1
    <3> QED BY <1>3, <1>7, <1>8, <2>1, <3>1
  <2>2. CASE k \in 1..L
    BY <1>7, <1>8, <2>2
  <2> QED BY <1>6, <2>1, <2>2
<1>10. currentIndex' = (b + (L + 1)) % n
  <2> HIDE DEF n, L
  <2>1. (currentIndex + 1) % n = ((currentIndex % n) + 1) % n
    BY <1>1, NextRemainder
  <2>2. b + L \in Nat /\ (b + L) + 1 = b + (L + 1)
    BY <1>6, <1>7
  <2>3. ((b + L) + 1) % n = (((b + L) % n) + 1) % n
    BY <1>1, <2>2, NextRemainder
  <2> QED BY <1>3, <1>7, <2>1, <2>2, <2>3
<1>11. turns' = IF L + 1 > n THEN SubSeq(all, (L + 1) - n + 1, L + 1) ELSE all
  BY <1>3, <1>5, <1>8 DEF Remember
<1> HIDE DEF all
<1>12. CASE ~(L + 1 > n)
  <2>1. turns' = all /\ L + 1 <= n
    BY <1>1, <1>6, <1>11, <1>12
  <2>2. RoundFrom(b)'
    BY <1>1, <1>5, <1>8, <1>9, <1>10, <2>1 DEF RoundFrom
  <2> QED BY <1>4, <1>8, <2>1, <2>2 DEF TurnsFollow
<1>13. CASE L + 1 > n
  <2>1. L = n
    BY <1>1, <1>6, <1>7, <1>13
  <2>2. turns' = SubSeq(all, 2, n + 1) /\ Len(all) = n + 1
    <3> HIDE DEF n, L
    <3>1. (L + 1) - n + 1 = 2
      BY <1>1, <2>1
    <3> QED BY <1>8, <1>11, <1>13, <2>1, <3>1
  <2>3. /\ turns' \in Seq(Sources) /\ Len(turns') = n
        /\ \A k \in 1..n : turns'[k] = all[k + 1]
    <3> HIDE DEF n
    <3>1. 2 \in 1..(Len(all) + 1) /\ n + 1 \in 1..Len(all) /\ 2 \in Int /\ n + 1 \in Int
      BY <1>1, <2>2
    <3> QED BY <1>1, <1>8, <2>2, <3>1, SubSeqProperties
  <2>4. ASSUME NEW k \in 1..n PROVE turns'[k] = InUse[(((b + 1) + k - 1) % n) + 1]
    <3> HIDE DEF n, L
    <3>1. k + 1 \in 1..(L + 1) /\ b + (k + 1) - 1 = (b + 1) + k - 1
      BY <1>1, <1>7, <2>1
    <3>2. all[k + 1] = InUse[((b + (k + 1) - 1) % n) + 1]
      BY <1>9, <3>1
    <3> QED BY <2>3, <3>1, <3>2
  <2>5. currentIndex' = ((b + 1) + n) % n
    <3> HIDE DEF n, L
    <3>1. b + (L + 1) = (b + 1) + n
      BY <1>1, <1>7, <2>1
    <3> QED BY <1>10, <3>1
  <2>6. b + 1 \in Nat /\ RoundFrom(b + 1)'
    BY <1>1, <1>5, <1>7, <2>3, <2>4, <2>5 DEF RoundFrom
  <2> QED BY <1>4, <2>3, <2>6 DEF TurnsFollow
<1> QED BY <1>12, <1>13

(* What each kind of step leaves of the invariant.                         *)
LEMMA DrawKeeps ==
    ASSUME SourceInv, NEW s \in Sources \cup {NoSource}, GetHealthyNext(s)
    PROVE  SourceTypes' /\ TurnsFollow' /\ AsDenied'
<1>1. UNCHANGED <<addresses, stats, denials>>
  BY DEF GetHealthyNext, statVars
<1>2. SourceTypes /\ TurnsFollow /\ AsDenied /\ SourceTypes
  BY DEF SourceInv
<1>3. AsDenied'
  BY <1>1, <1>2 DEF AsDenied
<1>4. CASE InUse # <<>>
  BY <1>1, <1>2, <1>3, <1>4, RoundGrows DEF SourceTypes
<1>5. CASE InUse = <<>>
  <2>1. UNCHANGED <<currentIndex, turns>>
    BY <1>5 DEF GetHealthyNext
  <2>2. turns = <<>>
    BY <1>2, <1>5 DEF TurnsFollow, RoundFrom
  <2> QED BY <1>1, <1>2, <1>3, <2>1, <2>2 DEF TurnsFollow, SourceTypes
<1> QED BY <1>4, <1>5

LEMMA RefreshKeeps ==
    ASSUME SourceInv, Refresh
    PROVE  SourceTypes' /\ TurnsFollow' /\ AsDenied'
<1>1. SourceTypes /\ TurnsFollow /\ AsDenied
  BY DEF SourceInv
<1>2. addresses' \in Seq(Sources) /\ IsInjective(addresses')
  BY ListedOnce DEF Refresh, DiscoverIPv6LocalAddrs
<1>3. stats' \in [Sources -> SourceStat] /\ denials' \in [Sources -> Nat]
  BY <1>1 DEF Refresh, SourceTypes, SourceStat, Unused
<1>4. currentIndex' \in Nat
  BY <1>1 DEF Refresh, SourceTypes
<1>5. SourceTypes'
  BY <1>2, <1>3, <1>4 DEF SourceTypes
<1>6. AsDenied'
  BY <1>1 DEF Refresh, AsDenied, Unused, SourceTypes
<1>7. (Len(InUse) <= Len(addresses) /\ Len(InUse) \in Nat)' /\ Len(addresses') \in Nat
  BY <1>2, <1>5, InUseFits, LenProperties
<1>8. CASE turns = <<>>
  <2>1. turns' = <<>>
    <3>1. turns \o <<>> = <<>> /\ Len(<<>>) = 0 /\ Len(InUse) \in Nat
      BY <1>8, <1>1, InUseFacts, ConcatProperties, EmptySeq DEF TurnsFollow
    <3> QED BY <3>1, <1>8 DEF Refresh, Remember
  <2> QED BY <1>5, <1>6, <2>1, EmptySeq DEF TurnsFollow
<1>9. CASE turns # <<>>
  <2>1. PICK b \in Nat : RoundFrom(b)
    BY <1>1, <1>9 DEF TurnsFollow
  <2>2. currentIndex < Len(InUse)
    <3>1. Len(InUse) \in Nat \ {0} /\ Len(turns) \in Nat
      BY <1>1, <2>1, InUseFacts, EmptySeq, LenProperties DEF RoundFrom, TurnsFollow
    <3>2. b + Len(turns) \in Nat
      BY <3>1
    <3>3. (b + Len(turns)) % Len(InUse) \in 0..(Len(InUse) - 1)
      BY <3>1, <3>2, Quotient
    <3> QED BY <2>1, <3>1, <3>3 DEF RoundFrom
  <2>3. InUse' = InUse => currentIndex' = currentIndex
    <3> SUFFICES ASSUME InUse' = InUse PROVE currentIndex' = currentIndex
      OBVIOUS
    <3>1. currentIndex < Len(addresses')
      BY <1>1, <1>7, <2>2 DEF SourceTypes
    <3> QED BY <1>1, <1>7, <3>1 DEF Refresh, SourceTypes
  <2> QED BY <1>5, <1>6, <2>3, RoundStays DEF Refresh
<1> QED BY <1>8, <1>9

LEMMA RecordKeeps ==
    ASSUME SourceInv, NEW s \in Sources \cup {NoSource}, NEW outcome, Record(s, outcome)
    PROVE  SourceTypes' /\ TurnsFollow' /\ AsDenied'
<1>1. SourceTypes /\ TurnsFollow /\ AsDenied
  BY DEF SourceInv
<1>2. UNCHANGED <<addresses, currentIndex>>
  BY DEF Record
<1>3. CASE s = NoSource
  <2>1. UNCHANGED <<stats, turns, denials>>
    BY <1>3 DEF Record
  <2>2. InUse' = InUse
    <3>1. \A x : Healthy(x)' = Healthy(x)
      BY <2>1 DEF Healthy
    <3>2. HealthyAddresses' = HealthyAddresses
      BY <1>2, <3>1, Zenon DEF HealthyAddresses
    <3> QED BY <1>2, <3>2 DEF InUse
  <2>3. \A b : RoundFrom(b)' = RoundFrom(b)
    BY <1>2, <2>1, <2>2 DEF RoundFrom
  <2>4. TurnsFollow'
    BY <1>1, <2>1, <2>3 DEF TurnsFollow
  <2> QED BY <1>1, <1>2, <2>1, <2>4 DEF SourceTypes, AsDenied
<1>4. CASE s # NoSource
  <2>1. s \in Sources
    BY <1>4
  <2>2. Remember(<<>>)
    BY <1>4 DEF Record
  <2>3. TurnsFollow'
    BY <1>2, <2>2, RoundStays
  <2>4. stats' = [stats EXCEPT ![s].total = @ + 1,
                               ![s].failed = IF outcome = "failed" THEN @ + 1 ELSE @,
                               ![s].denied = IF outcome = "denied" THEN @ + 1 ELSE @]
    BY <1>4 DEF Record
  <2>5. denials' = [denials EXCEPT ![s] = IF outcome = "denied" THEN @ + 1 ELSE @]
    BY <1>4 DEF Record
  <2>6. stats \in [Sources -> SourceStat] /\ denials \in [Sources -> Nat]
    BY <1>1 DEF SourceTypes
  <2>7. stats' \in [Sources -> SourceStat]
    <3> DEFINE f == IF outcome = "failed" THEN stats[s].failed + 1 ELSE stats[s].failed
               d == IF outcome = "denied" THEN stats[s].denied + 1 ELSE stats[s].denied
    <3>1. stats' = [stats EXCEPT ![s].total = @ + 1, ![s].failed = f, ![s].denied = d]
      BY <2>1, <2>4, <2>6 DEF SourceStat
    <3>2. f \in Nat /\ d \in Nat
      BY <2>1, <2>6 DEF SourceStat
    <3> HIDE DEF f, d
    <3>3. \A t \in Sources : t # s => stats'[t] = stats[t]
      BY <2>1, <2>6, <3>1 DEF SourceStat
    <3>4. stats'[s] = [total |-> stats[s].total + 1, failed |-> f, denied |-> d]
      BY <2>1, <2>6, <3>1 DEF SourceStat
    <3>5. stats' = [t \in Sources |-> stats'[t]]
      BY <2>1, <2>6, <3>1 DEF SourceStat
    <3>6. stats'[s] \in SourceStat
      BY <2>1, <2>6, <3>2, <3>4 DEF SourceStat
    <3>7. \A t \in Sources : stats'[t] \in SourceStat
      BY <2>6, <3>3, <3>6
    <3> QED BY <3>5, <3>7
  <2>9. denials' \in [Sources -> Nat]
    BY <2>1, <2>5, <2>6
  <2>8. AsDenied'
    BY <1>1, <2>1, <2>4, <2>5, <2>6 DEF AsDenied, SourceStat
  <2> QED BY <1>1, <1>2, <2>3, <2>7, <2>8, <2>9 DEF SourceTypes
<1> QED BY <1>3, <1>4

LEMMA RestKeeps ==
    ASSUME SourceInv, UNCHANGED poolVars
    PROVE  SourceTypes' /\ TurnsFollow' /\ AsDenied'
<1>1. \A x : Healthy(x)' = Healthy(x)
  BY DEF Healthy, poolVars
<1>2. HealthyAddresses' = HealthyAddresses
  BY <1>1, Zenon DEF HealthyAddresses, poolVars
<1>3. InUse' = InUse
  BY <1>2 DEF InUse, poolVars
<1>4. \A b : RoundFrom(b)' = RoundFrom(b)
  BY <1>3 DEF RoundFrom, poolVars
<1>5. UNCHANGED <<addresses, stats, currentIndex, turns, denials>>
  BY DEF poolVars
<1> QED BY <1>4, <1>5 DEF SourceInv, TurnsFollow, SourceTypes, AsDenied

-----------------------------------------------------------------------------
(* The pool of source addresses keeps its invariant, whatever fetches and  *)
(* dials run and whatever the system lists.                                *)
THEOREM SourceInvariant == SourceSpec => []SourceInv
<1>1. SourceInit => SourceInv
  <2> SUFFICES ASSUME SourceInit PROVE SourceInv
    OBVIOUS
  <2>1. addresses \in Seq(Sources) /\ IsInjective(addresses)
    BY ListedOnce DEF SourceInit
  <2>2. SourceTypes /\ AsDenied
    BY <2>1 DEF SourceInit, SourceTypes, AsDenied, SourceStat, Unused
  <2>3. TurnsFollow /\ RequestTypes
    BY EmptySeq DEF SourceInit, TurnsFollow, RequestTypes, IdleRequest
  <2> QED BY <2>2, <2>3 DEF SourceInv
<1>2. SourceInv /\ [SourceNext]_sourceVars => SourceInv'
  <2> SUFFICES ASSUME SourceInv, [SourceNext]_sourceVars PROVE SourceInv'
    OBVIOUS
  <2>1. RequestTypes
    BY DEF SourceInv
  <2>2. CASE Refresh
    BY <2>1, <2>2, RefreshKeeps DEF Refresh, RequestTypes, SourceInv
  <2>3. CASE Dial
    BY <2>1, <2>3, DrawKeeps DEF Dial, RequestTypes, SourceInv
  <2>4. ASSUME NEW r \in Requests, Begin(r) PROVE SourceInv'
    <3>1. CASE \E s \in Sources \cup {NoSource} :
                  GetHealthyNext(s) /\ request' = [request EXCEPT ![r] = [at |-> "h2", source |-> s]]
      <4>1. PICK s \in Sources \cup {NoSource} :
                  GetHealthyNext(s) /\ request' = [request EXCEPT ![r] = [at |-> "h2", source |-> s]]
        BY <3>1
      <4>2. RequestTypes'
        BY <2>1, <4>1 DEF RequestTypes
      <4> QED BY <4>1, <4>2, DrawKeeps DEF SourceInv
    <3>2. CASE request' = [request EXCEPT ![r].at = "h2"] /\ UNCHANGED poolVars
      <4>1. RequestTypes'
        BY <2>1, <3>2 DEF RequestTypes
      <4> QED BY <3>2, <4>1, RestKeeps DEF SourceInv
    <3> QED BY <2>4, <3>1, <3>2 DEF Begin
  <2>5. ASSUME NEW r \in Requests, Answered(r) \/ AllFailed(r) PROVE SourceInv'
    <3>1. request[r].source \in Sources \cup {NoSource}
      BY <2>1 DEF RequestTypes
    <3>2. \E outcome : Record(request[r].source, outcome)
      BY <2>5 DEF Answered, AllFailed
    <3>3. SourceTypes' /\ TurnsFollow' /\ AsDenied'
      BY <3>1, <3>2, RecordKeeps
    <3>4. RequestTypes'
      BY <2>1, <2>5 DEF Answered, AllFailed, RequestTypes, IdleRequest
    <3> QED BY <3>3, <3>4 DEF SourceInv
  <2>6. ASSUME NEW r \in Requests, BodyFails(r) \/ FallsBack(r) PROVE SourceInv'
    <3>1. RequestTypes' /\ UNCHANGED poolVars
      BY <2>1, <2>6 DEF BodyFails, FallsBack, RequestTypes, IdleRequest
    <3> QED BY <3>1, RestKeeps DEF SourceInv
  <2>7. CASE UNCHANGED sourceVars
    BY <2>1, <2>7, RestKeeps DEF sourceVars, RequestTypes, SourceInv
  <2> QED BY <2>2, <2>3, <2>4, <2>5, <2>6, <2>7 DEF SourceNext
<1> QED BY <1>1, <1>2, PTL DEF SourceSpec

(* GetHealthyNext draws no address again before all others in use, through *)
(* refreshes that reset the index and records that change who is healthy.  *)
THEOREM SourcesTakeTurns == SourceSpec => []SourcesInTurn
<1>1. SourceInv => SourcesInTurn
  <2> SUFFICES ASSUME SourceInv PROVE SourcesInTurn
    OBVIOUS
  <2>1. CASE turns = <<>>
    BY <2>1 DEF SourcesInTurn, IsInjective
  <2>2. CASE turns # <<>>
    <3> DEFINE n == Len(InUse)
               L == Len(turns)
    <3>1. PICK b \in Nat : RoundFrom(b)
      BY <2>2 DEF SourceInv, TurnsFollow
    <3>2. InUse \in Seq(Sources) /\ IsInjective(InUse) /\ n \in Nat \ {0} /\ L \in Nat /\ L <= n
      BY <3>1, InUseFacts, EmptySeq, LenProperties DEF RoundFrom, SourceInv, TurnsFollow
    <3>3. \A x \in Nat : x % n \in 0..(n - 1)
      <4> HIDE DEF n
      <4> QED BY <3>2, Quotient
    <3>4. \A k \in 1..L : turns[k] = InUse[((b + k - 1) % n) + 1]
      BY <3>1 DEF RoundFrom
    <3>5. \A x, y \in 1..n : InUse[x] = InUse[y] => x = y
      BY <3>2, LenProperties DEF IsInjective
    <3> HIDE DEF n, L
    <3>6. ASSUME NEW j \in 1..L, NEW k \in 1..L, j < k PROVE turns[j] # turns[k]
      <4>1. b + j - 1 \in Nat /\ b + k - 1 \in Nat
        BY <3>2
      <4>2. (b + j - 1) % n # (b + k - 1) % n
        <5>1. b + j - 1 < b + k - 1 /\ (b + k - 1) - (b + j - 1) < n
          BY <3>2, <3>6
        <5> QED BY <3>2, <4>1, <5>1, RemaindersDiffer
      <4> DEFINE p == (b + j - 1) % n
                 q == (b + k - 1) % n
      <4>3. p \in 0..(n - 1) /\ q \in 0..(n - 1) /\ p # q
        BY <3>3, <4>1, <4>2
      <4>4. turns[j] = InUse[p + 1] /\ turns[k] = InUse[q + 1]
        BY <3>4
      <4> HIDE DEF p, q
      <4> QED BY <3>2, <3>5, <4>3, <4>4
    <3>7. \A j, k \in 1..L : turns[j] = turns[k] => j = k
      <4> SUFFICES ASSUME NEW j \in 1..L, NEW k \in 1..L, turns[j] = turns[k], j # k PROVE FALSE
        OBVIOUS
      <4>1. j < k \/ k < j
        BY <3>2
      <4> QED BY <3>6, <4>1
    <3>8. DOMAIN turns = 1..L
      BY LenProperties DEF SourceInv, TurnsFollow, L
    <3> QED BY <3>7, <3>8 DEF SourcesInTurn, IsInjective
  <2> QED BY <2>1, <2>2
<1> QED BY <1>1, SourceInvariant, PTL

(* An address denied too often since it was listed is drawn only when none *)
(* listed is healthy: refreshes keep what is held against it.              *)
THEOREM DeniedSpared == SourceSpec => []BannedSpared
<1>1. SourceInv => BannedSpared
  <2> SUFFICES ASSUME SourceInv, NEW s \in ToSet(InUse), denials[s] >= BanAfter
               PROVE  \A other \in ToSet(addresses) : ~Healthy(other)
    BY DEF BannedSpared
  <2>1. s \in Sources
    BY InUseFacts, ElementOfSeq, LenProperties DEF ToSet, SourceInv
  <2>2. stats[s].denied >= BanAfter /\ stats[s].denied \in Nat
    BY <2>1 DEF SourceInv, AsDenied, SourceTypes, SourceStat
  <2>3. ~Healthy(s)
    BY <2>2, PoolNumbers DEF Healthy
  <2> QED BY <2>3, InUseFacts DEF SourceInv
<1> QED BY <1>1, SourceInvariant, PTL

(* A fetch charges one request at most, when it ends, and of the address   *)
(* drawn for its record (utls_client.go:878), which is not the one that    *)
(* dialUTLS draws for its connection (470); a body that breaks off charges *)
(* none.  Every other step leaves the statistics of listed addresses alone.*)
THEOREM ChargedOnce == SourceSpec => ChargedAtEnd
<1> DEFINE Charged == \A s \in Sources : stats'[s] # stats[s] =>
              \/ stats'[s] = Unused /\ s \notin ToSet(addresses')
              \/ /\ stats'[s].total = stats[s].total + 1
                 /\ \E r \in Requests : request[r].source = s /\ request'[r] = IdleRequest
<1>1. SourceInv /\ [SourceNext]_sourceVars => [Charged]_sourceVars
  <2> SUFFICES ASSUME SourceInv, SourceNext, NEW s \in Sources, stats'[s] # stats[s]
               PROVE  \/ stats'[s] = Unused /\ s \notin ToSet(addresses')
                      \/ /\ stats'[s].total = stats[s].total + 1
                         /\ \E r \in Requests : request[r].source = s /\ request'[r] = IdleRequest
    BY DEF sourceVars
  <2>1. stats \in [Sources -> SourceStat]
    BY DEF SourceInv, SourceTypes
  <2>2. CASE Refresh
    BY <2>1, <2>2 DEF Refresh
  <2>3. ASSUME NEW r \in Requests, Answered(r) \/ AllFailed(r)
        PROVE  /\ stats'[s].total = stats[s].total + 1
               /\ request[r].source = s /\ request'[r] = IdleRequest
    <3>1. PICK outcome : Record(request[r].source, outcome)
      BY <2>3 DEF Answered, AllFailed
    <3>2. request' = [request EXCEPT ![r] = IdleRequest] /\ request \in [Requests -> [at : {"idle", "h2", "h1", "std"}, source : Sources \cup {NoSource}]]
      BY <2>3 DEF Answered, AllFailed, SourceInv, RequestTypes
    <3>3. request[r].source # NoSource
      BY <3>1 DEF Record
    <3>4. request[r].source \in Sources
      BY <3>2, <3>3
    <3> DEFINE t == request[r].source
    <3> HIDE DEF t
    <3>5. stats' = [stats EXCEPT ![t].total = @ + 1,
                  ![t].failed = IF outcome = "failed" THEN @ + 1 ELSE @,
                  ![t].denied = IF outcome = "denied" THEN @ + 1 ELSE @]
      BY <3>1, <3>3 DEF Record, t
    <3>6. t \in Sources
      BY <3>4 DEF t
    <3>7. t = s
      BY <2>1, <3>5, <3>6
    <3>8. stats'[s].total = stats[s].total + 1
      BY <2>1, <3>5, <3>6, <3>7 DEF SourceStat
    <3> QED BY <3>2, <3>7, <3>8 DEF t
  <2>4. CASE Dial \/ \E r \in Requests : Begin(r) \/ BodyFails(r) \/ FallsBack(r)
    <3>1. stats' = stats
      BY <2>4 DEF Dial, Begin, BodyFails, FallsBack, GetHealthyNext, statVars, poolVars
    <3> QED BY <3>1
  <2> QED BY <2>2, <2>3, <2>4 DEF SourceNext
<1> QED BY <1>1, SourceInvariant, PTL DEF ChargedAtEnd, SourceSpec
=============================================================================
