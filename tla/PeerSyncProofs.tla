--------------------------- MODULE PeerSyncProofs ---------------------------
(***************************************************************************)
(* Proofs about PeerSync, for any nodes, seeds, calls and records, and any *)
(* number of lost calls and killed processes.  That one peer is never      *)
(* synchronised with twice at once needs nothing but the types; that a     *)
(* kill costs one peer at most needs that one call at a time adds peers.   *)
(***************************************************************************)
EXTENDS PeerSync, TLAPS

Ats == {"idle", "guard", "dial", "peers", "learn", "add", "save", "exchange", "merge"}
BusyAts == {"dial", "peers", "learn", "add", "save", "exchange", "merge"}
LoopAts == {"add", "save"}
CallType == [at : Ats, peer : Nodes, got : SUBSET Nodes, new : SUBSET Nodes, recs : SUBSET Facts]

CallTypes == call \in [Goroutines -> CallType] /\ syncing \in [Nodes -> SUBSET Nodes]

NodeTypes ==
    /\ known \in [Nodes -> SUBSET Nodes] /\ saved \in [Nodes -> SUBSET Nodes]
    /\ unsaved \in [Nodes -> SUBSET Nodes]
    /\ heard \in [Nodes -> SUBSET Nodes] /\ wait \in [Nodes -> SUBSET Nodes]
    /\ link \in [Nodes -> [Nodes -> {"none", "live", "dead"}]]
    /\ backoff \in [Nodes -> [Nodes -> 0..MaxBackoff]]
    /\ pool \in [Nodes -> SUBSET Facts] /\ up \in [Nodes -> BOOLEAN]
    /\ losses \in Nat /\ restarts \in Nat /\ losses + restarts <= MaxFaults

(* The manager's lock: one call of a node at a time adds peers.            *)
LockHeldOnce ==
    \A g, h \in Goroutines :
        (Owner[g] = Owner[h] /\ call[g].at \in LoopAts /\ call[h].at \in LoopAts) => g = h

(* At most one peer is being saved by a call, in whose transaction it is.  *)
OneAtATime ==
    \A g \in Goroutines : \A x, y \in call[g].new : x = y

(* A known peer is in the file, has failed to get there, or a call is      *)
(* saving it.                                                              *)
FileKeepsUp ==
    \A n \in Nodes : \A x \in known[n] \ (saved[n] \cup unsaved[n]) :
        \E g \in Goroutines : Owner[g] = n /\ call[g].at = "save" /\ x \in call[g].new

FileInv == LockHeldOnce /\ OneAtATime /\ FileKeepsUp

PeersInv == CallTypes /\ NodeTypes /\ OneSyncPerPeer /\ FileInv

-----------------------------------------------------------------------------
LEMMA IdleCall == ASSUME Nodes # {} PROVE Idle \in CallType /\ Idle.at = "idle" /\ Idle.new = {}
BY DEF Idle, CallType, Ats

LEMMA ActorIsNode == ASSUME NEW g \in Goroutines PROVE Owner[g] \in Nodes
BY OwnersAreNodes

LEMMA HeardAreNodes ==
    ASSUME NodeTypes, NEW p \in Nodes, NEW n \in Nodes
    PROVE  HeardAfter(p, n) \in SUBSET Nodes
<1>1. heard[p] \in SUBSET Nodes
  BY DEF NodeTypes
<1>2. Seeds[p] \in SUBSET Nodes
  BY SeedsOfNodes
<1> QED BY <1>1, <1>2 DEF HeardAfter

LEMMA BackoffBounded ==
    ASSUME NEW b \in 0..MaxBackoff
    PROVE  NextBackoff(b) \in 0..MaxBackoff
<1>1. MaxBackoff \in Nat
  BY Bounds
<1> QED BY <1>1 DEF NextBackoff

LEMMA FailureCounted ==
    ASSUME NodeTypes, NEW ok, MayFail(ok)
    PROVE  losses' \in Nat /\ losses' + restarts <= MaxFaults
<1>1. MaxFaults \in Nat
  BY Bounds
<1> QED BY <1>1 DEF MayFail, NodeTypes

-----------------------------------------------------------------------------
(* A call that stays busy with its peer, or stays idle or at the guard,    *)
(* changes nothing of who is busy with whom.                               *)
LEMMA SamePeers ==
    ASSUME CallTypes, OneSyncPerPeer, NEW g \in Goroutines,
           call' \in [Goroutines -> CallType], syncing' = syncing,
           \A h \in Goroutines : h # g => call'[h] = call[h],
           call'[g].at \in BusyAts <=> call[g].at \in BusyAts,
           call[g].at \in BusyAts => call'[g].peer = call[g].peer
    PROVE  CallTypes' /\ OneSyncPerPeer'
<1>1. \A h \in Goroutines : Busy(h) <=> call[h].at \in BusyAts
  BY DEF CallTypes, CallType, Ats, BusyAts, Busy
<1>2. \A h \in Goroutines : Busy(h)' <=> call'[h].at \in BusyAts
  BY DEF CallType, Ats, BusyAts, Busy
<1>3. \A h \in Goroutines : (Busy(h)' <=> Busy(h)) /\ (Busy(h) => call'[h].peer = call[h].peer)
  BY <1>1, <1>2
<1>4. ASSUME NEW n \in Nodes
      PROVE  {call'[h].peer : h \in {k \in Goroutines : Busy(k)' /\ Owner[k] = n}}
               = {call[h].peer : h \in {k \in Goroutines : Busy(k) /\ Owner[k] = n}}
  BY <1>3
<1>5. \A h, k \in Goroutines :
         (h # k /\ Busy(h)' /\ Busy(k)' /\ Owner[h] = Owner[k]) => call'[h].peer # call'[k].peer
  BY <1>3 DEF OneSyncPerPeer
<1>6. \A n \in Nodes : syncing'[n] = {call'[h].peer : h \in {k \in Goroutines : Busy(k)' /\ Owner[k] = n}}
  BY <1>4 DEF OneSyncPerPeer
<1> QED BY <1>5, <1>6 DEF CallTypes, OneSyncPerPeer

(* A busy call that ends frees its peer, and only that one.                *)
LEMMA LeaveFrees ==
    ASSUME CallTypes, OneSyncPerPeer, NEW g \in Goroutines, call[g].at \in BusyAts,
           Leave(g, Owner[g], call[g].peer)
    PROVE  CallTypes' /\ OneSyncPerPeer'
<1> DEFINE o == Owner[g]
           p == call[g].peer
<1>1. o \in Nodes /\ p \in Nodes
  BY ActorIsNode DEF CallTypes, CallType
<1>2. Idle \in CallType /\ Idle.at = "idle"
  BY <1>1, IdleCall
<1>3. /\ call' \in [Goroutines -> CallType] /\ call'[g] = Idle
      /\ \A h \in Goroutines : h # g => call'[h] = call[h]
  BY <1>2 DEF Leave, CallTypes
<1>4. /\ syncing' \in [Nodes -> SUBSET Nodes] /\ syncing'[o] = syncing[o] \ {p}
      /\ \A n \in Nodes : n # o => syncing'[n] = syncing[n]
  BY <1>1 DEF Leave, CallTypes
<1>5. ~Busy(g)' /\ Busy(g)
  BY <1>2, <1>3 DEF Busy, BusyAts
<1>6. \A h \in Goroutines : h # g => (Busy(h)' <=> Busy(h)) /\ call'[h].peer = call[h].peer
  BY <1>3 DEF Busy
<1>7. \A h, k \in Goroutines :
         (h # k /\ Busy(h)' /\ Busy(k)' /\ Owner[h] = Owner[k]) => call'[h].peer # call'[k].peer
  BY <1>5, <1>6 DEF OneSyncPerPeer
<1>8. ASSUME NEW n \in Nodes
      PROVE  syncing'[n] = {call'[h].peer : h \in {k \in Goroutines : Busy(k)' /\ Owner[k] = n}}
  <2>1. syncing[n] = {call[h].peer : h \in {k \in Goroutines : Busy(k) /\ Owner[k] = n}}
    BY DEF OneSyncPerPeer
  <2>2. CASE n # o
    <3>1. {call'[h].peer : h \in {k \in Goroutines : Busy(k)' /\ Owner[k] = n}}
            = {call[h].peer : h \in {k \in Goroutines : Busy(k) /\ Owner[k] = n}}
      BY <2>2, <1>6
    <3> QED BY <2>1, <2>2, <3>1, <1>4
  <2>3. CASE n = o
    <3>1. \A h \in Goroutines : (h # g /\ Busy(h) /\ Owner[h] = o) => call[h].peer # p
      BY <1>5 DEF OneSyncPerPeer
    <3>2. {call'[h].peer : h \in {k \in Goroutines : Busy(k)' /\ Owner[k] = n}}
            = {call[h].peer : h \in {k \in Goroutines : Busy(k) /\ Owner[k] = n}} \ {p}
      BY <2>3, <3>1, <1>5, <1>6
    <3> QED BY <2>1, <2>3, <3>2, <1>4
  <2> QED BY <2>2, <2>3
<1> QED BY <1>3, <1>4, <1>7, <1>8 DEF CallTypes, OneSyncPerPeer

(* A call passes the guard only for a peer no other call is busy with.     *)
LEMMA EnterTakes ==
    ASSUME CallTypes, OneSyncPerPeer, NEW g \in Goroutines, Enter(g, Owner[g], call[g].peer)
    PROVE  CallTypes' /\ OneSyncPerPeer'
<1> DEFINE o == Owner[g]
           p == call[g].peer
<1>1. o \in Nodes /\ p \in Nodes
  BY ActorIsNode DEF CallTypes, CallType
<1>2. Idle \in CallType /\ Idle.at = "idle"
  BY <1>1, IdleCall
<1>3. call[g].at = "guard"
  BY DEF Enter
<1>4. CASE p \in syncing[o]
  <2>1. call' = [call EXCEPT ![g] = Idle] /\ syncing' = syncing
    BY <1>4 DEF Enter
  <2>2. /\ call' \in [Goroutines -> CallType] /\ call'[g] = Idle
        /\ \A h \in Goroutines : h # g => call'[h] = call[h]
    BY <2>1, <1>2 DEF CallTypes
  <2>3. call'[g].at \notin BusyAts /\ call[g].at \notin BusyAts
    BY <2>2, <1>2, <1>3 DEF BusyAts
  <2> QED BY <2>1, <2>2, <2>3, SamePeers
<1>5. CASE p \notin syncing[o]
  <2>1. PICK a \in {"dial", "peers"} : call' = [call EXCEPT ![g].at = a]
    BY <1>5 DEF Enter
  <2>2. syncing' = [syncing EXCEPT ![o] = @ \cup {p}]
    BY <1>5 DEF Enter
  <2>3. /\ call' \in [Goroutines -> CallType] /\ call'[g].at = a /\ call'[g].peer = p
        /\ \A h \in Goroutines : h # g => call'[h] = call[h]
    BY <2>1 DEF CallTypes, CallType, Ats
  <2>4. /\ syncing' \in [Nodes -> SUBSET Nodes] /\ syncing'[o] = syncing[o] \cup {p}
        /\ \A n \in Nodes : n # o => syncing'[n] = syncing[n]
    BY <2>2, <1>1 DEF CallTypes
  <2>5. Busy(g)' /\ ~Busy(g)
    BY <2>3, <1>3 DEF Busy
  <2>6. \A h \in Goroutines : h # g => (Busy(h)' <=> Busy(h)) /\ call'[h].peer = call[h].peer
    BY <2>3 DEF Busy
  <2>7. \A h \in Goroutines : (Busy(h) /\ Owner[h] = o) => call[h].peer # p
    BY <1>1, <1>5 DEF OneSyncPerPeer
  <2>8. \A h, k \in Goroutines :
           (h # k /\ Busy(h)' /\ Busy(k)' /\ Owner[h] = Owner[k]) => call'[h].peer # call'[k].peer
    BY <2>3, <2>5, <2>6, <2>7 DEF OneSyncPerPeer
  <2>9. ASSUME NEW n \in Nodes
        PROVE  syncing'[n] = {call'[h].peer : h \in {k \in Goroutines : Busy(k)' /\ Owner[k] = n}}
    <3>1. syncing[n] = {call[h].peer : h \in {k \in Goroutines : Busy(k) /\ Owner[k] = n}}
      BY DEF OneSyncPerPeer
    <3>2. CASE n # o
      <4>1. {call'[h].peer : h \in {k \in Goroutines : Busy(k)' /\ Owner[k] = n}}
              = {call[h].peer : h \in {k \in Goroutines : Busy(k) /\ Owner[k] = n}}
        BY <3>2, <2>6
      <4> QED BY <3>1, <3>2, <4>1, <2>4
    <3>3. CASE n = o
      <4>1. {call'[h].peer : h \in {k \in Goroutines : Busy(k)' /\ Owner[k] = n}}
              = {call[h].peer : h \in {k \in Goroutines : Busy(k) /\ Owner[k] = n}} \cup {p}
        BY <3>3, <2>3, <2>5, <2>6
      <4> QED BY <3>1, <3>3, <4>1, <2>4
    <3> QED BY <3>2, <3>3
  <2> QED BY <2>3, <2>4, <2>8, <2>9 DEF CallTypes, OneSyncPerPeer
<1> QED BY <1>4, <1>5

-----------------------------------------------------------------------------
(* The steps of a call that moves on or ends, whatever they do to a node.  *)
LEMMA CallMoves ==
    ASSUME CallTypes, OneSyncPerPeer, NEW g \in Goroutines, call[g].at \in BusyAts,
           NEW a \in BusyAts, syncing' = syncing,
           \/ call' = [call EXCEPT ![g].at = a]
           \/ \E x \in SUBSET Nodes : \/ call' = [call EXCEPT ![g].at = a, ![g].got = x]
                                      \/ call' = [call EXCEPT ![g].at = a, ![g].new = x]
           \/ \E y \in SUBSET Facts : call' = [call EXCEPT ![g].at = a, ![g].recs = y]
    PROVE  CallTypes' /\ OneSyncPerPeer'
<1>1. a \in Ats /\ call[g] \in CallType
  BY DEF BusyAts, Ats, CallTypes
<1> HIDE DEF Ats
<1>2. /\ call' \in [Goroutines -> CallType] /\ call'[g].at = a /\ call'[g].peer = call[g].peer
      /\ \A h \in Goroutines : h # g => call'[h] = call[h]
  <2>1. CASE call' = [call EXCEPT ![g].at = a]
    BY <1>1, <2>1 DEF CallTypes, CallType
  <2>2. ASSUME NEW x \in SUBSET Nodes,
               \/ call' = [call EXCEPT ![g].at = a, ![g].got = x]
               \/ call' = [call EXCEPT ![g].at = a, ![g].new = x]
        PROVE  /\ call' \in [Goroutines -> CallType] /\ call'[g].at = a /\ call'[g].peer = call[g].peer
               /\ \A h \in Goroutines : h # g => call'[h] = call[h]
    BY <1>1, <2>2 DEF CallTypes, CallType
  <2>3. ASSUME NEW y \in SUBSET Facts, call' = [call EXCEPT ![g].at = a, ![g].recs = y]
        PROVE  /\ call' \in [Goroutines -> CallType] /\ call'[g].at = a /\ call'[g].peer = call[g].peer
               /\ \A h \in Goroutines : h # g => call'[h] = call[h]
    BY <1>1, <2>3 DEF CallTypes, CallType
  <2> QED BY <2>1, <2>2, <2>3
<1> QED BY <1>2, SamePeers

LEMMA InsideCalls ==
    ASSUME CallTypes, NodeTypes, OneSyncPerPeer, NEW g \in Goroutines,
           Inside(g, Owner[g], call[g].peer)
    PROVE  CallTypes' /\ OneSyncPerPeer'
<1> DEFINE o == Owner[g]
           p == call[g].peer
<1>1. o \in Nodes /\ p \in Nodes /\ call[g] \in CallType
  BY ActorIsNode DEF CallTypes, CallType
<1>2. pool[o] \in SUBSET Facts /\ pool[p] \in SUBSET Facts /\ HeardAfter(p, o) \in SUBSET Nodes
  BY <1>1, HeardAreNodes DEF NodeTypes
<1>3. CASE Enter(g, o, p)
  BY <1>3, EnterTakes
<1>4. CASE Dial(g, o, p)
  <2>1. call[g].at \in BusyAts /\ "peers" \in BusyAts
    BY <1>4 DEF Dial, BusyAts
  <2>2. call' = [call EXCEPT ![g].at = "peers"] /\ syncing' = syncing
    BY <1>4 DEF Dial
  <2> QED BY <2>1, <2>2, CallMoves
<1>5. CASE GetPeers(g, o, p)
  <2>1. call[g].at \in BusyAts /\ "learn" \in BusyAts
    BY <1>5 DEF GetPeers, BusyAts
  <2>2. call' = [call EXCEPT ![g].at = "learn", ![g].got = HeardAfter(p, o)] /\ syncing' = syncing
    BY <1>5 DEF GetPeers
  <2> QED BY <2>1, <2>2, <1>2, CallMoves
<1>6. CASE AddPeer(g, o, p)
  <2>1. call[g].at \in BusyAts /\ "save" \in BusyAts
    BY <1>6 DEF AddPeer, InLoop, BusyAts
  <2>2. PICK x \in NewPeers(g, o, p) :
           call' = [call EXCEPT ![g].at = "save", ![g].new = {x}] /\ syncing' = syncing
    BY <1>6 DEF AddPeer
  <2>3. {x} \in SUBSET Nodes
    BY <1>1 DEF NewPeers, CallType
  <2> QED BY <2>1, <2>2, <2>3, CallMoves
<1>9. CASE SavePeer(g, o)
  <2>1. call[g].at \in BusyAts /\ "add" \in BusyAts /\ {} \in SUBSET Nodes
    BY <1>9 DEF SavePeer, BusyAts
  <2>2. call' = [call EXCEPT ![g].at = "add", ![g].new = {}] /\ syncing' = syncing
    BY <1>9 DEF SavePeer
  <2> QED BY <2>1, <2>2, CallMoves
<1>10. CASE AllAdded(g, o, p)
  <2>1. call[g].at \in BusyAts /\ "exchange" \in BusyAts /\ {} \in SUBSET Nodes
    BY <1>10 DEF AllAdded, InLoop, BusyAts
  <2>2. call' = [call EXCEPT ![g].at = "exchange", ![g].got = {}] /\ syncing' = syncing
    BY <1>10 DEF AllAdded
  <2> QED BY <2>1, <2>2, CallMoves
<1>7. CASE Exchange(g, o, p)
  <2>1. call[g].at \in BusyAts /\ "merge" \in BusyAts
    BY <1>7 DEF Exchange, BusyAts
  <2>2. PICK y \in {pool[o], pool[p]} :
           call' = [call EXCEPT ![g].at = "merge", ![g].recs = y] /\ syncing' = syncing
    BY <1>7 DEF Exchange
  <2>3. y \in SUBSET Facts
    BY <1>2
  <2> QED BY <2>1, <2>2, <2>3, CallMoves
<1>8. CASE DialFails(g, o, p) \/ GetPeersFails(g, o, p) \/ ExchangeFails(g, o, p) \/ Merge(g, o, p)
  <2>1. call[g].at \in BusyAts /\ Leave(g, o, p)
    BY <1>8 DEF DialFails, GetPeersFails, ExchangeFails, Merge, BusyAts
  <2> QED BY <2>1, LeaveFrees
<1> QED BY <1>3, <1>4, <1>5, <1>6, <1>7, <1>8, <1>9, <1>10 DEF Inside

LEMMA InsideNodes ==
    ASSUME CallTypes, NodeTypes, NEW g \in Goroutines,
           Inside(g, Owner[g], call[g].peer)
    PROVE  NodeTypes'
<1> DEFINE o == Owner[g]
           p == call[g].peer
<1>1. o \in Nodes /\ p \in Nodes /\ call[g].got \in SUBSET Nodes
      /\ call[g].new \in SUBSET Nodes /\ call[g].recs \in SUBSET Facts
  BY ActorIsNode DEF CallTypes, CallType
<1>2. HeardAfter(p, o) \in SUBSET Nodes
  BY <1>1, HeardAreNodes
<1>3. CASE Enter(g, o, p)
  BY <1>3 DEF Enter, mgrVars, peerVars, NodeTypes
<1>4. CASE Dial(g, o, p)
  BY <1>1, <1>4 DEF Dial, peerVars, NodeTypes
<1>5. CASE DialFails(g, o, p)
  <2>1. losses' \in Nat /\ losses' + restarts <= MaxFaults
    BY <1>5, FailureCounted DEF DialFails
  <2>2. wait' \in [Nodes -> SUBSET Nodes]
    BY <1>1, <1>5 DEF DialFails, NodeTypes
  <2> QED BY <1>5, <2>1, <2>2 DEF DialFails, peerVars, NodeTypes
<1>6. CASE GetPeers(g, o, p)
  <2>1. 0 \in 0..MaxBackoff
    BY Bounds
  <2>2. /\ heard' \in [Nodes -> SUBSET Nodes] /\ wait' \in [Nodes -> SUBSET Nodes]
        /\ backoff' \in [Nodes -> [Nodes -> 0..MaxBackoff]]
    BY <1>1, <1>2, <1>6, <2>1 DEF GetPeers, NodeTypes
  <2> QED BY <1>6, <2>2 DEF GetPeers, peerVars, NodeTypes
<1>7. CASE GetPeersFails(g, o, p)
  <2>1. losses' \in Nat /\ losses' + restarts <= MaxFaults
    BY <1>7, FailureCounted DEF GetPeersFails
  <2>2. NextBackoff(backoff[o][p]) \in 0..MaxBackoff
    BY <1>1, BackoffBounded DEF NodeTypes
  <2>3. backoff' \in [Nodes -> [Nodes -> 0..MaxBackoff]] /\ wait' \in [Nodes -> SUBSET Nodes]
    <3>1. CASE UNCHANGED <<backoff, wait>>
      BY <3>1 DEF NodeTypes
    <3>2. CASE /\ backoff' = [backoff EXCEPT ![o][p] = NextBackoff(@)]
               /\ wait' = [wait EXCEPT ![o] = @ \cup {p}]
      BY <1>1, <2>2, <3>2 DEF NodeTypes
    <3> QED BY <1>7, <3>1, <3>2 DEF GetPeersFails
  <2>4. heard' \in [Nodes -> SUBSET Nodes]
    BY <1>1, <1>2, <1>7 DEF GetPeersFails, NodeTypes
  <2> QED BY <1>7, <2>1, <2>3, <2>4 DEF GetPeersFails, peerVars, NodeTypes
<1>8. CASE AddPeer(g, o, p)
  <2>1. PICK x \in NewPeers(g, o, p) : known' = [known EXCEPT ![o] = @ \cup {x}]
    BY <1>8 DEF AddPeer
  <2>2. x \in Nodes
    BY <1>1, <2>1 DEF NewPeers
  <2>3. known' \in [Nodes -> SUBSET Nodes]
    BY <1>1, <2>1, <2>2 DEF NodeTypes
  <2> QED BY <1>8, <2>3 DEF AddPeer, NodeTypes
<1>11. CASE SavePeer(g, o)
  <2>1. saved' \in [Nodes -> SUBSET Nodes] /\ unsaved' \in [Nodes -> SUBSET Nodes]
    <3>1. CASE saved' = [saved EXCEPT ![o] = @ \cup call[g].new] /\ unsaved' = unsaved
      BY <1>1, <3>1 DEF NodeTypes
    <3>2. CASE unsaved' = [unsaved EXCEPT ![o] = @ \cup call[g].new] /\ saved' = saved
      BY <1>1, <3>2 DEF NodeTypes
    <3> QED BY <1>11, <3>1, <3>2 DEF SavePeer
  <2>2. losses' \in Nat /\ losses' + restarts <= MaxFaults
    BY <1>11, FailureCounted DEF SavePeer, NodeTypes
  <2> QED BY <1>11, <2>1, <2>2 DEF SavePeer, NodeTypes
<1>12. CASE AllAdded(g, o, p)
  BY <1>12 DEF AllAdded, mgrVars, peerVars, NodeTypes
<1>9. CASE Exchange(g, o, p) \/ ExchangeFails(g, o, p)
  <2>1. pool' \in [Nodes -> SUBSET Facts] /\ heard' \in [Nodes -> SUBSET Nodes]
    <3>1. CASE UNCHANGED <<heard, pool>>
      BY <3>1 DEF NodeTypes
    <3>2. CASE Serve(o, p)
      BY <1>1, <3>2 DEF Serve, NodeTypes
    <3> QED BY <1>9, <3>1, <3>2 DEF Exchange, ExchangeFails
  <2>2. losses' \in Nat /\ losses' + restarts <= MaxFaults
    BY <1>9, FailureCounted DEF Exchange, ExchangeFails, NodeTypes
  <2> QED BY <1>9, <2>1, <2>2 DEF Exchange, ExchangeFails, mgrVars, peerVars, NodeTypes
<1>10. CASE Merge(g, o, p)
  <2>1. pool' \in [Nodes -> SUBSET Facts]
    BY <1>1, <1>10 DEF Merge, NodeTypes
  <2> QED BY <1>10, <2>1 DEF Merge, mgrVars, peerVars, NodeTypes
<1> QED BY <1>3, <1>4, <1>5, <1>6, <1>7, <1>8, <1>9, <1>10, <1>11, <1>12 DEF Inside

-----------------------------------------------------------------------------
(* A call outside the loop leaves the lock and the file alone.             *)
LEMMA FileQuiet ==
    ASSUME FileInv, NEW g \in Goroutines, UNCHANGED <<known, saved, unsaved>>,
           \A h \in Goroutines : h # g => call'[h] = call[h],
           call[g].at # "save", call'[g].at \notin LoopAts,
           call'[g].new = call[g].new \/ call'[g].new = {}
    PROVE  FileInv'
<1>1. LockHeldOnce'
  BY DEF FileInv, LockHeldOnce
<1>2. OneAtATime'
  BY DEF FileInv, OneAtATime
<1>3. FileKeepsUp'
  BY DEF FileInv, FileKeepsUp
<1> QED BY <1>1, <1>2, <1>3 DEF FileInv

(* A peer is added by the one call that holds the lock, or that takes it.  *)
LEMMA FileAdds ==
    ASSUME CallTypes, NodeTypes, FileInv, NEW g \in Goroutines, AddPeer(g, Owner[g], call[g].peer)
    PROVE  FileInv'
<1> DEFINE o == Owner[g]
<1>1. PICK x \in NewPeers(g, o, call[g].peer) :
         /\ known' = [known EXCEPT ![o] = @ \cup {x}]
         /\ call' = [call EXCEPT ![g].at = "save", ![g].new = {x}]
  BY DEF AddPeer
<1>2. /\ call'[g].at = "save" /\ call'[g].new = {x}
      /\ \A h \in Goroutines : h # g => call'[h] = call[h]
  BY <1>1 DEF CallTypes, CallType
<1>3. saved' = saved /\ unsaved' = unsaved /\ o \in Nodes /\ InLoop(g, o)
  BY ActorIsNode DEF AddPeer
<1>4. /\ known'[o] = known[o] \cup {x}
      /\ \A n \in Nodes : n # o => known'[n] = known[n]
  BY <1>1, <1>3 DEF NodeTypes
<1>5. \A h \in Goroutines : (h # g /\ Owner[h] = o) => call[h].at \notin LoopAts
  <2>1. CASE call[g].at = "add"
    BY <2>1 DEF FileInv, LockHeldOnce, LoopAts
  <2>2. CASE ~Held(o)
    BY <2>2 DEF Held, LoopAts
  <2> QED BY <1>3, <2>1, <2>2 DEF InLoop
<1>6. LockHeldOnce'
  BY <1>2, <1>5 DEF FileInv, LockHeldOnce
<1>7. OneAtATime'
  BY <1>2 DEF FileInv, OneAtATime
<1>8. call[g].at # "save"
  BY <1>3 DEF InLoop
<1>9. ASSUME NEW n \in Nodes, NEW y \in known'[n] \ (saved[n] \cup unsaved[n])
      PROVE  \E h \in Goroutines : Owner[h] = n /\ call'[h].at = "save" /\ y \in call'[h].new
  <2>1. CASE y \in known[n]
    BY <1>2, <1>8, <2>1 DEF FileInv, FileKeepsUp
  <2>2. CASE n = o /\ y = x
    BY <1>2, <2>2
  <2> QED BY <1>4, <2>1, <2>2
<1>10. FileKeepsUp'
  BY <1>3, <1>9 DEF FileKeepsUp
<1> QED BY <1>6, <1>7, <1>10 DEF FileInv

(* What leaves the loop's hands is in the file, or has failed.             *)
LEMMA FileSaves ==
    ASSUME CallTypes, NodeTypes, FileInv, NEW g \in Goroutines, SavePeer(g, Owner[g])
    PROVE  FileInv'
<1> DEFINE o == Owner[g]
<1>1. /\ call[g].at = "save" /\ call' = [call EXCEPT ![g].at = "add", ![g].new = {}]
      /\ known' = known /\ o \in Nodes
  BY ActorIsNode DEF SavePeer
<1>2. /\ call'[g].at = "add" /\ call'[g].new = {}
      /\ \A h \in Goroutines : h # g => call'[h] = call[h]
  BY <1>1 DEF CallTypes, CallType
<1>3. /\ \A n \in Nodes : saved[n] \cup unsaved[n] \subseteq saved'[n] \cup unsaved'[n]
      /\ call[g].new \subseteq saved'[o] \cup unsaved'[o]
  <2>1. CASE saved' = [saved EXCEPT ![o] = @ \cup call[g].new] /\ unsaved' = unsaved
    BY <1>1, <2>1 DEF NodeTypes
  <2>2. CASE unsaved' = [unsaved EXCEPT ![o] = @ \cup call[g].new] /\ saved' = saved
    BY <1>1, <2>2 DEF NodeTypes
  <2> QED BY <2>1, <2>2 DEF SavePeer
<1>4. LockHeldOnce'
  BY <1>1, <1>2 DEF FileInv, LockHeldOnce, LoopAts
<1>5. OneAtATime'
  BY <1>2 DEF FileInv, OneAtATime
<1>6. ASSUME NEW n \in Nodes, NEW y \in known[n] \ (saved'[n] \cup unsaved'[n])
      PROVE  \E h \in Goroutines : Owner[h] = n /\ call'[h].at = "save" /\ y \in call'[h].new
  <2>1. PICK h \in Goroutines : Owner[h] = n /\ call[h].at = "save" /\ y \in call[h].new
    BY <1>3 DEF FileInv, FileKeepsUp
  <2>2. h # g
    BY <1>3, <2>1
  <2> QED BY <1>2, <2>1, <2>2
<1>7. FileKeepsUp'
  BY <1>1, <1>6 DEF FileKeepsUp
<1> QED BY <1>4, <1>5, <1>7 DEF FileInv

LEMMA InsideFile ==
    ASSUME CallTypes, NodeTypes, FileInv, NEW g \in Goroutines,
           Inside(g, Owner[g], call[g].peer)
    PROVE  FileInv'
<1> DEFINE o == Owner[g]
           p == call[g].peer
<1>1. call[g] \in CallType /\ Idle.at = "idle" /\ Idle.new = {}
  BY IdleCall DEF CallTypes, CallType
<1>2. CASE AddPeer(g, o, p)
  BY <1>2, FileAdds
<1>3. CASE SavePeer(g, o)
  BY <1>3, FileSaves
<1>4. CASE DialFails(g, o, p) \/ GetPeersFails(g, o, p) \/ ExchangeFails(g, o, p) \/ Merge(g, o, p)
  <2>1. call[g].at # "save" /\ Leave(g, o, p) /\ UNCHANGED <<known, saved, unsaved>>
    BY <1>4 DEF DialFails, GetPeersFails, ExchangeFails, Merge, mgrVars, peerVars
  <2>2. call'[g] = Idle /\ \A h \in Goroutines : h # g => call'[h] = call[h]
    BY <2>1 DEF Leave, CallTypes
  <2> QED BY <1>1, <2>1, <2>2, FileQuiet DEF LoopAts
<1>5. CASE Enter(g, o, p) \/ Dial(g, o, p) \/ GetPeers(g, o, p) \/ AllAdded(g, o, p) \/ Exchange(g, o, p)
  <2>1. call[g].at # "save" /\ UNCHANGED <<known, saved, unsaved>>
    BY <1>5 DEF Enter, Dial, GetPeers, AllAdded, InLoop, Exchange, mgrVars, peerVars
  <2>2. /\ call'[g].at \notin LoopAts /\ call'[g].new \in {call[g].new, {}}
        /\ \A h \in Goroutines : h # g => call'[h] = call[h]
    <3>1. CASE Enter(g, o, p)
      BY <1>1, <3>1 DEF Enter, CallTypes, CallType, LoopAts
    <3>2. CASE Dial(g, o, p)
      BY <1>1, <3>2 DEF Dial, CallTypes, CallType, LoopAts
    <3>3. CASE GetPeers(g, o, p)
      BY <1>1, <3>3 DEF GetPeers, CallTypes, CallType, LoopAts
    <3>4. CASE AllAdded(g, o, p)
      BY <1>1, <3>4 DEF AllAdded, CallTypes, CallType, LoopAts
    <3>5. CASE Exchange(g, o, p)
      BY <1>1, <3>5 DEF Exchange, CallTypes, CallType, LoopAts
    <3> QED BY <1>5, <3>1, <3>2, <3>3, <3>4, <3>5
  <2> QED BY <2>1, <2>2, FileQuiet
<1> QED BY <1>2, <1>3, <1>4, <1>5 DEF Inside

-----------------------------------------------------------------------------
LEMMA BeginStep ==
    ASSUME PeersInv, NEW g \in Goroutines, NEW p \in Nodes, Begin(g, Owner[g], p)
    PROVE  PeersInv'
<1>1. call[g].at = "idle" /\ call' = [call EXCEPT ![g] = [Idle EXCEPT !.at = "guard", !.peer = p]]
  BY DEF Begin
<1>2. UNCHANGED <<known, saved, unsaved, link, backoff, wait, heard, syncing, pool, up, losses, restarts>>
  BY DEF Begin, mgrVars, peerVars
<1>3. [Idle EXCEPT !.at = "guard", !.peer = p] \in CallType
      /\ [Idle EXCEPT !.at = "guard", !.peer = p].at = "guard"
      /\ [Idle EXCEPT !.at = "guard", !.peer = p].new = {}
  BY DEF Idle, CallType, Ats
<1>4. /\ call' \in [Goroutines -> CallType] /\ call'[g].at = "guard" /\ call'[g].new = {}
      /\ \A h \in Goroutines : h # g => call'[h] = call[h]
  BY <1>1, <1>3 DEF PeersInv, CallTypes
<1>5. call'[g].at \notin BusyAts /\ call[g].at \notin BusyAts
  BY <1>1, <1>4 DEF BusyAts
<1>6. CallTypes' /\ OneSyncPerPeer'
  BY <1>2, <1>4, <1>5, SamePeers DEF PeersInv
<1>7. FileInv'
  BY <1>1, <1>2, <1>4, FileQuiet DEF PeersInv, LoopAts
<1> QED BY <1>2, <1>6, <1>7 DEF PeersInv, NodeTypes

(* A killed process takes its calls and its marks with it.                 *)
LEMMA CrashStep ==
    ASSUME PeersInv, NEW n \in Nodes, Crash(n)
    PROVE  PeersInv'
<1>1. Idle \in CallType /\ Idle.at = "idle" /\ Idle.new = {}
  BY IdleCall
<1>2. /\ call' = [g \in Goroutines |-> IF Owner[g] = n THEN Idle ELSE call[g]]
      /\ syncing' = [syncing EXCEPT ![n] = {}]
      /\ known' = [known EXCEPT ![n] = {}] /\ unsaved' = [unsaved EXCEPT ![n] = {}]
      /\ saved' = saved
  BY DEF Crash
<1>3. CallTypes'
  BY <1>1, <1>2 DEF PeersInv, CallTypes
<1>4. \A g \in Goroutines : (Owner[g] = n => ~Busy(g)') /\ (Owner[g] # n => call'[g] = call[g] /\ (Busy(g)' <=> Busy(g)))
  BY <1>1, <1>2 DEF Busy
<1>5. \A g, h \in Goroutines :
         (g # h /\ Busy(g)' /\ Busy(h)' /\ Owner[g] = Owner[h]) => call'[g].peer # call'[h].peer
  BY <1>4 DEF PeersInv, OneSyncPerPeer
<1>6. ASSUME NEW m \in Nodes
      PROVE  syncing'[m] = {call'[g].peer : g \in {h \in Goroutines : Busy(h)' /\ Owner[h] = m}}
  <2>1. CASE m = n
    <3>1. {h \in Goroutines : Busy(h)' /\ Owner[h] = m} = {}
      BY <1>4, <2>1
    <3>2. {call'[g].peer : g \in {h \in Goroutines : Busy(h)' /\ Owner[h] = m}} = {}
      BY <3>1
    <3> QED BY <1>2, <2>1, <3>2 DEF PeersInv, CallTypes
  <2>2. CASE m # n
    <3>1. {call'[g].peer : g \in {h \in Goroutines : Busy(h)' /\ Owner[h] = m}}
            = {call[g].peer : g \in {h \in Goroutines : Busy(h) /\ Owner[h] = m}}
      BY <1>4, <2>2
    <3>2. syncing'[m] = syncing[m]
      BY <1>2, <2>2 DEF PeersInv, CallTypes
    <3> QED BY <3>1, <3>2 DEF PeersInv, OneSyncPerPeer
  <2> QED BY <2>1, <2>2
<1>7. OneSyncPerPeer'
  BY <1>5, <1>6 DEF OneSyncPerPeer
<1>8. FileInv'
  <2>1. \A g \in Goroutines : IF Owner[g] = n THEN call'[g] = Idle ELSE call'[g] = call[g]
    BY <1>2
  <2>2. LockHeldOnce'
    BY <1>1, <2>1 DEF PeersInv, FileInv, LockHeldOnce, LoopAts
  <2>3. OneAtATime'
    BY <1>1, <2>1 DEF PeersInv, FileInv, OneAtATime
  <2>4. known'[n] = {} /\ \A m \in Nodes : m # n => known'[m] = known[m] /\ unsaved'[m] = unsaved[m]
    BY <1>2 DEF PeersInv, NodeTypes
  <2>5. ASSUME NEW m \in Nodes, NEW x \in known'[m] \ (saved'[m] \cup unsaved'[m])
        PROVE  \E g \in Goroutines : Owner[g] = m /\ call'[g].at = "save" /\ x \in call'[g].new
    <3>1. m # n /\ x \in known[m] \ (saved[m] \cup unsaved[m])
      BY <1>2, <2>4
    <3>2. PICK g \in Goroutines : Owner[g] = m /\ call[g].at = "save" /\ x \in call[g].new
      BY <3>1 DEF PeersInv, FileInv, FileKeepsUp
    <3> QED BY <2>1, <3>1, <3>2
  <2>6. FileKeepsUp'
    BY <2>5 DEF FileKeepsUp
  <2> QED BY <2>2, <2>3, <2>6 DEF FileInv
<1>9. NodeTypes'
  <2>1. /\ known' \in [Nodes -> SUBSET Nodes] /\ saved' \in [Nodes -> SUBSET Nodes]
        /\ heard' \in [Nodes -> SUBSET Nodes] /\ wait' \in [Nodes -> SUBSET Nodes]
        /\ up' \in [Nodes -> BOOLEAN] /\ unsaved' \in [Nodes -> SUBSET Nodes]
    BY DEF Crash, PeersInv, NodeTypes
  <2>2. pool' \in [Nodes -> SUBSET Facts]
    BY DEF Crash, PeersInv, NodeTypes
  <2>3. link' \in [Nodes -> [Nodes -> {"none", "live", "dead"}]]
    BY DEF Crash, PeersInv, NodeTypes
  <2>4. backoff' \in [Nodes -> [Nodes -> 0..MaxBackoff]]
    <3>1. [p \in Nodes |-> 0] \in [Nodes -> 0..MaxBackoff]
      BY Bounds
    <3> QED BY <3>1 DEF Crash, PeersInv, NodeTypes
  <2>5. losses' \in Nat /\ restarts' \in Nat /\ losses' + restarts' <= MaxFaults
    BY Bounds DEF Crash, PeersInv, NodeTypes
  <2> QED BY <2>1, <2>2, <2>3, <2>4, <2>5 DEF NodeTypes
<1> QED BY <1>3, <1>7, <1>8, <1>9 DEF PeersInv

LEMMA OtherSteps ==
    ASSUME PeersInv, NEW n \in Nodes,
           \/ \E p \in Nodes : Expire(n, p) \/ LinkDies(n, p)
           \/ \E f \in Facts : Resolve(n, f)
           \/ Restart(n)
    PROVE  PeersInv'
<1>1. UNCHANGED <<call, syncing, saved, unsaved, backoff, heard, losses, restarts>>
  BY DEF Expire, LinkDies, Resolve, Restart, mgrVars, peerVars
<1>2. CallTypes' /\ OneSyncPerPeer'
  BY <1>1 DEF PeersInv, CallTypes, OneSyncPerPeer, Busy
<1>3. /\ known' \in [Nodes -> SUBSET Nodes] /\ wait' \in [Nodes -> SUBSET Nodes]
      /\ pool' \in [Nodes -> SUBSET Facts] /\ up' \in [Nodes -> BOOLEAN]
      /\ link' \in [Nodes -> [Nodes -> {"none", "live", "dead"}]]
  <2>1. CASE \E p \in Nodes : Expire(n, p)
    BY <2>1 DEF Expire, peerVars, PeersInv, NodeTypes
  <2>4. CASE \E p \in Nodes : LinkDies(n, p)
    <3>1. PICK p \in Nodes : LinkDies(n, p)
      BY <2>4
    <3>2. link' \in [Nodes -> [Nodes -> {"none", "live", "dead"}]]
      BY <3>1 DEF LinkDies, PeersInv, NodeTypes
    <3> QED BY <3>1, <3>2 DEF LinkDies, peerVars, PeersInv, NodeTypes
  <2>2. CASE \E f \in Facts : Resolve(n, f)
    BY <2>2 DEF Resolve, mgrVars, peerVars, PeersInv, NodeTypes
  <2>3. CASE Restart(n)
    BY <2>3 DEF Restart, PeersInv, NodeTypes
  <2> QED BY <2>1, <2>2, <2>3, <2>4
<1>4. FileInv'
  <2>1. LockHeldOnce' /\ OneAtATime'
    BY <1>1 DEF PeersInv, FileInv, LockHeldOnce, OneAtATime
  <2>2. \A m \in Nodes : known'[m] \subseteq known[m] \cup saved[m]
    <3>1. CASE Restart(n)
      BY <3>1 DEF Restart, PeersInv, NodeTypes
    <3>2. CASE known' = known
      BY <3>2
    <3> QED BY <3>1, <3>2 DEF Expire, LinkDies, Resolve, mgrVars, peerVars
  <2>3. FileKeepsUp'
    BY <1>1, <2>2 DEF PeersInv, FileInv, FileKeepsUp
  <2> QED BY <2>1, <2>3 DEF FileInv
<1> QED BY <1>1, <1>2, <1>3, <1>4 DEF PeersInv, NodeTypes

LEMMA PeersInitial == Init => PeersInv
<1> SUFFICES ASSUME Init PROVE PeersInv
  OBVIOUS
<1>1. /\ known = [n \in Nodes |-> {}] /\ saved = known /\ unsaved = known /\ heard = known
      /\ wait = [n \in Nodes |-> {}] /\ syncing = wait
      /\ call = [g \in Goroutines |-> Idle]
  BY DEF Init
<1>2. \A g \in Goroutines : Idle \in CallType /\ Idle.at = "idle" /\ Idle.new = {}
  BY ActorIsNode, IdleCall
<1>3. CallTypes
  BY <1>1, <1>2 DEF CallTypes
<1>4. \A g \in Goroutines : ~Busy(g)
  BY <1>1, <1>2 DEF Busy
<1>5. ASSUME NEW n \in Nodes
      PROVE  syncing[n] = {call[g].peer : g \in {h \in Goroutines : Busy(h) /\ Owner[h] = n}}
  <2>1. {h \in Goroutines : Busy(h) /\ Owner[h] = n} = {}
    BY <1>4
  <2>2. {call[g].peer : g \in {h \in Goroutines : Busy(h) /\ Owner[h] = n}} = {}
    BY <2>1
  <2> QED BY <1>1, <2>2
<1>6. OneSyncPerPeer
  BY <1>4, <1>5 DEF OneSyncPerPeer
<1>7. NodeTypes
  <2>1. backoff \in [Nodes -> [Nodes -> 0..MaxBackoff]]
    BY Bounds DEF Init
  <2> QED BY <1>1, <2>1, Bounds DEF Init, NodeTypes
<1>8. FileInv
  BY <1>1, <1>2 DEF FileInv, LockHeldOnce, LoopAts, OneAtATime, FileKeepsUp
<1> QED BY <1>3, <1>6, <1>7, <1>8 DEF PeersInv

LEMMA PeersStep ==
    ASSUME PeersInv, [Next]_vars
    PROVE  PeersInv'
<1>1. CASE \E g \in Goroutines, p \in Nodes : Begin(g, Owner[g], p)
  BY <1>1, BeginStep
<1>2. CASE \E g \in Goroutines : Inside(g, Owner[g], call[g].peer)
  BY <1>2, InsideCalls, InsideNodes, InsideFile DEF PeersInv
<1>3. CASE \E n \in Nodes : Crash(n)
  BY <1>3, CrashStep
<1>4. CASE \E n \in Nodes : \/ \E p \in Nodes : Expire(n, p) \/ LinkDies(n, p)
                            \/ \E f \in Facts : Resolve(n, f)
                            \/ Restart(n)
  BY <1>4, OtherSteps
<1>5. CASE UNCHANGED vars
  BY <1>5 DEF vars, mgrVars, peerVars, PeersInv, CallTypes, NodeTypes, OneSyncPerPeer, Busy,
              FileInv, LockHeldOnce, OneAtATime, FileKeepsUp
<1> QED BY <1>1, <1>2, <1>3, <1>4, <1>5 DEF Next

(* The types, who is busy with whom, who holds the manager's lock, and     *)
(* that a known peer missing from the file is in the one transaction under *)
(* way or in one that failed (peer_client.go:590).                         *)
THEOREM PeersInvariant == Spec => []PeersInv
<1>1. PeersInv /\ [Next]_vars => PeersInv'
  BY PeersStep
<1> QED BY <1>1, PeersInitial, PTL DEF Spec

(* A peer is marked busy exactly while one call synchronises with it,      *)
(* through failures, timeouts and kills (peer_client.go:472).              *)
THEOREM OneSync == Spec => []OneSyncPerPeer
<1>1. PeersInv => OneSyncPerPeer
  BY DEF PeersInv
<1> QED BY <1>1, PeersInvariant, PTL

(* A kill at any moment costs the file at most the one peer whose          *)
(* transaction was under way, failed ones aside (peer_client.go:342).      *)
THEOREM PeersKept == Spec => PeersRemembered
<1>1. ASSUME PeersInv, NEW n \in Nodes, Crash(n),
             NEW x \in known[n] \ (saved'[n] \cup unsaved[n]),
             NEW y \in known[n] \ (saved'[n] \cup unsaved[n])
      PROVE  x = y
  <2>1. saved' = saved
    BY <1>1 DEF Crash
  <2>2. PICK g \in Goroutines : Owner[g] = n /\ call[g].at = "save" /\ x \in call[g].new
    BY <1>1, <2>1 DEF PeersInv, FileInv, FileKeepsUp
  <2>3. PICK h \in Goroutines : Owner[h] = n /\ call[h].at = "save" /\ y \in call[h].new
    BY <1>1, <2>1 DEF PeersInv, FileInv, FileKeepsUp
  <2>4. g = h
    BY <1>1, <2>2, <2>3 DEF PeersInv, FileInv, LockHeldOnce, LoopAts
  <2> QED BY <1>1, <2>2, <2>3, <2>4 DEF PeersInv, FileInv, OneAtATime
<1>2. PeersInv /\ [Next]_vars =>
          [\A n \in Nodes : Crash(n) =>
               \A x, y \in known[n] \ (saved'[n] \cup unsaved[n]) : x = y]_vars
  BY <1>1
<1> QED BY <1>2, PeersInvariant, PTL DEF Spec, PeersRemembered
=============================================================================
