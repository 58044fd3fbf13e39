------------------------------ MODULE PeerSync ------------------------------
(***************************************************************************)
(* Nodes that share their DNS records: the PeerSyncManager of each node    *)
(* (client/peer_client.go, client/peer_store.go), the PeerService it calls *)
(* on the others (server/peer_server.go), and the QUIC server in between,  *)
(* which has to guess what a request is (server/quic_server.go).           *)
(*                                                                         *)
(* A node is its address.  The pool of a node is the set of the addresses  *)
(* it has learnt for one domain; DNSPool tells how they are merged.  Each  *)
(* lock section, and each call with its handler, is one action, but for    *)
(* the one that writes to the disk while it holds the manager's lock       *)
(* (AddPeer, SavePeer).                                                    *)
(*                                                                         *)
(* ReportNode, called after GetPeers, is no action: with an address the    *)
(* server takes it for a Fetch, without one for an empty ExchangeDNS, and  *)
(* the caller, which GetPeers has added to heard, ignores the answer.      *)
(***************************************************************************)
EXTENDS Integers, FiniteSets

CONSTANTS
    Nodes,
    Seeds,             \* config peer.seeds of each node
    Named,             \* the nodes that have configured peer.my_addr
    Goroutines,        \* the calls of syncWithPeer that run at once
    Owner,             \* the node each of them runs on
    Facts,             \* the addresses of the domain
    Learning,          \* the nodes that resolve the domain themselves
    Long,              \* how many addresses make a record of 128 bytes
    MaxBackoff,        \* in seconds, 300 in the code
    MaxFaults          \* bound: calls that time out although the connection
                       \* lives, peers that cannot be saved, and kills

ASSUME SeedsOfNodes == Seeds \in [Nodes -> SUBSET Nodes \ {{}}]
ASSUME OwnersAreNodes == Owner \in [Goroutines -> Nodes]
ASSUME SubsetsOfNodes == Named \subseteq Nodes /\ Learning \subseteq Nodes
ASSUME Bounds == {Long, MaxBackoff, MaxFaults} \subseteq Nat

VARIABLES
    known,             \* PeerSyncManager.knownPeers
    saved,             \* the peers in the file peers.bolt
    unsaved,           \* history: the known peers it failed to take
    heard,             \* PeerServiceServer.knownPeers
    link,              \* peerClients: the connection to a peer, and if it
                       \* still lives
    backoff,           \* backoffSec
    wait,              \* the peers whose nextRetryAt has not come yet
    syncing,           \* the peers a call of syncWithPeer is busy with
    call,              \* the calls of syncWithPeer
    pool,              \* the addresses in the DNS pool
    up,                \* the node runs
    losses, restarts

peerVars == <<known, saved, unsaved>>
mgrVars == <<peerVars, link, backoff, wait>>
vars == <<mgrVars, heard, syncing, call, pool, up, losses, restarts>>

Idle == [at |-> "idle", peer |-> CHOOSE n \in Nodes : TRUE, got |-> {}, new |-> {},
         recs |-> {}]

Init ==
    /\ known = [n \in Nodes |-> {}] /\ saved = known /\ unsaved = known /\ heard = known
    /\ link = [n \in Nodes |-> [p \in Nodes |-> "none"]]
    /\ backoff = [n \in Nodes |-> [p \in Nodes |-> 0]]
    /\ wait = [n \in Nodes |-> {}] /\ syncing = wait
    /\ call = [g \in Goroutines |-> Idle]
    /\ pool = [n \in Nodes |-> {}]
    /\ up = [n \in Nodes |-> TRUE]
    /\ losses = 0 /\ restarts = 0

-----------------------------------------------------------------------------
(* What ExchangeDNS puts on the wire: a marker for no records; else the    *)
(* first field holds the record, whose bytes are valid UTF-8 unless the    *)
(* length of a part of it takes a second byte.                             *)
Wire(recs) ==
    CASE recs = {}                 -> "marker"
      [] Cardinality(recs) >= Long -> "binary"
      [] OTHER                     -> "text"

(* Mutant of Route: what is not a marker is taken for a Fetch.             *)
RouteMarkers(wire) == IF wire = "marker" THEN "ExchangeDNS" ELSE "Fetch"

(* handleStreamWithConn tries Fetch first: any message whose first field   *)
(* is a string, as it is that of an URL, is one.                           *)
Route(wire) == IF wire = "text" THEN "Fetch" ELSE "ExchangeDNS"

(* GetPeers of node p, called by n: the handler learns the address of the  *)
(* caller, and adds the seeds and its own name to what it knows.           *)
HeardAfter(p, n) == heard[p] \cup {n} \cup Seeds[p] \cup (Named \cap {p})

(* The manager's lock is held from the first peer added to the last saved. *)
Held(n) == \E g \in Goroutines : Owner[g] = n /\ call[g].at \in {"add", "save"}

(* The deferred end of syncWithPeer.                                       *)
Leave(g, n, p) ==
    /\ call' = [call EXCEPT ![g] = Idle]
    /\ syncing' = [syncing EXCEPT ![n] = @ \ {p}]

(* In what follows n is the node of g, and p the peer it calls.            *)
(*                                                                         *)
(* A tick, or a peer just found: seeds and known peers are synchronised    *)
(* with, but not this node itself nor a peer that has to wait.             *)
Begin(g, n, p) ==
    /\ up[n] /\ call[g].at = "idle" /\ ~Held(n)
    /\ p \in Seeds[n] \cup known[n] /\ p # n /\ p \notin wait[n]
    /\ call' = [call EXCEPT ![g] = [Idle EXCEPT !.at = "guard", !.peer = p]]
    /\ UNCHANGED <<mgrVars, heard, syncing, pool, up, losses, restarts>>

(* Mutant of Enter: what the guard says is not looked at.                  *)
EnterAlways(g, n, p) ==
    /\ call[g].at = "guard"
    /\ syncing' = [syncing EXCEPT ![n] = @ \cup {p}]
    /\ call' = [call EXCEPT ![g].at = IF link[n][p] = "none" THEN "dial" ELSE "peers"]
    /\ UNCHANGED <<mgrVars, heard, pool, up, losses, restarts>>

Enter(g, n, p) ==
    /\ call[g].at = "guard"
    /\ IF p \in syncing[n]
       THEN call' = [call EXCEPT ![g] = Idle] /\ UNCHANGED syncing
       ELSE /\ syncing' = [syncing EXCEPT ![n] = @ \cup {p}]
            /\ call' = [call EXCEPT ![g].at = IF link[n][p] = "none" THEN "dial" ELSE "peers"]
    /\ UNCHANGED <<mgrVars, heard, pool, up, losses, restarts>>

(* A call may fail: always when the peer is down or the connection dead,   *)
(* and now and then when a message is late.                                *)
Reachable(n, p) == up[p] /\ link[n][p] = "live"

MayFail(ok) ==
    \/ ~ok /\ UNCHANGED losses
    \/ ok /\ losses + restarts < MaxFaults /\ losses' = losses + 1

Dial(g, n, p) ==
    /\ call[g].at = "dial" /\ up[p]
    /\ link' = [link EXCEPT ![n][p] = "live"]
    /\ call' = [call EXCEPT ![g].at = "peers"]
    /\ UNCHANGED <<peerVars, backoff, wait, heard, syncing, pool, up, losses, restarts>>

(* An IPv6 address without a route waits for an hour, others do not wait.  *)
DialFails(g, n, p) ==
    /\ call[g].at = "dial" /\ MayFail(up[p])
    /\ Leave(g, n, p)
    /\ wait' \in {wait, [wait EXCEPT ![n] = @ \cup {p}]}
    /\ UNCHANGED <<peerVars, link, backoff, heard, pool, up, restarts>>

(* Mutant of GetPeers: the answer leaves out what the peer has heard.      *)
GetPeersSeedsOnly(g, n, p) ==
    /\ call[g].at = "peers" /\ Reachable(n, p)
    /\ heard' = [heard EXCEPT ![p] = HeardAfter(p, n)]
    /\ call' = [call EXCEPT ![g].at = "learn", ![g].got = Seeds[p] \cup (Named \cap {p})]
    /\ backoff' = [backoff EXCEPT ![n][p] = 0]
    /\ wait' = [wait EXCEPT ![n] = @ \ {p}]
    /\ UNCHANGED <<peerVars, link, syncing, pool, up, losses, restarts>>

GetPeers(g, n, p) ==
    /\ call[g].at = "peers" /\ Reachable(n, p)
    /\ heard' = [heard EXCEPT ![p] = HeardAfter(p, n)]
    /\ call' = [call EXCEPT ![g].at = "learn", ![g].got = HeardAfter(p, n)]
    /\ backoff' = [backoff EXCEPT ![n][p] = 0]
    /\ wait' = [wait EXCEPT ![n] = @ \ {p}]
    /\ UNCHANGED <<peerVars, link, syncing, pool, up, losses, restarts>>

NextBackoff(b) ==
    LET doubled == IF b = 0 THEN 1 ELSE 2 * b
    IN  IF doubled > MaxBackoff THEN MaxBackoff ELSE doubled

(* A timeout, with the request handled or not, makes the peer wait; other  *)
(* errors do not.  The connection stays in peerClients, dead or alive, and *)
(* is not dialled again.                                                   *)
GetPeersFails(g, n, p) ==
    /\ call[g].at = "peers" /\ MayFail(Reachable(n, p))
    /\ Leave(g, n, p)
    /\ \/ /\ backoff' = [backoff EXCEPT ![n][p] = NextBackoff(@)]
          /\ wait' = [wait EXCEPT ![n] = @ \cup {p}]
       \/ UNCHANGED <<backoff, wait>>
    /\ \/ UNCHANGED heard
       \/ Reachable(n, p) /\ heard' = [heard EXCEPT ![p] = HeardAfter(p, n)]
    /\ UNCHANGED <<peerVars, link, pool, up, restarts>>

(* The peers not known yet, in the loop under the manager's lock.          *)
InLoop(g, n) == call[g].at = "add" \/ (call[g].at = "learn" /\ ~Held(n))
NewPeers(g, n, p) == call[g].got \ ({p} \cup known[n])

(* Mutant of AddPeer: a peer is not saved when more are to come.           *)
AddPeerSavingLast(g, n, p) ==
    /\ InLoop(g, n)
    /\ \E x \in NewPeers(g, n, p) :
          /\ known' = [known EXCEPT ![n] = @ \cup {x}]
          /\ call' = IF NewPeers(g, n, p) = {x}
                     THEN [call EXCEPT ![g].at = "save", ![g].new = {x}]
                     ELSE [call EXCEPT ![g].at = "add"]
    /\ UNCHANGED <<saved, unsaved, link, backoff, wait, heard, syncing, pool, up, losses, restarts>>

(* One after the other is added ...                                        *)
AddPeer(g, n, p) ==
    /\ InLoop(g, n)
    /\ \E x \in NewPeers(g, n, p) :
          /\ known' = [known EXCEPT ![n] = @ \cup {x}]
          /\ call' = [call EXCEPT ![g].at = "save", ![g].new = {x}]
    /\ UNCHANGED <<saved, unsaved, link, backoff, wait, heard, syncing, pool, up, losses, restarts>>

(* ... and saved in a transaction of its own, or not: nobody looks at the  *)
(* error, and a peer that is known is not saved again.                     *)
SavePeer(g, n) ==
    /\ call[g].at = "save"
    /\ call' = [call EXCEPT ![g].at = "add", ![g].new = {}]
    /\ \/ saved' = [saved EXCEPT ![n] = @ \cup call[g].new] /\ UNCHANGED <<unsaved, losses>>
       \/ unsaved' = [unsaved EXCEPT ![n] = @ \cup call[g].new] /\ MayFail(TRUE) /\ UNCHANGED saved
    /\ UNCHANGED <<known, link, backoff, wait, heard, syncing, pool, up, restarts>>

AllAdded(g, n, p) ==
    /\ InLoop(g, n) /\ NewPeers(g, n, p) = {}
    /\ call' = [call EXCEPT ![g].at = "exchange", ![g].got = {}]
    /\ UNCHANGED <<mgrVars, heard, syncing, pool, up, losses, restarts>>

(* What ExchangeDNS does at p: its records are read before those of the    *)
(* caller are merged.                                                      *)
Serve(n, p) ==
    /\ heard' = [heard EXCEPT ![p] = @ \cup {n}]
    /\ pool' = [pool EXCEPT ![p] = @ \cup pool[n]]

(* A request taken for a Fetch of the URL made of its bytes is answered    *)
(* with an error that quotes the URL, which is read as a record again.     *)
Exchange(g, n, p) ==
    /\ call[g].at = "exchange" /\ Reachable(n, p)
    /\ \/ /\ Route(Wire(pool[n])) = "ExchangeDNS" /\ Serve(n, p)
          /\ call' = [call EXCEPT ![g].at = "merge", ![g].recs = pool[p]]
       \/ /\ Route(Wire(pool[n])) = "Fetch" /\ UNCHANGED <<heard, pool>>
          /\ call' = [call EXCEPT ![g].at = "merge", ![g].recs = pool[n]]
    /\ UNCHANGED <<mgrVars, syncing, up, losses, restarts>>

(* No answer: the peer may have merged the records all the same.           *)
ExchangeFails(g, n, p) ==
    /\ call[g].at = "exchange" /\ MayFail(Reachable(n, p))
    /\ Leave(g, n, p)
    /\ \/ UNCHANGED <<heard, pool>>
       \/ Reachable(n, p) /\ Route(Wire(pool[n])) = "ExchangeDNS" /\ Serve(n, p)
    /\ UNCHANGED <<mgrVars, up, restarts>>

(* MergeFromPeer and PersistNow.                                           *)
Merge(g, n, p) ==
    /\ call[g].at = "merge"
    /\ pool' = [pool EXCEPT ![n] = @ \cup call[g].recs]
    /\ Leave(g, n, p)
    /\ UNCHANGED <<mgrVars, heard, up, losses, restarts>>

-----------------------------------------------------------------------------
(* Nothing is sent to a peer that waits, and the connection has no keep    *)
(* alive: once the wait is longer than QUIC's idle timeout, or when the    *)
(* network goes, it is dead.                                               *)
LinkDies(n, p) ==
    /\ link[n][p] = "live"
    /\ link' = [link EXCEPT ![n][p] = "dead"]
    /\ UNCHANGED <<peerVars, backoff, wait, heard, syncing, call, pool, up, losses, restarts>>

(* The time to wait for a peer has passed.                                 *)
Expire(n, p) ==
    /\ p \in wait[n]
    /\ wait' = [wait EXCEPT ![n] = @ \ {p}]
    /\ UNCHANGED <<peerVars, link, backoff, heard, syncing, call, pool, up, losses, restarts>>

(* A node resolves the domain for a request of its own.                    *)
Resolve(n, f) ==
    /\ n \in Learning /\ up[n] /\ f \notin pool[n]
    /\ pool' = [pool EXCEPT ![n] = @ \cup {f}]
    /\ UNCHANGED <<mgrVars, heard, syncing, call, up, losses, restarts>>

(* The process is killed.  What it had not written to the pool's file is   *)
(* lost; the connections others have to it are dead.                       *)
Crash(n) ==
    /\ up[n] /\ losses + restarts < MaxFaults
    /\ restarts' = restarts + 1
    /\ up' = [up EXCEPT ![n] = FALSE]
    /\ \E kept \in SUBSET pool[n] : pool' = [pool EXCEPT ![n] = kept]
    /\ heard' = [heard EXCEPT ![n] = {}]
    /\ known' = [known EXCEPT ![n] = {}] /\ unsaved' = [unsaved EXCEPT ![n] = {}]
    /\ link' = [m \in Nodes |-> [p \in Nodes |->
                  IF m = n THEN "none"
                  ELSE IF p = n /\ link[m][p] = "live" THEN "dead" ELSE link[m][p]]]
    /\ backoff' = [backoff EXCEPT ![n] = [p \in Nodes |-> 0]]
    /\ wait' = [wait EXCEPT ![n] = {}] /\ syncing' = [syncing EXCEPT ![n] = {}]
    /\ call' = [g \in Goroutines |-> IF Owner[g] = n THEN Idle ELSE call[g]]
    /\ UNCHANGED <<saved, losses>>

Restart(n) ==
    /\ ~up[n]
    /\ up' = [up EXCEPT ![n] = TRUE]
    /\ known' = [known EXCEPT ![n] = saved[n]]
    /\ UNCHANGED <<saved, unsaved, link, backoff, wait, heard, syncing, call, pool, losses, restarts>>

(* All but the loop itself and the exchange take the manager's lock.       *)
Inside(g, n, p) ==
    \/ /\ ~Held(n)
       /\ \/ Enter(g, n, p)
          \/ Dial(g, n, p) \/ DialFails(g, n, p)
          \/ GetPeers(g, n, p) \/ GetPeersFails(g, n, p)
          \/ ExchangeFails(g, n, p)
          \/ Merge(g, n, p)
    \/ AddPeer(g, n, p) \/ SavePeer(g, n) \/ AllAdded(g, n, p)
    \/ Exchange(g, n, p)

Next ==
    \/ \E g \in Goroutines, p \in Nodes : Begin(g, Owner[g], p)
    \/ \E g \in Goroutines : Inside(g, Owner[g], call[g].peer)
    \/ \E n, p \in Nodes : Expire(n, p) \/ LinkDies(n, p)
    \/ \E n \in Nodes, f \in Facts : Resolve(n, f)
    \/ \E n \in Nodes : Crash(n) \/ Restart(n)

Syncing == {Owner[g] : g \in Goroutines}

(* Every call runs to its end: its requests time out, and who holds the    *)
(* manager's lock lets it go after a finite number of peers.  All waiting  *)
(* ends.  The ticker starts a call for each peer again and again: that the *)
(* calls of the model are few must not leave one out, hence strong         *)
(* fairness.                                                               *)
Scheduling ==
    /\ \A g \in Goroutines : WF_vars(Inside(g, Owner[g], call[g].peer))
    /\ \A n \in Syncing, p \in Nodes :
          /\ SF_vars(\E g \in Goroutines : Owner[g] = n /\ Begin(g, n, p))
          /\ WF_vars(Expire(n, p))

Spec == Init /\ [][Next]_vars /\ Scheduling

-----------------------------------------------------------------------------
PeersTypeOK ==
    /\ {known, saved, unsaved, heard, wait, syncing} \subseteq [Nodes -> SUBSET Nodes]
    /\ link \in [Nodes -> [Nodes -> {"none", "live", "dead"}]]
    /\ backoff \in [Nodes -> [Nodes -> 0..MaxBackoff]]
    /\ call \in [Goroutines ->
                   [at : {"idle", "guard", "dial", "peers", "learn", "add", "save", "exchange", "merge"},
                    peer : Nodes, got : SUBSET Nodes, new : SUBSET Nodes, recs : SUBSET Facts]]
    /\ pool \in [Nodes -> SUBSET Facts] /\ up \in [Nodes -> BOOLEAN]
    /\ losses + restarts \in 0..MaxFaults

Busy(g) == call[g].at \notin {"idle", "guard"}

(* Two calls never synchronise with one peer at once, and a peer is marked *)
(* busy exactly while one does, whatever fails: else it is synchronised    *)
(* with twice, or never again (peer_client.go:472).                        *)
OneSyncPerPeer ==
    /\ \A g, h \in Goroutines :
          (g # h /\ Busy(g) /\ Busy(h) /\ Owner[g] = Owner[h]) => call[g].peer # call[h].peer
    /\ \A n \in Nodes : syncing[n] = {call[g].peer : g \in {h \in Goroutines : Busy(h) /\ Owner[h] = n}}

(* A node killed at any moment comes back with the peers it had found      *)
(* ("即使seed下线也能继续发现", peer_client.go:342), but for at most one,    *)
(* whose transaction was under way, and those whose transaction failed.    *)
PeersRemembered ==
    [][\A n \in Nodes : Crash(n) =>
           \A x, y \in known[n] \ (saved'[n] \cup unsaved[n]) : x = y]_vars

(* What a seed has heard of, a node finds out, late answers and lost ones, *)
(* backoff and a busy lock notwithstanding, unless a node is restarted or  *)
(* the connection to the seed dies: the code never dials it again          *)
(* (peer_client.go:486).                                                   *)
SeedsIntroduce ==
    \A n \in Syncing : \A s \in Seeds[n] \ {n}, p \in Nodes :
        (p # s /\ p \in heard[s]) ~>
            (p \in known[n] \/ restarts > 0 \/ link[n][s] = "dead")

(* A record that is long enough not to be taken for an URL spreads from a  *)
(* node that synchronises to every node it has found, unless a node is     *)
(* restarted or a connection of this one dies.                             *)
LongRecordsSpread ==
    \A n \in Syncing, p \in Nodes :
        (Cardinality(pool[n]) >= Long /\ p \in Seeds[n] \cup known[n]) ~>
            (Cardinality(pool[p]) >= Long \/ restarts > 0 \/ link[n][p] = "dead")

(* The server accepts every exchange as such: "ExchangeDNSRequest：总是接受 *)
(* （即使 records 为空也是有效的 ExchangeDNS 请求）" (quic_server.go:265).   *)
ExchangeIsServed ==
    [][\A g \in Goroutines :
          (call[g].at = "exchange" /\ call'[g].at = "merge") =>
              call'[g].recs = pool[call[g].peer]]_vars
=============================================================================
