----------------------------- MODULE ClientCache -----------------------------
(***************************************************************************)
(* The HTTP/2 clients of proxy/utls_client.go.  All requests share one map *)
(* of clients per target (a host and the address it is reached at), which  *)
(* prewarming fills ahead; the UTLSClient made for each request keeps its  *)
(* own map besides.  A target is marked while a goroutine prewarms it: its *)
(* slot in the shared map then holds nil.                                  *)
(*                                                                         *)
(* A client is the target it dials, whatever it is asked for: who built it *)
(* and which connections it holds is left out.  PrewarmConnections, which  *)
(* has no caller (main.go:66), is left out too.                            *)
(***************************************************************************)
EXTENDS FiniteSets

CONSTANTS
    Targets,           \* the keys of the maps, host|address
    Instances,         \* the UTLSClients of requests under way
    Users, OwnerOf,    \* the goroutines of each: Fetch, those of its race
    Prewarmers,        \* the goroutines in PrewarmSingleConnection
    Absent, Marked     \* no entry, and the nil of an entry being prewarmed

ASSUME OwnersAreInstances == OwnerOf \in [Users -> Instances]
ASSUME EmptySlots == Absent # Marked /\ {Absent, Marked} \cap Targets = {}

VARIABLES
    shared,            \* globalPrewarmedH2Clients
    own,               \* UTLSClient.h2Clients of each instance
    user,              \* where each goroutine is, its target and its client
    prewarmer          \* ... and its target

cacheVars == <<shared, own, user, prewarmer>>

NoClient == [t \in Targets |-> Absent]

IdleUser == [at |-> "idle", target |-> Absent, client |-> Absent]
IdlePrewarmer == [at |-> "idle", target |-> Absent]

CacheInit ==
    /\ shared = NoClient
    /\ own = [i \in Instances |-> NoClient]
    /\ user = [u \in Users |-> IdleUser]
    /\ prewarmer = [p \in Prewarmers |-> IdlePrewarmer]

-----------------------------------------------------------------------------
(* NewUTLSClient: the next request has an instance without clients.        *)
NewUTLSClient(i) ==
    /\ \A u \in Users : OwnerOf[u] = i => user[u] = IdleUser
    /\ own' = [own EXCEPT ![i] = NoClient]
    /\ UNCHANGED <<shared, user, prewarmer>>

NeedClient(u, t) ==
    /\ user[u].at = "idle"
    /\ user' = [user EXCEPT ![u] = [at |-> "look", target |-> t, client |-> Absent]]
    /\ UNCHANGED <<shared, own, prewarmer>>

(* getOrCreateH2Client looks for a shared client under the read lock ...   *)
LookShared(u) ==
    /\ user[u].at = "look"
    /\ LET c == shared[user[u].target]
       IN  user' = IF c \in Targets THEN [user EXCEPT ![u].at = "adopt", ![u].client = c]
                                    ELSE [user EXCEPT ![u].at = "own"]
    /\ UNCHANGED <<shared, own, prewarmer>>

(* ... releases it and keeps the client among its own, or ...              *)
Adopt(u) ==
    /\ user[u].at = "adopt"
    /\ own' = [own EXCEPT ![OwnerOf[u]][user[u].target] = user[u].client]
    /\ user' = [user EXCEPT ![u].at = "h2"]
    /\ UNCHANGED <<shared, prewarmer>>

FindOwn(u) ==
    /\ user[u].at = "own"
    /\ LET c == own[OwnerOf[u]][user[u].target]
       IN  c # Absent /\ user' = [user EXCEPT ![u].at = "h2", ![u].client = c]
    /\ UNCHANGED <<shared, own, prewarmer>>

(* ... builds one and stores it in both maps, over a mark if there is one: *)
(* the shared map is locked inside the lock of its own.                    *)
BuildH2(u) ==
    /\ user[u].at = "own" /\ own[OwnerOf[u]][user[u].target] = Absent
    /\ LET t == user[u].target
       IN  /\ own' = [own EXCEPT ![OwnerOf[u]][t] = t]
           /\ shared' = [shared EXCEPT ![t] = t]
           /\ user' = [user EXCEPT ![u].at = "h2", ![u].client = t]
    /\ UNCHANGED prewarmer

(* HTTP/2 fails and getOrCreateH1Client has a client of this instance for  *)
(* the target: none but its own goroutines sees those.                     *)
FallBack(u) ==
    /\ user[u].at = "h2"
    /\ user' = [user EXCEPT ![u].at = "h1", ![u].client = user[u].target]
    /\ UNCHANGED <<shared, own, prewarmer>>

Finish(u) ==
    /\ user[u].at \in {"h2", "h1"}
    /\ user' = [user EXCEPT ![u] = IdleUser]
    /\ UNCHANGED <<shared, own, prewarmer>>

-----------------------------------------------------------------------------
(* Mutant of Prewarm: a mark is no entry.                                  *)
PrewarmUnmarked(p, t) ==
    /\ prewarmer[p] = IdlePrewarmer /\ shared[t] \notin Targets
    /\ shared' = [shared EXCEPT ![t] = Marked]
    /\ prewarmer' = [prewarmer EXCEPT ![p] = [at |-> "dialling", target |-> t]]
    /\ UNCHANGED <<own, user>>

(* PrewarmSingleConnection, for an address reported for the first time:    *)
(* with an entry, a mark or a client, there is nothing to do.              *)
Prewarm(p, t) ==
    /\ prewarmer[p] = IdlePrewarmer /\ shared[t] = Absent
    /\ shared' = [shared EXCEPT ![t] = Marked]
    /\ prewarmer' = [prewarmer EXCEPT ![p] = [at |-> "dialling", target |-> t]]
    /\ UNCHANGED <<own, user>>

(* The connection is there: its client replaces the mark, or the client    *)
(* that was built meanwhile.                                               *)
Prewarmed(p) ==
    /\ prewarmer[p].at = "dialling"
    /\ shared' = [shared EXCEPT ![prewarmer[p].target] = prewarmer[p].target]
    /\ prewarmer' = [prewarmer EXCEPT ![p] = IdlePrewarmer]
    /\ UNCHANGED <<own, user>>

(* Mutant of PrewarmFails: the mark is not cleared.                        *)
PrewarmFailsMarked(p) ==
    /\ prewarmer[p].at = "dialling"
    /\ prewarmer' = [prewarmer EXCEPT ![p] = IdlePrewarmer]
    /\ UNCHANGED <<shared, own, user>>

(* No request could be made, or it failed: the entry is deleted, be it the *)
(* mark or a client.                                                       *)
PrewarmFails(p) ==
    /\ prewarmer[p].at = "dialling"
    /\ shared' = [shared EXCEPT ![prewarmer[p].target] = Absent]
    /\ prewarmer' = [prewarmer EXCEPT ![p] = IdlePrewarmer]
    /\ UNCHANGED <<own, user>>

-----------------------------------------------------------------------------
GetOrCreate(u) == LookShared(u) \/ Adopt(u) \/ FindOwn(u) \/ BuildH2(u)

Prewarming(p) == Prewarmed(p) \/ PrewarmFails(p)

CacheNext ==
    \/ \E i \in Instances : NewUTLSClient(i)
    \/ \E u \in Users : GetOrCreate(u) \/ FallBack(u) \/ Finish(u)
    \/ \E u \in Users, t \in Targets : NeedClient(u, t)
    \/ \E p \in Prewarmers, t \in Targets : Prewarm(p, t)
    \/ \E p \in Prewarmers : Prewarming(p)

(* A prewarming ends after 5 seconds, the deadline its caller gives it.    *)
CacheSpec ==
    /\ CacheInit /\ [][CacheNext]_cacheVars
    /\ \A p \in Prewarmers : WF_cacheVars(Prewarming(p))

-----------------------------------------------------------------------------
CacheTypeOK ==
    /\ shared \in [Targets -> Targets \cup {Absent, Marked}]
    /\ own \in [Instances -> [Targets -> Targets \cup {Absent}]]
    /\ user \in [Users -> [at : {"idle", "look", "adopt", "own", "h2", "h1"},
                           target : Targets \cup {Absent}, client : Targets \cup {Absent}]]
    /\ prewarmer \in [Prewarmers -> [at : {"idle", "dialling"}, target : Targets \cup {Absent}]]

(* No target is prewarmed by two goroutines at once: "防止并发预热同一个IP" *)
(* (utls_client.go:259), with clients built over the mark and entries      *)
(* deleted meanwhile.                                                      *)
OnePrewarm ==
    \A p, q \in Prewarmers :
        (p # q /\ prewarmer[p].at = "dialling") => prewarmer[q].target # prewarmer[p].target

(* A mark is temporary ("临时标记", utls_client.go:266): a target that is   *)
(* marked for ever could never be prewarmed again.                         *)
MarksEnd == \A t \in Targets : shared[t] = Marked ~> shared[t] # Marked
=============================================================================
