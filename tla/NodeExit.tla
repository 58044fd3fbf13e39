------------------------------- MODULE NodeExit -------------------------------
(***************************************************************************)
(* The end of main (main.go) and the goroutines it waits for: the          *)
(* heartbeat of the centre mode (client/peer_client.go) and the periodic   *)
(* probe (proxy/probe_manager.go).  Deferred calls run last first:         *)
(* peerSync.Stop, dnsPool.Close, probe.Close.  Fetches and syncWithPeer    *)
(* run on until the process is gone.                                       *)
(*                                                                         *)
(* The two other goroutines waited for are never busy and left out: the    *)
(* loop that starts the rounds of the peers, and the worker of the probe   *)
(* manager, to which nothing submits.  While the node serves, what the     *)
(* loops do is part of Elsewhere; Signal finds them where they are.        *)
(* owed, what the file has to contain at the exit, is a history variable.  *)
(***************************************************************************)
EXTENDS DNSPersist

VARIABLES
    main,              \* "serving", or the call main waits for
    loop,              \* the goroutines waited for
    owed

exitVars == <<main, loop, owed>>
nodeVars == <<vars, exitVars>>

OfPeers == {"heartbeat"}
OfProbes == {"periodic"}
Loops == OfPeers \cup OfProbes

NodeInit ==
    /\ Init
    /\ main = "serving" /\ loop = [l \in Loops |-> "waiting"] /\ owed = {}

-----------------------------------------------------------------------------
(* Both are busy with one peer or domain after the other, under timeouts.  *)
Ticks(l) ==
    /\ main # "serving" /\ loop[l] = "waiting"
    /\ loop' = [loop EXCEPT ![l] = "busy"]
    /\ UNCHANGED <<vars, main, owed>>

Ends(l) ==
    /\ main # "serving" /\ loop[l] = "busy" /\ loop' = [loop EXCEPT ![l] = "waiting"]
    /\ UNCHANGED <<vars, main, owed>>

(* Whether it sees that its channel is closed or that it is time for the   *)
(* next round is chosen at random when both are so.                        *)
Stops(l) ==
    /\ loop[l] = "waiting"
    /\ \/ l \in OfPeers /\ main # "serving"
       \/ l \in OfProbes /\ main = "probe.Close"
    /\ loop' = [loop EXCEPT ![l] = "done"]
    /\ UNCHANGED <<vars, main, owed>>

(* The heartbeat merges records of the centre, ...                         *)
HeartbeatMerges(u) ==
    /\ loop["heartbeat"] = "busy" /\ Learn(u)
    /\ owed' = owed \cup {u}
    /\ UNCHANGED <<main, loop>>

(* ... and all else that learns does so whatever main waits for.           *)
Elsewhere ==
    /\ \/ \E u \in Learnt : Learn(u)
       \/ \E w \in Writers : Fire(w) \/ PersistNow(w) \/ Persisting(w)
       \/ HalfASecond \/ Reloading \/ Tick \/ \E d \in Edits : Edit(d)
    /\ UNCHANGED exitVars

-----------------------------------------------------------------------------
(* The signal: the server is closed, and peerSync.Stop waits for its loops.*)
Signal ==
    /\ state = "up" /\ main = "serving"
    /\ main' = "peerSync.Stop" /\ owed' = owed \cup mem
    /\ loop' \in [Loops -> {"waiting", "busy"}]
    /\ UNCHANGED vars

(* Mutants of CloseDNSPool: the calls are deferred in another order, and   *)
(* the last write is left to the timer that is stopped.                    *)
CloseDNSPoolFirst(w) ==
    /\ main = "peerSync.Stop"
    /\ Close(w)
    /\ owed' = owed \cup mem
    /\ main' = "dnsPool.Close" /\ UNCHANGED loop

CloseDNSPoolHung(w) ==
    /\ main = "peerSync.Stop" /\ \A l \in Loops : loop[l] = "done"
    /\ Close(w)
    /\ owed' = owed \cup mem
    /\ main' = "dnsPool.Close" /\ UNCHANGED loop

CloseDNSPool(w) ==
    /\ main = "peerSync.Stop" /\ \A l \in OfPeers : loop[l] = "done"
    /\ Close(w)
    /\ owed' = owed \cup mem
    /\ main' = "dnsPool.Close" /\ UNCHANGED loop

(* The pool is written, and probe.Close closes the channel of its loops.   *)
CloseProbes ==
    /\ main = "dnsPool.Close" /\ writer[closer] = Resting
    /\ main' = "probe.Close"
    /\ UNCHANGED <<vars, loop, owed>>

Gone == main' = "serving" /\ loop' = [l \in Loops |-> "waiting"] /\ owed' = {}

Return ==
    /\ main = "probe.Close" /\ \A l \in OfProbes : loop[l] = "done"
    /\ Exit /\ Gone

(* The listener is closed, so Serve returns an error, and the goroutine    *)
(* that called it ends the process (log.Fatalf), whatever main waits for.  *)
ServeEnds == main # "serving" /\ Halt /\ Gone

Killed == Crash /\ Gone

Restart == Start /\ UNCHANGED exitVars

Leaving == (\E w \in Writers : CloseDNSPool(w)) \/ CloseProbes \/ Return

NodeNext ==
    \/ Elsewhere
    \/ \E u \in Learnt : HeartbeatMerges(u)
    \/ \E l \in Loops : Ticks(l) \/ Ends(l) \/ Stops(l)
    \/ Signal \/ Leaving \/ ServeEnds \/ Killed \/ Restart

(* As in DNSPersist.  What a loop is busy with has timeouts, a choice at   *)
(* random falls on the closed channel at last, and main's write, which     *)
(* needs one of the few writers here, gets its turn.  Nothing is assumed   *)
(* of ServeEnds.                                                           *)
NodeScheduling ==
    /\ WF_nodeVars(HalfASecond /\ UNCHANGED exitVars)
    /\ WF_nodeVars((\E w \in Writers : Fire(w)) /\ UNCHANGED exitVars)
    /\ \A w \in Writers : WF_nodeVars(Persisting(w) /\ UNCHANGED exitVars)
    /\ WF_nodeVars(Reloading /\ UNCHANGED exitVars)
    /\ \A l \in Loops : WF_nodeVars(Ends(l)) /\ SF_nodeVars(Stops(l))
    /\ SF_nodeVars(Leaving)

NodeSpec == NodeInit /\ [][NodeNext]_nodeVars /\ NodeScheduling

-----------------------------------------------------------------------------
(* What the pool has when the signal comes and when it is closed, and what *)
(* goroutines learn that are waited for before, is in the file when main   *)
(* returns: the deferred calls are in the order this needs ("立即落盘（若有 *)
(* 尚未触发的节流保存）", dns_pool.go:100).  What is learnt later is not;   *)
(* nor all of it after a mishap, such as Close beside a write under way.   *)
SavedAtExit == [][Return => owed \subseteq Stored \/ mishaps # {}]_nodeVars

(* What the pool has when the signal comes is in the file when the process *)
(* ends on it: "用于优雅地关闭服务器" (main.go:128).  It need not be, since *)
(* the process may end before main has come to its deferred calls.         *)
SavedAfterSignal ==
    [][(main # "serving" /\ main' = "serving") => owed \subseteq Stored]_nodeVars

(* After the signal the process comes to its end, whatever its goroutines  *)
(* are busy with ("优雅地关闭服务器", main.go:128).                         *)
ExitCompletes == main # "serving" ~> main = "serving"
=============================================================================
