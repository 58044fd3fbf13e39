----------------------------- MODULE MCPeerSync -----------------------------
(* PeerSync with a seed, a; a node, b, whose calls are followed step by    *)
(* step; and a node, c, that is nobody's seed: b hears of it from a, once  *)
(* c has called a.  The peers are explored without records and with        *)
(* connections that die in a kill only, the records without kills, with    *)
(* one loss, one call at a time and connections that die at any moment.    *)
EXTENDS PeerSync, TLC

CONSTANTS a, b, c, f, g, b1, b2

MCNodes == {a, b, c}
MCSeeds == [n \in MCNodes |-> {a}]
MCNamed == {c}
MCGoroutines == {b1, b2}
MCOwner == (b1 :> b) @@ (b2 :> b)
MCFacts == {f, g}
MCLearning == {b}

VARIABLE explored

MCInit == Init /\ explored \in {"peers", "records"}

(* The whole of a call of syncWithPeer(a) on c, with nothing in between:   *)
(* c has no records of its own to send.                                    *)
Introduce ==
    /\ up[a] /\ up[c] /\ link[c][a] = "none" /\ pool[c] = {}
    /\ LET got == HeardAfter(a, c) \ {a}
       IN  /\ known' = [known EXCEPT ![c] = @ \cup got]
           /\ saved' = [saved EXCEPT ![c] = @ \cup got]
    /\ heard' = [heard EXCEPT ![a] = HeardAfter(a, c)]
    /\ link' = [link EXCEPT ![c][a] = "live"]
    /\ pool' = [pool EXCEPT ![c] = pool[a]]
    /\ UNCHANGED <<unsaved, backoff, wait, syncing, call, up, losses, restarts>>

(* The connection of c has no further use.                                 *)
MCNext ==
    /\ UNCHANGED explored
    /\ Next \/ Introduce
    /\ \/ explored = "peers" /\ pool' = pool /\ ~\E n, p \in Nodes : LinkDies(n, p)
       \/ explored = "records" /\ restarts' = 0 /\ losses' < 2 /\ call'[b2] = Idle /\ ~LinkDies(c, a)

MCSpec == MCInit /\ [][MCNext]_<<vars, explored>> /\ Scheduling
=============================================================================
