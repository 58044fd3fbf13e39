----------------------------- MODULE MCFetchPath -----------------------------
(* What a fetch goes through: FetchPath on two IPv4 addresses and an IPv6  *)
(* one, ClientCache with two requests and two prewarmings, SourcePool with *)
(* three source addresses.  They share no variable; each is explored while *)
(* the others rest.                                                        *)
EXTENDS FetchPath, ClientCache, SourcePool, TLC

CONSTANTS a, b, x, i, j, u1, u2, s1, s2, s3

MCV4 == {a, b}
MCV6 == {x}

(* The resolver finds all addresses, or one of a single family.            *)
MCAnswers == {{a, b, x}, {a}}
NoOffers == {}
NoFiles == {}

MCTargets == {a, x}
MCInstances == {i, j}
MCUsers == {u1, u2}
MCOwnerOf == (u1 :> i) @@ (u2 :> j)

MCSources == {s1, s2, s3}
MCListings == {<<s1, s2, s3>>, <<s3, s1>>, <<>>}

VARIABLE explored

MCInit ==
    /\ explored \in {"fetch", "clients", "sources"}
    /\ FetchInit /\ CacheInit /\ SourceInit
    /\ explored = "sources" \/ addresses = <<>>

MCNext ==
    /\ UNCHANGED explored
    /\ \/ explored = "fetch" /\ FetchNext /\ UNCHANGED <<cacheVars, sourceVars>>
       \/ explored = "clients" /\ CacheNext /\ UNCHANGED <<vars, sourceVars>>
       \/ explored = "sources" /\ SourceNext /\ UNCHANGED <<vars, cacheVars>>

MCSpec ==
    /\ MCInit /\ [][MCNext]_<<vars, cacheVars, sourceVars, explored>>
    /\ FetchScheduling
    /\ \A p \in Prewarmers : WF_cacheVars(Prewarming(p))
=============================================================================
