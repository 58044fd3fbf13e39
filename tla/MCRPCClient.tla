---------------------------- MODULE MCRPCClient ----------------------------
(* RPCClient with both families, a batch of three, and errors of two       *)
(* kinds; ConnectionPool with two callers.  The two modules share no       *)
(* variable, so that each is explored while the other rests.               *)
EXTENDS RPCClient, ConnectionPool

CONSTANTS unavailable, invalid

MCFamilies == {"four", "six"}
MCErrors == {unavailable, invalid}
MCRetryable == {unavailable}

VARIABLE explored

MCInit == Init /\ ConnInit /\ explored \in {"client", "pool"}

MCNext ==
    /\ UNCHANGED explored
    /\ \/ explored = "client" /\ Next /\ UNCHANGED connVars
       \/ explored = "pool" /\ ConnNext /\ UNCHANGED vars

MCSpec ==
    /\ MCInit /\ [][MCNext]_<<vars, connVars, explored>>
    /\ explored = "client" => Scheduling
=============================================================================
