--------------------------- MODULE ConnectionPool ---------------------------
(***************************************************************************)
(* The pool of gRPC connections of client/connection_pool.go.  It looks at *)
(* its connections one by one under its lock, and gRPC changes their state *)
(* meanwhile: whom they were given to uses them, and may close them.       *)
(* NewClient does not use the pool (client.go:98); programs may.           *)
(***************************************************************************)
EXTENDS Integers, Sequences, SequencesExt

CONSTANTS
    Conns,             \* names of connections
    Callers,
    AskedSize, DefaultSize, \* the size asked for, 10 when it is not positive
    Nobody, NoConn

ASSUME SizesAreNumbers == AskedSize \in Int /\ DefaultSize \in Nat \ {0}
ASSUME NoNames == Nobody \notin Callers /\ NoConn \notin Conns

MaxSize == IF AskedSize > 0 THEN AskedSize ELSE DefaultSize

(* A new connection is always another one: names do not run out.           *)
ASSUME NamesSuffice ==
    /\ IsFiniteSet(Callers)
    /\ IsFiniteSet(Conns) => Cardinality(Conns) >= MaxSize + Cardinality(Callers)

VARIABLES
    connections,       \* ConnectionPool.connections
    currentSize,       \* ConnectionPool.currentSize
    net,               \* the state of each connection, ClientConn.GetState
    held,              \* the last connection each caller was given
    getting            \* who holds the lock in GetConnection, and its index

connVars == <<connections, currentSize, net, held, getting>>

Free == [by |-> Nobody, at |-> 0]

ConnInit ==
    /\ connections = <<>> /\ currentSize = 0
    /\ net = [c \in Conns |-> "new"]
    /\ held = [p \in Callers |-> NoConn]
    /\ getting = Free

-----------------------------------------------------------------------------
Broken == {"failing", "shutdown"}

GetConnection(p) ==
    /\ getting = Free
    /\ getting' = [by |-> p, at |-> Len(connections)]
    /\ UNCHANGED <<connections, currentSize, net, held>>

Return(c) == held' = [held EXCEPT ![getting.by] = c] /\ getting' = Free

Looked == getting # Free /\ getting.at > 0

(* From the last to the first, the pool returns one that is ready ...      *)
LookReady ==
    /\ Looked /\ net[connections[getting.at]] = "ready"
    /\ Return(connections[getting.at])
    /\ UNCHANGED <<connections, currentSize, net>>

(* Mutant of LookBroken: what is dropped is left open.                     *)
LookBrokenOpen ==
    /\ Looked /\ net[connections[getting.at]] \in Broken
    /\ connections' = RemoveAt(connections, getting.at) /\ currentSize' = currentSize - 1
    /\ getting' = [getting EXCEPT !.at = @ - 1]
    /\ UNCHANGED <<net, held>>

(* ... closes and drops those that failed, in whoever's hands, ...         *)
LookBroken ==
    /\ Looked /\ net[connections[getting.at]] \in Broken
    /\ net' = [net EXCEPT ![connections[getting.at]] = "shutdown"]
    /\ connections' = RemoveAt(connections, getting.at) /\ currentSize' = currentSize - 1
    /\ getting' = [getting EXCEPT !.at = @ - 1]
    /\ UNCHANGED held

LookOther ==
    /\ Looked /\ net[connections[getting.at]] \notin Broken \cup {"ready"}
    /\ getting' = [getting EXCEPT !.at = @ - 1]
    /\ UNCHANGED <<connections, currentSize, net, held>>

AllSeen == getting # Free /\ getting.at = 0

NewConn == CHOOSE c \in Conns :
    net[c] \in {"new", "shutdown"} /\ c \notin ToSet(connections) /\ \A p \in Callers : held[p] # c

(* ... makes one while there are fewer than asked for: the dial does not   *)
(* wait for the connection, ...                                            *)
CreateConnection ==
    /\ AllSeen /\ (currentSize < MaxSize \/ connections = <<>>)
    /\ connections' = Append(connections, NewConn) /\ currentSize' = currentSize + 1
    /\ net' = [net EXCEPT ![NewConn] = "idle"]
    /\ Return(NewConn)

DialFails ==
    /\ AllSeen /\ (currentSize < MaxSize \/ connections = <<>>)
    /\ getting' = Free
    /\ UNCHANGED <<connections, currentSize, net, held>>

(* ... and returns the first one otherwise.                                *)
ReturnFirst ==
    /\ AllSeen /\ currentSize >= MaxSize /\ connections # <<>>
    /\ Return(connections[1])
    /\ UNCHANGED <<connections, currentSize, net>>

(* The pool can be used on after Close.                                    *)
ClosePool ==
    /\ getting = Free
    /\ net' = [c \in Conns |-> IF c \in ToSet(connections) THEN "shutdown" ELSE net[c]]
    /\ connections' = <<>> /\ currentSize' = 0
    /\ UNCHANGED <<held, getting>>

(* gRPC connects, loses a connection, retries.                             *)
StateChanges(c) ==
    /\ \/ net[c] = "idle" /\ net' = [net EXCEPT ![c] = "connecting"]
       \/ net[c] = "connecting" /\ \E s \in {"ready", "failing"} : net' = [net EXCEPT ![c] = s]
       \/ net[c] \in {"ready", "failing"} /\ net' = [net EXCEPT ![c] = "idle"]
    /\ UNCHANGED <<connections, currentSize, held, getting>>

HolderCloses(p) ==
    /\ held[p] # NoConn /\ net[held[p]] # "shutdown"
    /\ net' = [net EXCEPT ![held[p]] = "shutdown"]
    /\ UNCHANGED <<connections, currentSize, held, getting>>

-----------------------------------------------------------------------------
ConnNext ==
    \/ \E p \in Callers : GetConnection(p) \/ HolderCloses(p)
    \/ LookReady \/ LookBroken \/ LookOther
    \/ CreateConnection \/ DialFails \/ ReturnFirst \/ ClosePool
    \/ \E c \in Conns : StateChanges(c)

ConnSpec == ConnInit /\ [][ConnNext]_connVars

-----------------------------------------------------------------------------
(* The pool accounts for every connection it has made: those open are the  *)
(* ones it lists, once each, as many as it counts and at most as many as   *)
(* asked for; a full pool has one to return, and to have none              *)
(* "不应该发生" (connection_pool.go:107).                                   *)
AccountsForAll ==
    /\ Len(connections) = currentSize /\ currentSize <= MaxSize
    /\ IsInjective(connections)
    /\ \A c \in Conns : net[c] \notin {"new", "shutdown"} => c \in ToSet(connections)
=============================================================================
