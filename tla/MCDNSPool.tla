------------------------------ MODULE MCDNSPool ------------------------------
(* The pool of the addresses of a domain: DNSRotation with two IPv4        *)
(* addresses and an IPv6 one, NextIPReserve with two callers and an        *)
(* address of each family.  They share only the record of the domain; each *)
(* is explored while the other rests.                                      *)
EXTENDS DNSRotation, NextIPReserve, TLC

CONSTANTS a, b, x, c1, c2

TwoV4 == {a, b}
OneV6 == {x}

(* The resolver finds all addresses, or one of a single family; a peer     *)
(* offers those of one family.                                             *)
MCAnswers == {{a, b, x}, {a}}
MCOffers == {{x}, {a, b}}

(* What an external tool writes: an address it wants tried first, one      *)
(* white-listed but not listed, one banned, an index from another run.     *)
DualFiles ==
    { [v4 |-> <<a>>, v6 |-> <<>>, black |-> {}, white |-> {b}, idx |-> 2],
      [v4 |-> <<b, a>>, v6 |-> <<x>>, black |-> {a}, white |-> {x}, idx |-> 1] }

VARIABLE explored

ofCallers == <<reserved, asked, call, reloaded>>

MCInit ==
    /\ explored \in {"rotation", "callers"}
    /\ RotationInit /\ ReserveInit
    /\ explored = "rotation" \/ rec = NoRecord

(* The callers of NextIP are followed while nobody learns of b.            *)
MCNext ==
    /\ UNCHANGED explored
    /\ \/ explored = "rotation" /\ RotationNext /\ UNCHANGED ofCallers
       \/ explored = "callers" /\ ReserveNext /\ b \notin KnownIPs(Current') /\ UNCHANGED last

MCSpec ==
    /\ MCInit /\ [][MCNext]_<<rotationVars, ofCallers, explored>>
    /\ \A c \in Callers : WF_vars(Inside(c) /\ UNCHANGED reloaded)
=============================================================================
