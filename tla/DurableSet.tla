------------------------------ MODULE DurableSet ------------------------------
(***************************************************************************)
(* What a program that learns things and saves them promises: what it      *)
(* saved stays saved, what it knows it knows until it stops, and a restart *)
(* brings back all that was saved.                                         *)
(***************************************************************************)
CONSTANT Things

VARIABLES known, stored, up

Init == known = {} /\ stored = {} /\ up = TRUE

Learn ==
    /\ up
    /\ \E x \in Things : known' = known \cup {x}
    /\ UNCHANGED <<stored, up>>

(* Not necessarily all that is known, but nothing that was saved is lost.  *)
Save ==
    /\ up
    /\ stored' \in SUBSET known
    /\ stored \subseteq stored'
    /\ UNCHANGED <<known, up>>

Stop == up /\ up' = FALSE /\ known' = {} /\ UNCHANGED stored

Start == ~up /\ up' = TRUE /\ known' = stored /\ UNCHANGED stored

Next == Learn \/ Save \/ Stop \/ Start

Safety == Init /\ [][Next]_<<known, stored, up>>
=============================================================================
