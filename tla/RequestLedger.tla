---------------------------- MODULE RequestLedger ----------------------------
(***************************************************************************)
(* What statistics that are read and reset promise of the requests they    *)
(* are about: each one is in one place at a time, from the moment it ends  *)
(* until it is reported or missed, and never comes back.                   *)
(***************************************************************************)
EXTENDS Integers

VARIABLES
    pending,           \* ended and not counted yet
    success, errors,   \* the counters
    reported, missed   \* reset, after they were read or before

Init == pending = 0 /\ success = 0 /\ errors = 0 /\ reported = 0 /\ missed = 0

End == pending' = pending + 1 /\ UNCHANGED <<success, errors, reported, missed>>

Count ==
    /\ \/ success' = success + 1 /\ UNCHANGED errors
       \/ errors' = errors + 1 /\ UNCHANGED success
    /\ UNCHANGED <<reported, missed>>

(* A request is counted after it has ended, or at the same time.           *)
CountPending == pending > 0 /\ pending' = pending - 1 /\ Count

CountAtOnce == UNCHANGED pending /\ Count

(* What was counted since the counters were read is missed.                *)
Reset ==
    /\ success' = 0 /\ errors' = 0
    /\ \E seen \in 0..(success + errors) :
          reported' = reported + seen /\ missed' = missed + (success + errors - seen)
    /\ UNCHANGED pending

Next == End \/ CountPending \/ CountAtOnce \/ Reset

Spec == Init /\ [][Next]_<<pending, success, errors, reported, missed>>
=============================================================================
