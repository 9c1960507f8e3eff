--------------------------- MODULE AnonymizeOnce ---------------------------
(***************************************************************************)
(* What the runner promises the controller, over all attempts of one Run.  *)
(* The policy is a set of units of work: every selected row of every table *)
(* and every SQL statement list.  None is repeated, success means that all *)
(* required ones happened, and only a retryable outcome is followed by     *)
(* another attempt.                                                        *)
(***************************************************************************)
EXTENDS Naturals

CONSTANTS
    Units,      \* units of work of the policy
    Required    \* those a successful Run must have done

VARIABLES
    count,      \* how often each unit was done
    outcome     \* "none" while an attempt runs, else how it ended

Init == count = [u \in Units |-> 0] /\ outcome = "none"

\* Any units may be done together, but only for the first time.
Work ==
    /\ \E U \in SUBSET {u \in Units : count[u] = 0} :
          count' = [u \in Units |-> IF u \in U THEN 1 ELSE count[u]]
    /\ outcome' \in {outcome, "retryable", "final"}
    /\ outcome = "none"

Succeed ==
    /\ outcome = "none" /\ outcome' = "ok"
    /\ \A u \in Required : count[u] = 1
    /\ UNCHANGED count

Retry == outcome = "retryable" /\ outcome' = "none" /\ UNCHANGED count

Next == Work \/ Succeed \/ Retry

Spec == Init /\ [][Next]_<<count, outcome>>

=============================================================================
