-------------------------- MODULE ProtectedPosition -------------------------
(***************************************************************************)
(* What the fail-safe rules of the live book promise about one position,   *)
(* with the orders, records, locks and retries left out.  A position is    *)
(* without a stop only while somebody works on its protection, or because  *)
(* of a fault that is known; work always ends, and a position that is      *)
(* managed is worked on again.                                             *)
(***************************************************************************)
CONSTANTS Reasons   \* the faults that may leave a position without a stop

VARIABLES
  status,    \* "flat", "covered", "working" or "exposed"
  managed,   \* the book has a record of the position
  reason     \* the fault since a stop was last placed, or "none"

vars == <<status, managed, reason>>

Init == status = "flat" /\ managed = FALSE /\ reason = "none"

\* A fill opens the position; an order left over may already cover it.
Open ==
  /\ status = "flat" /\ status' \in {"working", "covered"}
  /\ UNCHANGED <<managed, reason>>

\* The stop is taken away to be replaced.
Swap ==
  /\ status = "covered" /\ status' = "working"
  /\ UNCHANGED <<managed, reason>>

\* A stop is placed.
Protect ==
  /\ status \in {"working", "covered"} /\ status' = "covered"
  /\ reason' = "none"
  /\ UNCHANGED managed

\* A fault, or what follows from one since a stop was last placed: the
\* position may end up without a stop and with nobody at work.
Fail ==
  /\ status # "flat" /\ status' \in {"working", "exposed", status}
  /\ reason' \in Reasons
  /\ managed' \in BOOLEAN

\* Somebody works on it again.
Repair ==
  /\ status = "exposed" /\ status' = "working"
  /\ UNCHANGED <<managed, reason>>

Close ==
  /\ status # "flat" /\ status' = "flat"
  /\ reason' = "none"
  /\ UNCHANGED managed

\* The record is written, dropped or read back.
Record == UNCHANGED <<status, reason>> /\ managed' # managed

Next == Open \/ Swap \/ Protect \/ Fail \/ Repair \/ Close \/ Record

Fairness ==
  /\ WF_vars(status = "working" /\ (Protect \/ Fail \/ Close))
  /\ WF_vars(managed /\ Repair)

Spec == Init /\ [][Next]_vars /\ Fairness
=============================================================================
