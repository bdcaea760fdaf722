------------------------- MODULE ShipmentLifecycle --------------------------
(***************************************************************************)
(* The life of a Shipment as the statistics and the team read it, without  *)
(* queues, jobs and retries: it is saved pending, follows its case on      *)
(* HubEE upwards, ends with the case's final status and forgets its HubEE  *)
(* ids once the case is closed.  HubEENotifications implements it.         *)
(***************************************************************************)
EXTENDS Integers

CONSTANTS Cases, FinalStatuses, Rank(_), None

VARIABLES
  siStatus,  (* the status of each case on HubEE, None before it exists    *)
  row,       (* the Shipment of each case                                  *)
  finished   (* the cases that were closed                                 *)

vars == <<siStatus, row, finished>>

Init ==
  /\ siStatus = [c \in Cases |-> None]
  /\ row = [c \in Cases |-> [saved |-> FALSE, status |-> "pending", ids |-> FALSE]]
  /\ finished = {}

(* The case appears on HubEE, then moves on to a status of a higher rank.  *)
MoveCase(c) ==
  /\ \E s \in {"opened", "deposited", "hubee_notified", "sent", "si_received", "in_progress"}
              \cup FinalStatuses :
       /\ siStatus[c] = None \/ Rank(siStatus[c]) < Rank(s)
       /\ siStatus' = [siStatus EXCEPT ![c] = s]
  /\ UNCHANGED <<row, finished>>

Save(c) ==
  /\ siStatus[c] # None
  /\ ~ row[c].saved
  /\ row' = [row EXCEPT ![c] = [saved |-> TRUE, status |-> "pending", ids |-> TRUE]]
  /\ UNCHANGED <<siStatus, finished>>

(* The Shipment takes a later status, that its case has or has had.        *)
Follow(c) ==
  /\ row[c].ids
  /\ \E s \in {"sent", "si_received", "in_progress"} \cup FinalStatuses :
       /\ row[c].status = "pending" \/ Rank(row[c].status) < Rank(s)
       /\ s = siStatus[c] \/ Rank(s) < Rank(siStatus[c])
       /\ row' = [row EXCEPT ![c].status = s]
  /\ UNCHANGED <<siStatus, finished>>

Finish(c) ==
  /\ siStatus[c] \in FinalStatuses
  /\ finished' = finished \cup {c}
  /\ UNCHANGED <<siStatus, row>>

(* The last thing that happens to a Shipment.                              *)
Anonymise(c) ==
  /\ row[c].ids
  /\ row[c].status = siStatus[c]
  /\ c \in finished
  /\ row' = [row EXCEPT ![c].ids = FALSE]
  /\ UNCHANGED <<siStatus, finished>>

Next ==
  \E c \in Cases : MoveCase(c) \/ Save(c) \/ Follow(c) \/ Finish(c) \/ Anonymise(c)

Spec == Init /\ [][Next]_vars
=============================================================================
