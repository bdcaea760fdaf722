-------------------------- MODULE ShipmentDelivery ---------------------------
(***************************************************************************)
(* What the sending of a quotient familial promises, without HubEE's       *)
(* protocol: what agents see of each request's folder, what the parent is  *)
(* told and which requests have a Shipment.  HubEESending implements it.   *)
(***************************************************************************)
CONSTANT Requests

VARIABLES
  folder,  (* what the collectivity's agents see of each request's folder  *)
  told,    (* what each request's page says                                *)
  saved    (* the requests whose Shipment is in the table                  *)

vars == <<folder, told, saved>>

Init ==
  /\ folder = [r \in Requests |-> "hidden"]
  /\ told = [r \in Requests |-> "nothing"]
  /\ saved = {}

(* A folder appears whole, once, and perhaps after the parent was told of  *)
(* a failure: HubEE may be late.                                           *)
Appear(r) ==
  /\ folder[r] = "hidden"
  /\ told[r] # "sent"
  /\ folder' = [folder EXCEPT ![r] = "visible"]
  /\ UNCHANGED <<told, saved>>

(* A visible folder gets its Shipment and the parent its reference.        *)
Send(r) ==
  /\ folder[r] = "visible"
  /\ told[r] = "nothing" /\ r \notin saved
  /\ told' = [told EXCEPT ![r] = "sent"]
  /\ saved' = saved \cup {r}
  /\ UNCHANGED folder

Fail(r) ==
  /\ told[r] = "nothing" /\ r \notin saved
  /\ told' = [told EXCEPT ![r] = "failed"]
  /\ UNCHANGED <<folder, saved>>

(* The database has saved the Shipment and nobody knows.                   *)
SendUnawares(r) ==
  /\ folder[r] = "visible"
  /\ told[r] = "nothing" /\ r \notin saved
  /\ told' = [told EXCEPT ![r] = "failed"]
  /\ saved' = saved \cup {r}
  /\ UNCHANGED folder

(* The Shipment is saved and the process dies: the parent will never be    *)
(* told, and the folder stays.                                             *)
SendWithoutPage(r) ==
  /\ folder[r] = "visible"
  /\ told[r] = "nothing"
  /\ saved' = saved \cup {r}
  /\ UNCHANGED <<folder, told>>

(* Only after a failure does a folder go, for ever.                        *)
Withdraw(r) ==
  /\ told[r] = "failed"
  /\ folder[r] # "withdrawn"
  /\ folder' = [folder EXCEPT ![r] = "withdrawn"]
  /\ UNCHANGED <<told, saved>>

Next ==
  \E r \in Requests :
    Appear(r) \/ Send(r) \/ Fail(r) \/ SendUnawares(r) \/ SendWithoutPage(r) \/ Withdraw(r)

Spec == Init /\ [][Next]_vars
=============================================================================
