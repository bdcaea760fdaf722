---------------------------- MODULE SendAndFollow ----------------------------
(***************************************************************************)
(* The sending of folders and the follow-up of their cases, together.      *)
(*                                                                         *)
(* StoreQuotientFamilial marks a folder complete on HubEE and saves its    *)
(* Shipment some time after; in between the collectivity may already move  *)
(* the case on and a ReadHubEENotificationsJob read the update.  The two   *)
(* processes share the shipments table and HubEE's folders.                *)
(*                                                                         *)
(* The composition replaces what each module leaves to its environment:    *)
(* HubEENotifications' folders are completed and its rows saved by         *)
(* HubEESending's requests, and a withdrawn folder has no case to update.  *)
(***************************************************************************)
EXTENDS Integers, Sequences, FiniteSets

CONSTANTS
  Requests, References, Folders, NFiles,                    (* HubEESending       *)
  Jobs, SIStatuses, ItemsCount, MaxAttempts, MayRefuse, MaxLate,
                                                            (* HubEENotifications *)
  None

(* The assumptions of the two modules.                                     *)
ASSUME BoundsAssumption ==
  /\ NFiles \in Nat \ {0}
  /\ ItemsCount \in Nat \ {0}
  /\ MaxAttempts \in Nat \ {0}
  /\ MaxLate \in Nat
ASSUME RefusalAssumption == MayRefuse \in BOOLEAN
ASSUME StatusesAssumption ==
  SIStatuses \subseteq {"sent", "si_received", "in_progress", "done", "refused", "hubee_notified"}
ASSUME NoneAssumption ==
  None \notin Requests \cup References \cup Folders
              \cup {"pending", "opened", "deposited", "hubee_notified", "sent", "si_received",
                    "in_progress", "done", "refused"}

VARIABLES
  request_pc, outcome, reference, folder, sent, openFiles, net, reply, hub,
  shipments, withdrawn, commitLost,
  queue, siStatus, received, closed, late, row, job_pc, attempts, batch, full,
  memo, asked, unread, rowless

(* Each half is taken with its proofs (the modules of the proofs extend    *)
(* HubEESending and HubEENotifications), for those of the composition.     *)
Sending == INSTANCE HubEEDelivery_proofs WITH pc <- request_pc

(* The case of a folder bears the folder's name; the other processCodes    *)
(* are left out.                                                           *)
FollowUp == INSTANCE HubEEOrder_proofs WITH
  pc <- job_pc, Cases <- Folders, Foreign <- {}

sending_vars ==
  <<request_pc, outcome, reference, folder, sent, openFiles, net, reply, hub, shipments,
    withdrawn, commitLost>>
follow_up_vars ==
  <<queue, siStatus, received, closed, late, row, job_pc, attempts, batch, full, memo,
    asked, unread, rowless>>
vars == <<sending_vars, follow_up_vars>>

Init == Sending!Init /\ FollowUp!Init

-----------------------------------------------------------------------------
(* A request's step leaves the follow-up alone unless it inserts the row.  *)
RequestStep(r) ==
  /\ Sending!Proceed(r) \/ Sending!Crash(r) \/ Sending!CrashAfterCommit(r)
  /\ IF shipments' = shipments
     THEN UNCHANGED follow_up_vars
     ELSE FollowUp!CreateShipment(folder[r])

(* HubEE announces a folder when it completes it. *)
HubEEStep(c) ==
  \/ Sending!HubEECompletesFolder(c) /\ FollowUp!FolderCompleted(c.folder)
  \/ /\ Sending!HubEEStep(c)
     /\ ~ Sending!HubEECompletesFolder(c)
     /\ UNCHANGED follow_up_vars

(* The collectivity only works on a folder that it can see. *)
SIStep(f) ==
  /\ hub[f].state = "complete"
  /\ FollowUp!SIUpdatesCase(f) \/ FollowUp!SIDepositsAttachment(f)
  /\ UNCHANGED sending_vars

Enqueue(j) == FollowUp!Enqueue(j) /\ UNCHANGED sending_vars

Works(j) == FollowUp!Works(j) /\ UNCHANGED sending_vars

Fails(j) == FollowUp!Fails(j) /\ UNCHANGED sending_vars

Late(call) == FollowUp!HubEEIsLate(call) /\ UNCHANGED sending_vars

Next ==
  \/ \E r \in Requests : RequestStep(r)
  \/ \E c \in net : HubEEStep(c)
  \/ \E f \in Folders : SIStep(f)
  \/ \E j \in Jobs : Enqueue(j) \/ Works(j) \/ Fails(j)
  \/ \E call \in late : Late(call)

Spec == Init /\ [][Next]_vars

(* The fairness of HubEENotifications: the cron goes on and outages end.   *)
(* Nothing is asked of the requests.                                       *)
FairSpec ==
  /\ Spec
  /\ \A j \in Jobs : WF_vars(Enqueue(j)) /\ WF_vars(Works(j))
  /\ <>[][\A j \in Jobs : Fails(j) => Works(j)]_vars

-----------------------------------------------------------------------------
(* Properties.                                                             *)

(* What each half assumes of the other: the row that a request is about to *)
(* save is of a case HubEE has announced, and of one that has no row; the  *)
(* two pictures of the table agree.                                        *)
RowsFollowCompletion ==
  /\ \A r \in Requests :
       request_pc[r] \in {"clean", "save", "insert"} =>
         siStatus[folder[r]] # None /\ ~ row[folder[r]].saved
  /\ \A f \in Folders : row[f].saved <=> \E s \in shipments : s.folder = f

(* An update finds no Shipment only while the request that sends the       *)
(* folder has not shown its reference to the parent, or after the Shipment *)
(* was anonymised: a parent who has a reference misses no later update.    *)
MissedOnlyWhileSending ==
  [][\A n \in rowless' \ rowless :
       \/ row[n.of].saved /\ ~ row[n.of].ids
       \/ outcome[hub[n.of].owner] # "shipment_page"]_vars

(* A Shipment whose case has ended is anonymised at last, unless the final *)
(* update was read before CreateShipment committed: that one is missed for *)
(* good, and the row stays as it is.                                       *)
EndedIsAnonymised ==
  \A f \in Folders, s \in FollowUp!FinalStatuses :
    (row[f].ids /\ siStatus[f] = s)
      ~> (~ row[f].ids \/ FollowUp!StatusUpdate(f, s) \in rowless \cup unread)
=============================================================================
