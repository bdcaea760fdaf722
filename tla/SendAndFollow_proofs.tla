------------------------ MODULE SendAndFollow_proofs ------------------------
(***************************************************************************)
(* Proofs about SendAndFollow: each half of the composition keeps its own  *)
(* specification, and the two pictures of the folders and of the shipments *)
(* table agree.                                                            *)
(***************************************************************************)
EXTENDS SendAndFollow, TLAPS

(* The follow-up hears of a folder from its completion on ...              *)
AnnouncedInv ==
  \A f \in Folders :
    /\ hub[f].state \in {"absent", "created"} => siStatus[f] = None
    /\ hub[f].state = "complete" => siStatus[f] # None

(* ... and sees a row when the requests have saved one.                    *)
TableInv == \A f \in Folders : row[f].saved <=> \E s \in shipments : s.folder = f

(* What the proofs of each half provide.                                   *)
SendingInv == Sending!Inv /\ Sending!DeliveryInv
FollowUpInv == FollowUp!Inv /\ FollowUp!HeardInv

JointInv == SendingInv /\ FollowUpInv /\ AnnouncedInv /\ TableInv

(* For the assumptions of the follow-up, which are those of the composition. *)
LEMMA Statuses ==
  FollowUp!Processable \cup {"hubee_notified"} =
    {"sent", "si_received", "in_progress", "done", "refused", "hubee_notified"}
BY DEF FollowUp!Processable, FollowUp!FinalStatuses

-----------------------------------------------------------------------------
(* The invariants of the halves.                                           *)

LEMMA SendingStarts == Sending!Init => SendingInv
BY Sending!InitInv, Sending!InitDelivery, BoundsAssumption, NoneAssumption DEF SendingInv

LEMMA SendingGoesOn ==
  SendingInv /\ [Sending!Next]_(Sending!vars) => SendingInv'
BY Sending!StepInv, Sending!StepDelivery, BoundsAssumption, NoneAssumption DEF SendingInv

LEMMA FollowUpStarts == FollowUp!Init => FollowUpInv
BY FollowUp!InitInv, FollowUp!InitHeard, BoundsAssumption, RefusalAssumption,
   StatusesAssumption, NoneAssumption, Statuses
DEF FollowUpInv, FollowUp!Processable, FollowUp!FinalStatuses

LEMMA FollowUpGoesOn ==
  FollowUpInv /\ [FollowUp!Next]_(FollowUp!vars) => FollowUpInv'
BY FollowUp!NextInv, FollowUp!NextHeard, BoundsAssumption, RefusalAssumption,
   StatusesAssumption, NoneAssumption, Statuses
DEF FollowUpInv, FollowUp!Processable, FollowUp!FinalStatuses

-----------------------------------------------------------------------------
(* The requests' side of a step.                                           *)

(* Who stands between the completion of a folder and its row is alone with *)
(* the folder.                                                             *)
LEMMA BeforeTheRow ==
  ASSUME SendingInv, NEW r \in Requests, request_pc[r] \in {"clean", "save", "insert"}
  PROVE  /\ folder[r] \in Folders
         /\ hub[folder[r]].state = "complete"
         /\ \A s \in shipments : s.folder # folder[r]
<1>1. Sending!FolderIs(folder[r], r, {"complete"}, 1..NFiles)
  BY DEF SendingInv, Sending!Inv, Sending!ProgressInv
<1>2. \A s \in shipments : hub[s.folder].owner = s.request /\ s.request # r
  BY DEF SendingInv, Sending!Inv, Sending!RowInv, Sending!Ended
<1> QED  BY <1>1, <1>2 DEF Sending!FolderIs

(* A request only writes to the table, one row at a time. *)
LEMMA RequestRows ==
  ASSUME NEW r \in Requests,
         Sending!Proceed(r) \/ Sending!Crash(r) \/ Sending!CrashAfterCommit(r)
  PROVE  /\ hub' = hub
         /\ \/ shipments' = shipments
            \/ request_pc[r] = "insert" /\ shipments' = shipments \cup {Sending!NewRow(r)}
BY DEF Sending!Proceed, Sending!Crash, Sending!CrashAfterCommit, Sending!PrepareQuotientFamilialHubEEFolder,
  Sending!PrepareFolderRaises, Sending!PrepareAttachment, Sending!PrepareAttachmentRaises,
  Sending!CreateFolder, Sending!RequestAuthTokenFails, Sending!FolderCreated,
  Sending!CreateFolderFails, Sending!FailWithoutFolder, Sending!UploadAttachment,
  Sending!AttachmentUploaded, Sending!MarkFolderComplete, Sending!FolderMarked,
  Sending!UploadOrMarkFails, Sending!CleanAttachments, Sending!ValidateShipment,
  Sending!InsertShipment, Sending!SaveShipmentRaises, Sending!CommitAcknowledgementLost,
  Sending!DeleteFolder, Sending!EndRollback, Sending!Goto

(* HubEE creates, fills and deletes folders ... *)
LEMMA HubEEFolders ==
  ASSUME SendingInv, NEW c \in net, Sending!HubEEStep(c), ~ Sending!HubEECompletesFolder(c)
  PROVE  /\ shipments' = shipments
         /\ \A f \in Folders :
              \/ hub'[f].state = hub[f].state
              \/ hub[f].state = "absent" /\ hub'[f].state = "created"
              \/ hub'[f].state = "deleted"
<1>1. hub \in [Folders -> Sending!HubEEFolder]
  BY DEF SendingInv, Sending!Inv, Sending!TypeOK
<1>2. CASE Sending!HubEECreatesFolder(c)
  BY <1>1, <1>2 DEF Sending!HubEECreatesFolder
<1>3. CASE Sending!HubEEStoresAttachment(c)
  BY <1>1, <1>3
  DEF Sending!HubEEStoresAttachment, Sending!HubEEUpdatesFolder, Sending!HubEEFolder
<1>4. CASE Sending!HubEEDeletesFolder(c)
  BY <1>1, <1>4
  DEF Sending!HubEEDeletesFolder, Sending!HubEEUpdatesFolder, Sending!HubEEFolder
<1>5. CASE Sending!HubEERefuses(c) \/ Sending!CallIsLost(c)
  BY <1>5 DEF Sending!HubEERefuses, Sending!CallIsLost
<1> QED  BY <1>2, <1>3, <1>4, <1>5 DEF Sending!HubEEStep

(* ... or completes one. *)
LEMMA HubEECompletion ==
  ASSUME SendingInv, NEW c \in net, Sending!HubEECompletesFolder(c)
  PROVE  /\ shipments' = shipments
         /\ c.folder \in Folders
         /\ \A f \in Folders :
              IF f = c.folder THEN hub'[f].state = "complete" ELSE hub'[f] = hub[f]
<1>1. hub \in [Folders -> Sending!HubEEFolder]
  BY DEF SendingInv, Sending!Inv, Sending!TypeOK
<1>2. c.op = "marking" /\ c.folder \in Folders
  BY DEF SendingInv, Sending!Inv, Sending!NetInv, Sending!HubEECompletesFolder,
         Sending!HubEEUpdatesFolder
<1> QED
  BY <1>1, <1>2
  DEF Sending!HubEECompletesFolder, Sending!HubEEUpdatesFolder, Sending!HubEEFolder

-----------------------------------------------------------------------------
(* Each half only makes its own steps.                                     *)

LEMMA SendingStep == [Next]_vars => [Sending!Next]_(Sending!vars)
<1>1. UNCHANGED sending_vars => UNCHANGED Sending!vars
  BY DEF sending_vars, Sending!vars, Sending!local, Sending!history
<1>2. ASSUME NEW r \in Requests, RequestStep(r)  PROVE Sending!Next
  BY <1>2 DEF RequestStep, Sending!Next
<1>3. ASSUME NEW c \in net, HubEEStep(c)  PROVE Sending!Next
  BY <1>3 DEF HubEEStep, Sending!Next, Sending!HubEEStep
<1>4. ASSUME \/ \E f \in Folders : SIStep(f)
             \/ \E j \in Jobs : Enqueue(j) \/ Works(j) \/ Fails(j)
             \/ \E call \in late : Late(call)
      PROVE  UNCHANGED Sending!vars
  BY <1>1, <1>4 DEF SIStep, Enqueue, Works, Fails, Late
<1>5. UNCHANGED vars => UNCHANGED Sending!vars
  BY <1>1 DEF vars
<1> QED  BY <1>2, <1>3, <1>4, <1>5 DEF Next

LEMMA FollowUpStep ==
  ASSUME SendingInv
  PROVE  [Next]_vars => [FollowUp!Next]_(FollowUp!vars)
<1>1. UNCHANGED follow_up_vars => UNCHANGED FollowUp!vars
  BY DEF follow_up_vars, FollowUp!vars, FollowUp!hubee, FollowUp!job, FollowUp!history
<1>2. ASSUME NEW r \in Requests, RequestStep(r)  PROVE [FollowUp!Next]_(FollowUp!vars)
  <2>1. CASE shipments' = shipments
    BY <1>1, <1>2, <2>1 DEF RequestStep
  <2>2. CASE shipments' # shipments
    <3>1. folder[r] \in Folders
      BY <1>2, <2>2, RequestRows, BeforeTheRow DEF RequestStep
    <3>2. FollowUp!CreateShipment(folder[r])
      BY <1>2, <2>2 DEF RequestStep
    <3> QED  BY <3>1, <3>2 DEF FollowUp!Next, FollowUp!World
  <2> QED  BY <2>1, <2>2
<1>3. ASSUME NEW c \in net, HubEEStep(c)  PROVE [FollowUp!Next]_(FollowUp!vars)
  <2>1. CASE Sending!HubEECompletesFolder(c) /\ FollowUp!FolderCompleted(c.folder)
    BY <2>1, HubEECompletion DEF FollowUp!Next, FollowUp!World
  <2>2. CASE UNCHANGED follow_up_vars
    BY <1>1, <2>2
  <2> QED  BY <1>3, <2>1, <2>2 DEF HubEEStep
<1>4. ASSUME NEW f \in Folders, SIStep(f)  PROVE FollowUp!Next
  BY <1>4 DEF SIStep, FollowUp!Next, FollowUp!World
<1>5. ASSUME NEW j \in Jobs, Enqueue(j) \/ Works(j) \/ Fails(j)  PROVE FollowUp!Next
  BY <1>5 DEF Enqueue, Works, Fails, FollowUp!Next
<1>6. ASSUME NEW call \in late, Late(call)  PROVE FollowUp!Next
  BY <1>6 DEF Late, FollowUp!Next, FollowUp!World
<1>7. UNCHANGED vars => UNCHANGED FollowUp!vars
  BY <1>1 DEF vars
<1> QED  BY <1>2, <1>3, <1>4, <1>5, <1>6, <1>7 DEF Next

-----------------------------------------------------------------------------
(* What the halves tell each other.                                        *)

LEMMA InitJoint == Init => JointInv
<1> SUFFICES ASSUME Init PROVE JointInv
  OBVIOUS
<1>1. SendingInv /\ FollowUpInv
  BY SendingStarts, FollowUpStarts DEF Init
<1>2. AnnouncedInv /\ TableInv
  BY DEF Init, AnnouncedInv, TableInv, Sending!Init, Sending!NoFolder, FollowUp!Init,
         FollowUp!NoRow
<1> QED  BY <1>1, <1>2 DEF JointInv

(* The steps of HubEE's users and of the jobs leave the folders and the    *)
(* table alone: they may only move a case on that is there.                *)
LEMMA FollowUpAlone ==
  ASSUME AnnouncedInv, TableInv, UNCHANGED <<hub, shipments>>,
         \A f \in Folders : /\ siStatus'[f] = None <=> siStatus[f] = None
                            /\ row'[f].saved = row[f].saved
  PROVE  AnnouncedInv' /\ TableInv'
BY DEF AnnouncedInv, TableInv

LEMMA RequestStepJoint ==
  ASSUME JointInv, NEW r \in Requests, RequestStep(r)
  PROVE  AnnouncedInv' /\ TableInv'
<1>1. hub' = hub
  BY RequestRows DEF RequestStep
<1>2. CASE shipments' = shipments
  BY <1>1, <1>2, FollowUpAlone DEF RequestStep, follow_up_vars, JointInv
<1>3. CASE shipments' # shipments
  <2>1. /\ folder[r] \in Folders
        /\ shipments' = shipments \cup {Sending!NewRow(r)}
    BY <1>3, RequestRows, BeforeTheRow DEF RequestStep, JointInv
  <2>2. FollowUp!CreateShipment(folder[r])
    BY <1>3 DEF RequestStep
  <2>3. siStatus' = siStatus
    BY <2>2 DEF FollowUp!CreateShipment, FollowUp!hubee
  <2>4. \A f \in Folders : row'[f].saved <=> f = folder[r] \/ row[f].saved
    BY <2>1, <2>2
    DEF FollowUp!CreateShipment, JointInv, FollowUpInv, FollowUp!Inv, FollowUp!SharedInv
  <2>5. ASSUME NEW f \in Folders
        PROVE  (\E s \in shipments' : s.folder = f)
                 <=> f = folder[r] \/ (\E s \in shipments : s.folder = f)
    <3> DEFINE new == Sending!NewRow(r)
    <3>1. new.folder = folder[r]
      BY DEF Sending!NewRow
    <3> HIDE DEF new
    <3>2. shipments' = shipments \cup {new}
      BY <2>1 DEF new
    <3> QED  BY <3>1, <3>2
  <2> QED  BY <1>1, <2>3, <2>4, <2>5 DEF JointInv, AnnouncedInv, TableInv
<1> QED  BY <1>2, <1>3

LEMMA HubEEStepJoint ==
  ASSUME JointInv, NEW c \in net, HubEEStep(c)
  PROVE  AnnouncedInv' /\ TableInv'
<1>1. CASE Sending!HubEECompletesFolder(c) /\ FollowUp!FolderCompleted(c.folder)
  <2>1. /\ shipments' = shipments
        /\ c.folder \in Folders
        /\ \A f \in Folders :
             IF f = c.folder THEN hub'[f].state = "complete" ELSE hub'[f] = hub[f]
    BY <1>1, HubEECompletion DEF JointInv
  <2>2. siStatus \in [Folders -> FollowUp!Processable
                                   \cup {None, "opened", "deposited", "hubee_notified"}]
    BY DEF JointInv, FollowUpInv, FollowUp!Inv, FollowUp!SharedInv
  <2>3. /\ \A f \in Folders : siStatus'[f] = IF f = c.folder THEN "opened" ELSE siStatus[f]
        /\ row' = row
    BY <1>1, <2>1, <2>2 DEF FollowUp!FolderCompleted
  <2>4. "opened" # None
    BY NoneAssumption
  <2> QED  BY <2>1, <2>3, <2>4 DEF JointInv, AnnouncedInv, TableInv
<1>2. CASE /\ Sending!HubEEStep(c)
           /\ ~ Sending!HubEECompletesFolder(c)
           /\ UNCHANGED follow_up_vars
  BY <1>2, HubEEFolders DEF JointInv, AnnouncedInv, TableInv, follow_up_vars
<1> QED  BY <1>1, <1>2 DEF HubEEStep

LEMMA SIStepJoint ==
  ASSUME JointInv, NEW f \in Folders, SIStep(f)
  PROVE  AnnouncedInv' /\ TableInv'
<1>1. UNCHANGED <<hub, shipments>>
  BY DEF SIStep, sending_vars
<1>2. siStatus \in [Folders -> FollowUp!Processable
                                 \cup {None, "opened", "deposited", "hubee_notified"}]
  BY DEF JointInv, FollowUpInv, FollowUp!Inv, FollowUp!SharedInv
<1>3. row' = row /\ \E s \in SIStatuses \cup {"deposited"} : siStatus' = [siStatus EXCEPT ![f] = s]
  BY DEF SIStep, FollowUp!SIUpdatesCase, FollowUp!SIDepositsAttachment
<1>4. siStatus[f] # None
  BY NoneAssumption DEF SIStep, FollowUp!SIUpdatesCase, FollowUp!SIDepositsAttachment
<1>5. None \notin SIStatuses \cup {"deposited"}
  BY StatusesAssumption, NoneAssumption
<1> QED  BY <1>1, <1>2, <1>3, <1>4, <1>5, FollowUpAlone DEF JointInv

LEMMA JobStepJoint ==
  ASSUME JointInv, NEW j \in Jobs, Enqueue(j) \/ Works(j) \/ Fails(j)
  PROVE  AnnouncedInv' /\ TableInv'
<1>1. UNCHANGED <<hub, shipments>>
  BY DEF Enqueue, Works, Fails, sending_vars
<1>2. siStatus' = siStatus /\ \A f \in Folders : row'[f].saved = row[f].saved
  BY FollowUp!JobKeepsSaved, BoundsAssumption, RefusalAssumption, StatusesAssumption,
     NoneAssumption, Statuses
  DEF Enqueue, Works, Fails, JointInv, FollowUpInv, FollowUp!Processable,
      FollowUp!FinalStatuses
<1> QED  BY <1>1, <1>2, FollowUpAlone DEF JointInv

LEMMA NextJoint == JointInv /\ [Next]_vars => JointInv'
<1> SUFFICES ASSUME JointInv, [Next]_vars PROVE JointInv'
  OBVIOUS
<1>1. SendingInv' /\ FollowUpInv'
  BY SendingStep, SendingGoesOn, FollowUpStep, FollowUpGoesOn DEF JointInv
<1>2. ASSUME NEW call \in late, Late(call)  PROVE AnnouncedInv' /\ TableInv'
  BY <1>2, FollowUpAlone DEF Late, FollowUp!HubEEIsLate, sending_vars, JointInv
<1>3. ASSUME UNCHANGED vars  PROVE AnnouncedInv' /\ TableInv'
  BY <1>3, FollowUpAlone DEF vars, sending_vars, follow_up_vars, JointInv
<1>4. AnnouncedInv' /\ TableInv'
  BY <1>2, <1>3, RequestStepJoint, HubEEStepJoint, SIStepJoint, JobStepJoint DEF Next
<1> QED  BY <1>1, <1>4 DEF JointInv

(* The joint invariant, on which the rest rests: each half keeps its own    *)
(* invariant, and what the sending has done agrees with what HubEE has      *)
(* announced (AnnouncedInv) and with the table as the jobs see it           *)
(* (TableInv), through every step of requests, HubEE, the SI and the jobs.  *)
THEOREM JointInvariance == Spec => []JointInv
BY InitJoint, NextJoint, PTL DEF Spec

-----------------------------------------------------------------------------
(* The requests of the composition send as HubEESending says: what is      *)
(* proved of it holds here, whatever the collectivities and the jobs do.   *)
THEOREM SendingIsKept == Spec => Sending!Spec
<1>1. Init => Sending!Init
  BY DEF Init
<1> QED  BY <1>1, SendingStep, PTL DEF Spec, Sending!Spec

(* The jobs of the composition follow up as HubEENotifications says, its   *)
(* assumptions on the completion of folders and the saving of rows         *)
(* discharged by the requests.                                             *)
THEOREM FollowUpIsKept == Spec => FollowUp!Spec
<1>1. Init => FollowUp!Init
  BY DEF Init
<1>2. JointInv /\ [Next]_vars => [FollowUp!Next]_(FollowUp!vars)
  BY FollowUpStep DEF JointInv
<1> QED  BY <1>1, <1>2, JointInvariance, PTL DEF Spec, FollowUp!Spec

(* When CreateShipment is about to save a row, HubEE has announced the     *)
(* case and the table has no row of it; the two pictures of the table      *)
(* agree.                                                                  *)
THEOREM RowsAreAnnounced == Spec => []RowsFollowCompletion
<1>1. JointInv => RowsFollowCompletion
  <2> SUFFICES ASSUME JointInv PROVE RowsFollowCompletion
    OBVIOUS
  <2>1. ASSUME NEW r \in Requests, request_pc[r] \in {"clean", "save", "insert"}
        PROVE  siStatus[folder[r]] # None /\ ~ row[folder[r]].saved
    BY <2>1, BeforeTheRow DEF JointInv, AnnouncedInv, TableInv
  <2> QED  BY <2>1 DEF RowsFollowCompletion, JointInv, TableInv
<1> QED  BY <1>1, JointInvariance, PTL

(* The shipment page is shown for a folder whose row is saved.             *)
LEMMA ShownIsSaved ==
  ASSUME JointInv, NEW f \in Folders, siStatus[f] # None,
         outcome[hub[f].owner] = "shipment_page"
  PROVE  row[f].saved
<1> DEFINE r == hub[f].owner
           s == Sending!NewRow(r)
<1>1. hub \in [Folders -> Sending!HubEEFolder]
  BY DEF JointInv, SendingInv, Sending!Inv, Sending!TypeOK
<1>2. r \in Requests
  BY <1>1 DEF JointInv, AnnouncedInv, SendingInv, Sending!DeliveryInv, Sending!OwnerInv
<1>3. s \in shipments
  BY <1>2 DEF JointInv, SendingInv, Sending!Inv, Sending!RowInv
<1>4. s.folder = folder[r] /\ folder[r] \in Folders /\ hub[folder[r]].owner = r
  <2>1. shipments \subseteq Sending!Row
    BY DEF JointInv, SendingInv, Sending!Inv, Sending!TypeOK
  <2>2. s.folder = folder[r] /\ s.request = r
    BY DEF Sending!NewRow
  <2> QED  BY <1>3, <2>1, <2>2
           DEF JointInv, SendingInv, Sending!Inv, Sending!RowInv, Sending!Row
<1>5. folder[r] = f
  BY <1>2, <1>4, NoneAssumption
  DEF JointInv, SendingInv, Sending!DeliveryInv, Sending!OneFolder
<1> QED  BY <1>3, <1>4, <1>5 DEF JointInv, TableInv

(* A parent who was shown a reference misses no update that a job reads,   *)
(* until the Shipment is anonymised: an update is only lost while the      *)
(* request that sends the folder is under way or after it has failed.      *)
THEOREM UpdatesFindTheirRow == Spec => MissedOnlyWhileSending
<1> DEFINE Missed(n) == \/ row[n.of].saved /\ ~ row[n.of].ids
                        \/ outcome[hub[n.of].owner] # "shipment_page"
<1>1. JointInv /\ [Next]_vars => [\A n \in rowless' \ rowless : Missed(n)]_vars
  <2> SUFFICES ASSUME JointInv, [Next]_vars, NEW n \in rowless' \ rowless PROVE Missed(n)
    OBVIOUS
  <2>1. [FollowUp!Next]_(FollowUp!vars)
    BY FollowUpStep DEF JointInv
  <2>2. n.of \in Folders /\ siStatus[n.of] # None /\ ~ row[n.of].ids
    BY <2>1, FollowUp!RowlessStep, BoundsAssumption, RefusalAssumption, StatusesAssumption,
       NoneAssumption, Statuses
    DEF JointInv, FollowUpInv, FollowUp!Processable, FollowUp!FinalStatuses
  <2> QED  BY <2>2, ShownIsSaved
<1> QED  BY <1>1, JointInvariance, PTL DEF Spec, MissedOnlyWhileSending

-----------------------------------------------------------------------------
(* What is proved of each half holds in the composition.                   *)

(* While the collectivities and the jobs go about their business, every    *)
(* saved row leads to the complete folder of its own request, and what a   *)
(* failed request left on HubEE is explained.                              *)
THEOREM SentRowsAreBacked ==
  Spec => []Sending!ShipmentIsBacked /\ []Sending!LeftoverIsExplained
<1>1. Sending!Spec => []Sending!ShipmentIsBacked
  BY Sending!ShipmentBacking, BoundsAssumption, NoneAssumption
<1>2. Sending!Spec => []Sending!LeftoverIsExplained
  BY Sending!LeftoversAreExplained, BoundsAssumption, NoneAssumption
<1> QED  BY <1>1, <1>2, SendingIsKept, PTL

(* While requests send and crash, and however many jobs overlap: a         *)
(* Shipment keeps its ids until its case is closed, and a final update     *)
(* leaves the queue only once it is handled.                               *)
THEOREM CasesAreClosed ==
  Spec => []FollowUp!IdsOutliveClosing /\ []FollowUp!FinalIsAnonymised
<1>1. FollowUp!Spec => []FollowUp!IdsOutliveClosing
  BY FollowUp!IdsAreKeptUntilClosed, BoundsAssumption, RefusalAssumption,
     StatusesAssumption, NoneAssumption, Statuses
  DEF FollowUp!Processable, FollowUp!FinalStatuses
<1>2. FollowUp!Spec => []FollowUp!FinalIsAnonymised
  BY FollowUp!FinalUpdatesAnonymise, BoundsAssumption, RefusalAssumption,
     StatusesAssumption, NoneAssumption, Statuses
  DEF FollowUp!Processable, FollowUp!FinalStatuses
<1> QED  BY <1>1, <1>2, FollowUpIsKept, PTL

(* With one job at a time and a HubEE that does what it answers, the rows  *)
(* that the requests save live as ShipmentLifecycle says, and the latest   *)
(* update that a job has acknowledged is the one they show.                *)
THEOREM RowsFollowTheirCase ==
  ASSUME FollowUp!OneJob, ~ MayRefuse
  PROVE  Spec => FollowUp!ImplementsLifecycle /\ []FollowUp!LastUpdateIsApplied
<1>1. FollowUp!Spec => FollowUp!ImplementsLifecycle
  BY FollowUp!NotificationsImplementLifecycle, BoundsAssumption, RefusalAssumption,
     StatusesAssumption, NoneAssumption, Statuses
  DEF FollowUp!Processable, FollowUp!FinalStatuses
<1>2. FollowUp!Spec => []FollowUp!LastUpdateIsApplied
  BY FollowUp!LastUpdatesAreApplied, BoundsAssumption, RefusalAssumption,
     StatusesAssumption, NoneAssumption, Statuses
  DEF FollowUp!Processable, FollowUp!FinalStatuses
<1> QED  BY <1>1, <1>2, FollowUpIsKept, PTL
=============================================================================
