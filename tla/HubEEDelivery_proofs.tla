------------------------ MODULE HubEEDelivery_proofs ------------------------
(***************************************************************************)
(* Further proofs about HubEESending: a request has one folder, what a     *)
(* failed request leaves on HubEE, and that HubEESending implements        *)
(* ShipmentDelivery.                                                       *)
(***************************************************************************)
EXTENDS HubEESending_proofs

Failed == {"error_page", "server_error"}

(* A request asks once for a folder, so it has one at most.                *)
OneFolder ==
  \A f, g \in Folders : hub[f].owner = hub[g].owner /\ hub[f].owner # None => f = g

(* Whose folder a folder is, from both sides.                              *)
OwnerInv ==
  /\ \A f \in Folders : hub[f].state # "absent" => hub[f].owner \in Requests
  /\ \A r \in Requests :
       /\ folder[r] # None => hub[folder[r]].owner = r
       /\ folder[r] = None =>
            \A f \in Folders : hub[f].owner = r => hub[f].state = "created"
       /\ pc[r] \in {"prepare", "attach", "create", "creating"} => folder[r] = None
       /\ pc[r] \in {"prepare", "attach", "create"} =>
            \A f \in Folders : hub[f].owner # r

(* A creation under way is the only call of its request, which has no      *)
(* folder; any other call is about the request's folder.                   *)
CallInv ==
  \A c \in net :
    /\ c.op = "creating" =>
         /\ c.folder = None /\ c.file = 0 /\ folder[c.req] = None
         /\ \A f \in Folders : hub[f].owner # c.req
    /\ c.op # "creating" => c.folder = folder[c.req]
    /\ c.op = "deleting" => outcome[c.req] \in Failed

(* How far the withdrawal of a failed request's folder is.                 *)
WithdrawalInv ==
  \A r \in Requests :
    /\ pc[r] \in {"rollback", "deleting"} => outcome[r] \in Failed
    /\ pc[r] = "deleting" /\ Answered(r, "success") => hub[folder[r]].state = "deleted"
    /\ withdrawn[r] = "confirmed" => folder[r] # None /\ hub[folder[r]].state = "deleted"
    /\ pc[r] = "done" /\ outcome[r] # "shipment_page" =>
         folder[r] = None \/ withdrawn[r] # "not_asked"

DeliveryInv == OneFolder /\ OwnerInv /\ CallInv /\ WithdrawalInv

USE NFilesAssumption, NoneAssumption
USE DEF Waiting, Ended, Calm, Goto, Finish, CloseFiles, Answered, NoReply, Failure,
       local, history

-----------------------------------------------------------------------------
(* The requests' own steps.                                                *)

(* Steps that only move a request on and settle its page. *)
LEMMA QuietStep ==
  ASSUME Inv, DeliveryInv, NEW r \in Requests, NEW to, NEW page,
         pc' = [pc EXCEPT ![r] = to],
         outcome' = [outcome EXCEPT ![r] = page],
         UNCHANGED <<hub, net, reply, folder, withdrawn>>,
         outcome[r] \in Failed => page = outcome[r],
         to \in {"attach", "create"} => pc[r] \in {"prepare", "attach"},
         to \notin {"prepare", "creating", "deleting"},
         to = "rollback" => page \in Failed,
         to = "done" => page = "shipment_page" \/ folder[r] = None
  PROVE  DeliveryInv'
<1>1. OneFolder'
  BY DEF DeliveryInv, OneFolder
<1>2. OwnerInv'
  BY DEF Inv, TypeOK, DeliveryInv, OwnerInv
<1>3. CallInv'
  BY DEF Inv, TypeOK, DeliveryInv, CallInv, Call
<1>4. WithdrawalInv'
  BY DEF Inv, TypeOK, DeliveryInv, WithdrawalInv
<1> QED  BY <1>1, <1>2, <1>3, <1>4 DEF DeliveryInv

(* Where a request stands while its page is open. *)
LEMMA OpenPage ==
  ASSUME Inv, NEW r \in Requests, pc[r] \in Calm \cup {"creating", "uploading", "marking"}
  PROVE  outcome[r] = "none" /\ outcome = [outcome EXCEPT ![r] = "none"]
BY DEF Inv, TypeOK, ProgressInv

LEMMA PreparationDelivery ==
  ASSUME Inv, DeliveryInv, NEW r \in Requests,
         \/ PrepareQuotientFamilialHubEEFolder(r)
         \/ PrepareFolderRaises(r)
         \/ PrepareAttachment(r)
         \/ PrepareAttachmentRaises(r)
  PROVE  DeliveryInv'
<1>1. pc[r] \in {"prepare", "attach"} /\ outcome[r] = "none" /\ folder[r] = None
  BY OpenPage DEF DeliveryInv, OwnerInv, PrepareQuotientFamilialHubEEFolder,
     PrepareFolderRaises, PrepareAttachment, PrepareAttachmentRaises
<1>2. PICK to \in {"attach", "create", "done"}, page \in {"none", "server_error"} :
        /\ pc' = [pc EXCEPT ![r] = to]
        /\ outcome' = [outcome EXCEPT ![r] = page]
  BY <1>1, OpenPage DEF PrepareQuotientFamilialHubEEFolder,
     PrepareFolderRaises, PrepareAttachment, PrepareAttachmentRaises
<1>3. UNCHANGED <<hub, net, reply, folder, withdrawn>>
  BY DEF PrepareQuotientFamilialHubEEFolder, PrepareFolderRaises, PrepareAttachment,
     PrepareAttachmentRaises
<1> QED  BY <1>1, <1>2, <1>3, QuietStep DEF Failed

LEMMA FailWithoutFolderDelivery ==
  ASSUME Inv, DeliveryInv, NEW r \in Requests, RequestAuthTokenFails(r) \/ CreateFolderFails(r)
  PROVE  DeliveryInv'
<1>1. pc[r] \in {"create", "creating"} /\ outcome[r] = "none" /\ folder[r] = None
  BY OpenPage DEF DeliveryInv, OwnerInv, RequestAuthTokenFails, CreateFolderFails
<1>2. PICK page \in Failed : FailWithoutFolder(r, page)
  BY DEF RequestAuthTokenFails, CreateFolderFails, Failed
<1> QED  BY <1>1, <1>2, QuietStep DEF FailWithoutFolder, Failed

LEMMA ProgressDelivery ==
  ASSUME Inv, DeliveryInv, NEW r \in Requests,
         AttachmentUploaded(r) \/ FolderMarked(r) \/ CleanAttachments(r)
  PROVE  DeliveryInv'
<1>1. pc[r] \in {"uploading", "marking", "clean"}
  BY DEF AttachmentUploaded, FolderMarked, CleanAttachments
<1>2. PICK to \in {"upload", "mark", "clean", "save"} : pc' = [pc EXCEPT ![r] = to]
  BY DEF AttachmentUploaded, FolderMarked, CleanAttachments
<1>3. UNCHANGED <<outcome, hub, net, reply, folder, withdrawn>>
  BY DEF AttachmentUploaded, FolderMarked, CleanAttachments
<1> QED  BY <1>1, <1>2, <1>3, OpenPage, QuietStep DEF Failed

LEMMA RollbackDelivery ==
  ASSUME Inv, DeliveryInv, NEW r \in Requests, NEW page \in Failed,
         pc[r] \in {"uploading", "marking", "save", "insert"},
         StartRollback(r, page), UNCHANGED <<hub, net, reply, folder, withdrawn>>
  PROVE  DeliveryInv'
BY OpenPage, QuietStep DEF StartRollback, Failed

LEMMA SaveDelivery ==
  ASSUME Inv, DeliveryInv, NEW r \in Requests,
         \/ UploadOrMarkFails(r)
         \/ ValidateShipment(r)
         \/ InsertShipment(r)
         \/ SaveShipmentRaises(r)
         \/ CommitAcknowledgementLost(r)
  PROVE  DeliveryInv'
<1>1. CASE UploadOrMarkFails(r) \/ SaveShipmentRaises(r) \/ CommitAcknowledgementLost(r)
  <2>1. "error_page" \in Failed /\ "server_error" \in Failed
    BY DEF Failed
  <2> QED  BY <1>1, <2>1, RollbackDelivery
           DEF UploadOrMarkFails, SaveShipmentRaises, CommitAcknowledgementLost
<1>2. CASE ValidateShipment(r)
  <2>1. CASE ReferenceTaken(r)
    BY <1>2, <2>1, RollbackDelivery DEF ValidateShipment, Failed
  <2>2. CASE ~ ReferenceTaken(r)
    BY <1>2, <2>2, OpenPage, QuietStep DEF ValidateShipment, Failed
  <2> QED  BY <2>1, <2>2
<1>3. CASE InsertShipment(r)
  BY <1>3, OpenPage, QuietStep DEF InsertShipment, Failed
<1> QED  BY <1>1, <1>2, <1>3

LEMMA CrashDelivery ==
  ASSUME Inv, DeliveryInv, NEW r \in Requests, Crash(r) \/ CrashAfterCommit(r)
  PROVE  DeliveryInv'
<1>1. outcome' = [outcome EXCEPT ![r] = outcome[r]]
  BY DEF Crash, CrashAfterCommit, Inv, TypeOK
<1> QED  BY <1>1, QuietStep DEF Crash, CrashAfterCommit

(* The id in a successful answer is the request's only folder. *)
LEMMA FolderCreatedDelivery ==
  ASSUME Inv, DeliveryInv, NEW r \in Requests, FolderCreated(r)
  PROVE  DeliveryInv'
<1>1. /\ pc[r] = "creating" /\ Answered(r, "success")
      /\ pc' = [pc EXCEPT ![r] = "upload"]
      /\ folder' = [folder EXCEPT ![r] = reply[r].folder]
      /\ UNCHANGED <<outcome, net, reply, hub, withdrawn>>
  BY DEF FolderCreated
<1>2. reply[r].folder \in Folders /\ hub[reply[r].folder].owner = r
  BY <1>1 DEF Inv, ProgressInv, FolderIs
<1>3. \A c \in net : c.req # r
  BY <1>1 DEF Inv, NetInv
<1>4. OneFolder'
  BY <1>1 DEF DeliveryInv, OneFolder
<1>5. OwnerInv'
  BY <1>1, <1>2 DEF Inv, TypeOK, DeliveryInv, OwnerInv
<1>6. CallInv'
  BY <1>1, <1>3 DEF Inv, TypeOK, DeliveryInv, CallInv, Call
<1>7. WithdrawalInv'
  BY <1>1 DEF Inv, TypeOK, DeliveryInv, WithdrawalInv, OwnerInv
<1> QED  BY <1>4, <1>5, <1>6, <1>7 DEF DeliveryInv

(* A call is sent. *)
LEMMA SendDelivery ==
  ASSUME Inv, DeliveryInv, NEW r \in Requests,
         CreateFolder(r) \/ UploadAttachment(r) \/ MarkFolderComplete(r) \/ DeleteFolder(r)
  PROVE  DeliveryInv'
<1>1. PICK op \in Waiting, file \in 0..NFiles :
        /\ Send(r, op, file)
        /\ op = "creating" => pc[r] = "create" /\ file = 0
        /\ op = "uploading" => pc[r] = "upload"
        /\ op = "marking" => pc[r] = "mark"
        /\ op = "deleting" => pc[r] = "rollback"
  BY DEF CreateFolder, UploadAttachment, MarkFolderComplete, DeleteFolder, Inv, CounterInv, TypeOK
<1>2. /\ UNCHANGED <<outcome, folder, hub>>
      /\ \A q \in Requests : withdrawn'[q] = withdrawn[q] \/ withdrawn'[q] = "unconfirmed"
  BY DEF CreateFolder, UploadAttachment, MarkFolderComplete, DeleteFolder, Inv, TypeOK
<1>3. folder[r] = None <=> op = "creating"
  BY <1>1 DEF Inv, ProgressInv, FolderIs, DeliveryInv, OwnerInv
<1>4. OneFolder'
  BY <1>2 DEF DeliveryInv, OneFolder
<1>5. OwnerInv'
  BY <1>1, <1>2 DEF Inv, TypeOK, DeliveryInv, OwnerInv, Send
<1>6. CallInv'
  <2> SUFFICES ASSUME NEW c \in net' PROVE CallInv!(c)'
    BY DEF CallInv
  <2>1. CASE c \in net
    BY <1>2, <2>1 DEF DeliveryInv, CallInv
  <2>2. CASE c = [req |-> r, op |-> op, folder |-> folder[r], file |-> file]
    BY <1>1, <1>2, <1>3, <2>2 DEF DeliveryInv, OwnerInv, WithdrawalInv
  <2> QED  BY <1>1, <2>1, <2>2 DEF Send
<1>7. WithdrawalInv'
  BY <1>1, <1>2 DEF Inv, TypeOK, DeliveryInv, WithdrawalInv, Send
<1> QED  BY <1>4, <1>5, <1>6, <1>7 DEF DeliveryInv

LEMMA EndRollbackDelivery ==
  ASSUME Inv, DeliveryInv, NEW r \in Requests, EndRollback(r)
  PROVE  DeliveryInv'
<1>1. folder[r] # None
  BY DEF EndRollback, Inv, ProgressInv
<1>2. OneFolder'
  BY DEF EndRollback, DeliveryInv, OneFolder
<1>3. OwnerInv'
  BY DEF EndRollback, Inv, TypeOK, DeliveryInv, OwnerInv
<1>4. CallInv'
  BY DEF EndRollback, Inv, TypeOK, DeliveryInv, CallInv, Call
<1>5. WithdrawalInv'
  BY <1>1 DEF EndRollback, Inv, TypeOK, DeliveryInv, WithdrawalInv
<1> QED  BY <1>2, <1>3, <1>4, <1>5 DEF DeliveryInv

-----------------------------------------------------------------------------
(* HubEE's steps.                                                          *)

LEMMA HubEECreatesFolderDelivery ==
  ASSUME Inv, DeliveryInv, NEW c \in net, HubEECreatesFolder(c)
  PROVE  DeliveryInv'
<1>1. /\ c \in Call /\ c.op = "creating" /\ c.req \in Requests
      /\ c.folder = None /\ c.file = 0 /\ folder[c.req] = None
      /\ \A f \in Folders : hub[f].owner # c.req
  BY DEF Inv, TypeOK, DeliveryInv, CallInv, Call, HubEECreatesFolder
<1>2. PICK f \in Folders :
        /\ hub[f].state = "absent"
        /\ hub' = [hub EXCEPT ![f] = [state |-> "created", owner |-> c.req, uploads |-> {}]]
  BY DEF HubEECreatesFolder
<1>3. hub[f].owner = None
  BY <1>2 DEF Inv, HubInv
<1>4. net' = net \ {c} /\ UNCHANGED <<pc, outcome, folder, withdrawn>>
  BY DEF HubEECreatesFolder, Received
<1>5. pc[c.req] = "deleting" => reply' = reply
  BY <1>1 DEF HubEECreatesFolder, Answer, Awaited
<1>6. hub \in [Folders -> HubEEFolder] /\ c.req # None
  BY <1>1 DEF Inv, TypeOK
<1>7. OneFolder'
  BY <1>1, <1>2, <1>6 DEF DeliveryInv, OneFolder
<1>8. OwnerInv'
  <2>1. pc[c.req] \notin {"prepare", "attach", "create"}
    BY DEF Inv, NetInv
  <2>2. \A r \in Requests : folder[r] # None => folder[r] # f
    BY <1>3 DEF DeliveryInv, OwnerInv
  <2> QED  BY <1>1, <1>2, <1>4, <1>6, <2>1, <2>2 DEF Inv, TypeOK, DeliveryInv, OwnerInv
<1>9. CallInv'
  <2> SUFFICES ASSUME NEW d \in net' PROVE CallInv!(d)'
    BY DEF CallInv
  <2>1. d \in net /\ d # c /\ d \in Call
    BY <1>4 DEF Inv, TypeOK
  <2>2. d.op = "creating" => d.req # c.req
    BY <1>1, <2>1 DEF DeliveryInv, CallInv, Call
  <2> QED  BY <1>2, <1>4, <1>6, <2>1, <2>2 DEF DeliveryInv, CallInv
<1>10. WithdrawalInv'
  <2> SUFFICES ASSUME NEW r \in Requests PROVE WithdrawalInv!(r)'
    BY DEF WithdrawalInv
  <2>1. folder[r] # None => folder[r] # f
    BY <1>3 DEF DeliveryInv, OwnerInv
  <2>2. folder[r] \in Folders \cup {None}
    BY DEF Inv, TypeOK
  <2>3. hub'[folder[r]] = hub[folder[r]] \/ folder[r] = None
    BY <1>2, <1>6, <2>1, <2>2
  <2>4. pc[r] = "deleting" => folder[r] # None /\ reply'[r] = reply[r]
    BY <1>1, <1>5 DEF Inv, TypeOK, ProgressInv, HubEECreatesFolder, Answer
  <2> QED  BY <1>4, <2>3, <2>4 DEF DeliveryInv, WithdrawalInv
<1> QED  BY <1>7, <1>8, <1>9, <1>10 DEF DeliveryInv

(* Updates leave owners and never revive a deleted folder. *)
LEMMA HubEEUpdatesFolderDelivery ==
  ASSUME Inv, DeliveryInv, NEW c \in net, NEW op \in Waiting \ {"creating"}, NEW states,
         NEW value \in HubEEFolder,
         value.owner = hub[c.folder].owner,
         value.state # "absent",
         hub[c.folder].state = "deleted" => value.state = "deleted",
         op = "deleting" => value.state = "deleted",
         HubEEUpdatesFolder(c, op, states, value)
  PROVE  DeliveryInv'
<1>1. /\ c \in Call /\ c.op = op /\ c.req \in Requests
      /\ c.folder \in Folders /\ c.folder = folder[c.req]
  BY DEF Inv, TypeOK, NetInv, DeliveryInv, CallInv, Call, HubEEUpdatesFolder
<1>2. /\ hub' = [hub EXCEPT ![c.folder] = value]
      /\ net' = net \ {c} /\ UNCHANGED <<pc, outcome, folder, withdrawn>>
  BY DEF HubEEUpdatesFolder, Received
<1>3. /\ \A f \in Folders : /\ hub'[f].owner = hub[f].owner
                            /\ hub[f].state = "deleted" => hub'[f].state = "deleted"
                            /\ f # c.folder => hub'[f] = hub[f]
      /\ hub'[c.folder] = value
  BY <1>1, <1>2 DEF Inv, TypeOK
<1>4. hub[c.folder].owner = c.req
  BY <1>1 DEF DeliveryInv, OwnerInv
<1>5. OneFolder'
  <2>1. \A f \in Folders : hub'[f].owner = hub[f].owner
    BY <1>3
  <2> SUFFICES ASSUME NEW f \in Folders, NEW g \in Folders,
                      hub[f].owner = hub[g].owner, hub[f].owner # None
               PROVE  f = g
    BY <2>1 DEF OneFolder
  <2> QED  BY DEF DeliveryInv, OneFolder
<1>6. OwnerInv'
  <2>1. ASSUME NEW f \in Folders, hub'[f].state # "absent"
        PROVE  hub[f].owner \in Requests
    <3>1. CASE f = c.folder
      BY <1>1, <1>4, <3>1
    <3>2. CASE f # c.folder
      BY <1>3, <2>1, <3>2 DEF DeliveryInv, OwnerInv
    <3> QED  BY <3>1, <3>2
  <2>2. \A r \in Requests : folder[r] = None => \A f \in Folders : hub[f].owner = r => f # c.folder
    BY <1>1, <1>4
  <2>3. \A r \in Requests : folder[r] # None => folder[r] \in Folders
    BY DEF Inv, TypeOK
  <2> QED  BY <1>2, <1>3, <2>1, <2>2, <2>3 DEF DeliveryInv, OwnerInv
<1>7. CallInv'
  BY <1>2, <1>3 DEF DeliveryInv, CallInv
<1>8. WithdrawalInv'
  <2> SUFFICES ASSUME NEW r \in Requests PROVE WithdrawalInv!(r)'
    BY DEF WithdrawalInv
  <2>1. folder[r] # None => folder[r] \in Folders
    BY DEF Inv, TypeOK
  <2>2. pc[r] = "deleting" => folder[r] # None
    BY DEF Inv, ProgressInv
  <2>3. pc[r] = "deleting" => reply'[r] = reply[r] \/ (r = c.req /\ op = "deleting")
    BY <1>1 DEF Inv, TypeOK, HubEEUpdatesFolder, Answer, Awaited
  <2> QED  BY <1>1, <1>2, <1>3, <2>1, <2>2, <2>3 DEF DeliveryInv, WithdrawalInv
<1> QED  BY <1>5, <1>6, <1>7, <1>8 DEF DeliveryInv

LEMMA HubEEUpdateDelivery ==
  ASSUME Inv, DeliveryInv, NEW c \in net,
         HubEEStoresAttachment(c) \/ HubEECompletesFolder(c) \/ HubEEDeletesFolder(c)
  PROVE  DeliveryInv'
<1> DEFINE old == hub[c.folder]
<1>1. c \in Call /\ c.folder \in Folders /\ old \in HubEEFolder
  BY DEF Inv, TypeOK, NetInv, Call, HubEEStoresAttachment, HubEECompletesFolder,
     HubEEDeletesFolder, HubEEUpdatesFolder
<1>2. CASE HubEEStoresAttachment(c)
  <2>1. c.file \in 1..NFiles /\ old.state = "created"
    BY <1>2 DEF Inv, NetInv, HubEEStoresAttachment, HubEEUpdatesFolder
  <2>2. [old EXCEPT !.uploads = @ \cup {c.file}] \in HubEEFolder
    BY <1>1, <2>1 DEF HubEEFolder
  <2> QED  BY <1>1, <1>2, <2>1, <2>2, HubEEUpdatesFolderDelivery
           DEF HubEEStoresAttachment, HubEEFolder
<1>3. CASE HubEECompletesFolder(c)
  <2>1. old.state = "created"
    BY <1>3 DEF HubEECompletesFolder, HubEEUpdatesFolder
  <2>2. [old EXCEPT !.state = "complete"] \in HubEEFolder
    BY <1>1 DEF HubEEFolder, FolderStates
  <2> QED  BY <1>1, <1>3, <2>1, <2>2, HubEEUpdatesFolderDelivery
           DEF HubEECompletesFolder, HubEEFolder
<1>4. CASE HubEEDeletesFolder(c)
  <2>1. [old EXCEPT !.state = "deleted"] \in HubEEFolder
    BY <1>1 DEF HubEEFolder, FolderStates
  <2> QED  BY <1>1, <1>4, <2>1, HubEEUpdatesFolderDelivery DEF HubEEDeletesFolder, HubEEFolder
<1> QED  BY <1>2, <1>3, <1>4

LEMMA HubEEDropsDelivery ==
  ASSUME Inv, DeliveryInv, NEW c \in net, HubEERefuses(c) \/ CallIsLost(c)
  PROVE  DeliveryInv'
<1>1. net' \subseteq net /\ UNCHANGED <<pc, outcome, folder, withdrawn, hub>>
  BY DEF HubEERefuses, CallIsLost, Received
<1>2. \A r \in Requests : reply'[r] = reply[r] \/ reply'[r].status = "error"
  BY DEF HubEERefuses, CallIsLost, Answer, Inv, TypeOK
<1>3. OneFolder' /\ OwnerInv'
  BY <1>1 DEF DeliveryInv, OneFolder, OwnerInv
<1>4. CallInv' /\ WithdrawalInv'
  BY <1>1, <1>2 DEF DeliveryInv, CallInv, WithdrawalInv
<1> QED  BY <1>3, <1>4 DEF DeliveryInv

-----------------------------------------------------------------------------
LEMMA InitDelivery == Init => DeliveryInv
BY DEF Init, DeliveryInv, OneFolder, OwnerInv, CallInv, WithdrawalInv, NoFolder

LEMMA StepDelivery == Inv /\ DeliveryInv /\ [Next]_vars => DeliveryInv'
<1> SUFFICES ASSUME Inv, DeliveryInv, [Next]_vars PROVE DeliveryInv'
  OBVIOUS
<1>1. ASSUME NEW r \in Requests, Proceed(r) PROVE DeliveryInv'
  BY <1>1, PreparationDelivery, FailWithoutFolderDelivery, ProgressDelivery, SaveDelivery,
     FolderCreatedDelivery, SendDelivery, EndRollbackDelivery DEF Proceed
<1>2. ASSUME NEW c \in net, HubEEStep(c) PROVE DeliveryInv'
  BY <1>2, HubEECreatesFolderDelivery, HubEEUpdateDelivery, HubEEDropsDelivery DEF HubEEStep
<1>3. CASE UNCHANGED vars
  BY <1>3 DEF vars, DeliveryInv, OneFolder, OwnerInv, CallInv, WithdrawalInv
<1> QED  BY <1>1, <1>2, <1>3, CrashDelivery DEF Next, AllEnded

THEOREM DeliveryInvariance == Spec => [](Inv /\ DeliveryInv)
BY InitDelivery, StepDelivery, Invariance, PTL DEF Spec

(* A folder left on HubEE by a request that ended without a row is the     *)
(* trace of a killed process, of a creation whose answer was lost, or of a *)
(* deletion HubEE did not confirm.                                         *)
THEOREM LeftoversAreExplained == Spec => []LeftoverIsExplained
<1>1. Inv /\ DeliveryInv => LeftoverIsExplained
  <2> SUFFICES ASSUME Inv, DeliveryInv, NEW f \in Folders, NEW r, r = hub[f].owner,
                      hub[f].state \in {"created", "complete"}, pc[r] \in Ended,
                      ~ RowOf(r), pc[r] # "crashed", withdrawn[r] # "unconfirmed"
               PROVE  hub[f].state = "created" /\ folder[r] = None
    BY DEF LeftoverIsExplained
  <2>1. r \in Requests
    BY DEF DeliveryInv, OwnerInv
  <2>2. outcome[r] # "shipment_page"
    BY <2>1 DEF Inv, RowInv, RowOf, NewRow
  <2>3. folder[r] = None \/ withdrawn[r] = "confirmed"
    BY <2>1, <2>2 DEF DeliveryInv, WithdrawalInv, Inv, TypeOK
  <2>4. withdrawn[r] # "confirmed"
    <3> SUFFICES ASSUME withdrawn[r] = "confirmed" PROVE FALSE
      OBVIOUS
    <3>1. folder[r] # None /\ hub[folder[r]].state = "deleted" /\ hub[folder[r]].owner = r
      BY <2>1 DEF DeliveryInv, WithdrawalInv, OwnerInv
    <3>2. folder[r] \in Folders
      BY <2>1, <3>1 DEF Inv, TypeOK
    <3>3. f = folder[r]
      BY <2>1, <3>1, <3>2 DEF DeliveryInv, OneFolder
    <3> QED  BY <3>1, <3>3
  <2> QED  BY <2>1, <2>3, <2>4 DEF DeliveryInv, OwnerInv
<1> QED  BY <1>1, DeliveryInvariance, PTL

-----------------------------------------------------------------------------
(* The refinement.                                                         *)

(* What is visible of a request is what became of its one folder. *)
LEMMA VisibilityOfFolder ==
  ASSUME OneFolder, NEW r \in Requests, NEW f \in Folders, hub[f].owner = r
  PROVE  Visibility(r) = CASE hub[f].state = "complete" -> "visible"
                           [] hub[f].state = "deleted" -> "withdrawn"
                           [] OTHER -> "hidden"
<1>1. {hub[g].state : g \in {h \in Folders : hub[h].owner = r}} = {hub[f].state}
  BY DEF OneFolder
<1> QED  BY <1>1 DEF Visibility

LEMMA VisibilityWithoutFolder ==
  ASSUME NEW r \in Requests, \A f \in Folders : hub[f].owner # r
  PROVE  Visibility(r) = "hidden"
BY DEF Visibility

LEMMA ToldFacts ==
  ASSUME NEW r \in Requests
  PROVE  /\ outcome[r] = "none" <=> Told(r) = "nothing"
         /\ outcome[r] = "shipment_page" <=> Told(r) = "sent"
         /\ outcome[r] \in Failed => Told(r) = "failed"
BY DEF Told, Failed

(* A step that leaves HubEE alone changes what one request is told and     *)
(* whether it has its row.                                                 *)
Tells(r, page, rows) ==
  /\ outcome' = [outcome EXCEPT ![r] = page]
  /\ shipments' = shipments \cup rows
  /\ UNCHANGED hub

LEMMA TellingRefines ==
  ASSUME Inv, NEW r \in Requests, NEW page \in {"none", "shipment_page"} \cup Failed,
         NEW rows \in SUBSET {NewRow(r)}, Tells(r, page, rows),
         outcome[r] # "none" => page = outcome[r] /\ rows = {},
         page # outcome[r] => ~ RowOf(r),
         page = "shipment_page" /\ outcome[r] = "none" => rows # {},
         rows # {} => Visibility(r) = "visible"
  PROVE  [Delivery!Next]_(Delivery!vars)
<1> DEFINE saved == {q \in Requests : RowOf(q)}
           told == [q \in Requests |-> Told(q)]
<1>1. [q \in Requests |-> Visibility(q)]' = [q \in Requests |-> Visibility(q)]
  BY DEF Tells, Visibility
<1>2. saved' = IF rows = {} THEN saved ELSE saved \cup {r}
  BY DEF Tells, RowOf, NewRow
<1>3. told' = [told EXCEPT ![r] = Told(r)']
  BY DEF Tells, Told, Inv, TypeOK
<1>4. outcome'[r] = page
  BY DEF Tells, Inv, TypeOK
<1>5. CASE page = outcome[r] /\ rows = {}
  <2>1. Told(r)' = Told(r)
    BY <1>4, <1>5 DEF Told
  <2>2. told' = told
    BY <1>3, <2>1
  <2> QED  BY <1>1, <1>2, <1>5, <2>2 DEF Delivery!vars
<1>6. CASE page # outcome[r] \/ rows # {}
  <2>1. outcome[r] = "none" /\ Told(r) = "nothing" /\ (page # "none" => r \notin saved)
    BY <1>6, ToldFacts
  <2>2. CASE page = "shipment_page"
    <3>1. Told(r)' = "sent"
      BY <1>4, <2>2 DEF Told
    <3>2. Delivery!Send(r)
      BY <1>1, <1>2, <1>3, <2>1, <2>2, <3>1 DEF Delivery!Send
    <3> QED  BY <3>2 DEF Delivery!Next
  <2>3. CASE page \in Failed
    <3>1. Told(r)' = "failed"
      BY <1>4, <2>3 DEF Told, Failed
    <3>2. r \notin saved
      BY <2>1, <2>3 DEF Failed
    <3>3. told' = [told EXCEPT ![r] = "failed"]
      BY <1>3, <3>1
    <3>4. CASE rows = {}
      <4>1. saved' = saved
        BY <1>2, <3>4
      <4>2. Delivery!Fail(r)
        BY <1>1, <2>1, <3>2, <3>3, <4>1 DEF Delivery!Fail
      <4> QED  BY <4>2 DEF Delivery!Next
    <3>5. CASE rows # {}
      <4>1. saved' = saved \cup {r}
        BY <1>2, <3>5
      <4>2. Delivery!SendUnawares(r)
        BY <1>1, <2>1, <3>2, <3>3, <3>5, <4>1 DEF Delivery!SendUnawares
      <4> QED  BY <4>2 DEF Delivery!Next
    <3> QED  BY <3>4, <3>5
  <2>4. CASE page = "none"
    <3>1. Told(r)' = Told(r)
      BY <1>4, <2>1, <2>4 DEF Told
    <3>2. told' = told
      BY <1>3, <3>1
    <3>3. Delivery!SendWithoutPage(r)
      BY <1>1, <1>2, <1>6, <2>1, <2>4, <3>2 DEF Delivery!SendWithoutPage
    <3> QED  BY <3>3 DEF Delivery!Next
  <2> QED  BY <2>2, <2>3, <2>4
<1> QED  BY <1>5, <1>6

LEMMA QuietRefines ==
  ASSUME UNCHANGED <<outcome, shipments, hub>>
  PROVE  [Delivery!Next]_(Delivery!vars)
<1>1. /\ [q \in Requests |-> Visibility(q)]' = [q \in Requests |-> Visibility(q)]
      /\ [q \in Requests |-> Told(q)]' = [q \in Requests |-> Told(q)]
      /\ {q \in Requests : RowOf(q)}' = {q \in Requests : RowOf(q)}
  BY DEF Visibility, Told, RowOf
<1> QED  BY <1>1 DEF Delivery!vars

LEMMA FailingRefines ==
  ASSUME Inv, NEW r \in Requests, NEW page \in Failed, outcome[r] = "none", ~ RowOf(r),
         outcome' = [outcome EXCEPT ![r] = page], UNCHANGED <<shipments, hub>>
  PROVE  [Delivery!Next]_(Delivery!vars)
<1>1. Tells(r, page, {})
  BY DEF Tells
<1> QED  BY <1>1, TellingRefines DEF Failed

(* The folder of a request about to save its row is visible. *)
LEMMA SavingRefines ==
  ASSUME Inv, DeliveryInv, NEW r \in Requests, pc[r] = "insert",
         NEW page \in {"none", "shipment_page", "server_error"},
         outcome' = [outcome EXCEPT ![r] = page],
         shipments' = shipments \cup {NewRow(r)}, UNCHANGED hub
  PROVE  [Delivery!Next]_(Delivery!vars)
<1>1. folder[r] \in Folders /\ hub[folder[r]].owner = r /\ hub[folder[r]].state = "complete"
  BY DEF Inv, ProgressInv, FolderIs
<1>2. Visibility(r) = "visible"
  BY <1>1, VisibilityOfFolder DEF DeliveryInv
<1>3. outcome[r] = "none"
  BY OpenPage
<1>4. Tells(r, page, {NewRow(r)})
  BY DEF Tells
<1>5. ~ RowOf(r)
  BY InsertReady DEF RowOf
<1> QED  BY <1>2, <1>3, <1>4, <1>5, TellingRefines DEF Failed

LEMMA RequestRefines ==
  ASSUME Inv, DeliveryInv, NEW r \in Requests,
         Proceed(r) \/ Crash(r) \/ CrashAfterCommit(r)
  PROVE  [Delivery!Next]_(Delivery!vars)
<1>1. CASE InsertShipment(r) \/ CommitAcknowledgementLost(r)
  BY <1>1, SavingRefines DEF InsertShipment, CommitAcknowledgementLost, StartRollback
<1>4. CASE CrashAfterCommit(r)
  <2>1. pc[r] = "insert" /\ outcome' = [outcome EXCEPT ![r] = "none"]
    BY <1>4, OpenPage DEF CrashAfterCommit
  <2> QED  BY <1>4, <2>1, SavingRefines DEF CrashAfterCommit
<1>2. CASE \/ PrepareFolderRaises(r)
           \/ PrepareAttachmentRaises(r)
           \/ RequestAuthTokenFails(r)
           \/ CreateFolderFails(r)
           \/ UploadOrMarkFails(r)
           \/ SaveShipmentRaises(r)
           \/ ValidateShipment(r) /\ ReferenceTaken(r)
  <2>1. outcome[r] = "none" /\ UNCHANGED <<shipments, hub>>
    BY <1>2, OpenPage DEF PrepareFolderRaises, PrepareAttachmentRaises,
       RequestAuthTokenFails, CreateFolderFails, UploadOrMarkFails, SaveShipmentRaises,
       ValidateShipment, FailWithoutFolder
  <2>2. PICK page \in Failed : outcome' = [outcome EXCEPT ![r] = page]
    BY <1>2 DEF PrepareFolderRaises, PrepareAttachmentRaises,
       RequestAuthTokenFails, CreateFolderFails, UploadOrMarkFails, SaveShipmentRaises,
       ValidateShipment, FailWithoutFolder, StartRollback, Failed
  <2>3. pc[r] \notin {"rollback", "deleting"} \cup Ended
    BY <1>2 DEF PrepareFolderRaises, PrepareAttachmentRaises,
       RequestAuthTokenFails, CreateFolderFails, UploadOrMarkFails, SaveShipmentRaises,
       ValidateShipment
  <2>4. ~ RowOf(r)
    BY <2>3 DEF Inv, RowInv, RowOf
  <2> QED  BY <2>1, <2>2, <2>4, FailingRefines
<1>3. CASE \/ PrepareQuotientFamilialHubEEFolder(r)
           \/ PrepareAttachment(r)
           \/ CreateFolder(r)
           \/ FolderCreated(r)
           \/ UploadAttachment(r)
           \/ AttachmentUploaded(r)
           \/ MarkFolderComplete(r)
           \/ FolderMarked(r)
           \/ CleanAttachments(r)
           \/ ValidateShipment(r) /\ ~ ReferenceTaken(r)
           \/ DeleteFolder(r)
           \/ EndRollback(r)
           \/ Crash(r)
  BY <1>3, QuietRefines DEF PrepareQuotientFamilialHubEEFolder, PrepareAttachment,
     CreateFolder, FolderCreated, UploadAttachment, AttachmentUploaded,
     MarkFolderComplete, FolderMarked, CleanAttachments, ValidateShipment,
     DeleteFolder, EndRollback, Crash
<1> QED  BY <1>1, <1>2, <1>3, <1>4 DEF Proceed

(* A step of HubEE changes what is visible of one request at most.         *)
LEMMA OneFolderChanges ==
  ASSUME Inv, DeliveryInv, NEW r \in Requests, NEW f \in Folders, NEW value \in HubEEFolder,
         hub' = [hub EXCEPT ![f] = value], value.owner = r,
         \/ hub[f].owner = r
         \/ hub[f].owner = None /\ \A g \in Folders : hub[g].owner # r
  PROVE  /\ \A q \in Requests : q # r => Visibility(q)' = Visibility(q)
         /\ Visibility(r)' = CASE value.state = "complete" -> "visible"
                               [] value.state = "deleted" -> "withdrawn"
                               [] OTHER -> "hidden"
<1>1. /\ hub'[f] = value
      /\ \A g \in Folders : g # f => hub'[g] = hub[g]
      /\ r # None
  BY DEF Inv, TypeOK
<1>2. ASSUME NEW q \in Requests, q # r
      PROVE  Visibility(q)' = Visibility(q)
  <2>1. {hub[g].state : g \in {h \in Folders : hub[h].owner = q}}'
          = {hub[g].state : g \in {h \in Folders : hub[h].owner = q}}
    BY <1>1, <1>2
  <2> QED  BY <2>1 DEF Visibility
<1>3. \A g \in Folders : hub'[g].owner = r => g = f
  BY <1>1 DEF DeliveryInv, OneFolder
<1>4. {hub[g].state : g \in {h \in Folders : hub[h].owner = r}}' = {value.state}
  BY <1>1, <1>3
<1> QED  BY <1>2, <1>4 DEF Visibility

(* What is visible of a request whose folder is not changed in effect.     *)
LEMMA HiddenRefines ==
  ASSUME Inv, DeliveryInv, NEW r \in Requests, NEW f \in Folders, NEW value \in HubEEFolder,
         hub' = [hub EXCEPT ![f] = value], value.owner = r, value.state = "created",
         \/ hub[f].owner = r /\ hub[f].state = "created"
         \/ hub[f].owner = None /\ \A g \in Folders : hub[g].owner # r,
         UNCHANGED <<outcome, shipments>>
  PROVE  [Delivery!Next]_(Delivery!vars)
<1>1. Visibility(r) = "hidden"
  BY VisibilityOfFolder, VisibilityWithoutFolder DEF DeliveryInv
<1>2. \A q \in Requests : Visibility(q)' = Visibility(q)
  BY <1>1, OneFolderChanges
<1>3. /\ [q \in Requests |-> Visibility(q)]' = [q \in Requests |-> Visibility(q)]
      /\ [q \in Requests |-> Told(q)]' = [q \in Requests |-> Told(q)]
      /\ {q \in Requests : RowOf(q)}' = {q \in Requests : RowOf(q)}
  BY <1>2 DEF Told, RowOf
<1> QED  BY <1>3 DEF Delivery!vars

LEMMA HubEERefines ==
  ASSUME Inv, DeliveryInv, NEW c \in net, HubEEStep(c)
  PROVE  [Delivery!Next]_(Delivery!vars)
<1> DEFINE f == c.folder
           visible == [q \in Requests |-> Visibility(q)]
<1>1. PICK r \in Requests : r = c.req
  BY DEF Inv, TypeOK, Call
<1>2. CASE HubEERefuses(c) \/ CallIsLost(c)
  BY <1>2, QuietRefines DEF HubEERefuses, CallIsLost
<1>3. CASE HubEECreatesFolder(c)
  <2>1. PICK g \in Folders :
          /\ hub[g].state = "absent"
          /\ hub' = [hub EXCEPT ![g] = [state |-> "created", owner |-> r, uploads |-> {}]]
    BY <1>1, <1>3 DEF HubEECreatesFolder
  <2>2. hub[g].owner = None /\ \A h \in Folders : hub[h].owner # r
    BY <1>1, <1>3, <2>1 DEF Inv, HubInv, DeliveryInv, CallInv, HubEECreatesFolder
  <2>3. [state |-> "created", owner |-> r, uploads |-> {}] \in HubEEFolder
    BY <1>1 DEF HubEEFolder, FolderStates
  <2> QED  BY <1>1, <1>3, <2>1, <2>2, <2>3, HiddenRefines DEF HubEECreatesFolder
<1>4. CASE HubEEStoresAttachment(c) \/ HubEECompletesFolder(c) \/ HubEEDeletesFolder(c)
  <2>1. /\ f \in Folders /\ hub[f] \in HubEEFolder /\ hub[f].owner = r
        /\ UNCHANGED <<outcome, shipments>>
    BY <1>1, <1>4 DEF Inv, TypeOK, NetInv, HubEEStoresAttachment, HubEECompletesFolder,
       HubEEDeletesFolder, HubEEUpdatesFolder
  <2>2. CASE HubEEStoresAttachment(c)
    <3>1. c.file \in 1..NFiles /\ hub[f].state = "created"
      BY <2>2 DEF Inv, NetInv, HubEEStoresAttachment, HubEEUpdatesFolder
    <3>2. [hub[f] EXCEPT !.uploads = @ \cup {c.file}] \in HubEEFolder
      BY <2>1, <3>1 DEF HubEEFolder
    <3> QED  BY <1>1, <2>1, <2>2, <3>1, <3>2, HiddenRefines
             DEF HubEEStoresAttachment, HubEEUpdatesFolder, HubEEFolder
  <2>3. CASE HubEECompletesFolder(c)
    <3> DEFINE value == [hub[f] EXCEPT !.state = "complete"]
    <3>1. /\ hub[f].state = "created" /\ outcome[r] # "shipment_page"
          /\ hub' = [hub EXCEPT ![f] = value]
      BY <1>1, <2>3 DEF Inv, NetInv, HubEECompletesFolder, HubEEUpdatesFolder
    <3>2. value \in HubEEFolder /\ value.state = "complete" /\ value.owner = r
      BY <2>1 DEF HubEEFolder, FolderStates
    <3> HIDE DEF value
    <3>3. Visibility(r) = "hidden" /\ Told(r) # "sent"
      BY <1>1, <2>1, <3>1, VisibilityOfFolder, ToldFacts DEF DeliveryInv
    <3>4. /\ \A q \in Requests : q # r => Visibility(q)' = Visibility(q)
          /\ Visibility(r)' = "visible"
      BY <2>1, <3>1, <3>2, OneFolderChanges
    <3>5. visible' = [visible EXCEPT ![r] = "visible"]
      BY <1>1, <3>4
    <3>6. Delivery!Appear(r)
      BY <1>1, <2>1, <3>3, <3>5 DEF Delivery!Appear, Told, RowOf
    <3> QED  BY <1>1, <3>6 DEF Delivery!Next
  <2>4. CASE HubEEDeletesFolder(c)
    <3> DEFINE value == [hub[f] EXCEPT !.state = "deleted"]
    <3>1. /\ hub[f].state \in {"created", "complete"} /\ outcome[r] \in Failed
          /\ hub' = [hub EXCEPT ![f] = value]
      BY <1>1, <2>4 DEF DeliveryInv, CallInv, HubEEDeletesFolder, HubEEUpdatesFolder
    <3>2. value \in HubEEFolder /\ value.state = "deleted" /\ value.owner = r
      BY <2>1 DEF HubEEFolder, FolderStates
    <3> HIDE DEF value
    <3>3. Visibility(r) # "withdrawn" /\ Told(r) = "failed"
      BY <1>1, <2>1, <3>1, VisibilityOfFolder, ToldFacts DEF DeliveryInv
    <3>4. /\ \A q \in Requests : q # r => Visibility(q)' = Visibility(q)
          /\ Visibility(r)' = "withdrawn"
      BY <2>1, <3>1, <3>2, OneFolderChanges
    <3>5. visible' = [visible EXCEPT ![r] = "withdrawn"]
      BY <1>1, <3>4
    <3>6. Delivery!Withdraw(r)
      BY <1>1, <2>1, <3>3, <3>5 DEF Delivery!Withdraw, Told, RowOf
    <3> QED  BY <1>1, <3>6 DEF Delivery!Next
  <2> QED  BY <1>4, <2>2, <2>3, <2>4
<1> QED  BY <1>2, <1>3, <1>4 DEF HubEEStep

(* HubEESending implements ShipmentDelivery: every step of the requests    *)
(* and of HubEE changes what agents see, what parents are told and what is *)
(* saved as ShipmentDelivery does, or changes nothing of it.               *)
THEOREM SendingImplementsDelivery == Spec => ImplementsDelivery
<1>1. Init => Delivery!Init
  <2> SUFFICES ASSUME Init PROVE Delivery!Init
    OBVIOUS
  <2>1. \A r \in Requests : Visibility(r) = "hidden" /\ Told(r) = "nothing" /\ ~ RowOf(r)
    BY VisibilityWithoutFolder DEF Init, NoFolder, Told, RowOf
  <2> QED  BY <2>1 DEF Delivery!Init
<1>2. Inv /\ DeliveryInv /\ [Next]_vars => [Delivery!Next]_(Delivery!vars)
  BY RequestRefines, HubEERefines, QuietRefines DEF Next, AllEnded, vars
<1> QED  BY <1>1, <1>2, DeliveryInvariance, PTL DEF Spec, ImplementsDelivery, Delivery!Spec

=============================================================================
