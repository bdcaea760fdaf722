---------------------------- MODULE HubEESending ----------------------------
(***************************************************************************)
(* The sending of a parent's quotient familial to a collectivity.          *)
(*                                                                         *)
(* Every web request POST /collectivites/:siret/demandes runs              *)
(* StoreQuotientFamilial: it prepares a folder and its attachments,        *)
(* creates the folder on HubEE, uploads the attachments one by one, marks  *)
(* the folder complete and only then saves the Shipment row.  An           *)
(* interactor that fails has the interactors called before it rolled back, *)
(* the last one first: CreateFolder deletes the folder on HubEE,           *)
(* PrepareAttachments closes the temporary files.                          *)
(*                                                                         *)
(* Several requests run at once in several puma threads.  They share the   *)
(* shipments table and HubEE.  HubEE is reached over HTTP: a call may be   *)
(* lost, refused, executed with its answer lost, or executed after the     *)
(* client gave up on it; the Ruby code only sees a success, an HTTP error  *)
(* or a HubEE::Api::Error.                                                 *)
(***************************************************************************)
EXTENDS Integers, FiniteSets

CONSTANTS
  Requests,    (* The POST requests; a retry by the user is another one.   *)
  References,  (* The values of Shipment#reference.                        *)
  Folders,     (* The folder ids that HubEE may assign.                    *)
  NFiles,      (* Attachments of a folder: FormulaireQF.json, .xml, .pdf.  *)
  None         (* nil                                                      *)

ASSUME NFilesAssumption == NFiles \in Nat \ {0}
ASSUME NoneAssumption == None \notin Requests \cup References \cup Folders

VARIABLES
  pc,          (* where each request stands in the chain of interactors    *)
  outcome,     (* the page the request ends with, set when it can only     *)
               (* end that way                                             *)
  reference,   (* context.shipment.reference                               *)
  folder,      (* context.folder.id                                        *)
  sent,        (* number of attachments whose upload was acknowledged      *)
  openFiles,   (* temporary files opened and not closed                    *)
  net,         (* HTTP calls to HubEE that HubEE has not dealt with yet    *)
  reply,       (* the answer to the call the request is waiting for        *)
  hub,         (* HubEE's folders                                          *)
  shipments,   (* the rows of the shipments table                          *)
  withdrawn,   (* history: did HubEE confirm the rollback's deletion?      *)
  commitLost   (* history: requests told that a committed INSERT failed    *)

local == <<reference, folder, sent, openFiles>>
history == <<withdrawn, commitLost>>
vars == <<pc, outcome, local, net, reply, hub, shipments, history>>

-----------------------------------------------------------------------------
(* HubEE's side.                                                           *)

FolderStates == {"absent", "created", "complete", "deleted"}

HubEEFolder == [state   : FolderStates,
                owner   : Requests \cup {None},  \* who asked for it (ghost)
                uploads : SUBSET (1..NFiles)]

NoFolder == [state |-> "absent", owner |-> None, uploads |-> {}]

(* Where a request waits for HubEE; a call is named by the wait it causes. *)
Waiting == {"creating", "uploading", "marking", "deleting"}

(* A call under way. file is the attachment's rank for an upload, else 0.  *)
Call == [req : Requests, op : Waiting, folder : Folders \cup {None}, file : 0..NFiles]

(* What the request sees of a call: nothing yet, a 2xx (with the folder's  *)
(* id when it was a creation), a 2xx without the ids enhance_folder looks  *)
(* up, or any other HTTP status.                                           *)
Reply == [status : {"none", "success", "incomplete", "error"},
          folder : Folders \cup {None}]

NoReply == [status |-> "none", folder |-> None]
Failure == [status |-> "error", folder |-> None]

Row == [reference : References, folder : Folders, request : Requests]

Ended == {"done", "crashed"}

(* Only the connection a request waits on can bring it an answer: the      *)
(* answer to a call it gave up on is dropped with its connection.          *)
Awaited(c) == pc[c.req] = c.op /\ reply[c.req] = NoReply

Answer(c, r) ==
  reply' = IF Awaited(c) THEN [reply EXCEPT ![c.req] = r] ELSE reply

-----------------------------------------------------------------------------
Init ==
  /\ pc = [r \in Requests |-> "prepare"]
  /\ outcome = [r \in Requests |-> "none"]
  /\ reference = [r \in Requests |-> None]
  /\ folder = [r \in Requests |-> None]
  /\ sent = [r \in Requests |-> 0]
  /\ openFiles = [r \in Requests |-> 0]
  /\ net = {}
  /\ reply = [r \in Requests |-> NoReply]
  /\ hub = [f \in Folders |-> NoFolder]
  /\ shipments = {}
  /\ withdrawn = [r \in Requests |-> "not_asked"]
  /\ commitLost = {}

Goto(r, from, to) == pc[r] = from /\ pc' = [pc EXCEPT ![r] = to]

CloseFiles(r) == openFiles' = [openFiles EXCEPT ![r] = 0]

(* The request ends with page p: a redirection to the shipment's page, a   *)
(* redirection to the error page, or the exception's 500 page.             *)
Finish(r, p) == outcome' = [outcome EXCEPT ![r] = p]

(* HTTP call: the request blocks until an answer or an exception. *)
Send(r, op, file) ==
  /\ pc' = [pc EXCEPT ![r] = op]
  /\ net' = net \cup {[req |-> r, op |-> op, folder |-> folder[r], file |-> file]}
  /\ reply' = [reply EXCEPT ![r] = NoReply]

Answered(r, status) == reply[r].status = status

-----------------------------------------------------------------------------
(* The chain of interactors of one request.                                *)

(* Shipment.new picks a reference no row has; nothing reserves it.         *)
PrepareQuotientFamilialHubEEFolder(r) ==
  /\ Goto(r, "prepare", "attach")
  /\ \E ref \in References :
       /\ \A s \in shipments : s.reference # ref
       /\ reference' = [reference EXCEPT ![r] = ref]
  /\ UNCHANGED <<outcome, folder, sent, openFiles, net, reply, hub, shipments, history>>

(* The quotient familial lacks what ShipmentData converts, or the query    *)
(* for the reference loses the database.  Nothing was called before.       *)
PrepareFolderRaises(r) ==
  /\ Goto(r, "prepare", "done")
  /\ Finish(r, "server_error")
  /\ UNCHANGED <<local, net, reply, hub, shipments, history>>

(* Mutant: the loop opens one file too many. *)
PrepareAttachmentOffByOne(r) ==
  /\ pc[r] = "attach"
  /\ openFiles' = [openFiles EXCEPT ![r] = @ + 1]
  /\ pc' = [pc EXCEPT ![r] = IF openFiles[r] = NFiles THEN "create" ELSE "attach"]
  /\ UNCHANGED <<outcome, reference, folder, sent, net, reply, hub, shipments, history>>

(* One turn of PrepareAttachments' loop: Tempfile.create, write, rewind.   *)
PrepareAttachment(r) ==
  /\ pc[r] = "attach"
  /\ openFiles' = [openFiles EXCEPT ![r] = @ + 1]
  /\ pc' = [pc EXCEPT ![r] = IF openFiles[r] + 1 = NFiles THEN "create" ELSE "attach"]
  /\ UNCHANGED <<outcome, reference, folder, sent, net, reply, hub, shipments, history>>

(* Tempfile.create or attachment.write raises (no space, a character the   *)
(* PDF font lacks).  PrepareAttachments was not called to its end: it is   *)
(* not rolled back and the files stay open.                                *)
PrepareAttachmentRaises(r) ==
  /\ Goto(r, "attach", "done")
  /\ \E opened \in {0, 1} : openFiles' = [openFiles EXCEPT ![r] = @ + opened]
  /\ Finish(r, "server_error")
  /\ UNCHANGED <<reference, folder, sent, net, reply, hub, shipments, history>>

(* CreateFolder with the token request that precedes the session's first   *)
(* call: the creation is sent.                                             *)
CreateFolder(r) ==
  /\ pc[r] = "create"
  /\ Send(r, "creating", 0)
  /\ UNCHANGED <<outcome, local, hub, shipments, history>>

(* Mutant: PrepareAttachments has no rollback. *)
FailWithFilesOpen(r, page) ==
  /\ pc' = [pc EXCEPT ![r] = "done"]
  /\ Finish(r, page)
  /\ UNCHANGED <<local, net, reply, hub, shipments, history>>

(* Failure before a folder is known: only PrepareAttachments has been      *)
(* called, its rollback closes the files.                                  *)
FailWithoutFolder(r, page) ==
  /\ pc' = [pc EXCEPT ![r] = "done"]
  /\ CloseFiles(r)
  /\ Finish(r, page)
  /\ UNCHANGED <<reference, folder, sent, net, reply, hub, shipments, history>>

(* The token endpoint refuses or is unreachable: HubEE::Api::Error; or its *)
(* 2xx is not the JSON that is read for the token: NoMethodError.          *)
RequestAuthTokenFails(r) ==
  /\ pc[r] = "create"
  /\ \E page \in {"error_page", "server_error"} : FailWithoutFolder(r, page)

FolderCreated(r) ==
  /\ Goto(r, "creating", "upload")
  /\ Answered(r, "success")
  /\ folder' = [folder EXCEPT ![r] = reply[r].folder]
  /\ UNCHANGED <<outcome, reference, sent, openFiles, net, reply, hub, shipments, history>>

(* An HTTP error fails the context; a network error or a timeout raises    *)
(* HubEE::Api::Error, which UploadQuotientFamilialToHubEE turns into a     *)
(* failure, even when HubEE has created the folder or still will; a 2xx    *)
(* that names another file or case makes enhance_folder raise              *)
(* NoMethodError.  CreateFolder itself is not rolled back.                 *)
CreateFolderFails(r) ==
  /\ pc[r] = "creating"
  /\ \/ (Answered(r, "error") \/ Answered(r, "none")) /\ FailWithoutFolder(r, "error_page")
     \/ Answered(r, "incomplete") /\ FailWithoutFolder(r, "server_error")

(* UploadAttachments stops at the first attachment that is not accepted. *)
UploadAttachment(r) ==
  /\ pc[r] = "upload"
  /\ Send(r, "uploading", sent[r] + 1)
  /\ UNCHANGED <<outcome, local, hub, shipments, history>>

(* Mutant: the HTTP status of an upload is not looked at. *)
AttachmentSent(r) ==
  /\ pc[r] = "uploading"
  /\ ~ Answered(r, "none")
  /\ sent' = [sent EXCEPT ![r] = @ + 1]
  /\ pc' = [pc EXCEPT ![r] = IF sent[r] + 1 = NFiles THEN "mark" ELSE "upload"]
  /\ UNCHANGED <<outcome, reference, folder, openFiles, net, reply, hub, shipments, history>>

AttachmentUploaded(r) ==
  /\ pc[r] = "uploading"
  /\ Answered(r, "success")
  /\ sent' = [sent EXCEPT ![r] = @ + 1]
  /\ pc' = [pc EXCEPT ![r] = IF sent[r] + 1 = NFiles THEN "mark" ELSE "upload"]
  /\ UNCHANGED <<outcome, reference, folder, openFiles, net, reply, hub, shipments, history>>

MarkFolderComplete(r) ==
  /\ pc[r] = "mark"
  /\ Send(r, "marking", 0)
  /\ UNCHANGED <<outcome, local, hub, shipments, history>>

(* Mutant: the HTTP status of the completion is not looked at. *)
FolderMarkedOrNot(r) ==
  /\ Goto(r, "marking", "clean")
  /\ ~ Answered(r, "none")
  /\ UNCHANGED <<outcome, local, net, reply, hub, shipments, history>>

FolderMarked(r) ==
  /\ Goto(r, "marking", "clean")
  /\ Answered(r, "success")
  /\ UNCHANGED <<outcome, local, net, reply, hub, shipments, history>>

(* Mutant: CreateFolder has no rollback. *)
SkipRollback(r, page) ==
  /\ pc' = [pc EXCEPT ![r] = "done"]
  /\ Finish(r, page)

(* From here a failure first runs CreateFolder's rollback; the page is     *)
(* already settled.                                                        *)
StartRollback(r, page) ==
  /\ pc' = [pc EXCEPT ![r] = "rollback"]
  /\ Finish(r, page)

(* Mutant: no time-out, only an HTTP error is noticed. *)
UploadOrMarkRefused(r) ==
  /\ pc[r] \in {"uploading", "marking"}
  /\ Answered(r, "error")
  /\ StartRollback(r, "error_page")
  /\ UNCHANGED <<local, net, reply, hub, shipments, history>>

(* fail! on an HTTP error, HubEE::Api::Error when no answer came.          *)
UploadOrMarkFails(r) ==
  /\ pc[r] \in {"uploading", "marking"}
  /\ Answered(r, "error") \/ Answered(r, "none")
  /\ StartRollback(r, "error_page")
  /\ UNCHANGED <<local, net, reply, hub, shipments, history>>

CleanAttachments(r) ==
  /\ Goto(r, "clean", "save")
  /\ CloseFiles(r)
  /\ UNCHANGED <<outcome, reference, folder, sent, net, reply, hub, shipments, history>>

(* CreateShipment: save first runs the uniqueness validation ...           *)
ReferenceTaken(r) == \E s \in shipments : s.reference = reference[r]

ValidateShipment(r) ==
  /\ pc[r] = "save"
  /\ IF ReferenceTaken(r)
     THEN StartRollback(r, "error_page")
     ELSE pc' = [pc EXCEPT ![r] = "insert"] /\ UNCHANGED outcome
  /\ UNCHANGED <<local, net, reply, hub, shipments, history>>

(* ... and then inserts, with the unique index on reference behind it.     *)
NewRow(r) == [reference |-> reference[r], folder |-> folder[r], request |-> r]

(* Mutant: no unique index on the reference. *)
InsertWithoutIndex(r) ==
  /\ Goto(r, "insert", "done")
  /\ shipments' = shipments \cup {NewRow(r)}
  /\ Finish(r, "shipment_page")
  /\ UNCHANGED <<local, net, reply, hub, history>>

InsertShipment(r) ==
  /\ Goto(r, "insert", "done")
  /\ ~ ReferenceTaken(r)
  /\ shipments' = shipments \cup {NewRow(r)}
  /\ Finish(r, "shipment_page")
  /\ UNCHANGED <<local, net, reply, hub, history>>

(* Mutant: the exception is swallowed and the chain goes on. *)
SaveShipmentSwallows(r) ==
  /\ pc[r] \in {"save", "insert"}
  /\ pc' = [pc EXCEPT ![r] = "done"]
  /\ Finish(r, "shipment_page")
  /\ UNCHANGED <<local, net, reply, hub, shipments, history>>

(* The statement raises: ActiveRecord::RecordNotUnique, or a lost database *)
(* (in "save", by the validation's query).                                 *)
SaveShipmentRaises(r) ==
  /\ pc[r] \in {"save", "insert"}
  /\ StartRollback(r, "server_error")
  /\ UNCHANGED <<local, net, reply, hub, shipments, history>>

(* The database commits and its acknowledgement is lost: the code sees an  *)
(* exception and rolls back the folder of a row that exists.               *)
CommitAcknowledgementLost(r) ==
  /\ pc[r] = "insert"
  /\ ~ ReferenceTaken(r)
  /\ shipments' = shipments \cup {NewRow(r)}
  /\ commitLost' = commitLost \cup {r}
  /\ StartRollback(r, "server_error")
  /\ UNCHANGED <<local, net, reply, hub, withdrawn>>

(* CreateFolder#rollback: any answer and any HubEE::Api::Error is accepted *)
(* and PrepareAttachments#rollback follows.                                *)
DeleteFolder(r) ==
  /\ pc[r] = "rollback"
  /\ Send(r, "deleting", 0)
  /\ withdrawn' = [withdrawn EXCEPT ![r] = "unconfirmed"]
  /\ UNCHANGED <<outcome, local, hub, shipments, commitLost>>

EndRollback(r) ==
  /\ Goto(r, "deleting", "done")
  /\ withdrawn' = [withdrawn EXCEPT ![r] =
                     IF Answered(r, "success") THEN "confirmed" ELSE "unconfirmed"]
  /\ CloseFiles(r)
  /\ UNCHANGED <<outcome, reference, folder, sent, net, reply, hub, shipments, commitLost>>

(* The puma process is killed (deployment, memory): no rollback runs and   *)
(* the system closes the files.                                            *)
Crash(r) ==
  /\ pc[r] \notin Ended
  /\ pc' = [pc EXCEPT ![r] = "crashed"]
  /\ CloseFiles(r)
  /\ UNCHANGED <<outcome, reference, folder, sent, net, reply, hub, shipments, history>>

(* ... perhaps between the commit of the row and the page: the parent is   *)
(* told nothing of a row that exists.                                      *)
CrashAfterCommit(r) ==
  /\ Goto(r, "insert", "crashed")
  /\ ~ ReferenceTaken(r)
  /\ shipments' = shipments \cup {NewRow(r)}
  /\ UNCHANGED <<outcome, local, net, reply, hub, history>>

-----------------------------------------------------------------------------
(* HubEE deals with the calls it received, in any order and at any time.   *)
(* Net::HTTP repeats a DELETE that got no answer: as one DELETE that may   *)
(* be executed and answered by an error.  The repetition of an upload's    *)
(* PUT has no body left to send (body_stream is read): nothing is stored.  *)

Received(c) == c \in net /\ net' = net \ {c}

(* POST folders, answered by a 2xx or by a gateway that lost the answer.   *)
HubEECreatesFolder(c) ==
  /\ Received(c)
  /\ c.op = "creating"
  /\ \E f \in Folders :
       /\ hub[f].state = "absent"
       /\ hub' = [hub EXCEPT ![f] = [state |-> "created", owner |-> c.req, uploads |-> {}]]
       /\ \E status \in {"success", "incomplete", "error"} :
            Answer(c, [status |-> status, folder |-> f])
  /\ UNCHANGED <<pc, outcome, local, shipments, history>>

(* PUT attachments, PATCH HUBEE_COMPLETED and DELETE folders/:id set a     *)
(* folder that is in one of the given states to the given value.           *)
HubEEUpdatesFolder(c, op, states, value) ==
  /\ Received(c)
  /\ c.op = op
  /\ hub[c.folder].state \in states
  /\ hub' = [hub EXCEPT ![c.folder] = value]
  /\ \E status \in {"success", "error"} :
       Answer(c, [status |-> status, folder |-> None])
  /\ UNCHANGED <<pc, outcome, local, shipments, history>>

HubEEStoresAttachment(c) ==
  HubEEUpdatesFolder(c, "uploading", {"created"},
    [hub[c.folder] EXCEPT !.uploads = @ \cup {c.file}])

HubEECompletesFolder(c) ==
  HubEEUpdatesFolder(c, "marking", {"created"},
    [hub[c.folder] EXCEPT !.state = "complete"])

HubEEDeletesFolder(c) ==
  HubEEUpdatesFolder(c, "deleting", {"created", "complete"},
    [hub[c.folder] EXCEPT !.state = "deleted"])

(* A 4xx or a 5xx without effect. *)
HubEERefuses(c) ==
  /\ Received(c)
  /\ Answer(c, Failure)
  /\ UNCHANGED <<pc, outcome, local, hub, shipments, history>>

(* The call never reaches HubEE: the request will time out. *)
CallIsLost(c) ==
  /\ Received(c)
  /\ UNCHANGED <<pc, outcome, local, reply, hub, shipments, history>>

-----------------------------------------------------------------------------
Proceed(r) ==
  \/ PrepareQuotientFamilialHubEEFolder(r)
  \/ PrepareFolderRaises(r)
  \/ PrepareAttachment(r)
  \/ PrepareAttachmentRaises(r)
  \/ CreateFolder(r)
  \/ RequestAuthTokenFails(r)
  \/ FolderCreated(r)
  \/ CreateFolderFails(r)
  \/ UploadAttachment(r)
  \/ AttachmentUploaded(r)
  \/ MarkFolderComplete(r)
  \/ FolderMarked(r)
  \/ UploadOrMarkFails(r)
  \/ CleanAttachments(r)
  \/ ValidateShipment(r)
  \/ InsertShipment(r)
  \/ SaveShipmentRaises(r)
  \/ CommitAcknowledgementLost(r)
  \/ DeleteFolder(r)
  \/ EndRollback(r)

HubEEStep(c) ==
  \/ HubEECreatesFolder(c)
  \/ HubEEStoresAttachment(c)
  \/ HubEECompletesFolder(c)
  \/ HubEEDeletesFolder(c)
  \/ HubEERefuses(c)
  \/ CallIsLost(c)

(* Nothing is left to do. *)
AllEnded == (\A r \in Requests : pc[r] \in Ended) /\ net = {} /\ UNCHANGED vars

Next == \/ \E r \in Requests : Proceed(r) \/ Crash(r) \/ CrashAfterCommit(r)
        \/ \E c \in net : HubEEStep(c)
        \/ AllEnded

Spec == Init /\ [][Next]_vars

(* Ruby runs the request and Net::HTTP gives up on a silent server after   *)
(* its read timeout; nothing is asked of HubEE.                            *)
FairSpec == Spec /\ \A r \in Requests : WF_vars(Proceed(r))

-----------------------------------------------------------------------------
(* Properties.                                                             *)

(* Type invariant of the state a request keeps in its interactor context,  *)
(* of HubEE's folders and of the shipments table.                          *)
TypeOK ==
  /\ pc \in [Requests -> {"prepare", "attach", "create", "upload", "mark", "clean",
                          "save", "insert", "rollback"} \cup Waiting \cup Ended]
  /\ outcome \in [Requests -> {"none", "shipment_page", "error_page", "server_error"}]
  /\ reference \in [Requests -> References \cup {None}]
  /\ folder \in [Requests -> Folders \cup {None}]
  /\ sent \in [Requests -> 0..NFiles]
  /\ openFiles \in [Requests -> 0..NFiles]
  /\ net \subseteq Call
  /\ reply \in [Requests -> Reply]
  /\ hub \in [Folders -> HubEEFolder]
  /\ shipments \subseteq Row
  /\ withdrawn \in [Requests -> {"not_asked", "unconfirmed", "confirmed"}]
  /\ commitLost \subseteq Requests

(* A Shipment row leads the parent to a folder the collectivity can read:  *)
(* whatever calls are still under way, the folder of a row was created by  *)
(* the request that saved it, is complete and is never deleted by a late   *)
(* call or by another request's rollback.  The one exception is the row    *)
(* whose commit was acknowledged by an exception.                          *)
ShipmentIsBacked ==
  \A s \in shipments :
    /\ hub[s.folder].owner = s.request
    /\ s.request \notin commitLost => hub[s.folder].state = "complete"

(* HubEE shows agents a folder once it is marked complete: by then it      *)
(* holds every attachment, although an upload may have been lost, refused  *)
(* or executed after the request gave up on it.                            *)
CompleteFolderIsFull ==
  \A f \in Folders : hub[f].state = "complete" => hub[f].uploads = 1..NFiles

(* Two rows never share their reference (requests choose references that   *)
(* nothing reserves) nor their folder.                                     *)
ShipmentsAreDistinct ==
  \A s, t \in shipments : s # t => s.reference # t.reference /\ s.folder # t.folder

(* The page tells the parent the truth: the shipment page has its row to   *)
(* show, the error page (which invites to try again) means that no row was *)
(* saved, and so does a 500 unless the commit's acknowledgement was lost.  *)
RowOf(r) == \E s \in shipments : s.request = r

PageIsTrue ==
  \A r \in Requests :
    /\ outcome[r] = "shipment_page" => NewRow(r) \in shipments
    /\ outcome[r] = "error_page" => ~ RowOf(r)
    /\ outcome[r] = "server_error" => (RowOf(r) => r \in commitLost)

(* A folder left on HubEE by a request that ended without a row has one of *)
(* three explanations: the process died, the answer to the creation was    *)
(* lost (the folder is then still incomplete), or the rollback's deletion  *)
(* was not confirmed.  A rollback that HubEE confirms leaves nothing.      *)
LeftoverIsExplained ==
  \A f \in Folders :
    LET r == hub[f].owner IN
    /\ hub[f].state \in {"created", "complete"}
    /\ pc[r] \in Ended
    /\ ~ RowOf(r)
    => \/ pc[r] = "crashed"
       \/ hub[f].state = "created" /\ folder[r] = None
       \/ withdrawn[r] = "unconfirmed"

(* Once its attachments are prepared, a request ends with its temporary    *)
(* files closed, whichever interactor fails.                               *)
FilesAreClosedAtTheEnd ==
  [][\A r \in Requests :
       pc[r] \notin Ended \cup {"attach"} /\ pc'[r] \in Ended => openFiles'[r] = 0]_vars

(* What the parent and the collectivity see of a request implements        *)
(* ShipmentDelivery: the row, and with it the page if there is one, comes  *)
(* to a folder agents can see; a failure is final, although calls of the   *)
(* request may still be under way; only a failed request's folder goes.    *)
Visibility(r) ==
  LET own == {hub[f].state : f \in {g \in Folders : hub[g].owner = r}} IN
  CASE "complete" \in own -> "visible"
    [] "deleted" \in own -> "withdrawn"
    [] OTHER -> "hidden"

Told(r) ==
  CASE outcome[r] = "none" -> "nothing"
    [] outcome[r] = "shipment_page" -> "sent"
    [] OTHER -> "failed"

Delivery == INSTANCE ShipmentDelivery WITH
  folder <- [r \in Requests |-> Visibility(r)],
  told <- [r \in Requests |-> Told(r)],
  saved <- {r \in Requests : RowOf(r)}

ImplementsDelivery == Delivery!Spec

(* The parent gets a page whatever HubEE does: each request ends, by its   *)
(* own steps and time-outs alone.                                          *)
EveryRequestEnds == \A r \in Requests : <>(pc[r] \in Ended)
=============================================================================
