------------------------ MODULE HubEESending_proofs -------------------------
(***************************************************************************)
(* Proofs about HubEESending, for every set of requests, references and    *)
(* folders and every number of attachments.                                *)
(***************************************************************************)
EXTENDS HubEESending, TLAPS

(* Where a request has no call under way. *)
Calm == {"prepare", "attach", "create", "upload", "mark", "clean", "save", "insert"}

(* The counters stay within the number of attachments. *)
CounterInv ==
  \A r \in Requests :
    /\ pc[r] = "prepare" => openFiles[r] = 0
    /\ pc[r] = "attach" => openFiles[r] < NFiles
    /\ pc[r] \in {"prepare", "attach", "create", "creating"} => sent[r] = 0
    /\ pc[r] \in {"upload", "uploading"} => sent[r] < NFiles
    /\ pc[r] \in {"save", "insert"} => openFiles[r] = 0

(* A folder is nobody's until HubEE creates it. *)
HubInv == \A f \in Folders : hub[f].state = "absent" => hub[f].owner = None

(* The call a request waits for, when it waits for one whose success makes *)
(* it go on: there is no other call of its own under way.                  *)
TheCall(r) ==
  [req |-> r, op |-> pc[r], folder |-> folder[r],
   file |-> IF pc[r] = "uploading" THEN sent[r] + 1 ELSE 0]

NetInv ==
  \A c \in net :
    /\ pc[c.req] \notin Calm
    /\ outcome[c.req] # "shipment_page"
    /\ pc[c.req] \in {"creating", "uploading", "marking"} =>
         c = TheCall(c.req) /\ reply[c.req] = NoReply
    /\ c.op # "creating" => c.folder \in Folders /\ hub[c.folder].owner = c.req
    /\ c.op = "marking" => hub[c.folder].uploads = 1..NFiles
    /\ c.op = "uploading" => c.file \in 1..NFiles
    /\ c.op = "deleting" => outcome[c.req] # "none"

(* What a request may rely on about its folder, where it stands. *)
FolderIs(f, r, states, uploads) ==
  /\ f \in Folders
  /\ hub[f].owner = r
  /\ hub[f].state \in states
  /\ uploads \subseteq hub[f].uploads

ProgressInv ==
  \A r \in Requests :
    /\ pc[r] = "creating" /\ Answered(r, "success") =>
         FolderIs(reply[r].folder, r, {"created"}, {})
    /\ pc[r] \in {"upload", "uploading"} =>
         FolderIs(folder[r], r, {"created"}, 1..sent[r])
    /\ pc[r] = "uploading" /\ Answered(r, "success") =>
         sent[r] + 1 \in hub[folder[r]].uploads
    /\ pc[r] = "mark" => FolderIs(folder[r], r, {"created"}, 1..NFiles)
    /\ pc[r] = "marking" => FolderIs(folder[r], r, {"created", "complete"}, 1..NFiles)
    /\ pc[r] = "marking" /\ Answered(r, "success") => hub[folder[r]].state = "complete"
    /\ pc[r] \in {"clean", "save", "insert"} =>
         FolderIs(folder[r], r, {"complete"}, 1..NFiles)
    /\ pc[r] \in {"rollback", "deleting"} =>
         folder[r] \in Folders /\ hub[folder[r]].owner = r /\ outcome[r] # "none"
    /\ pc[r] \notin {"prepare", "crashed", "done"} => reference[r] \in References
    /\ pc[r] \in Calm \cup {"creating", "uploading", "marking"} => outcome[r] = "none"

(* A row mirrors the request that saved it, which is over or rolls back. *)
RowInv ==
  /\ \A s \in shipments :
       /\ s.reference = reference[s.request]
       /\ s.folder = folder[s.request]
       /\ hub[s.folder].owner = s.request
       /\ IF s.request \in commitLost
          THEN /\ pc[s.request] \in {"rollback", "deleting"} \cup Ended
               /\ outcome[s.request] = "server_error"
          ELSE /\ \/ pc[s.request] = "done" /\ outcome[s.request] = "shipment_page"
                  \/ pc[s.request] = "crashed" /\ outcome[s.request] = "none"
               /\ hub[s.folder].state = "complete"
  /\ \A r \in Requests : outcome[r] = "shipment_page" => pc[r] = "done" /\ NewRow(r) \in shipments
  /\ \A r \in commitLost : pc[r] \in {"rollback", "deleting"} \cup Ended

Inv == /\ TypeOK
       /\ CounterInv
       /\ HubInv
       /\ NetInv
       /\ ProgressInv
       /\ RowInv
       /\ CompleteFolderIsFull
       /\ ShipmentsAreDistinct


-----------------------------------------------------------------------------
USE NFilesAssumption, NoneAssumption
USE DEF Waiting, Ended, Calm, Goto, Finish, CloseFiles, Answered, NoReply, Failure,
       local, history

(* The initial states: nothing is created, sent or saved.                  *)
LEMMA InitInv == Init => Inv
BY DEF Init, Inv, TypeOK, CounterInv, HubInv, NetInv, ProgressInv, RowInv,
       CompleteFolderIsFull, ShipmentsAreDistinct, NoFolder, HubEEFolder, FolderStates, Reply

LEMMA StutterInv == Inv /\ UNCHANGED vars => Inv'
BY DEF Inv, TypeOK, CounterInv, HubInv, NetInv, ProgressInv, RowInv, FolderIs, TheCall,
       CompleteFolderIsFull, ShipmentsAreDistinct, NewRow, vars

(* Before the folder exists a request only touches its own context. *)
LEMMA PrepareQuotientFamilialHubEEFolderInv == ASSUME Inv, NEW r \in Requests, PrepareQuotientFamilialHubEEFolder(r) PROVE Inv'
BY DEF PrepareQuotientFamilialHubEEFolder, Inv, TypeOK, CounterInv, HubInv, NetInv,
       ProgressInv, RowInv, FolderIs, TheCall, CompleteFolderIsFull,
       ShipmentsAreDistinct, Call, Row, Reply, NewRow, FailWithoutFolder, Send,
       StartRollback


LEMMA PrepareFolderRaisesInv == ASSUME Inv, NEW r \in Requests, PrepareFolderRaises(r) PROVE Inv'
BY DEF PrepareFolderRaises, Inv, TypeOK, CounterInv, HubInv, NetInv, ProgressInv, RowInv,
       FolderIs, TheCall, CompleteFolderIsFull, ShipmentsAreDistinct, Call, Row, Reply, NewRow


LEMMA PrepareAttachmentInv == ASSUME Inv, NEW r \in Requests, PrepareAttachment(r) PROVE Inv'
<1>1. TypeOK'
  BY DEF Inv, TypeOK, PrepareAttachment, CounterInv
<1>2. CounterInv'
  BY DEF Inv, TypeOK, PrepareAttachment, CounterInv
<1>3. HubInv'
  BY DEF Inv, TypeOK, PrepareAttachment, HubInv
<1>4. NetInv'
  BY DEF Inv, TypeOK, PrepareAttachment, NetInv, TheCall, Call
<1>5. ProgressInv'
  <2>1. CASE openFiles[r] + 1 = NFiles
    BY <2>1 DEF Inv, TypeOK, PrepareAttachment, ProgressInv, FolderIs
  <2>2. CASE openFiles[r] + 1 # NFiles
    BY <2>2 DEF Inv, TypeOK, PrepareAttachment, ProgressInv, FolderIs
  <2> QED BY <2>1, <2>2
<1>6. RowInv'
  BY DEF Inv, TypeOK, PrepareAttachment, RowInv, ProgressInv, NewRow, Row
<1>7. CompleteFolderIsFull'
  BY DEF Inv, TypeOK, PrepareAttachment, CompleteFolderIsFull
<1>8. ShipmentsAreDistinct'
  BY DEF Inv, TypeOK, PrepareAttachment, ShipmentsAreDistinct
<1> QED BY <1>1, <1>2, <1>3, <1>4, <1>5, <1>6, <1>7, <1>8 DEF Inv


LEMMA PrepareAttachmentRaisesInv == ASSUME Inv, NEW r \in Requests, PrepareAttachmentRaises(r) PROVE Inv'
BY DEF PrepareAttachmentRaises, Inv, TypeOK, CounterInv, HubInv, NetInv, ProgressInv,
       RowInv, FolderIs, TheCall, CompleteFolderIsFull, ShipmentsAreDistinct, Call, Row,
       Reply, NewRow, FailWithoutFolder, Send, StartRollback


LEMMA CreateFolderInv == ASSUME Inv, NEW r \in Requests, CreateFolder(r) PROVE Inv'
BY DEF CreateFolder, Inv, TypeOK, CounterInv, HubInv, NetInv, ProgressInv, RowInv,
       FolderIs, TheCall, CompleteFolderIsFull, ShipmentsAreDistinct, Call, Row, Reply,
       NewRow, FailWithoutFolder, Send, StartRollback

(* Both ways to fail without a folder end the request and nothing else.    *)
LEMMA FailWithoutFolderInv ==
  ASSUME Inv, NEW r \in Requests, NEW page \in {"error_page", "server_error"},
         pc[r] \in {"create", "creating"}, FailWithoutFolder(r, page)
  PROVE  Inv'

<1>1. TypeOK'
  BY DEF Inv, TypeOK, FailWithoutFolder
<1>2. CounterInv'
  BY DEF Inv, TypeOK, FailWithoutFolder, CounterInv
<1>3. HubInv'
  BY DEF Inv, TypeOK, FailWithoutFolder, HubInv
<1>4. NetInv'
  BY DEF Inv, TypeOK, FailWithoutFolder, NetInv, TheCall, Call
<1>5. ProgressInv'
  BY DEF Inv, TypeOK, FailWithoutFolder, ProgressInv, CounterInv, FolderIs
<1>6. RowInv'
  BY DEF Inv, TypeOK, FailWithoutFolder, RowInv, ProgressInv, NewRow, Row
<1>7. CompleteFolderIsFull'
  BY DEF Inv, TypeOK, FailWithoutFolder, CompleteFolderIsFull
<1>8. ShipmentsAreDistinct'
  BY DEF Inv, TypeOK, FailWithoutFolder, ShipmentsAreDistinct
<1> QED BY <1>1, <1>2, <1>3, <1>4, <1>5, <1>6, <1>7, <1>8 DEF Inv

LEMMA RequestAuthTokenFailsInv == ASSUME Inv, NEW r \in Requests, RequestAuthTokenFails(r) PROVE Inv'
BY FailWithoutFolderInv DEF RequestAuthTokenFails

LEMMA CreateFolderFailsInv == ASSUME Inv, NEW r \in Requests, CreateFolderFails(r) PROVE Inv'
<1> PICK page \in {"error_page", "server_error"} : FailWithoutFolder(r, page)
  BY DEF CreateFolderFails
<1> QED BY FailWithoutFolderInv DEF CreateFolderFails

(* The id in a successful answer is that of a fresh folder of this request. *)
LEMMA FolderCreatedInv == ASSUME Inv, NEW r \in Requests, FolderCreated(r) PROVE Inv'
BY DEF FolderCreated, Inv, TypeOK, CounterInv, HubInv, NetInv, ProgressInv, RowInv,
       FolderIs, TheCall, CompleteFolderIsFull, ShipmentsAreDistinct, Call, Row, Reply,
       NewRow, FailWithoutFolder, Send, StartRollback


LEMMA UploadAttachmentInv == ASSUME Inv, NEW r \in Requests, UploadAttachment(r) PROVE Inv'
BY DEF UploadAttachment, Inv, TypeOK, CounterInv, HubInv, NetInv, ProgressInv, RowInv,
       FolderIs, TheCall, CompleteFolderIsFull, ShipmentsAreDistinct, Call, Row, Reply,
       NewRow, FailWithoutFolder, Send, StartRollback

(* The n-th acknowledgement means that HubEE holds attachments 1..n.        *)
LEMMA AttachmentUploadedInv == ASSUME Inv, NEW r \in Requests, AttachmentUploaded(r) PROVE Inv'
<1>1. TypeOK'
  BY DEF Inv, TypeOK, AttachmentUploaded, CounterInv
<1>2. CounterInv'
  BY DEF Inv, TypeOK, AttachmentUploaded, CounterInv
<1>3. HubInv'
  BY DEF Inv, TypeOK, AttachmentUploaded, HubInv
<1>4. NetInv'
  BY DEF Inv, TypeOK, AttachmentUploaded, NetInv, TheCall, Call
<1>5. ProgressInv'
  <2>1. FolderIs(folder[r], r, {"created"}, 1..sent[r] + 1)
    BY DEF Inv, TypeOK, AttachmentUploaded, ProgressInv, CounterInv, FolderIs, HubEEFolder
  <2>2. CASE sent[r] + 1 = NFiles
    BY <2>1, <2>2 DEF Inv, TypeOK, AttachmentUploaded, ProgressInv, FolderIs
  <2>3. CASE sent[r] + 1 # NFiles
    BY <2>1, <2>3 DEF Inv, TypeOK, AttachmentUploaded, ProgressInv, FolderIs
  <2> QED BY <2>2, <2>3
<1>6. RowInv'
  BY DEF Inv, TypeOK, AttachmentUploaded, RowInv, ProgressInv, NewRow, Row
<1>7. CompleteFolderIsFull'
  BY DEF Inv, TypeOK, AttachmentUploaded, CompleteFolderIsFull
<1>8. ShipmentsAreDistinct'
  BY DEF Inv, TypeOK, AttachmentUploaded, ShipmentsAreDistinct
<1> QED BY <1>1, <1>2, <1>3, <1>4, <1>5, <1>6, <1>7, <1>8 DEF Inv

(* The completion is only asked for a folder that is full.                  *)
LEMMA MarkFolderCompleteInv == ASSUME Inv, NEW r \in Requests, MarkFolderComplete(r) PROVE Inv'
<1>1. TypeOK'
  BY DEF Inv, TypeOK, MarkFolderComplete, Call, Reply, Send
<1>2. CounterInv'
  BY DEF Inv, TypeOK, MarkFolderComplete, CounterInv, Send
<1>3. HubInv'
  BY DEF Inv, TypeOK, MarkFolderComplete, HubInv, Send
<1>4. NetInv'
  <2>1. \A c \in net : c.req # r
    BY DEF Inv, NetInv, MarkFolderComplete
  <2>2. folder[r] \in Folders /\ hub[folder[r]].owner = r /\ hub[folder[r]].uploads = 1..NFiles
    <3>1. FolderIs(folder[r], r, {"created"}, 1..NFiles)
      BY DEF Inv, MarkFolderComplete, ProgressInv
    <3>2. \A f \in Folders : hub[f].uploads \subseteq 1..NFiles
      BY DEF Inv, TypeOK, HubEEFolder
    <3> QED BY <3>1, <3>2 DEF FolderIs
  <2>3. SUFFICES ASSUME NEW c \in net' PROVE NetInv!(c)'
    BY DEF NetInv
  <2>4. CASE c \in net
    BY <2>1, <2>4 DEF Inv, TypeOK, NetInv, MarkFolderComplete, Send, TheCall, Call
  <2>5. CASE c \notin net
    BY <2>2, <2>5 DEF Inv, TypeOK, MarkFolderComplete, Send, TheCall, ProgressInv
  <2> QED BY <2>4, <2>5
<1>5. ProgressInv'
  BY DEF Inv, TypeOK, MarkFolderComplete, ProgressInv, CounterInv, FolderIs, Send
<1>6. RowInv'
  BY DEF Inv, TypeOK, MarkFolderComplete, RowInv, ProgressInv, NewRow, Row, Send
<1>7. CompleteFolderIsFull'
  BY DEF Inv, TypeOK, MarkFolderComplete, CompleteFolderIsFull, Send
<1>8. ShipmentsAreDistinct'
  BY DEF Inv, TypeOK, MarkFolderComplete, ShipmentsAreDistinct, Send
<1> QED BY <1>1, <1>2, <1>3, <1>4, <1>5, <1>6, <1>7, <1>8 DEF Inv


LEMMA FolderMarkedInv == ASSUME Inv, NEW r \in Requests, FolderMarked(r) PROVE Inv'
BY DEF FolderMarked, Inv, TypeOK, CounterInv, HubInv, NetInv, ProgressInv, RowInv,
       FolderIs, TheCall, CompleteFolderIsFull, ShipmentsAreDistinct, Call, Row, Reply,
       NewRow, FailWithoutFolder, Send, StartRollback


LEMMA UploadOrMarkFailsInv == ASSUME Inv, NEW r \in Requests, UploadOrMarkFails(r) PROVE Inv'
BY DEF UploadOrMarkFails, Inv, TypeOK, CounterInv, HubInv, NetInv, ProgressInv, RowInv,
       FolderIs, TheCall, CompleteFolderIsFull, ShipmentsAreDistinct, Call, Row, Reply,
       NewRow, FailWithoutFolder, Send, StartRollback


LEMMA CleanAttachmentsInv == ASSUME Inv, NEW r \in Requests, CleanAttachments(r) PROVE Inv'
BY DEF CleanAttachments, Inv, TypeOK, CounterInv, HubInv, NetInv, ProgressInv, RowInv,
       FolderIs, TheCall, CompleteFolderIsFull, ShipmentsAreDistinct, Call, Row, Reply,
       NewRow, FailWithoutFolder, Send, StartRollback

(* The validation reads the table; the row comes later.                     *)
LEMMA ValidateShipmentInv == ASSUME Inv, NEW r \in Requests, ValidateShipment(r) PROVE Inv'
<1>1. TypeOK'
  <2>1. CASE ReferenceTaken(r)
    BY <2>1 DEF Inv, TypeOK, ValidateShipment, StartRollback
  <2>2. CASE ~ ReferenceTaken(r)
    BY <2>2 DEF Inv, TypeOK, ValidateShipment
  <2> QED BY <2>1, <2>2
<1>2. CounterInv'
  BY DEF Inv, TypeOK, ValidateShipment, CounterInv, StartRollback
<1>3. HubInv'
  BY DEF Inv, TypeOK, ValidateShipment, HubInv, StartRollback
<1>4. NetInv'
  BY DEF Inv, TypeOK, ValidateShipment, NetInv, TheCall, Call, StartRollback
<1>5. ProgressInv'
  BY DEF Inv, TypeOK, ValidateShipment, ProgressInv, CounterInv, FolderIs, StartRollback
<1>6. RowInv'
  <2>1. CASE ReferenceTaken(r)
    BY <2>1 DEF Inv, TypeOK, ValidateShipment, StartRollback, RowInv, NewRow, Row
  <2>2. CASE ~ ReferenceTaken(r)
    BY <2>2 DEF Inv, TypeOK, ValidateShipment, RowInv, NewRow, Row
  <2> QED BY <2>1, <2>2
<1>7. CompleteFolderIsFull'
  BY DEF Inv, TypeOK, ValidateShipment, CompleteFolderIsFull, StartRollback
<1>8. ShipmentsAreDistinct'
  BY DEF Inv, TypeOK, ValidateShipment, ShipmentsAreDistinct, StartRollback
<1> QED BY <1>1, <1>2, <1>3, <1>4, <1>5, <1>6, <1>7, <1>8 DEF Inv

(* What is known of a request about to insert: its folder is complete and  *)
(* it has no row yet.                                                      *)
LEMMA InsertReady ==
  ASSUME Inv, NEW r \in Requests, pc[r] = "insert"
  PROVE  /\ NewRow(r) \in Row
         /\ FolderIs(folder[r], r, {"complete"}, 1..NFiles)
         /\ r \notin commitLost
         /\ \A s \in shipments : s.request # r
BY DEF Inv, TypeOK, ProgressInv, RowInv, FolderIs, NewRow, Row

(* The new row mirrors its request; the index keeps references distinct.    *)
LEMMA InsertShipmentInv == ASSUME Inv, NEW r \in Requests, InsertShipment(r) PROVE Inv'
<1>1. TypeOK'
  BY InsertReady DEF Inv, TypeOK, InsertShipment
<1>2. CounterInv'
  BY DEF Inv, TypeOK, InsertShipment, CounterInv
<1>3. HubInv'
  BY DEF Inv, TypeOK, InsertShipment, HubInv
<1>4. NetInv'
  BY DEF Inv, TypeOK, InsertShipment, NetInv, TheCall, Call
<1>5. ProgressInv'
  BY DEF Inv, TypeOK, InsertShipment, ProgressInv, CounterInv, FolderIs
<1>6. RowInv'
  <2>1. ASSUME NEW s \in shipments' PROVE RowInv!1!(s)'
    <3>1. CASE s \in shipments
      BY <3>1, InsertReady DEF Inv, TypeOK, Row, RowInv, InsertShipment
    <3>2. CASE s = NewRow(r)
      BY <3>2, InsertReady DEF Inv, TypeOK, InsertShipment, NewRow, FolderIs
    <3> QED BY <3>1, <3>2 DEF InsertShipment
  <2>2. ASSUME NEW q \in Requests PROVE RowInv!2!(q)'
    BY DEF Inv, TypeOK, RowInv, InsertShipment, NewRow
  <2>3. ASSUME NEW q \in commitLost' PROVE RowInv!3!(q)'
    BY DEF Inv, TypeOK, RowInv, InsertShipment
  <2> QED BY <2>1, <2>2, <2>3 DEF RowInv
<1>7. CompleteFolderIsFull'
  BY DEF Inv, TypeOK, InsertShipment, CompleteFolderIsFull
<1>8. ShipmentsAreDistinct'
  <2>1. \A s \in shipments : s.reference # reference[r] /\ s.folder # folder[r]
    BY InsertReady DEF Inv, TypeOK, RowInv, Row, FolderIs, InsertShipment, ReferenceTaken
  <2> QED BY <2>1 DEF Inv, ShipmentsAreDistinct, InsertShipment, NewRow
<1> QED BY <1>1, <1>2, <1>3, <1>4, <1>5, <1>6, <1>7, <1>8 DEF Inv


LEMMA CommitAcknowledgementLostInv == ASSUME Inv, NEW r \in Requests, CommitAcknowledgementLost(r) PROVE Inv'
<1>1. TypeOK'
  BY InsertReady DEF Inv, TypeOK, CommitAcknowledgementLost, StartRollback
<1>2. CounterInv'
  BY DEF Inv, TypeOK, CommitAcknowledgementLost, CounterInv, StartRollback
<1>3. HubInv'
  BY DEF Inv, TypeOK, CommitAcknowledgementLost, HubInv, StartRollback
<1>4. NetInv'
  BY DEF Inv, TypeOK, CommitAcknowledgementLost, NetInv, TheCall, Call, StartRollback
<1>5. ProgressInv'
  BY DEF Inv, TypeOK, CommitAcknowledgementLost, ProgressInv, CounterInv, FolderIs,
         StartRollback
<1>6. RowInv'
  <2>1. ASSUME NEW s \in shipments' PROVE RowInv!1!(s)'
    <3>1. CASE s \in shipments
      BY <3>1, InsertReady DEF Inv, TypeOK, Row, RowInv, CommitAcknowledgementLost,
             StartRollback
    <3>2. CASE s = NewRow(r)
      BY <3>2, InsertReady DEF Inv, TypeOK, CommitAcknowledgementLost, NewRow, FolderIs,
             StartRollback
    <3> QED BY <3>1, <3>2 DEF CommitAcknowledgementLost
  <2>2. ASSUME NEW q \in Requests PROVE RowInv!2!(q)'
    BY DEF Inv, TypeOK, RowInv, CommitAcknowledgementLost, NewRow, StartRollback
  <2>3. ASSUME NEW q \in commitLost' PROVE RowInv!3!(q)'
    BY DEF Inv, TypeOK, RowInv, CommitAcknowledgementLost, StartRollback
  <2> QED BY <2>1, <2>2, <2>3 DEF RowInv
<1>7. CompleteFolderIsFull'
  BY DEF Inv, TypeOK, CommitAcknowledgementLost, CompleteFolderIsFull, StartRollback
<1>8. ShipmentsAreDistinct'
  <2>1. \A s \in shipments : s.reference # reference[r] /\ s.folder # folder[r]
    BY InsertReady DEF Inv, TypeOK, RowInv, Row, FolderIs, CommitAcknowledgementLost,
           ReferenceTaken
  <2> QED BY <2>1 DEF Inv, ShipmentsAreDistinct, CommitAcknowledgementLost, NewRow
<1> QED BY <1>1, <1>2, <1>3, <1>4, <1>5, <1>6, <1>7, <1>8 DEF Inv


LEMMA SaveShipmentRaisesInv == ASSUME Inv, NEW r \in Requests, SaveShipmentRaises(r) PROVE Inv'
<1>1. TypeOK'
  BY DEF Inv, TypeOK, SaveShipmentRaises, StartRollback
<1>2. CounterInv'
  BY DEF Inv, TypeOK, SaveShipmentRaises, CounterInv, StartRollback
<1>3. HubInv'
  BY DEF Inv, TypeOK, SaveShipmentRaises, HubInv, StartRollback
<1>4. NetInv'
  BY DEF Inv, TypeOK, SaveShipmentRaises, NetInv, TheCall, Call, StartRollback
<1>5. ProgressInv'
  BY DEF Inv, TypeOK, SaveShipmentRaises, ProgressInv, CounterInv, FolderIs, StartRollback
<1>6. RowInv'
  BY DEF Inv, TypeOK, SaveShipmentRaises, RowInv, ProgressInv, NewRow, Row, StartRollback
<1>7. CompleteFolderIsFull'
  BY DEF Inv, TypeOK, SaveShipmentRaises, CompleteFolderIsFull, StartRollback
<1>8. ShipmentsAreDistinct'
  BY DEF Inv, TypeOK, SaveShipmentRaises, ShipmentsAreDistinct, StartRollback
<1> QED BY <1>1, <1>2, <1>3, <1>4, <1>5, <1>6, <1>7, <1>8 DEF Inv

(* The rollback may be under way together with an older, late call.         *)
LEMMA DeleteFolderInv == ASSUME Inv, NEW r \in Requests, DeleteFolder(r) PROVE Inv'
<1>1. TypeOK'
  BY DEF Inv, TypeOK, DeleteFolder, Call, Reply, Send
<1>2. CounterInv'
  BY DEF Inv, TypeOK, DeleteFolder, CounterInv, Send
<1>3. HubInv'
  BY DEF Inv, TypeOK, DeleteFolder, HubInv, Send
<1>4. NetInv'
  <2>1. SUFFICES ASSUME NEW c \in net' PROVE NetInv!(c)'
    BY DEF NetInv
  <2>2. CASE c \in net
    BY <2>2 DEF Inv, TypeOK, NetInv, DeleteFolder, Send, TheCall, Call
  <2>3. CASE c \notin net
    BY <2>3 DEF Inv, TypeOK, NetInv, DeleteFolder, Send, Call, ProgressInv, RowInv
  <2> QED BY <2>2, <2>3
<1>5. ProgressInv'
  BY DEF Inv, TypeOK, DeleteFolder, ProgressInv, CounterInv, FolderIs, Send
<1>6. RowInv'
  BY DEF Inv, TypeOK, DeleteFolder, RowInv, ProgressInv, NewRow, Row, Send
<1>7. CompleteFolderIsFull'
  BY DEF Inv, TypeOK, DeleteFolder, CompleteFolderIsFull, Send
<1>8. ShipmentsAreDistinct'
  BY DEF Inv, TypeOK, DeleteFolder, ShipmentsAreDistinct, Send
<1> QED BY <1>1, <1>2, <1>3, <1>4, <1>5, <1>6, <1>7, <1>8 DEF Inv


LEMMA EndRollbackInv == ASSUME Inv, NEW r \in Requests, EndRollback(r) PROVE Inv'
BY DEF EndRollback, Inv, TypeOK, CounterInv, HubInv, NetInv, ProgressInv, RowInv,
       FolderIs, TheCall, CompleteFolderIsFull, ShipmentsAreDistinct, Call, Row, Reply,
       NewRow, FailWithoutFolder, Send, StartRollback


LEMMA CrashInv == ASSUME Inv, NEW r \in Requests, Crash(r) PROVE Inv'
BY DEF Crash, Inv, TypeOK, CounterInv, HubInv, NetInv, ProgressInv, RowInv, FolderIs,
       TheCall, CompleteFolderIsFull, ShipmentsAreDistinct, Call, Row, Reply, NewRow,
       FailWithoutFolder, Send, StartRollback

(* The row is as true as one that has its page.                            *)
LEMMA CrashAfterCommitInv ==
  ASSUME Inv, NEW r \in Requests, CrashAfterCommit(r)
  PROVE  Inv'
<1>1. TypeOK'
  BY InsertReady DEF Inv, TypeOK, CrashAfterCommit
<1>2. CounterInv'
  BY DEF Inv, TypeOK, CrashAfterCommit, CounterInv
<1>3. HubInv'
  BY DEF Inv, TypeOK, CrashAfterCommit, HubInv
<1>4. NetInv'
  BY DEF Inv, TypeOK, CrashAfterCommit, NetInv, TheCall, Call
<1>5. ProgressInv'
  BY DEF Inv, TypeOK, CrashAfterCommit, ProgressInv, CounterInv, FolderIs
<1>6. RowInv'
  <2>1. ASSUME NEW s \in shipments' PROVE RowInv!1!(s)'
    <3>1. CASE s \in shipments
      BY <3>1, InsertReady DEF Inv, TypeOK, Row, RowInv, CrashAfterCommit
    <3>2. CASE s = NewRow(r)
      <4>1. outcome[r] = "none"
        BY DEF Inv, ProgressInv, CrashAfterCommit
      <4> QED BY <3>2, <4>1, InsertReady DEF Inv, TypeOK, CrashAfterCommit, NewRow, FolderIs
    <3> QED BY <3>1, <3>2 DEF CrashAfterCommit
  <2>2. ASSUME NEW q \in Requests PROVE RowInv!2!(q)'
    BY DEF Inv, TypeOK, RowInv, CrashAfterCommit, NewRow
  <2>3. ASSUME NEW q \in commitLost' PROVE RowInv!3!(q)'
    BY DEF Inv, TypeOK, RowInv, CrashAfterCommit
  <2> QED BY <2>1, <2>2, <2>3 DEF RowInv
<1>7. CompleteFolderIsFull'
  BY DEF Inv, TypeOK, CrashAfterCommit, CompleteFolderIsFull
<1>8. ShipmentsAreDistinct'
  <2>1. \A s \in shipments : s.reference # reference[r] /\ s.folder # folder[r]
    BY InsertReady DEF Inv, TypeOK, RowInv, Row, FolderIs, CrashAfterCommit, ReferenceTaken
  <2> QED BY <2>1 DEF Inv, ShipmentsAreDistinct, CrashAfterCommit, NewRow
<1> QED BY <1>1, <1>2, <1>3, <1>4, <1>5, <1>6, <1>7, <1>8 DEF Inv

-----------------------------------------------------------------------------
(* HubEE's steps.  Creating a folder takes a fresh one, so that nobody     *)
(* relied on it.                                                           *)
LEMMA HubEECreatesFolderInv == ASSUME Inv, NEW c \in net, HubEECreatesFolder(c) PROVE Inv'
BY DEF HubEECreatesFolder, Inv, TypeOK, CounterInv, HubInv, NetInv, ProgressInv, RowInv,
       FolderIs, TheCall, CompleteFolderIsFull, ShipmentsAreDistinct, HubEEFolder,
       FolderStates, Call, Row, Reply, NewRow, Received, Answer, Awaited

(* What the three updates of a folder have in common: they act on a folder *)
(* of the request that sent the call, whose owner they leave and whose     *)
(* attachments they can only add to.                                       *)
LEMMA HubEEUpdatesFolderInv ==
  ASSUME Inv, NEW c \in net, NEW op \in Waiting \ {"creating"}, NEW states, NEW value \in HubEEFolder,
         value.owner = hub[c.folder].owner,
         value.state # "absent",
         hub[c.folder].uploads \subseteq value.uploads,
         HubEEUpdatesFolder(c, op, states, value)
  PROVE  /\ TypeOK' /\ CounterInv' /\ HubInv' /\ NetInv' /\ ShipmentsAreDistinct'
         /\ c \in Call /\ c.folder \in Folders /\ hub[c.folder].owner = c.req
<1>1. c \in Call /\ c.folder \in Folders /\ hub[c.folder].owner = c.req
  BY DEF Inv, TypeOK, NetInv, HubEEUpdatesFolder, Call
<1>2. TypeOK'
  <2>1. hub' \in [Folders -> HubEEFolder]
    BY <1>1 DEF Inv, TypeOK, HubEEUpdatesFolder
  <2>2. reply' \in [Requests -> Reply]
    BY <1>1 DEF Inv, TypeOK, HubEEUpdatesFolder, Answer, Reply, Call
  <2> QED BY <2>1, <2>2 DEF Inv, TypeOK, HubEEUpdatesFolder, Received
<1>3. CounterInv'
  BY DEF Inv, CounterInv, HubEEUpdatesFolder
<1>4. HubInv'
  BY <1>1 DEF Inv, TypeOK, HubInv, HubEEUpdatesFolder
<1>5. NetInv'
  <2>1. SUFFICES ASSUME NEW d \in net' PROVE NetInv!(d)'
    BY DEF NetInv
  <2>2. d \in net /\ d # c /\ d \in Call
    BY DEF Inv, TypeOK, HubEEUpdatesFolder, Received
  <2>3. \A f \in Folders : /\ hub'[f].owner = hub[f].owner
                           /\ hub[f].uploads \subseteq hub'[f].uploads
                           /\ hub'[f].uploads \subseteq 1..NFiles
    BY <1>1 DEF Inv, TypeOK, HubEEUpdatesFolder, HubEEFolder
  <2>4. \A f \in Folders : hub[f].uploads = 1..NFiles => hub'[f].uploads = 1..NFiles
    BY <2>3
  <2>5. pc[d.req] \in {"creating", "uploading", "marking"} => reply'[d.req] = reply[d.req]
    BY <1>1, <2>2 DEF Inv, TypeOK, NetInv, HubEEUpdatesFolder, Answer, Awaited, TheCall,
           Call
  <2> QED
    BY <2>2, <2>3, <2>4, <2>5 DEF Inv, NetInv, HubEEUpdatesFolder, TheCall
<1>6. ShipmentsAreDistinct'
  BY DEF Inv, ShipmentsAreDistinct, HubEEUpdatesFolder
<1> QED BY <1>1, <1>2, <1>3, <1>4, <1>5, <1>6

LEMMA HubEEStoresAttachmentInv == ASSUME Inv, NEW c \in net, HubEEStoresAttachment(c) PROVE Inv'
<1> DEFINE value == [hub[c.folder] EXCEPT !.uploads = @ \cup {c.file}]
<1>1. /\ c \in Call /\ c.folder \in Folders /\ c.op = "uploading" /\ c.req \in Requests
      /\ c.op = "uploading" => c.file \in 1..NFiles
      /\ c.op = "marking" => hub[c.folder].uploads = 1..NFiles
      /\ hub[c.folder].owner = c.req
  BY DEF Inv, TypeOK, NetInv, HubEEStoresAttachment, HubEEUpdatesFolder, Call
<1>2. /\ value \in HubEEFolder
      /\ value.owner = hub[c.folder].owner
      /\ value.state # "absent"
      /\ hub[c.folder].uploads \subseteq value.uploads
  BY <1>1 DEF Inv, TypeOK, HubEEStoresAttachment, HubEEUpdatesFolder, HubEEFolder,
         FolderStates
<1>3. /\ TypeOK' /\ CounterInv' /\ HubInv' /\ NetInv' /\ ShipmentsAreDistinct'
  BY <1>2, HubEEUpdatesFolderInv DEF HubEEStoresAttachment
<1>4. ProgressInv'
  BY <1>1 DEF Inv, TypeOK, NetInv, TheCall, ProgressInv, FolderIs, HubEEStoresAttachment,
         HubEEUpdatesFolder, Received, Answer, Awaited, HubEEFolder
<1>5. RowInv'
  BY <1>1 DEF Inv, TypeOK, NetInv, RowInv, Row, NewRow, HubEEStoresAttachment,
         HubEEUpdatesFolder, HubEEFolder
<1>6. CompleteFolderIsFull'
  BY <1>1 DEF Inv, TypeOK, NetInv, CompleteFolderIsFull, HubEEStoresAttachment,
         HubEEUpdatesFolder, HubEEFolder
<1> QED BY <1>3, <1>4, <1>5, <1>6 DEF Inv

LEMMA HubEECompletesFolderInv == ASSUME Inv, NEW c \in net, HubEECompletesFolder(c) PROVE Inv'
<1> DEFINE value == [hub[c.folder] EXCEPT !.state = "complete"]
<1>1. /\ c \in Call /\ c.folder \in Folders /\ c.op = "marking" /\ c.req \in Requests
      /\ c.op = "uploading" => c.file \in 1..NFiles
      /\ c.op = "marking" => hub[c.folder].uploads = 1..NFiles
      /\ hub[c.folder].owner = c.req
  BY DEF Inv, TypeOK, NetInv, HubEECompletesFolder, HubEEUpdatesFolder, Call
<1>2. /\ value \in HubEEFolder
      /\ value.owner = hub[c.folder].owner
      /\ value.state # "absent"
      /\ hub[c.folder].uploads \subseteq value.uploads
  BY <1>1 DEF Inv, TypeOK, HubEECompletesFolder, HubEEUpdatesFolder, HubEEFolder,
         FolderStates
<1>3. /\ TypeOK' /\ CounterInv' /\ HubInv' /\ NetInv' /\ ShipmentsAreDistinct'
  BY <1>2, HubEEUpdatesFolderInv DEF HubEECompletesFolder
<1>4. ProgressInv'
  BY <1>1 DEF Inv, TypeOK, NetInv, TheCall, ProgressInv, FolderIs, HubEECompletesFolder,
         HubEEUpdatesFolder, Received, Answer, Awaited, HubEEFolder
<1>5. RowInv'
  BY <1>1 DEF Inv, TypeOK, NetInv, RowInv, Row, NewRow, HubEECompletesFolder,
         HubEEUpdatesFolder, HubEEFolder
<1>6. CompleteFolderIsFull'
  BY <1>1 DEF Inv, TypeOK, NetInv, CompleteFolderIsFull, HubEECompletesFolder,
         HubEEUpdatesFolder, HubEEFolder
<1> QED BY <1>3, <1>4, <1>5, <1>6 DEF Inv

LEMMA HubEEDeletesFolderInv == ASSUME Inv, NEW c \in net, HubEEDeletesFolder(c) PROVE Inv'
<1> DEFINE value == [hub[c.folder] EXCEPT !.state = "deleted"]
<1>1. /\ c \in Call /\ c.folder \in Folders /\ c.op = "deleting" /\ c.req \in Requests
      /\ c.op = "uploading" => c.file \in 1..NFiles
      /\ c.op = "marking" => hub[c.folder].uploads = 1..NFiles
      /\ hub[c.folder].owner = c.req
  BY DEF Inv, TypeOK, NetInv, HubEEDeletesFolder, HubEEUpdatesFolder, Call
<1>2. /\ value \in HubEEFolder
      /\ value.owner = hub[c.folder].owner
      /\ value.state # "absent"
      /\ hub[c.folder].uploads \subseteq value.uploads
  BY <1>1 DEF Inv, TypeOK, HubEEDeletesFolder, HubEEUpdatesFolder, HubEEFolder, FolderStates
<1>3. /\ TypeOK' /\ CounterInv' /\ HubInv' /\ NetInv' /\ ShipmentsAreDistinct'
  BY <1>2, HubEEUpdatesFolderInv DEF HubEEDeletesFolder
<1>4. ProgressInv'
  BY <1>1 DEF Inv, TypeOK, NetInv, TheCall, ProgressInv, FolderIs, HubEEDeletesFolder,
         HubEEUpdatesFolder, Received, Answer, Awaited, HubEEFolder
<1>5. RowInv'
  BY <1>1 DEF Inv, TypeOK, NetInv, RowInv, Row, NewRow, HubEEDeletesFolder,
         HubEEUpdatesFolder, HubEEFolder
<1>6. CompleteFolderIsFull'
  BY <1>1 DEF Inv, TypeOK, NetInv, CompleteFolderIsFull, HubEEDeletesFolder,
         HubEEUpdatesFolder, HubEEFolder
<1> QED BY <1>3, <1>4, <1>5, <1>6 DEF Inv

LEMMA HubEERefusesInv == ASSUME Inv, NEW c \in net, HubEERefuses(c) PROVE Inv'
BY DEF HubEERefuses, Inv, TypeOK, CounterInv, HubInv, NetInv, ProgressInv, RowInv,
       FolderIs, TheCall, CompleteFolderIsFull, ShipmentsAreDistinct, Call, Row, Reply,
       NewRow, Received, Answer, Awaited

LEMMA CallIsLostInv == ASSUME Inv, NEW c \in net, CallIsLost(c) PROVE Inv'
BY DEF CallIsLost, Inv, TypeOK, CounterInv, HubInv, NetInv, ProgressInv, RowInv,
       FolderIs, TheCall, CompleteFolderIsFull, ShipmentsAreDistinct, Call, Row, Reply,
       NewRow, Received, Answer, Awaited

-----------------------------------------------------------------------------
LEMMA StepInv == Inv /\ [Next]_vars => Inv'
<1> SUFFICES ASSUME Inv, [Next]_vars PROVE Inv'
  OBVIOUS
<1>1. ASSUME NEW r \in Requests, Proceed(r) PROVE Inv'
  BY <1>1, PrepareQuotientFamilialHubEEFolderInv, PrepareFolderRaisesInv,
     PrepareAttachmentInv, PrepareAttachmentRaisesInv,
     CreateFolderInv, RequestAuthTokenFailsInv, FolderCreatedInv, CreateFolderFailsInv,
     UploadAttachmentInv, AttachmentUploadedInv, MarkFolderCompleteInv, FolderMarkedInv,
     UploadOrMarkFailsInv, CleanAttachmentsInv, ValidateShipmentInv, InsertShipmentInv,
     SaveShipmentRaisesInv, CommitAcknowledgementLostInv, DeleteFolderInv, EndRollbackInv
  DEF Proceed
<1>2. ASSUME NEW c \in net, HubEEStep(c) PROVE Inv'
  BY <1>2, HubEECreatesFolderInv, HubEEStoresAttachmentInv, HubEECompletesFolderInv,
     HubEEDeletesFolderInv, HubEERefusesInv, CallIsLostInv
  DEF HubEEStep
<1> QED BY <1>1, <1>2, CrashInv, CrashAfterCommitInv, StutterInv DEF Next, AllEnded

(* The inductive invariant holds of every behaviour.                       *)
THEOREM Invariance == Spec => []Inv
BY InitInv, StepInv, PTL DEF Spec

(* Type correctness: the requests' contexts, HubEE's folders and the       *)
(* shipments table keep their types.                                       *)
THEOREM TypeCorrectness == Spec => []TypeOK
BY Invariance, PTL DEF Inv

(* A shipment row always refers to a complete folder of its own request,   *)
(* however calls are lost, delayed or repeated and whatever other requests *)
(* roll back, unless the commit of the row was itself reported as failed.  *)
THEOREM ShipmentBacking == Spec => []ShipmentIsBacked
<1>1. Inv => ShipmentIsBacked
  BY DEF Inv, RowInv, ShipmentIsBacked
<1> QED BY <1>1, Invariance, PTL

(* A folder is never complete without all of its attachments.              *)
THEOREM CompleteFolders == Spec => []CompleteFolderIsFull
BY Invariance, PTL DEF Inv

(* Two rows share neither reference nor folder.                            *)
THEOREM DistinctShipments == Spec => []ShipmentsAreDistinct
BY Invariance, PTL DEF Inv

(* The page shown to the parent agrees with the shipments table.           *)
THEOREM TruePages == Spec => []PageIsTrue
<1>1. Inv => PageIsTrue
  BY DEF Inv, TypeOK, RowInv, PageIsTrue, RowOf
<1> QED BY <1>1, Invariance, PTL

(* Whichever interactor fails, a request whose attachments were prepared   *)
(* ends with its temporary files closed.                                   *)
THEOREM ClosedFiles == Spec => FilesAreClosedAtTheEnd
<1> DEFINE Closes == \A r \in Requests :
       pc[r] \notin Ended \cup {"attach"} /\ pc'[r] \in Ended => openFiles'[r] = 0
<1>1. Inv /\ [Next]_vars => [Closes]_vars
  <2> SUFFICES ASSUME Inv, Next, NEW r \in Requests,
                      pc[r] \notin Ended \cup {"attach"}, pc'[r] \in Ended
               PROVE  openFiles'[r] = 0
    OBVIOUS
  <2>1. TypeOK
    BY DEF Inv
  <2>2. ASSUME NEW q \in Requests, Proceed(q), q # r PROVE FALSE
    BY <2>1, <2>2 DEF TypeOK, Proceed, PrepareQuotientFamilialHubEEFolder, PrepareFolderRaises,
           PrepareAttachment, PrepareAttachmentRaises, CreateFolder,
           RequestAuthTokenFails, FolderCreated, CreateFolderFails, FailWithoutFolder,
           UploadAttachment, AttachmentUploaded, MarkFolderComplete, FolderMarked,
           UploadOrMarkFails, StartRollback, CleanAttachments, ValidateShipment,
           InsertShipment, SaveShipmentRaises, CommitAcknowledgementLost, DeleteFolder,
           EndRollback, Send
  <2>3. CASE EndRollback(r) \/ RequestAuthTokenFails(r) \/ CreateFolderFails(r) \/ Crash(r)
             \/ PrepareFolderRaises(r)
    BY <2>1, <2>3 DEF Inv, CounterInv, TypeOK, PrepareFolderRaises, EndRollback, RequestAuthTokenFails, CreateFolderFails,
           FailWithoutFolder, Crash
  <2>4. CASE InsertShipment(r) \/ CrashAfterCommit(r)
    BY <2>1, <2>4 DEF Inv, CounterInv, InsertShipment, CrashAfterCommit
  <2>5. ASSUME Proceed(r), ~ EndRollback(r), ~ RequestAuthTokenFails(r), ~ CreateFolderFails(r), ~ InsertShipment(r),
         ~ PrepareFolderRaises(r)
        PROVE FALSE
    BY <2>1, <2>5 DEF TypeOK, Proceed, PrepareQuotientFamilialHubEEFolder, PrepareFolderRaises,
           PrepareAttachment, PrepareAttachmentRaises, CreateFolder, FolderCreated,
           UploadAttachment, AttachmentUploaded, MarkFolderComplete, FolderMarked,
           UploadOrMarkFails, StartRollback, CleanAttachments, ValidateShipment,
           SaveShipmentRaises, CommitAcknowledgementLost, DeleteFolder, Send
  <2>6. ASSUME NEW q \in Requests, Crash(q) \/ CrashAfterCommit(q), q # r PROVE FALSE
    BY <2>1, <2>6 DEF TypeOK, Crash, CrashAfterCommit
  <2>7. ASSUME NEW c \in net, HubEEStep(c) PROVE FALSE
    BY <2>1, <2>7 DEF TypeOK, HubEEStep, HubEECreatesFolder, HubEEStoresAttachment,
           HubEECompletesFolder, HubEEDeletesFolder, HubEEUpdatesFolder, HubEERefuses,
           CallIsLost
  <2> QED BY <2>2, <2>3, <2>4, <2>5, <2>6, <2>7 DEF Next, AllEnded, vars
<1> QED BY <1>1, Invariance, PTL DEF Spec, FilesAreClosedAtTheEnd
=============================================================================
