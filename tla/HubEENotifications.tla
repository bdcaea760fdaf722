------------------------- MODULE HubEENotifications -------------------------
(***************************************************************************)
(* The follow-up of sent folders.                                          *)
(*                                                                         *)
(* A collectivity's information system (SI) updates the status of a case   *)
(* on HubEE, which emits an event and queues a notification.  Every four   *)
(* hours a ReadHubEENotificationsJob reads the first notifications of the  *)
(* queue and runs ProcessHubEENotification on each: it copies the event's  *)
(* status to the Shipment, closes the case and the folder and anonymises   *)
(* the Shipment when the status is final, acknowledges the event and       *)
(* deletes the notification.  The queue is shared with other processCodes  *)
(* whose notifications must stay in it.                                    *)
(*                                                                         *)
(* A job that meets HubEE::Api::Error is retried from its start, up to     *)
(* MaxAttempts executions; any other exception ends it.  Nothing prevents  *)
(* two jobs (a retry and the next one of the cron) from running at once.   *)
(***************************************************************************)
EXTENDS Integers, Sequences, FiniteSets, SequencesExt

CONSTANTS
  Cases,       (* the cases of FormulaireQF folders                        *)
  Foreign,     (* the notifications of other processCodes                  *)
  Jobs,        (* the executions of the job that may overlap               *)
  SIStatuses,  (* the statuses the collectivities' SI set                  *)
  ItemsCount,  (* notifications read by one job, 100 in the code           *)
  MaxAttempts, (* executions of a job, 8 in the code                       *)
  MayRefuse,   (* may HubEE answer a call by an HTTP error?                *)
  MaxLate,     (* bound on the calls HubEE still has when a job gave up    *)
  None

(* HubEE::Event::FINAL_STATUSES and PROCESSABLE_EVENTS; any other status   *)
(* (HUBEE_NOTIFIED...) is not processable.                                 *)
FinalStatuses == {"done", "refused"}
Processable == {"sent", "si_received", "in_progress"} \cup FinalStatuses

ASSUME BoundsAssumption ==
  /\ ItemsCount \in Nat \ {0}
  /\ MaxAttempts \in Nat \ {0}
  /\ MaxLate \in Nat
ASSUME RefusalAssumption == MayRefuse \in BOOLEAN
ASSUME StatusesAssumption == SIStatuses \subseteq Processable \cup {"hubee_notified"}
ASSUME NoneAssumption ==
  /\ None \notin Cases \cup Foreign
  /\ None \notin Processable \cup {"pending", "opened", "deposited", "hubee_notified"}
ASSUME ForeignAssumption == Cases \cap Foreign = {}

VARIABLES
  queue,     (* HubEE's queue of notifications, the oldest first           *)
  siStatus,  (* the status of each case on HubEE, None before it exists    *)
  received,  (* notifications whose event is RECEIVED instead of SENT      *)
  closed,    (* what HubEE has closed of each case                         *)
  late,      (* calls a job gave up on, that HubEE may still execute       *)
  row,       (* the Shipment of each case                                  *)
  pc,        (* where each job stands                                      *)
  attempts,  (* executions of each job                                     *)
  batch,     (* the notifications it still has to process                  *)
  full,      (* did it read ItemsCount notifications?                      *)
  memo,      (* @shipment: the row's status when it was loaded, or None    *)
  asked,     (* history: the closing calls HubEE answered, per case        *)
  unread,    (* history: notifications whose event could not be read       *)
  rowless    (* history: notifications processed while no row matched      *)

hubee == <<queue, siStatus, received, closed, late>>
job == <<attempts, batch, full, memo>>
history == <<asked, unread, rowless>>
vars == <<hubee, row, pc, job, history>>

(* of is the case, or the foreign notification itself. status is the       *)
(* event's caseNewStatus, None for a notification without a status update. *)
Notification ==
  [type : {"foreign", "new_folder", "attach_deposit", "status_update"},
   of : Cases \cup Foreign, status : Processable \cup {"hubee_notified", None}]

NewFolder(c) == [type |-> "new_folder", of |-> c, status |-> None]
AttachDeposit(c) == [type |-> "attach_deposit", of |-> c, status |-> None]
StatusUpdate(c, s) == [type |-> "status_update", of |-> c, status |-> s]
Other(i) == [type |-> "foreign", of |-> i, status |-> None]

(* A call that changes something on HubEE, for a notification.             *)
LateCall == [op : {"case", "event", "folder", "update_event", "delete"}, for : Notification]

FormulaireQF(n) == n.type # "foreign"

(* A queue holds a notification once.                                      *)
Without(q, n) ==
  IF n \in Range(q) THEN RemoveAt(q, CHOOSE i \in DOMAIN q : q[i] = n) ELSE q

(* The order in which a SI moves a case on; the two final statuses exclude *)
(* each other.                                                             *)
Rank(s) == CASE s = "opened" -> 0
             [] s \in {"deposited", "hubee_notified"} -> 1
             [] s = "sent" -> 2
             [] s = "si_received" -> 3
             [] s = "in_progress" -> 4
             [] s \in FinalStatuses -> 5

-----------------------------------------------------------------------------
NoRow == [saved |-> FALSE, status |-> "pending", ids |-> FALSE]

Init ==
  /\ queue = <<>>
  /\ siStatus = [c \in Cases |-> None]
  /\ received = {}
  /\ closed = [c \in Cases |-> {}]
  /\ late = {}
  /\ row = [c \in Cases |-> NoRow]
  /\ pc = [j \in Jobs |-> "idle"]
  /\ attempts = [j \in Jobs |-> 0]
  /\ batch = [j \in Jobs |-> <<>>]
  /\ full = [j \in Jobs |-> FALSE]
  /\ memo = [j \in Jobs |-> None]
  /\ asked = [c \in Cases |-> {}]
  /\ unread = {}
  /\ rowless = {}

-----------------------------------------------------------------------------
(* The world around the jobs.                                              *)

(* HubEESending: the folder is complete on HubEE ...                       *)
FolderCompleted(c) ==
  /\ siStatus[c] = None
  /\ siStatus' = [siStatus EXCEPT ![c] = "opened"]
  /\ queue' = Append(queue, NewFolder(c))
  /\ UNCHANGED <<received, closed, late, row, pc, job, history>>

(* ... and CreateShipment saves the row some time after.                   *)
CreateShipment(c) ==
  /\ siStatus[c] # None
  /\ ~ row[c].saved
  /\ row' = [row EXCEPT ![c] = [saved |-> TRUE, status |-> "pending", ids |-> TRUE]]
  /\ UNCHANGED <<hubee, pc, job, history>>

(* The collectivity moves the case on (that its software never goes back   *)
(* is an assumption about it, which nothing in the code checks) ...        *)
SIUpdatesCase(c) ==
  /\ siStatus[c] # None
  /\ \E s \in SIStatuses :
       /\ Rank(siStatus[c]) < Rank(s)
       /\ siStatus' = [siStatus EXCEPT ![c] = s]
       /\ queue' = Append(queue, StatusUpdate(c, s))
  /\ UNCHANGED <<received, closed, late, row, pc, job, history>>

(* ... or deposits an attachment, here once and before it.                 *)
SIDepositsAttachment(c) ==
  /\ siStatus[c] = "opened"
  /\ siStatus' = [siStatus EXCEPT ![c] = "deposited"]
  /\ queue' = Append(queue, AttachDeposit(c))
  /\ UNCHANGED <<received, closed, late, row, pc, job, history>>

(* Another processCode gets a notification, or its consumer takes it.      *)
ForeignArrives(i) ==
  /\ Other(i) \notin Range(queue)
  /\ queue' = Append(queue, Other(i))
  /\ UNCHANGED <<siStatus, received, closed, late, row, pc, job, history>>

ForeignIsConsumed(i) ==
  /\ Other(i) \in Range(queue)
  /\ queue' = Without(queue, Other(i))
  /\ UNCHANGED <<siStatus, received, closed, late, row, pc, job, history>>

-----------------------------------------------------------------------------
(* ReadHubEENotificationsJob.                                              *)

Goto(j, to) == pc' = [pc EXCEPT ![j] = to]

Current(j) == Head(batch[j])

(* An execution starts or ends: nothing is left of its local state. *)
Restart(j, to, n) ==
  /\ Goto(j, to)
  /\ attempts' = [attempts EXCEPT ![j] = n]
  /\ batch' = [batch EXCEPT ![j] = <<>>]
  /\ full' = [full EXCEPT ![j] = FALSE]
  /\ memo' = [memo EXCEPT ![j] = None]

(* The cron enqueues the job. *)
Enqueue(j) ==
  /\ pc[j] = "idle"
  /\ Restart(j, "fetch", 1)
  /\ UNCHANGED <<hubee, row, history>>

(* On to the batch's next notification, with a new interactor. *)
Skip(j) ==
  /\ Goto(j, "next")
  /\ batch' = [batch EXCEPT ![j] = Tail(@)]
  /\ memo' = [memo EXCEPT ![j] = None]
  /\ UNCHANGED <<attempts, full>>

(* Mutant: one execution too many. *)
RetryOffByOne(j) ==
  IF attempts[j] <= MaxAttempts
  THEN Restart(j, "fetch", attempts[j] + 1)
  ELSE Restart(j, "idle", 0)

(* retry_on HubEE::Api::Error: the job starts again from the fetch, or     *)
(* fails for good after its last attempt.                                  *)
Retry(j) ==
  IF attempts[j] < MaxAttempts
  THEN Restart(j, "fetch", attempts[j] + 1)
  ELSE Restart(j, "idle", 0)

(* Mutant: a network error is rescued in the loop over the notifications. *)
ContinueWithNext(j, answered, to) ==
  IF answered THEN Goto(j, to) /\ UNCHANGED job ELSE Skip(j)

(* Mutant: the notification is deleted by an ensure instead of an after. *)
ContinueEnsuring(j, answered, to) ==
  Goto(j, IF answered THEN to ELSE "delete") /\ UNCHANGED job

(* After a HubEE call: the HTTP status is not looked at, only a network    *)
(* error interrupts.                                                       *)
Continue(j, answered, to) ==
  IF answered THEN Goto(j, to) /\ UNCHANGED job ELSE Retry(j)

FetchNotifications(j) ==
  /\ pc[j] = "fetch"
  /\ LET count == IF Len(queue) < ItemsCount THEN Len(queue) ELSE ItemsCount
     IN batch' = [batch EXCEPT ![j] = SubSeq(queue, 1, count)]
  /\ full' = [full EXCEPT ![j] = Len(queue) >= ItemsCount]
  /\ Goto(j, "next")
  /\ UNCHANGED <<hubee, row, attempts, memo, history>>

FetchRaises(j) ==
  /\ pc[j] = "fetch"
  /\ Retry(j)
  /\ UNCHANGED <<hubee, row, history>>

(* An exception that is not HubEE::Api::Error ends the job: the answer of a *)
(* call, or of the token each session begins with, is not what is read     *)
(* (unparsed JSON, an error instead of a list, garbled compression); the   *)
(* database is lost.                                                       *)
Dies(j) ==
  /\ pc[j] # "idle"
  /\ Restart(j, "idle", 0)
  /\ UNCHANGED <<hubee, row, history>>

(* The process running the job is killed: GoodJob runs the job again.      *)
Interrupted(j) ==
  /\ pc[j] \notin {"idle", "fetch"}
  /\ Restart(j, "fetch", attempts[j])
  /\ UNCHANGED <<hubee, row, history>>

(* Mutant: the after hook does not look at the processCode. *)
ProcessAnyNotification(j) ==
  /\ pc[j] = "next"
  /\ batch[j] # <<>>
  /\ Goto(j, IF Current(j).type = "status_update" THEN "event" ELSE "delete")
  /\ UNCHANGED <<hubee, row, job, history>>

(* Mutant: a new folder is skipped without the after hook. *)
ProcessExistingFolder(j) ==
  /\ pc[j] = "next"
  /\ batch[j] # <<>>
  /\ IF FormulaireQF(Current(j)) /\ Current(j).type # "new_folder"
     THEN Goto(j, "event") /\ UNCHANGED job
     ELSE Skip(j)
  /\ UNCHANGED <<hubee, row, history>>

(* ProcessHubEENotification of the batch's next notification: a foreign    *)
(* one is left where it is.                                                *)
ProcessNotification(j) ==
  /\ pc[j] = "next"
  /\ batch[j] # <<>>
  /\ IF FormulaireQF(Current(j))
     THEN /\ Goto(j, IF Current(j).type = "new_folder" THEN "delete" ELSE "event")
          /\ UNCHANGED job
     ELSE Skip(j)
  /\ UNCHANGED <<hubee, row, history>>

(* A full batch enqueues another job at once, in this one's slot.          *)
EndOfBatch(j) ==
  /\ pc[j] = "next"
  /\ batch[j] = <<>>
  /\ IF full[j] THEN Restart(j, "fetch", 1) ELSE Restart(j, "idle", 0)
  /\ UNCHANGED <<hubee, row, history>>

-----------------------------------------------------------------------------
(* ProcessHubEENotification, from the event on.                            *)

Final(n) == n.status \in FinalStatuses

(* The event is ignored unless it is a status update still SENT. *)
ReadEvent(j, answered) ==
  LET n == Current(j) IN
  /\ pc[j] = "event"
  /\ Continue(j, answered,
       IF n.type # "status_update" \/ n \in received THEN "delete"
       ELSE IF n.status \in Processable THEN "load"
       ELSE "update_event")
  /\ UNCHANGED <<hubee, row, history>>

(* An HTTP error has a body with errors, or one that is not a SENT event:  *)
(* the notification is ignored, thus deleted.                              *)
ReadEventRefused(j) ==
  /\ MayRefuse
  /\ pc[j] = "event"
  /\ Goto(j, "delete")
  /\ unread' = unread \cup {Current(j)}
  /\ UNCHANGED <<hubee, row, job, asked, rowless>>

(* Mutant: the row is found without its hubee_case_id. *)
LoadAnyShipment(j) ==
  LET n == Current(j)
      found == row[n.of].saved IN
  /\ pc[j] = "load"
  /\ memo' = [memo EXCEPT ![j] = IF found THEN row[n.of].status ELSE None]
  /\ rowless' = IF found THEN rowless ELSE rowless \cup {n}
  /\ Goto(j, IF found THEN "write" ELSE IF Final(n) THEN "close_case" ELSE "update_event")
  /\ UNCHANGED <<hubee, row, attempts, batch, full, asked, unread>>

(* update_shipment_status, first half: Shipment.find_by(hubee_case_id). *)
LoadShipment(j) ==
  LET n == Current(j)
      found == row[n.of].ids IN
  /\ pc[j] = "load"
  /\ memo' = [memo EXCEPT ![j] = IF found THEN row[n.of].status ELSE None]
  /\ rowless' = IF found THEN rowless ELSE rowless \cup {n}
  /\ Goto(j, IF found THEN "write" ELSE IF Final(n) THEN "close_case" ELSE "update_event")
  /\ UNCHANGED <<hubee, row, attempts, batch, full, asked, unread>>

(* Second half: update! writes the attribute if it differs from the value  *)
(* that was loaded.                                                        *)
WriteShipmentStatus(j) ==
  LET n == Current(j) IN
  /\ pc[j] = "write"
  /\ row' = IF memo[j] = n.status THEN row ELSE [row EXCEPT ![n.of].status = n.status]
  /\ Goto(j, IF Final(n) THEN "close_case" ELSE "update_event")
  /\ UNCHANGED <<hubee, job, history>>

(* A call without an answer may still be under way when the job starts    *)
(* again, even when it has died meanwhile.                                *)
GiveUp(j, op, executed, answered) ==
  \/ UNCHANGED late
  \/ /\ ~ executed /\ ~ answered
     /\ Cardinality(late) < MaxLate
     /\ late' = late \cup {[op |-> op, for |-> Current(j)]}

(* close_folder: three calls; each may be executed or not, answered or not. *)
Closing(j, from, part, executed, answered, to) ==
  LET c == Current(j).of IN
  /\ pc[j] = from
  /\ closed' = IF executed THEN [closed EXCEPT ![c] = @ \cup {part}] ELSE closed
  /\ asked' = IF answered THEN [asked EXCEPT ![c] = @ \cup {part}] ELSE asked
  /\ Continue(j, answered, to)
  /\ GiveUp(j, part, executed, answered)
  /\ UNCHANGED <<queue, siStatus, received, row, unread, rowless>>

CloseCase(j, executed, answered) ==
  Closing(j, "close_case", "case", executed, answered, "create_event")

(* Mutant: the folder is not closed. *)
CreateClosedEventOnly(j, executed, answered) ==
  Closing(j, "create_event", "event", executed, answered,
          IF memo[j] = None THEN "update_event" ELSE "anonymize")

(* Without a row there is no folder id to close and nothing to anonymise.  *)
CreateClosedEvent(j, executed, answered) ==
  Closing(j, "create_event", "event", executed, answered,
          IF memo[j] = None THEN "update_event" ELSE "close_folder")

(* Mutant: the Shipment keeps its ids. *)
CloseFolderOnly(j, executed, answered) ==
  Closing(j, "close_folder", "folder", executed, answered, "update_event")

CloseFolder(j, executed, answered) ==
  Closing(j, "close_folder", "folder", executed, answered, "anonymize")

AnonymizeShipment(j) ==
  /\ pc[j] = "anonymize"
  /\ row' = [row EXCEPT ![Current(j).of].ids = FALSE]
  /\ Goto(j, "update_event")
  /\ UNCHANGED <<hubee, job, history>>

(* The event becomes RECEIVED. *)
UpdateEvent(j, executed, answered) ==
  /\ pc[j] = "update_event"
  /\ received' = IF executed THEN received \cup {Current(j)} ELSE received
  /\ Continue(j, answered, "delete")
  /\ GiveUp(j, "update_event", executed, answered)
  /\ UNCHANGED <<queue, siStatus, closed, row, history>>

(* The after hook. *)
DeleteNotification(j, executed, answered) ==
  /\ pc[j] = "delete"
  /\ queue' = IF executed THEN Without(queue, Current(j)) ELSE queue
  /\ IF answered THEN Skip(j) ELSE Retry(j)
  /\ GiveUp(j, "delete", executed, answered)
  /\ UNCHANGED <<siStatus, received, closed, row, history>>

(* HubEE executes a call nobody waits for any more.                        *)
HubEEIsLate(call) ==
  /\ call \in late
  /\ late' = late \ {call}
  /\ closed' = IF call.op \in {"case", "event", "folder"}
               THEN [closed EXCEPT ![call.for.of] = @ \cup {call.op}] ELSE closed
  /\ received' = IF call.op = "update_event" THEN received \cup {call.for} ELSE received
  /\ queue' = IF call.op = "delete" THEN Without(queue, call.for) ELSE queue
  /\ UNCHANGED <<siStatus, row, pc, job, history>>

-----------------------------------------------------------------------------
World ==
  \/ \E call \in late : HubEEIsLate(call)
  \/ \E c \in Cases : \/ FolderCompleted(c)
                      \/ CreateShipment(c)
                      \/ SIUpdatesCase(c)
                      \/ SIDepositsAttachment(c)
  \/ \E i \in Foreign : ForeignArrives(i) \/ ForeignIsConsumed(i)

(* A job's steps when HubEE does and answers what it is asked ...          *)
Works(j) ==
  \/ FetchNotifications(j)
  \/ ProcessNotification(j)
  \/ EndOfBatch(j)
  \/ ReadEvent(j, TRUE)
  \/ LoadShipment(j)
  \/ WriteShipmentStatus(j)
  \/ CloseCase(j, TRUE, TRUE)
  \/ CreateClosedEvent(j, TRUE, TRUE)
  \/ CloseFolder(j, TRUE, TRUE)
  \/ AnonymizeShipment(j)
  \/ UpdateEvent(j, TRUE, TRUE)
  \/ DeleteNotification(j, TRUE, TRUE)

(* ... and when it does not.                                               *)
Fails(j) ==
  \/ FetchRaises(j)
  \/ ReadEvent(j, FALSE)
  \/ ReadEventRefused(j)
  \/ \E executed \in BOOLEAN, answered \in BOOLEAN :
       /\ ~ (executed /\ answered)
       /\ answered => MayRefuse
       /\ \/ CloseCase(j, executed, answered)
          \/ CreateClosedEvent(j, executed, answered)
          \/ CloseFolder(j, executed, answered)
          \/ UpdateEvent(j, executed, answered)
          \/ DeleteNotification(j, executed, answered)
  \/ Dies(j)
  \/ Interrupted(j)

Next == World \/ \E j \in Jobs : Enqueue(j) \/ Works(j) \/ Fails(j)

Spec == Init /\ [][Next]_vars

(* The cron goes on, the jobs run, and every outage of HubEE, of the       *)
(* database or of the servers comes to an end; how long one lasts and how  *)
(* many jobs it exhausts is left open. (A failure that changes what a      *)
(* regular step changes, as dying at the very end does, may go on: ruling  *)
(* it out would rule out that step, which fairness demands.)               *)
FairSpec ==
  /\ Spec
  /\ \A j \in Jobs : WF_vars(Enqueue(j)) /\ WF_vars(Works(j))
  /\ <>[][\A j \in Jobs : Fails(j) => Works(j)]_vars

-----------------------------------------------------------------------------
(* Properties.                                                             *)

(* Type invariant of HubEE's queue and cases, of the rows and of the jobs. *)
TypeOK ==
  /\ queue \in Seq(Notification)
  /\ siStatus \in [Cases -> Processable \cup {None, "opened", "deposited", "hubee_notified"}]
  /\ received \subseteq Notification
  /\ closed \in [Cases -> SUBSET {"case", "event", "folder"}]
  /\ late \subseteq LateCall
  /\ row \in [Cases -> [saved : BOOLEAN, status : Processable \cup {"pending"}, ids : BOOLEAN]]
  /\ pc \in [Jobs -> {"idle", "fetch", "next", "event", "load", "write", "close_case",
                      "create_event", "close_folder", "anonymize", "update_event", "delete"}]
  /\ attempts \in [Jobs -> 0..MaxAttempts]
  /\ batch \in [Jobs -> Seq(Notification)]
  /\ full \in [Jobs -> BOOLEAN]
  /\ memo \in [Jobs -> Processable \cup {"pending", None}]
  /\ asked \in [Cases -> SUBSET {"case", "event", "folder"}]
  /\ unread \subseteq Notification
  /\ rowless \subseteq Notification

(* The queue is shared by every processCode: a notification of another one *)
(* only leaves it through its own consumer, whatever the jobs do.          *)
ForeignStays ==
  [][\A i \in Foreign :
       Other(i) \in Range(queue) /\ Other(i) \notin Range(queue') => ForeignIsConsumed(i)]_vars

(* A Shipment loses its HubEE ids, without which its folder can no longer  *)
(* be closed, only after the three closing calls were answered.            *)
IdsOutliveClosing ==
  \A c \in Cases :
    row[c].saved /\ ~ row[c].ids => asked[c] = {"case", "event", "folder"}

(* A final update leaves the queue only once the Shipment is anonymised,   *)
(* whatever failed and was retried meanwhile, unless HubEE refused to show *)
(* the event or no row matched the case.                                   *)
FinalIsAnonymised ==
  \A c \in Cases, s \in FinalStatuses :
    LET n == StatusUpdate(c, s) IN
    /\ siStatus[c] = s
    /\ n \notin Range(queue) \cup unread \cup rowless
    => row[c].saved /\ ~ row[c].ids

(* A row without ids is over: one job at a time never writes it again.     *)
AnonymisedIsFrozen ==
  [][\A c \in Cases : row[c].saved /\ ~ row[c].ids => row'[c] = row[c]]_vars

(* The SI's last word on a case reaches the Shipment before its            *)
(* notification leaves the queue.                                          *)
LastUpdateIsApplied ==
  \A c \in Cases :
    LET n == StatusUpdate(c, siStatus[c]) IN
    /\ siStatus[c] \in Processable
    /\ n \notin Range(queue) \cup unread \cup rowless
    => row[c].status = siStatus[c]

(* A final status is never replaced, through every retry and replay.       *)
FinalStatusIsStable ==
  [][\A c \in Cases :
       row[c].status \in FinalStatuses => row'[c].status = row[c].status]_vars

(* One job at a time and a HubEE that answers or is silent, a Shipment     *)
(* lives as ShipmentLifecycle says: it only goes up, through statuses its  *)
(* case has had, and is anonymised last, with the final status, once all   *)
(* three closing calls were answered.                                      *)
Lifecycle == INSTANCE ShipmentLifecycle WITH
  finished <- {c \in Cases : asked[c] = {"case", "event", "folder"}}

ImplementsLifecycle == Lifecycle!Spec

(* Every notification of FormulaireQF is handled and leaves the queue, as  *)
(* long as fewer than ItemsCount foreign ones can stand before it.         *)
OwnNotificationsAreHandled ==
  \A c \in Cases :
    \A n \in {NewFolder(c), AttachDeposit(c)} \cup {StatusUpdate(c, s) : s \in SIStatuses} :
      []<>(n \notin Range(queue))
=============================================================================
