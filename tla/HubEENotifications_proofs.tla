---------------------- MODULE HubEENotifications_proofs ----------------------
(***************************************************************************)
(* Proofs about HubEENotifications, for every set of cases, of foreign     *)
(* notifications and of overlapping jobs, and every bound.                 *)
(***************************************************************************)
EXTENDS HubEENotifications, SequenceTheorems, TLAPS

(* The notifications HubEE makes. *)
Known ==
  {n \in Notification :
     /\ IF FormulaireQF(n) THEN n.of \in Cases ELSE n.of \in Foreign
     /\ n.type = "status_update" <=> n.status # None}

Own == {n \in Known : FormulaireQF(n)}

(* Only known notifications travel; jobs only call HubEE for their own. *)
SharedInv ==
  /\ queue \in Seq(Known)
  /\ siStatus \in [Cases -> Processable \cup {None, "opened", "deposited", "hubee_notified"}]
  /\ received \subseteq Own
  /\ closed \in [Cases -> SUBSET {"case", "event", "folder"}]
  /\ late \subseteq [op : {"case", "event", "folder", "update_event", "delete"}, for : Own]
  /\ row \in [Cases -> [saved : BOOLEAN, status : Processable \cup {"pending"}, ids : BOOLEAN]]
  /\ \A c \in Cases : row[c].ids => row[c].saved
  /\ asked \in [Cases -> SUBSET {"case", "event", "folder"}]
  /\ unread \subseteq Own
  /\ rowless \subseteq Own

LocalInv ==
  /\ pc \in [Jobs -> {"idle", "fetch", "next", "event", "load", "write", "close_case",
                      "create_event", "close_folder", "anonymize", "update_event", "delete"}]
  /\ attempts \in [Jobs -> 0..MaxAttempts]
  /\ batch \in [Jobs -> Seq(Known)]
  /\ full \in [Jobs -> BOOLEAN]
  /\ memo \in [Jobs -> Processable \cup {"pending", None}]

Anonymised(c) == row[c].saved /\ ~ row[c].ids

(* What is true of a final update once nobody has to look at it again. *)
Handled(n) == n \in unread \cup rowless \/ Anonymised(n.of)

Closers == {"close_case", "create_event", "close_folder", "anonymize"}

(* What a job has done to the notification it processes. *)
JobInv(j) ==
  LET n == Current(j) IN
  /\ pc[j] \notin {"idle", "fetch", "next"} => batch[j] # <<>> /\ n \in Own
  /\ pc[j] \in {"load", "write"} \cup Closers => n.status \in Processable
  /\ pc[j] \in Closers => Final(n)
  /\ pc[j] \in Closers \ {"close_case"} => "case" \in asked[n.of]
  /\ pc[j] \in {"close_folder", "anonymize"} => "event" \in asked[n.of]
  /\ pc[j] = "anonymize" => "folder" \in asked[n.of]
  /\ pc[j] \in {"write", "close_folder", "anonymize"} => row[n.of].saved
  /\ pc[j] = "write" => memo[j] # None
  /\ pc[j] \in {"close_case", "create_event"} =>
       IF memo[j] = None THEN n \in rowless ELSE row[n.of].saved
  /\ pc[j] \in {"update_event", "delete"} /\ Final(n) => Handled(n)

(* A final update that was received, or is about to be or to be deleted,   *)
(* has been handled.                                                       *)
HandledInv ==
  /\ \A n \in received : Final(n) => Handled(n)
  /\ \A call \in late :
       call.op \in {"update_event", "delete"} /\ Final(call.for) => Handled(call.for)

Inv ==
  /\ SharedInv
  /\ LocalInv
  /\ \A j \in Jobs : JobInv(j)
  /\ HandledInv
  /\ IdsOutliveClosing
  /\ FinalIsAnonymised

-----------------------------------------------------------------------------
(* Notifications and queues.                                               *)

LEMMA OwnFacts ==
  ASSUME NEW n \in Own
  PROVE  /\ n \in Known /\ n \in Notification
         /\ n.of \in Cases /\ n.type # "foreign"
         /\ n.status \in Processable \cup {"hubee_notified", None}
         /\ n.type = "status_update" <=> n.status # None
BY DEF Own, Known, FormulaireQF, Notification

LEMMA KnownNotifications ==
  /\ \A c \in Cases : NewFolder(c) \in Known /\ AttachDeposit(c) \in Known
  /\ \A c \in Cases, s \in Processable \cup {"hubee_notified"} : StatusUpdate(c, s) \in Own
  /\ \A i \in Foreign : Other(i) \in Known
BY NoneAssumption DEF Known, Own, FormulaireQF, Notification, NewFolder, AttachDeposit,
  StatusUpdate, Other, Processable, FinalStatuses

(* Deleting a notification leaves the others in the queue. *)
LEMMA WithoutFacts ==
  ASSUME NEW S, NEW q \in Seq(S), NEW n
  PROVE  /\ Without(q, n) \in Seq(S)
         /\ \A m \in Range(q) : m # n => m \in Range(Without(q, n))
<1>1. CASE n \notin Range(q)
  BY <1>1 DEF Without
<1>2. CASE n \in Range(q)
  <2> DEFINE i == CHOOSE k \in DOMAIN q : q[k] = n
             front == SubSeq(q, 1, i - 1)
             back == SubSeq(q, i + 1, Len(q))
  <2>1. i \in 1..Len(q) /\ q[i] = n
    BY <1>2 DEF Range
  <2> HIDE DEF i
  <2>2. Without(q, n) = front \o back
    BY <1>2 DEF Without, RemoveAt, i
  <2>3. /\ front \in Seq(S) /\ Len(front) = i - 1
        /\ \A k \in 1..(i - 1) : front[k] = q[k]
    BY <2>1, \A k \in 1..(i - 1) : q[k] \in S, SubSeqProperties, 1 \in Int, i - 1 \in Int
  <2>4. /\ back \in Seq(S) /\ Len(back) = Len(q) - i
        /\ \A k \in 1..(Len(q) - i) : back[k] = q[k + i]
    BY <2>1, \A k \in (i + 1)..Len(q) : q[k] \in S, SubSeqProperties, i + 1 \in Int, Len(q) \in Int
  <2> HIDE DEF front, back
  <2>5. Range(Without(q, n)) = Range(front) \cup Range(back) /\ Without(q, n) \in Seq(S)
    <3>1. front \in Seq(S) /\ back \in Seq(S)
      BY <2>3, <2>4
    <3>2. Range(front \o back) = Range(front) \cup Range(back)
      BY <3>1, RangeConcatenation
    <3> QED  BY <2>2, <3>1, <3>2, ConcatProperties
  <2>6. ASSUME NEW m \in Range(q), m # n  PROVE m \in Range(front) \cup Range(back)
    <3>1. PICK k \in 1..Len(q) : q[k] = m
      BY RangeEquality
    <3>2. CASE k < i
      <4>1. k \in 1..Len(front) /\ front[k] = m
        BY <2>1, <2>3, <3>1, <3>2
      <4> QED  BY <4>1, <2>3, RangeEquality
    <3>3. CASE k > i
      <4>1. k - i \in 1..Len(back) /\ back[k - i] = m
        BY <2>1, <2>4, <3>1, <3>3
      <4> QED  BY <4>1, <2>4, RangeEquality
    <3> QED  BY <2>1, <2>6, <3>1, <3>2, <3>3
  <2> QED  BY <2>5, <2>6
<1> QED  BY <1>1, <1>2

LEMMA AppendFacts ==
  ASSUME NEW S, NEW q \in Seq(S), NEW n \in S
  PROVE  /\ Append(q, n) \in Seq(S)
         /\ Range(Append(q, n)) = Range(q) \cup {n}
<1>1. <<n>> \in Seq(S) /\ Range(<<n>>) = {n}
  BY DEF Range
<1>2. Append(q, n) = q \o <<n>>
  BY AppendIsConcat
<1>3. Range(q \o <<n>>) = Range(q) \cup Range(<<n>>)
  BY <1>1, RangeConcatenation
<1>4. Append(q, n) \in Seq(S)
  BY AppendProperties
<1> QED  BY <1>1, <1>2, <1>3, <1>4

-----------------------------------------------------------------------------
(* What a step leaves true.  Closing calls that were answered, updates     *)
(* that found no row, saved rows and anonymised rows stay: what a job      *)
(* knows of the notification it processes survives the steps of all others. *)
Grows ==
  /\ \A c \in Cases : /\ asked[c] \subseteq asked'[c]
                      /\ row[c].saved => row'[c].saved
                      /\ Anonymised(c) => Anonymised(c)'
  /\ unread \subseteq unread'
  /\ rowless \subseteq rowless'

Others(i) ==
  \A j \in Jobs \ {i} : pc'[j] = pc[j] /\ batch'[j] = batch[j] /\ memo'[j] = memo[j]

LEMMA HandledStays ==
  ASSUME Grows, NEW n \in Own, Handled(n)
  PROVE  Handled(n)'
BY OwnFacts DEF Grows, Handled

LEMMA JobStays ==
  ASSUME Grows, NEW j \in Jobs, JobInv(j), LocalInv,
         pc'[j] = pc[j], batch'[j] = batch[j], memo'[j] = memo[j]
  PROVE  JobInv(j)'
<1>1. Current(j)' = Current(j)
  BY DEF Current
<1>2. CASE pc[j] \in {"idle", "fetch", "next"}
  BY <1>2 DEF JobInv, Closers
<1>3. CASE pc[j] \notin {"idle", "fetch", "next"}
  <2>1. PICK n \in Own : n = Current(j)
    BY <1>3 DEF JobInv
  <2>2. n = Current(j)' /\ n.of \in Cases
    BY <1>1, <2>1, OwnFacts
  <2>3. Handled(n) => Handled(n)'
    BY HandledStays
  <2> QED  BY <2>1, <2>2, <2>3 DEF JobInv, Grows
<1> QED  BY <1>2, <1>3

LEMMA JobsStay ==
  ASSUME Inv, Grows, NEW i \in Jobs, JobInv(i)', Others(i)
  PROVE  \A j \in Jobs : JobInv(j)'
BY JobStays DEF Inv, Others

(* Preservation: the obligations that a step leaves to its own proof. *)
LEMMA Step ==
  ASSUME Inv, SharedInv', LocalInv', \A j \in Jobs : JobInv(j)', Grows,
         \A n \in received' \ received : Final(n) => Handled(n)',
         \A call \in late' \ late :
           call.op \in {"update_event", "delete"} /\ Final(call.for) => Handled(call.for)',
         \A n \in Own : Final(n) /\ n \in Range(queue) \ Range(queue') => Handled(n)',
         \A c \in Cases :
           siStatus'[c] \in FinalStatuses =>
             siStatus'[c] = siStatus[c] \/ StatusUpdate(c, siStatus'[c]) \in Range(queue'),
         \A c \in Cases : Anonymised(c)' => Anonymised(c) \/ asked'[c] = {"case", "event", "folder"}
  PROVE  Inv'
<1>1. HandledInv'
  <2>1. ASSUME NEW n \in received', Final(n)  PROVE Handled(n)'
    BY <2>1, HandledStays DEF Inv, HandledInv, SharedInv
  <2>2. ASSUME NEW call \in late', call.op \in {"update_event", "delete"}, Final(call.for)
        PROVE  Handled(call.for)'
    <3>1. call \in late => call.for \in Own
      BY DEF Inv, SharedInv
    <3> QED  BY <2>2, <3>1, HandledStays DEF Inv, HandledInv
  <2> QED  BY <2>1, <2>2 DEF HandledInv, Final
<1>2. IdsOutliveClosing'
  BY DEF Inv, IdsOutliveClosing, Anonymised, Grows, SharedInv
<1>3. FinalIsAnonymised'
  <2> SUFFICES ASSUME NEW c \in Cases, NEW s \in FinalStatuses, siStatus'[c] = s,
                      StatusUpdate(c, s) \notin Range(queue') \cup unread' \cup rowless'
               PROVE  Anonymised(c)'
    BY DEF FinalIsAnonymised, Anonymised, FinalStatuses, StatusUpdate
  <2> DEFINE n == StatusUpdate(c, s)
  <2>1. n \in Own /\ Final(n) /\ n.of = c
    BY KnownNotifications DEF Final, Processable, StatusUpdate
  <2> HIDE DEF n
  <2>2. siStatus[c] = s
    BY DEF n
  <2>3. CASE n \in Range(queue)
    BY <2>1, <2>3 DEF Handled, n
  <2>4. CASE n \notin Range(queue)
    BY <2>2, <2>4 DEF Inv, FinalIsAnonymised, Grows, Anonymised, n
  <2> QED  BY <2>3, <2>4
<1> QED  BY <1>1, <1>2, <1>3 DEF Inv

-----------------------------------------------------------------------------
(* What the job's own variables do.                                        *)

LEMMA RestartLocal ==
  ASSUME Inv, NEW i \in Jobs, NEW to \in {"idle", "fetch"}, NEW n \in 0..MaxAttempts,
         Restart(i, to, n)
  PROVE  LocalInv' /\ JobInv(i)' /\ Others(i)
<1>1. LocalInv'
  BY EmptySeq DEF Restart, Goto, Inv, LocalInv
<1>2. pc'[i] = to
  BY DEF Restart, Goto, Inv, LocalInv
<1> QED  BY <1>1, <1>2 DEF Restart, Goto, Inv, LocalInv, JobInv, Closers, Others

LEMMA RetryLocal ==
  ASSUME Inv, NEW i \in Jobs, Retry(i)
  PROVE  LocalInv' /\ JobInv(i)' /\ Others(i)
<1>1. attempts[i] \in 0..MaxAttempts /\ MaxAttempts \in Nat
  BY BoundsAssumption DEF Inv, LocalInv
<1> QED  BY <1>1, RestartLocal DEF Retry

LEMMA SkipLocal ==
  ASSUME Inv, NEW i \in Jobs, batch[i] # <<>>, Skip(i)
  PROVE  LocalInv' /\ JobInv(i)' /\ Others(i)
<1>1. Tail(batch[i]) \in Seq(Known)
  BY HeadTailProperties DEF Inv, LocalInv
<1>2. LocalInv'
  BY <1>1 DEF Skip, Goto, Inv, LocalInv
<1>3. pc'[i] = "next"
  BY DEF Skip, Goto, Inv, LocalInv
<1> QED  BY <1>2, <1>3 DEF Skip, Goto, Inv, LocalInv, JobInv, Closers, Others

-----------------------------------------------------------------------------
(* Steps of the world.                                                     *)

(* The jobs' variables and what they have learnt stay as they are. *)
LEMMA WorldStep ==
  ASSUME Inv, SharedInv', UNCHANGED <<pc, job, history>>, Grows,
         \A n \in received' \ received : Final(n) => Handled(n)',
         late' \subseteq late,
         \A n \in Own : Final(n) /\ n \in Range(queue) \ Range(queue') => Handled(n)',
         \A c \in Cases :
           siStatus'[c] \in FinalStatuses =>
             siStatus'[c] = siStatus[c] \/ StatusUpdate(c, siStatus'[c]) \in Range(queue'),
         \A c \in Cases : Anonymised(c)' => Anonymised(c)
  PROVE  Inv'
<1>1. LocalInv'
  BY DEF Inv, LocalInv, job
<1>2. \A j \in Jobs : JobInv(j)'
  BY JobStays DEF Inv, job
<1> QED  BY <1>1, <1>2, Step

(* A notification is appended to the queue for a case's new status. *)
LEMMA CaseMoves ==
  ASSUME Inv, NEW c \in Cases, NEW n \in Known,
         NEW s \in Processable \cup {"opened", "deposited", "hubee_notified"},
         siStatus' = [siStatus EXCEPT ![c] = s],
         s \in FinalStatuses => n = StatusUpdate(c, s),
         queue' = Append(queue, n),
         UNCHANGED <<received, closed, late, row, pc, job, history>>
  PROVE  Inv'
<1>1. queue' \in Seq(Known) /\ Range(queue') = Range(queue) \cup {n}
  BY AppendFacts DEF Inv, SharedInv
<1>2. SharedInv'
  BY <1>1 DEF Inv, SharedInv, history
<1>3. Grows /\ \A d \in Cases : Anonymised(d)' => Anonymised(d)
  BY DEF Grows, Anonymised, history
<1>4. ASSUME NEW d \in Cases, siStatus'[d] \in FinalStatuses
      PROVE  siStatus'[d] = siStatus[d] \/ StatusUpdate(d, siStatus'[d]) \in Range(queue')
  BY <1>1, <1>4 DEF Inv, SharedInv
<1> QED  BY <1>1, <1>2, <1>3, <1>4, WorldStep

LEMMA FolderCompletedInv ==
  ASSUME Inv, NEW c \in Cases, FolderCompleted(c)
  PROVE  Inv'
BY CaseMoves, KnownNotifications DEF FolderCompleted, FinalStatuses

LEMMA SIUpdatesCaseInv ==
  ASSUME Inv, NEW c \in Cases, SIUpdatesCase(c)
  PROVE  Inv'
<1>1. PICK s \in SIStatuses : /\ siStatus' = [siStatus EXCEPT ![c] = s]
                              /\ queue' = Append(queue, StatusUpdate(c, s))
  BY DEF SIUpdatesCase
<1>2. s \in Processable \cup {"hubee_notified"} /\ StatusUpdate(c, s) \in Known
  BY StatusesAssumption, KnownNotifications, OwnFacts
<1> QED  BY <1>1, <1>2, CaseMoves DEF SIUpdatesCase

LEMMA SIDepositsAttachmentInv ==
  ASSUME Inv, NEW c \in Cases, SIDepositsAttachment(c)
  PROVE  Inv'
BY CaseMoves, KnownNotifications DEF SIDepositsAttachment, FinalStatuses

LEMMA CreateShipmentInv ==
  ASSUME Inv, NEW c \in Cases, CreateShipment(c)
  PROVE  Inv'
<1>1. SharedInv'
  BY DEF CreateShipment, Inv, SharedInv, hubee, history
<1>2. Grows /\ \A d \in Cases : Anonymised(d)' => Anonymised(d)
  BY DEF CreateShipment, Inv, SharedInv, Grows, Anonymised, history
<1> QED  BY <1>1, <1>2, WorldStep DEF CreateShipment, hubee

LEMMA ForeignInv ==
  ASSUME Inv, NEW i \in Foreign, ForeignArrives(i) \/ ForeignIsConsumed(i)
  PROVE  Inv'
<1>1. Other(i) \in Known /\ Other(i) \notin Own
  BY KnownNotifications DEF Own, FormulaireQF, Other
<1>2. queue' \in Seq(Known) /\ Range(queue) \subseteq Range(queue') \cup {Other(i)}
  <2>1. queue \in Seq(Known)
    BY DEF Inv, SharedInv
  <2>2. /\ Append(queue, Other(i)) \in Seq(Known)
        /\ Range(queue) \subseteq Range(Append(queue, Other(i)))
    BY <1>1, <2>1, AppendFacts
  <2>3. /\ Without(queue, Other(i)) \in Seq(Known)
        /\ \A m \in Range(queue) : m # Other(i) => m \in Range(Without(queue, Other(i)))
    BY <2>1, WithoutFacts
  <2>4. queue' = Append(queue, Other(i)) \/ queue' = Without(queue, Other(i))
    BY DEF ForeignArrives, ForeignIsConsumed
  <2> QED  BY <2>2, <2>3, <2>4
<1>3. UNCHANGED <<siStatus, received, closed, late, row, pc, job, history>>
  BY DEF ForeignArrives, ForeignIsConsumed
<1>4. SharedInv'
  BY <1>2, <1>3 DEF Inv, SharedInv, history
<1>5. Grows /\ \A d \in Cases : Anonymised(d)' => Anonymised(d)
  BY <1>3 DEF Grows, Anonymised, history
<1> QED  BY <1>1, <1>2, <1>3, <1>4, <1>5, WorldStep

LEMMA HubEEIsLateInv ==
  ASSUME Inv, NEW call \in late, HubEEIsLate(call)
  PROVE  Inv'
<1> DEFINE n == call.for
<1>1. /\ call.op \in {"case", "event", "folder", "update_event", "delete"}
      /\ n \in Own /\ n.of \in Cases
      /\ call.op \in {"update_event", "delete"} /\ Final(n) => Handled(n)
  BY OwnFacts DEF Inv, SharedInv, HandledInv
<1>2. UNCHANGED <<siStatus, row, pc, job, history>> /\ late' \subseteq late
  BY DEF HubEEIsLate
<1>3. Grows /\ \A d \in Cases : Anonymised(d)' => Anonymised(d)
  BY <1>2 DEF Grows, Anonymised, history
<1>4. call.op \in {"update_event", "delete"} /\ Final(n) => Handled(n)'
  BY <1>1, <1>3, HandledStays
<1>5. /\ queue' \in Seq(Known)
      /\ \A m \in Range(queue) \ Range(queue') : m = n /\ call.op = "delete"
  BY WithoutFacts DEF HubEEIsLate, Inv, SharedInv
<1>6. received' \subseteq Own /\ \A m \in received' \ received : m = n /\ call.op = "update_event"
  BY <1>1 DEF HubEEIsLate, Inv, SharedInv
<1>7. closed' \in [Cases -> SUBSET {"case", "event", "folder"}]
  BY <1>1 DEF HubEEIsLate, Inv, SharedInv
<1>8. SharedInv'
  BY <1>2, <1>5, <1>6, <1>7 DEF Inv, SharedInv, history
<1> QED  BY <1>2, <1>3, <1>4, <1>5, <1>6, <1>8, WorldStep

-----------------------------------------------------------------------------
(* Steps of a job.                                                         *)

(* A job's own variables, when it only goes on to another step.            *)
LEMMA GotoLocal ==
  ASSUME Inv, NEW i \in Jobs,
         NEW to \in {"next", "event", "load", "write", "close_case", "create_event",
                     "close_folder", "anonymize", "update_event", "delete"},
         Goto(i, to), UNCHANGED job
  PROVE  LocalInv' /\ pc'[i] = to /\ Others(i)
BY DEF Goto, job, Inv, LocalInv, Others

(* Steps that change nothing outside the job. *)
LEMMA PrivateStep ==
  ASSUME Inv, NEW i \in Jobs, UNCHANGED <<hubee, row, history>>,
         LocalInv', JobInv(i)', Others(i)
  PROVE  Inv'
<1>1. SharedInv'
  BY DEF Inv, SharedInv, hubee, history
<1>2. Grows /\ \A d \in Cases : Anonymised(d)' => Anonymised(d)
  BY DEF Grows, Anonymised, history
<1>3. \A j \in Jobs : JobInv(j)'
  BY <1>2, JobsStay
<1> QED  BY <1>1, <1>2, <1>3, Step DEF hubee

LEMMA EnqueueInv ==
  ASSUME Inv, NEW i \in Jobs, Enqueue(i)
  PROVE  Inv'
<1>1. 1 \in 0..MaxAttempts
  BY BoundsAssumption
<1> QED  BY <1>1, RestartLocal, PrivateStep DEF Enqueue

LEMMA RetryInv ==
  ASSUME Inv, NEW i \in Jobs, Retry(i), UNCHANGED <<hubee, row, history>>
  PROVE  Inv'
BY RetryLocal, PrivateStep

LEMMA EndInv ==
  ASSUME Inv, NEW i \in Jobs, Dies(i) \/ Interrupted(i) \/ EndOfBatch(i)
  PROVE  Inv'
<1>1. 0 \in 0..MaxAttempts /\ 1 \in 0..MaxAttempts /\ attempts[i] \in 0..MaxAttempts
  BY BoundsAssumption DEF Inv, LocalInv
<1> QED  BY <1>1, RestartLocal, PrivateStep DEF Dies, Interrupted, EndOfBatch

LEMMA FetchNotificationsInv ==
  ASSUME Inv, NEW i \in Jobs, FetchNotifications(i)
  PROVE  Inv'
<1> DEFINE count == IF Len(queue) < ItemsCount THEN Len(queue) ELSE ItemsCount
<1>1. /\ batch' = [batch EXCEPT ![i] = SubSeq(queue, 1, count)]
      /\ full' = [full EXCEPT ![i] = Len(queue) >= ItemsCount]
      /\ pc' = [pc EXCEPT ![i] = "next"]
      /\ UNCHANGED <<hubee, row, attempts, memo, history>>
  BY DEF FetchNotifications, Goto
<1>2. queue \in Seq(Known) /\ Len(queue) \in Nat /\ count \in Int /\ count <= Len(queue)
  BY BoundsAssumption, LenProperties DEF Inv, SharedInv
<1> HIDE DEF count
<1>3. \A k \in 1..count : queue[k] \in Known
  BY <1>2
<1>4. SubSeq(queue, 1, count) \in Seq(Known)
  BY <1>2, <1>3, SubSeqProperties, 1 \in Int
<1>5. LocalInv'
  BY <1>1, <1>2, <1>4, BoundsAssumption DEF Inv, LocalInv
<1>6. pc'[i] = "next" /\ Others(i)
  BY <1>1 DEF Inv, LocalInv, Others
<1> QED  BY <1>1, <1>5, <1>6, PrivateStep DEF JobInv, Closers

LEMMA ProcessNotificationInv ==
  ASSUME Inv, NEW i \in Jobs, ProcessNotification(i)
  PROVE  Inv'
<1>1. batch[i] # <<>> /\ UNCHANGED <<hubee, row, history>>
  BY DEF ProcessNotification
<1>2. CASE ~ FormulaireQF(Current(i))
  BY <1>1, <1>2, SkipLocal, PrivateStep DEF ProcessNotification
<1>3. CASE FormulaireQF(Current(i))
  <2>1. PICK n \in Own : n = Current(i)
    BY <1>1, <1>3, HeadTailProperties DEF Inv, LocalInv, Current, Own
  <2>2. PICK to \in {"event", "delete"} :
          Goto(i, to) /\ UNCHANGED job /\ (to = "delete" => n.type = "new_folder")
    BY <1>3, <2>1 DEF ProcessNotification
  <2>3. LocalInv' /\ pc'[i] = to /\ Others(i) /\ batch' = batch /\ Current(i)' = n
    BY <2>1, <2>2, GotoLocal DEF job, Current
  <2>4. to = "delete" => ~ Final(n)
    BY <2>2, OwnFacts, NoneAssumption DEF Final, Processable
  <2>5. JobInv(i)'
    BY <1>1, <2>3, <2>4 DEF JobInv, Closers, Final
  <2> QED  BY <1>1, <2>3, <2>5, PrivateStep
<1> QED  BY <1>2, <1>3

(* The notification that a job processes. *)
LEMMA CurrentFacts ==
  ASSUME Inv, NEW i \in Jobs, pc[i] \notin {"idle", "fetch", "next"}
  PROVE  batch[i] # <<>> /\ Current(i) \in Own /\ Current(i).of \in Cases
BY OwnFacts DEF Inv, JobInv

LEMMA ReadEventInv ==
  ASSUME Inv, NEW i \in Jobs, NEW answered \in BOOLEAN, ReadEvent(i, answered)
  PROVE  Inv'
<1>1. UNCHANGED <<hubee, row, history>> /\ pc[i] = "event"
  BY DEF ReadEvent
<1>2. CASE ~ answered
  BY <1>1, <1>2, RetryInv DEF ReadEvent, Continue
<1>3. CASE answered
  <2>1. PICK n \in Own : n = Current(i)
    BY <1>1, CurrentFacts
  <2>2. PICK to \in {"delete", "load", "update_event"} :
          /\ Goto(i, to) /\ UNCHANGED job
          /\ to = "delete" => n.type # "status_update" \/ n \in received
          /\ to = "load" => n.status \in Processable
          /\ to = "update_event" => n.status \notin Processable
    BY <1>3, <2>1 DEF ReadEvent, Continue
  <2>3. LocalInv' /\ pc'[i] = to /\ Others(i) /\ batch' = batch /\ Current(i)' = n
    BY <2>1, <2>2, GotoLocal DEF job, Current
  <2>4. to \in {"delete", "update_event"} /\ Final(n) => Handled(n)
    BY <2>2, OwnFacts, NoneAssumption DEF Final, Processable, Inv, HandledInv
  <2>5. Handled(n) => Handled(n)'
    BY <1>1, HandledStays DEF Grows, Anonymised, history
  <2>6. batch[i] # <<>>
    BY <1>1, CurrentFacts
  <2>7. JobInv(i)'
    BY <2>2, <2>3, <2>4, <2>5, <2>6 DEF JobInv, Closers
  <2> QED  BY <1>1, <2>3, <2>7, PrivateStep
<1> QED  BY <1>2, <1>3

(* A step that only tells history, or the Shipments, about the             *)
(* notification.                                                           *)
LEMMA TellingStep ==
  ASSUME Inv, NEW i \in Jobs, UNCHANGED hubee, SharedInv', LocalInv', JobInv(i)',
         Others(i), Grows,
         \A c \in Cases : Anonymised(c)' => Anonymised(c) \/ asked'[c] = {"case", "event", "folder"}
  PROVE  Inv'
<1>1. \A j \in Jobs : JobInv(j)'
  BY JobsStay
<1> QED  BY <1>1, Step DEF hubee

LEMMA ReadEventRefusedInv ==
  ASSUME Inv, NEW i \in Jobs, ReadEventRefused(i)
  PROVE  Inv'
<1>1. PICK n \in Own : n = Current(i) /\ batch[i] # <<>>
  BY CurrentFacts DEF ReadEventRefused
<1>2. LocalInv' /\ pc'[i] = "delete" /\ Others(i) /\ batch' = batch /\ Current(i)' = n
  BY <1>1, GotoLocal DEF ReadEventRefused, job, Current
<1>3. SharedInv'
  BY <1>1 DEF ReadEventRefused, Inv, SharedInv, hubee
<1>4. Grows /\ \A c \in Cases : Anonymised(c)' => Anonymised(c)
  BY DEF ReadEventRefused, Grows, Anonymised
<1>5. JobInv(i)'
  BY <1>1, <1>2 DEF ReadEventRefused, JobInv, Closers, Handled
<1> QED  BY <1>2, <1>3, <1>4, <1>5, TellingStep DEF ReadEventRefused

LEMMA LoadShipmentInv ==
  ASSUME Inv, NEW i \in Jobs, LoadShipment(i)
  PROVE  Inv'
<1> DEFINE found == row[Current(i).of].ids
           next == IF found THEN "write"
                   ELSE IF Final(Current(i)) THEN "close_case" ELSE "update_event"
<1>1. pc[i] = "load" /\ UNCHANGED <<hubee, row, attempts, batch, full, asked, unread>>
  BY DEF LoadShipment
<1>2. PICK n \in Own : n = Current(i) /\ batch[i] # <<>> /\ n.of \in Cases
  BY <1>1, CurrentFacts
<1>3. n.status \in Processable /\ Current(i)' = n
  BY <1>1, <1>2 DEF Inv, JobInv, Current
<1>4. /\ memo' = [memo EXCEPT ![i] = IF found THEN row[n.of].status ELSE None]
      /\ rowless' = IF found THEN rowless ELSE rowless \cup {n}
      /\ pc' = [pc EXCEPT ![i] = next]
  BY <1>2 DEF LoadShipment, Goto
<1>5. LocalInv' /\ Others(i)
  BY <1>1, <1>2, <1>4 DEF Inv, LocalInv, SharedInv, Others
<1>6. pc'[i] = next
  BY <1>4 DEF Inv, LocalInv
<1>7. SharedInv'
  BY <1>1, <1>2, <1>4 DEF Inv, SharedInv, hubee
<1>8. Grows /\ \A c \in Cases : Anonymised(c)' => Anonymised(c)
  BY <1>1, <1>4 DEF Grows, Anonymised
<1>9. JobInv(i)'
  <2>1. CASE found
    <3>1. row[n.of].saved /\ memo'[i] # None
      BY <1>2, <1>4, <2>1, NoneAssumption DEF Inv, SharedInv, LocalInv
    <3> QED  BY <1>1, <1>2, <1>3, <1>6, <2>1, <3>1 DEF JobInv, Closers
  <2>2. CASE ~ found
    <3>1. n \in rowless' /\ memo'[i] = None
      BY <1>4, <2>2 DEF Inv, LocalInv
    <3> QED  BY <1>1, <1>2, <1>3, <1>6, <2>2, <3>1 DEF JobInv, Closers, Handled
  <2> QED  BY <2>1, <2>2
<1> QED  BY <1>1, <1>5, <1>7, <1>8, <1>9, TellingStep

LEMMA WriteShipmentStatusInv ==
  ASSUME Inv, NEW i \in Jobs, WriteShipmentStatus(i)
  PROVE  Inv'
<1>1. pc[i] = "write" /\ UNCHANGED <<hubee, job, history>>
  BY DEF WriteShipmentStatus
<1>2. PICK n \in Own : n = Current(i) /\ batch[i] # <<>> /\ n.of \in Cases
  BY <1>1, CurrentFacts
<1>3. n.status \in Processable /\ row[n.of].saved
  BY <1>1, <1>2 DEF Inv, JobInv
<1>4. PICK to \in {"close_case", "update_event"} :
        Goto(i, to) /\ (to = "close_case" <=> Final(n))
  BY <1>2 DEF WriteShipmentStatus
<1>5. row' = row \/ row' = [row EXCEPT ![n.of].status = n.status]
  BY <1>2 DEF WriteShipmentStatus
<1>6. LocalInv' /\ pc'[i] = to /\ Others(i) /\ batch' = batch /\ memo' = memo /\ Current(i)' = n
  BY <1>1, <1>2, <1>4, GotoLocal DEF job, Current
<1>7. /\ row' \in [Cases -> [saved : BOOLEAN, status : Processable \cup {"pending"}, ids : BOOLEAN]]
      /\ \A c \in Cases : row'[c].saved = row[c].saved /\ row'[c].ids = row[c].ids
  <2> DEFINE Rows == [saved : BOOLEAN, status : Processable \cup {"pending"}, ids : BOOLEAN]
             old == row[n.of]
             new == [old EXCEPT !.status = n.status]
  <2>1. row \in [Cases -> Rows] /\ old \in Rows
    BY <1>2 DEF Inv, SharedInv
  <2>2. new \in Rows /\ new.saved = old.saved /\ new.ids = old.ids
    BY <1>3, <2>1
  <2>3. row' = row \/ row' = [row EXCEPT ![n.of] = new]
    BY <1>5
  <2> HIDE DEF new, Rows
  <2>4. row' \in [Cases -> Rows]
    BY <2>1, <2>2, <2>3
  <2>5. \A c \in Cases : row'[c].saved = row[c].saved /\ row'[c].ids = row[c].ids
    BY <1>2, <2>1, <2>2, <2>3
  <2> QED  BY <2>4, <2>5 DEF Rows
<1>8. SharedInv'
  BY <1>1, <1>7 DEF Inv, SharedInv, hubee, history
<1>9. Grows /\ \A c \in Cases : Anonymised(c)' => Anonymised(c)
  BY <1>1, <1>7 DEF Grows, Anonymised, history
<1>10. JobInv(i)'
  <2>1. memo[i] # None
    BY <1>1 DEF Inv, JobInv
  <2> QED  BY <1>2, <1>3, <1>4, <1>6, <1>7, <2>1 DEF JobInv, Closers
<1> QED  BY <1>1, <1>6, <1>8, <1>9, <1>10, TellingStep

(* A call to HubEE for the current notification, whatever HubEE made of it. *)
LEMMA CallStep ==
  ASSUME Inv, NEW i \in Jobs, SharedInv', LocalInv', JobInv(i)', Others(i),
         UNCHANGED <<siStatus, row, unread, rowless>>,
         \A c \in Cases : asked[c] \subseteq asked'[c],
         NEW n \in Own,
         \A m \in received' \ received : m = n /\ (Final(n) => Handled(n)),
         \A call \in late' \ late :
           /\ call.for = n
           /\ call.op \in {"update_event", "delete"} /\ Final(n) => Handled(n),
         \A m \in Range(queue) \ Range(queue') : m = n /\ (Final(n) => Handled(n))
  PROVE  Inv'
<1>1. Grows /\ \A c \in Cases : Anonymised(c)' => Anonymised(c)
  BY DEF Grows, Anonymised
<1>2. \A j \in Jobs : JobInv(j)'
  BY <1>1, JobsStay
<1>3. Handled(n) => Handled(n)'
  BY <1>1, HandledStays
<1> QED  BY <1>1, <1>2, <1>3, Step

LEMMA ClosingInv ==
  ASSUME Inv, NEW i \in Jobs, NEW from \in Closers, NEW part \in {"case", "event", "folder"},
         NEW executed \in BOOLEAN, NEW answered \in BOOLEAN,
         NEW to \in {"create_event", "close_folder", "anonymize", "update_event"},
         Closing(i, from, part, executed, answered, to),
         (answered /\ pc'[i] = to /\ batch' = batch /\ memo' = memo) => JobInv(i)'
  PROVE  Inv'
<1>1. pc[i] = from /\ UNCHANGED <<queue, siStatus, received, row, unread, rowless>>
  BY DEF Closing
<1>2. PICK n \in Own : n = Current(i) /\ n.of \in Cases
  BY <1>1, CurrentFacts DEF Closers
<1>3. /\ closed' \in [Cases -> SUBSET {"case", "event", "folder"}]
      /\ asked' \in [Cases -> SUBSET {"case", "event", "folder"}]
      /\ \A c \in Cases : asked[c] \subseteq asked'[c]
  BY <1>2 DEF Closing, Inv, SharedInv
<1>4. late' = late \/ late' = late \cup {[op |-> part, for |-> n]}
  BY <1>2 DEF Closing, GiveUp
<1>5. SharedInv'
  BY <1>1, <1>3, <1>4 DEF Inv, SharedInv
<1>6. LocalInv' /\ JobInv(i)' /\ Others(i)
  <2>1. CASE answered
    BY <2>1, GotoLocal DEF Closing, Continue, job
  <2>2. CASE ~ answered
    BY <2>2, RetryLocal DEF Closing, Continue
  <2> QED  BY <2>1, <2>2
<1>7. \A call \in late' \ late : call.for = n /\ call.op \notin {"update_event", "delete"}
  BY <1>4
<1> QED  BY <1>1, <1>3, <1>5, <1>6, <1>7, CallStep

LEMMA ClosingsInv ==
  ASSUME Inv, NEW i \in Jobs, NEW executed \in BOOLEAN, NEW answered \in BOOLEAN,
         \/ CloseCase(i, executed, answered)
         \/ CreateClosedEvent(i, executed, answered)
         \/ CloseFolder(i, executed, answered)
  PROVE  Inv'
<1>1. pc[i] \in {"close_case", "create_event", "close_folder"}
  BY DEF CloseCase, CreateClosedEvent, CloseFolder, Closing
<1>2. PICK n \in Own : n = Current(i) /\ n.of \in Cases /\ batch[i] # <<>>
  BY <1>1, CurrentFacts
<1>3. n.status \in Processable /\ Final(n)
  BY <1>1, <1>2 DEF Inv, JobInv, Closers
<1>4. asked \in [Cases -> SUBSET {"case", "event", "folder"}]
  BY DEF Inv, SharedInv
<1>5. CASE CloseCase(i, executed, answered)
  <2>1. Closing(i, "close_case", "case", executed, answered, "create_event")
    BY <1>5 DEF CloseCase
  <2>2. pc[i] = "close_case" /\ UNCHANGED <<row, rowless>>
    BY <2>1 DEF Closing
  <2>3. ASSUME answered, pc'[i] = "create_event", batch' = batch, memo' = memo
        PROVE  JobInv(i)'
    <3>1. Current(i)' = n
      BY <1>2, <2>3 DEF Current
    <3>2. "case" \in asked'[n.of]
      BY <1>2, <1>4, <2>1, <2>3 DEF Closing
    <3>3. IF memo[i] = None THEN n \in rowless ELSE row[n.of].saved
      BY <1>2, <2>2 DEF Inv, JobInv
    <3> QED  BY <1>2, <1>3, <2>2, <2>3, <3>1, <3>2, <3>3 DEF JobInv, Closers
  <2> QED  BY <2>1, <2>3, ClosingInv DEF Closers
<1>6. CASE CreateClosedEvent(i, executed, answered)
  <2>1. PICK to \in {"update_event", "close_folder"} :
          /\ Closing(i, "create_event", "event", executed, answered, to)
          /\ to = "update_event" <=> memo[i] = None
    BY <1>6 DEF CreateClosedEvent
  <2>2. pc[i] = "create_event" /\ UNCHANGED <<row, rowless, unread>>
    BY <2>1 DEF Closing
  <2>3. ASSUME answered, pc'[i] = to, batch' = batch, memo' = memo
        PROVE  JobInv(i)'
    <3>1. Current(i)' = n
      BY <1>2, <2>3 DEF Current
    <3>2. "event" \in asked'[n.of]
      BY <1>2, <1>4, <2>1, <2>3 DEF Closing
    <3>3. "case" \in asked'[n.of]
      BY <1>2, <1>4, <2>1, <2>2 DEF Closing, Inv, JobInv, Closers
    <3>4. IF memo[i] = None THEN n \in rowless ELSE row[n.of].saved
      BY <1>2, <2>2 DEF Inv, JobInv
    <3> QED  BY <1>2, <1>3, <2>1, <2>2, <2>3, <3>1, <3>2, <3>3, <3>4 DEF JobInv, Closers, Handled
  <2> QED  BY <2>1, <2>3, ClosingInv DEF Closers
<1>7. CASE CloseFolder(i, executed, answered)
  <2>1. Closing(i, "close_folder", "folder", executed, answered, "anonymize")
    BY <1>7 DEF CloseFolder
  <2>2. pc[i] = "close_folder" /\ UNCHANGED row
    BY <2>1 DEF Closing
  <2>3. ASSUME answered, pc'[i] = "anonymize", batch' = batch, memo' = memo
        PROVE  JobInv(i)'
    <3>1. Current(i)' = n
      BY <1>2, <2>3 DEF Current
    <3>2. "folder" \in asked'[n.of]
      BY <1>2, <1>4, <2>1, <2>3 DEF Closing
    <3>3. {"case", "event"} \subseteq asked'[n.of]
      BY <1>2, <1>4, <2>1, <2>2 DEF Closing, Inv, JobInv, Closers
    <3>4. row'[n.of].saved
      BY <1>2, <2>2 DEF Inv, JobInv
    <3> QED  BY <1>2, <1>3, <2>3, <3>1, <3>2, <3>3, <3>4 DEF JobInv, Closers
  <2> QED  BY <2>1, <2>3, ClosingInv DEF Closers
<1> QED  BY <1>5, <1>6, <1>7

LEMMA AnonymizeShipmentInv ==
  ASSUME Inv, NEW i \in Jobs, AnonymizeShipment(i)
  PROVE  Inv'
<1>1. pc[i] = "anonymize" /\ UNCHANGED <<hubee, job, history>>
  BY DEF AnonymizeShipment
<1>2. PICK n \in Own : n = Current(i) /\ batch[i] # <<>> /\ n.of \in Cases
  BY <1>1, CurrentFacts
<1>3. row[n.of].saved /\ asked[n.of] = {"case", "event", "folder"}
  BY <1>1, <1>2 DEF Inv, JobInv, SharedInv, Closers
<1>4. row' = [row EXCEPT ![n.of].ids = FALSE]
  BY <1>2 DEF AnonymizeShipment
<1>5. LocalInv' /\ pc'[i] = "update_event" /\ Others(i) /\ batch' = batch /\ Current(i)' = n
  BY <1>1, <1>2, GotoLocal DEF AnonymizeShipment, job, Current
<1>6. /\ row' \in [Cases -> [saved : BOOLEAN, status : Processable \cup {"pending"}, ids : BOOLEAN]]
      /\ \A c \in Cases : row'[c].saved = row[c].saved
      /\ \A c \in Cases : row'[c].ids = (c # n.of /\ row[c].ids)
  <2> DEFINE Rows == [saved : BOOLEAN, status : Processable \cup {"pending"}, ids : BOOLEAN]
             old == row[n.of]
             new == [old EXCEPT !.ids = FALSE]
  <2>1. row \in [Cases -> Rows] /\ old \in Rows
    BY <1>2 DEF Inv, SharedInv
  <2>2. new \in Rows /\ new.saved = old.saved /\ new.ids = FALSE
    BY <2>1
  <2>3. row' = [row EXCEPT ![n.of] = new]
    BY <1>4
  <2>4. \A c \in Cases : row[c].ids \in BOOLEAN
    BY <2>1
  <2> HIDE DEF new, Rows
  <2>5. row' \in [Cases -> Rows]
    BY <2>1, <2>2, <2>3
  <2>6. \A c \in Cases : row'[c] = IF c = n.of THEN new ELSE row[c]
    BY <2>1, <2>3 DEF Rows
  <2>7. \A c \in Cases : row'[c].saved = row[c].saved
    BY <2>2, <2>6
  <2>8. \A c \in Cases : row'[c].ids = (c # n.of /\ row[c].ids)
    BY <2>2, <2>4, <2>6
  <2> QED  BY <2>5, <2>7, <2>8 DEF Rows
<1>7. SharedInv'
  BY <1>1, <1>6 DEF Inv, SharedInv, hubee, history
<1>8. /\ Grows
      /\ \A c \in Cases : Anonymised(c)' => Anonymised(c) \/ asked'[c] = {"case", "event", "folder"}
  BY <1>1, <1>3, <1>6 DEF Grows, Anonymised, history
<1>9. JobInv(i)'
  BY <1>2, <1>3, <1>5, <1>6 DEF JobInv, Closers, Handled, Anonymised
<1> QED  BY <1>1, <1>5, <1>7, <1>8, <1>9, TellingStep

LEMMA UpdateEventInv ==
  ASSUME Inv, NEW i \in Jobs, NEW executed \in BOOLEAN, NEW answered \in BOOLEAN,
         UpdateEvent(i, executed, answered)
  PROVE  Inv'
<1>1. /\ pc[i] = "update_event"
      /\ UNCHANGED <<queue, siStatus, closed, row, asked, unread, rowless>>
  BY DEF UpdateEvent, history
<1>2. PICK n \in Own : n = Current(i) /\ batch[i] # <<>>
  BY <1>1, CurrentFacts
<1>3. Final(n) => Handled(n)
  BY <1>1, <1>2 DEF Inv, JobInv
<1>4. received' \subseteq received \cup {n}
  BY <1>2 DEF UpdateEvent
<1>5. late' \subseteq late \cup {[op |-> "update_event", for |-> n]}
  BY <1>2 DEF UpdateEvent, GiveUp
<1>6. SharedInv'
  BY <1>1, <1>4, <1>5 DEF Inv, SharedInv
<1>7. LocalInv' /\ JobInv(i)' /\ Others(i)
  <2>1. CASE answered
    <3>1. /\ LocalInv' /\ pc'[i] = "delete" /\ Others(i)
          /\ batch' = batch /\ Current(i)' = n
      BY <1>2, <2>1, GotoLocal DEF UpdateEvent, Continue, job, Current
    <3>2. Handled(n)' <=> Handled(n)
      BY <1>1 DEF Handled, Anonymised
    <3> QED  BY <1>2, <1>3, <3>1, <3>2 DEF JobInv, Closers
  <2>2. CASE ~ answered
    BY <2>2, RetryLocal DEF UpdateEvent, Continue
  <2> QED  BY <2>1, <2>2
<1> QED  BY <1>1, <1>3, <1>4, <1>5, <1>6, <1>7, CallStep

LEMMA DeleteNotificationInv ==
  ASSUME Inv, NEW i \in Jobs, NEW executed \in BOOLEAN, NEW answered \in BOOLEAN,
         DeleteNotification(i, executed, answered)
  PROVE  Inv'
<1>1. /\ pc[i] = "delete"
      /\ UNCHANGED <<siStatus, received, closed, row, asked, unread, rowless>>
  BY DEF DeleteNotification, history
<1>2. PICK n \in Own : n = Current(i) /\ batch[i] # <<>>
  BY <1>1, CurrentFacts
<1>3. Final(n) => Handled(n)
  BY <1>1, <1>2 DEF Inv, JobInv
<1>4. queue' \in Seq(Known) /\ \A m \in Range(queue) \ Range(queue') : m = n
  BY <1>2, WithoutFacts DEF DeleteNotification, Inv, SharedInv
<1>5. late' \subseteq late \cup {[op |-> "delete", for |-> n]}
  BY <1>2 DEF DeleteNotification, GiveUp
<1>6. SharedInv'
  BY <1>1, <1>4, <1>5 DEF Inv, SharedInv
<1>7. LocalInv' /\ JobInv(i)' /\ Others(i)
  BY <1>2, SkipLocal, RetryLocal DEF DeleteNotification
<1> QED  BY <1>1, <1>3, <1>4, <1>5, <1>6, <1>7, CallStep

-----------------------------------------------------------------------------
LEMMA InitInv == Init => Inv
<1> SUFFICES ASSUME Init PROVE Inv
  OBVIOUS
<1>1. SharedInv
  BY EmptySeq DEF Init, SharedInv, NoRow
<1>2. LocalInv
  BY EmptySeq, BoundsAssumption DEF Init, LocalInv
<1>3. \A j \in Jobs : JobInv(j)
  BY DEF Init, JobInv, Closers
<1>4. HandledInv /\ IdsOutliveClosing
  BY DEF Init, HandledInv, IdsOutliveClosing, NoRow
<1>5. FinalIsAnonymised
  BY NoneAssumption DEF Init, FinalIsAnonymised, Processable
<1> QED  BY <1>1, <1>2, <1>3, <1>4, <1>5 DEF Inv

LEMMA NextInv == Inv /\ [Next]_vars => Inv'
<1> SUFFICES ASSUME Inv, [Next]_vars PROVE Inv'
  OBVIOUS
<1>1. CASE World
  BY <1>1, HubEEIsLateInv, FolderCompletedInv, CreateShipmentInv, SIUpdatesCaseInv,
     SIDepositsAttachmentInv, ForeignInv DEF World
<1>2. ASSUME NEW j \in Jobs, Enqueue(j) \/ Works(j)  PROVE Inv'
  BY <1>2, EnqueueInv, FetchNotificationsInv, ProcessNotificationInv, EndInv, ReadEventInv,
     LoadShipmentInv, WriteShipmentStatusInv, ClosingsInv, AnonymizeShipmentInv,
     UpdateEventInv, DeleteNotificationInv DEF Works
<1>3. ASSUME NEW j \in Jobs, Fails(j)  PROVE Inv'
  BY <1>3, RetryInv, ReadEventInv, ReadEventRefusedInv, ClosingsInv, UpdateEventInv,
     DeleteNotificationInv, EndInv DEF Fails, FetchRaises
<1>4. CASE UNCHANGED vars
  <2>1. UNCHANGED <<hubee, row, pc, job, history>>
    BY <1>4 DEF vars
  <2>2. SharedInv'
    BY <2>1 DEF Inv, SharedInv, hubee, history
  <2>3. Grows /\ \A c \in Cases : Anonymised(c)' => Anonymised(c)
    BY <2>1 DEF Grows, Anonymised, history
  <2> QED  BY <2>1, <2>2, <2>3, WorldStep DEF hubee
<1> QED  BY <1>1, <1>2, <1>3, <1>4 DEF Next

(* The inductive invariant holds of every behaviour. *)
THEOREM NotificationsInvariance == Spec => []Inv
BY InitInv, NextInv, PTL DEF Spec

(* Type correctness of HubEE's queue, of the rows and of the jobs. *)
THEOREM NotificationTypes == Spec => []TypeOK
<1>1. Inv => TypeOK
  <2> SUFFICES ASSUME Inv PROVE TypeOK
    OBVIOUS
  <2>1. Own \subseteq Notification /\ Known \subseteq Notification
    BY DEF Own, Known
  <2>2. queue \in Seq(Notification)
    BY <2>1, SeqMonotonic DEF Inv, SharedInv
  <2>3. batch \in [Jobs -> Seq(Notification)]
    BY <2>1, SeqMonotonic DEF Inv, LocalInv
  <2>4. late \subseteq LateCall
    BY <2>1 DEF Inv, SharedInv, LateCall
  <2> QED  BY <2>1, <2>2, <2>3, <2>4 DEF Inv, SharedInv, LocalInv, TypeOK
<1> QED  BY <1>1, NotificationsInvariance, PTL

(* However many jobs overlap, a Shipment keeps its HubEE ids until the     *)
(* three calls that close its case and folder were answered.               *)
THEOREM IdsAreKeptUntilClosed == Spec => []IdsOutliveClosing
BY NotificationsInvariance, PTL DEF Inv

(* However many jobs overlap, fail, retry and replay, a final update only  *)
(* leaves the queue once the Shipment is anonymised, or was not found, or  *)
(* the event could not be read.                                            *)
THEOREM FinalUpdatesAnonymise == Spec => []FinalIsAnonymised
BY NotificationsInvariance, PTL DEF Inv

(* No job ever takes the notification of another processCode out of the    *)
(* shared queue.                                                           *)
THEOREM ForeignNotificationsStay == Spec => ForeignStays
<1> DEFINE Stays ==
      \A i \in Foreign :
        Other(i) \in Range(queue) /\ Other(i) \notin Range(queue') => ForeignIsConsumed(i)
<1>1. Inv /\ [Next]_vars => [Stays]_vars
  <2> SUFFICES ASSUME Inv, Next, NEW i \in Foreign, Other(i) \in Range(queue),
                      Other(i) \notin Range(queue')
               PROVE  ForeignIsConsumed(i)
    OBVIOUS
  <2>1. Other(i) \notin Own /\ queue \in Seq(Known)
    BY DEF Own, FormulaireQF, Other, Inv, SharedInv
  <2>2. ASSUME NEW n \in Known, queue' = Append(queue, n)  PROVE FALSE
    BY <2>1, <2>2, AppendFacts
  <2>3. ASSUME NEW n, queue' = Without(queue, n)  PROVE n = Other(i)
    BY <2>1, <2>3, WithoutFacts
  <2>4. queue' # queue
    OBVIOUS
  <2>5. CASE World
    <3>1. ASSUME NEW call \in late, HubEEIsLate(call)  PROVE FALSE
      <4>1. call.for \in Own
        BY DEF Inv, SharedInv
      <4> QED  BY <2>1, <2>3, <2>4, <3>1, <4>1 DEF HubEEIsLate
    <3>2. ASSUME NEW c \in Cases, FolderCompleted(c) \/ SIDepositsAttachment(c)  PROVE FALSE
      BY <2>2, <3>2, KnownNotifications DEF FolderCompleted, SIDepositsAttachment
    <3>3. ASSUME NEW c \in Cases, SIUpdatesCase(c)  PROVE FALSE
      <4>1. PICK s \in SIStatuses : queue' = Append(queue, StatusUpdate(c, s))
        BY <3>3 DEF SIUpdatesCase
      <4>2. StatusUpdate(c, s) \in Known
        BY StatusesAssumption, KnownNotifications, OwnFacts
      <4> QED  BY <2>2, <4>1, <4>2
    <3>4. ASSUME NEW c \in Cases, CreateShipment(c)  PROVE FALSE
      BY <2>4, <3>4 DEF CreateShipment, hubee
    <3>5. ASSUME NEW k \in Foreign, ForeignArrives(k)  PROVE FALSE
      BY <2>2, <3>5, KnownNotifications DEF ForeignArrives
    <3>6. ASSUME NEW k \in Foreign, ForeignIsConsumed(k)  PROVE k = i
      BY <2>3, <3>6 DEF ForeignIsConsumed, Other
    <3> QED  BY <2>5, <3>1, <3>2, <3>3, <3>4, <3>5, <3>6 DEF World
  <2>6. ASSUME NEW j \in Jobs, NEW executed \in BOOLEAN, NEW answered \in BOOLEAN,
               DeleteNotification(j, executed, answered)
        PROVE  FALSE
    <3>1. Current(j) \in Own
      BY <2>6, CurrentFacts DEF DeleteNotification
    <3> QED  BY <2>1, <2>3, <2>4, <2>6, <3>1 DEF DeleteNotification
  <2>7. ASSUME NEW j \in Jobs, Enqueue(j) \/ Works(j) \/ Fails(j)  PROVE FALSE
    BY <2>4, <2>6, <2>7 DEF Enqueue, Works, Fails, FetchNotifications, ProcessNotification,
       EndOfBatch, ReadEvent, LoadShipment, WriteShipmentStatus, CloseCase, CreateClosedEvent,
       CloseFolder, Closing, AnonymizeShipment, UpdateEvent, FetchRaises, ReadEventRefused,
       Dies, Interrupted, hubee
  <2> QED  BY <2>5, <2>7 DEF Next
<1> QED  BY <1>1, NotificationsInvariance, PTL DEF Spec, ForeignStays

=============================================================================
