----------------------- MODULE CollectivityOnboarding -----------------------
(***************************************************************************)
(* How a collectivity comes to be offered to the parents.                  *)
(*                                                                         *)
(* DataPass calls a webhook when it approves a collectivity's request; the *)
(* webhook enqueues a SetupCollectivityJob, which finds or creates the     *)
(* collectivity's organization on HubEE, creates its subscription there    *)
(* and then finds or creates the active Collectivity.  Any exception of    *)
(* these three steps is reported to Sentry and swallowed: the job succeeds *)
(* and nothing is undone.  Jobs for one siret may run at once (DataPass    *)
(* approves again, or delivers twice), against each other and against the  *)
(* creations asked of POST /api/collectivites.                             *)
(***************************************************************************)
EXTENDS Integers, FiniteSets

CONSTANTS
  Jobs,      (* the SetupCollectivityJobs: one per delivery of an approval *)
  Calls,     (* the calls of POST /api/collectivites                       *)
  Sirets,
  Communes,  (* the codes INSEE may give for the commune of a siret        *)
  Editors,   (* the ids of data.service_provider, the editors of the API   *)
  None

VARIABLES
  job,           (* each job: where it stands and what it was enqueued with *)
  found,         (* the row find_or_initialize_by found for a job, or None  *)
  call,          (* each API call: where it stands and what it asks for     *)
  organizations, (* HubEE's organizations, each a siret and a commune       *)
  subscriptions, (* theirs to FormulaireQF, None without one                *)
  rows,          (* the collectivities table, by siret                      *)
  reported,      (* history: jobs whose exception was sent to Sentry        *)
  activated      (* history: sirets a job has set active                    *)

hubee == <<organizations, subscriptions>>
history == <<reported, activated>>
vars == <<job, found, call, hubee, rows, history>>

(* origin (ghost): the job or the call that inserted the row. *)
Row == [status : {"active", "inactive"}, editor : Editors \cup {None}, origin : Jobs \cup Calls]

Organizations == Sirets \X Communes

ASSUME NoneAssumption ==
  None \notin Sirets \cup Communes \cup Editors \cup Row \cup {"active", "inactive"}

Job == [pc : {"none", "queued", "find_organization", "create_organization", "subscribe",
              "find_subscription", "find_row", "validate", "save", "succeeded", "discarded"},
        siret : Sirets \cup {None}, editor : Editors \cup {None}, phone : BOOLEAN,
        commune : Communes \cup {None}]

Call == [pc : {"none", "build", "save", "created", "conflict", "unprocessable", "raised"},
         siret : Sirets \cup {None}, status : {"active", "inactive"},
         editor : Editors \cup {None}]

Init ==
  /\ job = [j \in Jobs |->
              [pc |-> "none", siret |-> None, editor |-> None, phone |-> FALSE, commune |-> None]]
  /\ found = [j \in Jobs |-> None]
  /\ call = [k \in Calls |->
               [pc |-> "none", siret |-> None, status |-> "active", editor |-> None]]
  /\ organizations = {}
  /\ subscriptions = [o \in Organizations |-> None]
  /\ rows = [s \in Sirets |-> None]
  /\ reported = {}
  /\ activated = {}

-----------------------------------------------------------------------------
Enqueued(siret, editor, phone) ==
  [pc |-> "queued", siret |-> siret, editor |-> editor, phone |-> phone, commune |-> None]

(* Mutant: two keyword arguments are swapped. *)
ReceiveSwapped(j, siret, editor, phone) ==
  /\ job[j].pc = "none"
  /\ job' = [job EXCEPT ![j] = Enqueued(editor, siret, phone)]
  /\ UNCHANGED <<found, call, hubee, rows, history>>

(* Api::DatapassWebhooksController#create with a valid signature, for an   *)
(* "approve" event; any other event changes nothing.                       *)
ReceiveApproval(j, siret, editor, phone) ==
  /\ job[j].pc = "none"
  /\ job' = [job EXCEPT ![j] = Enqueued(siret, editor, phone)]
  /\ UNCHANGED <<found, call, hubee, rows, history>>

Goto(j, from, to) == job[j].pc = from /\ job' = [job EXCEPT ![j].pc = to]

Siret(j) == job[j].siret

(* SI-siret-commune: what names an organization on HubEE. *)
Org(j) == <<job[j].siret, job[j].commune>>

(* SetupCollectivityJob: a missing phone number raises, before anything is *)
(* done, and the job is discarded ...                                      *)
StartJob(j) ==
  /\ Goto(j, "queued", IF job[j].phone THEN "find_organization" ELSE "discarded")
  /\ UNCHANGED <<found, call, hubee, rows, history>>

(* ... until the team runs it again with the phone number.                 *)
RerunWithPhone(j) ==
  /\ job[j].pc = "discarded"
  /\ job' = [job EXCEPT ![j].pc = "queued", ![j].phone = TRUE]
  /\ UNCHANGED <<found, call, hubee, rows, history>>

Running(j) == job[j].pc \notin {"none", "queued", "succeeded", "discarded"}

(* The process is killed: GoodJob runs the job again, which asks INSEE     *)
(* again.                                                                  *)
Interrupted(j) ==
  /\ Running(j)
  /\ job' = [job EXCEPT ![j].pc = "queued", ![j].commune = None]
  /\ found' = [found EXCEPT ![j] = None]
  /\ UNCHANGED <<call, hubee, rows, history>>

-----------------------------------------------------------------------------
(* DatapassWebhook::SetupCollectivity.                                     *)

(* Mutant: what is swallowed is not reported. *)
SwallowSilently(j) ==
  /\ job' = [job EXCEPT ![j].pc = "succeeded"]
  /\ UNCHANGED reported

(* The around hook. *)
Swallow(j) ==
  /\ job' = [job EXCEPT ![j].pc = "succeeded"]
  /\ reported' = reported \cup {j}

(* HubEE, INSEE or the database fails, or answers what it should not, and  *)
(* the step at hand has no effect.                                         *)
StepRaises(j) ==
  /\ Running(j)
  /\ Swallow(j)
  /\ UNCHANGED <<found, call, hubee, rows, activated>>

(* INSEE's answer names the commune, once for the whole run of the job; it *)
(* need not be the one another run was told (communes merge).              *)
FindOrganization(j) ==
  /\ job[j].pc = "find_organization"
  /\ \E commune \in Communes :
       job' = [job EXCEPT
         ![j].pc = IF <<Siret(j), commune>> \in organizations
                   THEN "subscribe" ELSE "create_organization",
         ![j].commune = commune]
  /\ UNCHANGED <<found, call, hubee, rows, history>>

(* HubEE creates the organization, or already has it: AlreadyExists, which *)
(* nothing rescues here.                                                   *)
CreateOrganization(j) ==
  /\ job[j].pc = "create_organization"
  /\ organizations' = organizations \cup {Org(j)}
  /\ \/ /\ Org(j) \notin organizations
        /\ Goto(j, "create_organization", "subscribe")
        /\ UNCHANGED reported
     \/ Swallow(j)   \* AlreadyExists, or the answer is late
  /\ UNCHANGED <<found, call, subscriptions, rows, activated>>

Subscribed(org) == subscriptions[org] # None

Subscribe(org) == subscriptions' = [subscriptions EXCEPT ![org] = "inactive"]

(* Mutant: CreateHubEESubscription rescues its own errors and goes on. *)
SubscribeOrNot(j) ==
  /\ Goto(j, "subscribe", "find_row")
  /\ \/ ~ Subscribed(Org(j)) /\ Subscribe(Org(j))
     \/ UNCHANGED subscriptions
  /\ UNCHANGED <<found, call, organizations, rows, history>>

(* The subscription is created inactive; an existing one is looked up      *)
(* instead.                                                                *)
CreateSubscription(j) ==
  /\ job[j].pc = "subscribe"
  /\ IF Subscribed(Org(j))
     THEN Goto(j, "subscribe", "find_subscription") /\ UNCHANGED <<subscriptions, reported>>
     ELSE /\ Subscribe(Org(j))
          /\ \/ Goto(j, "subscribe", "find_row") /\ UNCHANGED reported
             \/ Swallow(j)   \* the answer is late
  /\ UNCHANGED <<found, call, organizations, rows, activated>>

(* The subscription found is not looked at. *)
FindSubscription(j) ==
  /\ Goto(j, "find_subscription", "find_row")
  /\ UNCHANGED <<found, call, hubee, rows, history>>

(* CreateCollectivity: find_or_initialize_by(siret) ...                    *)
FindOrInitializeRow(j) ==
  /\ Goto(j, "find_row", "validate")
  /\ found' = [found EXCEPT ![j] = rows[Siret(j)]]
  /\ UNCHANGED <<call, hubee, rows, history>>

(* ... then update!, which validates that the siret of a new row is not    *)
(* taken ...                                                               *)
ValidateRow(j) ==
  /\ job[j].pc = "validate"
  /\ IF found[j] = None /\ rows[Siret(j)] # None
     THEN Swallow(j)   \* RecordInvalid
     ELSE Goto(j, "validate", "save") /\ UNCHANGED reported
  /\ UNCHANGED <<found, call, hubee, rows, activated>>

(* Mutant: update instead of update!, a row that is not saved is no error. *)
SaveNewRowOrNot(j) ==
  /\ Goto(j, "save", "succeeded")
  /\ found[j] = None
  /\ IF rows[Siret(j)] # None
     THEN UNCHANGED <<rows, activated>>
     ELSE /\ rows' = [rows EXCEPT ![Siret(j)] =
                        [status |-> "active", editor |-> job[j].editor, origin |-> j]]
          /\ activated' = activated \cup {Siret(j)}
  /\ UNCHANGED <<found, call, hubee, reported>>

(* ... and inserts it against the unique index (else RecordNotUnique) ...  *)
SaveNewRow(j) ==
  /\ job[j].pc = "save"
  /\ found[j] = None
  /\ IF rows[Siret(j)] # None
     THEN Swallow(j) /\ UNCHANGED <<rows, activated>>
     ELSE /\ Goto(j, "save", "succeeded")
          /\ rows' = [rows EXCEPT ![Siret(j)] =
                        [status |-> "active", editor |-> job[j].editor, origin |-> j]]
          /\ activated' = activated \cup {Siret(j)}
          /\ UNCHANGED reported
  /\ UNCHANGED <<found, call, hubee>>

(* ... or writes the attributes that differ from the row it has found.     *)
UpdateRow(j) ==
  LET was == found[j] IN
  /\ Goto(j, "save", "succeeded")
  /\ was # None
  /\ rows' = [rows EXCEPT
       ![Siret(j)].status = IF was.status = "active" THEN @ ELSE "active",
       ![Siret(j)].editor = IF was.editor = job[j].editor THEN @ ELSE job[j].editor]
  /\ activated' = activated \cup {Siret(j)}
  /\ UNCHANGED <<found, call, hubee, reported>>

-----------------------------------------------------------------------------
(* The collectivity's administrator activates the subscription on HubEE. *)
ActivateSubscription(org) ==
  /\ subscriptions[org] = "inactive"
  /\ subscriptions' = [subscriptions EXCEPT ![org] = "active"]
  /\ UNCHANGED <<job, found, call, organizations, rows, history>>

-----------------------------------------------------------------------------
(* Api::CollectivitiesController#create, with the API's token.             *)
ReceiveCall(k, siret, status, editor) ==
  /\ call[k].pc = "none"
  /\ call' = [call EXCEPT ![k] =
                [pc |-> "build", siret |-> siret, status |-> status, editor |-> editor]]
  /\ UNCHANGED <<job, found, hubee, rows, history>>

Answer(k, to) == call' = [call EXCEPT ![k].pc = to]

(* save validates: a siret that is taken is a conflict; anything else that *)
(* is wrong with the parameters is unprocessable.                          *)
ValidateCall(k) ==
  /\ call[k].pc = "build"
  /\ \/ Answer(k, IF rows[call[k].siret] # None THEN "conflict" ELSE "save")
     \/ rows[call[k].siret] = None /\ Answer(k, "unprocessable")
  /\ UNCHANGED <<job, found, hubee, rows, history>>

NewRow(k) == [status |-> call[k].status, editor |-> call[k].editor, origin |-> k]

(* Mutant: no unique index, the validation is trusted. *)
InsertWithoutIndex(k) ==
  /\ call[k].pc = "save"
  /\ rows' = [rows EXCEPT ![call[k].siret] = NewRow(k)]
  /\ Answer(k, "created")
  /\ UNCHANGED <<job, found, hubee, history>>

(* ... and inserts: RecordNotUnique is a 500.                              *)
InsertRow(k) ==
  /\ call[k].pc = "save"
  /\ IF rows[call[k].siret] # None
     THEN Answer(k, "raised") /\ UNCHANGED rows
     ELSE /\ rows' = [rows EXCEPT ![call[k].siret] = NewRow(k)]
          /\ Answer(k, "created")
  /\ UNCHANGED <<job, found, hubee, history>>

-----------------------------------------------------------------------------
Works(j) ==
  \/ StartJob(j)
  \/ FindOrganization(j)
  \/ CreateOrganization(j)
  \/ CreateSubscription(j)
  \/ FindSubscription(j)
  \/ FindOrInitializeRow(j)
  \/ ValidateRow(j)
  \/ SaveNewRow(j)
  \/ UpdateRow(j)

Next ==
  \/ \E j \in Jobs :
       \/ \E siret \in Sirets, editor \in Editors \cup {None}, phone \in BOOLEAN :
            ReceiveApproval(j, siret, editor, phone)
       \/ Works(j)
       \/ RerunWithPhone(j)
       \/ StepRaises(j)
       \/ Interrupted(j)
  \/ \E k \in Calls :
       \/ \E siret \in Sirets, status \in {"active", "inactive"}, editor \in Editors \cup {None} :
            ReceiveCall(k, siret, status, editor)
       \/ ValidateCall(k)
       \/ InsertRow(k)
  \/ \E org \in Organizations : ActivateSubscription(org)

Spec == Init /\ [][Next]_vars

-----------------------------------------------------------------------------
(* Properties.                                                             *)

(* Type invariant of the jobs, the calls, HubEE's referential and the rows. *)
TypeOK ==
  /\ job \in [Jobs -> Job]
  /\ found \in [Jobs -> Row \cup {None}]
  /\ call \in [Calls -> Call]
  /\ organizations \subseteq Organizations
  /\ subscriptions \in [Organizations -> {"inactive", "active", None}]
  /\ rows \in [Sirets -> Row \cup {None}]
  /\ reported \subseteq Jobs
  /\ activated \subseteq Sirets

(* A collectivity that a job has made active is known to HubEE: whatever   *)
(* jobs raced, failed half-way or started again, an organization of its    *)
(* siret exists there and has a subscription (perhaps an inactive one).    *)
ActivatedIsSubscribed ==
  \A s \in activated :
    /\ rows[s] # None
    /\ \E commune \in Communes : <<s, commune>> \in organizations /\ Subscribed(<<s, commune>>)

(* What docs/scripts.md says of the set-up: it leaves an active            *)
(* subscription.                                                           *)
ActivatedIsSubscribedActively ==
  \A s \in activated : \E commune \in Communes : subscriptions[<<s, commune>>] = "active"

(* No approval is lost in silence: although every exception is swallowed,  *)
(* a job that succeeds leaves the collectivity active or has reported why  *)
(* not, also when another job or an API call creates the row meanwhile.    *)
SuccessIsActiveOrReported ==
  \A j \in Jobs :
    job[j].pc = "succeeded" /\ j \notin reported
    => Siret(j) \in activated /\ rows[Siret(j)].status = "active"

(* A 201 is the truth: the row is the one this call has inserted, so that  *)
(* neither two calls nor a call and a job both create a siret, and until a *)
(* job has set the collectivity up (and written its attributes over those  *)
(* of the call) the row is as the call asked for.                          *)
CreatedIsOwn ==
  \A k \in Calls :
    LET siret == call[k].siret IN
    call[k].pc = "created" =>
      /\ rows[siret] # None
      /\ rows[siret].origin = k
      /\ siret \notin activated => rows[siret] = NewRow(k)
=============================================================================
