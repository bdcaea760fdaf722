------------------- MODULE CollectivityOnboarding_proofs --------------------
(***************************************************************************)
(* Proofs about CollectivityOnboarding, for any number of jobs, of API     *)
(* calls and of collectivities.                                            *)
(***************************************************************************)
EXTENDS CollectivityOnboarding, TLAPS

(* Where a job stands once its organization exists.                        *)
OnHubEE == {"subscribe", "find_subscription", "find_row", "validate", "save"}

(* What a job has established on HubEE, where it stands.                   *)
JobOnHubEE(j) ==
  /\ job[j].pc # "none" => Siret(j) \in Sirets
  /\ job[j].pc \in OnHubEE \cup {"create_organization"} => job[j].commune \in Communes
  /\ job[j].pc \in OnHubEE => Org(j) \in organizations
  /\ job[j].pc \in OnHubEE \ {"subscribe"} => Subscribed(Org(j))

(* The copy of the row a job goes on with may be stale, but the row is     *)
(* still there and has not become inactive again.                          *)
JobFound(j) ==
  job[j].pc \in {"validate", "save"} /\ found[j] # None =>
    /\ rows[Siret(j)] # None
    /\ found[j].status = "active" => rows[Siret(j)].status = "active"

(* An unreported success has activated its siret.                          *)
JobSuccess(j) == job[j].pc = "succeeded" /\ j \notin reported => Siret(j) \in activated

JobInv(j) == JobOnHubEE(j) /\ JobFound(j) /\ JobSuccess(j)

(* A siret that was activated is on HubEE and active in the table.         *)
KnownToHubEE(s) ==
  \E commune \in Communes : <<s, commune>> \in organizations /\ Subscribed(<<s, commune>>)

Activated(s) ==
  /\ s \in Sirets
  /\ KnownToHubEE(s)
  /\ rows[s] # None
  /\ rows[s].status = "active"

(* A call that goes on has a siret, and a 201 has its row.                 *)
CallInv(k) ==
  /\ call[k].pc # "none" => call[k].siret \in Sirets
  /\ call[k].pc = "created" =>
       /\ rows[call[k].siret] # None
       /\ rows[call[k].siret].origin = k
       /\ call[k].siret \notin activated => rows[call[k].siret] = NewRow(k)

Inv ==
  /\ TypeOK
  /\ \A j \in Jobs : JobInv(j)
  /\ \A s \in activated : Activated(s)
  /\ \A k \in Calls : CallInv(k)

(* What others rely on: the shared state only grows.  Organizations and    *)
(* subscriptions stay; a row stays, of the same origin, once active stays  *)
(* active, and is as it was until its siret is activated; what was         *)
(* activated or reported remains so.                                       *)
RowGrows(s) ==
  rows[s] # None =>
    /\ rows'[s] # None
    /\ rows'[s].origin = rows[s].origin
    /\ rows[s].status = "active" => rows'[s].status = "active"
    /\ s \notin activated' => rows'[s] = rows[s]

Grows ==
  /\ organizations \subseteq organizations'
  /\ \A o \in Organizations : Subscribed(o) => Subscribed(o)'
  /\ \A s \in Sirets : RowGrows(s)
  /\ activated \subseteq activated'
  /\ reported \subseteq reported'

-----------------------------------------------------------------------------
USE NoneAssumption
USE DEF Siret, Org, Organizations, OnHubEE, hubee, history

(* Initially nothing has been approved, asked for or created.              *)
LEMMA InitInv == Init => Inv
BY DEF Init, Inv, TypeOK, JobInv, JobOnHubEE, JobFound, JobSuccess, CallInv, Job, Call

LEMMA StutterInv == Inv /\ UNCHANGED vars => Inv'
<1> SUFFICES ASSUME Inv, UNCHANGED vars PROVE Inv'
  OBVIOUS
<1>1. TypeOK'
  BY DEF Inv, TypeOK, vars
<1>2. ASSUME NEW j \in Jobs PROVE JobInv(j)'
  BY DEF Inv, JobInv, JobOnHubEE, JobFound, JobSuccess, Subscribed, vars
<1>3. ASSUME NEW s \in activated' PROVE Activated(s)'
  BY DEF Inv, Activated, KnownToHubEE, Subscribed, vars
<1>4. ASSUME NEW k \in Calls PROVE CallInv(k)'
  BY DEF Inv, CallInv, NewRow, vars
<1> QED BY <1>1, <1>2, <1>3, <1>4 DEF Inv

(* A job's step disturbs neither the other jobs nor the calls as long as   *)
(* the shared state only grows.                                            *)
LEMMA JobStep ==
  ASSUME Inv, TypeOK', NEW j \in Jobs, Grows,
         \A i \in Jobs \ {j} : job'[i] = job[i] /\ found'[i] = found[i],
         JobInv(j)',
         \A s \in activated' \ activated : Activated(s)',
         UNCHANGED call
  PROVE  Inv'
<1>1. ASSUME NEW i \in Jobs PROVE JobInv(i)'
  <2>1. CASE i = j
    BY <2>1
  <2>2. CASE i # j
    <3>1. JobInv(i) /\ job'[i] = job[i] /\ found'[i] = found[i]
      BY <2>2 DEF Inv
    <3>2. job[i].pc # "none" => Siret(i) \in Sirets
      BY <3>1 DEF JobInv, JobOnHubEE
    <3>3. JobOnHubEE(i)'
      BY <3>1, <3>2 DEF Grows, JobInv, JobOnHubEE
    <3>4. JobFound(i)'
      BY <3>1, <3>2 DEF Grows, RowGrows, JobInv, JobFound
    <3>5. JobSuccess(i)'
      BY <3>1 DEF Grows, JobInv, JobSuccess
    <3> QED BY <3>3, <3>4, <3>5 DEF JobInv
  <2> QED BY <2>1, <2>2
<1>2. ASSUME NEW s \in activated' PROVE Activated(s)'
  <2>1. CASE s \in activated
    <3>1. Activated(s)
      BY <2>1 DEF Inv
    <3>2. KnownToHubEE(s)'
      BY <3>1 DEF Activated, KnownToHubEE, Grows
    <3> QED BY <3>1, <3>2 DEF Activated, Grows, RowGrows
  <2> QED BY <2>1
<1>3. ASSUME NEW k \in Calls PROVE CallInv(k)'
  BY DEF Inv, CallInv, NewRow, Grows, RowGrows
<1> QED BY <1>1, <1>2, <1>3 DEF Inv

(* A job that goes to another place keeps what it was enqueued with.       *)
LEMMA Move ==
  ASSUME TypeOK, NEW j \in Jobs,
         NEW to \in {"queued", "find_organization", "create_organization", "subscribe",
                     "find_subscription", "find_row", "validate", "save", "succeeded",
                     "discarded"},
         job' = [job EXCEPT ![j].pc = to]
  PROVE  /\ job' \in [Jobs -> Job]
         /\ job'[j].pc = to
         /\ job'[j].siret = job[j].siret
         /\ job'[j].editor = job[j].editor
         /\ job'[j].commune = job[j].commune
         /\ \A i \in Jobs \ {j} : job'[i] = job[i]
<1> DEFINE moved == [job[j] EXCEPT !.pc = to]
<1>1. job \in [Jobs -> Job] /\ job[j] \in Job /\ job' = [job EXCEPT ![j] = moved]
  BY DEF TypeOK
<1>2. /\ moved \in Job
      /\ moved.pc = to
      /\ moved.siret = job[j].siret
      /\ moved.editor = job[j].editor
      /\ moved.commune = job[j].commune
  BY <1>1 DEF Job
<1> QED BY <1>1, <1>2

(* ... and so does one that learns its commune, or forgets it.             *)
LEMMA MoveWithCommune ==
  ASSUME TypeOK, NEW j \in Jobs,
         NEW to \in {"queued", "create_organization", "subscribe"},
         NEW commune \in Communes \cup {None},
         job' = [job EXCEPT ![j].pc = to, ![j].commune = commune]
  PROVE  /\ job' \in [Jobs -> Job]
         /\ job'[j].pc = to
         /\ job'[j].siret = job[j].siret
         /\ job'[j].commune = commune
         /\ \A i \in Jobs \ {j} : job'[i] = job[i]
<1> DEFINE moved == [job[j] EXCEPT !.pc = to, !.commune = commune]
<1>1. job \in [Jobs -> Job] /\ job[j] \in Job
  BY DEF TypeOK
<1>2. job' = [job EXCEPT ![j] = moved]
  BY <1>1
<1>3. moved \in Job /\ moved.pc = to /\ moved.siret = job[j].siret /\ moved.commune = commune
  BY <1>1 DEF Job
<1> QED BY <1>1, <1>2, <1>3

(* Whatever the step that raised has left on HubEE, the swallowed and      *)
(* reported exception ends the job and nothing else.                       *)
LEMMA SwallowInv ==
  ASSUME Inv, NEW j \in Jobs, job[j].pc # "none", Swallow(j),
         \/ organizations' = organizations
         \/ organizations' = organizations \cup {Org(j)} /\ job[j].commune \in Communes,
         subscriptions' \in [Organizations -> {"inactive", "active", None}],
         \A o \in Organizations : Subscribed(o) => Subscribed(o)',
         UNCHANGED <<found, call, rows, activated>>
  PROVE  Inv'
<1>1. /\ job' \in [Jobs -> Job]
      /\ job'[j].pc = "succeeded"
      /\ job'[j].siret = job[j].siret
      /\ \A i \in Jobs \ {j} : job'[i] = job[i]
  BY Move DEF Inv, Swallow
<1>2. Siret(j) \in Sirets
  BY DEF Inv, JobInv, JobOnHubEE
<1>3. TypeOK'
  BY <1>1, <1>2 DEF Inv, TypeOK, Swallow
<1>4. Grows
  BY DEF Grows, RowGrows, Swallow
<1>5. JobInv(j)'
  BY <1>1, <1>2 DEF JobInv, JobOnHubEE, JobFound, JobSuccess, Swallow
<1> QED BY <1>1, <1>3, <1>4, <1>5, JobStep

(* A job that goes on without touching the shared state.                   *)
LEMMA GoOnInv ==
  ASSUME Inv, NEW j \in Jobs, job[j].pc # "none",
         NEW to \in {"queued", "find_organization", "create_organization", "discarded"}
                    \cup OnHubEE,
         job' \in [Jobs -> Job], job'[j].pc = to, job'[j].siret = job[j].siret,
         \A i \in Jobs \ {j} : job'[i] = job[i],
         to \in OnHubEE \cup {"create_organization"} => job'[j].commune \in Communes,
         to \in OnHubEE => Org(j)' \in organizations,
         to \in OnHubEE \ {"subscribe"} => Subscribed(Org(j))',
         to = "save" => job[j].pc = "validate" /\ found' = found,
         to = "validate" => found'[j] = rows[Siret(j)],
         \A i \in Jobs \ {j} : found'[i] = found[i],
         found' \in [Jobs -> Row \cup {None}],
         UNCHANGED <<call, hubee, rows, history>>
  PROVE  Inv'
<1>1. Siret(j) \in Sirets
  BY DEF Inv, JobInv, JobOnHubEE
<1>2. TypeOK'
  BY DEF Inv, TypeOK
<1>3. Grows
  BY DEF Grows, RowGrows, Subscribed
<1>4. JobInv(j)'
  <2>1. JobOnHubEE(j)'
    BY <1>1 DEF JobOnHubEE, Subscribed
  <2>2. JobFound(j)'
    BY DEF Inv, JobInv, JobFound
  <2>3. JobSuccess(j)'
    BY DEF JobSuccess
  <2> QED BY <2>1, <2>2, <2>3 DEF JobInv
<1> QED BY <1>2, <1>3, <1>4, JobStep

-----------------------------------------------------------------------------
LEMMA ReceiveApprovalInv ==
  ASSUME Inv, NEW j \in Jobs, NEW siret \in Sirets, NEW editor \in Editors \cup {None},
         NEW phone \in BOOLEAN, ReceiveApproval(j, siret, editor, phone)
  PROVE  Inv'
<1>1. /\ job' \in [Jobs -> Job]
      /\ job'[j] = Enqueued(siret, editor, phone)
      /\ \A i \in Jobs \ {j} : job'[i] = job[i]
  BY DEF Inv, TypeOK, ReceiveApproval, Enqueued, Job
<1>2. TypeOK'
  BY <1>1 DEF Inv, TypeOK, ReceiveApproval
<1>3. Grows
  BY DEF Grows, RowGrows, Subscribed, ReceiveApproval
<1>4. JobInv(j)'
  BY <1>1 DEF JobInv, JobOnHubEE, JobFound, JobSuccess, Enqueued
<1> QED BY <1>1, <1>2, <1>3, <1>4, JobStep DEF ReceiveApproval

LEMMA RerunWithPhoneInv ==
  ASSUME Inv, NEW j \in Jobs, RerunWithPhone(j)
  PROVE  Inv'
<1>1. /\ job' \in [Jobs -> Job]
      /\ job'[j].pc = "queued"
      /\ job'[j].siret = job[j].siret
      /\ \A i \in Jobs \ {j} : job'[i] = job[i]
  <2> DEFINE rerun == [job[j] EXCEPT !.pc = "queued", !.phone = TRUE]
  <2>1. job \in [Jobs -> Job] /\ job[j] \in Job
    BY DEF Inv, TypeOK
  <2>2. job' = [job EXCEPT ![j] = rerun]
    BY <2>1 DEF RerunWithPhone
  <2>3. rerun \in Job /\ rerun.pc = "queued" /\ rerun.siret = job[j].siret
    BY <2>1 DEF Job
  <2> QED BY <2>1, <2>2, <2>3
<1>2. TypeOK'
  BY <1>1 DEF Inv, TypeOK, RerunWithPhone
<1>3. Grows
  BY DEF Grows, RowGrows, Subscribed, RerunWithPhone
<1>4. Siret(j) \in Sirets
  BY DEF Inv, JobInv, JobOnHubEE, RerunWithPhone
<1>5. JobInv(j)'
  BY <1>1, <1>4 DEF JobInv, JobOnHubEE, JobFound, JobSuccess
<1> QED BY <1>1, <1>2, <1>3, <1>5, JobStep DEF RerunWithPhone

(* Steps that only move the job.                                           *)
LEMMA QuietStepsInv ==
  ASSUME Inv, NEW j \in Jobs,
         \/ StartJob(j) \/ Interrupted(j) \/ FindOrganization(j) \/ FindSubscription(j)
         \/ FindOrInitializeRow(j)
  PROVE  Inv'
<1>1. TypeOK /\ JobInv(j)
  BY DEF Inv
<1>2. CASE StartJob(j)
  <2>1. PICK to \in {"find_organization", "discarded"} : job' = [job EXCEPT ![j].pc = to]
    BY <1>2 DEF StartJob, Goto
  <2>2. job' \in [Jobs -> Job] /\ job'[j].pc = to /\ job'[j].siret = job[j].siret
        /\ \A i \in Jobs \ {j} : job'[i] = job[i]
    BY <1>1, <2>1, Move
  <2> QED BY <1>1, <1>2, <2>1, <2>2, GoOnInv DEF StartJob, Goto, TypeOK
<1>3. CASE Interrupted(j)
  <2>1. found' \in [Jobs -> Row \cup {None}] /\ \A i \in Jobs \ {j} : found'[i] = found[i]
    BY <1>1, <1>3 DEF Interrupted, TypeOK
  <2>2. /\ job' \in [Jobs -> Job]
        /\ job'[j].pc = "queued"
        /\ job'[j].siret = job[j].siret
        /\ \A i \in Jobs \ {j} : job'[i] = job[i]
    BY <1>1, <1>3, MoveWithCommune DEF Interrupted
  <2> QED BY <1>3, <2>1, <2>2, GoOnInv DEF Interrupted, Running
<1>4. CASE FindOrganization(j)
  <2>1. PICK commune \in Communes, to \in {"subscribe", "create_organization"} :
          /\ job' = [job EXCEPT ![j].pc = to, ![j].commune = commune]
          /\ to = "subscribe" => <<Siret(j), commune>> \in organizations
    BY <1>4 DEF FindOrganization
  <2>2. /\ job' \in [Jobs -> Job]
        /\ job'[j].pc = to
        /\ job'[j].siret = job[j].siret
        /\ job'[j].commune = commune
        /\ \A i \in Jobs \ {j} : job'[i] = job[i]
    BY <1>1, <2>1, MoveWithCommune
  <2>3. to \in OnHubEE => Org(j)' \in organizations
    BY <2>1, <2>2
  <2>4. /\ to \in {"queued", "find_organization", "create_organization", "discarded"} \cup OnHubEE
        /\ to \notin OnHubEE \ {"subscribe"}
        /\ to # "save" /\ to # "validate"
    OBVIOUS
  <2>5. /\ job[j].pc # "none"
        /\ UNCHANGED <<found, call, hubee, rows, history>>
        /\ found \in [Jobs -> Row \cup {None}]
    BY <1>1, <1>4 DEF FindOrganization, TypeOK
  <2> QED BY <2>2, <2>3, <2>4, <2>5, GoOnInv
<1>5. CASE FindSubscription(j)
  <2>1. /\ job[j].commune \in Communes
        /\ Org(j) \in organizations
        /\ Subscribed(Org(j))
    BY <1>1, <1>5 DEF FindSubscription, Goto, JobInv, JobOnHubEE
  <2>2. /\ job' \in [Jobs -> Job]
        /\ job'[j].pc = "find_row"
        /\ job'[j].siret = job[j].siret
        /\ job'[j].commune = job[j].commune
        /\ \A i \in Jobs \ {j} : job'[i] = job[i]
    BY <1>1, <1>5, Move DEF FindSubscription, Goto
  <2>3. Subscribed(Org(j))'
    BY <1>5, <2>1, <2>2 DEF FindSubscription, Subscribed
  <2> QED BY <1>1, <1>5, <2>1, <2>2, <2>3, GoOnInv DEF FindSubscription, Goto, TypeOK
<1>6. CASE FindOrInitializeRow(j)
  <2>1. /\ Siret(j) \in Sirets
        /\ job[j].commune \in Communes
        /\ Org(j) \in organizations
        /\ Subscribed(Org(j))
    BY <1>1, <1>6 DEF FindOrInitializeRow, Goto, JobInv, JobOnHubEE
  <2>2. /\ found' \in [Jobs -> Row \cup {None}]
        /\ found'[j] = rows[Siret(j)]
        /\ \A i \in Jobs \ {j} : found'[i] = found[i]
    BY <1>1, <1>6, <2>1 DEF FindOrInitializeRow, TypeOK
  <2>3. /\ job' \in [Jobs -> Job]
        /\ job'[j].pc = "validate"
        /\ job'[j].siret = job[j].siret
        /\ job'[j].commune = job[j].commune
        /\ \A i \in Jobs \ {j} : job'[i] = job[i]
    BY <1>1, <1>6, Move DEF FindOrInitializeRow, Goto
  <2>4. Subscribed(Org(j))'
    BY <1>6, <2>1, <2>3 DEF FindOrInitializeRow, Subscribed
  <2> QED BY <1>6, <2>1, <2>2, <2>3, <2>4, GoOnInv DEF FindOrInitializeRow, Goto
<1> QED BY <1>2, <1>3, <1>4, <1>5, <1>6

LEMMA StepRaisesInv ==
  ASSUME Inv, NEW j \in Jobs, StepRaises(j)
  PROVE  Inv'
BY SwallowInv DEF Inv, TypeOK, StepRaises, Running, Subscribed

LEMMA ValidateRowInv ==
  ASSUME Inv, NEW j \in Jobs, ValidateRow(j)
  PROVE  Inv'
<1>1. TypeOK /\ JobInv(j) /\ job[j].pc = "validate"
  BY DEF Inv, ValidateRow
<1>2. CASE Swallow(j)
  BY <1>1, <1>2, SwallowInv DEF ValidateRow, TypeOK, Subscribed
<1>3. CASE Goto(j, "validate", "save") /\ UNCHANGED reported
  <2>1. /\ job[j].commune \in Communes
        /\ Org(j) \in organizations
        /\ Subscribed(Org(j))
    BY <1>1 DEF JobInv, JobOnHubEE
  <2>2. /\ job' \in [Jobs -> Job]
        /\ job'[j].pc = "save"
        /\ job'[j].siret = job[j].siret
        /\ job'[j].commune = job[j].commune
        /\ \A i \in Jobs \ {j} : job'[i] = job[i]
    BY <1>1, <1>3, Move DEF Goto
  <2>3. Subscribed(Org(j))'
    BY <2>1, <2>2 DEF ValidateRow, Subscribed
  <2> QED BY <1>1, <1>3, <2>1, <2>2, <2>3, GoOnInv DEF ValidateRow, TypeOK
<1> QED BY <1>2, <1>3 DEF ValidateRow

(* A step of HubEE's that answers in time: the job goes on.                *)
LEMMA HubEEStepInv ==
  ASSUME Inv, NEW j \in Jobs, job[j].pc # "none",
         NEW to \in {"subscribe", "find_row"}, job' = [job EXCEPT ![j].pc = to],
         job[j].commune \in Communes,
         organizations' \in {organizations, organizations \cup {Org(j)}},
         subscriptions' \in [Organizations -> {"inactive", "active", None}],
         \A o \in Organizations : Subscribed(o) => Subscribed(o)',
         Org(j) \in organizations',
         to = "find_row" => Subscribed(Org(j))',
         UNCHANGED <<found, call, rows, history>>
  PROVE  Inv'
<1>1. /\ job' \in [Jobs -> Job]
      /\ job'[j].pc = to
      /\ job'[j].siret = job[j].siret
      /\ job'[j].commune = job[j].commune
      /\ \A i \in Jobs \ {j} : job'[i] = job[i]
  BY Move DEF Inv
<1>2. Siret(j) \in Sirets
  BY DEF Inv, JobInv, JobOnHubEE
<1>3. TypeOK'
  BY <1>1, <1>2 DEF Inv, TypeOK
<1>4. Grows
  BY DEF Grows, RowGrows
<1>5. JobInv(j)'
  BY <1>1, <1>2 DEF JobInv, JobOnHubEE, JobFound, JobSuccess, Subscribed
<1> QED BY <1>1, <1>3, <1>4, <1>5, JobStep

LEMMA CreateOrganizationInv ==
  ASSUME Inv, NEW j \in Jobs, CreateOrganization(j)
  PROVE  Inv'
<1>1. job[j].pc = "create_organization" /\ organizations' = organizations \cup {Org(j)}
  BY DEF CreateOrganization
<1>5. job[j].commune \in Communes
  BY <1>1 DEF Inv, JobInv, JobOnHubEE
<1>2. subscriptions' \in [Organizations -> {"inactive", "active", None}]
      /\ \A o \in Organizations : Subscribed(o) => Subscribed(o)'
  BY DEF Inv, TypeOK, CreateOrganization, Subscribed
<1>3. CASE Swallow(j)
  BY <1>1, <1>2, <1>3, <1>5, SwallowInv DEF CreateOrganization
<1>4. CASE Goto(j, "create_organization", "subscribe") /\ UNCHANGED reported
  BY <1>1, <1>2, <1>4, <1>5, HubEEStepInv DEF CreateOrganization, Goto
<1> QED BY <1>3, <1>4 DEF CreateOrganization

LEMMA CreateSubscriptionInv ==
  ASSUME Inv, NEW j \in Jobs, CreateSubscription(j)
  PROVE  Inv'
<1>1. /\ TypeOK
      /\ job[j].pc = "subscribe"
      /\ Siret(j) \in Sirets
      /\ job[j].commune \in Communes
      /\ Org(j) \in organizations
  BY DEF Inv, CreateSubscription, JobInv, JobOnHubEE
<1>2. CASE Subscribed(Org(j))
  <2>1. /\ job' \in [Jobs -> Job]
        /\ job'[j].pc = "find_subscription"
        /\ job'[j].siret = job[j].siret
        /\ job'[j].commune = job[j].commune
        /\ \A i \in Jobs \ {j} : job'[i] = job[i]
    BY <1>1, <1>2, Move DEF CreateSubscription, Goto
  <2>2. Subscribed(Org(j))'
    BY <1>2, <2>1 DEF CreateSubscription, Subscribed
  <2> QED BY <1>1, <1>2, <2>1, <2>2, GoOnInv DEF CreateSubscription, TypeOK
<1>3. CASE ~ Subscribed(Org(j))
  <2>1. /\ subscriptions' \in [Organizations -> {"inactive", "active", None}]
        /\ \A o \in Organizations : Subscribed(o) => Subscribed(o)'
        /\ Subscribed(Org(j))'
    <3>1. subscriptions' = [subscriptions EXCEPT ![Org(j)] = "inactive"]
          /\ Org(j)' = Org(j)
      BY <1>1, <1>3, Move DEF CreateSubscription, Subscribe, Goto, Swallow
    <3> QED BY <1>1, <3>1 DEF TypeOK, Subscribed
  <2>2. CASE Swallow(j)
    BY <1>1, <1>3, <2>1, <2>2, SwallowInv DEF CreateSubscription
  <2>3. CASE Goto(j, "subscribe", "find_row") /\ UNCHANGED reported
    BY <1>1, <1>3, <2>1, <2>3, HubEEStepInv DEF CreateSubscription, Goto
  <2> QED BY <1>3, <2>2, <2>3 DEF CreateSubscription
<1> QED BY <1>2, <1>3

(* A row that is inserted is nobody else's: the index has refused the      *)
(* others.                                                                 *)
LEMMA SaveNewRowInv ==
  ASSUME Inv, NEW j \in Jobs, SaveNewRow(j)
  PROVE  Inv'
<1> DEFINE row == [status |-> "active", editor |-> job[j].editor, origin |-> j]
<1>1. TypeOK /\ job[j].pc = "save" /\ job[j] \in Job /\ found' = found /\ UNCHANGED <<call, hubee>>
  BY DEF Inv, SaveNewRow, TypeOK
<1>2. Siret(j) \in Sirets /\ KnownToHubEE(Siret(j))
  BY <1>1 DEF Inv, JobInv, JobOnHubEE, KnownToHubEE
<1>3. CASE rows[Siret(j)] # None
  BY <1>1, <1>2, <1>3, SwallowInv DEF SaveNewRow, TypeOK, Subscribed
<1>4. CASE rows[Siret(j)] = None
  <2>1. /\ rows' = [rows EXCEPT ![Siret(j)] = row]
        /\ activated' = activated \cup {Siret(j)}
        /\ reported' = reported
        /\ job' = [job EXCEPT ![j].pc = "succeeded"]
    BY <1>4 DEF SaveNewRow, Goto
  <2>2. /\ job' \in [Jobs -> Job]
        /\ job'[j].pc = "succeeded"
        /\ job'[j].siret = job[j].siret
        /\ \A i \in Jobs \ {j} : job'[i] = job[i]
    BY <1>1, <2>1, Move
  <2>3. row \in Row /\ row # None
    BY <1>1 DEF Row, Job
  <2>4. TypeOK'
    BY <1>1, <1>2, <2>1, <2>2, <2>3 DEF TypeOK
  <2>5. Grows
    BY <1>1, <1>2, <1>4, <2>1 DEF Grows, RowGrows, Subscribed, TypeOK
  <2>6. rows'[Siret(j)] = row
    BY <1>1, <1>2, <2>1 DEF TypeOK
  <2>7. Activated(Siret(j))'
    BY <1>1, <1>2, <2>2, <2>3, <2>6 DEF Activated, KnownToHubEE, Subscribed
  <2>8. JobInv(j)'
    BY <1>1, <1>2, <2>1, <2>2 DEF JobInv, JobOnHubEE, JobFound, JobSuccess
  <2>9. \A s \in activated' \ activated : Activated(s)'
    BY <1>1, <1>2, <2>1, <2>2, <2>3, <2>6 DEF Activated, KnownToHubEE, Subscribed
  <2> QED BY <1>1, <2>2, <2>4, <2>5, <2>8, <2>9, JobStep
<1> QED BY <1>3, <1>4

(* A row that is updated is active afterwards, also when the copy was      *)
(* stale: what was active when it was read has stayed active.              *)
LEMMA UpdateRowInv ==
  ASSUME Inv, NEW j \in Jobs, UpdateRow(j)
  PROVE  Inv'
<1>1. /\ TypeOK /\ job[j].pc = "save" /\ job[j] \in Job /\ found' = found /\ UNCHANGED <<call, hubee>>
      /\ found[j] # None /\ found[j] \in Row
      /\ job' = [job EXCEPT ![j].pc = "succeeded"]
      /\ activated' = activated \cup {Siret(j)}
      /\ reported' = reported
  BY DEF Inv, UpdateRow, TypeOK, Goto
<1>2. /\ Siret(j) \in Sirets /\ KnownToHubEE(Siret(j))
      /\ rows[Siret(j)] # None
      /\ found[j].status = "active" => rows[Siret(j)].status = "active"
  BY <1>1 DEF Inv, JobInv, JobOnHubEE, JobFound, KnownToHubEE
<1>3. rows[Siret(j)] \in Row
  BY <1>1, <1>2 DEF TypeOK
<1>4. PICK row \in Row : /\ rows' = [rows EXCEPT ![Siret(j)] = row]
                         /\ row.status = "active"
                         /\ row.origin = rows[Siret(j)].origin
  <2> DEFINE row == [rows[Siret(j)] EXCEPT
                       !.status = IF found[j].status = "active" THEN @ ELSE "active",
                       !.editor = IF found[j].editor = job[j].editor THEN @ ELSE job[j].editor]
  <2>1. rows' = [rows EXCEPT ![Siret(j)] = row]
    BY <1>1, <1>2 DEF UpdateRow, TypeOK
  <2>2. row \in Row /\ row.status = "active" /\ row.origin = rows[Siret(j)].origin
    BY <1>1, <1>2, <1>3 DEF Row, Job
  <2> QED BY <2>1, <2>2
<1>5. /\ job' \in [Jobs -> Job]
      /\ job'[j].pc = "succeeded"
      /\ job'[j].siret = job[j].siret
      /\ \A i \in Jobs \ {j} : job'[i] = job[i]
  BY <1>1, Move
<1>6. TypeOK'
  BY <1>1, <1>2, <1>4, <1>5 DEF TypeOK
<1>7. Grows
  BY <1>1, <1>2, <1>4 DEF Grows, RowGrows, Subscribed, TypeOK
<1>8. rows'[Siret(j)] # None /\ rows'[Siret(j)].status = "active"
  BY <1>1, <1>2, <1>4 DEF TypeOK
<1>9. \A s \in activated' \ activated : Activated(s)'
  BY <1>1, <1>2, <1>5, <1>8 DEF Activated, KnownToHubEE, Subscribed
<1>10. JobInv(j)'
  BY <1>1, <1>2, <1>5 DEF JobInv, JobOnHubEE, JobFound, JobSuccess
<1> QED BY <1>1, <1>5, <1>6, <1>7, <1>9, <1>10, JobStep

-----------------------------------------------------------------------------
(* What is not a job's step disturbs no job.                               *)
LEMMA WorldStep ==
  ASSUME Inv, TypeOK', Grows, UNCHANGED <<job, found, history>>,
         \A k \in Calls : CallInv(k)'
  PROVE  Inv'
<1>1. ASSUME NEW i \in Jobs PROVE JobInv(i)'
  BY DEF Inv, JobInv, JobOnHubEE, JobFound, JobSuccess, Grows, RowGrows
<1>2. ASSUME NEW s \in activated' PROVE Activated(s)'
  <2>1. Activated(s) /\ s \in activated
    BY DEF Inv
  <2>2. KnownToHubEE(s)'
    BY <2>1 DEF Activated, KnownToHubEE, Grows
  <2> QED BY <2>1, <2>2 DEF Activated, Grows, RowGrows
<1> QED BY <1>1, <1>2 DEF Inv

LEMMA ActivateSubscriptionInv ==
  ASSUME Inv, NEW org \in Organizations, ActivateSubscription(org)
  PROVE  Inv'
<1>1. TypeOK'
  BY DEF Inv, TypeOK, ActivateSubscription
<1>2. Grows
  BY DEF Inv, TypeOK, ActivateSubscription, Grows, RowGrows, Subscribed
<1>3. \A k \in Calls : CallInv(k)'
  BY DEF Inv, CallInv, NewRow, ActivateSubscription
<1> QED BY <1>1, <1>2, <1>3, WorldStep DEF ActivateSubscription

LEMMA ReceiveCallInv ==
  ASSUME Inv, NEW k \in Calls, NEW siret \in Sirets, NEW status \in {"active", "inactive"},
         NEW editor \in Editors \cup {None}, ReceiveCall(k, siret, status, editor)
  PROVE  Inv'
<1>1. TypeOK'
  BY DEF Inv, TypeOK, ReceiveCall, Call
<1>2. Grows
  BY DEF ReceiveCall, Grows, RowGrows, Subscribed
<1>3. \A i \in Calls : CallInv(i)'
  BY DEF Inv, TypeOK, CallInv, NewRow, ReceiveCall
<1> QED BY <1>1, <1>2, <1>3, WorldStep DEF ReceiveCall

LEMMA ValidateCallInv ==
  ASSUME Inv, NEW k \in Calls, ValidateCall(k)
  PROVE  Inv'
<1>1. PICK to \in {"conflict", "save", "unprocessable"} : call' = [call EXCEPT ![k].pc = to]
  BY DEF ValidateCall, Answer
<1>2. call[k] \in Call /\ call[k].pc = "build"
  BY DEF Inv, TypeOK, ValidateCall
<1>3. [call[k] EXCEPT !.pc = to] \in Call
  BY <1>2 DEF Call
<1>4. TypeOK'
  BY <1>1, <1>3 DEF Inv, TypeOK, ValidateCall
<1>5. Grows
  BY DEF ValidateCall, Grows, RowGrows, Subscribed
<1>6. ASSUME NEW i \in Calls PROVE CallInv(i)'
  <2>1. CASE i = k
    BY <1>1, <1>2, <2>1 DEF Inv, TypeOK, CallInv, Call
  <2>2. CASE i # k
    BY <1>1, <2>2 DEF Inv, TypeOK, CallInv, NewRow, ValidateCall
  <2> QED BY <2>1, <2>2
<1> QED BY <1>4, <1>5, <1>6, WorldStep DEF ValidateCall

(* The call that gets a 201 has inserted its row where there was none.     *)
LEMMA InsertRowInv ==
  ASSUME Inv, NEW k \in Calls, InsertRow(k)
  PROVE  Inv'
<1>1. TypeOK /\ call[k].pc = "save" /\ call[k] \in Call /\ call[k].siret \in Sirets
  BY DEF Inv, TypeOK, CallInv, InsertRow
<1>2. NewRow(k) \in Row /\ NewRow(k).origin = k
  BY <1>1 DEF NewRow, Row, Call
<1>3. TypeOK'
  <2>1. PICK to \in {"created", "raised"} : call' = [call EXCEPT ![k].pc = to]
    BY DEF InsertRow, Answer
  <2>2. [call[k] EXCEPT !.pc = to] \in Call
    BY <1>1 DEF Call
  <2>3. call' \in [Calls -> Call]
    BY <1>1, <2>1, <2>2 DEF TypeOK
  <2>4. rows' \in [Sirets -> Row \cup {None}]
    BY <1>1, <1>2 DEF TypeOK, InsertRow
  <2> QED BY <1>1, <2>3, <2>4 DEF TypeOK, InsertRow
<1>4. Grows
  BY <1>1, <1>2 DEF TypeOK, InsertRow, Grows, RowGrows, Subscribed
<1>5. ASSUME NEW i \in Calls PROVE CallInv(i)'
  <2>1. CASE i = k
    BY <1>1, <1>2, <2>1 DEF TypeOK, InsertRow, Answer, CallInv, NewRow, Call
  <2>2. CASE i # k
    <3>1. CallInv(i) /\ call'[i] = call[i]
      BY <1>1, <2>2 DEF Inv, TypeOK, InsertRow, Answer
    <3> QED BY <1>4, <3>1 DEF CallInv, NewRow, Grows, RowGrows, InsertRow
  <2> QED BY <2>1, <2>2
<1> QED BY <1>3, <1>4, <1>5, WorldStep DEF InsertRow

-----------------------------------------------------------------------------
LEMMA StepInv == Inv /\ [Next]_vars => Inv'
<1> SUFFICES ASSUME Inv, [Next]_vars PROVE Inv'
  OBVIOUS
<1>1. ASSUME NEW j \in Jobs, Works(j) PROVE Inv'
  BY <1>1, QuietStepsInv, CreateOrganizationInv, CreateSubscriptionInv, ValidateRowInv,
     SaveNewRowInv, UpdateRowInv
  DEF Works
<1>2. ASSUME NEW j \in Jobs, NEW siret \in Sirets, NEW editor \in Editors \cup {None},
             NEW phone \in BOOLEAN, ReceiveApproval(j, siret, editor, phone)
      PROVE  Inv'
  BY <1>2, ReceiveApprovalInv
<1>3. ASSUME NEW j \in Jobs, RerunWithPhone(j) \/ StepRaises(j) \/ Interrupted(j) PROVE Inv'
  BY <1>3, RerunWithPhoneInv, StepRaisesInv, QuietStepsInv
<1>4. ASSUME NEW k \in Calls, NEW siret \in Sirets, NEW status \in {"active", "inactive"},
             NEW editor \in Editors \cup {None}, ReceiveCall(k, siret, status, editor)
      PROVE  Inv'
  BY <1>4, ReceiveCallInv
<1>5. ASSUME NEW k \in Calls, ValidateCall(k) \/ InsertRow(k) PROVE Inv'
  BY <1>5, ValidateCallInv, InsertRowInv
<1>6. ASSUME NEW org \in Organizations, ActivateSubscription(org) PROVE Inv'
  BY <1>6, ActivateSubscriptionInv
<1> QED BY <1>1, <1>2, <1>3, <1>4, <1>5, <1>6, StutterInv DEF Next

(* The inductive invariant holds of every behaviour: the shared state only *)
(* grows, so that what a job has established stays established.            *)
THEOREM OnboardingInvariance == Spec => []Inv
BY InitInv, StepInv, PTL DEF Spec

(* The jobs, the calls, HubEE's referential and the table keep their types. *)
THEOREM OnboardingTypes == Spec => []TypeOK
BY OnboardingInvariance, PTL DEF Inv

(* However many jobs race, fail half-way or start again, a collectivity    *)
(* that one of them has made active has its organization and subscription. *)
THEOREM ActivationIsBacked == Spec => []ActivatedIsSubscribed
<1>1. Inv => ActivatedIsSubscribed
  BY DEF Inv, Activated, KnownToHubEE, ActivatedIsSubscribed
<1> QED BY <1>1, OnboardingInvariance, PTL

(* A job that succeeds has left an active collectivity, or has reported    *)
(* the exception that it swallowed.                                        *)
THEOREM NoSilentLoss == Spec => []SuccessIsActiveOrReported
<1>1. Inv => SuccessIsActiveOrReported
  BY DEF Inv, JobInv, JobSuccess, Activated, SuccessIsActiveOrReported
<1> QED BY <1>1, OnboardingInvariance, PTL

(* A call that was answered 201 inserted the row of its siret, which stays *)
(* as the call asked for until a job sets the collectivity up.             *)
THEOREM TrueCreations == Spec => []CreatedIsOwn
<1>1. Inv => CreatedIsOwn
  BY DEF Inv, CallInv, CreatedIsOwn
<1> QED BY <1>1, OnboardingInvariance, PTL
=============================================================================
