---------------------------- MODULE ManageTuiProofs ----------------------------
(***************************************************************************)
(* For every number of names, requests, commands, keys and faults: two     *)
(* promises of the catalogue (every service has a probe config, and what   *)
(* was submitted is not submitted again by a later request), that the      *)
(* terminal's cursor stays on a row, and that a saved config is the one of *)
(* the form.                                                               *)
(***************************************************************************)
EXTENDS ManageTui, FiniteSetTheorems, TLAPS

\* The table `commands` has an entry for each command, and an upsert under way is for
\* a service that is there.
ProbedInv ==
  /\ ServicesAreProbed
  /\ commands = [c \in Command |-> commands[c]]
  /\ \A c \in Command : commands[c].kind = "upsert" => commands[c].id \in DOMAIN services

\* A step of the terminal that leaves the tables alone and starts no upsert.
Harmless ==
  /\ UNCHANGED <<services, configs>>
  /\ \/ UNCHANGED commands
     \/ \E c \in Command : \E message :
          message.kind # "upsert" /\ commands' = [commands EXCEPT ![c] = message]

\* Keys and messages, and the commands that fail or only read.
TuiQuiet ==
  \/ MoveCursor \/ StartSearch \/ Search \/ PressNew \/ OpenSelected \/ PressDelete
  \/ Detail \/ EditField \/ Save \/ Cancel \/ ConfirmDelete
  \/ \E c \in Command : QueryServices(c) \/ CommandFails(c) \/ servicesLoadedMsg(c)
                          \/ servicesSavedMsg(c) \/ errMsg(c)

LEMMA HarmlessKeeps ==
  ASSUME ProbedInv, Harmless
  PROVE  ProbedInv'
BY DEF ProbedInv, Harmless, ServicesAreProbed

LEMMA QuietIsHarmless ==
  ASSUME TuiQuiet
  PROVE  Harmless
<1>1. CASE MoveCursor \/ StartSearch \/ Search \/ PressNew \/ OpenSelected \/ PressDelete
           \/ Detail \/ EditField \/ Cancel
  BY <1>1 DEF MoveCursor, StartSearch, Search, PressNew, OpenSelected, PressDelete, Detail,
              EditField, Cancel, Shows, Lists, catalogue, Harmless
<1>2. CASE Save
  <2>1. PICK c \in Command :
          Starts(c, [kind |-> IF screen.view = "create" THEN "create" ELSE "update",
                     id |-> screen.id, service |-> screen.service, probe |-> screen.probe])
    BY <1>2 DEF Save
  <2> DEFINE m == [kind |-> IF screen.view = "create" THEN "create" ELSE "update",
                   id |-> screen.id, service |-> screen.service, probe |-> screen.probe]
  <2>2. m.kind # "upsert" /\ commands' = [commands EXCEPT ![c] = m]
    BY <2>1 DEF Starts
  <2>3. UNCHANGED <<services, configs>>
    BY <1>2 DEF Save, catalogue
  <2> HIDE DEF m
  <2>4. QED
    BY <2>2, <2>3 DEF Harmless
<1>3. CASE ConfirmDelete
  <2>1. PICK c \in Command : Starts(c, [kind |-> "delete", id |-> screen.id])
    BY <1>3 DEF ConfirmDelete
  <2> DEFINE m == [kind |-> "delete", id |-> screen.id]
  <2>2. m.kind # "upsert" /\ commands' = [commands EXCEPT ![c] = m]
    BY <2>1 DEF Starts
  <2>3. UNCHANGED <<services, configs>>
    BY <1>3 DEF ConfirmDelete, catalogue
  <2> HIDE DEF m
  <2>4. QED
    BY <2>2, <2>3 DEF Harmless
<1>4. ASSUME NEW c \in Command,
             QueryServices(c) \/ CommandFails(c) \/ servicesLoadedMsg(c)
               \/ servicesSavedMsg(c) \/ errMsg(c)
      PROVE  Harmless
  <2>1. UNCHANGED <<services, configs>>
    BY <1>4 DEF QueryServices, CommandFails, servicesLoadedMsg, servicesSavedMsg, errMsg,
                catalogue
  <2>2. CASE QueryServices(c)
    <3>1. PICK rows \in GetAllServicesForManage :
            commands' = [commands EXCEPT ![c] = Loaded(rows)]
      BY <2>2 DEF QueryServices, Answers
    <3>2. Loaded(rows).kind # "upsert"
      BY DEF Loaded
    <3>3. QED
      BY <2>1, <3>1, <3>2 DEF Harmless
  <2>3. CASE ~QueryServices(c)
    <3>1. PICK message \in {Message("error"), Idle, Load} :
            commands' = [commands EXCEPT ![c] = message]
      BY <1>4, <2>3 DEF CommandFails, servicesLoadedMsg, servicesSavedMsg, errMsg, Answers
    <3>2. message.kind # "upsert"
      BY <3>1 DEF Message, Idle, Load
    <3>3. QED
      BY <2>1, <3>1, <3>2 DEF Harmless
  <2>4. QED
    BY <2>2, <2>3
<1>5. QED
  BY <1>1, <1>2, <1>3, <1>4 DEF TuiQuiet

\* The first half of a save, when it goes on to the config.
LEMMA ThenUpsertKeeps ==
  ASSUME ProbedInv, NEW c \in Command, NEW id, id \in DOMAIN services', ThenUpsert(c, id),
         DOMAIN services \subseteq DOMAIN services', DOMAIN configs' = DOMAIN services'
  PROVE  ProbedInv'
<1>1. PICK message \in {[kind |-> "upsert", id |-> id, probe |-> commands[c].probe],
                        Message("saved")} : commands' = [commands EXCEPT ![c] = message]
  BY DEF ThenUpsert, Answers
<1>2. message.kind = "upsert" => message.id \in DOMAIN services'
  BY <1>1 DEF Message
<1>3. QED
  BY <1>1, <1>2 DEF ProbedInv, ServicesAreProbed

LEMMA FailedAnswerKeeps ==
  ASSUME ProbedInv, NEW c \in Command, NEW kind, kind # "upsert", Answers(c, Message(kind)),
         UNCHANGED <<services, configs>>
  PROVE  ProbedInv'
<1>1. Message(kind).kind # "upsert" /\ commands' = [commands EXCEPT ![c] = Message(kind)]
  BY DEF Message, Answers
<1>2. Harmless
  BY <1>1 DEF Harmless
<1>3. QED
  BY <1>2, HarmlessKeeps

\* The tables and the upserts under way stay in step.
THEOREM ProbedInductive == Spec => []ProbedInv
<1>1. Init => ProbedInv
  BY DEF Init, CatalogueInit, ProbedInv, ServicesAreProbed, Load, Idle
<1>2. ProbedInv /\ [Next]_vars => ProbedInv'
  <2> SUFFICES ASSUME ProbedInv, [Next]_vars
               PROVE  ProbedInv'
    OBVIOUS
  <2>1. CASE TuiQuiet
    BY <2>1, QuietIsHarmless, HarmlessKeeps
  <2>2. ASSUME NEW q \in Request, Submit(q), UNCHANGED tui
        PROVE  ProbedInv'
    <3>1. CASE InsertSubmission(q)
      <4>1. CASE UNCHANGED catalogue
        BY <4>1, <2>2 DEF ProbedInv, ServicesAreProbed, catalogue, tui
      <4>2. CASE ~UNCHANGED catalogue
        BY <3>1, <4>2, <2>2 DEF InsertSubmission, SubmittedConfigs, With, ProbedInv,
                                ServicesAreProbed, tui
      <4>3. QED
        BY <4>1, <4>2
    <3>2. CASE ~InsertSubmission(q)
      <4>1. UNCHANGED <<services, configs, commands>>
        BY <2>2, <3>2 DEF Submit, SubmitService, findDuplicateService,
                          hasDuplicateSubmission, SubmissionFails, catalogue, tui
      <4>2. QED
        BY <4>1 DEF ProbedInv, ServicesAreProbed
    <3>3. QED
      BY <3>1, <3>2
  <2>3. ASSUME NEW c \in Command, Create(c)
        PROVE  ProbedInv'
    <3>1. CASE Answers(c, Message("error")) /\ UNCHANGED catalogue
      BY <3>1, FailedAnswerKeeps DEF catalogue
    <3>2. CASE CreateService(NewId, commands[c].service) /\ ThenUpsert(c, NewId)
      <4>1. /\ DOMAIN services' = DOMAIN services \cup {NewId}
            /\ DOMAIN configs' = DOMAIN configs \cup {NewId}
        BY <3>2 DEF CreateService, CreatedConfigs, With
      <4>2. QED
        BY <3>2, <4>1, ThenUpsertKeeps DEF ProbedInv, ServicesAreProbed
    <3>3. QED
      BY <2>3, <3>1, <3>2 DEF Create
  <2>4. ASSUME NEW c \in Command, Update(c)
        PROVE  ProbedInv'
    <3>1. CASE Answers(c, Message("error")) /\ UNCHANGED catalogue
      BY <3>1, FailedAnswerKeeps DEF catalogue
    <3>2. CASE UpdateService(commands[c].id, commands[c].service) /\ ThenUpsert(c, commands[c].id)
      <4>1. /\ DOMAIN services' = DOMAIN services \cup {commands[c].id}
            /\ commands[c].id \in DOMAIN services
            /\ UNCHANGED configs
        BY <3>2 DEF UpdateService, With
      <4>2. QED
        BY <3>2, <4>1, ThenUpsertKeeps DEF ProbedInv, ServicesAreProbed
    <3>3. QED
      BY <2>4, <3>1, <3>2 DEF Update
  <2>5. ASSUME NEW c \in Command, Upsert(c)
        PROVE  ProbedInv'
    <3>1. commands[c].id \in DOMAIN configs
      BY <2>5 DEF Upsert, ProbedInv, ServicesAreProbed
    <3>2. DOMAIN configs' = DOMAIN configs /\ UNCHANGED services
      BY <2>5, <3>1 DEF Upsert, UpsertProbeConfig, With
    <3>3. Message("saved").kind # "upsert" /\ commands' = [commands EXCEPT ![c] = Message("saved")]
      BY <2>5 DEF Upsert, Answers, Message
    <3>4. QED
      BY <3>2, <3>3 DEF ProbedInv, ServicesAreProbed
  <2>6. ASSUME NEW c \in Command, Delete(c)
        PROVE  ProbedInv'
    <3>1. CASE Answers(c, Message("error")) /\ UNCHANGED catalogue
      BY <3>1, FailedAnswerKeeps DEF catalogue
    <3>2. CASE DeleteService(commands[c].id) /\ Answers(c, Message("deleted"))
      <4>1. commands[c].id \notin DOMAIN services
        BY <3>2 DEF DeleteService, Referenced, ProbedInv, ServicesAreProbed
      <4>2. DOMAIN services' = DOMAIN services /\ UNCHANGED configs
        BY <3>2, <4>1 DEF DeleteService, Without
      <4>3. Message("deleted").kind # "upsert"
              /\ commands' = [commands EXCEPT ![c] = Message("deleted")]
        BY <3>2 DEF Answers, Message
      <4>4. QED
        BY <4>2, <4>3 DEF ProbedInv, ServicesAreProbed
    <3>3. QED
      BY <2>6, <3>1, <3>2 DEF Delete
  <2>7. CASE Quit
    BY <2>7 DEF Quit, catalogue, ProbedInv, ServicesAreProbed, Load, Idle
  <2>8. CASE UNCHANGED vars
    BY <2>8 DEF vars, catalogue, tui, ProbedInv, ServicesAreProbed
  <2>9. QED
    BY <2>1, <2>2, <2>3, <2>4, <2>5, <2>6, <2>7, <2>8 DEF Next, CommandStep, TuiQuiet
<1>3. QED
  BY <1>1, <1>2, PTL DEF Spec

\* Every service has a probe config, whatever fails half-way.
THEOREM EveryServiceIsProbed == Spec => []ServicesAreProbed
<1>1. ProbedInv => ServicesAreProbed
  BY DEF ProbedInv
<1>2. QED
  BY <1>1, ProbedInductive, PTL

\* The second half of a save leaves the config that the form had, enabled or not.
THEOREM SavedConfigIsTheForms == Spec => ConfigAsAsked
<1>1. ProbedInv => \A c \in Command :
        Upsert(c) => configs'[commands[c].id] = commands[c].probe.config
  <2> SUFFICES ASSUME ProbedInv, NEW c \in Command, Upsert(c)
               PROVE  configs'[commands[c].id] = commands[c].probe.config
    OBVIOUS
  <2>1. commands[c].id \in DOMAIN configs
    BY DEF Upsert, ProbedInv, ServicesAreProbed
  <2>2. configs' = With(configs, commands[c].id, commands[c].probe.config)
    BY <2>1 DEF Upsert, UpsertProbeConfig
  <2>3. QED
    BY <2>2 DEF With
<1>2. QED
  BY <1>1, ProbedInductive, PTL DEF ConfigAsAsked

-------------------------------------------------------------------------------
Phase == {"services", "submissions", "insert"}

\* Every submission began when there were fewer, and a request that is about to insert
\* is unlike all that were there when it began.
SubmitInv ==
  /\ submissions \in Seq(Submission)
  /\ \A j \in DOMAIN submissions : submissions[j].after < j
  /\ NoLateDuplicate
  /\ request = [q \in Request |-> request[q]]
  /\ \A q \in Request :
       \/ request[q] = IdleRequest
       \/ /\ request[q] \in [phase : Phase, row : Submission]
          /\ request[q].row.after <= Len(submissions)
          /\ request[q].phase = "insert" =>
               \A i \in 1..request[q].row.after : ~Same(submissions[i], request[q].row)

\* No command and no key touches what visitors have submitted or are submitting.
LEMMA TerminalSubmitsNothing ==
  ASSUME Next, ~\E q \in Request : Submit(q) /\ UNCHANGED tui
  PROVE  UNCHANGED <<submissions, request>>
<1>1. ASSUME NEW c \in Command, CommandStep(c)
      PROVE  UNCHANGED <<submissions, request>>
  <2>1. CASE Create(c)
    BY <2>1 DEF Create, CreateService, catalogue
  <2>2. CASE Update(c)
    BY <2>2 DEF Update, UpdateService, catalogue
  <2>3. CASE Upsert(c)
    BY <2>3 DEF Upsert, UpsertProbeConfig
  <2>4. CASE Delete(c)
    BY <2>4 DEF Delete, DeleteService, catalogue
  <2>5. CASE QueryServices(c) \/ CommandFails(c) \/ servicesLoadedMsg(c)
               \/ servicesSavedMsg(c) \/ errMsg(c)
    BY <2>5 DEF QueryServices, CommandFails, servicesLoadedMsg, servicesSavedMsg, errMsg,
                catalogue
  <2>6. QED
    BY <1>1, <2>1, <2>2, <2>3, <2>4, <2>5 DEF CommandStep
<1>2. CASE MoveCursor \/ StartSearch \/ Search \/ PressNew \/ OpenSelected \/ PressDelete
           \/ Detail \/ EditField \/ Save \/ Cancel \/ ConfirmDelete \/ Quit
  BY <1>2 DEF MoveCursor, StartSearch, Search, PressNew, OpenSelected, PressDelete, Detail,
              EditField, Save, Cancel, ConfirmDelete, Quit, Shows, Lists, catalogue
<1>3. QED
  BY <1>1, <1>2 DEF Next

\* A request that only moves on: what it moves to is all there is to show.
LEMMA MovedRequestKeeps ==
  ASSUME SubmitInv, UNCHANGED submissions, NEW q \in Request, NEW next,
         request' = [request EXCEPT ![q] = next],
         \/ next = IdleRequest
         \/ /\ next \in [phase : Phase, row : Submission]
            /\ next.row.after <= Len(submissions)
            /\ next.phase = "insert" =>
                 \A i \in 1..next.row.after : ~Same(submissions[i], next.row)
  PROVE  SubmitInv'
BY DEF SubmitInv, NoLateDuplicate, Same

LEMMA SubmitKeeps ==
  ASSUME SubmitInv, NEW q \in Request, Submit(q), CatalogueAssumption
  PROVE  SubmitInv'
<1> DEFINE row == request[q].row
<1>1. request[q] # IdleRequest =>
        /\ request[q] \in [phase : Phase, row : Submission]
        /\ row \in Submission /\ row.after \in Nat /\ row.after <= Len(submissions)
  BY DEF SubmitInv, Submission
<1>2. ASSUME NEW name \in Name, NEW site \in Site, SubmitService(q, name, site)
      PROVE  SubmitInv'
  <2> DEFINE new == [name |-> name, slug |-> slugify[name], site |-> site,
                     after |-> Len(submissions)]
  <2>1. Len(submissions) \in Nat
    BY DEF SubmitInv
  <2>2. new \in Submission /\ new.after <= Len(submissions)
    BY <2>1 DEF Submission, CatalogueAssumption
  <2>3. /\ [phase |-> "services", row |-> new] \in [phase : Phase, row : Submission]
        /\ request' = [request EXCEPT ![q] = [phase |-> "services", row |-> new]]
        /\ UNCHANGED submissions
    BY <1>2, <2>2 DEF SubmitService, Phase, catalogue
  <2> HIDE DEF new
  <2>4. QED
    BY <2>2, <2>3, MovedRequestKeeps
<1>3. CASE findDuplicateService(q) \/ SubmissionFails(q)
  <2>1. UNCHANGED submissions
    BY <1>3 DEF findDuplicateService, SubmissionFails, catalogue
  <2>2. PICK next \in {IdleRequest, [request[q] EXCEPT !.phase = "submissions"]} :
          request' = [request EXCEPT ![q] = next]
    BY <1>3 DEF findDuplicateService, SubmissionFails, Proceed
  <2>3. CASE next = IdleRequest
    BY <2>1, <2>2, <2>3, MovedRequestKeeps
  <2>4. CASE next # IdleRequest
    <3>1. next = [request[q] EXCEPT !.phase = "submissions"] /\ request[q] # IdleRequest
      <4>1. request[q].phase = "services" \/ request[q] # IdleRequest
        BY <1>3 DEF findDuplicateService, SubmissionFails
      <4>2. request[q] # IdleRequest
        BY <4>1 DEF IdleRequest
      <4>3. QED
        BY <2>2, <2>4, <4>2
    <3>2. /\ next \in [phase : Phase, row : Submission] /\ next.row = row
          /\ next.phase = "submissions"
      BY <1>1, <3>1 DEF Phase
    <3>3. QED
      BY <1>1, <2>1, <2>2, <3>1, <3>2, MovedRequestKeeps
  <2>5. QED
    BY <2>3, <2>4
<1>4. CASE hasDuplicateSubmission(q)
  <2>1. UNCHANGED submissions /\ request[q].phase = "submissions"
    BY <1>4 DEF hasDuplicateSubmission, catalogue
  <2>2. CASE SubmittedBefore(row)
    <3>1. request' = [request EXCEPT ![q] = IdleRequest]
      BY <1>4, <2>2 DEF hasDuplicateSubmission, Proceed
    <3>2. QED
      BY <2>1, <3>1, MovedRequestKeeps
  <2>3. CASE ~SubmittedBefore(row)
    <3> DEFINE next == [request[q] EXCEPT !.phase = "insert"]
    <3>1. request' = [request EXCEPT ![q] = next]
      BY <1>4, <2>3 DEF hasDuplicateSubmission, Proceed
    <3>2. request[q] # IdleRequest
      BY <2>1 DEF IdleRequest
    <3>3. next \in [phase : Phase, row : Submission] /\ next.row = row
      BY <1>1, <3>2 DEF Phase
    <3>4. \A i \in 1..row.after : ~Same(submissions[i], row)
      <4>1. \A i \in DOMAIN submissions : ~Same(submissions[i], row)
        BY <2>3 DEF SubmittedBefore, Same
      <4>2. 1..row.after \subseteq DOMAIN submissions
        BY <1>1, <3>2 DEF SubmitInv
      <4>3. QED
        BY <4>1, <4>2
    <3> HIDE DEF next
    <3>5. QED
      BY <1>1, <2>1, <3>1, <3>2, <3>3, <3>4, MovedRequestKeeps
  <2>4. QED
    BY <2>2, <2>3
<1>5. CASE InsertSubmission(q)
  <2>1. request' = [request EXCEPT ![q] = IdleRequest] /\ request[q].phase = "insert"
    BY <1>5 DEF InsertSubmission
  <2>2. CASE UNCHANGED submissions
    BY <2>1, <2>2, MovedRequestKeeps
  <2>3. CASE submissions' = Append(submissions, row)
    <3> DEFINE n == Len(submissions)
    <3>1. request[q] # IdleRequest
      BY <2>1 DEF IdleRequest
    <3>2. /\ submissions' \in Seq(Submission) /\ n \in Nat /\ Len(submissions') = n + 1
          /\ DOMAIN submissions' = 1..(n + 1) /\ DOMAIN submissions = 1..n
          /\ \A i \in 1..n : submissions'[i] = submissions[i]
          /\ submissions'[n + 1] = row
      BY <1>1, <2>3, <3>1 DEF SubmitInv
    <3>3. \A i \in 1..row.after : ~Same(submissions[i], row)
      BY <2>1, <3>1 DEF SubmitInv
    <3>4. \A j \in DOMAIN submissions' : submissions'[j].after < j
      BY <1>1, <3>1, <3>2 DEF SubmitInv
    <3>5. NoLateDuplicate'
      <4> SUFFICES ASSUME NEW i \in 1..(n + 1), NEW j \in 1..(n + 1),
                          i <= submissions'[j].after
                   PROVE  ~Same(submissions'[i], submissions'[j])
        BY <3>2 DEF NoLateDuplicate, Same
      <4>1. CASE j = n + 1
        <5>1. i \in 1..row.after /\ i \in 1..n
          BY <1>1, <3>1, <3>2, <4>1
        <5>2. QED
          BY <3>2, <3>3, <4>1, <5>1
      <4>2. CASE j \in 1..n
        <5>1. submissions[j] \in Submission /\ submissions[j].after < j
          BY <3>2, <4>2 DEF SubmitInv
        <5>2. i \in 1..n
          BY <3>2, <4>2, <5>1 DEF Submission
        <5>3. QED
          BY <3>2, <4>2, <5>2 DEF SubmitInv, NoLateDuplicate
      <4>3. QED
        BY <3>2, <4>1, <4>2
    <3>6. ASSUME NEW p \in Request, request'[p] # IdleRequest
          PROVE  /\ request'[p] \in [phase : Phase, row : Submission]
                 /\ request'[p].row.after <= Len(submissions')
                 /\ request'[p].phase = "insert" =>
                      \A i \in 1..request'[p].row.after :
                        ~Same(submissions'[i], request'[p].row)
      <4>1. request'[p] = request[p] /\ p # q
        BY <2>1, <3>6 DEF SubmitInv
      <4>2. /\ request[p] \in [phase : Phase, row : Submission]
            /\ request[p].row.after <= n /\ request[p].row.after \in Nat
            /\ request[p].phase = "insert" =>
                 \A i \in 1..request[p].row.after : ~Same(submissions[i], request[p].row)
        BY <3>6, <4>1 DEF SubmitInv, Submission
      <4>3. \A i \in 1..request[p].row.after : i \in 1..n
        BY <3>2, <4>2
      <4>4. QED
        BY <3>2, <4>1, <4>2, <4>3
    <3>7. request' = [p \in Request |-> request'[p]]
      BY <2>1 DEF SubmitInv
    <3>8. QED
      BY <3>2, <3>4, <3>5, <3>6, <3>7 DEF SubmitInv, Same
  <2>4. QED
    BY <1>5, <2>2, <2>3 DEF InsertSubmission, catalogue
<1>6. QED
  BY <1>2, <1>3, <1>4, <1>5 DEF Submit

\* What is being submitted is unlike all that was there when it began to be.
THEOREM SubmitInductive == Spec => []SubmitInv
<1>1. Init => SubmitInv
  BY DEF Init, CatalogueInit, SubmitInv, NoLateDuplicate
<1>2. SubmitInv /\ [Next]_vars => SubmitInv'
  <2> SUFFICES ASSUME SubmitInv, [Next]_vars
               PROVE  SubmitInv'
    OBVIOUS
  <2>1. ASSUME NEW q \in Request, Submit(q)
        PROVE  SubmitInv'
    BY <2>1, SubmitKeeps, CatalogueAssumption
  <2>2. CASE UNCHANGED <<submissions, request>>
    BY <2>2 DEF SubmitInv, NoLateDuplicate, Same
  <2>3. QED
    BY <2>1, <2>2, TerminalSubmitsNothing DEF vars, catalogue
<1>3. QED
  BY <1>1, <1>2, PTL DEF Spec

\* A submission that was there when a request began is not repeated by it.
THEOREM NoSubmissionTwice == Spec => []NoLateDuplicate
<1>1. SubmitInv => NoLateDuplicate
  BY DEF SubmitInv
<1>2. QED
  BY <1>1, SubmitInductive, PTL

-------------------------------------------------------------------------------
(* The terminal.  No row is ever deleted, so the ids that lists, screens and  *)
(* commands keep from earlier are those of services.                          *)

TableInv ==
  /\ DOMAIN services \subseteq 1..MaxServices
  /\ \A id \in DOMAIN services : services[id] \in Service
  /\ \A i, j \in DOMAIN services : services[i].slug = services[j].slug => i = j
  /\ \A id \in DOMAIN configs : configs[id] \in Config

\* The listings that the list and the messages hold, with the ids they may have.
Listing(rows, ids) == rows \in Seq(Row) /\ \A k \in DOMAIN rows : rows[k].id \in ids

ListType == [all : Seq(Row), filtered : SUBSET Nat, cursor : Nat,
             query : Query \cup {NoQuery}, searching : BOOLEAN]

ListInv ==
  /\ list \in ListType
  /\ Listing(list.all, DOMAIN services)
  /\ list.filtered \subseteq DOMAIN list.all
  /\ CursorInBounds

FormScreen == [view : {"create", "edit"}, id : 0..MaxServices, service : Service,
               slugEdited : BOOLEAN, probe : ProbeForm]
DetailScreen == [view : {"detail"}, id : DOMAIN services, service : Service,
                 config : Config \cup {NoConfig}]

ScreenInv ==
  \/ screen = ListScreen
  \/ /\ screen \in FormScreen
     /\ screen.view = "create" => screen.id = None
     /\ screen.view = "edit" => screen.id \in DOMAIN services
  \/ screen \in DetailScreen
  \/ screen \in [view : {"confirm"}, id : DOMAIN services]

\* A command has what its statements take.
Ready(command, ids) ==
  /\ command.kind = "loaded" => Listing(command.rows, ids)
  /\ command.kind \in {"create", "update"} => command.service \in Service
  /\ command.kind \in {"create", "update", "upsert"} => command.probe \in ProbeForm
  /\ command.kind \in {"update", "upsert", "delete"} => command.id \in ids

CommandsInv ==
  /\ commands = [c \in Command |-> commands[c]]
  /\ \A c \in Command : Ready(commands[c], DOMAIN services)

TuiInv == TableInv /\ ListInv /\ ScreenInv /\ CommandsInv

\* What is kept while the ids only grow in number.
LEMMA Kept ==
  ASSUME DOMAIN services \subseteq DOMAIN services'
  PROVE  /\ ListInv /\ UNCHANGED list => ListInv'
         /\ ScreenInv /\ UNCHANGED screen => ScreenInv'
         /\ CommandsInv /\ UNCHANGED commands => CommandsInv'
<1>1. ListInv /\ UNCHANGED list => ListInv'
  BY DEF ListInv, Listing, CursorInBounds
<1>2. ScreenInv /\ UNCHANGED screen => ScreenInv'
  BY DEF ScreenInv, DetailScreen, FormScreen
<1>3. CommandsInv /\ UNCHANGED commands => CommandsInv'
  BY DEF CommandsInv, Ready, Listing
<1>4. QED
  BY <1>1, <1>2, <1>3

\* One command that moves on to a step that has what it takes.
LEMMA CommandMoves ==
  ASSUME CommandsInv, DOMAIN services \subseteq DOMAIN services', NEW c \in Command,
         NEW command, Ready(command, DOMAIN services'), commands' = [commands EXCEPT ![c] = command]
  PROVE  CommandsInv'
<1>1. \A d \in Command : Ready(commands[d], DOMAIN services')
  BY DEF CommandsInv, Ready, Listing
<1>2. /\ commands' = [d \in Command |-> commands'[d]]
      /\ \A d \in Command : commands'[d] = IF d = c THEN command ELSE commands[d]
  BY DEF CommandsInv
<1>3. \A d \in Command : Ready(commands'[d], DOMAIN services')
  BY <1>1, <1>2
<1>4. QED
  BY <1>2, <1>3 DEF CommandsInv

LEMMA TablesUnchanged ==
  ASSUME TableInv, UNCHANGED <<services, configs>>
  PROVE  TableInv'
BY DEF TableInv

\* A row that is inserted or replaced, with a slug that no other row has, and the
\* config that comes with it.
LEMMA RowWritten ==
  ASSUME TableInv, NEW id \in 1..MaxServices, NEW row \in Service, NEW config \in Config,
         ~SlugTaken(row.slug, id), services' = With(services, id, row),
         configs' \in {configs, With(configs, id, config)}
  PROVE  TableInv' /\ DOMAIN services \subseteq DOMAIN services' /\ id \in DOMAIN services'
<1>1. /\ DOMAIN services' = DOMAIN services \cup {id}
      /\ \A k \in DOMAIN services' : services'[k] = IF k = id THEN row ELSE services[k]
  BY DEF With
<1>2. \A k \in DOMAIN services \ {id} : services[k].slug # row.slug
  BY DEF SlugTaken
<1>3. \A k \in DOMAIN configs' : configs'[k] \in Config
  BY DEF With, TableInv
<1>4. QED
  BY <1>1, <1>2, <1>3 DEF TableInv

-------------------------------------------------------------------------------
\* As many rows are shown as a finite set has members.
LEMMA ShownCount ==
  ASSUME NEW rows \in Seq(Row), NEW shown \in SUBSET DOMAIN rows
  PROVE  Cardinality(shown) \in Nat /\ (shown # {} => Cardinality(shown) > 0)
<1>1. IsFiniteSet(DOMAIN rows)
  <2>1. DOMAIN rows = 1..Len(rows) /\ Len(rows) \in Int
    OBVIOUS
  <2>2. IsFiniteSet(1..Len(rows))
    BY <2>1, FS_Interval
  <2>3. QED
    BY <2>1, <2>2
<1>2. IsFiniteSet(shown)
  BY <1>1, FS_Subset
<1>3. Cardinality(shown) \in Nat /\ (Cardinality(shown) = 0 <=> shown = {})
  BY <1>2, FS_CardinalityType, FS_EmptySet
<1>4. QED
  BY <1>3

\* What filtering changes.
LEMMA Filtered ==
  ASSUME NEW l \in ListType
  PROVE  /\ applyFilter(l) \in ListType
         /\ applyFilter(l).all = l.all
         /\ applyFilter(l).cursor = l.cursor
         /\ applyFilter(l).filtered \subseteq DOMAIN l.all
<1>1. DOMAIN l.all \subseteq Nat
  BY DEF ListType
<1>2. Matching(l.all, l.query) \subseteq DOMAIN l.all
  BY DEF Matching
<1>3. Matching(l.all, l.query) \in SUBSET Nat
  BY <1>1, <1>2
<1> DEFINE shown == Matching(l.all, l.query)
<1> HIDE DEF shown
<1>4. applyFilter(l) = [l EXCEPT !.filtered = shown]
  BY DEF applyFilter, shown
<1>5. shown \in SUBSET Nat /\ shown \subseteq DOMAIN l.all
  BY <1>2, <1>3 DEF shown
<1>6. QED
  BY <1>4, <1>5 DEF ListType

\* A list that is filtered anew with the cursor at its top.
LEMMA FilteredFromTheTop ==
  ASSUME ListInv, NEW l \in ListType, l.all = list.all, l.cursor = 0, list' = applyFilter(l),
         UNCHANGED services
  PROVE  ListInv'
<1>1. list' \in ListType /\ list'.all = list.all /\ list'.cursor = 0
      /\ list'.filtered \subseteq DOMAIN list.all
  BY Filtered
<1>2. list'.filtered # {} => Cardinality(list'.filtered) > 0
  BY <1>1, ShownCount DEF ListInv, ListType
<1>3. QED
  BY <1>1, <1>2 DEF ListInv, CursorInBounds

\* Rows that arrive, whatever the cursor was.
LEMMA RowsArrive ==
  ASSUME ListInv, NEW rows, Listing(rows, DOMAIN services), list' = setServices(list, rows),
         UNCHANGED services
  PROVE  ListInv'
<1> DEFINE l == [list EXCEPT !.all = rows]
           f == applyFilter(l)
<1>1. l \in ListType /\ l.all = rows
  BY DEF ListInv, ListType, Listing
<1>2. f \in ListType /\ f.all = rows /\ f.filtered \subseteq DOMAIN rows
  <2> HIDE DEF l
  <2>1. QED
    BY <1>1, Filtered
<1>3. list' = InBounds(f)
  BY DEF setServices
<1> HIDE DEF l, f
<1>4. Cardinality(f.filtered) \in Nat /\ (f.filtered # {} => Cardinality(f.filtered) > 0)
  BY <1>2, ShownCount DEF Listing
<1>5. CASE f.cursor >= Cardinality(f.filtered) /\ f.filtered # {}
  <2> DEFINE n == Cardinality(f.filtered)
  <2>1. n \in Nat /\ n > 0 /\ n - 1 \in Nat /\ n - 1 < n
    BY <1>4, <1>5
  <2>2. list' = [f EXCEPT !.cursor = n - 1]
    BY <1>3, <1>5 DEF InBounds
  <2>3. n = Cardinality(f.filtered)
    OBVIOUS
  <2> HIDE DEF n
  <2>4. list' \in ListType /\ list'.all = rows /\ list'.filtered = f.filtered
        /\ list'.cursor = n - 1
    BY <1>2, <2>1, <2>2 DEF ListType
  <2>5. QED
    BY <1>2, <2>1, <2>3, <2>4 DEF ListInv, CursorInBounds
<1>6. CASE ~(f.cursor >= Cardinality(f.filtered) /\ f.filtered # {})
  <2>1. list' = f
    BY <1>3, <1>6 DEF InBounds
  <2>2. f.cursor \in Nat
    BY <1>2 DEF ListType
  <2>3. QED
    BY <1>2, <1>4, <1>6, <2>1, <2>2 DEF ListInv, CursorInBounds
<1>7. QED
  BY <1>5, <1>6

\* What the operator does on the list.
LEMMA ListKeys ==
  ASSUME ListInv, MoveCursor \/ StartSearch \/ Search
  PROVE  ListInv' /\ UNCHANGED <<services, configs, screen, commands>>
<1>1. UNCHANGED <<services, configs, screen, commands>>
  BY DEF MoveCursor, StartSearch, Search, Lists, catalogue
<1>2. CASE MoveCursor
  <2>1. list.cursor \in Nat /\ Cardinality(list.filtered) \in Nat
        /\ (list.filtered # {} => Cardinality(list.filtered) > 0)
    BY ShownCount DEF ListInv, ListType
  <2>2. PICK n \in {list.cursor - 1, list.cursor + 1} :
          /\ list' = [list EXCEPT !.cursor = n]
          /\ n \in Nat /\ (list.filtered # {} => n < Cardinality(list.filtered))
    BY <1>2, <2>1 DEF MoveCursor, Lists, ListInv, CursorInBounds
  <2>3. QED
    BY <1>1, <2>2 DEF ListInv, ListType, CursorInBounds
<1>3. CASE StartSearch
  BY <1>1, <1>3 DEF StartSearch, Lists, ListInv, ListType, CursorInBounds
<1>4. CASE Search
  <2>1. ASSUME NEW q \in Query \cup {NoQuery},
               list' = applyFilter([list EXCEPT !.query = q, !.cursor = 0])
        PROVE  ListInv'
    <3> DEFINE l == [list EXCEPT !.query = q, !.cursor = 0]
    <3>1. l \in ListType /\ l.all = list.all /\ l.cursor = 0
      BY DEF ListInv, ListType
    <3>2. list' = applyFilter(l)
      BY <2>1
    <3> HIDE DEF l
    <3>3. QED
      BY <1>1, <3>1, <3>2, FilteredFromTheTop
  <2>2. ASSUME list' = applyFilter([list EXCEPT !.query = NoQuery, !.cursor = 0,
                                                !.searching = FALSE])
        PROVE  ListInv'
    <3> DEFINE l == [list EXCEPT !.query = NoQuery, !.cursor = 0, !.searching = FALSE]
    <3>1. l \in ListType /\ l.all = list.all /\ l.cursor = 0
      BY DEF ListInv, ListType
    <3>2. list' = applyFilter(l)
      BY <2>2
    <3> HIDE DEF l
    <3>3. QED
      BY <1>1, <3>1, <3>2, FilteredFromTheTop
  <2>3. ASSUME list' = [list EXCEPT !.searching = FALSE]
        PROVE  ListInv'
    BY <1>1, <2>3 DEF ListInv, ListType, CursorInBounds
  <2>4. \/ \E q \in Query \cup {NoQuery} :
             list' = applyFilter([list EXCEPT !.query = q, !.cursor = 0])
        \/ list' = applyFilter([list EXCEPT !.query = NoQuery, !.cursor = 0,
                                            !.searching = FALSE])
        \/ list' = [list EXCEPT !.searching = FALSE]
    BY <1>4, Zenon DEF Search, Lists
  <2>5. QED
    BY <1>1, <2>1, <2>2, <2>3, <2>4
<1>5. QED
  BY <1>1, <1>2, <1>3, <1>4

\* A fresh query finds services that are there.
LEMMA ListingsAreSound ==
  ASSUME TableInv, CatalogueAssumption, NEW rows \in GetAllServicesForManage
  PROVE  Listing(rows, DOMAIN services)
<1> DEFINE n == Cardinality(DOMAIN services)
<1>1. n \in Nat
  <2>1. IsFiniteSet(1..MaxServices)
    BY FS_Interval DEF CatalogueAssumption
  <2>2. QED
    BY <2>1, FS_Subset, FS_CardinalityType DEF TableInv
<1>2. PICK order \in [1..n -> DOMAIN services] :
        rows = [k \in 1..n |-> [id |-> order[k], service |-> services[order[k]]]]
  BY DEF GetAllServicesForManage
<1> HIDE DEF n
<1>3. \A k \in 1..n : order[k] \in DOMAIN services /\ rows[k] \in Row /\ rows[k].id = order[k]
  BY <1>2 DEF Row, TableInv
<1>4. rows \in [1..n -> Row] /\ DOMAIN rows = 1..n
  BY <1>2, <1>3
<1>5. rows \in Seq(Row)
  BY <1>1, <1>4
<1>6. QED
  BY <1>3, <1>4, <1>5 DEF Listing

-------------------------------------------------------------------------------
\* A row of the table as any screen may show it.
LEMMA RowsOfTheList ==
  ASSUME ListInv, TableInv, NEW k \in Selected
  PROVE  /\ list.all[k].id \in DOMAIN services /\ list.all[k].id \in 0..MaxServices
         /\ list.all[k].service \in Service
<1>1. k \in DOMAIN list.all
  BY DEF Selected, ListInv
<1>2. list.all[k] \in Row
  BY <1>1 DEF ListInv, Listing
<1>3. QED
  BY <1>1, <1>2 DEF ListInv, Listing, Row, TableInv

\* The form of a service that is there.
LEMMA EditForms ==
  ASSUME TableInv, CatalogueAssumption, NEW id \in DOMAIN services, NEW service \in Service,
         NEW config \in Config \cup {NoConfig}
  PROVE  /\ EditForm(id, service, config) \in FormScreen
         /\ EditForm(id, service, config).view = "edit"
         /\ EditForm(id, service, config).id = id
<1> DEFINE probe == IF config = NoConfig
                    THEN [existing |-> None, shown |-> FALSE,
                          config |-> DefaultProbeConfig(service.site)]
                    ELSE [existing |-> id, shown |-> TRUE, config |-> config]
<1>1. id \in 0..MaxServices
  BY DEF TableInv, CatalogueAssumption
<1>2. DefaultProbeConfig(service.site) \in Config
  BY DEF DefaultProbeConfig, Service, Config
<1>3. probe \in ProbeForm
  <2>1. CASE config = NoConfig
    BY <1>2, <2>1 DEF ProbeForm, None, CatalogueAssumption
  <2>2. CASE config # NoConfig
    BY <1>1, <2>2 DEF ProbeForm
  <2>3. QED
    BY <2>1, <2>2
<1>4. EditForm(id, service, config) =
        [view |-> "edit", id |-> id, service |-> service, slugEdited |-> TRUE, probe |-> probe]
  BY DEF EditForm
<1> HIDE DEF probe
<1>5. QED
  BY <1>1, <1>3, <1>4 DEF FormScreen

\* One field edited leaves a form a form.
LEMMA EditedForms ==
  ASSUME CatalogueAssumption, NEW form \in FormScreen, NEW next \in Edited(form)
  PROVE  next \in FormScreen /\ next.view = form.view /\ next.id = form.id
<1>1. /\ form.service \in Service /\ form.probe \in ProbeForm
      /\ form.view \in {"create", "edit"} /\ form.id \in 0..MaxServices
      /\ form.slugEdited \in BOOLEAN
  BY DEF FormScreen
<1>2. ASSUME NEW service \in Service, next = [form EXCEPT !.service = service]
      PROVE  next \in FormScreen /\ next.view = form.view /\ next.id = form.id
  BY <1>2 DEF FormScreen
<1>3. ASSUME NEW probe \in ProbeForm, next = [form EXCEPT !.probe = probe]
      PROVE  next \in FormScreen /\ next.view = form.view /\ next.id = form.id
  BY <1>3 DEF FormScreen
<1>4. ASSUME NEW name \in Name,
             next = [form EXCEPT !.service.name = name,
                                 !.service.slug = IF form.slugEdited THEN @ ELSE slugify[name]]
      PROVE  next \in FormScreen /\ next.view = form.view /\ next.id = form.id
  <2> DEFINE slug == IF form.slugEdited THEN form.service.slug ELSE slugify[name]
             service == [form.service EXCEPT !.name = name, !.slug = slug]
  <2>1. slug \in Slug
    BY <1>1 DEF Service, CatalogueAssumption
  <2>2. service \in Service
    <3> HIDE DEF slug
    <3>1. QED
      BY <1>1, <2>1 DEF Service
  <2>3. next = [form EXCEPT !.service = service]
    BY <1>4 DEF FormScreen, Service
  <2> HIDE DEF service
  <2>4. QED
    BY <1>2, <2>2, <2>3
<1>5. ASSUME NEW slug \in Slug, next = [form EXCEPT !.service.slug = slug, !.slugEdited = TRUE]
      PROVE  next \in FormScreen /\ next.view = form.view /\ next.id = form.id
  <2> DEFINE service == [form.service EXCEPT !.slug = slug]
  <2>1. service \in Service
    BY <1>1 DEF Service
  <2>2. next = [form EXCEPT !.service = service, !.slugEdited = TRUE]
    BY <1>5 DEF FormScreen
  <2> HIDE DEF service
  <2>3. QED
    BY <2>1, <2>2 DEF FormScreen
<1>6. ASSUME NEW site \in Site, next = [form EXCEPT !.service.site = site]
      PROVE  next \in FormScreen /\ next.view = form.view /\ next.id = form.id
  <2> DEFINE service == [form.service EXCEPT !.site = site]
  <2>1. service \in Service
    BY <1>1 DEF Service
  <2>2. next = [form EXCEPT !.service = service]
    BY <1>6
  <2> HIDE DEF service
  <2>3. QED
    BY <1>2, <2>1, <2>2
<1>7. ASSUME next = [form EXCEPT !.service.active = ~@]
      PROVE  next \in FormScreen /\ next.view = form.view /\ next.id = form.id
  <2> DEFINE service == [form.service EXCEPT !.active = ~@]
  <2>1. service \in Service
    BY <1>1 DEF Service
  <2>2. next = [form EXCEPT !.service = service]
    BY <1>7
  <2> HIDE DEF service
  <2>3. QED
    BY <1>2, <2>1, <2>2
<1>8. ASSUME next = [form EXCEPT !.probe.shown = ~@]
      PROVE  next \in FormScreen /\ next.view = form.view /\ next.id = form.id
  <2> DEFINE probe == [form.probe EXCEPT !.shown = ~@]
  <2>1. probe \in ProbeForm
    BY <1>1 DEF ProbeForm
  <2>2. next = [form EXCEPT !.probe = probe]
    BY <1>8
  <2> HIDE DEF probe
  <2>3. QED
    BY <1>3, <2>1, <2>2
<1>9. ASSUME NEW config \in Config, next = [form EXCEPT !.probe.config = config]
      PROVE  next \in FormScreen /\ next.view = form.view /\ next.id = form.id
  <2> DEFINE probe == [form.probe EXCEPT !.config = config]
  <2>1. probe \in ProbeForm
    BY <1>1 DEF ProbeForm
  <2>2. next = [form EXCEPT !.probe = probe]
    BY <1>9
  <2> HIDE DEF probe
  <2>3. QED
    BY <1>3, <2>1, <2>2
<1>10. QED
  BY <1>4, <1>5, <1>6, <1>7, <1>8, <1>9 DEF Edited

\* Keys that only change what is shown.
LEMMA ScreenKeys ==
  ASSUME TuiInv, CatalogueAssumption,
         PressNew \/ OpenSelected \/ PressDelete \/ Detail \/ EditField \/ Cancel
  PROVE  ScreenInv' /\ UNCHANGED <<services, configs, list, commands>>
<1>1. UNCHANGED <<services, configs, list, commands>>
  BY DEF PressNew, OpenSelected, PressDelete, Detail, EditField, Cancel, Shows, catalogue
<1> SUFFICES ScreenInv'
  BY <1>1
<1>2. ASSUME NEW id \in DOMAIN services, NEW service \in Service,
             NEW config \in Config \cup {NoConfig}, screen' = EditForm(id, service, config)
      PROVE  ScreenInv'
  BY <1>1, <1>2, EditForms DEF ScreenInv, TuiInv
<1>3. ASSUME NEW id \in DOMAIN services, screen' = Confirm(id)
      PROVE  ScreenInv'
  BY <1>1, <1>3 DEF ScreenInv, Confirm
<1>4. CASE PressNew
  <2>1. PICK name \in Name, site \in Site : screen' = CreateForm(name, site)
    BY <1>4 DEF PressNew, Shows
  <2>2. DefaultProbeConfig(site) \in Config /\ slugify[name] \in Slug /\ None \in 0..MaxServices
    BY DEF DefaultProbeConfig, Config, CatalogueAssumption, None
  <2>3. screen' \in FormScreen /\ screen'.view = "create" /\ screen'.id = None
    BY <2>1, <2>2 DEF CreateForm, FormScreen, Service, ProbeForm
  <2>4. QED
    BY <2>3 DEF ScreenInv
<1>5. CASE OpenSelected
  <2>1. PICK k \in Selected, config \in {NoConfig} \cup {configs[id] : id \in DOMAIN configs} :
          \/ screen' = EditForm(list.all[k].id, list.all[k].service, config)
          \/ screen' = [view |-> "detail", id |-> list.all[k].id,
                        service |-> list.all[k].service, config |-> config]
    BY <1>5 DEF OpenSelected
  <2>2. config \in Config \cup {NoConfig}
    BY DEF TuiInv, TableInv
  <2>3. list.all[k].id \in DOMAIN services /\ list.all[k].service \in Service
    BY RowsOfTheList DEF TuiInv
  <2>4. CASE screen' = EditForm(list.all[k].id, list.all[k].service, config)
    BY <1>2, <2>2, <2>3, <2>4
  <2>5. CASE screen' = [view |-> "detail", id |-> list.all[k].id,
                        service |-> list.all[k].service, config |-> config]
    BY <1>1, <2>2, <2>3, <2>5 DEF ScreenInv, DetailScreen
  <2>6. QED
    BY <2>1, <2>4, <2>5
<1>6. CASE PressDelete
  <2>1. PICK k \in Selected : screen' = Confirm(list.all[k].id)
    BY <1>6 DEF PressDelete, Shows
  <2>2. list.all[k].id \in DOMAIN services
    BY RowsOfTheList DEF TuiInv
  <2>3. QED
    BY <1>3, <2>1, <2>2
<1>7. CASE Detail
  <2>1. screen \in DetailScreen
    BY <1>7 DEF Detail, TuiInv, ScreenInv, ListScreen, FormScreen
  <2>2. \/ screen' = EditForm(screen.id, screen.service, screen.config)
        \/ screen' = Confirm(screen.id)
        \/ screen' = ListScreen
    BY <1>7 DEF Detail, Shows
  <2>3. /\ screen.id \in DOMAIN services /\ screen.service \in Service
        /\ screen.config \in Config \cup {NoConfig}
    BY <2>1 DEF DetailScreen
  <2>4. screen' = ListScreen => ScreenInv'
    BY DEF ScreenInv
  <2>5. QED
    BY <1>2, <1>3, <2>2, <2>3, <2>4
<1>8. CASE EditField
  <2>1. PICK form \in Edited(screen) : screen' = form
    BY <1>8 DEF EditField, Shows
  <2>2. /\ screen \in FormScreen
        /\ screen.view = "create" => screen.id = None
        /\ screen.view = "edit" => screen.id \in DOMAIN services
    BY <1>8 DEF EditField, TuiInv, ScreenInv, ListScreen, DetailScreen
  <2>3. form \in FormScreen /\ form.view = screen.view /\ form.id = screen.id
    BY <2>1, <2>2, EditedForms
  <2>4. QED
    BY <1>1, <2>1, <2>2, <2>3 DEF ScreenInv
<1>9. CASE Cancel
  BY <1>9 DEF Cancel, Shows, ScreenInv
<1>10. QED
  BY <1>4, <1>5, <1>6, <1>7, <1>8, <1>9

-------------------------------------------------------------------------------
\* The message that a command leaves when it has nothing more to do takes nothing.
LEMMA NothingTaken ==
  ASSUME NEW ids
  PROVE  /\ \A kind \in {"error", "saved", "deleted"} : Ready(Message(kind), ids)
         /\ Ready(Load, ids) /\ Ready(Idle, ids)
BY DEF Ready, Message, Load, Idle

\* What a command goes on with after the first half of a save.
LEMMA SecondHalf ==
  ASSUME CommandsInv, DOMAIN services \subseteq DOMAIN services', NEW c \in Command,
         commands[c].kind \in {"create", "update"}, NEW id \in DOMAIN services', ThenUpsert(c, id)
  PROVE  CommandsInv'
<1> DEFINE next == [kind |-> "upsert", id |-> id, probe |-> commands[c].probe]
<1>1. commands[c].probe \in ProbeForm
  BY DEF CommandsInv, Ready
<1>2. Ready(next, DOMAIN services') /\ Ready(Message("saved"), DOMAIN services')
  BY <1>1, NothingTaken DEF Ready
<1>3. \/ commands' = [commands EXCEPT ![c] = next]
      \/ commands' = [commands EXCEPT ![c] = Message("saved")]
  BY DEF ThenUpsert, Answers
<1> HIDE DEF next
<1>4. QED
  BY <1>2, <1>3, CommandMoves

\* A command that ends with an answer that takes nothing.
LEMMA CommandEnds ==
  ASSUME CommandsInv, DOMAIN services \subseteq DOMAIN services', NEW c \in Command,
         \/ \E kind \in {"error", "saved", "deleted"} : Answers(c, Message(kind))
         \/ commands' = [commands EXCEPT ![c] = Idle]
         \/ commands' = [commands EXCEPT ![c] = Load]
  PROVE  CommandsInv'
<1>1. PICK next \in {Message("error"), Message("saved"), Message("deleted"), Idle, Load} :
        commands' = [commands EXCEPT ![c] = next]
  BY DEF Answers
<1>2. Ready(next, DOMAIN services')
  BY <1>1, NothingTaken
<1>3. QED
  BY <1>1, <1>2, CommandMoves

\* An id that the table may give out next.
LEMMA NewIds ==
  ASSUME TableInv, CatalogueAssumption, NewId <= MaxServices \/ ~(NewId > MaxServices)
  PROVE  NewId \in 1..MaxServices
<1>1. IsFiniteSet(1..MaxServices)
  BY FS_Interval DEF CatalogueAssumption
<1>2. Cardinality(DOMAIN services) \in Nat
  BY <1>1, FS_Subset, FS_CardinalityType DEF TableInv
<1>3. QED
  BY <1>2 DEF NewId, CatalogueAssumption

\* What a step of a command does to the tables and to the commands.
LEMMA CommandSteps ==
  ASSUME TuiInv, ServicesAreProbed, CatalogueAssumption, NEW c \in Command, CommandStep(c)
  PROVE  /\ TableInv' /\ CommandsInv'
         /\ DOMAIN services \subseteq DOMAIN services'
<1> USE DEF TuiInv
<1>1. CASE QueryServices(c)
  <2>1. UNCHANGED <<services, configs>>
    BY <1>1 DEF QueryServices, catalogue
  <2>2. PICK rows \in GetAllServicesForManage :
          commands' = [commands EXCEPT ![c] = Loaded(rows)]
    BY <1>1 DEF QueryServices, Answers
  <2>3. Listing(rows, DOMAIN services')
    BY <2>1, ListingsAreSound
  <2>4. Ready(Loaded(rows), DOMAIN services')
    BY <2>3 DEF Ready, Loaded
  <2>5. QED
    BY <2>1, <2>2, <2>4, CommandMoves, TablesUnchanged
<1>2. CASE Create(c)
  <2>1. CASE Answers(c, Message("error")) /\ UNCHANGED catalogue
    BY <2>1, CommandEnds, TablesUnchanged DEF catalogue
  <2>2. CASE CreateService(NewId, commands[c].service) /\ ThenUpsert(c, NewId)
    <3> DEFINE row == [commands[c].service EXCEPT !.active = TRUE]
               config == DefaultProbeConfig(commands[c].service.site)
    <3>1. commands[c].kind = "create" /\ commands[c].service \in Service
      BY <1>2 DEF Create, CommandsInv, Ready
    <3>2. NewId \in 1..MaxServices
      BY <2>2, NewIds DEF CreateService
    <3>3. row \in Service /\ row.slug = commands[c].service.slug /\ config \in Config
      BY <3>1 DEF Service, Config, DefaultProbeConfig
    <3>4. /\ services' = With(services, NewId, row)
          /\ configs' = With(configs, NewId, config)
          /\ ~SlugTaken(row.slug, NewId)
      BY <2>2, <3>3 DEF CreateService, CreatedConfigs
    <3> HIDE DEF row, config
    <3>5. /\ TableInv' /\ DOMAIN services \subseteq DOMAIN services'
          /\ NewId \in DOMAIN services'
      BY <3>2, <3>3, <3>4, RowWritten
    <3>6. CommandsInv'
      BY <2>2, <3>1, <3>5, SecondHalf
    <3>7. QED
      BY <3>5, <3>6
  <2>3. QED
    BY <1>2, <2>1, <2>2 DEF Create
<1>3. CASE Update(c)
  <2>1. CASE Answers(c, Message("error")) /\ UNCHANGED catalogue
    BY <2>1, CommandEnds, TablesUnchanged DEF catalogue
  <2>2. CASE UpdateService(commands[c].id, commands[c].service)
               /\ ThenUpsert(c, commands[c].id)
    <3> DEFINE id == commands[c].id
    <3>1. commands[c].kind = "update" /\ commands[c].service \in Service
          /\ id \in DOMAIN services
      BY <1>3 DEF Update, CommandsInv, Ready
    <3>2. id \in 1..MaxServices /\ configs[id] \in Config
      BY <3>1 DEF TableInv, ServicesAreProbed
    <3>3. /\ services' = With(services, id, commands[c].service)
          /\ configs' = configs /\ ~SlugTaken(commands[c].service.slug, id)
      BY <2>2 DEF UpdateService
    <3>4. ThenUpsert(c, id)
      BY <2>2
    <3> HIDE DEF id
    <3>5. /\ TableInv' /\ DOMAIN services \subseteq DOMAIN services' /\ id \in DOMAIN services'
      BY <3>1, <3>2, <3>3, RowWritten
    <3>6. CommandsInv'
      BY <3>1, <3>4, <3>5, SecondHalf
    <3>7. QED
      BY <3>5, <3>6
  <2>3. QED
    BY <1>3, <2>1, <2>2 DEF Update
<1>4. CASE Upsert(c)
  <2> DEFINE id == commands[c].id
             config == commands[c].probe.config
  <2>1. commands[c].probe \in ProbeForm /\ id \in DOMAIN configs
    BY <1>4 DEF Upsert, CommandsInv, Ready, ServicesAreProbed
  <2>2. config \in Config
    BY <2>1 DEF ProbeForm
  <2>3. configs' = With(configs, id, config) /\ UNCHANGED services
    BY <1>4, <2>1 DEF Upsert, UpsertProbeConfig
  <2> HIDE DEF id, config
  <2>4. TableInv'
    BY <2>2, <2>3 DEF TableInv, With
  <2>5. CommandsInv'
    BY <1>4, <2>3, CommandEnds DEF Upsert
  <2>6. QED
    BY <2>3, <2>4, <2>5
<1>5. CASE Delete(c)
  <2>1. CASE Answers(c, Message("error")) /\ UNCHANGED catalogue
    BY <2>1, CommandEnds, TablesUnchanged DEF catalogue
  <2>2. commands[c].id \in DOMAIN services
    BY <1>5 DEF Delete, CommandsInv, Ready
  <2>3. Referenced(commands[c].id)
    BY <2>2 DEF Referenced, ServicesAreProbed
  <2>4. QED
    BY <1>5, <2>1, <2>3 DEF Delete
<1>6. CASE CommandFails(c) \/ servicesLoadedMsg(c) \/ servicesSavedMsg(c) \/ errMsg(c)
  <2>1. UNCHANGED <<services, configs>>
    BY <1>6 DEF CommandFails, servicesLoadedMsg, servicesSavedMsg, errMsg, catalogue
  <2>2. \/ Answers(c, Message("error"))
        \/ commands' = [commands EXCEPT ![c] = Idle]
        \/ commands' = [commands EXCEPT ![c] = Load]
    BY <1>6 DEF CommandFails, servicesLoadedMsg, servicesSavedMsg, errMsg
  <2>3. QED
    BY <2>1, <2>2, CommandEnds, TablesUnchanged
<1>7. QED
  BY <1>1, <1>2, <1>3, <1>4, <1>5, <1>6 DEF CommandStep

\* A submission that is inserted becomes a service with the default config.
LEMMA SubmissionsKeepTables ==
  ASSUME TableInv, SubmitInv, ServicesAreProbed, CatalogueAssumption,
         NEW q \in Request, Submit(q)
  PROVE  TableInv' /\ DOMAIN services \subseteq DOMAIN services'
<1>1. CASE UNCHANGED catalogue
  BY <1>1, TablesUnchanged DEF catalogue
<1>2. CASE ~UNCHANGED catalogue
  <2> DEFINE row == request[q].row
             new == [name |-> row.name, slug |-> row.slug, site |-> row.site, active |-> TRUE]
             config == DefaultProbeConfig(row.site)
  <2>1. InsertSubmission(q)
    BY <1>2 DEF Submit, SubmitService, findDuplicateService, hasDuplicateSubmission,
                SubmissionFails
  <2>2. request[q] # IdleRequest
    BY <2>1 DEF InsertSubmission, IdleRequest
  <2>3. row \in Submission
    BY <2>2 DEF SubmitInv
  <2>4. new \in Service /\ new.slug = row.slug /\ config \in Config
    BY <2>3 DEF Submission, Service, Config, DefaultProbeConfig
  <2>5. /\ ~SlugTaken(row.slug, None) /\ ~(NewId > MaxServices)
        /\ services' = With(services, NewId, new)
        /\ configs' = With(configs, NewId, config)
    BY <1>2, <2>1 DEF InsertSubmission, SubmittedConfigs
  <2> HIDE DEF new, config, row
  <2>6. ~SlugTaken(new.slug, NewId)
    BY <2>4, <2>5 DEF SlugTaken, None, TableInv
  <2>7. NewId \in 1..MaxServices
    BY <2>5, NewIds
  <2>8. QED
    BY <2>4, <2>5, <2>6, <2>7, RowWritten
<1>3. QED
  BY <1>1, <1>2

\* What the keys that start a command do.
LEMMA StartingKeys ==
  ASSUME TuiInv, Save \/ ConfirmDelete
  PROVE  TuiInv'
<1> USE DEF TuiInv
<1>1. UNCHANGED <<services, configs, list>>
  BY DEF Save, ConfirmDelete, catalogue
<1>2. TableInv' /\ ListInv' /\ DOMAIN services \subseteq DOMAIN services'
  BY <1>1, Kept, TablesUnchanged
<1>3. CASE Save
  <2> DEFINE m == [kind |-> IF screen.view = "create" THEN "create" ELSE "update",
                   id |-> screen.id, service |-> screen.service, probe |-> screen.probe]
  <2>1. PICK c \in Command : Starts(c, m)
    BY <1>3 DEF Save
  <2>2. /\ screen \in FormScreen
        /\ screen.view # "create" => screen.id \in DOMAIN services'
    BY <1>1, <1>3 DEF Save, ScreenInv, ListScreen, DetailScreen, FormScreen
  <2>3. Ready(m, DOMAIN services')
    BY <2>2 DEF Ready, FormScreen
  <2>4. commands' = [commands EXCEPT ![c] = m]
    BY <2>1 DEF Starts
  <2> HIDE DEF m
  <2>5. CommandsInv'
    BY <1>2, <2>3, <2>4, CommandMoves
  <2>6. ScreenInv'
    BY <1>2, <1>3, Kept DEF Save
  <2>7. QED
    BY <1>2, <2>5, <2>6
<1>4. CASE ConfirmDelete
  <2> DEFINE m == [kind |-> "delete", id |-> screen.id]
  <2>1. PICK c \in Command : Starts(c, m)
    BY <1>4 DEF ConfirmDelete
  <2>2. screen.id \in DOMAIN services'
    BY <1>1, <1>4 DEF ConfirmDelete, ScreenInv, ListScreen, DetailScreen, FormScreen
  <2>3. Ready(m, DOMAIN services')
    BY <2>2 DEF Ready
  <2>4. commands' = [commands EXCEPT ![c] = m]
    BY <2>1 DEF Starts
  <2> HIDE DEF m
  <2>5. CommandsInv'
    BY <1>2, <2>3, <2>4, CommandMoves
  <2>6. ScreenInv'
    BY <1>4 DEF ConfirmDelete, ScreenInv
  <2>7. QED
    BY <1>2, <2>5, <2>6
<1>5. QED
  BY <1>3, <1>4

\* The screen and the list after a step of a command.
LEMMA CommandsShow ==
  ASSUME TuiInv, NEW c \in Command, CommandStep(c), DOMAIN services \subseteq DOMAIN services'
  PROVE  ScreenInv' /\ ListInv'
<1>1. CASE servicesLoadedMsg(c)
  <2>1. Listing(commands[c].rows, DOMAIN services)
    BY <1>1 DEF servicesLoadedMsg, TuiInv, CommandsInv, Ready
  <2>2. list' = setServices(list, commands[c].rows) /\ UNCHANGED <<services, screen>>
    BY <1>1 DEF servicesLoadedMsg, catalogue
  <2>3. QED
    BY <2>1, <2>2, RowsArrive, Kept DEF TuiInv
<1>2. CASE servicesSavedMsg(c)
  <2>1. screen' = ListScreen /\ UNCHANGED list
    BY <1>2 DEF servicesSavedMsg
  <2>2. QED
    BY <2>1, Kept DEF TuiInv, ScreenInv
<1>3. CASE ~servicesLoadedMsg(c) /\ ~servicesSavedMsg(c)
  <2>1. UNCHANGED <<screen, list>>
    BY <1>3 DEF CommandStep, QueryServices, Create, Update, Upsert, Delete, CommandFails, errMsg
  <2>2. QED
    BY <2>1, Kept DEF TuiInv
<1>4. QED
  BY <1>1, <1>2, <1>3

\* The terminal starts, or starts again.
LEMMA Started ==
  ASSUME TableInv, screen = ListScreen, list = NewList,
         commands = [c \in Command |-> IF \A d \in Command : c <= d THEN Load ELSE Idle]
  PROVE  TuiInv
<1>1. CommandsInv
  <2>1. commands = [c \in Command |-> commands[c]]
    OBVIOUS
  <2>2. \A c \in Command : commands[c] \in {Load, Idle}
    OBVIOUS
  <2>3. QED
    BY <2>1, <2>2, NothingTaken DEF CommandsInv
<1>2. ListInv
  BY DEF ListInv, ListType, Listing, NewList, NoQuery, CursorInBounds
<1>3. QED
  BY <1>1, <1>2 DEF TuiInv, ScreenInv

\* Tables, list, screen and commands stay in step, as what visitors do leaves them.
THEOREM TuiInductive == Spec => []TuiInv
<1>1. Init => TuiInv
  <2> SUFFICES ASSUME Init
               PROVE  TuiInv
    OBVIOUS
  <2>1. TableInv
    BY DEF Init, CatalogueInit, TableInv
  <2>2. QED
    BY <2>1, Started DEF Init
<1>2. ProbedInv /\ SubmitInv /\ TuiInv /\ [Next]_vars => TuiInv'
  <2> SUFFICES ASSUME ProbedInv, SubmitInv, TuiInv, [Next]_vars
               PROVE  TuiInv'
    OBVIOUS
  <2>1. ServicesAreProbed /\ CatalogueAssumption
    BY CatalogueAssumption DEF ProbedInv
  <2>2. ASSUME NEW q \in Request, Submit(q), UNCHANGED tui
        PROVE  TuiInv'
    BY <2>1, <2>2, SubmissionsKeepTables, Kept DEF TuiInv, tui
  <2>3. ASSUME NEW c \in Command, CommandStep(c)
        PROVE  TuiInv'
    <3>1. TableInv' /\ CommandsInv' /\ DOMAIN services \subseteq DOMAIN services'
      BY <2>1, <2>3, CommandSteps
    <3>2. ScreenInv' /\ ListInv'
      BY <2>3, <3>1, CommandsShow
    <3>3. QED
      BY <3>1, <3>2 DEF TuiInv
  <2>4. CASE MoveCursor \/ StartSearch \/ Search
    <3>1. ListInv' /\ UNCHANGED <<services, configs, screen, commands>>
      BY <2>4, ListKeys DEF TuiInv
    <3>2. QED
      BY <3>1, Kept, TablesUnchanged DEF TuiInv
  <2>5. CASE PressNew \/ OpenSelected \/ PressDelete \/ Detail \/ EditField \/ Cancel
    <3>1. ScreenInv' /\ UNCHANGED <<services, configs, list, commands>>
      BY <2>1, <2>5, ScreenKeys
    <3>2. QED
      BY <3>1, Kept, TablesUnchanged DEF TuiInv
  <2>6. CASE Save \/ ConfirmDelete
    BY <2>6, StartingKeys
  <2>7. CASE Quit
    <3>1. UNCHANGED <<services, configs>>
      BY <2>7 DEF Quit, catalogue
    <3>2. TableInv'
      BY <3>1, TablesUnchanged DEF TuiInv
    <3>3. CommandsInv'
      <4>1. commands' = [c \in Command |-> commands'[c]]
        BY <2>7 DEF Quit
      <4>2. \A c \in Command : commands'[c] \in {Load, Idle}
        BY <2>7 DEF Quit
      <4>3. QED
        BY <4>1, <4>2, NothingTaken DEF CommandsInv
    <3>4. ListInv'
      BY <2>7 DEF Quit, ListInv, ListType, Listing, NewList, NoQuery, CursorInBounds
    <3>5. ScreenInv'
      BY <2>7 DEF Quit, ScreenInv
    <3>6. QED
      BY <3>2, <3>3, <3>4, <3>5 DEF TuiInv
  <2>8. CASE UNCHANGED vars
    BY <2>8, Kept, TablesUnchanged DEF vars, catalogue, tui, TuiInv
  <2>9. QED
    BY <2>2, <2>3, <2>4, <2>5, <2>6, <2>7, <2>8 DEF Next
<1>3. QED
  BY <1>1, <1>2, ProbedInductive, SubmitInductive, PTL DEF Spec

\* The tables, the list and what screens and commands refer to are well-formed.
THEOREM TypeCorrect == Spec => []TypeOK
<1>1. SubmitInv /\ TuiInv => TypeOK
  <2> SUFFICES ASSUME SubmitInv, TuiInv
               PROVE  TypeOK
    OBVIOUS
  <2>1. CatalogueTypeOK
    BY DEF CatalogueTypeOK, SubmitInv, TuiInv, TableInv, Phase
  <2>2. list.all \in Seq(Row) /\ list.filtered \subseteq DOMAIN list.all /\ list.cursor \in Nat
    BY DEF TuiInv, ListInv, ListType
  <2>3. /\ screen.view \in {"list", "detail", "create", "edit", "confirm"}
        /\ screen.view = "create" => screen.id = None
        /\ screen.view \in {"edit", "detail", "confirm"} => screen.id \in DOMAIN services
        /\ screen.view \in {"create", "edit"} =>
             screen.service \in Service /\ screen.probe \in ProbeForm
    BY DEF TuiInv, ScreenInv, ListScreen, FormScreen, DetailScreen
  <2>4. \A c \in Command :
          commands[c].kind \in {"update", "upsert", "delete"} =>
            commands[c].id \in DOMAIN services
    BY DEF TuiInv, CommandsInv, Ready
  <2>5. QED
    BY <2>1, <2>2, <2>3, <2>4 DEF TypeOK
<1>2. QED
  BY <1>1, TuiInductive, SubmitInductive, PTL

\* Whichever load arrives last, the cursor is on a row while there are rows.
THEOREM CursorStaysOnARow == Spec => []CursorInBounds
<1>1. TuiInv => CursorInBounds
  BY DEF TuiInv, ListInv
<1>2. QED
  BY <1>1, TuiInductive, PTL
===============================================================================
