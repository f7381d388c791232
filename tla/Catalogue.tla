------------------------------- MODULE Catalogue -------------------------------
(***************************************************************************)
(* The tables that say which services exist: services, probe_configs and   *)
(* service_submissions, and the storage functions that write them.  A      *)
(* visitor submits a service over the API (SubmitService), an operator     *)
(* creates, updates and deletes one from the terminal; what the operator's *)
(* session does around these calls is ManageTui.                           *)
(*                                                                         *)
(* Transactions run at READ COMMITTED, so each statement of SubmitService  *)
(* that reads is a step.  Its inserts and its commit are one: an insert    *)
(* that meets an uncommitted row with its slug waits for that transaction, *)
(* and then does what it would have done after it.                         *)
(***************************************************************************)
EXTENDS Integers, Sequences, FiniteSets

CONSTANTS
  Name,         \* names, up to case, as numbers in their alphabetical order
  Slug,         \* slugs
  Site,         \* hosts of homepages, without "www." and port
  slugify,      \* name -> slug
  Request,      \* requests that submit a service, under way at a time
  MaxServices   \* bound: services

None == 0

\* created_at, the description and the category are left out: nothing here reads them.
Service == [name : Name, slug : Slug, site : Site, active : BOOLEAN]
Config == [enabled : BOOLEAN, url : Site]

ASSUME CatalogueAssumption ==
  /\ Name \subseteq Nat
  /\ slugify \in [Name -> Slug]
  /\ MaxServices \in Nat

VARIABLES
  services,     \* services: id -> row
  configs,      \* probe_configs, by the service they belong to
  submissions,  \* service_submissions, in order of commit
  request       \* each submitting request

catalogue == <<services, configs, submissions>>

Submission == [name : Name, slug : Slug, site : Site, after : Nat]
IdleRequest == [phase |-> "idle"]

CatalogueTypeOK ==
  /\ DOMAIN services \subseteq 1..MaxServices
  /\ \A id \in DOMAIN services : services[id] \in Service
  /\ \A i, j \in DOMAIN services : services[i].slug = services[j].slug => i = j
  /\ \A id \in DOMAIN configs : configs[id] \in Config
  /\ submissions \in Seq(Submission)
  /\ \A q \in Request : request[q] = IdleRequest \/
       request[q] \in [phase : {"services", "submissions", "insert"}, row : Submission]

\* DefaultProbeConfig: a check of the homepage, enabled.
DefaultProbeConfig(site) == [enabled |-> TRUE, url |-> site]

CatalogueInit ==
  /\ services = <<>>
  /\ configs = <<>>
  /\ submissions = <<>>
  /\ request = [q \in Request |-> IdleRequest]

\* A table with one more row, or with a row replaced.
With(table, id, row) ==
  [k \in DOMAIN table \cup {id} |-> IF k = id THEN row ELSE table[k]]
Without(table, id) == [k \in DOMAIN table \ {id} |-> table[k]]

\* The next value of the id column.
NewId == Cardinality(DOMAIN services) + 1

\* Mutant of SlugTaken: the column has a plain index.
SlugTakenNever(slug, id) == FALSE

\* The unique index on the slug refuses this one for the row with this id.
SlugTaken(slug, id) == \E k \in DOMAIN services \ {id} : services[k].slug = slug

-------------------------------------------------------------------------------
(* What the operator's commands call: the tables after the call. *)

\* Mutant of CreatedConfigs: the service comes without its default config.
CreatedConfigsNone(id, row) == configs

CreatedConfigs(id, row) == With(configs, id, DefaultProbeConfig(row.site))

\* CreateService.  The insert leaves a false `active` out, so that the column's
\* default, true, is what is stored.
CreateService(id, row) ==
  /\ id = NewId
  /\ id <= MaxServices
  /\ ~SlugTaken(row.slug, id)
  /\ services' = With(services, id, [row EXCEPT !.active = TRUE])
  /\ configs' = CreatedConfigs(id, row)
  /\ UNCHANGED submissions

\* UpdateService: every column, with the values the caller has.
UpdateService(id, row) ==
  /\ id \in DOMAIN services
  /\ ~SlugTaken(row.slug, id)
  /\ services' = With(services, id, row)
  /\ UNCHANGED <<configs, submissions>>

\* UpsertProbeConfig.  A config without an id is inserted or, on conflict, written
\* over the service's; the insert leaves a false `enabled` to the column's default.
UpsertProbeConfig(id, config, existing) ==
  /\ configs' = IF id \in DOMAIN configs THEN With(configs, id, config)
                ELSE IF existing # None THEN configs
                ELSE With(configs, id, [config EXCEPT !.enabled = TRUE])
  /\ UNCHANGED <<services, submissions>>

\* Rows of other tables that refer to the service: the foreign keys that gorm makes
\* of the associations in structs.Service have no ON DELETE action.
Referenced(id) == id \in DOMAIN configs

\* DeleteService.
DeleteService(id) ==
  /\ ~Referenced(id)
  /\ services' = Without(services, id)
  /\ UNCHANGED <<configs, submissions>>

-------------------------------------------------------------------------------
(* SubmitService. *)

\* A request whose fields passed normalizeSubmitServiceInput opens the transaction.
SubmitService(q, name, site) ==
  /\ request[q] = IdleRequest
  /\ Cardinality(DOMAIN services) < MaxServices
  /\ request' = [request EXCEPT ![q] =
       [phase |-> "services",
        row |-> [name |-> name, slug |-> slugify[name], site |-> site,
                 after |-> Len(submissions)]]]
  /\ UNCHANGED catalogue

Same(row, other) == row.slug = other.slug \/ row.name = other.name \/ row.site = other.site

\* On to the next statement, or the answer that the service exists already.
Proceed(q, duplicate, phase) ==
  request' = [request EXCEPT ![q] = IF duplicate THEN IdleRequest ELSE [@ EXCEPT !.phase = phase]]

findDuplicateService(q) ==
  /\ request[q].phase = "services"
  /\ Proceed(q, \E id \in DOMAIN services : Same(request[q].row, services[id]), "submissions")
  /\ UNCHANGED catalogue

\* Mutant of SubmittedBefore: the site is not compared.
SubmittedBeforeByName(row) ==
  \E i \in DOMAIN submissions : row.slug = submissions[i].slug \/ row.name = submissions[i].name

SubmittedBefore(row) == \E i \in DOMAIN submissions : Same(row, submissions[i])

hasDuplicateSubmission(q) ==
  /\ request[q].phase = "submissions"
  /\ Proceed(q, SubmittedBefore(request[q].row), "insert")
  /\ UNCHANGED catalogue

\* Mutant of SubmittedConfigs: the second insert is forgotten.
SubmittedConfigsNone(id, row) == configs

SubmittedConfigs(id, row) == With(configs, id, DefaultProbeConfig(row.site))

\* The three inserts and the commit; or the unique index refuses the first.
InsertSubmission(q) ==
  LET row == request[q].row IN
  /\ request[q].phase = "insert"
  /\ IF SlugTaken(row.slug, None) \/ NewId > MaxServices
     THEN UNCHANGED catalogue
     ELSE /\ services' = With(services, NewId, [name |-> row.name, slug |-> row.slug,
                                                site |-> row.site, active |-> TRUE])
          /\ configs' = SubmittedConfigs(NewId, row)
          /\ submissions' = Append(submissions, row)
  /\ request' = [request EXCEPT ![q] = IdleRequest]

\* A statement fails, or the client goes away: the transaction rolls back.
SubmissionFails(q) ==
  /\ request[q] # IdleRequest
  /\ request' = [request EXCEPT ![q] = IdleRequest]
  /\ UNCHANGED catalogue

Submit(q) ==
  \/ \E name \in Name, site \in Site : SubmitService(q, name, site)
  \/ findDuplicateService(q)
  \/ hasDuplicateSubmission(q)
  \/ InsertSubmission(q)
  \/ SubmissionFails(q)

-------------------------------------------------------------------------------
\* Whatever fails half-way, in the API or in the terminal, every service has a probe
\* config: none is tracked without ever being probed.
ServicesAreProbed == DOMAIN configs = DOMAIN services

\* What was submitted when a request began is not submitted again by that request,
\* under another name neither, wherever operators have moved the service since.
NoLateDuplicate ==
  \A i, j \in DOMAIN submissions :
    i <= submissions[j].after => ~Same(submissions[i], submissions[j])
===============================================================================
