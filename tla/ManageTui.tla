------------------------------- MODULE ManageTui -------------------------------
(***************************************************************************)
(* The terminal interface of `manage` (manage/tui.go, list.go, form.go,    *)
(* confirm.go) over the catalogue.  Update handles one message at a time;  *)
(* what it has to ask the database it asks in commands, each a goroutine   *)
(* whose answer comes back as a message whenever it is done.  So several   *)
(* commands are under way while the operator goes on, their transactions   *)
(* commit and their messages arrive in any order, and visitors submit      *)
(* services meanwhile.                                                     *)
(*                                                                         *)
(* Moving the focus over the form and typing into it is one step per field *)
(* (EditField), as is typing a search.  Scrolling, sizes, the status line  *)
(* and the look of the screens are left out.  What a screen holds that is  *)
(* not shown is overwritten before it is shown again, so it is dropped.    *)
(***************************************************************************)
EXTENDS Catalogue

CONSTANTS
  Command,    \* bound: commands under way at a time, numbered
  Query,      \* what may be searched for
  Matches,    \* query -> the names and slugs that contain it
  MaxKeys,    \* bound: what the operator does
  MaxFaults   \* bound: failed statements, and exits of the program

NoQuery == 0

ASSUME TuiAssumption ==
  /\ Command \subseteq Nat
  /\ NoQuery \notin Query
  /\ {MaxKeys, MaxFaults} \subseteq Nat

VARIABLES
  screen,    \* what is shown: Model.current with its detail, form or confirm
  list,      \* listModel
  commands,  \* the commands under way
  keys, faults

tui == <<screen, list, commands, keys, faults>>
vars == <<catalogue, request, tui>>

\* A row of the list: structs.Service with its id.  The rows that the search shows
\* are given by their positions in all.
Row == [id : 1..MaxServices, service : Service]
ProbeForm == [existing : 0..MaxServices, shown : BOOLEAN, config : Config]

\* What GetProbeConfig has when there is no row, or none could be read.
NoConfig == [row |-> None]

Idle == [kind |-> "idle"]
Load == [kind |-> "load"]
Loaded(rows) == [kind |-> "loaded", rows |-> rows]
Message(kind) == [kind |-> kind]
ListScreen == [view |-> "list"]
NewList == [all |-> <<>>, filtered |-> {}, cursor |-> 0, query |-> NoQuery,
            searching |-> FALSE]

TypeOK ==
  /\ CatalogueTypeOK
  /\ list.all \in Seq(Row) /\ list.filtered \subseteq DOMAIN list.all
  /\ list.cursor \in Nat
  /\ screen.view \in {"list", "detail", "create", "edit", "confirm"}
  /\ screen.view = "create" => screen.id = None
  /\ screen.view \in {"edit", "detail", "confirm"} => screen.id \in DOMAIN services
  /\ screen.view \in {"create", "edit"} =>
       screen.service \in Service /\ screen.probe \in ProbeForm
  /\ \A c \in Command :
       commands[c].kind \in {"update", "upsert", "delete"} => commands[c].id \in DOMAIN services

Init ==
  /\ CatalogueInit
  /\ screen = ListScreen
  /\ list = NewList
  /\ commands = [c \in Command |-> IF \A d \in Command : c <= d THEN Load ELSE Idle]
  /\ keys = 0
  /\ faults = 0

-------------------------------------------------------------------------------
(* The list. *)

Matching(rows, query) ==
  {k \in DOMAIN rows : \/ query = NoQuery
                       \/ {rows[k].service.name, rows[k].service.slug} \cap Matches[query] # {}}

applyFilter(l) == [l EXCEPT !.filtered = Matching(l.all, l.query)]

InBounds(l) == IF l.cursor >= Cardinality(l.filtered) /\ l.filtered # {}
               THEN [l EXCEPT !.cursor = Cardinality(l.filtered) - 1] ELSE l

\* Mutant of setServices: the cursor is kept in the bounds of the old rows.
setServicesEarly(l, rows) == applyFilter([InBounds(l) EXCEPT !.all = rows])

setServices(l, rows) == InBounds(applyFilter([l EXCEPT !.all = rows]))

\* The position of the row under the cursor: so many shown rows come before it.
Selected ==
  {k \in list.filtered : Cardinality({j \in list.filtered : j < k}) = list.cursor}

\* ORDER BY name; rows of one name come in any order.
GetAllServicesForManage ==
  LET n == Cardinality(DOMAIN services)
      ByName(order) == \A i, j \in 1..n : i < j =>
        order[i] # order[j] /\ services[order[i]].name <= services[order[j]].name
  IN  {[k \in 1..n |-> [id |-> order[k], service |-> services[order[k]]]] :
         order \in {o \in [1..n -> DOMAIN services] : ByName(o)}}

-------------------------------------------------------------------------------
(* Commands: each step is a call of the storage, and Answers the message. *)

Answers(c, message) == commands' = [commands EXCEPT ![c] = message]

\* loadServices
QueryServices(c) ==
  /\ commands[c] = Load
  /\ \E rows \in GetAllServicesForManage : Answers(c, Loaded(rows))
  /\ UNCHANGED <<catalogue, request, screen, list, keys, faults>>

\* The second half of cmdCreate and cmdUpdate, if the form has a probe section.
ThenUpsert(c, id) ==
  IF commands[c].probe.shown
  THEN Answers(c, [kind |-> "upsert", id |-> id, probe |-> commands[c].probe])
  ELSE Answers(c, Message("saved"))

\* cmdCreate.  The first half commits on its own.
Create(c) ==
  /\ commands[c].kind = "create"
  /\ NewId <= MaxServices
  /\ IF SlugTaken(commands[c].service.slug, NewId)
     THEN Answers(c, Message("error")) /\ UNCHANGED catalogue
     ELSE CreateService(NewId, commands[c].service) /\ ThenUpsert(c, NewId)
  /\ UNCHANGED <<request, screen, list, keys, faults>>

\* cmdUpdate
Update(c) ==
  /\ commands[c].kind = "update"
  /\ IF \/ commands[c].id \notin DOMAIN services
        \/ SlugTaken(commands[c].service.slug, commands[c].id)
     THEN Answers(c, Message("error")) /\ UNCHANGED catalogue
     ELSE UpdateService(commands[c].id, commands[c].service) /\ ThenUpsert(c, commands[c].id)
  /\ UNCHANGED <<request, screen, list, keys, faults>>

Upsert(c) ==
  /\ commands[c].kind = "upsert"
  /\ UpsertProbeConfig(commands[c].id, commands[c].probe.config, commands[c].probe.existing)
  /\ Answers(c, Message("saved"))
  /\ UNCHANGED <<request, screen, list, keys, faults>>

\* cmdDelete
Delete(c) ==
  /\ commands[c].kind = "delete"
  /\ IF Referenced(commands[c].id)
     THEN Answers(c, Message("error")) /\ UNCHANGED catalogue
     ELSE DeleteService(commands[c].id) /\ Answers(c, Message("deleted"))
  /\ UNCHANGED <<request, screen, list, keys, faults>>

\* A statement fails: what the command has committed stays.
CommandFails(c) ==
  /\ commands[c].kind \in {"load", "create", "update", "upsert", "delete"}
  /\ faults < MaxFaults
  /\ faults' = faults + 1
  /\ Answers(c, Message("error"))
  /\ UNCHANGED <<catalogue, request, screen, list, keys>>

\* Update handles the message of a command.
servicesLoadedMsg(c) ==
  /\ commands[c].kind = "loaded"
  /\ list' = setServices(list, commands[c].rows)
  /\ commands' = [commands EXCEPT ![c] = Idle]
  /\ UNCHANGED <<catalogue, request, screen, keys, faults>>

\* servicesSavedMsg and serviceDeletedMsg: to the list, whatever is shown by now.
servicesSavedMsg(c) ==
  /\ commands[c].kind \in {"saved", "deleted"}
  /\ screen' = ListScreen
  /\ commands' = [commands EXCEPT ![c] = Load]
  /\ UNCHANGED <<catalogue, request, list, keys, faults>>

\* errMsg, and a servicesLoadedMsg with an error: only the status line changes.
errMsg(c) ==
  /\ commands[c].kind = "error"
  /\ commands' = [commands EXCEPT ![c] = Idle]
  /\ UNCHANGED <<catalogue, request, screen, list, keys, faults>>

CommandStep(c) ==
  \/ QueryServices(c)
  \/ Create(c)
  \/ Update(c)
  \/ Upsert(c)
  \/ Delete(c)
  \/ CommandFails(c)
  \/ servicesLoadedMsg(c)
  \/ servicesSavedMsg(c)
  \/ errMsg(c)

-------------------------------------------------------------------------------
(* Keys. *)

Key == keys < MaxKeys /\ keys' = keys + 1

Shows(next) == screen' = next /\ UNCHANGED <<catalogue, request, list, commands, faults>>
Lists(next) == list' = next /\ UNCHANGED <<catalogue, request, screen, commands, faults>>

OnList == Key /\ screen.view = "list" /\ ~list.searching

\* "up", "k", "down", "j"
MoveCursor ==
  /\ OnList
  /\ \/ list.cursor > 0 /\ Lists([list EXCEPT !.cursor = @ - 1])
     \/ list.cursor < Cardinality(list.filtered) - 1 /\ Lists([list EXCEPT !.cursor = @ + 1])

\* "/"
StartSearch == OnList /\ Lists([list EXCEPT !.searching = TRUE])

\* What is typed filters at once; "esc" clears it and "enter" leaves it in force.
Search ==
  /\ Key
  /\ screen.view = "list" /\ list.searching
  /\ \/ \E q \in Query \cup {NoQuery} :
          Lists(applyFilter([list EXCEPT !.query = q, !.cursor = 0]))
     \/ Lists(applyFilter([list EXCEPT !.query = NoQuery, !.cursor = 0, !.searching = FALSE]))
     \/ Lists([list EXCEPT !.searching = FALSE])

\* newFormModel without a service: some name, with the slug made of it, and some
\* site, as the operator types them first.
CreateForm(name, site) ==
  [view |-> "create", id |-> None,
   service |-> [name |-> name, slug |-> slugify[name], site |-> site, active |-> TRUE],
   slugEdited |-> FALSE,
   probe |-> [existing |-> None, shown |-> FALSE, config |-> DefaultProbeConfig(site)]]

\* newFormModel with a service, and with its config if that could be read.
EditForm(id, service, config) ==
  [view |-> "edit", id |-> id, service |-> service, slugEdited |-> TRUE,
   probe |-> IF config = NoConfig
             THEN [existing |-> None, shown |-> FALSE, config |-> DefaultProbeConfig(service.site)]
             ELSE [existing |-> id, shown |-> TRUE, config |-> config]]

\* "n"
PressNew == OnList /\ \E name \in Name, site \in Site : Shows(CreateForm(name, site))

\* GetProbeConfig: the row, or nothing when the read fails.
GetProbeConfig(id, config) ==
  \/ id \in DOMAIN configs /\ config = configs[id] /\ UNCHANGED faults
  \/ id \notin DOMAIN configs /\ config = NoConfig /\ UNCHANGED faults
  \/ faults < MaxFaults /\ faults' = faults + 1 /\ config = NoConfig

\* "e" and "enter", on the row as the list has it and the config as it is now.
OpenSelected ==
  /\ OnList
  /\ \E k \in Selected, config \in {NoConfig} \cup {configs[id] : id \in DOMAIN configs} :
       LET row == list.all[k] IN
       /\ GetProbeConfig(row.id, config)
       /\ \/ screen' = EditForm(row.id, row.service, config)
          \/ screen' = [view |-> "detail", id |-> row.id, service |-> row.service,
                        config |-> config]
  /\ UNCHANGED <<catalogue, request, list, commands>>

Confirm(id) == [view |-> "confirm", id |-> id]

\* "d"
PressDelete == OnList /\ \E k \in Selected : Shows(Confirm(list.all[k].id))

\* updateDetail: "e", "d" and "esc"
Detail ==
  /\ Key
  /\ screen.view = "detail"
  /\ Shows(EditForm(screen.id, screen.service, screen.config)) \/ Shows(Confirm(screen.id))
       \/ Shows(ListScreen)

OneFieldOf(c, d) == c.enabled = d.enabled \/ c.url = d.url

\* The form's fields after one of them was edited; the slug of a new service follows
\* the name until it is edited itself.  The section of a config that was
\* not there can be added and removed; only a shown section has fields.
Edited(form) ==
  {[form EXCEPT !.service.name = name,
                !.service.slug = IF form.slugEdited THEN @ ELSE slugify[name]] : name \in Name}
  \cup {[form EXCEPT !.service.slug = slug, !.slugEdited = TRUE] : slug \in Slug}
  \cup {[form EXCEPT !.service.site = site] : site \in Site}
  \cup {[form EXCEPT !.service.active = ~@]}
  \cup {[form EXCEPT !.probe.shown = ~@] : existing \in {form.probe.existing} \cap {None}}
  \cup {[form EXCEPT !.probe.config = config] : config \in
          {c \in Config : form.probe.shown /\ OneFieldOf(c, form.probe.config)}}

EditField ==
  /\ Key
  /\ screen.view \in {"create", "edit"}
  /\ \E form \in Edited(screen) : form # screen /\ Shows(form)

\* Whether command c is the one that a key starts.
Starts(c, command) ==
  /\ commands[c] = Idle
  /\ \A d \in Command : d < c => commands[d] # Idle
  /\ commands' = [commands EXCEPT ![c] = command]

\* "ctrl+s": cmdCreate or cmdUpdate with what the form holds.  The form stays.
Save ==
  /\ Key
  /\ screen.view \in {"create", "edit"}
  /\ \E c \in Command :
       Starts(c, [kind |-> IF screen.view = "create" THEN "create" ELSE "update",
                  id |-> screen.id, service |-> screen.service, probe |-> screen.probe])
  /\ UNCHANGED <<catalogue, request, screen, list, faults>>

\* "esc" in the form, "n" or "esc" in the dialog
Cancel == Key /\ screen.view \in {"create", "edit", "confirm"} /\ Shows(ListScreen)

\* "y"
ConfirmDelete ==
  /\ Key
  /\ screen.view = "confirm"
  /\ screen' = ListScreen
  /\ \E c \in Command : Starts(c, [kind |-> "delete", id |-> screen.id])
  /\ UNCHANGED <<catalogue, request, list, faults>>

\* "q", "ctrl+c" or the death of the program, and its next start: what a command has
\* committed stays, and the rest of it never happens.
Quit ==
  /\ faults < MaxFaults
  /\ faults' = faults + 1
  /\ screen' = ListScreen
  /\ list' = NewList
  /\ commands' = [c \in Command |-> IF \A d \in Command : c <= d THEN Load ELSE Idle]
  /\ UNCHANGED <<catalogue, request, keys>>

Next ==
  \/ \E q \in Request : Submit(q) /\ UNCHANGED tui
  \/ \E c \in Command : CommandStep(c)
  \/ MoveCursor
  \/ StartSearch
  \/ Search
  \/ PressNew
  \/ OpenSelected
  \/ PressDelete
  \/ Detail
  \/ EditField
  \/ Save
  \/ Cancel
  \/ ConfirmDelete
  \/ Quit

Spec == Init /\ [][Next]_vars

-------------------------------------------------------------------------------
\* Whichever load arrives last, older ones and filtered ones included, the cursor is
\* on a row while there are rows: selected() indexes without a check.
CursorInBounds == list.filtered # {} => list.cursor < Cardinality(list.filtered)

\* Once both halves of a save are done the config is as the form had it, disabled
\* ones included, although neither insert can store a false `enabled`.
ConfigAsAsked ==
  [][\A c \in Command :
       Upsert(c) => configs'[commands[c].id] = commands[c].probe.config]_vars

\* "d: delete the selected service" (docs/development.md:35): the confirmed deletion,
\* unless the database fails, deletes.
DeleteRemovesService ==
  [][\A c \in Command : Delete(c) => commands[c].id \notin DOMAIN services']_vars
===============================================================================
