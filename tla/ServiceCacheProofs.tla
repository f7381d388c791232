-------------------------- MODULE ServiceCacheProofs --------------------------
(***************************************************************************)
(* Theorems about ServiceCache, for every set of services, slugs and       *)
(* processes, and for any bounds.                                          *)
(***************************************************************************)
EXTENDS ServiceCache, FiniteSetTheorems, TLAPS

-------------------------------------------------------------------------------
(* The inductive invariant. *)

Row == [slug : Slug, active : BOOLEAN, info : Nat, data : Nat, snap : Nat \cup {NoSnapshot}]

\* A row is numbered by commits that have been; a slug belongs to one service.
RowsInv ==
  /\ writes \in Nat /\ faults \in Nat
  /\ rows \in [Service -> Row \cup {NoRow}]
  /\ \A s \in Service : rows[s].info <= writes /\ rows[s].data <= writes /\ rows[s].snap <= writes
  /\ \A s, t \in Service : rows[s] # NoRow /\ rows[s].slug = rows[t].slug => s = t

\* The entries of the cache.
EntriesInv ==
  /\ list = NoEntry \/ (DOMAIN list.seen \subseteq Service /\ list.stored \in 0..writes)
  /\ DOMAIN detail = Slug
  /\ \A k \in Slug :
       detail[k] = NoEntry \/ (detail[k].id \in Service /\ detail[k].stored \in 0..writes)
  /\ overtaken \subseteq Slug

Phase == {"idle", "list", "storeList", "lookup", "insert", "slug", "drop", "refresh", "build",
          "store", "save", "dropList"}

\* What a process has at hand in its phase, and where it goes on after an invalidation.
IsTask(t) ==
  /\ DOMAIN t = {"phase", "id", "slug", "drop", "seen", "then"}
  /\ t.phase \in Phase
  /\ t.drop \subseteq Slug
  /\ t.then \in {"idle", "insert", "refresh", "build"}
  /\ t.phase = "lookup" => t.then # "idle"
  /\ t.phase \in {"insert", "refresh", "build", "store", "slug", "save"} => t.id \in Service
  /\ t.phase = "drop" /\ t.then # "idle" => t.id \in Service
  /\ t.phase = "storeList" => DOMAIN t.seen \subseteq Service
  /\ t.phase = "save" => t.slug \in Slug

\* Whose service still has a row: rows are never deleted.
HasRow(t) ==
  /\ t.phase \in {"insert", "refresh", "build", "store", "slug", "save"} => rows[t.id] # NoRow
  /\ t.phase = "drop" /\ t.then # "idle" => rows[t.id] # NoRow

TasksInv ==
  /\ DOMAIN task = Process
  /\ \A p \in Process : IsTask(task[p]) /\ HasRow(task[p])

BaseInv == RowsInv /\ EntriesInv /\ TasksInv

\* A list entry is as new as the last commit, or it will be dropped.
ListDropped ==
  list # NoEntry /\ list.stored # writes =>
    \E p \in Process : task[p].phase \in {"slug", "drop"}

\* A detail entry under its service's slug is as new as the service, or it will be
\* dropped: by who has its slug, or by who will read the slug of its service.  What is
\* left is under a slug that was taken from its service unread.
DetailDropped(k) ==
  detail[k] # NoEntry /\ detail[k].owned =>
    LET row == rows[detail[k].id] IN
    \/ row.slug = k /\ detail[k].stored >= row.info /\ detail[k].stored >= row.data
    \/ \E p \in Process : task[p].phase = "drop" /\ k \in task[p].drop
    \/ row.slug = k /\ \E p \in Process : task[p].phase = "slug" /\ task[p].id = detail[k].id
    \/ row.slug # k /\ k \in overtaken

DroppedInv == faults = 0 => ListDropped /\ \A k \in Slug : DetailDropped(k)

-------------------------------------------------------------------------------
(* Lemmas about single steps. *)

\* What Goes does to the tasks.
LEMMA GoesFact ==
  ASSUME DOMAIN task = Process, NEW p \in Process, NEW new, Goes(p, new)
  PROVE  /\ DOMAIN task' = Process
         /\ task'[p] = new
         /\ \A q \in Process : q # p => task'[q] = task[q]
BY DEF Goes

\* A process goes on with a proper task, and no row is deleted.
LEMMA TasksStep ==
  ASSUME TasksInv, NEW p \in Process, NEW new, Goes(p, new), IsTask(new), HasRow(new),
         \A s \in Service : rows[s] # NoRow => rows'[s] # NoRow
  PROVE  TasksInv'
<1>1. DOMAIN task' = Process /\ \A q \in Process : task'[q] = task[q] \/ task'[q] = new
  BY GoesFact DEF TasksInv
<1>2. ASSUME NEW q \in Process  PROVE IsTask(task'[q]) /\ HasRow(task'[q])
  BY <1>1 DEF TasksInv
<1>3. ASSUME NEW t, IsTask(t), HasRow(t)  PROVE HasRow(t)'
  BY <1>3 DEF IsTask, HasRow
<1>4. ASSUME NEW q \in Process  PROVE (IsTask(task[q]) /\ HasRow(task[q]))'
  <2>1. IsTask(task'[q]) /\ HasRow(task'[q])
    BY <1>2
  <2> QED  BY <2>1 DEF IsTask, HasRow
<1> QED  BY <1>1, <1>4 DEF TasksInv

\* What a row counts is a number.
LEMMA RowNumbers ==
  ASSUME RowsInv, NEW s \in Service
  PROVE  rows[s].info \in Int /\ rows[s].data \in Int /\ rows[s].snap \in Int
<1>1. CASE rows[s] \in Row
  BY <1>1 DEF Row, NoSnapshot
<1>2. CASE rows[s] = NoRow
  <2>1. NoRow.info \in Int /\ NoRow.data \in Int /\ NoRow.snap \in Int
    BY DEF NoRow, NoSnapshot
  <2> QED  BY <1>2, <2>1
<1> QED  BY <1>1, <1>2 DEF RowsInv

\* A commit replaces one row by one with a slug of its own.
LEMMA RowsStep ==
  ASSUME CacheAssumption, RowsInv, NEW s \in Service, NEW row \in Row,
         writes' = writes + 1, faults' = faults, rows' = [rows EXCEPT ![s] = row],
         row.info <= writes + 1, row.data <= writes + 1, row.snap <= writes + 1,
         \A t \in Service : rows[t].slug = row.slug => t = s
  PROVE  RowsInv' /\ \A t \in Service : rows[t] # NoRow => rows'[t] # NoRow
<1>1. NoRow \notin Row
  BY DEF NoRow, Row, CacheAssumption, NoSlug
<1>2. rows' \in [Service -> Row \cup {NoRow}] /\ rows'[s] = row
        /\ \A t \in Service : t # s => rows'[t] = rows[t]
  BY DEF RowsInv
<1>3. \A t \in Service : rows'[t].info <= writes' /\ rows'[t].data <= writes' /\ rows'[t].snap <= writes'
  <2>1. ASSUME NEW t \in Service, t # s
        PROVE  rows'[t].info <= writes' /\ rows'[t].data <= writes' /\ rows'[t].snap <= writes'
    <3>1. rows'[t] = rows[t] /\ writes \in Nat
      BY <1>2, <2>1 DEF RowsInv
    <3>2. rows[t].info \in Int /\ rows[t].data \in Int /\ rows[t].snap \in Int
      BY RowNumbers
    <3> QED  BY <3>1, <3>2 DEF RowsInv
  <2> QED  BY <1>2, <2>1
<1>4. \A t, u \in Service : rows'[t] # NoRow /\ rows'[t].slug = rows'[u].slug => t = u
  BY <1>2 DEF RowsInv
<1>5. \A t \in Service : rows[t] # NoRow => rows'[t] # NoRow
  BY <1>1, <1>2
<1>6. writes' \in Nat /\ faults' \in Nat
  BY DEF RowsInv
<1> QED  BY <1>2, <1>3, <1>4, <1>5, <1>6 DEF RowsInv

\* A row that there is, with other numbers.
LEMMA RowFact ==
  ASSUME CacheAssumption, RowsInv, NEW s \in Service, rows[s] # NoRow
  PROVE  /\ rows[s] \in Row
         /\ \A t \in Service : rows[t].slug = rows[s].slug => t = s
BY DEF RowsInv

\* A commit that changes what hangs on a row.
LEMMA DataStep ==
  ASSUME CacheAssumption, RowsInv, NEW s \in Service, rows[s] # NoRow,
         writes' = writes + 1, faults' = faults,
         rows' = [rows EXCEPT ![s].data = writes'] \/
         rows' = [rows EXCEPT ![s].data = writes', ![s].snap = writes']
  PROVE  /\ RowsInv'
         /\ \A t \in Service : rows[t] # NoRow => rows'[t] # NoRow
         /\ \A t \in Service : rows'[t].slug = rows[t].slug /\ rows'[t].info = rows[t].info
         /\ \A t \in Service : t # s => rows'[t] = rows[t]
<1> DEFINE a == [rows[s] EXCEPT !.data = writes']
           b == [a EXCEPT !.snap = writes']
<1>1. writes' \in Nat /\ rows[s] \in Row
  BY RowFact DEF RowsInv
<1>2. a \in Row /\ a.slug = rows[s].slug /\ a.info = rows[s].info
        /\ a.data = writes' /\ a.snap = rows[s].snap
  BY <1>1 DEF Row
<1>3. b \in Row /\ b.slug = rows[s].slug /\ b.info = rows[s].info
        /\ b.data = writes' /\ b.snap = writes'
  <2> HIDE DEF a
  <2> QED  BY <1>1, <1>2 DEF Row
<1>4. rows' = [rows EXCEPT ![s] = a] \/ rows' = [rows EXCEPT ![s] = b]
  <2>1. CASE rows' = [rows EXCEPT ![s].data = writes']
    BY <2>1
  <2>2. CASE rows' = [rows EXCEPT ![s].data = writes', ![s].snap = writes']
    BY <2>2 DEF RowsInv
  <2> QED  BY <2>1, <2>2
<1>5. PICK row \in Row : /\ rows' = [rows EXCEPT ![s] = row]
                         /\ row.slug = rows[s].slug /\ row.info = rows[s].info
                         /\ row.data = writes' /\ row.snap \in {rows[s].snap, writes'}
  <2> HIDE DEF a, b
  <2> QED  BY <1>2, <1>3, <1>4
<1> HIDE DEF a, b
<1>6. row.info <= writes + 1 /\ row.data <= writes + 1 /\ row.snap <= writes + 1
  <2>1. rows[s].info \in Int /\ rows[s].snap \in Int /\ writes \in Nat
    BY <1>1 DEF RowsInv, Row, NoSnapshot
  <2>2. rows[s].info <= writes /\ rows[s].snap <= writes
    BY DEF RowsInv
  <2> QED  BY <1>5, <2>1, <2>2
<1>7. \A t \in Service : rows[t].slug = row.slug => t = s
  BY <1>5, RowFact
<1>8. DOMAIN rows = Service
  BY DEF RowsInv
<1>9. RowsInv' /\ \A t \in Service : rows[t] # NoRow => rows'[t] # NoRow
  BY <1>5, <1>6, <1>7, RowsStep
<1>10. rows'[s] = row /\ \A t \in Service : t # s => rows'[t] = rows[t]
  BY <1>5, <1>8
<1>11. \A t \in Service : rows'[t].slug = rows[t].slug /\ rows'[t].info = rows[t].info
  BY <1>5, <1>10
<1> QED  BY <1>9, <1>10, <1>11

\* What is cached stays what it was.
LEMMA EntriesKept ==
  ASSUME RowsInv, EntriesInv, UNCHANGED <<list, detail>>, overtaken' \subseteq Slug,
         writes' \in {writes, writes + 1}
  PROVE  EntriesInv'
<1>1. 0..writes \subseteq 0..writes'
  BY DEF RowsInv
<1> QED  BY <1>1 DEF EntriesInv

\* No commit.
LEMMA RowsKept ==
  ASSUME RowsInv, UNCHANGED <<rows, writes>>, faults' \in {faults, faults + 1}
  PROVE  RowsInv' /\ \A s \in Service : rows[s] # NoRow => rows'[s] # NoRow
BY DEF RowsInv

\* A step of a process that touches neither rows nor cache.
LEMMA PrivateStep ==
  ASSUME BaseInv, NEW p \in Process, NEW new, Goes(p, new), IsTask(new), HasRow(new),
         UNCHANGED <<rows, cache, writes>>, faults' \in {faults, faults + 1}
  PROVE  BaseInv'
<1>1. RowsInv' /\ \A s \in Service : rows[s] # NoRow => rows'[s] # NoRow
  BY RowsKept DEF BaseInv
<1>2. EntriesInv'
  BY EntriesKept DEF BaseInv, EntriesInv, cache
<1>3. TasksInv'
  BY <1>1, TasksStep DEF BaseInv
<1> QED  BY <1>1, <1>2, <1>3 DEF BaseInv

\* Idle is a proper task.
LEMMA IdleFact == IsTask(Idle) /\ HasRow(Idle)
BY DEF Idle, IsTask, HasRow, Phase

\* What the caller of an invalidation goes on with is a proper task.
LEMMA AfterDropFact ==
  ASSUME NEW p, IsTask(task[p]), HasRow(task[p]), task[p].phase = "drop"
  PROVE  IsTask(AfterDrop(p)) /\ HasRow(AfterDrop(p)) /\ AfterDrop(p).phase \notin {"save", "slug", "drop"}
<1>1. CASE task[p].then = "idle"
  BY <1>1, IdleFact DEF AfterDrop, Idle
<1>2. CASE task[p].then # "idle"
  <2> DEFINE t == [task[p] EXCEPT !.phase = task[p].then, !.drop = {}]
  <2>1. DOMAIN t = DOMAIN task[p] /\ t.phase = task[p].then /\ t.drop = {}
          /\ t.then = task[p].then /\ t.id = task[p].id
    BY DEF IsTask
  <2>2. AfterDrop(p) = t
    BY <1>2 DEF AfterDrop
  <2> HIDE DEF t
  <2>3. IsTask(t) /\ HasRow(t) /\ t.phase \notin {"save", "slug", "drop"}
    BY <1>2, <2>1 DEF IsTask, HasRow, Phase
  <2> QED  BY <2>2, <2>3
<1> QED  BY <1>1, <1>2

-------------------------------------------------------------------------------
(* The base invariant. *)

\* A row that is published from the start.
LEMMA NewRowFact ==
  ASSUME NEW k \in Slug
  PROVE  LET r == [NoRow EXCEPT !.slug = k, !.active = TRUE, !.snap = 0]
         IN  r \in Row /\ r.slug = k /\ r.info = 0 /\ r.data = 0 /\ r.snap = 0
<1> DEFINE a == [NoRow EXCEPT !.slug = k]
           b == [a EXCEPT !.active = TRUE]
           c == [b EXCEPT !.snap = 0]
           anyRow == [slug : Slug \cup {NoSlug}, active : BOOLEAN, info : Nat, data : Nat,
                      snap : Nat \cup {NoSnapshot}]
<1>1. NoRow \in anyRow /\ NoRow.info = 0 /\ NoRow.data = 0
  BY DEF NoRow, NoSlug
<1>2. a \in Row /\ a.slug = k /\ a.info = 0 /\ a.data = 0
  <2> HIDE DEF NoRow
  <2> QED  BY <1>1 DEF Row
<1>3. b \in Row /\ b.slug = k /\ b.info = 0 /\ b.data = 0
  <2> HIDE DEF a
  <2> QED  BY <1>2 DEF Row
<1>4. c \in Row /\ c.slug = k /\ c.info = 0 /\ c.data = 0 /\ c.snap = 0
  <2> HIDE DEF b
  <2> QED  BY <1>3 DEF Row
<1>5. c = [NoRow EXCEPT !.slug = k, !.active = TRUE, !.snap = 0]
  OBVIOUS
<1> QED  BY <1>4, <1>5

LEMMA InitBase ==
  ASSUME CacheAssumption, Init
  PROVE  BaseInv
<1>1. RowsInv
  <2> DEFINE row(s) == [NoRow EXCEPT !.slug = Published[s], !.active = TRUE, !.snap = 0]
  <2>1. \A s \in DOMAIN Published : Published[s] \in Slug
    BY DEF CacheAssumption
  <2>2. ASSUME NEW k \in Slug
        PROVE  LET r == [NoRow EXCEPT !.slug = k, !.active = TRUE, !.snap = 0]
               IN  r \in Row /\ r.slug = k /\ r.info = 0 /\ r.data = 0 /\ r.snap = 0
    BY NewRowFact
  <2>3. ASSUME NEW s \in DOMAIN Published
        PROVE  /\ row(s) \in Row /\ row(s).slug = Published[s]
               /\ row(s).info = 0 /\ row(s).data = 0 /\ row(s).snap = 0
    BY <2>1, <2>2
  <2>4. rows = [s \in Service |-> IF s \in DOMAIN Published THEN row(s) ELSE NoRow]
    BY DEF Init
  <2> HIDE DEF row
  <2>5. rows \in [Service -> Row \cup {NoRow}] /\ writes = 0 /\ faults = 0
    <3>1. \A s \in Service : (IF s \in DOMAIN Published THEN row(s) ELSE NoRow) \in Row \cup {NoRow}
      BY <2>3
    <3> QED  BY <2>4, <3>1 DEF Init
  <2>6. NoRow.slug \notin Slug /\ NoRow.info = 0 /\ NoRow.data = 0 /\ NoRow.snap = -1
    BY DEF NoRow, NoSnapshot, NoSlug, CacheAssumption
  <2>7. ASSUME NEW s \in Service
        PROVE  rows[s].info <= writes /\ rows[s].data <= writes /\ rows[s].snap <= writes
    BY <2>3, <2>4, <2>5, <2>6
  <2>8. ASSUME NEW s \in Service, NEW t \in Service, rows[s] # NoRow, rows[s].slug = rows[t].slug
        PROVE  s = t
    <3>1. s \in DOMAIN Published /\ rows[s].slug = Published[s]
      BY <2>3, <2>4, <2>8
    <3>2. t \in DOMAIN Published /\ rows[t].slug = Published[t]
      BY <2>1, <2>3, <2>4, <2>6, <2>8, <3>1
    <3> QED  BY <2>8, <3>1, <3>2 DEF CacheAssumption
  <2> QED  BY <2>5, <2>7, <2>8 DEF RowsInv
<1>2. EntriesInv
  BY DEF Init, EntriesInv
<1>3. TasksInv
  BY IdleFact DEF Init, TasksInv
<1> QED  BY <1>1, <1>2, <1>3 DEF BaseInv

\* Steps that neither commit nor touch the cache: what the process goes on with.
LEMMA ReaderStep ==
  ASSUME BaseInv, NEW p \in Process,
         \/ GetServices(p) \/ ListServices(p) \/ GetServiceBySlug(p) \/ BuildDetail(p)
         \/ \E k \in Slug : GetService(p, k) \/ CreateServiceReport(p, k)
  PROVE  /\ UNCHANGED <<rows, cache, writes, faults>>
         /\ task[p].phase \notin {"slug", "drop"}
         /\ \E new : Goes(p, new) /\ IsTask(new) /\ HasRow(new) /\ new.phase # "save"
<1>0. IsTask(task[p]) /\ HasRow(task[p])
  BY DEF BaseInv, TasksInv
<1>1. UNCHANGED <<rows, cache, writes, faults>> /\ task[p].phase \notin {"slug", "drop"}
  BY DEF GetServices, ListServices, GetServiceBySlug, BuildDetail, GetService, CreateServiceReport
<1> DEFINE Goal == \E new : Goes(p, new) /\ IsTask(new) /\ HasRow(new) /\ new.phase # "save"
<1>2. CASE GetServices(p)
  <2> DEFINE new == [Idle EXCEPT !.phase = "list"]
  <2>1. IsTask(new) /\ HasRow(new) /\ new.phase # "save"
    BY DEF Idle, IsTask, HasRow, Phase
  <2>2. Goes(p, new)
    BY <1>2 DEF GetServices
  <2> HIDE DEF new
  <2> QED  BY <1>1, <2>1, <2>2
<1>3. ASSUME NEW k \in Slug, GetService(p, k) \/ CreateServiceReport(p, k)
      PROVE  Goal
  <2> DEFINE new(then) == [Idle EXCEPT !.phase = "lookup", !.slug = k, !.then = then]
  <2>1. ASSUME NEW then \in {"build", "insert"}
        PROVE  IsTask(new(then)) /\ HasRow(new(then)) /\ new(then).phase # "save"
    BY DEF Idle, IsTask, HasRow, Phase
  <2>2. PICK then \in {"build", "insert"} : Goes(p, new(then))
    BY <1>3 DEF GetService, CreateServiceReport
  <2> HIDE DEF new
  <2> QED  BY <2>1, <2>2
<1>4. CASE ListServices(p)
  <2> DEFINE new == [Idle EXCEPT !.phase = "storeList", !.seen = [s \in Active |-> Shown(s)]]
  <2>1. IsTask(new) /\ HasRow(new) /\ new.phase # "save"
    BY DEF Idle, IsTask, HasRow, Phase, Active
  <2>2. Goes(p, new)
    BY <1>4 DEF ListServices
  <2> HIDE DEF new
  <2> QED  BY <1>1, <2>1, <2>2
<1>5. CASE GetServiceBySlug(p)
  <2> DEFINE found == HasSlug(task[p].slug) \cap Active
             s == CHOOSE t \in found : TRUE
             new == [task[p] EXCEPT !.phase = task[p].then, !.id = s, !.seen = [info |-> rows[s].info]]
  <2>1. CASE found = {}
    <3>1. Goes(p, Idle) /\ Idle.phase # "save"
      BY <1>5, <2>1 DEF GetServiceBySlug, Idle
    <3> QED  BY <1>1, <3>1, IdleFact
  <2>2. CASE found # {}
    <3>1. Goes(p, new)
      BY <1>5, <2>2 DEF GetServiceBySlug
    <3>2. s \in Service /\ rows[s].active
      BY <2>2 DEF Active, HasSlug
    <3>3. rows[s] # NoRow
      <4>1. ~NoRow.active
        BY DEF NoRow
      <4> QED  BY <3>2, <4>1
    <3>4. task[p].phase = "lookup" /\ task[p].then \in {"insert", "refresh", "build"}
      BY <1>0, <1>5 DEF GetServiceBySlug, IsTask
    <3>5. DOMAIN new = DOMAIN task[p] /\ new.phase = task[p].then /\ new.id = s
            /\ new.then = task[p].then /\ new.drop = task[p].drop
      BY <1>0 DEF IsTask
    <3> HIDE DEF new, s
    <3>6. IsTask(new) /\ HasRow(new) /\ new.phase # "save"
      BY <1>0, <3>2, <3>3, <3>4, <3>5 DEF IsTask, HasRow, Phase
    <3> QED  BY <1>1, <3>1, <3>6
  <2> QED  BY <2>1, <2>2
<1>6. CASE BuildDetail(p)
  <2> DEFINE new == [task[p] EXCEPT !.phase = "store",
                             !.seen = [Shown(task[p].id) EXCEPT !.info = task[p].seen.info]]
  <2>1. Goes(p, new) /\ task[p].phase = "build"
    BY <1>6 DEF BuildDetail
  <2>2. DOMAIN new = DOMAIN task[p] /\ new.phase = "store" /\ new.id = task[p].id
          /\ new.then = task[p].then /\ new.drop = task[p].drop
    BY <1>0 DEF IsTask
  <2> HIDE DEF new
  <2>3. IsTask(new) /\ HasRow(new) /\ new.phase # "save"
    BY <1>0, <2>1, <2>2 DEF IsTask, HasRow, Phase
  <2> QED  BY <1>1, <2>1, <2>3
<1> QED  BY <1>1, <1>2, <1>3, <1>4, <1>5, <1>6

\* The same for a fault.
LEMMA FaultStep ==
  ASSUME BaseInv, NEW p \in Process, Fail(p) \/ SlugNotLoaded(p) \/ InvalidationLost(p)
  PROVE  /\ UNCHANGED <<rows, cache, writes>>
         /\ faults' = faults + 1
         /\ \E new : Goes(p, new) /\ IsTask(new) /\ HasRow(new) /\ new.phase # "save"
<1>0. IsTask(task[p]) /\ HasRow(task[p])
  BY DEF BaseInv, TasksInv
<1>1. UNCHANGED <<rows, cache, writes>> /\ faults' = faults + 1
  BY DEF Fail, SlugNotLoaded, InvalidationLost
<1>2. CASE Fail(p)
  <2>1. Goes(p, Idle) /\ Idle.phase # "save"
    BY <1>2 DEF Fail, Idle
  <2> QED  BY <1>1, <2>1, IdleFact
<1>3. CASE SlugNotLoaded(p)
  <2> DEFINE new == [task[p] EXCEPT !.phase = "drop", !.drop = {}]
  <2>1. Goes(p, new) /\ task[p].phase = "slug"
    BY <1>3 DEF SlugNotLoaded
  <2>2. DOMAIN new = DOMAIN task[p] /\ new.phase = "drop" /\ new.id = task[p].id
          /\ new.then = task[p].then /\ new.drop = {}
    BY <1>0 DEF IsTask
  <2> HIDE DEF new
  <2>3. IsTask(new) /\ HasRow(new) /\ new.phase # "save"
    BY <1>0, <2>1, <2>2 DEF IsTask, HasRow, Phase
  <2> QED  BY <1>1, <2>1, <2>3
<1>4. CASE InvalidationLost(p)
  <2>1. /\ Goes(p, AfterDrop(p)) /\ IsTask(AfterDrop(p)) /\ HasRow(AfterDrop(p))
        /\ AfterDrop(p).phase # "save"
    BY <1>0, <1>4, AfterDropFact DEF InvalidationLost
  <2> QED  BY <1>1, <2>1
<1> QED  BY <1>2, <1>3, <1>4

\* The same for the read of the slug after a commit.
LEMMA SlugStep ==
  ASSUME CacheAssumption, BaseInv, NEW p \in Process, LoadSlug(p)
  PROVE  /\ UNCHANGED <<rows, cache, writes, faults>>
         /\ task[p].phase = "slug" /\ task[p].id \in Service
         /\ \E new : /\ Goes(p, new) /\ IsTask(new) /\ HasRow(new) /\ new.phase = "drop"
                     /\ rows[task[p].id].slug \in new.drop
<1>0. RowsInv /\ IsTask(task[p]) /\ HasRow(task[p])
  BY DEF BaseInv, TasksInv
<1> DEFINE new == [task[p] EXCEPT !.phase = "drop", !.drop = {rows[task[p].id].slug}]
<1>1. Goes(p, new) /\ UNCHANGED <<rows, cache, writes, faults>> /\ task[p].phase = "slug"
  BY DEF LoadSlug
<1>2. DOMAIN new = DOMAIN task[p] /\ new.phase = "drop" /\ new.id = task[p].id
        /\ new.then = task[p].then /\ new.drop = {rows[task[p].id].slug}
  BY <1>0 DEF IsTask
<1>3. task[p].id \in Service /\ rows[task[p].id].slug \in Slug
  BY <1>0, <1>1, RowFact DEF IsTask, HasRow, Row
<1> HIDE DEF new
<1>4. IsTask(new) /\ HasRow(new)
  BY <1>0, <1>1, <1>2, <1>3 DEF IsTask, HasRow, Phase
<1> QED  BY <1>1, <1>2, <1>3, <1>4

\* Steps that change the cache.
LEMMA CacheStep ==
  ASSUME BaseInv, NEW p \in Process,
         \/ SetCachedServiceList(p) \/ SetCachedServiceDetail(p) \/ InvalidateServiceCaches(p)
  PROVE  BaseInv'
<1> USE DEF BaseInv
<1>0. IsTask(task[p]) /\ HasRow(task[p])
  BY DEF TasksInv
<1>1. CASE SetCachedServiceList(p)
  <2>1. RowsInv' /\ \A s \in Service : rows[s] # NoRow => rows'[s] # NoRow
    BY <1>1, RowsKept DEF SetCachedServiceList
  <2>2. TasksInv'
    BY <1>1, <2>1, TasksStep, IdleFact DEF SetCachedServiceList
  <2>3. EntriesInv'
    <3>1. list'.seen = task[p].seen /\ list'.stored = writes /\ writes \in 0..writes
      BY <1>1 DEF SetCachedServiceList, RowsInv
    <3> QED  BY <1>0, <1>1, <3>1 DEF SetCachedServiceList, EntriesInv, IsTask
  <2> QED  BY <2>1, <2>2, <2>3
<1>2. CASE SetCachedServiceDetail(p)
  <2>1. RowsInv' /\ \A s \in Service : rows[s] # NoRow => rows'[s] # NoRow
    BY <1>2, RowsKept DEF SetCachedServiceDetail
  <2>2. TasksInv'
    BY <1>2, <2>1, TasksStep, IdleFact DEF SetCachedServiceDetail
  <2>3. EntriesInv'
    <3> DEFINE entry == [id |-> task[p].id, seen |-> task[p].seen, stored |-> writes,
                         owned |-> task[p].slug = rows[task[p].id].slug]
    <3>1. entry.id \in Service /\ entry.stored \in 0..writes
      BY <1>0, <1>2 DEF SetCachedServiceDetail, IsTask, RowsInv
    <3>2. /\ detail' = [detail EXCEPT ![task[p].slug] = entry]
          /\ UNCHANGED <<list, overtaken, writes>>
      BY <1>2 DEF SetCachedServiceDetail
    <3> HIDE DEF entry
    <3> QED  BY <3>1, <3>2 DEF EntriesInv
  <2> QED  BY <2>1, <2>2, <2>3
<1>3. CASE InvalidateServiceCaches(p)
  <2>1. RowsInv' /\ \A s \in Service : rows[s] # NoRow => rows'[s] # NoRow
    BY <1>3, RowsKept DEF InvalidateServiceCaches
  <2>2. IsTask(AfterDrop(p)) /\ HasRow(AfterDrop(p)) /\ Goes(p, AfterDrop(p))
    BY <1>0, <1>3, AfterDropFact DEF InvalidateServiceCaches
  <2>3. TasksInv'
    BY <2>1, <2>2, TasksStep
  <2>4. EntriesInv'
    BY <1>3 DEF InvalidateServiceCaches, EntriesInv
  <2> QED  BY <2>1, <2>3, <2>4
<1> QED  BY <1>1, <1>2, <1>3

\* A commit with what its process goes on with.
LEMMA CommitStep ==
  ASSUME BaseInv, NEW p \in Process, NEW new, Goes(p, new), IsTask(new), HasRow(new),
         UNCHANGED <<list, detail>>, overtaken' \subseteq Slug, writes' = writes + 1,
         RowsInv', \A s \in Service : rows[s] # NoRow => rows'[s] # NoRow
  PROVE  BaseInv'
BY EntriesKept, TasksStep DEF BaseInv

\* The commits that change what hangs on a row: the process goes on to invalidate.
LEMMA DataCommit ==
  ASSUME CacheAssumption, BaseInv, NEW p \in Process,
         \/ CreateUserReport(p) \/ RefreshServiceStatus(p)
         \/ \E s \in Service : CommitOfJob(p, s) \/ CommitProbeConfig(p, s)
  PROVE  /\ UNCHANGED cache /\ writes' = writes + 1 /\ faults' = faults
         /\ task[p].phase \notin {"slug", "drop"}
         /\ RowsInv'
         /\ \A t \in Service : /\ rows[t] # NoRow => rows'[t] # NoRow
                               /\ rows'[t].slug = rows[t].slug /\ rows'[t].info = rows[t].info
         /\ \E new : /\ Goes(p, new) /\ IsTask(new) /\ HasRow(new)
                     /\ new.phase = "slug" /\ new.id \in Service
                     /\ \A t \in Service : t # new.id => rows'[t] = rows[t]
<1>0. RowsInv /\ IsTask(task[p]) /\ HasRow(task[p])
  BY DEF BaseInv, TasksInv
<1> DEFINE
      Committed(new, s) ==
        /\ Goes(p, new) /\ IsTask(new) /\ HasRow(new) /\ new.phase = "slug" /\ new.id = s
        /\ rows[s] # NoRow /\ UNCHANGED cache /\ writes' = writes + 1 /\ faults' = faults
        /\ task[p].phase \notin {"slug", "drop"}
        /\ \/ rows' = [rows EXCEPT ![s].data = writes']
           \/ rows' = [rows EXCEPT ![s].data = writes', ![s].snap = writes']
<1>1. \E new, s : s \in Service /\ Committed(new, s)
  <2>1. CASE CreateUserReport(p)
    <3> DEFINE s == task[p].id
           new == [task[p] EXCEPT !.phase = "slug", !.then = "refresh"]
    <3>1. Goes(p, new) /\ UNCHANGED cache /\ writes' = writes + 1 /\ faults' = faults
            /\ task[p].phase = "insert" /\ rows' = [rows EXCEPT ![s].data = writes']
      BY <2>1 DEF CreateUserReport, Commit
    <3>2. DOMAIN new = DOMAIN task[p] /\ new.phase = "slug" /\ new.id = s
            /\ new.then = "refresh" /\ new.drop = task[p].drop
      BY <1>0 DEF IsTask
    <3> HIDE DEF new
    <3>3. IsTask(new) /\ HasRow(new)
      BY <1>0, <3>1, <3>2 DEF IsTask, HasRow, Phase
    <3>4. s \in Service /\ rows[s] # NoRow
      BY <1>0, <3>1 DEF IsTask, HasRow
    <3>5. Committed(new, s)
      BY <3>1, <3>2, <3>3, <3>4
    <3> QED  BY <3>4, <3>5
  <2>2. CASE RefreshServiceStatus(p)
    <3> DEFINE s == task[p].id
           new == [task[p] EXCEPT !.phase = "slug", !.then = "build"]
    <3>1. Goes(p, new) /\ UNCHANGED cache /\ writes' = writes + 1 /\ faults' = faults
            /\ task[p].phase \in {"refresh", "build"}
            /\ rows' = [rows EXCEPT ![s].data = writes', ![s].snap = writes']
      BY <2>2 DEF RefreshServiceStatus, Commit
    <3>2. DOMAIN new = DOMAIN task[p] /\ new.phase = "slug" /\ new.id = s
            /\ new.then = "build" /\ new.drop = task[p].drop
      BY <1>0 DEF IsTask
    <3> HIDE DEF new
    <3>3. IsTask(new) /\ HasRow(new)
      BY <1>0, <3>1, <3>2 DEF IsTask, HasRow, Phase
    <3>4. s \in Service /\ rows[s] # NoRow
      BY <1>0, <3>1 DEF IsTask, HasRow
    <3>5. Committed(new, s)
      BY <3>1, <3>2, <3>3, <3>4
    <3> QED  BY <3>4, <3>5
  <2>3. ASSUME NEW t \in Service, CommitOfJob(p, t) \/ CommitProbeConfig(p, t)
        PROVE  \E new, s : s \in Service /\ Committed(new, s)
    <3> DEFINE new == [Idle EXCEPT !.phase = "slug", !.id = t]
    <3>1. Goes(p, new) /\ UNCHANGED cache /\ writes' = writes + 1 /\ faults' = faults
            /\ task[p].phase = "idle" /\ rows[t] # NoRow
            /\ rows' = [rows EXCEPT ![t].data = writes']
      BY <2>3 DEF CommitOfJob, CommitProbeConfig, Commit
    <3>2. IsTask(new) /\ HasRow(new) /\ new.phase = "slug" /\ new.id = t
      BY <3>1 DEF Idle, IsTask, HasRow, Phase
    <3> HIDE DEF new
    <3>3. Committed(new, t)
      BY <3>1, <3>2
    <3> QED  BY <3>3
  <2> QED  BY <2>1, <2>2, <2>3
<1>2. PICK new, s : s \in Service /\ Committed(new, s)
  BY <1>1
<1>3. /\ RowsInv'
      /\ \A t \in Service : rows[t] # NoRow => rows'[t] # NoRow
      /\ \A t \in Service : rows'[t].slug = rows[t].slug /\ rows'[t].info = rows[t].info
      /\ \A t \in Service : t # s => rows'[t] = rows[t]
  BY <1>0, <1>2, DataStep
<1> QED  BY <1>2, <1>3

\* What the other commits do to the rows.
LEMMA BatchRows ==
  ASSUME CacheAssumption, RowsInv, NEW p, CommitBatchRefresh(p)
  PROVE  /\ RowsInv'
         /\ \A s \in Service : /\ rows[s] # NoRow => rows'[s] # NoRow
                               /\ rows'[s].slug = rows[s].slug /\ rows'[s].info = rows[s].info
                               /\ rows'[s].data = rows[s].data
<1> DEFINE new(s) == [rows[s] EXCEPT !.snap = writes']
<1>1. /\ rows' = [s \in Service |-> IF s \in Active THEN new(s) ELSE rows[s]]
      /\ writes' = writes + 1 /\ faults' = faults /\ writes \in Nat
  BY DEF CommitBatchRefresh, Commit, RowsInv
<1>2. NoRow \notin Row /\ ~NoRow.active
  BY DEF NoRow, Row, CacheAssumption, NoSlug
<1>3. ASSUME NEW s \in Active
      PROVE  /\ s \in Service /\ new(s) \in Row
             /\ new(s).slug = rows[s].slug /\ new(s).info = rows[s].info
             /\ new(s).data = rows[s].data /\ new(s).snap = writes'
  <2>1. s \in Service /\ rows[s] \in Row
    <3>1. s \in Service /\ rows[s].active
      BY DEF Active
    <3> QED  BY <1>2, <3>1 DEF RowsInv
  <2> QED  BY <1>1, <2>1 DEF Row
<1> HIDE DEF new
<1>4. rows' \in [Service -> Row \cup {NoRow}]
  <2>1. \A s \in Service : (IF s \in Active THEN new(s) ELSE rows[s]) \in Row \cup {NoRow}
    BY <1>3 DEF RowsInv
  <2> QED  BY <1>1, <2>1
<1>5. ASSUME NEW s \in Service
      PROVE  /\ rows'[s].slug = rows[s].slug /\ rows'[s].info = rows[s].info
             /\ rows'[s].data = rows[s].data /\ rows'[s].snap \in {rows[s].snap, writes'}
             /\ (rows'[s] = NoRow) <=> (rows[s] = NoRow)
  <2>1. CASE s \in Active
    <3>1. rows'[s] = new(s) /\ rows'[s] # NoRow
      BY <1>1, <1>2, <1>3, <2>1
    <3>2. rows[s] # NoRow
      BY <1>2, <2>1 DEF Active
    <3> QED  BY <1>3, <2>1, <3>1, <3>2
  <2>2. CASE s \notin Active
    BY <1>1, <2>2
  <2> QED  BY <2>1, <2>2
<1>6. ASSUME NEW s \in Service
      PROVE  rows'[s].info <= writes' /\ rows'[s].data <= writes' /\ rows'[s].snap <= writes'
  BY <1>1, <1>5, RowNumbers DEF RowsInv
<1>7. \A s, t \in Service : rows'[s] # NoRow /\ rows'[s].slug = rows'[t].slug => s = t
  BY <1>5 DEF RowsInv
<1>8. writes' \in Nat /\ faults' \in Nat
  BY <1>1 DEF RowsInv
<1> QED  BY <1>4, <1>5, <1>6, <1>7, <1>8 DEF RowsInv

LEMMA NewServiceRows ==
  ASSUME CacheAssumption, RowsInv, NEW p, NEW s \in Service, NEW k \in Slug,
         CommitNewService(p, s, k)
  PROVE  /\ RowsInv'
         /\ \A t \in Service : rows[t] # NoRow => rows'[t] # NoRow
         /\ \A t \in Service : t # s => rows'[t] = rows[t]
<1> DEFINE a == [NoRow EXCEPT !.slug = k]
           b == [a EXCEPT !.active = TRUE]
           c == [b EXCEPT !.info = writes']
           anyRow == [slug : Slug \cup {NoSlug}, active : BOOLEAN, info : Nat, data : Nat,
                      snap : Nat \cup {NoSnapshot}]
<1>1. writes' = writes + 1 /\ writes' \in Nat /\ faults' = faults /\ HasSlug(k) = {}
  BY DEF CommitNewService, Commit, SlugIsFree, RowsInv
<1>2. NoRow \in anyRow /\ NoRow.info = 0 /\ NoRow.data = 0 /\ NoRow.snap = -1
  BY DEF NoRow, NoSlug, NoSnapshot
<1>3. a \in Row /\ a.slug = k /\ a.data = 0 /\ a.snap = -1
  <2> HIDE DEF NoRow
  <2> QED  BY <1>2 DEF Row
<1>4. b \in Row /\ b.slug = k /\ b.data = 0 /\ b.snap = -1
  <2> HIDE DEF a
  <2> QED  BY <1>3 DEF Row
<1>5. c \in Row /\ c.slug = k /\ c.info = writes' /\ c.data = 0 /\ c.snap = -1
  <2> HIDE DEF b
  <2> QED  BY <1>1, <1>4 DEF Row
<1>6. rows' = [rows EXCEPT ![s] = c]
  BY DEF CommitNewService
<1> HIDE DEF c
<1>7. \A t \in Service : rows[t].slug # c.slug
  BY <1>1, <1>5 DEF HasSlug
<1>8. c.info <= writes + 1 /\ c.data <= writes + 1 /\ c.snap <= writes + 1
  BY <1>1, <1>5 DEF RowsInv
<1>9. RowsInv' /\ \A t \in Service : rows[t] # NoRow => rows'[t] # NoRow
  BY <1>1, <1>5, <1>6, <1>7, <1>8, RowsStep
<1>10. \A t \in Service : t # s => rows'[t] = rows[t]
  BY <1>6 DEF RowsInv
<1> QED  BY <1>9, <1>10

LEMMA SaveRows ==
  ASSUME CacheAssumption, RowsInv, NEW s \in Service, rows[s] # NoRow,
         NEW k \in Slug, NEW on \in BOOLEAN, SlugIsFree(k, {s}),
         writes' = writes + 1, faults' = faults,
         rows' = [rows EXCEPT ![s].slug = k, ![s].active = on, ![s].info = writes']
  PROVE  /\ RowsInv'
         /\ \A t \in Service : rows[t] # NoRow => rows'[t] # NoRow
         /\ \A t \in Service : t # s => rows'[t] = rows[t]
<1> DEFINE a == [rows[s] EXCEPT !.slug = k]
           b == [a EXCEPT !.active = on]
           c == [b EXCEPT !.info = writes']
<1>1. rows[s] \in Row /\ writes \in Nat /\ writes' \in Nat
  BY RowFact DEF RowsInv
<1>2. a \in Row /\ a.slug = k /\ a.data = rows[s].data /\ a.snap = rows[s].snap
  BY <1>1 DEF Row
<1>3. b \in Row /\ b.slug = k /\ b.data = rows[s].data /\ b.snap = rows[s].snap
  <2> HIDE DEF a
  <2> QED  BY <1>2 DEF Row
<1>4. c \in Row /\ c.slug = k /\ c.info = writes' /\ c.data = rows[s].data
        /\ c.snap = rows[s].snap
  <2> HIDE DEF b
  <2> QED  BY <1>1, <1>3 DEF Row
<1>5. rows' = [rows EXCEPT ![s] = c]
  BY DEF RowsInv
<1> HIDE DEF c
<1>6. \A t \in Service : rows[t].slug = c.slug => t = s
  BY <1>4 DEF HasSlug, SlugIsFree
<1>7. c.info <= writes + 1 /\ c.data <= writes + 1 /\ c.snap <= writes + 1
  BY <1>1, <1>4, RowNumbers DEF RowsInv
<1>8. RowsInv' /\ \A t \in Service : rows[t] # NoRow => rows'[t] # NoRow
  BY <1>4, <1>5, <1>6, <1>7, RowsStep
<1>9. \A t \in Service : t # s => rows'[t] = rows[t]
  BY <1>5 DEF RowsInv
<1> QED  BY <1>8, <1>9

LEMMA BaseStep ==
  ASSUME CacheAssumption, BaseInv, [Next]_vars
  PROVE  BaseInv'
<1>0. RowsInv /\ Request \cup Job \cup Operator = Process
  BY DEF BaseInv, Process
<1>1. ASSUME NEW p \in Process,
             \/ GetServices(p) \/ ListServices(p) \/ GetServiceBySlug(p) \/ BuildDetail(p)
             \/ \E k \in Slug : GetService(p, k) \/ CreateServiceReport(p, k)
      PROVE  BaseInv'
  BY <1>1, ReaderStep, PrivateStep
<1>2. ASSUME NEW p \in Process, Fail(p) \/ SlugNotLoaded(p) \/ InvalidationLost(p) \/ LoadSlug(p)
      PROVE  BaseInv'
  BY <1>2, FaultStep, SlugStep, PrivateStep
<1>3. ASSUME NEW p \in Process, NEW s \in Service, NEW k \in Slug, CommitNewService(p, s, k)
      PROVE  BaseInv'
  <2> DEFINE new == [Idle EXCEPT !.phase = "drop", !.drop = {k}]
  <2>1. IsTask(new) /\ HasRow(new)
    BY DEF Idle, IsTask, HasRow, Phase
  <2>2. Goes(p, new) /\ UNCHANGED <<list, detail, overtaken>> /\ writes' = writes + 1
    BY <1>3 DEF CommitNewService, Commit, cache
  <2>3. RowsInv' /\ \A t \in Service : rows[t] # NoRow => rows'[t] # NoRow
    BY <1>0, <1>3, NewServiceRows
  <2>4. overtaken' \subseteq Slug
    BY <2>2 DEF BaseInv, EntriesInv
  <2> HIDE DEF new
  <2> QED  BY <2>1, <2>2, <2>3, <2>4, CommitStep
<1>4. ASSUME NEW p \in Process, CommitBatchRefresh(p)  PROVE BaseInv'
  <2> DEFINE new == [Idle EXCEPT !.phase = "drop"]
  <2>1. IsTask(new) /\ HasRow(new)
    BY DEF Idle, IsTask, HasRow, Phase
  <2>2. Goes(p, new) /\ UNCHANGED <<list, detail, overtaken>> /\ writes' = writes + 1
    BY <1>4 DEF CommitBatchRefresh, Commit, cache
  <2>3. RowsInv' /\ \A t \in Service : rows[t] # NoRow => rows'[t] # NoRow
    BY <1>0, <1>4, BatchRows
  <2>4. overtaken' \subseteq Slug
    BY <2>2 DEF BaseInv, EntriesInv
  <2> HIDE DEF new
  <2> QED  BY <2>1, <2>2, <2>3, <2>4, CommitStep
<1>5. ASSUME NEW p \in Process, NEW s \in Service, UpdateService(p, s)  PROVE BaseInv'
  <2> DEFINE new == [Idle EXCEPT !.phase = "save", !.id = s, !.slug = rows[s].slug]
  <2>0. rows[s].slug \in Slug
    BY <1>0, <1>5, RowFact DEF UpdateService, Row
  <2>1. IsTask(new) /\ HasRow(new)
    BY <1>5, <2>0 DEF UpdateService, Idle, IsTask, HasRow, Phase
  <2>2. Goes(p, new) /\ UNCHANGED <<rows, cache, writes, faults>>
    BY <1>5 DEF UpdateService
  <2> HIDE DEF new
  <2> QED  BY <2>1, <2>2, PrivateStep
<1>6. ASSUME NEW p \in Process, NEW k \in Slug, NEW on \in BOOLEAN, SaveService(p, k, on)
      PROVE  BaseInv'
  <2> DEFINE new == [Idle EXCEPT !.phase = "drop", !.drop = SlugsToDrop(task[p].slug, k)]
  <2>1. task[p].id \in Service /\ rows[task[p].id] # NoRow
    BY <1>6 DEF SaveService, BaseInv, TasksInv, IsTask, HasRow
  <2>2. task[p].slug \in Slug
    BY <1>6 DEF SaveService, BaseInv, TasksInv, IsTask
  <2>3. IsTask(new) /\ HasRow(new)
    BY <2>2 DEF SlugsToDrop, Idle, IsTask, HasRow, Phase
  <2>4. Goes(p, new) /\ UNCHANGED <<list, detail>> /\ writes' = writes + 1
    BY <1>6 DEF SaveService, Commit
  <2>6. overtaken' \subseteq Slug
    <3>1. rows[task[p].id].slug \in Slug
      BY <1>0, <2>1, RowFact DEF Row
    <3> QED  BY <1>6, <3>1 DEF SaveService, BaseInv, EntriesInv
  <2>5. RowsInv' /\ \A t \in Service : rows[t] # NoRow => rows'[t] # NoRow
    BY <1>0, <1>6, <2>1, SaveRows DEF SaveService, Commit
  <2> HIDE DEF new
  <2> QED  BY <2>3, <2>4, <2>5, <2>6, CommitStep
<1>7. ASSUME ExpireList \/ \E k \in Slug : ExpireDetail(k)  PROVE BaseInv'
  <2>1. UNCHANGED <<rows, task, writes, faults>>
    BY <1>7 DEF ExpireList, ExpireDetail
  <2>2. EntriesInv'
    BY <1>7 DEF ExpireList, ExpireDetail, BaseInv, EntriesInv
  <2>3. RowsInv'
    BY <1>0, <2>1, RowsKept
  <2>4. TasksInv'
    BY <2>1 DEF BaseInv, TasksInv, HasRow
  <2> QED  BY <2>2, <2>3, <2>4 DEF BaseInv
<1>8. CASE UNCHANGED vars
  BY <1>8 DEF vars, BaseInv, RowsInv, EntriesInv, TasksInv, HasRow
<1>9. ASSUME NEW p \in Process,
             \/ CreateUserReport(p) \/ RefreshServiceStatus(p)
             \/ \E s \in Service : CommitOfJob(p, s) \/ CommitProbeConfig(p, s)
      PROVE  BaseInv'
  BY <1>9, DataCommit, CommitStep DEF cache, BaseInv, EntriesInv
<1> QED
  BY <1>0, <1>1, <1>2, <1>3, <1>4, <1>5, <1>6, <1>7, <1>8, <1>9, CacheStep
     DEF Next, Begin, Continue

LEMMA BaseTypes ==
  ASSUME CacheAssumption, BaseInv
  PROVE  TypeOK
<1>1. ASSUME NEW s \in Service, rows[s] # NoRow
      PROVE  rows[s] \in [slug : Slug, active : BOOLEAN, info : 0..writes, data : 0..writes,
                          snap : -1..writes]
  <2>1. rows[s] \in Row /\ writes \in Nat
    BY <1>1, RowFact DEF BaseInv, RowsInv
  <2>2. rows[s].info \in 0..writes /\ rows[s].data \in 0..writes /\ rows[s].snap \in -1..writes
    BY <2>1 DEF BaseInv, RowsInv, Row, NoSnapshot
  <2> QED  BY <2>1, <2>2 DEF Row
<1>2. ASSUME NEW k \in Slug  PROVE Cardinality(HasSlug(k)) <= 1
  <2>1. CASE HasSlug(k) = {}
    <3>1. Cardinality(HasSlug(k)) = 0
      BY <2>1, FS_EmptySet
    <3> QED  BY <3>1
  <2>2. ASSUME NEW s \in HasSlug(k)  PROVE Cardinality(HasSlug(k)) <= 1
    <3>1. s \in Service /\ rows[s].slug = k
      BY DEF HasSlug
    <3>2. NoRow.slug # k
      BY DEF NoRow, NoSlug, CacheAssumption
    <3>3. HasSlug(k) = {s}
      BY <3>1, <3>2 DEF HasSlug, BaseInv, RowsInv
    <3>4. Cardinality(HasSlug(k)) = 1
      BY <3>3, FS_Singleton
    <3> QED  BY <3>4
  <2> QED  BY <2>1, <2>2
<1>3. \A p \in Process : task[p].phase \in Phase /\ task[p].drop \subseteq Slug
  BY DEF BaseInv, TasksInv, IsTask
<1> QED  BY <1>1, <1>2, <1>3 DEF TypeOK, BaseInv, EntriesInv, Phase

LEMMA BaseAlways == Spec => []BaseInv
<1>1. Init => BaseInv
  BY InitBase, CacheAssumption
<1>2. BaseInv /\ [Next]_vars => BaseInv'
  BY BaseStep, CacheAssumption
<1> QED  BY <1>1, <1>2, PTL DEF Spec

\* What the rows, the cache and the processes are: among it, that a slug belongs to
\* one service at a time (the unique index of services.slug, structs/schema.go:9), that
\* the cached answers are about services there are, and that no number is newer than
\* the last commit.
THEOREM CacheTypes == Spec => []TypeOK
<1>1. BaseInv => TypeOK
  BY BaseTypes, CacheAssumption
<1> QED  BY <1>1, BaseAlways, PTL

-------------------------------------------------------------------------------
(* What was cached before a change is dropped. *)

\* A step that commits nothing, of a process that had nothing to drop.
LEMMA DroppedSame ==
  ASSUME BaseInv, DroppedInv, NEW p \in Process, NEW new, Goes(p, new),
         task[p].phase \notin {"slug", "drop"},
         UNCHANGED <<rows, cache, writes, faults>>
  PROVE  DroppedInv'
<1>1. \A q \in Process : task[q].phase \in {"slug", "drop"} => task'[q] = task[q]
  BY GoesFact DEF BaseInv, TasksInv
<1>2. ASSUME ListDropped  PROVE ListDropped'
  BY <1>1, <1>2 DEF ListDropped, cache
<1>3. ASSUME NEW k \in Slug, DetailDropped(k)  PROVE DetailDropped(k)'
  BY <1>1, <1>3 DEF DetailDropped, cache
<1> QED  BY <1>2, <1>3 DEF DroppedInv

\* A commit that leaves the slugs of the other rows, and what their responses show, as
\* they are, and ...
LeavesOthers(Changed) ==
  \A s \in Service \ Changed :
    rows'[s].slug = rows[s].slug /\ rows'[s].info = rows[s].info /\ rows'[s].data = rows[s].data

\* ... will drop what is cached under the slugs of those it changes: it drops a slug
\* that is gone, or that is new, unless the service has lost it unread.
DropsChanged(Changed, new) ==
  \A s \in Changed, k \in Slug :
    /\ rows[s].slug = k =>
         \/ new.phase = "drop" /\ k \in new.drop
         \/ new.phase = "slug" /\ new.id = s /\ rows'[s].slug = k
         \/ rows'[s].slug # k /\ k \in overtaken'
    /\ rows'[s].slug = k /\ rows[s].slug # k => new.phase = "drop" /\ k \in new.drop

\* Such a commit, of a process that then drops the list.
LEMMA DroppedCommit ==
  ASSUME BaseInv, DroppedInv, NEW p \in Process, NEW new, Goes(p, new),
         task[p].phase \notin {"slug", "drop"}, new.phase \in {"slug", "drop"},
         UNCHANGED <<list, detail, faults>>, faults = 0, overtaken \subseteq overtaken',
         NEW Changed \in SUBSET Service,
         LeavesOthers(Changed), DropsChanged(Changed, new)
  PROVE  DroppedInv'
<1>1. task'[p] = new
        /\ \A q \in Process : task[q].phase \in {"slug", "drop"} => task'[q] = task[q]
  BY GoesFact DEF BaseInv, TasksInv
<1>2. ListDropped'
  BY <1>1 DEF ListDropped
<1>3. ASSUME NEW k \in Slug  PROVE DetailDropped(k)'
  <2> SUFFICES ASSUME detail[k] # NoEntry, detail[k].owned
               PROVE  DetailDropped(k)'
    BY DEF DetailDropped
  <2> DEFINE t == detail[k].id
  <2>1. t \in Service /\ DetailDropped(k) /\ detail' = detail
    BY DEF BaseInv, EntriesInv, DroppedInv
  <2>2. CASE \E q \in Process : task[q].phase = "drop" /\ k \in task[q].drop
    BY <1>1, <2>1, <2>2 DEF DetailDropped
  <2>3. CASE rows[t].slug = k /\ t \in Changed
    BY <1>1, <2>1, <2>3 DEF LeavesOthers, DropsChanged, DetailDropped
  <2>4. CASE t \notin Changed
    BY <1>1, <2>1, <2>4 DEF LeavesOthers, DropsChanged, DetailDropped
  <2>5. CASE rows[t].slug # k /\ k \in overtaken /\ t \in Changed
    BY <1>1, <2>1, <2>5 DEF LeavesOthers, DropsChanged, DetailDropped
  <2> QED  BY <2>1, <2>2, <2>3, <2>4, <2>5 DEF DetailDropped
<1> QED  BY <1>2, <1>3 DEF DroppedInv

LEMMA DroppedStep ==
  ASSUME CacheAssumption, BaseInv, DroppedInv, [Next]_vars
  PROVE  DroppedInv'
<1>0. RowsInv /\ Request \cup Job \cup Operator = Process
  BY DEF BaseInv, Process
<1> USE DEF DroppedInv
<1>1. ASSUME NEW p \in Process,
             \/ GetServices(p) \/ ListServices(p) \/ GetServiceBySlug(p) \/ BuildDetail(p)
             \/ \E k \in Slug : GetService(p, k) \/ CreateServiceReport(p, k)
      PROVE  DroppedInv'
  BY <1>1, ReaderStep, DroppedSame
<1>2. ASSUME NEW p \in Process, Fail(p) \/ SlugNotLoaded(p) \/ InvalidationLost(p)
      PROVE  DroppedInv'
  <2>1. faults' # 0
    BY <1>0, <1>2, FaultStep DEF RowsInv
  <2> QED  BY <2>1
<1>3. ASSUME NEW p \in Process, LoadSlug(p), faults' = 0  PROVE DroppedInv'
  <2>1. PICK new : /\ Goes(p, new) /\ new.phase = "drop" /\ rows[task[p].id].slug \in new.drop
                   /\ UNCHANGED <<rows, cache, writes, faults>> /\ task[p].phase = "slug"
    BY <1>3, SlugStep
  <2>2. task'[p] = new /\ \A q \in Process : q # p => task'[q] = task[q]
    BY <2>1, GoesFact DEF BaseInv, TasksInv
  <2>3. ListDropped'
    BY <1>3, <2>1, <2>2 DEF ListDropped, cache
  <2>4. ASSUME NEW k \in Slug  PROVE DetailDropped(k)'
    <3>1. DetailDropped(k)
      BY <1>3, <2>1
    <3> QED  BY <2>1, <2>2, <3>1 DEF DetailDropped, cache
  <2> QED  BY <2>3, <2>4
<1>4. ASSUME NEW p \in Process, SetCachedServiceList(p), faults' = 0  PROVE DroppedInv'
  <2>1. task'[p] = Idle /\ \A q \in Process : q # p => task'[q] = task[q]
    BY <1>4, GoesFact DEF SetCachedServiceList, BaseInv, TasksInv
  <2>2. /\ task[p].phase = "storeList" /\ UNCHANGED <<rows, detail, overtaken, writes, faults>>
        /\ list'.stored = writes'
    BY <1>4 DEF SetCachedServiceList
  <2>3. ListDropped'
    BY <2>2 DEF ListDropped
  <2>4. ASSUME NEW k \in Slug  PROVE DetailDropped(k)'
    <3>1. DetailDropped(k)
      BY <1>4, <2>2
    <3> QED  BY <2>1, <2>2, <3>1 DEF DetailDropped
  <2> QED  BY <2>3, <2>4
<1>5. ASSUME NEW p \in Process, SetCachedServiceDetail(p), faults' = 0  PROVE DroppedInv'
  <2> DEFINE entry == [id |-> task[p].id, seen |-> task[p].seen, stored |-> writes,
                       owned |-> task[p].slug = rows[task[p].id].slug]
  <2>1. task'[p] = Idle /\ \A q \in Process : q # p => task'[q] = task[q]
    BY <1>5, GoesFact DEF SetCachedServiceDetail, BaseInv, TasksInv
  <2>2. /\ task[p].phase = "store" /\ UNCHANGED <<rows, list, overtaken, writes, faults>>
        /\ detail' = [detail EXCEPT ![task[p].slug] = entry]
    BY <1>5 DEF SetCachedServiceDetail
  <2>3. ListDropped'
    BY <1>5, <2>1, <2>2 DEF ListDropped
  <2>4. ASSUME NEW k \in Slug  PROVE DetailDropped(k)'
    <3>1. CASE k = task[p].slug
      <4>1. task[p].id \in Service /\ detail'[k] = entry
        BY <2>2, <3>1 DEF BaseInv, TasksInv, IsTask, EntriesInv
      <4>2. rows[task[p].id].info <= writes /\ rows[task[p].id].data <= writes
              /\ rows[task[p].id].info \in Int /\ rows[task[p].id].data \in Int
        BY <1>0, <4>1, RowNumbers DEF RowsInv
      <4>3. writes >= rows[task[p].id].info /\ writes >= rows[task[p].id].data
        BY <1>0, <4>2 DEF RowsInv
      <4>4. /\ entry.id = task[p].id /\ entry.stored = writes
            /\ entry.owned = (task[p].slug = rows[task[p].id].slug)
        OBVIOUS
      <4> HIDE DEF entry
      <4> SUFFICES ASSUME entry.owned
                   PROVE  LET row == rows[entry.id]
                          IN  row.slug = k /\ entry.stored >= row.info /\ entry.stored >= row.data
        BY <2>2, <4>1 DEF DetailDropped
      <4>5. task[p].slug = rows[task[p].id].slug
        BY <4>4
      <4> QED  BY <3>1, <4>3, <4>4, <4>5
    <3>2. CASE k # task[p].slug
      <4>1. DetailDropped(k) /\ detail'[k] = detail[k]
        BY <1>5, <2>2, <3>2 DEF BaseInv, EntriesInv
      <4> HIDE DEF entry
      <4> QED  BY <2>1, <2>2, <4>1 DEF DetailDropped
    <3> QED  BY <3>1, <3>2
  <2> QED  BY <2>3, <2>4
<1>6. ASSUME NEW p \in Process, InvalidateServiceCaches(p), faults' = 0  PROVE DroppedInv'
  <2>1. /\ task[p].phase = "drop" /\ list' = NoEntry /\ UNCHANGED <<rows, writes, faults>>
        /\ detail' = [k \in Slug |-> IF k \in task[p].drop THEN NoEntry ELSE detail[k]]
        /\ overtaken' = overtaken \ task[p].drop
    BY <1>6 DEF InvalidateServiceCaches
  <2>2. \A q \in Process : q # p => task'[q] = task[q]
    BY <1>6, GoesFact DEF InvalidateServiceCaches, BaseInv, TasksInv
  <2>3. ListDropped'
    BY <2>1 DEF ListDropped
  <2>4. ASSUME NEW k \in Slug  PROVE DetailDropped(k)'
    <3>1. CASE k \in task[p].drop
      BY <2>1, <3>1 DEF DetailDropped
    <3>2. CASE k \notin task[p].drop
      <4>1. DetailDropped(k) /\ detail'[k] = detail[k]
        BY <1>6, <2>1, <3>2
      <4>2. \A q \in Process : (task[q].phase = "drop" /\ k \in task[q].drop)
                                \/ task[q].phase = "slug"
                              => task'[q] = task[q]
        BY <2>1, <2>2, <3>2
      <4>3. rows' = rows /\ (k \in overtaken => k \in overtaken')
        BY <2>1, <3>2
      <4> QED  BY <4>1, <4>2, <4>3 DEF DetailDropped
    <3> QED  BY <3>1, <3>2
  <2> QED  BY <2>3, <2>4
<1>7. ASSUME NEW p \in Process, faults' = 0,
             \/ CreateUserReport(p) \/ RefreshServiceStatus(p)
             \/ \E s \in Service : CommitOfJob(p, s) \/ CommitProbeConfig(p, s)
      PROVE  DroppedInv'
  <2>1. PICK new : /\ Goes(p, new) /\ new.phase = "slug" /\ new.id \in Service
                   /\ \A t \in Service : t # new.id => rows'[t] = rows[t]
    BY <1>7, DataCommit
  <2>2. /\ UNCHANGED <<cache, faults>> /\ task[p].phase \notin {"slug", "drop"}
        /\ \A t \in Service : rows'[t].slug = rows[t].slug
    BY <1>7, DataCommit
  <2> DEFINE Changed == {new.id}
  <2>3. Changed \in SUBSET Service
    BY <2>1
  <2>4. LeavesOthers(Changed)
    BY <2>1 DEF LeavesOthers
  <2>5. DropsChanged(Changed, new)
    BY <2>1, <2>2, <2>3 DEF DropsChanged
  <2>6. faults = 0 /\ UNCHANGED <<list, detail, overtaken, faults>> /\ new.phase \in {"slug", "drop"}
          /\ task[p].phase \notin {"slug", "drop"} /\ overtaken \subseteq overtaken'
    BY <1>7, <2>1, <2>2 DEF cache
  <2> HIDE DEF Changed, DroppedInv
  <2>7. Goes(p, new)
    BY <2>1
  <2> QED  BY <2>3, <2>4, <2>5, <2>6, <2>7, DroppedCommit
<1>8. ASSUME NEW p \in Process, CommitBatchRefresh(p), faults' = 0  PROVE DroppedInv'
  <2> DEFINE new == [Idle EXCEPT !.phase = "drop"]
  <2>1. /\ Goes(p, new) /\ new.phase = "drop" /\ task[p].phase = "idle"
        /\ UNCHANGED <<list, detail, overtaken, faults>>
    BY <1>8 DEF CommitBatchRefresh, Idle, cache
  <2>2. \A t \in Service : rows'[t].slug = rows[t].slug /\ rows'[t].info = rows[t].info
                            /\ rows'[t].data = rows[t].data
    BY <1>0, <1>8, BatchRows
  <2> HIDE DEF new
  <2>3. {} \in SUBSET Service /\ overtaken \subseteq overtaken'
    BY <2>1
  <2>4. LeavesOthers({}) /\ DropsChanged({}, new)
    BY <2>2 DEF LeavesOthers, DropsChanged
  <2> QED  BY <1>8, <2>1, <2>3, <2>4, DroppedCommit
<1>9. ASSUME NEW p \in Process, NEW s \in Service, NEW k \in Slug, CommitNewService(p, s, k),
             faults' = 0
      PROVE  DroppedInv'
  <2> DEFINE new == [Idle EXCEPT !.phase = "drop", !.drop = {k}]
  <2>1. /\ Goes(p, new) /\ new.phase = "drop" /\ task[p].phase = "idle"
        /\ UNCHANGED <<list, detail, overtaken, faults>> /\ rows[s] = NoRow
        /\ new.drop = {k} /\ rows' = [rows EXCEPT ![s] = [NoRow EXCEPT !.slug = k, !.active = TRUE,
                                                                        !.info = writes']]
    BY <1>9 DEF CommitNewService, Idle, cache
  <2>2. \A t \in Service : t # s => rows'[t] = rows[t]
    BY <1>0, <1>9, NewServiceRows
  <2>3. rows[s].slug \notin Slug
    <3>1. NoRow.slug \notin Slug
      BY DEF NoRow, NoSlug, CacheAssumption
    <3> QED  BY <2>1, <3>1
  <2> HIDE DEF new
  <2> DEFINE Changed == {s}
  <2>4. Changed \in SUBSET Service
    OBVIOUS
  <2>5. LeavesOthers(Changed)
    BY <2>2 DEF LeavesOthers
  <2>6. DropsChanged(Changed, new)
    <3>1. rows'[s].slug = k
      BY <1>0, <2>1 DEF RowsInv, NoRow
    <3> QED  BY <2>1, <2>3, <3>1 DEF DropsChanged
  <2>7. faults = 0 /\ UNCHANGED <<list, detail, faults>> /\ new.phase \in {"slug", "drop"}
          /\ task[p].phase \notin {"slug", "drop"} /\ overtaken \subseteq overtaken'
    BY <1>9, <2>1
  <2>8. Goes(p, new)
    BY <2>1
  <2> HIDE DEF Changed, DroppedInv
  <2> QED  BY <2>4, <2>5, <2>6, <2>7, <2>8, DroppedCommit
<1>10. ASSUME NEW p \in Process, NEW k \in Slug, NEW on \in BOOLEAN, SaveService(p, k, on),
              faults' = 0
       PROVE  DroppedInv'
  <2> DEFINE new == [Idle EXCEPT !.phase = "drop", !.drop = SlugsToDrop(task[p].slug, k)]
             s == task[p].id
  <2>1. /\ Goes(p, new) /\ task[p].phase = "save" /\ UNCHANGED <<list, detail, faults>>
        /\ overtaken' = overtaken \cup ({rows[s].slug} \ {task[p].slug, k})
        /\ overtaken \subseteq overtaken'
    BY <1>10 DEF SaveService
  <2>2. s \in Service /\ rows[s] # NoRow
    BY <2>1 DEF BaseInv, TasksInv, IsTask, HasRow
  <2>3. new.phase = "drop" /\ new.drop = {task[p].slug, k}
    BY DEF Idle, SlugsToDrop
  <2>4. rows'[s].slug = k
    <3>1. rows[s] \in Row
      BY <1>0, <2>2 DEF RowsInv
    <3> QED  BY <1>0, <1>10, <2>2, <3>1 DEF SaveService, RowsInv, Row
  <2>5. \A t \in Service : t # s => rows'[t] = rows[t]
    BY <1>0, <1>10, <2>2, SaveRows DEF SaveService, Commit
  <2> HIDE DEF new, s
  <2> DEFINE Changed == {s}
  <2>6. Changed \in SUBSET Service
    BY <2>2
  <2>7. LeavesOthers(Changed)
    BY <2>5 DEF LeavesOthers
  <2>8. DropsChanged(Changed, new)
    BY <2>1, <2>3, <2>4 DEF DropsChanged
  <2>9. /\ UNCHANGED <<list, detail, faults>> /\ faults = 0 /\ overtaken \subseteq overtaken'
        /\ task[p].phase \notin {"slug", "drop"} /\ new.phase \in {"slug", "drop"}
    BY <1>10, <2>1, <2>3
  <2>10. Goes(p, new)
    BY <2>1
  <2> HIDE DEF Changed, DroppedInv
  <2> QED  BY <2>6, <2>7, <2>8, <2>9, <2>10, DroppedCommit
<1>11. CASE ExpireList
  <2>1. list' = NoEntry /\ UNCHANGED <<rows, detail, task, overtaken, writes, faults>>
    BY <1>11 DEF ExpireList
  <2> QED  BY <2>1 DEF ListDropped, DetailDropped
<1>12. ASSUME NEW j \in Slug, ExpireDetail(j)  PROVE DroppedInv'
  <2>1. /\ detail' = [detail EXCEPT ![j] = NoEntry] /\ overtaken' = overtaken \ {j}
        /\ UNCHANGED <<rows, list, task, writes, faults>>
    BY <1>12 DEF ExpireDetail
  <2>2. ASSUME NEW k \in Slug, DetailDropped(k)  PROVE DetailDropped(k)'
    <3>1. detail'[k] = NoEntry \/ (detail'[k] = detail[k] /\ (k \in overtaken => k \in overtaken'))
      BY <2>1 DEF BaseInv, EntriesInv
    <3> QED  BY <2>1, <2>2, <3>1 DEF DetailDropped
  <2>3. ListDropped => ListDropped'
    BY <2>1 DEF ListDropped
  <2> QED  BY <2>1, <2>2, <2>3
<1>13. ASSUME NEW p \in Process, NEW s \in Service, UpdateService(p, s)  PROVE DroppedInv'
  <2>1. /\ UNCHANGED <<rows, cache, writes, faults>> /\ task[p].phase = "idle"
        /\ \E new : Goes(p, new)
    BY <1>13 DEF UpdateService
  <2> QED  BY <2>1, DroppedSame
<1>14. CASE UNCHANGED vars
  BY <1>14 DEF vars, ListDropped, DetailDropped
<1>15. faults' # 0 => DroppedInv'
  OBVIOUS
<1> QED
  BY <1>0, <1>1, <1>2, <1>3, <1>4, <1>5, <1>6, <1>7, <1>8, <1>9, <1>10, <1>11, <1>12,
     <1>13, <1>14, <1>15 DEF Next, Begin, Continue

\* However many requests, jobs and commands of the management interface are under way,
\* and as long as nothing has failed: when no invalidation is under way, the cached
\* list is as new as the last commit, and a cached detail response that was stored
\* under its service's slug is as new as the service's last change; but for one under a
\* slug that the service has lost to a save that had not read it.  This is what
\* committing first and invalidating afterwards gives (storage/storage.go:254-286,
\* storage/cache.go:47-69).
THEOREM ChangesReachTheCache == Spec => []OldEntriesDropped
<1>1. Init => DroppedInv
  BY DEF Init, DroppedInv, ListDropped, DetailDropped
<1>2. BaseInv /\ DroppedInv /\ [Next]_vars => DroppedInv'
  BY DroppedStep, CacheAssumption
<1>3. DroppedInv => OldEntriesDropped
  BY DEF DroppedInv, ListDropped, DetailDropped, OldEntriesDropped
<1> QED  BY <1>1, <1>2, <1>3, BaseAlways, PTL DEF Spec
===============================================================================
