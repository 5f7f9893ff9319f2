------------------------------- MODULE Reports -------------------------------
(***************************************************************************)
(* The report builder (services/reports.py): saved templates under         *)
(* concurrent create, update and delete, the compiler that accepts or      *)
(* refuses a specification (reports/query.py), preview and export with     *)
(* their limits, and the walk over the pages of the template list          *)
(* (core/pagination.py).                                                   *)
(*                                                                         *)
(* A call is one transaction without explicit locks: each read is a step,  *)
(* and the write with its commit another (two writes of one row or of one  *)
(* unique value wait for each other, so they come one after the other).    *)
(*                                                                         *)
(* Labels, descriptions and the rendering of files are left out.  Names    *)
(* are numbers, to give the list its order.                                *)
(***************************************************************************)
EXTENDS Integers, FiniteSets, FiniteSetsExt

CONSTANTS Template, Name, Key, NoKey, Caller,
          Column, NoColumn,
          TypeOf,          \* the type of each column
          PeriodColumn,    \* default_period_column of the dataset
          Catalog,         \* the columns of the dataset
          Query,           \* the specifications the callers send
          Operation,       \* the calls the callers may make
          Year, MaxLines,  \* the lines the view may hold of each year
          InitialTemplate,
          PreviewLimit, ExportLimit, PageSize,
          MaxCalls         \* bound on the calls made

VARIABLES template,        \* report_template
          used,            \* ids given so far
          told,            \* the audit entries of each template
          stored,          \* history: the contents committed to it, each with the call that changed it
          call, calls,
          walk             \* a client reading the list of templates page by page

vars == <<template, used, told, stored, call, calls, walk>>

ColumnType == {"text", "number", "date"}
Aggregate == [func : {"count", "sum", "max"}, column : Column \cup {NoColumn}]
Filter == [column : Column, op : {"contains", "gte", "is_null"}, valid : BOOLEAN]
ReportQuery == [columns : SUBSET Column, aggregates : SUBSET Aggregate, filters : SUBSET Filter,
                sort : SUBSET (Column \cup Aggregate)]

NoQuery == [columns |-> {}, aggregates |-> {}, filters |-> {}, sort |-> {}]
TemplateRow == [known : BOOLEAN, name : Name \cup {0}, query : Query \cup {NoQuery}, key : Key \cup {NoKey}]
NoTemplate == [known |-> FALSE, name |-> 0, query |-> NoQuery, key |-> NoKey]

(* name = 0 and query = NoQuery stand for a field an update does not give. *)
Ask == [kind : {"create", "update", "delete"}, id : Template, name : Name \cup {0},
        query : Query \cup {NoQuery}, key : Key \cup {NoKey}]
CallRow == [pc : {"ready", "begun", "named"}, op : Operation, seen : TemplateRow, at : 0..MaxCalls]
(* created_at of an audit entry is now(): the time its transaction began, not its commit. *)
Entry == [at : 0..MaxCalls, after : TemplateRow]

ASSUME ReportsAssumption ==
  /\ Name \subseteq Nat \ {0} /\ NoKey \notin Key /\ NoColumn \notin Column
  /\ TypeOf \in [Column -> ColumnType] /\ PeriodColumn \in Column
  /\ Catalog \subseteq Column /\ Query \subseteq ReportQuery /\ Operation \subseteq Ask
  /\ PreviewLimit \in Nat \ {0} /\ ExportLimit \in Nat /\ PreviewLimit <= ExportLimit
  /\ PageSize \in Nat \ {0} /\ MaxCalls \in Nat /\ MaxLines \in Nat
  /\ IsFiniteSet(Template) /\ IsFiniteSet(Year)

(* A create gives a name, and so did those of the templates that are there. *)
ASSUME StartAssumption ==
  /\ Operation # {} /\ \A o \in Operation : o.kind = "create" => o.name # 0
  /\ InitialTemplate \in [Template -> TemplateRow]
  /\ \A t \in Template : InitialTemplate[t].known => InitialTemplate[t].name # 0

-----------------------------------------------------------------------------
(* reports/query.py                                                         *)

OpsByType == [text |-> {"contains", "is_null"}, number |-> {"gte", "is_null"}, date |-> {"gte", "is_null"}]
AggregatesByType == [text |-> {"count"}, number |-> {"count", "sum", "max"}, date |-> {"count", "max"}]

(* _filter_expr and _coerce: the operator suits the type, and the value does unless none is needed. *)
FilterAccepted(f) == f.op \in OpsByType[TypeOf[f.column]] /\ (f.op = "is_null" \/ f.valid)

AggregateAccepted(a) ==
  IF a.column = NoColumn THEN a.func = "count" ELSE a.func \in AggregatesByType[TypeOf[a.column]]

UsedColumns(q) == q.columns \cup {f.column : f \in q.filters} \cup ({a.column : a \in q.aggregates} \ {NoColumn})

(* compile_query.  Columns are a set here: asking for one twice is refused by the program *)
(* before anything else.                                                                  *)
Compiles(q) ==
  /\ q.columns # {} \/ q.aggregates # {}
  /\ UsedColumns(q) \subseteq Catalog
  /\ \A f \in q.filters : FilterAccepted(f)
  /\ \A a \in q.aggregates : AggregateAccepted(a)
  /\ q.sort \subseteq q.columns \cup q.aggregates

(* How many of the lines held of each year a query selects: without a filter on the period *)
(* column, those of the current year.  Aggregates group them (group_by), which only makes   *)
(* the answer shorter; the grouping is left out, a line then stands for a group.            *)
Selected(q, lines, year) ==
  LET years == IF \E f \in q.filters : f.column = PeriodColumn THEN Year ELSE {year}
  IN Cardinality({line \in years \X (1..MaxLines) : line[2] <= lines[line[1]]})

AtMost(n, m) == IF m < n THEN m ELSE n

\* mutant: LIMIT n instead of n + 1, so that a cut is never noticed
FetchExactly(size, n) == [rows |-> AtMost(n, size), truncated |-> AtMost(n, size) > n]
(* _fetch: at most n lines, and one more to know whether there are more. *)
Fetch(size, n) == LET found == AtMost(n + 1, size) IN [rows |-> AtMost(n, found), truncated |-> found > n]

(* run_query and run_template; export_report and export_template, which refuse what they *)
(* would have to cut.                                                                    *)
Preview(q, lines, year) == Fetch(Selected(q, lines, year), PreviewLimit)
Export(q, lines, year) == Fetch(Selected(q, lines, year), ExportLimit)
Exported(q, lines, year) == ~Export(q, lines, year).truncated

-----------------------------------------------------------------------------
Known == {t \in Template : template[t].known}
NameTaken(n, except) == \E t \in Known \ except : template[t].name = n
KeyTaken(k) == k # NoKey /\ \E t \in Known : template[t].key = k
NoCall == [pc |-> "ready", op |-> CHOOSE o \in Operation : TRUE, seen |-> NoTemplate, at |-> 0]

NoWalk == [on |-> FALSE, cursor |-> 0, shown |-> {}, steady |-> {}, twice |-> FALSE, done |-> FALSE]

Init ==
  /\ template = InitialTemplate /\ used = Known
  /\ told = [t \in Template |-> IF t \in Known THEN {[at |-> 0, after |-> template[t]]} ELSE {}]
  /\ stored = told
  /\ call = [c \in Caller |-> NoCall] /\ calls = 0 /\ walk = NoWalk

Op(c) == call[c].op
Goes(c, pc) == call' = [call EXCEPT ![c].pc = pc]
Ends(c) == call' = [call EXCEPT ![c] = NoCall]
SameTemplates == UNCHANGED <<template, used, told, stored, walk>>
EntryOf(c, row) == [at |-> call[c].at, after |-> row]
Stores(c, t, row) ==
  /\ template' = [template EXCEPT ![t] = row]
  /\ stored' = IF row # template[t] THEN [stored EXCEPT ![t] = @ \cup {EntryOf(c, row)}] ELSE stored
Audits(c, t, row) == told' = [told EXCEPT ![t] = @ \cup {EntryOf(c, row)}]

Begin(c, o, seen) ==
  /\ call[c].pc = "ready" /\ calls < MaxCalls
  /\ calls' = calls + 1
  /\ call' = [call EXCEPT ![c] = [pc |-> "begun", op |-> o, seen |-> seen, at |-> calls + 1]]
  /\ SameTemplates

(* create_template: a key that is known returns its template, and ends the call. *)
BeginCreate(c, o) == o.kind = "create" /\ ~KeyTaken(o.key) /\ Begin(c, o, NoTemplate)

(* update_template and delete_template load the template without a lock. *)
BeginChange(c, o) == o.kind \in {"update", "delete"} /\ template[o.id].known /\ Begin(c, o, template[o.id])

(* The query sent with a create or an update compiles. *)
QueryAccepted(c) == (Op(c).kind = "create" \/ Op(c).query # NoQuery) => Compiles(Op(c).query)

(* _ensure_name_free, and the compilation, which read nothing of each other. *)
CheckCall(c) ==
  LET others == IF Op(c).kind = "update" THEN {Op(c).id} ELSE {} IN
  /\ call[c].pc = "begun" /\ Op(c).kind \in {"create", "update"}
  /\ IF QueryAccepted(c) /\ (Op(c).name # 0 => ~NameTaken(Op(c).name, others))
     THEN Goes(c, "named") ELSE Ends(c)
  /\ UNCHANGED calls /\ SameTemplates

(* The unique indexes on the name and on the key. *)
Conflicts(t, row) == NameTaken(row.name, {t}) \/ (row.key # template[t].key /\ KeyTaken(row.key))

(* The insert; a conflict answers report_template_name_taken, whichever index it was. *)
CommitCreate(c) ==
  LET row == [known |-> TRUE, name |-> Op(c).name, query |-> Op(c).query, key |-> Op(c).key] IN
  /\ call[c].pc = "named" /\ Op(c).kind = "create"
  /\ Template # used
  /\ LET t == CHOOSE t \in Template : t \notin used IN
       IF Conflicts(t, row) THEN SameTemplates
       ELSE /\ Stores(c, t, row) /\ Audits(c, t, row)
            /\ used' = used \cup {t} /\ UNCHANGED walk
  /\ Ends(c) /\ UNCHANGED calls

(* The flush of an update writes the fields that differ from what was loaded. *)
Changed(o, seen, now) ==
  [now EXCEPT !.name = IF o.name \notin {0, seen.name} THEN o.name ELSE @,
              !.query = IF o.query \notin {NoQuery, seen.query} THEN o.query ELSE @]

\* mutant: the audit entry is made of what was loaded and what was asked for
AuditedFromLoaded(o, seen, now) == Changed(o, seen, seen)
(* The refresh reads the row again: the entry tells what is stored, also what others changed. *)
Audited(o, seen, now) == Changed(o, seen, now)

(* A row deleted meanwhile, or a name taken meanwhile, fails the flush or the refresh.  There is *)
(* an entry when the content differs from what was loaded, also when this call wrote nothing.    *)
CommitUpdate(c) ==
  LET o == Op(c)
      t == o.id
      seen == call[c].seen
      row == Changed(o, seen, template[t])
      after == Audited(o, seen, template[t])
  IN
  /\ call[c].pc = "named" /\ o.kind = "update"
  /\ IF ~template[t].known \/ Conflicts(t, row) THEN SameTemplates
     ELSE /\ Stores(c, t, row)
          /\ IF after # seen THEN Audits(c, t, after) ELSE told' = told
          /\ walk' = IF row.name # template[t].name THEN [walk EXCEPT !.steady = @ \ {t}] ELSE walk
          /\ UNCHANGED used
  /\ Ends(c) /\ UNCHANGED calls

(* The delete of a row that is gone already deletes nothing, and is not an error. *)
CommitDelete(c) ==
  LET t == Op(c).id IN
  /\ call[c].pc = "begun" /\ Op(c).kind = "delete"
  /\ Stores(c, t, NoTemplate) /\ Audits(c, t, NoTemplate)
  /\ walk' = [walk EXCEPT !.steady = @ \ {t}]
  /\ Ends(c) /\ UNCHANGED <<used, calls>>

-----------------------------------------------------------------------------
(* core/pagination.py                                                       *)

(* apply_keyset: the first PageSize + 1 rows after the cursor. *)
RowsAfter(cursor) ==
  LET above == {t \in Known : template[t].name > cursor}
  IN {t \in above : Cardinality({s \in above : template[s].name < template[t].name}) <= PageSize}
Items(rows) ==
  {t \in rows : Cardinality({s \in rows : template[s].name < template[t].name}) < PageSize}

\* mutant: the cursor is the row beyond the page
NextCursorBeyond(rows) == Max({template[t].name : t \in rows})
(* paginate: the cursor of the next page is the last row shown. *)
NextCursor(rows) == Max({template[t].name : t \in Items(rows)})

(* steady: what was there when the walk began and has neither been renamed nor deleted since. *)
BeginWalk ==
  /\ ~walk.on
  /\ walk' = [NoWalk EXCEPT !.on = TRUE, !.steady = Known]
  /\ UNCHANGED <<template, used, told, stored, call, calls>>

ReadPage ==
  LET rows == RowsAfter(walk.cursor) IN
  /\ walk.on
  /\ walk' = [walk EXCEPT !.shown = @ \cup Items(rows),
                          !.twice = @ \/ Items(rows) \cap walk.shown \cap walk.steady # {},
                          !.cursor = IF Cardinality(rows) > PageSize THEN NextCursor(rows) ELSE 0,
                          !.on = Cardinality(rows) > PageSize,
                          !.done = Cardinality(rows) <= PageSize]
  /\ UNCHANGED <<template, used, told, stored, call, calls>>

Next ==
  \/ \E c \in Caller : \/ \E o \in Operation : BeginCreate(c, o) \/ BeginChange(c, o)
                       \/ CheckCall(c) \/ CommitCreate(c) \/ CommitUpdate(c) \/ CommitDelete(c)
  \/ BeginWalk \/ ReadPage

Spec == Init /\ [][Next]_vars

-----------------------------------------------------------------------------
WalkRow == [on : BOOLEAN, cursor : Nat, shown : SUBSET Template, steady : SUBSET Template,
            twice : BOOLEAN, done : BOOLEAN]

TypeOK ==
  /\ template \in [Template -> TemplateRow]
  /\ told \in [Template -> SUBSET Entry] /\ stored \in [Template -> SUBSET Entry]
  /\ used \subseteq Template /\ call \in [Caller -> CallRow] /\ calls \in 0..MaxCalls
  /\ walk \in WalkRow

(* The audit trail, whatever calls overlap: each content that a call stored, and each deletion, is *)
(* told by an entry of that very call, and no entry tells a content that was never stored.         *)
ChangesAudited ==
  \A t \in Template : /\ stored[t] \subseteq told[t]
                      /\ \A e \in told[t] : \E x \in stored[t] : x.after = e.after

(* What it relies on: the present content is among those stored, and a call that changes a *)
(* template has loaded one whose id was given.                                             *)
ContentStored ==
  /\ Known \subseteq used
  /\ \A t \in used : \E x \in stored[t] : x.after = template[t]
  /\ \A c \in Caller : call[c].pc # "ready" /\ Op(c).kind # "create" => Op(c).id \in used

(* "Lebih dari itu ditolak, tidak dipotong": a preview that does not say it is cut and an export that *)
(* is delivered hold every line of the view, whatever it holds, also when just at the limit.          *)
NothingCutUnsaid ==
  \A t \in Known, lines \in [Year -> 0..MaxLines], year \in Year :
    LET q == template[t].query IN
    /\ ~Preview(q, lines, year).truncated => Preview(q, lines, year).rows = Selected(q, lines, year)
    /\ Exported(q, lines, year) => Export(q, lines, year).rows = Selected(q, lines, year)

(* A walk over the pages shows what stays in place from its beginning to its end, once each, *)
(* whatever is created, renamed or deleted in between.                                       *)
WalkMissesNothing == ~walk.twice /\ (walk.done => walk.steady \subseteq walk.shown)

(* What a walk on its way relies on: the cursor parts what it has shown from what it has not, *)
(* among what stays in place; every template has a name and an id that has been given.        *)
CursorParts == walk.on => \A t \in walk.steady :
                 template[t].known /\ (t \in walk.shown <=> template[t].name <= walk.cursor)
WalkInv == /\ TypeOK /\ WalkMissesNothing /\ CursorParts
           /\ \A t \in Known : template[t].name # 0 /\ t \in used
=============================================================================
