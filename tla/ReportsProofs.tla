----------------------------- MODULE ReportsProofs -----------------------------
(***************************************************************************)
(* Theorems of Reports, for any number of templates, callers, pages and    *)
(* lines: what the audit trail, a preview, an export and a walk over the   *)
(* pages tell is what is there.                                            *)
(***************************************************************************)
EXTENDS Reports, FiniteSetTheorems, WellFoundedInduction, TLAPS

(* Numbers and sizes.                                                       *)

(* Among finitely many things one has the least number. *)
LEMMA SomeIsLeast ==
  ASSUME NEW S, IsFiniteSet(S), S # {}, NEW f, \A x \in S : f[x] \in Int
  PROVE  \E x \in S : \A y \in S : f[x] <= f[y]
<1> DEFINE Before(x) == {y \in S : f[y] < f[x]}
           Befores == {Before(x) : x \in S}
<1>1. Befores \subseteq FiniteSubsetsOf(S) /\ Befores # {}
  <2>1. \A x \in S : Before(x) \subseteq S /\ IsFiniteSet(Before(x))
    BY FS_Subset
  <2>2. QED
    BY <2>1 DEF FiniteSubsetsOf
<1> HIDE DEF Befores
<1>2. PICK A \in Befores : \A B \in Befores : <<B, A>> \notin StrictSubsetOrdering(S)
  BY <1>1, FS_StrictSubsetOrderingWellFounded, WFMin
<1>3. PICK x \in S : A = Before(x)
  BY <1>2 DEF Befores
<1>4. ASSUME NEW y \in S, f[y] < f[x] PROVE FALSE
  <2>1. Before(y) \subseteq Before(x)
    BY <1>4
  <2>2. y \in Before(x) /\ y \notin Before(y)
    BY <1>4
  <2>3. <<Before(y), Before(x)>> \in StrictSubsetOrdering(S)
    BY <2>1, <2>2 DEF StrictSubsetOrdering
  <2>4. Before(y) \in Befores
    BY DEF Befores
  <2>5. QED
    BY <1>2, <1>3, <2>3, <2>4
<1>5. QED
  BY <1>4

(* Of finitely many numbers Max is one, and none is above it. *)
LEMMA MaxIsGreatest ==
  ASSUME NEW S \in SUBSET Nat, IsFiniteSet(S), S # {}
  PROVE  Max(S) \in S /\ \A x \in S : x <= Max(S)
<1> DEFINE f == [x \in S |-> -x]
<1>1. \A x \in S : f[x] = -x /\ f[x] \in Int
  OBVIOUS
<1> HIDE DEF f
<1>2. PICK x \in S : \A y \in S : f[x] <= f[y]
  BY <1>1, SomeIsLeast
<1>3. \A y \in S : x >= y
  BY <1>1, <1>2
<1>4. Max(S) \in S /\ \A y \in S : Max(S) >= y
  BY <1>2, <1>3 DEF Max
<1>5. QED
  BY <1>4

LEMMA SizeOrder ==
  ASSUME NEW B, IsFiniteSet(B), NEW A \in SUBSET B
  PROVE  Cardinality(A) \in Nat /\ Cardinality(B) \in Nat /\ Cardinality(A) <= Cardinality(B)
BY FS_Subset, FS_CardinalityType

-----------------------------------------------------------------------------
(* Previews and exports.                                                    *)

LEMMA SelectedIsNat ==
  ASSUME NEW q, NEW lines, NEW year \in Year
  PROVE  Selected(q, lines, year) \in Nat
<1> DEFINE years == IF \E f \in q.filters : f.column = PeriodColumn THEN Year ELSE {year}
           found == {line \in years \X (1..MaxLines) : line[2] <= lines[line[1]]}
<1>1. IsFiniteSet(years)
  BY ReportsAssumption, FS_Singleton
<1>2. IsFiniteSet(1..MaxLines)
  BY ReportsAssumption, FS_Interval
<1> HIDE DEF years
<1>3. IsFiniteSet(years \X (1..MaxLines))
  BY <1>1, <1>2, FS_Product
<1>4. Cardinality(found) \in Nat
  BY <1>3, FS_Subset, FS_CardinalityType
<1>5. QED
  BY <1>4 DEF Selected, years

(* A fetch that does not say it is cut is not cut. *)
LEMMA FetchTells ==
  ASSUME NEW size \in Nat, NEW n \in Nat, ~Fetch(size, n).truncated
  PROVE  Fetch(size, n).rows = size
<1>1. ~(AtMost(n + 1, size) > n) /\ Fetch(size, n).rows = AtMost(n, AtMost(n + 1, size))
  BY DEF Fetch
<1>2. QED
  BY <1>1 DEF AtMost

(* services/reports.py: nothing is cut without saying so, at any limit. *)
THEOREM CutIsTold == Spec => []NothingCutUnsaid
<1>1. NothingCutUnsaid
  <2>1. ASSUME NEW q, NEW lines, NEW year \in Year
        PROVE  /\ ~Preview(q, lines, year).truncated => Preview(q, lines, year).rows = Selected(q, lines, year)
               /\ Exported(q, lines, year) => Export(q, lines, year).rows = Selected(q, lines, year)
    BY SelectedIsNat, FetchTells, ReportsAssumption DEF Preview, Export, Exported
  <2>2. QED
    BY <2>1 DEF NothingCutUnsaid
<1>2. QED
  BY <1>1, PTL

-----------------------------------------------------------------------------
(* Types.                                                                   *)

LEMMA OpTypes ==
  ASSUME TypeOK, NEW c \in Caller
  PROVE  /\ call[c].pc \in {"ready", "begun", "named"} /\ Op(c) \in Operation /\ Op(c) \in Ask
         /\ call[c].seen \in TemplateRow /\ \A row \in TemplateRow : EntryOf(c, row) \in Entry
BY ReportsAssumption DEF TypeOK, CallRow, Op, EntryOf, Entry

LEMMA NoTemplateType == NoTemplate \in TemplateRow /\ ~NoTemplate.known
BY DEF NoTemplate, TemplateRow

LEMMA ChangedRow ==
  ASSUME NEW o \in Ask, NEW seen, NEW now \in TemplateRow
  PROVE  /\ Changed(o, seen, now) \in TemplateRow /\ Changed(o, seen, now).known = now.known
         /\ Changed(o, seen, now).name # now.name => Changed(o, seen, now).name # 0
BY DEF Changed, Ask, TemplateRow

LEMMA TypeInit == Init => TypeOK
<1>1. SUFFICES ASSUME Init PROVE TypeOK
  OBVIOUS
<1>2. (CHOOSE o \in Operation : TRUE) \in Operation
  BY StartAssumption
<1>3. NoCall \in CallRow
  BY <1>2, NoTemplateType, ReportsAssumption DEF NoCall, CallRow
<1>4. walk \in WalkRow
  BY <1>1 DEF Init, NoWalk, WalkRow
<1>5. \A row \in TemplateRow : [at |-> 0, after |-> row] \in Entry
  BY ReportsAssumption DEF Entry
<1>6. told \in [Template -> SUBSET Entry] /\ stored \in [Template -> SUBSET Entry]
  BY <1>1, <1>5, StartAssumption DEF Init
<1>7. QED
  BY <1>1, <1>3, <1>4, <1>6, StartAssumption, ReportsAssumption DEF Init, TypeOK, Known

(* A call moves or ends: nothing but its own row and the count of calls changes. *)
LEMMA CallTypes ==
  ASSUME TypeOK, NEW c \in Caller, NEW o \in Operation, NEW seen \in TemplateRow
  PROVE  /\ Ends(c) => call' \in [Caller -> CallRow]
         /\ Goes(c, "named") => call' \in [Caller -> CallRow]
         /\ Begin(c, o, seen) => call' \in [Caller -> CallRow] /\ calls' \in 0..MaxCalls
<1>1. NoCall \in CallRow
  BY NoTemplateType, ReportsAssumption DEF NoCall, CallRow
<1>2. calls < MaxCalls => [pc |-> "begun", op |-> o, seen |-> seen, at |-> calls + 1] \in CallRow
  BY ReportsAssumption DEF CallRow, TypeOK
<1>3. \A x \in CallRow : [x EXCEPT !.pc = "named"] \in CallRow
  BY DEF CallRow
<1>4. QED
  BY <1>1, <1>2, <1>3, ReportsAssumption DEF TypeOK, Ends, Goes, Begin

-----------------------------------------------------------------------------
(* The audit trail.                                                         *)

AuditInv == TypeOK /\ ChangesAudited /\ ContentStored

(* What a commit makes of the audit trail. *)
AuditKept ==
  /\ template' \in [Template -> TemplateRow] /\ used' \subseteq Template
  /\ told' \in [Template -> SUBSET Entry] /\ stored' \in [Template -> SUBSET Entry]
  /\ ChangesAudited'
  /\ used \subseteq used' /\ Known' \subseteq used'
  /\ \A t \in used' : \E x \in stored'[t] : x.after = template'[t]

LEMMA SameAudited == AuditInv /\ UNCHANGED <<template, used, told, stored>> => AuditKept
BY DEF AuditInv, AuditKept, TypeOK, ChangesAudited, ContentStored, Known

LEMMA SomeStored ==
  ASSUME AuditInv, NEW t \in used
  PROVE  \E x \in stored[t] : x.after = template[t]
BY DEF AuditInv, ContentStored

(* A content is stored, and told if it is another one; what else is told has been stored. *)
LEMMA CommitAudited ==
  ASSUME AuditInv, NEW c \in Caller, NEW t \in Template, NEW row \in TemplateRow,
         Stores(c, t, row),
         told' = told \/ Audits(c, t, row),
         row # template[t] => Audits(c, t, row),
         used' = used \cup {t}, t \in used \/ row # template[t]
  PROVE  AuditKept
<1> DEFINE e == EntryOf(c, row)
<1>1. e \in Entry /\ e.after = row
  BY OpTypes DEF AuditInv, EntryOf
<1>2. TypeOK /\ ChangesAudited /\ Known \subseteq used
  BY DEF AuditInv, ContentStored
<1>3. /\ told[t] \subseteq told'[t] /\ told'[t] \subseteq told[t] \cup {e}
      /\ stored[t] \subseteq stored'[t]
      /\ row # template[t] => e \in told'[t] /\ stored'[t] = stored[t] \cup {e}
      /\ row = template[t] => stored' = stored
  BY <1>2 DEF TypeOK, Stores, Audits
<1>4. \A s \in Template \ {t} : told'[s] = told[s] /\ stored'[s] = stored[s] /\ template'[s] = template[s]
  BY <1>2 DEF TypeOK, Stores, Audits
<1>5. template'[t] = row
  BY <1>2 DEF TypeOK, Stores
<1>6. /\ template' \in [Template -> TemplateRow] /\ used' \subseteq Template
      /\ told' \in [Template -> SUBSET Entry] /\ stored' \in [Template -> SUBSET Entry]
  BY <1>1, <1>2 DEF TypeOK, Stores, Audits
<1> HIDE DEF e
<1>7. \E x \in stored'[t] : x.after = row
  <2>1. CASE row # template[t]
    BY <1>1, <1>3, <2>1
  <2>2. CASE row = template[t]
    BY <1>3, <2>2, SomeStored
  <2>3. QED
    BY <2>1, <2>2
<1>8. ASSUME NEW s \in Template
      PROVE  stored'[s] \subseteq told'[s] /\ \A y \in told'[s] : \E x \in stored'[s] : x.after = y.after
  <2>1. stored[s] \subseteq told[s] /\ \A y \in told[s] : \E x \in stored[s] : x.after = y.after
    BY <1>2 DEF ChangesAudited
  <2>2. CASE s # t
    BY <1>4, <2>1, <2>2
  <2>3. CASE s = t
    <3>1. stored'[t] \subseteq told'[t]
      BY <1>3, <2>1, <2>3
    <3>2. ASSUME NEW y \in told'[t] PROVE \E x \in stored'[t] : x.after = y.after
      <4>1. CASE y = e
        BY <1>1, <1>7, <4>1
      <4>2. CASE y \in told[t]
        BY <1>3, <2>1, <2>3, <4>2
      <4>3. QED
        BY <1>3, <4>1, <4>2
    <3>3. QED
      BY <2>3, <3>1, <3>2
  <2>4. QED
    BY <2>2, <2>3
<1>9. ASSUME NEW s \in used' PROVE \E x \in stored'[s] : x.after = template'[s]
  <2>1. CASE s = t
    BY <1>5, <1>7, <2>1
  <2>2. CASE s # t
    <3>1. s \in used /\ s \in Template
      BY <1>2, <2>2 DEF TypeOK
    <3>2. QED
      BY <1>4, <2>2, <3>1, SomeStored
  <2>3. QED
    BY <2>1, <2>2
<1>10. Known' \subseteq used'
  BY <1>2, <1>4 DEF Known
<1>11. QED
  BY <1>6, <1>8, <1>9, <1>10 DEF AuditKept, ChangesAudited

LEMMA CreateAudited ==
  ASSUME AuditInv, NEW c \in Caller, CommitCreate(c)
  PROVE  AuditKept
<1> DEFINE row == [known |-> TRUE, name |-> Op(c).name, query |-> Op(c).query, key |-> Op(c).key]
           t == CHOOSE t \in Template : t \notin used
<1>1. TypeOK /\ row \in TemplateRow /\ row.known
  BY OpTypes DEF AuditInv, TemplateRow, Ask
<1>2. t \in Template /\ t \notin used
  BY <1>1 DEF CommitCreate, TypeOK
<1>3. ~template[t].known
  BY <1>2 DEF AuditInv, ContentStored, Known
<1>4. SameTemplates \/ (Stores(c, t, row) /\ Audits(c, t, row) /\ used' = used \cup {t})
  BY DEF CommitCreate
<1> HIDE DEF row, t
<1>5. CASE SameTemplates
  BY <1>5, SameAudited DEF SameTemplates
<1>6. CASE Stores(c, t, row) /\ Audits(c, t, row) /\ used' = used \cup {t}
  BY <1>1, <1>2, <1>3, <1>6, CommitAudited
<1>7. QED
  BY <1>4, <1>5, <1>6

LEMMA UpdateAudited ==
  ASSUME AuditInv, NEW c \in Caller, CommitUpdate(c)
  PROVE  AuditKept
<1> DEFINE t == Op(c).id
           row == Changed(Op(c), call[c].seen, template[t])
<1>1. TypeOK /\ t \in Template /\ template[t] \in TemplateRow /\ row \in TemplateRow
  BY OpTypes, ChangedRow DEF AuditInv, Ask, TypeOK
<1>2. row # template[t] => row # call[c].seen
  BY <1>1, OpTypes DEF Changed, TemplateRow, AuditInv, Ask
<1>3. \/ SameTemplates
      \/ /\ template[t].known /\ Stores(c, t, row) /\ used' = used
         /\ IF row # call[c].seen THEN Audits(c, t, row) ELSE told' = told
  BY DEF CommitUpdate, Audited
<1> HIDE DEF row, t
<1>4. CASE SameTemplates
  BY <1>4, SameAudited DEF SameTemplates
<1>5. CASE /\ template[t].known /\ Stores(c, t, row) /\ used' = used
           /\ IF row # call[c].seen THEN Audits(c, t, row) ELSE told' = told
  <2>1. t \in used
    BY <1>1, <1>5 DEF AuditInv, ContentStored, Known
  <2>2. used' = used \cup {t}
    BY <1>5, <2>1
  <2>3. QED
    BY <1>1, <1>2, <1>5, <2>1, <2>2, CommitAudited
<1>6. QED
  BY <1>3, <1>4, <1>5

LEMMA DeleteAudited ==
  ASSUME AuditInv, NEW c \in Caller, CommitDelete(c)
  PROVE  AuditKept
<1> DEFINE t == Op(c).id
<1>1. TypeOK /\ t \in Template
  BY OpTypes DEF AuditInv, Ask
<1>2. Stores(c, t, NoTemplate) /\ Audits(c, t, NoTemplate) /\ used' = used
  BY DEF CommitDelete
<1>3. t \in used
  BY DEF AuditInv, ContentStored, CommitDelete
<1> HIDE DEF t
<1>4. used' = used \cup {t}
  BY <1>2, <1>3
<1>5. QED
  BY <1>1, <1>2, <1>3, <1>4, NoTemplateType, CommitAudited

LEMMA NamesAreNumbers == \A r \in TemplateRow : r.name \in Nat
<1>1. Name \cup {0} \subseteq Nat
  BY ReportsAssumption
<1>2. \A r \in TemplateRow : r.name \in Name \cup {0}
  BY DEF TemplateRow
<1>3. QED
  BY <1>1, <1>2

(* The page that is read next is of templates there are, and its cursor one of their names. *)
LEMMA PageTypes ==
  ASSUME TypeOK, NEW cursor \in Nat
  PROVE  LET rows == RowsAfter(cursor) IN
         /\ Items(rows) \subseteq rows /\ rows \subseteq Known /\ IsFiniteSet(rows)
         /\ \A t \in rows : template[t].name \in Nat /\ template[t].name > cursor
         /\ rows # {} => Items(rows) # {} /\ NextCursor(rows) \in {template[t].name : t \in Items(rows)}
                         /\ \A t \in Items(rows) : template[t].name <= NextCursor(rows)
<1> DEFINE rows == RowsAfter(cursor)
<1>1. Items(rows) \subseteq rows /\ rows \subseteq Known /\ \A t \in rows : template[t].name > cursor
  BY DEF Items, RowsAfter
<1>2. IsFiniteSet(rows)
  BY <1>1, FS_Subset, ReportsAssumption DEF Known
<1>3. \A t \in Known : template[t].name \in Nat
  <2>1. \A r \in TemplateRow : r.name \in Nat
    BY NamesAreNumbers
  <2>2. QED
    BY <2>1 DEF TypeOK, Known
<1> HIDE DEF rows
<1>4. ASSUME rows # {} PROVE Items(rows) # {}
  <2> DEFINE f == [t \in rows |-> template[t].name]
  <2>1. \A t \in rows : f[t] = template[t].name /\ f[t] \in Int
    BY <1>1, <1>3
  <2> HIDE DEF f
  <2>2. PICK t \in rows : \A s \in rows : f[t] <= f[s]
    BY <1>2, <1>4, <2>1, SomeIsLeast
  <2>3. {s \in rows : template[s].name < template[t].name} = {}
    BY <2>1, <2>2
  <2>4. t \in Items(rows)
    BY <2>3, FS_EmptySet, ReportsAssumption DEF Items
  <2>5. QED
    BY <2>4
<1>5. ASSUME rows # {}
      PROVE  /\ NextCursor(rows) \in {template[t].name : t \in Items(rows)}
             /\ \A t \in Items(rows) : template[t].name <= NextCursor(rows)
  <2> DEFINE names == {template[t].name : t \in Items(rows)}
  <2>1. names \subseteq Nat /\ names # {}
    BY <1>1, <1>3, <1>4, <1>5
  <2>2. IsFiniteSet(names)
    <3>1. IsFiniteSet(Items(rows))
      BY <1>1, <1>2, FS_Subset
    <3> DEFINE g == [t \in Items(rows) |-> template[t].name]
    <3>2. g \in Surjection(Items(rows), names)
      BY DEF Surjection
    <3> HIDE DEF g
    <3>3. QED
      BY <3>1, <3>2, FS_Surjection
  <2>3. NextCursor(rows) = Max(names)
    BY DEF NextCursor
  <2> HIDE DEF names
  <2>4. Max(names) \in names /\ \A x \in names : x <= Max(names)
    BY <2>1, <2>2, MaxIsGreatest
  <2>5. QED
    BY <2>3, <2>4 DEF names
<1>6. QED
  BY <1>1, <1>2, <1>3, <1>4, <1>5 DEF rows

(* What a page makes of the walk. *)
LEMMA PageStep ==
  ASSUME TypeOK, ReadPage
  PROVE  LET rows == RowsAfter(walk.cursor) IN
         /\ walk'.shown = walk.shown \cup Items(rows) /\ walk'.steady = walk.steady
         /\ walk'.twice = (walk.twice \/ Items(rows) \cap walk.shown \cap walk.steady # {})
         /\ walk'.cursor = IF Cardinality(rows) > PageSize THEN NextCursor(rows) ELSE 0
         /\ walk'.on = (Cardinality(rows) > PageSize) /\ walk'.done = (Cardinality(rows) <= PageSize)
         /\ walk' \in WalkRow
<1> DEFINE rows == RowsAfter(walk.cursor)
           shown == walk.shown \cup Items(rows)
           twice == walk.twice \/ Items(rows) \cap walk.shown \cap walk.steady # {}
           cursor == IF Cardinality(rows) > PageSize THEN NextCursor(rows) ELSE 0
           on == Cardinality(rows) > PageSize
           done == Cardinality(rows) <= PageSize
<1>1. walk \in WalkRow /\ walk.cursor \in Nat
  BY DEF TypeOK, WalkRow
<1>2. walk' = [walk EXCEPT !.shown = shown, !.twice = twice, !.cursor = cursor, !.on = on, !.done = done]
  BY DEF ReadPage
<1>3. IsFiniteSet(rows) /\ rows \subseteq Template /\ Items(rows) \subseteq Template
  BY <1>1, PageTypes DEF Known
<1>4. cursor \in Nat
  <2>1. CASE Cardinality(rows) > PageSize
    <3>1. rows # {}
      BY <2>1, FS_EmptySet, ReportsAssumption
    <3>2. QED
      BY <1>1, <2>1, <3>1, PageTypes
  <2>2. CASE ~(Cardinality(rows) > PageSize)
    BY <2>2
  <2>3. QED
    BY <2>1, <2>2
<1>5. shown \subseteq Template /\ twice \in BOOLEAN /\ on \in BOOLEAN /\ done \in BOOLEAN
  BY <1>1, <1>3 DEF WalkRow
<1> HIDE DEF shown, twice, cursor, on, done
<1>6. /\ walk'.shown = shown /\ walk'.steady = walk.steady /\ walk'.twice = twice
      /\ walk'.cursor = cursor /\ walk'.on = on /\ walk'.done = done /\ walk' \in WalkRow
  BY <1>1, <1>2, <1>4, <1>5 DEF WalkRow
<1>7. QED
  BY <1>6 DEF shown, twice, cursor, on, done

LEMMA BeginWalkType ==
  ASSUME TypeOK, BeginWalk
  PROVE  /\ walk' = [on |-> TRUE, cursor |-> 0, shown |-> {}, steady |-> Known, twice |-> FALSE, done |-> FALSE]
         /\ walk' \in WalkRow
<1>1. walk' = [on |-> TRUE, cursor |-> 0, shown |-> {}, steady |-> Known, twice |-> FALSE, done |-> FALSE]
  BY DEF BeginWalk, NoWalk
<1>2. QED
  BY <1>1 DEF WalkRow, Known

(* A commit leaves the walk as it is but for what no longer stays in place. *)
LEMMA CommitWalk ==
  ASSUME TypeOK, NEW c \in Caller, CommitCreate(c) \/ CommitUpdate(c) \/ CommitDelete(c)
  PROVE  /\ walk' \in WalkRow
         /\ walk'.on = walk.on /\ walk'.cursor = walk.cursor /\ walk'.shown = walk.shown
         /\ walk'.twice = walk.twice /\ walk'.done = walk.done
         /\ walk'.steady \subseteq walk.steady
<1>1. walk \in WalkRow
  BY DEF TypeOK
<1>2. walk' = walk \/ \E t : walk' = [walk EXCEPT !.steady = @ \ {t}]
  BY DEF CommitCreate, CommitUpdate, CommitDelete, SameTemplates
<1>3. QED
  BY <1>1, <1>2 DEF WalkRow

(* The callers' rows: who changes a template has loaded one whose id was given. *)
ChangesGiven == \A c \in Caller : call[c].pc # "ready" /\ Op(c).kind # "create" => Op(c).id \in used

LEMMA GivenStays ==
  ASSUME TypeOK, ChangesGiven, NEW c \in Caller, Ends(c) \/ Goes(c, "named"), used \subseteq used',
         call[c].pc # "ready"
  PROVE  ChangesGiven'
<1>1. ASSUME NEW d \in Caller, call'[d].pc # "ready" PROVE call[d].pc # "ready" /\ Op(d)' = Op(d)
  BY <1>1 DEF TypeOK, CallRow, Ends, Goes, NoCall, Op
<1>2. QED
  BY <1>1 DEF ChangesGiven

LEMMA AuditStep == AuditInv /\ [Next]_vars => AuditInv'
<1>1. SUFFICES ASSUME AuditInv, [Next]_vars PROVE AuditInv'
  OBVIOUS
<1>2. TypeOK /\ ChangesGiven
  BY <1>1 DEF AuditInv, ContentStored, ChangesGiven
<1>3. ASSUME AuditKept, ChangesGiven', call' \in [Caller -> CallRow], calls' \in 0..MaxCalls, walk' \in WalkRow
      PROVE  AuditInv'
  BY <1>3 DEF AuditInv, AuditKept, TypeOK, ContentStored, ChangesGiven
<1>4. ASSUME NEW c \in Caller, NEW o \in Operation, BeginCreate(c, o) \/ BeginChange(c, o) PROVE AuditInv'
  <2>1. PICK seen \in TemplateRow : Begin(c, o, seen)
    <3>1. o \in Ask
      BY ReportsAssumption
    <3>2. NoTemplate \in TemplateRow /\ template[o.id] \in TemplateRow
      BY <1>2, <3>1, NoTemplateType DEF TypeOK, Ask
    <3>3. QED
      BY <1>4, <3>2 DEF BeginCreate, BeginChange
  <2>2. SameTemplates
    BY <2>1 DEF Begin
  <2>3. o.kind # "create" => o.id \in used
    <3>1. o.kind # "create" => o.id \in Known
      BY <1>4, ReportsAssumption DEF BeginCreate, BeginChange, Known, Ask
    <3>2. QED
      BY <1>1, <3>1 DEF AuditInv, ContentStored
  <2>4. \A d \in Caller : IF d = c THEN Op(d)' = o ELSE call'[d] = call[d]
    BY <1>2, <2>1 DEF Begin, TypeOK, Op
  <2>5. ChangesGiven'
    BY <1>2, <2>2, <2>3, <2>4 DEF ChangesGiven, SameTemplates, Op
  <2>6. call' \in [Caller -> CallRow] /\ calls' \in 0..MaxCalls
    BY <1>2, <2>1, CallTypes
  <2>7. AuditKept /\ walk' \in WalkRow
    BY <1>1, <1>2, <2>2, SameAudited DEF SameTemplates, TypeOK
  <2>8. QED
    BY <1>3, <2>5, <2>6, <2>7
<1>5. ASSUME NEW c \in Caller, CheckCall(c) PROVE AuditInv'
  <2>1. (Ends(c) \/ Goes(c, "named")) /\ SameTemplates /\ calls' = calls /\ call[c].pc # "ready"
    BY <1>5 DEF CheckCall
  <2>2. \E o : o \in Operation
    BY StartAssumption
  <2>3. call' \in [Caller -> CallRow]
    BY <1>2, <2>1, <2>2, CallTypes, NoTemplateType
  <2>4. AuditKept /\ walk' \in WalkRow /\ calls' \in 0..MaxCalls /\ used \subseteq used'
    BY <1>1, <1>2, <2>1, SameAudited DEF SameTemplates, TypeOK
  <2>5. ChangesGiven'
    BY <1>2, <2>1, <2>4, GivenStays
  <2>6. QED
    BY <1>3, <2>3, <2>4, <2>5
<1>6. ASSUME NEW c \in Caller, CommitCreate(c) \/ CommitUpdate(c) \/ CommitDelete(c) PROVE AuditInv'
  <2>1. AuditKept
    BY <1>1, <1>6, CreateAudited, UpdateAudited, DeleteAudited
  <2>2. Ends(c) /\ calls' = calls /\ call[c].pc # "ready"
    BY <1>6 DEF CommitCreate, CommitUpdate, CommitDelete
  <2>3. \E o : o \in Operation
    BY StartAssumption
  <2>4. call' \in [Caller -> CallRow]
    BY <1>2, <2>2, <2>3, CallTypes, NoTemplateType
  <2>5. walk' \in WalkRow
    BY <1>2, <1>6, CommitWalk
  <2>6. ChangesGiven'
    BY <1>2, <2>1, <2>2, GivenStays DEF AuditKept
  <2>7. QED
    BY <1>2, <1>3, <2>1, <2>2, <2>4, <2>5, <2>6 DEF TypeOK
<1>7. CASE BeginWalk \/ ReadPage
  <2>1. walk' \in WalkRow
    BY <1>2, <1>7, BeginWalkType, PageStep
  <2>2. UNCHANGED <<template, used, told, stored, call, calls>>
    BY <1>7 DEF BeginWalk, ReadPage
  <2>3. AuditKept /\ ChangesGiven'
    BY <1>1, <1>2, <2>2, SameAudited DEF ChangesGiven, Op
  <2>4. QED
    BY <1>2, <1>3, <2>1, <2>2, <2>3 DEF TypeOK
<1>8. CASE UNCHANGED vars
  BY <1>1, <1>8 DEF AuditInv, TypeOK, ChangesAudited, ContentStored, Known, Op, vars
<1>9. QED
  BY <1>1, <1>4, <1>5, <1>6, <1>7, <1>8 DEF Next

(* Every column keeps its type, and the audit trail and the contents stored go together. *)
THEOREM AuditInvariant == Spec => []AuditInv
<1>1. Init => AuditInv
  <2>1. SUFFICES ASSUME Init PROVE ChangesAudited /\ ContentStored
    BY TypeInit DEF AuditInv
  <2>2. \A t \in Template : stored[t] = IF t \in Known THEN {[at |-> 0, after |-> template[t]]} ELSE {}
    BY <2>1 DEF Init
  <2>3. Known \subseteq Template /\ used = Known /\ stored = told /\ \A c \in Caller : call[c].pc = "ready"
    BY <2>1 DEF Init, Known, NoCall
  <2>4. ASSUME NEW t \in used PROVE \E x \in stored[t] : x.after = template[t]
    <3>1. stored[t] = {[at |-> 0, after |-> template[t]]}
      BY <2>2, <2>3, <2>4
    <3>2. QED
      BY <3>1
  <2>5. QED
    BY <2>3, <2>4 DEF ChangesAudited, ContentStored
<1>2. QED
  BY <1>1, AuditStep, PTL DEF Spec

(* services/reports.py: each change is told by the call that made it, and nothing else is, whatever *)
(* calls overlapped.                                                                                *)
THEOREM AuditIsTrue == Spec => []ChangesAudited
<1>1. AuditInv => ChangesAudited
  BY DEF AuditInv
<1>2. QED
  BY <1>1, AuditInvariant, PTL

-----------------------------------------------------------------------------
(* The walk over the pages.                                                 *)

(* The templates that come after a cursor. *)
Above(cursor) == {t \in Known : template[t].name > cursor}
Smaller(S, t) == {s \in S : template[s].name < template[t].name}

LEMMA PageIs ==
  ASSUME TypeOK, NEW cursor \in Nat
  PROVE  /\ IsFiniteSet(Above(cursor)) /\ \A t \in Above(cursor) : template[t].name \in Nat
         /\ RowsAfter(cursor) \subseteq Above(cursor)
         /\ \A t : t \in RowsAfter(cursor) <=>
                     t \in Above(cursor) /\ Cardinality(Smaller(Above(cursor), t)) <= PageSize
         /\ \A rows, t : t \in Items(rows) <=> t \in rows /\ Cardinality(Smaller(rows, t)) < PageSize
<1>1. RowsAfter(cursor) = {t \in Above(cursor) : Cardinality(Smaller(Above(cursor), t)) <= PageSize}
  BY DEF RowsAfter, Above, Smaller
<1>2. \A rows : Items(rows) = {t \in rows : Cardinality(Smaller(rows, t)) < PageSize}
  BY DEF Items, Smaller
<1>3. IsFiniteSet(Above(cursor))
  <2>1. Above(cursor) \subseteq Template
    BY DEF Above, Known
  <2>2. QED
    BY <2>1, FS_Subset, ReportsAssumption
<1>4. \A t \in Above(cursor) : template[t].name \in Nat
  <2>1. \A r \in TemplateRow : r.name \in Nat
    BY NamesAreNumbers
  <2>2. QED
    BY <2>1 DEF TypeOK, Known, Above
<1>5. QED
  BY <1>1, <1>2, <1>3, <1>4

(* When no more than a page is left, the page shows all of it. *)
LEMMA LastPageShowsAll ==
  ASSUME TypeOK, NEW cursor \in Nat, Cardinality(RowsAfter(cursor)) <= PageSize
  PROVE  Items(RowsAfter(cursor)) = Above(cursor)
<1> DEFINE rows == RowsAfter(cursor)
           above == Above(cursor)
<1>1. /\ IsFiniteSet(above) /\ rows \subseteq above /\ \A t \in above : template[t].name \in Nat
      /\ \A t : t \in rows <=> t \in above /\ Cardinality(Smaller(above, t)) <= PageSize
      /\ \A t : t \in Items(rows) <=> t \in rows /\ Cardinality(Smaller(rows, t)) < PageSize
  BY PageIs
<1>2. Cardinality(rows) <= PageSize /\ PageSize \in Nat
  BY ReportsAssumption
<1> HIDE DEF rows, above
<1>3. ASSUME above \ rows # {} PROVE FALSE
  <2> DEFINE rest == above \ rows
             f == [t \in rest |-> template[t].name]
  <2>1. IsFiniteSet(rest)
    BY <1>1, FS_Subset
  <2>2. \A t \in rest : f[t] = template[t].name /\ f[t] \in Int
    BY <1>1
  <2> HIDE DEF f
  <2>3. PICK t \in rest : \A s \in rest : f[t] <= f[s]
    BY <1>3, <2>1, <2>2, SomeIsLeast
  <2>4. \A s \in rest : template[t].name <= template[s].name
    BY <2>2, <2>3
  <2>5. Smaller(above, t) \subseteq rows
    BY <1>1, <2>4 DEF Smaller
  <2>6. IsFiniteSet(rows)
    BY <1>1, FS_Subset
  <2>7. /\ Cardinality(Smaller(above, t)) \in Nat /\ Cardinality(rows) \in Nat
        /\ Cardinality(Smaller(above, t)) <= Cardinality(rows)
    BY <2>5, <2>6, SizeOrder
  <2>8. t \in above /\ t \notin rows
    BY <2>3
  <2>9. QED
    BY <1>1, <1>2, <2>7, <2>8
<1>4. rows = above
  BY <1>1, <1>3
<1>5. \A t \in rows : t \in Items(rows)
  <2> SUFFICES ASSUME NEW t \in rows PROVE Cardinality(Smaller(rows, t)) < PageSize
    BY <1>1
  <2>1. template[t].name \in Nat
    BY <1>1
  <2>2. Smaller(rows, t) \subseteq rows \ {t}
    BY <2>1 DEF Smaller
  <2>3. IsFiniteSet(rows) /\ IsFiniteSet(rows \ {t}) /\ Cardinality(rows \ {t}) = Cardinality(rows) - 1
    BY <1>1, <1>4, FS_RemoveElement
  <2>4. /\ Cardinality(Smaller(rows, t)) \in Nat /\ Cardinality(rows \ {t}) \in Nat
        /\ Cardinality(Smaller(rows, t)) <= Cardinality(rows \ {t})
    BY <2>2, <2>3, SizeOrder
  <2>5. Cardinality(rows) \in Nat
    BY <2>3, FS_CardinalityType
  <2>6. QED
    BY <1>2, <2>3, <2>4, <2>5
<1>6. QED
  BY <1>1, <1>4, <1>5 DEF rows, above

(* When more is left, the page shows what lies between its cursor and the next. *)
LEMMA PageShowsUpToCursor ==
  ASSUME TypeOK, NEW cursor \in Nat, RowsAfter(cursor) # {}, NEW t \in Above(cursor)
  PROVE  t \in Items(RowsAfter(cursor)) <=> template[t].name <= NextCursor(RowsAfter(cursor))
<1> DEFINE rows == RowsAfter(cursor)
           above == Above(cursor)
<1>1. /\ IsFiniteSet(above) /\ rows \subseteq above /\ \A s \in above : template[s].name \in Nat
      /\ \A s : s \in rows <=> s \in above /\ Cardinality(Smaller(above, s)) <= PageSize
      /\ \A s : s \in Items(rows) <=> s \in rows /\ Cardinality(Smaller(rows, s)) < PageSize
      /\ t \in above
  BY PageIs
<1>2. /\ Items(rows) \subseteq rows
      /\ NextCursor(rows) \in {template[s].name : s \in Items(rows)}
      /\ \A s \in Items(rows) : template[s].name <= NextCursor(rows)
  BY PageTypes
<1>3. PageSize \in Nat
  BY ReportsAssumption
<1> HIDE DEF rows, above
<1>4. ASSUME template[t].name <= NextCursor(rows) PROVE t \in Items(rows)
  <2>1. PICK i \in Items(rows) : NextCursor(rows) = template[i].name
    BY <1>2
  <2>2. i \in rows /\ i \in above /\ template[i].name \in Nat /\ template[t].name \in Nat
    BY <1>1, <1>2
  <2>3. Smaller(above, t) \subseteq Smaller(above, i) /\ Smaller(rows, t) \subseteq Smaller(rows, i)
    <3>1. \A S \in SUBSET above : Smaller(S, t) \subseteq Smaller(S, i)
      <4>1. \A s \in above : template[s].name < template[t].name => template[s].name < template[i].name
        BY <1>1, <1>4, <2>1, <2>2
      <4>2. QED
        BY <4>1 DEF Smaller
    <3>2. QED
      BY <1>1, <3>1
  <2>4. IsFiniteSet(Smaller(above, i)) /\ IsFiniteSet(Smaller(rows, i))
    <3>1. Smaller(above, i) \subseteq above /\ Smaller(rows, i) \subseteq above
      BY <1>1 DEF Smaller
    <3>2. QED
      BY <1>1, <3>1, FS_Subset
  <2>5. /\ Cardinality(Smaller(above, t)) \in Nat /\ Cardinality(Smaller(above, i)) \in Nat
        /\ Cardinality(Smaller(above, t)) <= Cardinality(Smaller(above, i))
    BY <2>3, <2>4, SizeOrder
  <2>6. /\ Cardinality(Smaller(rows, t)) \in Nat /\ Cardinality(Smaller(rows, i)) \in Nat
        /\ Cardinality(Smaller(rows, t)) <= Cardinality(Smaller(rows, i))
    BY <2>3, <2>4, SizeOrder
  <2>7. Cardinality(Smaller(above, i)) <= PageSize /\ Cardinality(Smaller(rows, i)) < PageSize
    BY <1>1, <2>1, <2>2
  <2>8. t \in rows
    BY <1>1, <1>3, <2>5, <2>7
  <2>9. QED
    BY <1>1, <1>3, <2>6, <2>7, <2>8
<1>5. QED
  BY <1>2, <1>4 DEF rows

(* The part of the invariant that is not a type. *)
WalkRest == /\ WalkMissesNothing /\ CursorParts
            /\ \A t \in Known : template[t].name # 0 /\ t \in used

LEMMA PageKeeps ==
  ASSUME TypeOK, WalkRest, ReadPage
  PROVE  WalkRest'
<1> DEFINE rows == RowsAfter(walk.cursor)
           more == Cardinality(rows) > PageSize
<1>1. walk \in WalkRow /\ walk.on /\ walk.cursor \in Nat /\ walk.steady \subseteq Template
  BY DEF TypeOK, WalkRow, ReadPage
<1>2. /\ walk'.shown = walk.shown \cup Items(rows) /\ walk'.steady = walk.steady
      /\ walk'.twice = (walk.twice \/ Items(rows) \cap walk.shown \cap walk.steady # {})
      /\ walk'.cursor = IF more THEN NextCursor(rows) ELSE 0
      /\ walk'.on = more /\ walk'.done = (Cardinality(rows) <= PageSize)
  BY PageStep
<1>3. template' = template /\ used' = used
  BY DEF ReadPage
<1>4. \A t \in walk.steady : /\ t \in Known /\ template[t].name \in Nat
                             /\ (t \in walk.shown <=> template[t].name <= walk.cursor)
                             /\ (t \in Above(walk.cursor) <=> ~(template[t].name <= walk.cursor))
  <2>1. \A r \in TemplateRow : r.name \in Nat
    BY NamesAreNumbers
  <2>2. \A t \in walk.steady : template[t].known /\ (t \in walk.shown <=> template[t].name <= walk.cursor)
    BY <1>1 DEF WalkRest, CursorParts
  <2>3. \A t \in walk.steady : template[t].name \in Nat /\ t \in Known
    BY <1>1, <2>1, <2>2 DEF TypeOK, Known
  <2>4. QED
    BY <1>1, <2>2, <2>3 DEF Above
<1>5. \A t \in Items(rows) : template[t].name \in Nat /\ template[t].name > walk.cursor
  BY <1>1, PageTypes
<1>6. IsFiniteSet(rows) /\ Cardinality(rows) \in Nat /\ PageSize \in Nat
  BY <1>1, PageTypes, FS_CardinalityType, ReportsAssumption
<1>7. ASSUME more PROVE rows # {} /\ NextCursor(rows) > walk.cursor /\ NextCursor(rows) \in Nat
  <2>1. rows # {}
    BY <1>6, <1>7, FS_EmptySet
  <2>2. NextCursor(rows) \in {template[t].name : t \in Items(rows)}
    BY <1>1, <2>1, PageTypes
  <2>3. QED
    BY <1>5, <2>1, <2>2
<1>8. ~walk'.twice
  <2>1. ~walk.twice
    BY DEF WalkRest, WalkMissesNothing
  <2>2. Items(rows) \cap walk.shown \cap walk.steady = {}
    BY <1>1, <1>4, <1>5
  <2>3. QED
    BY <1>2, <2>1, <2>2
<1>9. ASSUME walk'.done PROVE walk.steady \subseteq walk'.shown
  <2>1. Items(rows) = Above(walk.cursor)
    BY <1>1, <1>2, <1>9, LastPageShowsAll
  <2>2. QED
    BY <1>2, <1>4, <2>1
<1>10. ASSUME walk'.on, NEW t \in walk.steady PROVE t \in walk'.shown <=> template[t].name <= walk'.cursor
  <2>1. more /\ rows # {} /\ walk'.cursor = NextCursor(rows)
    BY <1>2, <1>7, <1>10
  <2>2. NextCursor(rows) > walk.cursor /\ NextCursor(rows) \in Nat
    BY <1>7, <2>1
  <2>3. CASE t \in walk.shown
    BY <1>1, <1>2, <1>4, <2>1, <2>2, <2>3
  <2>4. CASE t \notin walk.shown
    <3>1. t \in Above(walk.cursor)
      BY <1>4, <2>4
    <3>2. t \in Items(rows) <=> template[t].name <= NextCursor(rows)
      BY <1>1, <2>1, <3>1, PageShowsUpToCursor
    <3>3. QED
      BY <1>2, <2>1, <2>4, <3>2
  <2>5. QED
    BY <2>3, <2>4
<1> HIDE DEF rows, more
<1>11. WalkMissesNothing'
  BY <1>2, <1>8, <1>9 DEF WalkMissesNothing
<1>12. CursorParts'
  BY <1>2, <1>3, <1>4, <1>10 DEF CursorParts, Known
<1>13. QED
  BY <1>3, <1>11, <1>12 DEF WalkRest, Known

LEMMA BeginKeeps ==
  ASSUME TypeOK, WalkRest, BeginWalk
  PROVE  WalkRest'
<1>1. walk' = [on |-> TRUE, cursor |-> 0, shown |-> {}, steady |-> Known, twice |-> FALSE, done |-> FALSE]
  BY BeginWalkType
<1>2. template' = template /\ used' = used
  BY DEF BeginWalk
<1>3. \A t \in Known : template[t].known /\ ~(template[t].name <= 0)
  <2>1. \A r \in TemplateRow : r.name \in Nat
    BY NamesAreNumbers
  <2>2. \A t \in Known : template[t].name # 0 /\ template[t].name \in Nat
    BY <2>1 DEF WalkRest, TypeOK, Known
  <2>3. QED
    BY <2>2 DEF Known
<1>4. walk'.on /\ walk'.cursor = 0 /\ walk'.shown = {} /\ walk'.steady = Known /\ ~walk'.twice /\ ~walk'.done
  BY <1>1
<1>5. WalkMissesNothing'
  BY <1>4 DEF WalkMissesNothing
<1>6. CursorParts'
  BY <1>2, <1>3, <1>4 DEF CursorParts
<1>7. QED
  BY <1>2, <1>5, <1>6 DEF WalkRest, Known

(* What stays in place through a commit keeps its name, and what is there after it has one. *)
LEMMA CommitMoves ==
  ASSUME TypeOK, WalkRest, NEW c \in Caller, CommitCreate(c) \/ CommitUpdate(c) \/ CommitDelete(c)
  PROVE  /\ \A t \in Known' : template'[t].name # 0 /\ t \in used'
         /\ \A t \in walk'.steady : template[t].known /\ t \in Template =>
                                      template'[t].known /\ template'[t].name = template[t].name
<1>1. Op(c) \in Operation /\ Op(c) \in Ask
  BY OpTypes
<1>2. walk \in WalkRow /\ template \in [Template -> TemplateRow]
  BY DEF TypeOK
<1>3. \A t \in Template : template[t].known => template[t].name # 0 /\ t \in used
  BY DEF WalkRest, Known
<1>4. CASE SameTemplates
  BY <1>3, <1>4 DEF SameTemplates, Known
<1>5. CASE CommitCreate(c) /\ ~SameTemplates
  <2> DEFINE row == [known |-> TRUE, name |-> Op(c).name, query |-> Op(c).query, key |-> Op(c).key]
             new == CHOOSE t \in Template : t \notin used
  <2>1. new \in Template /\ new \notin used
    BY <1>5 DEF CommitCreate, TypeOK
  <2>2. row.known /\ row.name # 0
    BY <1>1, <1>5, StartAssumption DEF CommitCreate
  <2>3. template' = [template EXCEPT ![new] = row] /\ used' = used \cup {new} /\ walk' = walk
    BY <1>5 DEF CommitCreate, Stores
  <2> HIDE DEF row, new
  <2>4. \A t \in Template : template'[t] = IF t = new THEN row ELSE template[t]
    BY <1>2, <2>3
  <2>5. QED
    BY <1>3, <2>1, <2>2, <2>3, <2>4 DEF Known
<1>6. CASE CommitUpdate(c) /\ ~SameTemplates
  <2> DEFINE u == Op(c).id
             row == Changed(Op(c), call[c].seen, template[u])
  <2>1. u \in Template /\ template[u] \in TemplateRow
    BY <1>1, <1>2 DEF Ask
  <2>2. row.known = template[u].known /\ (row.name # template[u].name => row.name # 0)
    BY <1>1, <2>1, ChangedRow
  <2>3. /\ template[u].known /\ template' = [template EXCEPT ![u] = row] /\ used' = used
        /\ walk' = IF row.name # template[u].name THEN [walk EXCEPT !.steady = @ \ {u}] ELSE walk
    BY <1>6 DEF CommitUpdate, Stores
  <2> HIDE DEF row, u
  <2>4. \A t \in Template : template'[t] = IF t = u THEN row ELSE template[t]
    BY <1>2, <2>3
  <2>5. row.name = template[u].name \/ u \notin walk'.steady
    BY <1>2, <2>3 DEF WalkRow
  <2>6. \A t \in Template : /\ template'[t].known = template[t].known
                            /\ template'[t].name = template[t].name
                               \/ (t = u /\ template'[t].name # 0)
    BY <2>1, <2>2, <2>4
  <2>7. \A t \in Known' : template'[t].name # 0 /\ t \in used'
    BY <1>3, <2>3, <2>6 DEF Known
  <2>8. \A t \in walk'.steady : t \in Template => template'[t].name = template[t].name
    BY <2>4, <2>5, <2>6
  <2>9. QED
    BY <2>6, <2>7, <2>8
<1>7. CASE CommitDelete(c)
  <2> DEFINE d == Op(c).id
  <2>1. d \in Template
    BY <1>1 DEF Ask
  <2>2. /\ template' = [template EXCEPT ![d] = NoTemplate] /\ used' = used
        /\ walk' = [walk EXCEPT !.steady = @ \ {d}]
    BY <1>7 DEF CommitDelete, Stores
  <2> HIDE DEF d
  <2>3. \A t \in Template : template'[t] = IF t = d THEN NoTemplate ELSE template[t]
    BY <1>2, <2>2
  <2>4. d \notin walk'.steady
    BY <1>2, <2>2 DEF WalkRow
  <2>5. QED
    BY <1>3, <2>2, <2>3, <2>4, NoTemplateType DEF Known
<1>8. QED
  BY <1>4, <1>5, <1>6, <1>7

LEMMA CommitKeeps ==
  ASSUME TypeOK, WalkRest, NEW c \in Caller, CommitCreate(c) \/ CommitUpdate(c) \/ CommitDelete(c)
  PROVE  WalkRest'
<1>1. /\ walk'.on = walk.on /\ walk'.cursor = walk.cursor /\ walk'.shown = walk.shown
      /\ walk'.twice = walk.twice /\ walk'.done = walk.done /\ walk'.steady \subseteq walk.steady
  BY CommitWalk
<1>2. walk.steady \subseteq Template
  BY DEF TypeOK, WalkRow
<1>3. /\ \A t \in Known' : template'[t].name # 0 /\ t \in used'
      /\ \A t \in walk'.steady : template[t].known /\ t \in Template =>
                                   template'[t].known /\ template'[t].name = template[t].name
  BY CommitMoves
<1>4. WalkMissesNothing'
  BY <1>1 DEF WalkRest, WalkMissesNothing
<1>5. CursorParts'
  <2> SUFFICES ASSUME walk'.on, NEW t \in walk'.steady
               PROVE  template'[t].known /\ (t \in walk'.shown <=> template'[t].name <= walk'.cursor)
    BY DEF CursorParts
  <2>1. template[t].known /\ t \in Template /\ (t \in walk.shown <=> template[t].name <= walk.cursor)
    BY <1>1, <1>2 DEF WalkRest, CursorParts
  <2>2. template'[t].known /\ template'[t].name = template[t].name
    BY <1>3, <2>1
  <2>3. QED
    BY <1>1, <2>1, <2>2
<1>6. QED
  BY <1>3, <1>4, <1>5 DEF WalkRest

LEMMA WalkStep == TypeOK /\ WalkRest /\ [Next]_vars => WalkRest'
<1>1. SUFFICES ASSUME TypeOK, WalkRest, [Next]_vars PROVE WalkRest'
  OBVIOUS
<1>2. ASSUME SameTemplates \/ UNCHANGED vars PROVE WalkRest'
  BY <1>1, <1>2 DEF WalkRest, WalkMissesNothing, CursorParts, Known, SameTemplates, vars
<1>3. ASSUME NEW c \in Caller, NEW o \in Operation, BeginCreate(c, o) \/ BeginChange(c, o) PROVE WalkRest'
  BY <1>2, <1>3 DEF BeginCreate, BeginChange, Begin
<1>4. ASSUME NEW c \in Caller, CheckCall(c) PROVE WalkRest'
  BY <1>2, <1>4 DEF CheckCall
<1>5. ASSUME NEW c \in Caller, CommitCreate(c) \/ CommitUpdate(c) \/ CommitDelete(c) PROVE WalkRest'
  BY <1>1, <1>5, CommitKeeps
<1>6. CASE BeginWalk \/ ReadPage
  BY <1>1, <1>6, BeginKeeps, PageKeeps
<1>7. QED
  BY <1>1, <1>2, <1>3, <1>4, <1>5, <1>6 DEF Next

(* The invariant of a walk: its cursor parts what it has shown from what it has not. *)
THEOREM WalkInvariant == Spec => []WalkInv
<1>1. WalkInv <=> TypeOK /\ WalkRest
  BY DEF WalkInv, WalkRest
<1>2. Init => WalkRest
  <2>1. SUFFICES ASSUME Init PROVE WalkRest
    OBVIOUS
  <2>2. ~walk.twice /\ ~walk.done /\ ~walk.on
    BY <2>1 DEF Init, NoWalk
  <2>3. \A t \in Known : template[t].name # 0 /\ t \in used
    BY <2>1, StartAssumption DEF Init, Known
  <2>4. QED
    BY <2>2, <2>3 DEF WalkRest, WalkMissesNothing, CursorParts
<1>3. Spec => []TypeOK
  <2>1. AuditInv => TypeOK
    BY DEF AuditInv
  <2>2. QED
    BY <2>1, AuditInvariant, PTL
<1>4. QED
  BY <1>1, <1>2, <1>3, WalkStep, PTL DEF Spec

(* core/pagination.py: a walk shows all that stays in place, once each, whatever changes meanwhile. *)
THEOREM WalkIsComplete == Spec => []WalkMissesNothing
<1>1. WalkInv => WalkMissesNothing
  BY DEF WalkInv
<1>2. QED
  BY <1>1, WalkInvariant, PTL
=============================================================================
