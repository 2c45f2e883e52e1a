-------------------------------- MODULE Selects -------------------------------
(* From a set and the arguments of its select, count, update or delete to the *)
(* statement, and the rows it returns. A query is a conjunction of atoms over *)
(* tables; the AST path and the older one it falls back to both build FROM.   *)
(* In what order a statement lists its tables and conditions is left out; not *)
(* so the order of what is joined on conditions.                              *)
EXTENDS Calls

CONSTANTS dalname,       \* of each name or alias, the table it stands for
          Contents,      \* the rows of each: id, ref, mine
          Filtered,      \* tables with a common filter
          Sets,          \* sets asked
          Subselects,    \* [set, of]: the sets that are selected of in them, and the table of the field
          Joins,         \* sequences of tables or ONs joined to them
          FieldLists     \* whose fields are selected

ASSUME JoinsAssumption == Joins \subseteq Seq(UNION {Range(joined) : joined \in Joins})

Null == [id |-> 0, ref |-> 0, mine |-> FALSE]
Is(t, ref) == [op |-> "is", t |-> t, ref |-> ref]          \* t.ref = ref
Refers(t, u) == [op |-> "refers", t |-> t, u |-> u]        \* t.ref = u.id
Mine(t) == [op |-> "mine", t |-> t]                        \* its common filter
In(t, sub) == [op |-> "in", t |-> t, sub |-> sub]          \* t.id in select of refs
TheSet(atoms, ignore) == [atoms |-> atoms, ignore |-> ignore]

-------------------------------------------------------------------------------
(* The adapter: which tables a query names; a subselect names its own.        *)
tables(atoms) == UNION {IF a.op = "refers" THEN {a.t, a.u} ELSE {a.t} : a \in atoms}
SubsOf(atoms) == {a.sub : a \in {b \in atoms : b.op = "in"}}
NamesOf(sub) == tables(sub.set.atoms) \cup {sub.of}
Closed(subs) == \A sub \in subs : SubsOf(sub.set.atoms) \subseteq subs
ASSUME SubselectsAssumption ==                             \* no subselect is in itself
    /\ IsFiniteSet(Subselects) /\ Closed(Subselects) /\ \A q \in Sets : SubsOf(q.atoms) \subseteq Subselects
    /\ \A subs \in (SUBSET Subselects) \ {{}} : \E sub \in subs : SubsOf(sub.set.atoms) \cap subs = {}
ASSUME NamesAssumption ==                                  \* every name stands for a table
    /\ \A t \in DOMAIN dalname : dalname[t] \in DOMAIN Contents \cap DOMAIN dalname
    /\ \A q \in Sets : tables(q.atoms) \subseteq DOMAIN dalname
    /\ \A sub \in Subselects : NamesOf(sub) \subseteq DOMAIN dalname
    /\ \A joined \in Joins : \A i \in DOMAIN joined : joined[i].t \in DOMAIN dalname
merge_tablemaps(names, more) == names \cup more
use_common_filters(q) == ~q.ignore /\ q.atoms # {}
\* Mutant: a table is filtered only when it is alone.
common_filterAlone(atoms, names) == atoms \cup {Mine(t) : t \in {n \in names : dalname[n] \in Filtered /\ names = {n}}}
common_filter(atoms, names) == atoms \cup {Mine(t) : t \in {n \in names : dalname[n] \in Filtered}}
Filter(q) == IF use_common_filters(q) THEN common_filter(q.atoms, tables(q.atoms)) ELSE q.atoms
(* A single ON is looked into for tables, a list of them is not.              *)
Scope(q, joined) == IF Len(joined) = 1 THEN merge_tablemaps(tables(q.atoms), tables(joined[1].on)) ELSE tables(q.atoms)
expand_all(fields, scope) == IF fields = {} THEN scope ELSE fields

(* What is joined: t the table, on the condition; none for a table by itself. *)
Plain(t) == [t |-> t, on |-> {}]
OnPlaces(joined) == {i \in DOMAIN joined : joined[i].on # {}}
_build_joins_for_select(names, joined) ==
    LET on_tables == {joined[i].t : i \in OnPlaces(joined)}
        join_tables == {joined[i].t : i \in DOMAIN joined \ OnPlaces(joined)}
        merge == (UNION {tables(joined[i].on) : i \in OnPlaces(joined)}) \ on_tables
        important == join_tables \cup on_tables \cup merge
    IN [join_tables |-> join_tables, on_tables |-> on_tables, merge |-> merge,
        important |-> important, excluded |-> names \ important]

(* A statement: crossed are the tables of FROM, plain those joined to it by   *)
(* themselves, joins those on a condition, by their place in the request.     *)
Joined(kind, t, on) == [kind |-> kind, t |-> t, on |-> on]
\* Mutant: a left join is an inner one.
_join_from_onInner(kind, j) == Joined("inner", j.t, common_filter(j.on, {j.t}))
_join_from_on(kind, j) == Joined(kind, j.t, common_filter(j.on, {j.t}))
Kind(join, i) == IF i <= Len(join) THEN "inner" ELSE "left"
OnAll(join, left) ==
    LET joined == join \o left IN [i \in OnPlaces(joined) |-> _join_from_on(Kind(join, i), joined[i])]

Statement(fields, crossed, plain, joins, where, order) ==
    [fields |-> fields, crossed |-> crossed, plain |-> plain, joins |-> joins, where |-> where, order |-> order]
NoTables == Statement({}, {}, {}, <<>>, {}, {})
_default_orderby(names) == names
OfItsTables(q, selected, names) == Statement(selected, names, {}, <<>>, Filter(q), _default_orderby(names))
From(q, join, left, selected, names, pool, plain) ==
    IF pool = {} THEN NoTables
    ELSE Statement(selected, pool, {Joined(IF left = <<>> THEN "inner" ELSE "left", t, {}) : t \in plain},
                   OnAll(join, left), Filter(q), _default_orderby(names))
(* The AST path: tables in no ON come first, crossed, then those joined.      *)
AstFrom(q, join, left, selected, names, b) == From(q, join, left, selected, names, b.excluded \cup b.merge, b.join_tables)
AstSelect(q, join, left, selected, names) ==
    IF join \o left = <<>> THEN OfItsTables(q, selected, names)
    ELSE AstFrom(q, join, left, selected, names, _build_joins_for_select(names, join \o left))
AstNamed(q, join, left, selected) == AstSelect(q, join, left, selected, merge_tablemaps(tables(q.atoms), selected))
set_to_select(q, fields, join, left) == AstNamed(q, join, left, expand_all(fields, Scope(q, join \o left)))

(* The older path: the only one with both inner and left joins; a table       *)
(* joined by itself it takes into FROM only when it is left.                  *)
Crossed(names, join, left, i, l) ==
    CASE left = <<>> -> i.excluded \cup i.merge
      [] left # <<>> /\ join = <<>> -> l.excluded \cup l.merge
      [] OTHER -> (i.important \cup l.important \cup names) \ (i.on_tables \cup l.on_tables)
OlderFrom(q, join, left, selected, names, i, l) ==
    From(q, join, left, selected, names, Crossed(names, join, left, i, l), l.join_tables)
OlderSelect(q, join, left, selected, names) ==
    IF join \o left = <<>> THEN OfItsTables(q, selected, names)
    ELSE OlderFrom(q, join, left, selected, names, _build_joins_for_select(names, join), _build_joins_for_select(names, left))
OlderNamed(q, join, left, selected) == OlderSelect(q, join, left, selected, merge_tablemaps(tables(q.atoms), selected))
_select_wcols(q, fields, join, left) == OlderNamed(q, join, left, expand_all(fields, Scope(q, join \o left)))
OlderPath(join, left) == join # <<>> /\ left # <<>>
SelectOf(q, fields, join, left) ==
    IF OlderPath(join, left) THEN _select_wcols(q, fields, join, left) ELSE set_to_select(q, fields, join, left)

-------------------------------------------------------------------------------
(* What the database makes of it: a row of each table in FROM, and those of   *)
(* the statement around it. The compiler leaves out of a subselect's FROM the *)
(* tables that are in scope around it.                                        *)
TableNames1 == DOMAIN dalname
SomeRows1 == {Null} \cup UNION Range(Contents)
Envs == UNION {[S -> SomeRows1] : S \in SUBSET TableNames1}
With(env, t, row) == [x \in DOMAIN env \cup {t} |-> IF x = t THEN row ELSE env[x]]
Compiled(s, scope) ==
    [s EXCEPT !.crossed = @ \ scope, !.plain = {j \in @ : j.t \notin scope}, !.joins = [i \in {n \in DOMAIN @ : @[n].t \notin scope} |-> @[i]]]
JoinedNames(s, last) == {s.joins[i].t : i \in {n \in DOMAIN s.joins : n <= last}}
AllNames(s) == s.crossed \cup {j.t : j \in s.plain} \cup {s.joins[i].t : i \in DOMAIN s.joins}
SubselectOf(sub) == SelectOf(sub.set, {sub.of}, <<>>, <<>>)

IsMet(among, atom, env, scope) ==
    LET row == env[atom.t]
    IN CASE atom.op = "is" -> row.ref = atom.ref
         [] atom.op = "mine" -> row.mine
         [] atom.op = "refers" -> row.ref # 0 /\ row.ref = env[atom.u].id
         [] atom.op = "in" -> row.id \in among[<<atom.sub, env, scope>>]
HoldsIn(among, atom, env, scope) == env[atom.t] # Null /\ IsMet(among, atom, env, scope)
AllHold(among, atoms, env, scope) == \A a \in atoms : HoldsIn(among, a, env, scope)

(* The rows of a compiled statement; scope are the names its own scope has;   *)
(* among tells what a subselect returns.                                      *)
StartOf(s, t) ==
    IF Contents[dalname[t]] = {} /\ (\E j \in s.plain : j.t = t /\ j.kind = "left") THEN {Null} ELSE Contents[dalname[t]]
StartRows(s, outer) ==
    LET own == s.crossed \cup {j.t : j \in s.plain}
    IN {[x \in DOMAIN outer \cup own |-> IF x \in own THEN f[x] ELSE outer[x]] :
          f \in {g \in [own -> SomeRows1] : \A t \in own : g[t] \in StartOf(s, t)}}
Meeting(among, j, env, scope) == {r \in Contents[dalname[j.t]] : AllHold(among, j.on, With(env, j.t, r), scope)}
WithJoined(j, env, matching) ==
    IF matching = {} /\ j.kind = "left" THEN {With(env, j.t, Null)} ELSE {With(env, j.t, r) : r \in matching}
JoinedBy(among, j, envs, scope) == UNION {WithJoined(j, env, Meeting(among, j, env, scope)) : env \in envs}
Joining(among, s, outer, scope) ==
    LET rows[n \in 0..Max({0} \cup DOMAIN s.joins)] ==
          CASE n = 0 -> StartRows(s, outer)
            [] n # 0 /\ n \in DOMAIN s.joins -> JoinedBy(among, s.joins[n], rows[n - 1], scope)
            [] OTHER -> rows[n - 1]
    IN rows
RowsIn(among, s, outer, scope) ==
    {e \in Joining(among, s, outer, scope)[Max({0} \cup DOMAIN s.joins)] : AllHold(among, s.where, e, scope)}
ReturnedIn(among, sub, env, scope) ==
    LET s == SubselectOf(sub) IN {e[sub.of].ref : e \in RowsIn(among, Compiled(s, scope), env, scope \cup AllNames(s))}
SelectedIn[p \in Subselects \X Envs \X (SUBSET TableNames1)] == ReturnedIn(SelectedIn, p[1], p[2], p[3])
RowsOf(s, outer, scope) == RowsIn(SelectedIn, s, outer, scope)

(* It fails when a FROM is empty, an ON names a table joined later, or a      *)
(* table that was left out is not around it either (here are those that are), *)
(* be it one of a condition or of the field that is selected.                 *)
SubFails(fails, atoms, scope, here) == \E a \in atoms : a.op = "in" /\ fails[<<a.sub, scope, here>>]
FailsIn(fails, s, scope, here) ==
    LET c == Compiled(s, scope)
        known(i) == here \cup c.crossed \cup {j.t : j \in c.plain} \cup JoinedNames(c, i)
        all == here \cup AllNames(c)
        inner == scope \cup AllNames(s)
    IN \/ c.crossed = {}
       \/ \E i \in DOMAIN c.joins : ~(tables(c.joins[i].on) \subseteq known(i))
       \/ ~(tables(s.where) \subseteq all)
       \/ \E i \in DOMAIN s.joins : SubFails(fails, s.joins[i].on, inner, known(i))
       \/ SubFails(fails, s.where, inner, all)
SubselectFailsIn(fails, sub, scope, here) ==
    LET s == SubselectOf(sub) IN FailsIn(fails, s, scope, here) \/ ~(s.fields \subseteq here \cup AllNames(Compiled(s, scope)))
SubselectFails[p \in Subselects \X (SUBSET TableNames1) \X (SUBSET TableNames1)] == SubselectFailsIn(SubselectFails, p[1], p[2], p[3])
Fails(s) == FailsIn(SubselectFails, s, {}, {})
Top == [t \in {} |-> Null]
(* The older path cannot expand a subselect.                                  *)
HasSubselect(atoms) == \E a \in atoms : a.op = "in"
Returned(s, expands) ==
    IF Fails(s) \/ ~expands THEN Err ELSE Ok([rows |-> RowsOf(s, Top, AllNames(s)), statement |-> s])
select(q, fields, join, left) ==
    Returned(SelectOf(q, fields, join, left), ~(OlderPath(join, left) /\ HasSubselect(q.atoms)))

-------------------------------------------------------------------------------
(* count, update and delete. A subselect of theirs is compiled in the scope   *)
(* of the tables' own names, whatever they are called in the query.           *)
OwnNames(q) == {dalname[t] : t \in tables(q.atoms)}
Direct(q, atoms) ==
    LET names == tables(q.atoms)
    IN IF SubFails(SubselectFails, atoms, OwnNames(q), names) THEN Err
       ELSE Ok(RowsOf(Statement(names, names, {}, <<>>, atoms, {}), Top, OwnNames(q)))
\* Mutant: a count leaves the common filters out.
countUnfiltered(q) ==
    IF Cardinality(tables(q.atoms)) > 1 /\ HasSubselect(q.atoms) THEN Err ELSE Direct(q, q.atoms)
(* A set of several tables is counted along the older path.                   *)
count(q) ==
    IF Cardinality(tables(q.atoms)) > 1 /\ HasSubselect(q.atoms) THEN Err ELSE Direct(q, Filter(q))
(* update and delete are of a single table, under its own name.               *)
set_to_update(q) ==
    IF OwnNames(q) # tables(q.atoms) \/ Cardinality(tables(q.atoms)) # 1 THEN Err ELSE Direct(q, Filter(q))

(* Set.where: the last call says whether common filters are ignored.          *)
where(s, atoms, ignore) == TheSet(s.atoms \cup atoms, ignore)

(* No table is joined twice; what is joined by itself both ways of joining    *)
(* would take into FROM twice.                                                *)
Apart(join, left) ==
    LET all == join \o left
    IN (\A i, j \in DOMAIN all : all[i].t = all[j].t => i = j)
       /\ (OlderPath(join, left) => OnPlaces(all) = DOMAIN all)
SelectRows ==
    \E q \in Sets, fields \in FieldLists, join, left \in Joins :
       Apart(join, left) /\ Ask("select", [q |-> q, fields |-> fields, join |-> join, left |-> left], select(q, fields, join, left))
CountOrUpdate ==
    \E q \in Sets, of \in {"count", "update"} : Ask(of, [q |-> q], IF of = "count" THEN count(q) ELSE set_to_update(q))
SelectsSpec == Idle /\ [][Waiting /\ (SelectRows \/ CountOrUpdate)]_calls

-------------------------------------------------------------------------------
RowsAnswered == IF asked.of = "select" THEN answer.value.rows ELSE answer.value
Answered == asked.of \in {"select", "count", "update"} /\ ~answer.error
OnTables(joined) == {joined[i].t : i \in OnPlaces(joined)}
(* The subselects of a query and those in them, and all names these use.      *)
SubselectsIn(atoms) ==
    {sub \in Subselects : \A subs \in SUBSET Subselects : SubsOf(atoms) \subseteq subs /\ Closed(subs) => sub \in subs}
NamedInSubselects(atoms) == UNION {NamesOf(sub) : sub \in SubselectsIn(atoms)}
AskedWithSubselect == asked.of \in {"select", "count", "update"} /\ HasSubselect(asked.x.q.atoms)

(* No row another tenant's common filter hides is selected, counted or        *)
(* touched: of the tables the query names, and of those joined on a           *)
(* condition. (Tables that are only selected from, or joined by themselves,   *)
(* are not filtered.)                                                         *)
EveryTableIsFiltered ==
    Answered =>
        LET filtered == (IF asked.x.q.ignore THEN {} ELSE tables(asked.x.q.atoms))
                        \cup IF asked.of = "select" THEN OnTables(asked.x.join \o asked.x.left) ELSE {}
        IN \A e \in RowsAnswered, t \in filtered : dalname[t] \in Filtered => e[t] = Null \/ e[t].mine

(* A left join loses no row of the tables the query names: neither its        *)
(* condition nor the common filter of what is joined is asked of them.        *)
LeftKeepsAnchors ==
    asked.of = "select" /\ Answered =>
        LET q == asked.x.q  left == asked.x.left  anchors == tables(q.atoms)
            here(e) == [t \in anchors |-> e[t]]
            alone == select(q, {}, <<>>, <<>>)
        IN /\ asked.x.join = <<>> /\ OnTables(left) \cap anchors = {} /\ asked.x.fields \subseteq anchors
           /\ \A i \in DOMAIN left : left[i].on # {} /\ tables(left[i].on) \subseteq anchors \cup OnTables(left)
           /\ NamedInSubselects(q.atoms) \cap OnTables(left) = {}
           => {here(e) : e \in RowsAnswered} = {here(e) : e \in alone.value.rows}

(* Both paths from a set to SQL select the same rows. (But for a table joined *)
(* by itself, which the older one leaves out.)                                *)
PathsAgree ==
    asked.of = "select" /\ Answered =>
        LET x == asked.x
            older == _select_wcols(x.q, x.fields, x.join, x.left)
        IN (x.join = <<>> \/ x.left = <<>>) /\ OnPlaces(x.join \o x.left) = DOMAIN (x.join \o x.left)
           => Fails(older) \/ RowsOf(older, Top, AllNames(older)) = RowsAnswered

(* count is the number of rows select returns, and update touches just those. *)
CountAndUpdateAsSelected ==
    asked.of \in {"count", "update"} /\ Answered =>
        LET s == select(asked.x.q, {}, <<>>, <<>>) IN ~s.error => RowsAnswered = s.value.rows

(* The pages of a limited select without an order neither repeat nor miss a   *)
(* row: the tables it is ordered by settle all that is selected.              *)
PagesAreStable ==
    asked.of = "select" /\ Answered =>
        LET s == answer.value.statement
        IN \A e, f \in RowsAnswered :
              (\A t \in s.order : e[t] = f[t]) => \A t \in s.fields : e[t] = f[t]

(* A statement fails only when a subselect has no table of its own or has to  *)
(* take the older path, an ON names a table that is joined after it, or all   *)
(* that the query is about is joined to nothing.                              *)
Runs ==
    asked.of \in {"select", "count", "update"} /\ answer.error =>
        LET q == asked.x.q
            joined == IF asked.of = "select" THEN asked.x.join \o asked.x.left ELSE <<>>
        IN \/ HasSubselect(q.atoms) \/ \E i \in DOMAIN joined : HasSubselect(joined[i].on)
           \/ asked.of = "update" /\ (Cardinality(tables(q.atoms)) # 1 \/ OwnNames(q) # tables(q.atoms))
           \/ \E i, j \in DOMAIN joined : i < j /\ joined[j].t \in tables(joined[i].on)
           \/ tables(q.atoms) \subseteq {joined[i].t : i \in DOMAIN joined}

(* A set selects the same rows by either path to SQL, which the database      *)
(* takes; a left join loses none of them, count and update mean just them,    *)
(* and pages without an order make them all.                                  *)
SelectsAgree ==
    /\ PathsAgree /\ PagesAreStable /\ Runs
    /\ ~AskedWithSubselect => LeftKeepsAnchors /\ CountAndUpdateAsSelected

(* So do those with subselects. (But for a count with a subselect that names  *)
(* the set's table by an alias: the count makes it a table of the subselect.) *)
SubselectsAgree ==
    AskedWithSubselect =>
        /\ LeftKeepsAnchors
        /\ NamedInSubselects(asked.x.q.atoms) \cap tables(asked.x.q.atoms) \subseteq OwnNames(asked.x.q) => CountAndUpdateAsSelected
===============================================================================
