-------------------------------- MODULE RowSets --------------------------------
(* Rows in memory: the operations of Rows, the one-pass IterRows, and the     *)
(* export of tables to CSV and their import into a database with ids of its   *)
(* own. A record has an id, a parent (0 is None) and a value n.               *)
EXTENDS Values

CONSTANTS RowLists,      \* sequences of records
          Passes,        \* sequences of calls on an IterRows
          Files          \* exported tables and how they are imported

-------------------------------------------------------------------------------
(* Rows & Rows keeps the records that are in both, as often as in both.       *)
_and_(a, b) ==
    FoldLeft(LAMBDA s, r : IF Contains(s.others, r) THEN [kept |-> Append(s.kept, r), others |-> RemoveFirst(s.others, r)] ELSE s,
             [kept |-> <<>>, others |-> b], a).kept
_or_(a, b) == a \o SelectSeq(b, LAMBDA r : ~Contains(a, r))

(* find counts what it finds from lo, and stops when the count is hi.         *)
find(rows, n, lo, hi) ==
    FoldLeft(LAMBDA s, r : IF s.stop \/ r.n # n THEN s
                           ELSE [got |-> IF lo <= s.k THEN Append(s.got, r) ELSE s.got, k |-> s.k + 1, stop |-> s.k + 1 = hi],
             [got |-> <<>>, k |-> 0, stop |-> FALSE], rows).got

(* exclude removes from the rows what it returns, going through them by index. *)
RECURSIVE exclude(_, _, _, _)
exclude(rows, n, i, removed) ==
    IF i > Len(rows) THEN [rows |-> rows, removed |-> removed]
    ELSE LET r == rows[i]
         IN IF r.n = n THEN exclude(RemoveAt(rows, i), n, i, Append(removed, r)) ELSE exclude(rows, n, i + 1, removed)

(* as_trees: the children of each row, and the rows whose parent is not here. *)
as_trees(rows) ==
    LET drows(id) == {i \in DOMAIN rows : rows[i].id = id}
        parent(j) == CHOOSE i \in drows(rows[j].parent) : \A k \in drows(rows[j].parent) : k <= i
        roots == {j \in DOMAIN rows : drows(rows[j].parent) = {}}
    IN [roots |-> roots, children |-> [i \in DOMAIN rows |-> {j \in DOMAIN rows \ roots : parent(j) = i}]]

(* group_by_value: a tree of groups, a level for each field.                  *)
Grouped(group, row) == Append(group, row)
RECURSIVE build_fields_struct(_, _, _)
build_fields_struct(row, fields, groups) ==
    LET value == row[Head(fields)]
        leaf == Tail(fields) = <<>>
        here == IF value \in DOMAIN groups THEN groups[value] ELSE <<>>
    IN [v \in DOMAIN groups \cup {value} |->
          IF v # value THEN groups[v] ELSE IF leaf THEN Grouped(here, row) ELSE build_fields_struct(row, Tail(fields), here)]
group_by_value(rows, fields) == FoldLeft(LAMBDA g, r : build_fields_struct(r, fields, g), <<>>, rows)

(* join with rows that refer back: each row is given those of its id.         *)
join(rows, others) == [i \in DOMAIN rows |-> SelectSeq(others, LAMBDA o : o.parent = rows[i].id)]

-------------------------------------------------------------------------------
(* IterRows reads its cursor once; a call is first, all, or the index of a    *)
(* row. rest is what the cursor still has.                                    *)
NoRow == [id |-> 0]
Opened(rows) == [rest |-> rows, head |-> NoRow, last |-> NoRow, last_id |-> -1]
__next__(it) == [it EXCEPT !.rest = Tail(@)]
first(it) ==
    IF it.head # NoRow THEN <<it, Ok(it.head)>>
    ELSE IF it.rest = <<>> THEN <<it, Ok(NoRow)>>
    ELSE <<[__next__(it) EXCEPT !.head = Head(it.rest)], Ok(Head(it.rest))>>
__iter__(it) == <<[it EXCEPT !.rest = <<>>], Ok(IF it.head = NoRow THEN it.rest ELSE <<it.head>> \o it.rest)>>
AtIndex(it, k) ==
    LET drop == IF it.last_id = -1 THEN k ELSE k - it.last_id - 1
        left == SubSeq(it.rest, drop + 1, Len(it.rest))
    IN CASE k = it.last_id -> <<it, Ok(it.last)>>
         [] k < it.last_id -> <<it, Err>>
         [] left = <<>> -> <<[it EXCEPT !.rest = <<>>], Err>>
         [] OTHER -> <<[it EXCEPT !.rest = Tail(left), !.last = Head(left), !.last_id = k], Ok(Head(left))>>
Called(it, call) ==
    CASE call = "first" -> first(it) [] call = "all" -> __iter__(it) [] OTHER -> AtIndex(it, NumeralOf(Str(call)))
Answers(rows, pass) ==
    FoldLeft(LAMBDA s, call : LET r == Called(s.it, call) IN [it |-> r[1], got |-> Append(s.got, r[2])],
             [it |-> Opened(rows), got |-> <<>>], pass).got

-------------------------------------------------------------------------------
(* What a value becomes in a CSV file and, by fix, in its import. A number is *)
(* written so that it reads back.                                             *)
none_exception(v) ==
    CASE v = None -> Str("<NULL>")
      [] v.k = "list" -> Str(bar_encode([i \in DOMAIN v.items |-> TextOf(v.items[i])]))
      [] v.k = "datetime" -> Stamp(v.d, v.t, FALSE)
      [] v.k = "float" -> v
      [] OTHER -> StrOf(v)
fix(c, type) ==
    LET texts == bar_decode_string(TextOf(c))
    IN CASE c = Str("<NULL>") -> Ok(None)
         [] type \in {"double", "integer"} /\ c.k = "text" /\ Blank(c.s) -> Ok(None)
         [] type = "double" -> ToFloat(c)
         [] type = "integer" -> ToInt(c)
         [] type \in {"list:string", "list:reference"} -> Ok(List([i \in DOMAIN texts |-> Str(texts[i])]))
         [] type = "list:integer" -> LET r == DecodedIntegers(TextOf(c)) IN IF r.error THEN Err ELSE Ok(List(r.value))
         [] OTHER -> Ok(c)
Imported(v, type) == LET f == fix(none_exception(v), type) IN IF f.error THEN Err ELSE Read(f.value, type, TRUE)

(* A database of tables p, with a reference to itself, and d, with one to p:  *)
(* the rows by id, and the next id of each. copy is where a row of the file   *)
(* went. id_map and id_offset are as in the code; mapped says id_map is used.  *)
Target == "p"
insert(s, t, r) == [s EXCEPT !.rows[t] = (s.next[t] :> r) @@ @, !.next[t] = @ + 1]
(* A deletion takes the rows that refer to what is deleted with it.           *)
RECURSIVE delete(_, _, _)
delete(s, t, ids) ==
    LET gone == DOMAIN s.rows[t] \cap ids
        left == [s EXCEPT !.rows[t] = [i \in DOMAIN @ \ gone |-> @[i]]]
        referring(u) == {i \in DOMAIN left.rows[u] : left.rows[u][i].ref \in gone}
    IN IF t # Target \/ gone = {} THEN left ELSE delete(delete(left, Target, referring(Target)), "d", referring("d"))
NewId(s, t) == s.next[t]
Fixed(s, ref) ==
    CASE ref = 0 -> 0
      [] s.mapped -> IF ref \in DOMAIN s.id_map[Target] THEN s.id_map[Target][ref] ELSE ref
      [] Target \in DOMAIN s.id_offset -> s.id_offset[Target] + ref
      [] OTHER -> ref
RECURSIVE InsertUntil(_, _, _, _)
\* Mutant: an id is taken as it comes.
InsertOnce(s, t, r, id) == insert(s, t, r)
InsertUntil(s, t, r, id) ==
    LET curr_id == NewId(s, t)
        more == insert(s, t, r)
    IN IF curr_id < id THEN InsertUntil(delete(more, t, {curr_id}), t, r, id) ELSE more
(* unique says where the uuid is in a line: nowhere, first or later.          *)
SameUuid(s, t, r) == {i \in DOMAIN s.rows[t] : s.rows[t][i].uuid = r.uuid}
ImportLine(s, t, line, unique) ==
    LET r == [uuid |-> line.uuid, ref |-> Fixed(s, line.ref)]
        offset == IF t \in DOMAIN s.id_offset THEN s.id_offset[t]
                  ELSE IF NewId(s, t) > line.id THEN NewId(s, t) - line.id ELSE 0
        found == IF unique = "later" THEN SameUuid(s, t, r) ELSE {}
        new == CASE ~s.mapped /\ unique # "later" ->
                      [InsertUntil(s, t, r, line.id + offset) EXCEPT !.id_offset = (t :> offset) @@ @]
                 [] found = {} -> insert(s, t, r)
                 [] OTHER -> [s EXCEPT !.rows[t] = ((CHOOSE i \in found : \A j \in found : i <= j) :> r) @@ @]
        new_id == IF found = {} THEN new.next[t] - 1 ELSE CHOOSE i \in found : \A j \in found : i <= j
    IN [new EXCEPT !.id_map[t] = IF s.mapped THEN (line.id :> new_id) @@ @ ELSE @, !.copy[t] = (line.id :> new_id) @@ @]
import_from_csv_file(s, t, lines, unique) == FoldLeft(LAMBDA r, line : ImportLine(r, t, line, unique), s, lines)
Fresh == [t \in {"p", "d"} |-> <<>>]
(* DAL.import_from_csv_file: one table after the other; x.before ids are used. *)
ImportAll(x, rows, next) ==
    LET s == [rows |-> rows, next |-> next, mapped |-> x.mapped, id_map |-> Fresh, id_offset |-> <<>>, copy |-> Fresh]
    IN FoldLeft(LAMBDA r, t : import_from_csv_file(r, t, x.tables[t], x.unique), s, x.order)
Import(x) == ImportAll(x, Fresh, [t \in {"p", "d"} |-> x.before + 1])
ImportAgain(x) == LET once == Import(x) IN ImportAll(x, once.rows, once.next)

-------------------------------------------------------------------------------
CombineRows == \E a, b \in RowLists : Ask("combine", [a |-> a, b |-> b], [both |-> _and_(a, b), any |-> _or_(a, b)])
FindRows ==
    \E a \in RowLists, n, lo, hi \in 0..3 :
       Ask("find", [a |-> a, n |-> n, lo |-> lo, hi |-> hi], [found |-> find(a, n, lo, hi), excluded |-> exclude(a, n, 1, <<>>)])
ArrangeRows ==
    \E a \in RowLists :
       Ask("arrange", a, [trees |-> as_trees(a), groups |-> group_by_value(a, <<"parent", "n">>), joined |-> join(a, a)])
PassRows == \E a \in RowLists, p \in Passes : Ask("pass", [a |-> a, calls |-> p], Answers(a, p))
CsvValue == \E t \in StoredTypes, v \in PyValues : Ask("csv", [type |-> t, given |-> v], Imported(v, t))
CsvTables == \E x \in Files : Ask("import", x, Import(x))

(* Rows combine as multisets do: & has what both have, and with the rest of   *)
(* one it is all of it; | has every record of either.                         *)
Occurs(s, r) == Cardinality({i \in DOMAIN s : s[i] = r})
RowsCombine ==
    asked.of = "combine" =>
        LET a == asked.x.a  b == asked.x.b
        IN \A r \in Range(a \o b) :
              /\ Occurs(answer.both, r) = IF Occurs(a, r) < Occurs(b, r) THEN Occurs(a, r) ELSE Occurs(b, r)
              /\ Occurs(answer.any, r) = IF Occurs(a, r) > 0 THEN Occurs(a, r) ELSE Occurs(b, r)

(* The pages that find returns are those of what exclude takes away, which    *)
(* with what it leaves is all. (A page that ends at 0 goes to the end.)       *)
FoundAndExcluded ==
    asked.of = "find" =>
        LET x == asked.x  removed == answer.excluded.removed
            end == IF x.hi = 0 \/ x.hi > Len(removed) THEN Len(removed) ELSE x.hi
        IN /\ answer.found = SubSeq(removed, x.lo + 1, end)
           /\ \A r \in Range(x.a) : Occurs(removed, r) + Occurs(answer.excluded.rows, r) = Occurs(x.a, r)
           /\ \A r \in Range(x.a) : Contains(removed, r) = (r.n = x.n)

(* Each row is in one tree, at one place, unless its ancestors go round.      *)
RECURSIVE GoesRound(_, _, _)
GoesRound(rows, i, seen) ==
    \E j \in DOMAIN rows : rows[j].id = rows[i].parent /\ (j \in seen \/ GoesRound(rows, j, seen \cup {j}))
RECURSIVE Below(_, _)
Below(trees, I) == IF I = {} THEN {} ELSE I \cup Below(trees, UNION {trees.children[i] : i \in I} \ I)
TreesHoldEveryRow ==
    asked.of = "arrange" /\ IsInjective([i \in DOMAIN asked.x |-> asked.x[i].id]) =>
        LET places == DOMAIN asked.x
        IN /\ Below(answer.trees, answer.trees.roots) = {i \in places : ~GoesRound(asked.x, i, {i})}
           /\ \A i, j \in places : i # j => answer.trees.children[i] \cap answer.trees.children[j] = {}

(* Every row is in the group of its values, with the rows that share them, in *)
(* their order.                                                               *)
GroupsHoldEveryRow ==
    asked.of = "arrange" =>
        /\ \A r \in Range(asked.x) : r.parent \in DOMAIN answer.groups /\ r.n \in DOMAIN answer.groups[r.parent]
        /\ \A p \in DOMAIN answer.groups : \A n \in DOMAIN answer.groups[p] :
              answer.groups[p][n] = SelectSeq(asked.x, LAMBDA r : r.parent = p /\ r.n = n)

(* An IterRows answers as Rows would, as long as it is gone through once:     *)
(* by first and then all of it, or by indexes that do not go back.            *)
GoneThroughOnce(p) ==
    LET indexes == SelectSeq(p, LAMBDA c : c \notin {"first", "all"})
    IN \/ indexes = <<>> /\ \A i \in DOMAIN p : p[i] = "all" => i = Len(p)
       \/ indexes = p /\ \A i, j \in DOMAIN p : i <= j => NumeralOf(Str(p[i])) <= NumeralOf(Str(p[j]))
IteratesAsRows ==
    asked.of = "pass" /\ GoneThroughOnce(asked.x.calls) =>
        \A i \in DOMAIN answer :
           LET c == asked.x.calls[i]  rows == asked.x.a
           IN answer[i] = CASE c = "first" -> Ok(IF rows = <<>> THEN NoRow ELSE rows[1])
                            [] c = "all" -> Ok(rows)
                            [] OTHER -> IF NumeralOf(Str(c)) < Len(rows) THEN Ok(rows[NumeralOf(Str(c)) + 1]) ELSE Err

(* A value of a column's own type, and None, come back from a CSV file as     *)
(* they were. (The text <NULL> does not, nor does a time with microseconds.)  *)
ValuesComeBack ==
    asked.of = "csv" /\ (asked.x.given = None \/ Own(asked.x.given, asked.x.type)) /\ asked.x.given # Str("<NULL>") =>
        answer = Ok(asked.x.given)

(* An imported row refers to the copy of the row it referred to. (Not to one  *)
(* that is imported later, nor, without a map, from the first row to itself,  *)
(* nor when rows are looked for by their uuid.)                               *)
Earlier(x, t, i, ref) ==
    IF t = Target THEN \E j \in 1..(i - 1) : x.tables[t][j].id = ref
    ELSE \E j \in DOMAIN x.order : x.order[j] = Target /\ \E k \in j..Len(x.order) : x.order[k] = t
ReferencesFollow ==
    asked.of = "import" /\ (asked.x.mapped \/ asked.x.unique # "later") =>
        \A t \in Range(asked.x.order) : \A i \in DOMAIN asked.x.tables[t] :
           LET line == asked.x.tables[t][i]
           IN line.ref # 0 /\ line.ref \in DOMAIN answer.copy[Target] /\ Earlier(asked.x, t, i, line.ref)
              => answer.rows[t][answer.copy[t][line.id]].ref = answer.copy[Target][line.ref]

(* Importing a file again adds no row, when rows are told by their uuid; and  *)
(* an import leaves the rows that the file has. (Fewer, when rows come before *)
(* the table they refer to: what is inserted and deleted again to reach an id *)
(* takes with it the rows that refer to its own.)                             *)
ImportedOnce ==
    asked.of = "import" =>
        \A t \in Range(asked.x.order) :
           /\ asked.x.order[1] = Target => Cardinality(DOMAIN answer.rows[t]) = Len(asked.x.tables[t])
           /\ asked.x.unique = "later" => DOMAIN ImportAgain(asked.x).rows[t] = DOMAIN answer.rows[t]
===============================================================================
