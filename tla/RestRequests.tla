---------------------------- MODULE RestRequests ------------------------------
(* The REST interface without a policy: filters through references, pages,    *)
(* lookups, and the outcome a change is answered with.                        *)
EXTENDS Calls

CONSTANTS Data,          \* of each table its records; 0 is NULL
          RefersTo,      \* of each reference <<table, field>> the table
          SearchedTable, \* the table searched
          Searches,      \* searches asked
          MAX_LIMIT, DefaultLimit,
          Changes        \* changes asked

Status(code) == [code |-> code]
Raised == Status(0)      \* an exception error_wrapper lets through
FieldsOf(t) == UNION {DOMAIN r : r \in Data[t]}
IsReference(t, f) == <<t, f>> \in DOMAIN RefersTo
Ref(t, f) == Data[RefersTo[<<t, f>>]]

-------------------------------------------------------------------------------
(* A condition of a row is true, false or, of NULL, neither.                  *)
TruthOf(b) == IF b THEN "true" ELSE "false"
All3(S) == IF "false" \in S THEN "false" ELSE IF "unknown" \in S THEN "unknown" ELSE "true"
Not3(v) == IF v = "unknown" THEN v ELSE TruthOf(v = "false")
In3(v, S) == IF S = {} THEN "false" ELSE IF v = 0 THEN "unknown" ELSE IF v \in S THEN "true" ELSE IF 0 \in S THEN "unknown" ELSE "false"
(* The values compared with: one of them, but for in.                         *)
make_query(v, condition, values) ==
    IF v = 0 THEN "unknown"
    ELSE TruthOf(\A x \in values :
             CASE condition \in {"eq", "in"} -> v \in values [] condition = "ne" -> v # x
               [] condition = "lt" -> v < x [] condition = "gt" -> v > x
               [] condition = "le" -> v <= x [] condition = "ge" -> v >= x)

(* A filter [neg, path, condition, values] names a field of the table; or one  *)
(* of what a field refers to; or one of a table that refers to the record, by *)
(* its field and name; or one of what such a table refers to besides.         *)
Filtering(neg, path, condition, values) == [neg |-> neg, path |-> path, condition |-> condition, values |-> values]
Meets(r, filters) == \A f \in filters : make_query(r[Last(f.path)], f.condition, f.values) = "true"
hop1(r, path, filters) == In3(r[path[1]], {x.id : x \in {y \in Ref(SearchedTable, path[1]) : Meets(y, filters)}})
hop2(r, path, filters) == In3(r.id, {x[path[1]] : x \in {y \in Data[path[2]] : Meets(y, filters)}})
hop3(r, path, filters) ==
    In3(r.id, {x[path[1]] : x \in {y \in Data[path[2]] : \E z \in Ref(path[2], path[3]) : z.id = y[path[3]] /\ Meets(z, filters)}})
(* Filters along the same path hold of the same record, and are negated       *)
(* together; those of the table itself one by one.                            *)
GroupOf(filters, f) ==
    IF Len(f.path) = 1 THEN {f} ELSE {g \in filters : g.neg = f.neg /\ Len(g.path) = Len(f.path) /\ Front(g.path) = Front(f.path)}
GroupHolds(r, path, filters) ==
    CASE Len(path) = 1 -> make_query(r[path[1]], (CHOOSE f \in filters : TRUE).condition, (CHOOSE f \in filters : TRUE).values)
      [] Len(path) = 2 -> hop1(r, path, filters)
      [] Len(path) = 3 -> hop2(r, path, filters)
      [] OTHER -> hop3(r, path, filters)
Matching(filters) ==
    LET one(r, f) == LET v == GroupHolds(r, f.path, GroupOf(filters, f)) IN IF f.neg THEN Not3(v) ELSE v
    IN {r \in Data[SearchedTable] : All3({one(r, f) : f \in filters}) = "true"}

(* What a filter names that is not there raises KeyError, answered with 400;  *)
(* a field that refers to nothing, or no such table, another exception.       *)
Longest(path) == Len(path) > 4
Wrong(f) ==
    LET p == f.path
        missing(t, x) == x \notin FieldsOf(t)
    IN CASE Longest(p) -> 200
         [] Len(p) = 1 -> IF missing(SearchedTable, p[1]) THEN 400 ELSE 200
         [] Len(p) = 2 -> IF missing(SearchedTable, p[1]) THEN 400 ELSE IF ~IsReference(SearchedTable, p[1]) THEN 0
                          ELSE IF missing(RefersTo[<<SearchedTable, p[1]>>], p[2]) THEN 400 ELSE 200
         [] p[2] \notin DOMAIN Data -> 0
         [] Len(p) = 3 -> IF missing(p[2], p[1]) \/ missing(p[2], p[3]) THEN 400 ELSE 200
         [] OTHER -> IF missing(p[2], p[3]) THEN 400 ELSE IF ~IsReference(p[2], p[3]) THEN 0
                     ELSE IF missing(p[2], p[1]) \/ missing(RefersTo[<<p[2], p[3]>>], p[4]) THEN 400 ELSE 200
Heeded(filters) == {f \in filters : ~Longest(f.path)}

-------------------------------------------------------------------------------
(* A page of the rows: in order of the fields asked for, or else of the id.   *)
Before(r, s, order, tie) ==
    LET at == {i \in DOMAIN order : r[order[i]] # s[order[i]]}
    IN IF at = {} THEN (IF tie THEN r.id < s.id ELSE r.id > s.id) ELSE r[order[Min(at)]] < s[order[Min(at)]]
(* Rows that are equal in that order come in any; tie tells which of two.     *)
Ordered(rows, order, tie) == SetToSortSeq(rows, LAMBDA r, s : Before(r, s, order, tie))
Limit(given) == IF given = <<>> THEN DefaultLimit ELSE Min({given[1], MAX_LIMIT})
(* A negative limit is none to the database.                                  *)
Page(rows, offset, limit) == SubSeq(rows, offset + 1, IF limit < 0 THEN Len(rows) ELSE Min({Len(rows), offset + limit}))
(* An order by fields the table has not is none.                              *)
OrderBy(fields) ==
    LET known == SelectSeq(fields, LAMBDA f : f \in FieldsOf(SearchedTable)) IN IF known = <<>> THEN <<"id">> ELSE known

-------------------------------------------------------------------------------
(* Lookups: the record a field refers to, those that refer to the row, or     *)
(* those with what they refer to besides. fields are those shown of it.       *)
Shown(r, fields) == [f \in (IF fields = {} THEN DOMAIN r ELSE DOMAIN r \cap fields) |-> r[f]]
BlankRow(t, fields) == [f \in (IF fields = {} THEN FieldsOf(t) ELSE fields) |-> 0]
NoRecord == [id |-> 0]
ById(S, id) == {x \in S : x.id = id}
Dropped(r, fields, f) == [g \in (IF fields = {} THEN DOMAIN r ELSE fields) \ {f} |-> r[g]]
lookup1(page, key, fields) ==
    LET found(r) == ById(Ref(SearchedTable, key[1]), r[key[1]])
    IN [i \in DOMAIN page |-> {Shown(x, fields) : x \in found(page[i])}]
lookup2(page, key, fields) ==
    [i \in DOMAIN page |-> {Shown(x, fields) : x \in {y \in Data[key[2]] : y[key[1]] = page[i].id}}]
(* The record besides takes the place of its reference, one of NULLs if it is *)
(* not there.                                                                 *)
lookup3(page, key, fields) ==
    LET besides(y) == IF ById(Ref(key[2], key[3]), y[key[3]]) = {} THEN {BlankRow(RefersTo[<<key[2], key[3]>>], {})} ELSE ById(Ref(key[2], key[3]), y[key[3]])
    IN [i \in DOMAIN page |->
          UNION {{[row |-> Dropped(y, fields, key[3]), besides |-> z] : z \in besides(y)} : y \in {y \in Data[key[2]] : y[key[1]] = page[i].id}}]
(* The references looked up are sorted first, which NULL among others cannot. *)
LookupFails(page, key) ==
    CASE Len(key) = 0 -> 200
      [] Len(key) = 1 -> IF key[1] \notin FieldsOf(SearchedTable) THEN 400 ELSE IF ~IsReference(SearchedTable, key[1]) THEN 0
                         ELSE IF Len(page) > 1 /\ \E i \in DOMAIN page : page[i][key[1]] = 0 THEN 0 ELSE 200
      [] OTHER -> IF key[2] \notin DOMAIN Data THEN 0 ELSE IF key[1] \notin FieldsOf(key[2]) THEN 400
                  ELSE IF Len(key) = 3 /\ key[3] \notin FieldsOf(key[2]) THEN 400
                  ELSE IF Len(key) = 3 /\ ~IsReference(key[2], key[3]) THEN 0 ELSE 200
LookedUp(page, key, fields) ==
    CASE Len(key) = 0 -> <<>> [] Len(key) = 1 -> lookup1(page, key, fields)
      [] Len(key) = 2 -> lookup2(page, key, fields) [] OTHER -> lookup3(page, key, fields)

(* A search: [filters, order, offset, limit (or none), lookup, fields].       *)
search(s, tie) ==
    LET wrong == {Wrong(f) : f \in s.filters} \ {200}
        rows == Matching(Heeded(s.filters))
        page == Page(Ordered(rows, OrderBy(s.order), tie), s.offset, Limit(s.limit))
    IN IF wrong # {} THEN Status(CHOOSE w \in wrong : TRUE)
       ELSE IF LookupFails(page, s.lookup) # 200 THEN Status(LookupFails(page, s.lookup))
       ELSE [code |-> 200, items |-> page, looked |-> LookedUp(page, s.lookup, s.fields),
             count |-> IF s.offset = 0 THEN Cardinality(rows) ELSE -1]
Search == \E s \in Searches, tie \in BOOLEAN : Ask("search", s, search(s, tie))

-------------------------------------------------------------------------------
(* A change: [method, id, body], of the table searched; an id may be in the   *)
(* address or in the body.                                                    *)
Writable == FieldsOf(SearchedTable) \ {"id"}
Invalid1(f, v) == f \notin Writable \/ (IsReference(SearchedTable, f) /\ v # 0 /\ ById(Ref(SearchedTable, f), v) = {})
_validate_fields(body) == {f \in DOMAIN body : Invalid1(f, body[f])}
Outcome(code, table) == [code |-> code, table |-> table]
Over(r, body) == [f \in DOMAIN r |-> IF f \in DOMAIN body THEN body[f] ELSE r[f]]
(* error_wrapper: errors are 422, NotFound 404, what else is wrong 400.       *)
validate_and_insert(table, body) ==
    LET id == Max({r.id : r \in table} \cup {0}) + 1
        new == [f \in FieldsOf(SearchedTable) |-> IF f = "id" THEN id ELSE IF f \in DOMAIN body THEN body[f] ELSE 0]
    IN IF _validate_fields(body) # {} THEN Outcome(422, table) ELSE Outcome(200, table \cup {new})
validate_and_update(table, id, body) ==
    CASE _validate_fields(body) # {} -> Outcome(422, table)
      [] ById(table, id) = {} -> Outcome(404, table)
      [] DOMAIN body = {} -> Outcome(400, table)
      [] OTHER -> Outcome(200, {IF r.id = id THEN Over(r, body) ELSE r : r \in table})
Deleted(table, id) == IF ById(table, id) = {} THEN Outcome(404, table) ELSE Outcome(200, table \ ById(table, id))
__call__(table, c) ==
    LET id == IF c.id # 0 THEN c.id ELSE IF "id" \in DOMAIN c.body THEN c.body.id ELSE 0
    IN CASE c.method = "POST" -> validate_and_insert(table, c.body)
         [] id = 0 -> Outcome(400, table)
         [] c.method = "PUT" -> validate_and_update(table, id, c.body)
         [] OTHER -> Deleted(table, id)
Change == \E c \in Changes : Ask("change", c, __call__(Data[SearchedTable], c))

-------------------------------------------------------------------------------
Found == asked.of = "search" /\ answer.code = 200

(* What is found meets every filter, and all that meets them is found: of a   *)
(* path a related record meets all of its filters, or none of them if they    *)
(* are negated. (A negated filter finds nothing where NULL is in its way: the *)
(* field itself, or in what links, which hides every row. Several negated     *)
(* along one path are negated together.)                                      *)
Related(r, p) ==
    CASE Len(p) = 1 -> {r}
      [] Len(p) = 2 -> ById(Ref(SearchedTable, p[1]), r[p[1]])
      [] Len(p) = 3 -> {y \in Data[p[2]] : y[p[1]] = r.id}
      [] OTHER -> UNION {ById(Ref(p[2], p[3]), y[p[3]]) : y \in {y \in Data[p[2]] : y[p[1]] = r.id}}
NullInTheWay(f) ==
    f.neg /\ (IF Len(f.path) < 3 THEN \E r \in Data[SearchedTable] : r[f.path[1]] = 0 ELSE \E y \in Data[f.path[2]] : y[f.path[1]] = 0)
NegatedTogether(filters, f) == f.neg /\ Len(f.path) > 1 /\ Cardinality(GroupOf(filters, f)) > 1
FiltersAreMet ==
    Found =>
        LET filters == Heeded(asked.x.filters)
            positive(r, f) == \E y \in Related(r, f.path) : Meets(y, GroupOf(filters, f))
            met(r, f) == IF f.neg THEN ~\E y \in Related(r, f.path) : Meets(y, {f}) ELSE positive(r, f)
            all == {r \in Data[SearchedTable] : \A f \in filters : met(r, f)}
        IN (\A f \in filters : ~NegatedTogether(filters, f))
           => /\ Range(answer.items) \subseteq all
              /\ answer.count # -1 /\ (\A f \in filters : ~NullInTheWay(f)) => answer.count = Cardinality(all)

(* Page after page every row that is found comes, and comes once, as long as  *)
(* the order asked for tells any two apart.                                   *)
RECURSIVE Walked(_, _)
Walked(s, offset) ==
    LET page == search([s EXCEPT !.offset = offset], offset % 2 = 0).items
    IN IF page = <<>> THEN <<>> ELSE page \o Walked(s, offset + Len(page))
TellsApart(rows, order) == \A r, t \in rows : r # t => \E i \in DOMAIN order : r[order[i]] # t[order[i]]
PagesMakeAll ==
    Found /\ asked.x.offset = 0 /\ asked.x.limit # <<0>> /\ TellsApart(Matching(Heeded(asked.x.filters)), OrderBy(asked.x.order)) =>
        LET all == Walked(asked.x, 0) IN Len(all) = answer.count /\ Cardinality(Range(all)) = answer.count

(* A row is found by a filter on just the records its lookup shows.           *)
LookupsAsFilters ==
    Found /\ asked.x.lookup # <<>> /\ asked.x.fields = {} =>
        LET key == asked.x.lookup
            target == IF Len(key) = 2 THEN key[2] ELSE IF Len(key) = 1 THEN RefersTo[<<SearchedTable, key[1]>>] ELSE RefersTo[<<key[2], key[3]>>]
            shown(i) == IF Len(key) = 3 THEN {x.besides : x \in answer.looked[i]} \ {BlankRow(target, {})} ELSE answer.looked[i]
        IN \A i \in DOMAIN answer.items, y \in Data[target] :
              y \in shown(i) <=> answer.items[i] \in Matching({Filtering(FALSE, Append(key, "id"), "eq", {y.id})})

(* A change is answered 200 when it was made, and just it; with any other     *)
(* code nothing was. 404 is for a record that is not there. (A record cannot  *)
(* be updated under the id of a body: id is no field to write.)               *)
ChangesAsAnswered ==
    asked.of = "change" =>
        LET c == asked.x  before == Data[SearchedTable]  after == answer.table
            gone == before \ after  new == after \ before
            id == IF c.id # 0 \/ "id" \notin DOMAIN c.body THEN c.id ELSE c.body.id
        IN IF answer.code # 200 THEN after = before /\ (answer.code = 404 <=> c.method # "POST" /\ id # 0 /\ ById(before, id) = {} /\ answer.code # 422)
           ELSE CASE c.method = "DELETE" -> gone = ById(before, id) /\ gone # {} /\ new = {}
                  [] c.method = "POST" -> gone = {} /\ \E r \in new : new = {r} /\ \A f \in DOMAIN c.body : r[f] = c.body[f]
                  [] OTHER -> /\ \A f \in DOMAIN c.body : \E r \in ById(after, id) : r[f] = c.body[f]
                              /\ gone \subseteq ById(before, id) /\ {r.id : r \in new} = {r.id : r \in gone}
===============================================================================
