------------------------------- MODULE RowAccess -------------------------------
(* A row of a result, from the selected columns to the names a program finds  *)
(* their values by. The value of a column is its place; what else a row has   *)
(* under a name is a link to the rows that refer to it.                       *)
EXTENDS Calls, TLC

CONSTANTS SelectedColumns,   \* sequences of columns
          ReferencedBy,      \* of a table, the tables that refer to it
          Descriptions,      \* sequences of names: the columns of a statement
          GivenColumns       \* [fields, colnames] for executesql

FieldColumn(t, f) == [k |-> "field", t |-> t, f |-> f]
Aliased(t, f) == [k |-> "as", t |-> t, f |-> f]         \* with_alias, t is "" where it names no table
Plainly(f) == [k |-> "sql", t |-> "", f |-> f]
Link(t) == [link |-> t]
Place(j) == [place |-> j]

(* A new value for a name; a link takes no name that is taken.                *)
Set(row, f, v) == (f :> v) @@ row
Linked(row, t) ==
    FoldLeft(LAMBDA r, u : IF u \in DOMAIN r \/ u = t THEN r ELSE Set(r, u, Link(u)), row, ReferencedBy[t])
ColSet(r, t) == IF t \in DOMAIN r.tables THEN r.tables[t] ELSE <<>>
WithColumn(r, c, j, cacheable) ==
    LET set == Set(ColSet(r, c.t), c.f, Place(j))
        linked == IF c.f = "id" /\ ~cacheable THEN Linked(set, c.t) ELSE set
    IN CASE c.k = "field" -> [r EXCEPT !.tables = Set(@, c.t, linked)]
         [] c.k = "as" /\ c.t # "" -> [r EXCEPT !.tables = Set(@, c.t, set)]
         [] OTHER -> [r EXCEPT !.extra = Set(@, c.f, Place(j))]
_parse(columns, cacheable) ==
    FoldLeft(LAMBDA r, j : WithColumn(r, columns[j], j, cacheable), [tables |-> <<>>, extra |-> <<>>],
             [j \in DOMAIN columns |-> j])

(* Rows hands out the one table of a row that has nothing else.               *)
Alone(row) == [tables |-> <<>>, extra |-> <<>>, own |-> row]
Whole(r) == [tables |-> r.tables, extra |-> r.extra, own |-> <<>>]
Compact(r) ==
    IF Cardinality(DOMAIN r.tables) = 1 /\ r.extra = <<>> THEN Alone(r.tables[CHOOSE t \in DOMAIN r.tables : TRUE]) ELSE Whole(r)

(* Row.__getitem__ of t.f, or of f where t is "". Expressions are looked      *)
(* through first, for f even if t is given.                                   *)
RowItem(r, t, f) ==
    CASE f \in DOMAIN r.extra -> Ok(r.extra[f])
      [] t = "" /\ f \in DOMAIN r.own -> Ok(r.own[f])
      [] t # "" /\ t \in DOMAIN r.tables /\ f \in DOMAIN ColSet(r, t) -> Ok(r.tables[t][f])
      [] t # "" /\ f \in DOMAIN r.own -> Ok(r.own[f])
      [] OTHER -> Err

ReadRow ==
    \E columns \in SelectedColumns, cacheable, compact \in BOOLEAN :
       LET r == _parse(columns, cacheable)
           row == IF compact THEN Compact(r) ELSE Whole(r)
       IN Ask("row", [columns |-> columns, cacheable |-> cacheable],
              [j \in DOMAIN columns |-> RowItem(row, columns[j].t, columns[j].f)])

-------------------------------------------------------------------------------
(* executesql: the columns of a statement as dictionaries, or as rows by the  *)
(* fields or the names given for them; a name with a table is a FieldColumn,  *)
(* one without is Plainly. With neither, the tuples as they come.             *)
ColumnsFor(given) ==
    CASE given.fields = <<>> -> given.colnames
      [] given.colnames = <<>> -> given.fields
      [] OTHER -> [j \in DOMAIN given.colnames |->
                     IF given.fields[j].k = "field" THEN given.fields[j] ELSE Plainly(given.colnames[j].f)]
DictNames(description, given) ==
    IF given.colnames = <<>> THEN description ELSE [j \in DOMAIN given.colnames |-> given.colnames[j].f]
AsDicts(description, names) ==
    LET n == IF Len(names) < Len(description) THEN Len(names) ELSE Len(description)
    IN IF ~IsInjective(names) THEN Err
       ELSE Ok([f \in {names[j] : j \in 1..n} |-> Place(CHOOSE j \in 1..n : names[j] = f)])
AsTuple(description) == Ok([j \in DOMAIN description |-> Place(j)])
executesql(description, given, as_dict1) ==
    LET short == Len(given.colnames) > Len(given.fields) /\ given.fields # <<>>
    IN CASE as_dict1 -> AsDicts(description, DictNames(description, given))
         [] given.fields = <<>> /\ given.colnames = <<>> -> AsTuple(description)
         [] short -> Err
         [] Len(ColumnsFor(given)) > Len(description) -> Err
         [] OTHER -> Ok(_parse(ColumnsFor(given), FALSE))

ExecuteSql ==
    \E d \in Descriptions, g \in GivenColumns, b \in BOOLEAN :
       Ask("executesql", [description |-> d, given |-> g, as_dict |-> b], executesql(d, g, b))

(* Each selected column is found by its name, whatever else is selected, in   *)
(* whatever order, and whether or not the row is that of a single table: the  *)
(* last of its name, never a link to other rows. (An expression outside of    *)
(* tables hides all columns of its name.)                                     *)
ColumnsAreFound ==
    asked.of = "row" =>
        LET cs == asked.x.columns
            same(i, j) == cs[i].t = cs[j].t /\ cs[i].f = cs[j].f
            hidden(j) == \E i \in DOMAIN cs : cs[i].t = "" /\ cs[i].f = cs[j].f /\ cs[j].t # ""
        IN \A j \in DOMAIN cs : (\A i \in DOMAIN cs : same(i, j) => i <= j) => hidden(j) \/ answer[j] = Ok(Place(j))

(* A column of executesql is found by the name it was given, or in a          *)
(* dictionary by the one the database has for it; no two are given one name.  *)
(* (Names that are too few leave out columns, without a word.)                *)
StatementsAreRead ==
    asked.of = "executesql" /\ ~answer.error =>
        LET x == asked.x
            d == DictNames(x.description, x.given)
            cs == ColumnsFor(x.given)
            last(j) == \A i \in DOMAIN cs : cs[i].t = cs[j].t /\ cs[i].f = cs[j].f => i <= j
            hidden(j) == \E i \in DOMAIN cs : cs[i].t = "" /\ cs[i].f = cs[j].f /\ cs[j].t # ""
        IN CASE x.as_dict -> \A j \in DOMAIN d \cap DOMAIN x.description : answer.value[d[j]] = Place(j)
             [] cs = <<>> -> Len(answer.value) = Len(x.description)
             [] OTHER -> \A j \in DOMAIN cs : last(j) => hidden(j) \/ RowItem(Whole(answer.value), cs[j].t, cs[j].f) = Ok(Place(j))
===============================================================================
