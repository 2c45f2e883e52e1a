------------------------------ MODULE QueryDicts -------------------------------
(* Queries as dictionaries, for programs that send them: Query.as_dict, and   *)
(* Set.build, which makes a query of one.                                     *)
EXTENDS Expressions

CONSTANTS DictQueries,   \* queries written as dictionaries
          Dicts          \* dictionaries to build

Dict(op, first, second) == [k |-> "dict", op |-> op, first |-> first, second |-> second]
FieldDict(f) == [k |-> "named", name |-> f.name]
Decimal == [k |-> "decimal"]
born == Field("born", "date")
TheField(n) == CHOOSE f \in {name, age, tags, born} : f.name = n

(* What is no plain value is left out, and is None for who reads it; a date   *)
(* is its text.                                                               *)
Serializable(v) ==
    CASE v.k = "decimal" -> None [] v.k \in {"date", "time", "datetime"} -> StrOf(v) [] OTHER -> v
RECURSIVE as_dict(_)
as_dict(v) ==
    CASE v.k = "field" -> FieldDict(v)
      [] v.k = "expr" -> Dict(v.op, as_dict(v.first), as_dict(v.second))
      [] OTHER -> Serializable(v)

-------------------------------------------------------------------------------
(* build knows operators by names of its own, in capitals.                    *)
BuiltOps == [EQ |-> "eq", NE |-> "ne", GT |-> "gt", GE |-> "gte", LT |-> "lt", LE |-> "lte"]
Turned == [eq |-> "eq", ne |-> "ne", gt |-> "lt", gte |-> "lte", lt |-> "gt", lte |-> "gte"]
\* For these it asks the adapter, which has none of them.
AdapterOps == {"JOIN", "RANDOM", "LOWER", "UPPER", "COALESCE_ZERO", "COUNT", "LIKE", "ADD", "BELONGS", "CONTAINS"}
IsQuery(v) == v.k = "expr"
False1(v) == v = None \/ (~IsBuilt(v) /\ ~IsTrue(v))

(* Python's comparison of what has become of the two sides. Queries are only  *)
(* equal or not, as their texts are.                                          *)
PyOrder(op, a, b) == CASE op = "gt" -> a > b [] op = "gte" -> a >= b [] op = "lt" -> a < b [] op = "lte" -> a <= b
PyCompare(op, l, r) ==
    CASE IsBuilt(l) /\ ~IsQuery(l) -> Ok(Query(op, l, r))
      [] op \in {"eq", "ne"} /\ (IsQuery(l) \/ ~IsBuilt(r) \/ IsQuery(r)) -> Ok(Bool((l = r) = (op = "eq")))
      [] IsBuilt(r) /\ ~IsQuery(r) -> Ok(Query(Turned[op], r, l))
      [] l.k = "int" /\ r.k = "int" -> Ok(Bool(PyOrder(op, l.n, r.n)))
      [] OTHER -> Err
PyConnect(op, a, b) ==
    CASE IsQuery(a) -> Ok(Query(op, a, b))
      [] a.k = "bool" /\ b.k = "bool" -> Ok(Bool(IF op = "_and" THEN a.b /\ b.b ELSE a.b \/ b.b))
      [] IsQuery(b) /\ (op = "_and" \/ ~IsBuilt(a)) -> Ok(Query(op, b, a))
      [] a.k = "raw" /\ op = "_or" -> Ok(Expression("comma", a, b, NoType))
      [] OTHER -> Err
PyInvert(a) ==
    CASE IsQuery(a) -> Ok(_not(a))
      [] a.k = "raw" -> Ok(Expression("invert", a, None, NoType))
      [] a.k = "bool" -> Ok(Num(IF a.b THEN -2 ELSE -1))
      [] OTHER -> Err

RECURSIVE build(_)
Operand(v) == CASE v.k = "dict" -> build(v) [] v.k = "named" -> Ok(TheField(v.name)) [] OTHER -> Ok(v)
build(d) ==
    LET left == Operand(d.first)
        right == Operand(d.second)
        op == IF d.op = "AND" THEN "_and" ELSE "_or"
    IN CASE d.k # "dict" -> Err
         [] d.op \in {"AND", "OR"} /\ ~({d.first.k, d.second.k} \subseteq {"dict", "named"}) -> Err
         [] d.op \in {"AND", "OR"} ->
               LET a == build(d.first)  b == build(d.second)
               IN IF a.error \/ b.error THEN Err ELSE PyConnect(op, a.value, b.value)
         [] d.op = "NOT" ->
               LET a == build(d.first) IN IF d.first = None THEN Err ELSE IF a.error THEN Err ELSE PyInvert(a.value)
         [] left.error \/ right.error -> Err
         [] d.op \in DOMAIN BuiltOps -> PyCompare(BuiltOps[d.op], left.value, right.value)
         [] d.op \in AdapterOps -> Err
         [] False1(left.value) /\ False1(right.value) -> Ok(Raw(Sql(d.op, <<>>)))
         [] OTHER -> Err

WriteDict == \E q \in DictQueries : Ask("as_dict", q, as_dict(q))
BuildDict == \E d \in Dicts : Ask("build", d, build(d))

-------------------------------------------------------------------------------
(* A dictionary is a query back again, once its operators have the names that *)
(* build knows: the same query, or none at all. (As as_dict writes them build *)
(* knows none; a Decimal comes back as NULL, a date as its text.)             *)
Capitals == [eq |-> "EQ", ne |-> "NE", gt |-> "GT", gte |-> "GE", lt |-> "LT", lte |-> "LE", _and |-> "AND", _or |-> "OR", _not |-> "NOT"]
RECURSIVE InCapitals(_)
InCapitals(d) ==
    IF d.k # "dict" THEN d
    ELSE Dict(IF d.op \in DOMAIN Capitals THEN Capitals[d.op] ELSE d.op, InCapitals(d.first), InCapitals(d.second))
RECURSIVE Sendable(_)
Sendable(q) == q.k = "expr" => q.op \in DOMAIN Capitals /\ Sendable(q.first) /\ Sendable(q.second)
DictsAreQueries ==
    asked.of = "as_dict" /\ Serializable(asked.x.second) = asked.x.second =>
        build(InCapitals(answer)) = IF Sendable(asked.x) THEN Ok(asked.x) ELSE Err

(* A dictionary of comparisons with a field on either side selects the rows   *)
(* that it says: build turns no comparison and loses no connective.           *)
Side(v, n, a) == IF v.k = "named" THEN (IF v.name = "age" THEN a ELSE n) ELSE v
RECURSIVE Says(_, _, _)
Says(d, n, a) ==
    LET x == Side(d.first, n, a)  y == Side(d.second, n, a)
        both == {Says(d.first, n, a), Says(d.second, n, a)}
    IN CASE d.op = "AND" -> IF Num(0) \in both THEN Num(0) ELSE IF None \in both THEN None ELSE Num(1)
         [] d.op = "OR" -> IF Num(1) \in both THEN Num(1) ELSE IF None \in both THEN None ELSE Num(0)
         [] d.op = "NOT" -> LET s == Says(d.first, n, a) IN IF s = None THEN None ELSE Num(1 - s.n)
         [] None \in {d.first, d.second} -> AsTruth((x = y) = (d.op = "EQ"))
         [] None \in {x, y} -> None
         [] d.op \in {"EQ", "NE"} -> AsTruth((x = y) = (d.op = "EQ"))
         [] OTHER -> AsTruth(PyOrder(BuiltOps[d.op], x.n, y.n))
RECURSIVE IsSaid(_)
IsSaid(d) ==
    CASE d.k # "dict" -> FALSE
      [] d.op = "NOT" -> IsSaid(d.first)
      [] d.op \in {"AND", "OR"} -> IsSaid(d.first) /\ IsSaid(d.second)
      [] OTHER -> /\ d.op \in DOMAIN BuiltOps /\ "named" \in {d.first.k, d.second.k}
                  /\ "dict" \notin {d.first.k, d.second.k} /\ (None \in {d.first, d.second} => d.op \in {"EQ", "NE"})
BuiltAsSaid ==
    asked.of = "build" /\ IsSaid(asked.x) =>
        ~answer.error /\ \A a \in SomeAges : Selected(answer.value, Str("a"), a, <<>>) = Says(asked.x, Str("a"), a)
===============================================================================
