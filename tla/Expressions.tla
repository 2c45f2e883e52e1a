----------------------------- MODULE Expressions ------------------------------
(* Expressions and queries: how a program builds them, how the dialect        *)
(* expands them, how the AST compiler turns them into SQL with parameters,    *)
(* and what the SQL says of a row. SQL is a tree; its text is not modelled.   *)
EXTENDS Values

CONSTANTS SomeQueries,   \* queries asked about
          SomeTerms,     \* texts to look for
          SomeNames, SomeAges, SomeTags,   \* what the columns of a row hold
          Bounds         \* of slices

NoType == "none"
Field(name, type) == [k |-> "field", name |-> name, type |-> type]
Expression(op, first, second, type) == [k |-> "expr", op |-> op, first |-> first, second |-> second, type |-> type, opt |-> None]
Query(op, first, second) == Expression(op, first, second, NoType)
Raw(sql) == [k |-> "raw", sql |-> sql]   \* an expression that is a piece of SQL
IsBuilt(v) == v.k \in {"field", "expr", "raw"}

Sql(op, args) == [sql |-> op, args |-> args, v |-> None]
Lit(v) == [sql |-> "literal", args |-> <<>>, v |-> v]
Col(name) == [sql |-> "column", args |-> <<>>, v |-> Str(name)]
Slot == Sql("?", <<>>)
Unsupported == Sql("unsupported", <<>>)
RECURSIVE Leaves(_)
Leaves(t) == IF t.args = <<>> THEN <<t>> ELSE FlattenSeq([i \in DOMAIN t.args |-> Leaves(t.args[i])])

Comparisons == [eq |-> "=", ne |-> "<>", lt |-> "<", lte |-> "<=", gt |-> ">", gte |-> ">="]
Arithmetic == [sub |-> "-", mul |-> "*", div |-> "/", mod |-> "%"]
Functions1 == [lower |-> "LOWER", upper |-> "UPPER", length |-> "LENGTH", coalesce_zero |-> "COALESCE0", epoch |-> "EPOCH",
               invert |-> "DESC", _not |-> "NOT", is_null |-> "IS NULL", is_not_null |-> "IS NOT NULL"]
Connectives == [_and |-> "AND", _or |-> "OR", comma |-> ","]
Numerical == {"integer", "double", "boolean"}
PyType(v) == IF v.k = "int" THEN "integer" ELSE IF v.k = "float" THEN "double" ELSE IF v.k = "bool" THEN "boolean" ELSE "string"
Literally(v, type) == Lit(represent(v, type).value)

-------------------------------------------------------------------------------
(* SQLDialect: the tree with its values in it.                                *)
\* Mutant: wildcards of the term stay wildcards.
_like_escapeNone(term) == term
_like_escape(term) == Replaced(Replaced(Replaced(term, "\\", "\\\\"), "%", "\\%"), "_", "\\_")
Doubled(v) == Str(Replaced(v.s, "\\", "\\\\"))
Lowered(v) == Str(Replaced(v.s, "A", "a"))
Backslash == Lit(Str("\\"))

RECURSIVE Expand(_, _)
Concat(items) == Sql("||", [i \in DOMAIN items |-> Expand(items[i], "string")])
Replacing(v, a, b) == Raw(Sql("REPLACE", <<Expand(v, "string"), Lit(Str(a)), Lit(Str(b))>>))
(* The right side of a LIKE: an expression goes in as it is, a text escaped.  *)
Term(op, v, type) ==
    LET wrap(s) == CASE op = "startswith" -> s \o "%" [] op = "endswith" -> "%" \o s [] OTHER -> "%" \o s \o "%"
        list == op = "contains" /\ type \in {"list:string", "list:integer"}
        escaped == Replacing(v, "%", "\\%")
    IN CASE ~IsBuilt(v) /\ list -> Lit(Str("%|" \o _like_escape(Replaced(StrOf(v).s, "|", "||")) \o "|%"))
         [] ~IsBuilt(v) -> Lit(Str(wrap(_like_escape(StrOf(v).s))))
         [] op = "startswith" -> Concat(<<v, Str("%")>>)
         [] op = "endswith" -> Concat(<<Str("%"), v>>)
         [] list -> Concat(<<Str("%|"), Replacing(escaped, "|", "||"), Str("|%")>>)
         [] OTHER -> Concat(<<Str("%"), escaped, Str("%")>>)
LikeText(v, insensitive, escape) ==
    LET text == IF insensitive THEN Lowered(v) ELSE v
    IN IF escape = None THEN <<Lit(Doubled(text)), Backslash>> ELSE <<Lit(text), Lit(escape)>>
LikeSql(x, v, insensitive, escape) ==
    Sql("LIKE", <<IF insensitive THEN Sql("LOWER", <<x>>) ELSE x>>
                \o IF IsBuilt(v) THEN <<Expand(v, "string"), Lit(Str(IF escape = None THEN "None" ELSE escape.s))>>
                   ELSE LikeText(v, insensitive, escape))

(* x is the first operand, expanded.                                          *)
DialectOp(op, f, s, opt, x) ==
    LET items(type) == [i \in DOMAIN s.items |-> Expand(s.items[i], type)]
    IN CASE op \in DOMAIN Connectives -> Sql(Connectives[op], <<x, Expand(s, NoType)>>)
         [] op \in {"eq", "ne"} /\ s = None -> Sql(IF op = "eq" THEN "IS NULL" ELSE "IS NOT NULL", <<x>>)
         [] op \in DOMAIN Comparisons /\ s = None -> Unsupported
         [] op \in DOMAIN Comparisons /\ f.type = "json" /\ s.k \in {"text", "int", "float"} ->
               Sql(Comparisons[op], <<x, Lit(StrOf(s))>>)
         [] op \in DOMAIN Comparisons -> Sql(Comparisons[op], <<x, Expand(s, f.type)>>)
         [] op = "add" /\ f.type \notin Numerical -> Concat(<<f, s>>)
         [] op = "add" -> Sql("+", <<x, Expand(s, f.type)>>)
         [] op \in DOMAIN Arithmetic -> Sql(Arithmetic[op], <<x, Expand(s, f.type)>>)
         [] op = "belongs" -> IF s.items = <<>> THEN Sql("FALSE", <<>>) ELSE Sql("IN", <<x>> \o items(f.type))
         [] op \in {"like", "ilike"} -> LikeSql(x, s, op = "ilike", opt)
         [] op \in {"startswith", "endswith"} -> Sql("LIKE", <<x, Term(op, s, f.type), Backslash>>)
         [] op = "contains" ->
               LET term == Term(op, s, f.type)
               IN LikeSql(x, IF IsBuilt(s) THEN Raw(term) ELSE term.v, opt # Bool(TRUE), Str("\\"))
         [] op = "coalesce" -> Sql("COALESCE", <<x>> \o items(f.type))
         [] op = "replace" -> Sql("REPLACE", <<Expand(f, "string")>> \o items("string"))
         [] op = "substring" -> Sql("SUBSTR", <<x>> \o items(NoType))
         [] op = "case" -> Sql("CASE", <<x>> \o [i \in 1..2 |-> Literally(s.items[i], PyType(s.items[i]))])
         [] op \in {"aggregate", "extract", "cast", "count", "_as"} -> Sql(op, <<Lit(s), x>>)
         [] OTHER -> Sql(Functions1[op], <<x>>)

Expand(v, type) ==
    CASE v.k = "field" /\ type = "string" /\ ~Texty(v.type) -> Sql("CAST AS TEXT", <<Col(v.name)>>)
      [] v.k = "field" -> Col(v.name)
      [] v.k = "raw" -> v.sql
      [] v.k = "expr" -> DialectOp(v.op, v.first, v.second, v.opt, Expand(v.first, NoType))
      [] type # NoType -> Literally(v, type)
      [] OTHER -> Lit(v)

-------------------------------------------------------------------------------
(* to_ast: literals learn the type they are compared with.                    *)
Node(op, args, opts) == [n |-> op, args |-> args, opts |-> opts]
Literal(v, type) == [n |-> "Literal", v |-> v, type |-> type]

RECURSIVE to_ast(_, _)
_expr_to_ast(op, f, s, opt, x) ==
    LET items(type) == [i \in DOMAIN s.items |-> to_ast(s.items[i], type)]
    IN CASE op \in DOMAIN Connectives \ {"comma"} -> Node(op, <<x, to_ast(s, NoType)>>, None)
         [] op \in {"eq", "ne"} /\ s = None -> Node(IF op = "eq" THEN "is_null" ELSE "is_not_null", <<x>>, None)
         [] op \in DOMAIN Comparisons \cup DOMAIN Arithmetic \cup {"comma", "startswith", "endswith"} ->
               Node(op, <<x, to_ast(s, f.type)>>, None)
         [] op \in {"like", "ilike"} -> Node(op, <<x, to_ast(s, "string")>>, opt)
         [] op = "contains" -> Node(op, <<x, to_ast(s, NoType)>>, [left_type |-> f.type, case_sensitive |-> opt])
         [] op = "belongs" -> Node("InList", <<x>> \o items(f.type), None)
         [] op = "add" -> Node(op, <<x, to_ast(s, f.type)>>, f.type)
         [] op = "coalesce" -> Node(op, <<x>> \o items(f.type), None)
         [] op = "replace" -> Node(op, <<x>> \o items("string"), None)
         [] op = "substring" -> Node(op, <<x>> \o items("integer"), None)
         [] op = "case" -> Node(op, <<x>> \o items(NoType), None)
         [] op \in {"aggregate", "extract", "cast", "count", "_as"} -> Node(op, <<x>>, s)
         [] OTHER -> Node(op, <<x>>, None)
to_ast(v, hint) ==
    CASE v.k = "field" -> [n |-> "FieldRef", name |-> v.name]
      [] v.k = "raw" -> [n |-> "Raw", sql |-> v.sql]
      [] v.k = "expr" -> _expr_to_ast(v.op, v.first, v.second, v.opt, to_ast(v.first, NoType))
      [] OTHER -> Literal(v, hint)

-------------------------------------------------------------------------------
(* SQLCompiler: each node is visited into SQL; a literal of a type that can   *)
(* be bound leaves a placeholder and adds a parameter, when binds.            *)
Made(sql, params) == [sql |-> sql, params |-> params]
Join(op, parts) == Made(Sql(op, [i \in DOMAIN parts |-> parts[i].sql]), FlattenSeq([i \in DOMAIN parts |-> parts[i].params]))

\* Mutant: the values of an IN are visited in reverse.
InListReversed(parts) ==
    Made(Sql("IN", [i \in DOMAIN parts |-> parts[i].sql]), FlattenSeq([i \in DOMAIN parts |-> Reverse(parts)[i].params]))
\* The values are visited before the expression they are looked for in.
InList(parts) ==
    Made(Sql("IN", [i \in DOMAIN parts |-> parts[i].sql]),
         FlattenSeq([i \in DOMAIN Tail(parts) |-> parts[i + 1].params]) \o parts[1].params)

v_Literal(v, type, binds) ==
    CASE binds /\ v # None /\ type \in Parameterizable -> Made(Slot, <<_adapt_for_bind(v, type).value>>)
      [] type # NoType -> Made(Literally(v, type), <<>>)
      [] OTHER -> Made(Lit(v), <<>>)

RECURSIVE Visit(_, _)
_like_render(left, pattern, insensitive, escape, binds) ==
    LET lower == IF insensitive THEN Join("LOWER", <<left>>) ELSE left
        text == IF insensitive THEN Lowered(pattern) ELSE pattern
        right == v_Literal(IF escape = None THEN Doubled(text) ELSE text, "string", binds)
    IN Join("LIKE", <<lower, right, Made(IF escape = None THEN Backslash ELSE Lit(escape), <<>>)>>)
_render_case_branch(n, binds) ==
    IF n.n = "Literal" /\ n.type = NoType THEN v_Literal(n.v, PyType(n.v), binds) ELSE Visit(n, binds)
Pattern(op, v, type) ==
    LET e(s) == _like_escape(s)
    IN CASE op = "startswith" -> e(v) \o "%"
         [] op = "endswith" -> "%" \o e(v)
         [] type \in {"list:string", "list:integer"} -> "%|" \o e(Replaced(v, "|", "||")) \o "|%"
         [] OTHER -> "%" \o e(v) \o "%"

VisitOp(n, binds, parts) ==
    LET r == n.args[2]
        op == n.n
    IN CASE op = "InList" -> IF Len(parts) = 1 THEN Made(Sql("FALSE", <<>>), <<>>) ELSE InList(parts)
         [] op \in DOMAIN Comparisons /\ r.n = "Literal" /\ r.v = None -> Made(Unsupported, <<>>)
         [] op \in DOMAIN Comparisons -> Join(Comparisons[op], parts)
         [] op \in DOMAIN Connectives -> Join(Connectives[op], parts)
         [] op \in DOMAIN Arithmetic -> Join(Arithmetic[op], parts)
         [] op = "add" -> Join(IF n.opts \in Numerical \cup {NoType} THEN "+" ELSE "||", parts)
         [] op \in {"startswith", "endswith", "contains"} /\ r.n # "Literal" -> Made(Unsupported, <<>>)
         [] op \in {"startswith", "endswith"} ->
               _like_render(parts[1], Str(Pattern(op, StrOf(r.v).s, NoType)), FALSE, Str("\\"), binds)
         [] op = "contains" ->
               _like_render(parts[1], Str(Pattern(op, StrOf(r.v).s, n.opts.left_type)),
                            n.opts.case_sensitive # Bool(TRUE), Str("\\"), binds)
         [] op \in {"like", "ilike"} /\ r.n = "Literal" -> _like_render(parts[1], r.v, op = "ilike", n.opts, binds)
         [] op \in {"like", "ilike"} ->
               Join("LIKE", <<IF op = "ilike" THEN Join("LOWER", <<parts[1]>>) ELSE parts[1], parts[2],
                              Made(IF n.opts = None THEN Backslash ELSE Lit(n.opts), <<>>)>>)
         [] op = "case" ->
               Join("CASE", <<parts[1], _render_case_branch(n.args[2], binds), _render_case_branch(n.args[3], binds)>>)
         [] op \in {"coalesce", "replace", "substring"} ->
               Join([coalesce |-> "COALESCE", replace |-> "REPLACE", substring |-> "SUBSTR"][op], parts)
         [] op \in {"aggregate", "extract", "cast", "count", "_as"} -> Join(op, <<Made(Lit(n.opts), <<>>), parts[1]>>)
         [] OTHER -> Join(Functions1[op], parts)
Visit(n, binds) ==
    CASE n.n = "FieldRef" -> Made(Col(n.name), <<>>)
      [] n.n = "Raw" -> Made(n.sql, <<>>)
      [] n.n = "Literal" -> v_Literal(n.v, n.type, binds)
      [] OTHER -> VisitOp(n, binds, [i \in DOMAIN n.args |-> Visit(n.args[i], binds)])

(* The statement: compiled, or expanded where the compiler gives up.          *)
GivesUp(t) == \E i \in DOMAIN Leaves(t) : Leaves(t)[i] = Unsupported
OrExpanded(compiled, q) == IF GivesUp(compiled.sql) THEN Made(Expand(q, NoType), <<>>) ELSE compiled
Rendered(q, binds) == OrExpanded(Visit(to_ast(q, NoType), binds), q)

-------------------------------------------------------------------------------
(* How a program builds them: the methods of Expression and of Query.         *)
Method(m, self, x) ==
    CASE m \in {"SUM", "MAX", "MIN", "AVG", "ABS"} -> Expression("aggregate", self, Str(m), self.type)
      [] m \in {"year", "month", "day", "hour", "minute", "second"} -> Expression("extract", self, Str(m), "integer")
      [] m \in {"length", "epoch"} -> Expression(m, self, None, "integer")
      [] m \in {"lower", "upper", "coalesce_zero", "invert"} -> Expression(m, self, None, self.type)
      [] m = "cast" -> Expression(m, self, x, x.s)
      [] m = "sub" -> Expression(m, self, x, IF self.type = "integer" THEN "integer" ELSE "double")
      [] m \in {"coalesce", "replace", "add", "mul", "div", "mod", "comma", "_as"} -> Expression(m, self, x, self.type)
      [] m = "case" -> Expression(m, self, x, NoType)
      [] OTHER -> Query(m, self, x)
like(self, x, case_sensitive, escape) == [Query(IF case_sensitive THEN "like" ELSE "ilike", self, x) EXCEPT !.opt = escape]
startswith(self, x) == Query("startswith", self, x)
endswith(self, x) == Query("endswith", self, x)
_not(q) == IF q.op = "_not" THEN q.first ELSE Query("_not", q, None)
Both(p, q) == Query("_and", p, q)
Either(p, q) == Query("_or", p, q)

(* contains of a list is one query for each of its items that is not empty.   *)
contains1(self, x, case_sensitive) == [Query("contains", self, x) EXCEPT !.opt = Bool(case_sensitive)]
contains(self, x, every, case_sensitive) ==
    LET texts == SelectSeq(x.items, LAMBDA v : StrOf(v) # Str(""))
        subqueries == [i \in DOMAIN texts |-> contains1(self, StrOf(texts[i]), case_sensitive)]
    IN CASE x.k # "list" -> contains1(self, x, case_sensitive)
         [] texts = <<>> -> contains1(self, Str(""), case_sensitive)
         [] OTHER -> FoldLeft(LAMBDA p, q : IF every THEN Both(p, q) ELSE Either(p, q), Head(subqueries), Tail(subqueries))

(* belongs sorts its values: None among others cannot be sorted.              *)
belongs(self, values, null) ==
    LET others == SelectSeq(values, LAMBDA v : v # None)
    IN CASE Len(values) > 1 /\ others # values -> Err
         [] null /\ others # values -> Ok(Either(Query("eq", self, None), Query("belongs", self, List(others))))
         [] OTHER -> Ok(Query("belongs", self, List(values)))

Position(self, start) == IF start < 0 THEN Sql("-", <<Sql("LENGTH", <<Expand(self, NoType)>>), Lit(Num(-start - 1))>>)
                         ELSE Lit(Num(start + 1))
(* self[start:stop]; a stop of None is the end.                               *)
Minus(a, b) == Raw(Sql("-", <<a, b>>))
Slice(self, start, stop, pos0, len) ==
    LET length == CASE stop = None -> len
                    [] stop.n < 0 -> Minus(Minus(Expand(len, NoType), Lit(Num(-stop.n - 1))).sql, pos0)
                    [] OTHER -> Minus(Lit(Num(stop.n + 1)), pos0)
    IN Expression("substring", self, List(<<IF start < 0 THEN Raw(pos0) ELSE pos0.v, length>>), self.type)
__getitem__(self, start, stop) == Slice(self, start, stop, Position(self, start), Method("length", self, None))

-------------------------------------------------------------------------------
(* What SQL says of a row: three-valued, NULL is None, truth is 1 or 0.       *)
RECURSIVE Like(_, _, _)
Like(s, p, e) ==
    LET c == SubSeq(p, 1, 1)  rest == SubSeq(p, 2, Len(p))  more == SubSeq(s, 2, Len(s))
    IN CASE p = "" -> s = ""
         [] c = e -> rest # "" /\ s # "" /\ SubSeq(s, 1, 1) = SubSeq(rest, 1, 1) /\ Like(more, SubSeq(rest, 2, Len(rest)), e)
         [] c = "%" -> Like(s, rest, e) \/ (s # "" /\ Like(more, p, e))
         [] OTHER -> s # "" /\ c \in {"_", SubSeq(s, 1, 1)} /\ Like(more, rest, e)
(* SUBSTR of SQLite, where a position may lie outside the text.               *)
Substr(s, at, count) ==
    LET from == IF at < 0 THEN Len(s) + at ELSE IF at > 0 THEN at - 1 ELSE 0
        take == IF at = 0 /\ count > 0 THEN count - 1 ELSE count
        lo == IF take < 0 THEN from + take ELSE from
        hi == IF take < 0 THEN from ELSE from + take
        least(x) == IF x < 0 THEN 0 ELSE IF x > Len(s) THEN Len(s) ELSE x
    IN SubSeq(s, least(lo) + 1, least(hi))
AsTruth(b) == Num(IF b THEN 1 ELSE 0)

RECURSIVE Eval(_, _)
Eval(t, row) ==
    LET x == [i \in DOMAIN t.args |-> Eval(t.args[i], row)]
        some(v) == \E i \in DOMAIN x : x[i] = v
    IN CASE t.sql = "literal" -> t.v
         [] t.sql = "column" -> row[t.v.s]
         [] t.sql = "FALSE" -> Num(0)
         [] t.sql = "AND" -> IF some(Num(0)) THEN Num(0) ELSE IF some(None) THEN None ELSE Num(1)
         [] t.sql = "OR" -> IF some(Num(1)) THEN Num(1) ELSE IF some(None) THEN None ELSE Num(0)
         [] t.sql = "IS NULL" -> AsTruth(x[1] = None)
         [] t.sql = "IS NOT NULL" -> AsTruth(x[1] # None)
         [] t.sql = "IN" /\ x[1] # None /\ \E i \in 2..Len(x) : x[i] = x[1] -> Num(1)
         [] some(None) -> None
         [] t.sql = "IN" -> Num(0)
         [] t.sql = "NOT" -> AsTruth(x[1] = Num(0))
         [] t.sql = "=" -> AsTruth(x[1] = x[2])
         [] t.sql = "<>" -> AsTruth(x[1] # x[2])
         [] t.sql = "<" -> AsTruth(x[1].n < x[2].n)
         [] t.sql = "<=" -> AsTruth(x[1].n <= x[2].n)
         [] t.sql = ">" -> AsTruth(x[1].n > x[2].n)
         [] t.sql = ">=" -> AsTruth(x[1].n >= x[2].n)
         [] t.sql = "LIKE" -> AsTruth(Like(x[1].s, x[2].s, x[3].s))
         [] t.sql = "LOWER" -> Lowered(x[1])
         [] t.sql = "LENGTH" -> Num(Len(x[1].s))
         [] t.sql = "SUBSTR" -> Str(Substr(x[1].s, x[2].n, x[3].n))
         [] t.sql = "-" -> Num(x[1].n - x[2].n)
         [] t.sql = "+" -> Num(x[1].n + x[2].n)
RECURSIVE Slots(_)
Slots(t) == IF t = Slot THEN 1 ELSE FoldLeft(LAMBDA n, a : n + Slots(a), 0, t.args)
(* A driver puts the parameters where the placeholders are, left to right.    *)
RECURSIVE WithParams(_, _)
WithParams(t, params) ==
    LET before(i) == FoldLeft(LAMBDA n, a : n + Slots(a), 0, SubSeq(t.args, 1, i - 1))
    IN IF t = Slot THEN Lit(params[1])
       ELSE [t EXCEPT !.args = [i \in DOMAIN t.args |-> WithParams(t.args[i], SubSeq(params, before(i) + 1, Len(params)))]]
Bound(r) == WithParams(r.sql, r.params)
Executed(q) == Bound(Rendered(q, TRUE))

(* Whether a row of a name, an age and tags is selected.                      *)
Selected(q, n, a, items) == Eval(Executed(q), [name |-> n, age |-> a, tags |-> Str(bar_encode(items))])

name == Field("name", "string")
age == Field("age", "integer")
tags == Field("tags", "list:string")

BuildQuery == \E q \in SomeQueries : Ask("query", q, Ok(Rendered(q, TRUE)))
SearchTerm ==
    \E op \in {"startswith", "endswith", "contains"}, term \in SomeTerms, cs \in BOOLEAN, n \in SomeNames :
       Ask("term", [op |-> op, term |-> term, cs |-> cs, name |-> n],
           Selected(IF op = "contains" THEN contains(name, Str(term), FALSE, cs) ELSE Query(op, name, Str(term)), n, None, <<>>))
SearchItems ==
    \E terms \in BoundedSeq(SomeTerms, 2), every \in BOOLEAN, items \in SomeTags :
       Ask("items", [terms |-> terms, every |-> every, tags |-> items],
           Selected(contains(tags, List([i \in DOMAIN terms |-> Str(terms[i])]), every, TRUE), None, None, items))
AskMembership ==
    \E values \in BoundedSeq(SomeAges, 2), null \in BOOLEAN, a \in SomeAges :
       LET q == belongs(age, values, null)
       IN Ask("belongs", [values |-> values, null |-> null, age |-> a],
              IF q.error THEN Err ELSE Ok(<<Selected(q.value, None, a, <<>>), Selected(_not(q.value), None, a, <<>>)>>))
SliceText ==
    \E from \in Bounds \ {None}, to \in Bounds, n \in SomeNames :
       Ask("slice", [from |-> from.n, to |-> to, s |-> n], Selected(__getitem__(name, from.n, to), n, None, <<>>))

-------------------------------------------------------------------------------
(* Without parameters the compiler writes what the dialect writes. (Where a   *)
(* text is compared or joined with a column of another type only the dialect  *)
(* casts it, and where the pattern of a LIKE is an expression it writes None   *)
(* for the escape.)                                                           *)
RECURSIVE Uses(_, _)
Uses(t, op) == t.sql = op \/ \E i \in DOMAIN t.args : Uses(t.args[i], op)
RECURSIVE NoEscape(_)
NoEscape(q) ==
    /\ q.k = "expr"
    /\ (q.op \in {"like", "ilike"} /\ IsBuilt(q.second) /\ q.opt = None) \/ NoEscape(q.first) \/ NoEscape(q.second)
InlineIsLegacy ==
    asked.of = "query" =>
        LET legacy == Expand(asked.x, NoType)
        IN Uses(legacy, "CAST AS TEXT") \/ NoEscape(asked.x) \/ Rendered(asked.x, FALSE) = Made(legacy, <<>>)

(* Every parameter takes the place of the literal it stands for. (Not when an *)
(* expression with parameters of its own is looked for among others.)         *)
ParametersInOrder ==
    asked.of = "query" => Executed(asked.x) = Rendered(asked.x, FALSE).sql
BoundLeftOfIn(q) == q.op = "belongs" /\ Slots(Visit(to_ast(q.first, NoType), TRUE).sql) > 0
ParametersInPlace == (asked.of = "query" /\ ~BoundLeftOfIn(asked.x)) => ParametersInOrder

(* startswith, endswith and contains look for the term itself, whatever       *)
(* wildcards it holds; contains for its letters of either case, by default.   *)
Folded(s, cs) == IF cs THEN s ELSE Lowered(Str(s)).s
At(s, i, t) == i + Len(t) - 1 <= Len(s) /\ SubSeq(s, i, i + Len(t) - 1) = t
WildcardsAreLiteral ==
    asked.of = "term" /\ asked.x.name # None =>
        LET op == asked.x.op
            s == Folded(asked.x.name.s, asked.x.cs \/ op # "contains")
            t == Folded(asked.x.term, asked.x.cs \/ op # "contains")
        IN answer = AsTruth(CASE op = "startswith" -> At(s, 1, t)
                              [] op = "endswith" -> Len(t) <= Len(s) /\ At(s, Len(s) - Len(t) + 1, t)
                              [] OTHER -> \E i \in 1..(Len(s) + 1) : At(s, i, t))

(* contains of a list finds an item of a list field, or all of them, as long  *)
(* as no item holds a bar.                                                    *)
ItemsAreFound ==
    LET row == asked.x.tags
        wanted == {t \in Range(asked.x.terms) : t # ""}
    IN asked.of = "items" /\ wanted # {} /\ (\A item \in Range(row) : \A i \in 1..Len(item) : SubSeq(item, i, i) # "|") =>
          answer = AsTruth(IF asked.x.every THEN wanted \subseteq Range(row) ELSE wanted \cap Range(row) # {})

(* belongs is membership, its negation is not; NULL belongs to nothing, and   *)
(* where null is asked for it belongs. Only of an empty list a NULL is in the *)
(* negation. (None among other values cannot be sorted.)                      *)
BelongsIsMembership ==
    asked.of = "belongs" /\ ~answer.error =>
        LET v == asked.x.age  values == Range(asked.x.values)
            in == v \in values /\ (v = None => asked.x.null)
        IN /\ (answer.value[1] = Num(1)) = in
           /\ answer.value[2] = Num(1) => ~in /\ (v # None \/ Range(asked.x.values) \ {None} = {})
           /\ v # None /\ None \notin values => answer.value[2] = AsTruth(~in)

(* A slice that lies inside the text is that of Python.                       *)
SlicesAsInPython ==
    asked.of = "slice" /\ asked.x.s # None =>
        LET s == asked.x.s.s
            at(i) == IF i < 0 THEN Len(s) + i ELSE i
            from == at(asked.x.from)
            to == IF asked.x.to = None THEN Len(s) ELSE at(asked.x.to.n)
        IN 0 <= from /\ from <= to /\ to <= Len(s) => answer = Str(SubSeq(s, from + 1, to))
===============================================================================
