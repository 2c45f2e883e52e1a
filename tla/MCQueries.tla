------------------------------ MODULE MCQueries -------------------------------
(* The modules about tables, values, queries and what is kept beside tables,  *)
(* checked together over bounded inputs.                                      *)
EXTENDS KeptCalls, Definitions, Selects, RowSets, RowAccess, QueryTexts, QueryDicts, TableFields, RestPatterns, Tags, StoredFiles

SomeTypes == {"integer", "string", "json", "boolean", "double", "date", "time", "datetime", "reference",
              "list:string", "list:integer"}
Scalars == {None, Num(0), Num(5), Float(1), Float(10), Bool(TRUE), Bool(FALSE)}
           \cup {Str(s) : s \in {"", " ", "0", "5", "x", "T", "Fx"}}
Items == {Str(s) : s \in {"", "5", "x", "|", "|x", "x|", "x|x", "x||x", "||"}} \cup {Num(5), None}
Times == {<<10>>, <<10, 20>>, <<10, 20, 30>>}
SomePyValues ==
    Scalars \cup {List(s) : s \in BoundedSeq(Items, 3)}
    \cup {[k |-> "date", d |-> 1]} \cup {[k |-> "time", t |-> <<10, 20, 30>>, us |-> u] : u \in BOOLEAN}
    \cup {[k |-> "datetime", d |-> 1, t |-> <<10, 20, 30>>, us |-> u] : u \in BOOLEAN}
    \cup {Stamp(d, t, FALSE) : d \in {0, 1}, t \in Times} \cup {Stamp(1, <<>>, FALSE), Stamp(1, <<10, 20, 30>>, TRUE)}

(* Expressions over a table of a name, an age and tags.                       *)
Texts == {name, Method("lower", name, None), Method("add", name, Str("x")), Method("coalesce", name, List(<<Str("y"), Str("z")>>)),
          Method("replace", name, List(<<Str("a"), Str("b")>>)), __getitem__(name, 1, Num(2)), __getitem__(name, -2, None),
          Method("case", Query("gt", age, Num(1)), List(<<Str("y"), Str("n")>>)), Method("add", name, age)}
Numbers == {age, Method("add", age, Num(7)), Method("coalesce_zero", age, None), Method("length", name, None), Method("sub", age, Num(3)),
            Method("mod", age, Num(2)), Method("MAX", age, None), Method("year", born, None)}
TestsOf(texts, numbers) ==
    {Query(op, e, v) : op \in {"eq", "lt"}, e \in texts, v \in {Str("A"), None, name}}
         \cup {Query(op, e, v) : op \in {"ne", "gte"}, e \in numbers, v \in {Num(4), age}}
         \cup {q.value : q \in {belongs(e, vs, FALSE) : e \in numbers, vs \in {<<>>, <<Num(1)>>, <<Num(1), Num(2)>>}}}
         \cup {like(e, v, cs, esc) : e \in texts, v \in {Str("a\\%"), Str("A_"), name}, cs \in BOOLEAN, esc \in {Str("!")}}
         \cup {like(e, Str("a\\%"), cs, None) : e \in texts, cs \in BOOLEAN}
         \cup {startswith(e, v) : e \in texts, v \in {Str("a%"), name}} \cup {endswith(name, v) : v \in {Str("_"), name}}
         \cup {contains(e, List(<<Str("a"), Str("%|")>>), b, ~b) : e \in {name, tags}, b \in BOOLEAN}
         \cup {contains(e, name, FALSE, b) : e \in {name, tags}, b \in BOOLEAN}
Tests == TestsOf(Texts, Numbers)
FewTests == {Query("lt", Method("add", age, Num(7)), Num(4)), startswith(name, Str("a%")), Query("eq", name, None), like(name, name, TRUE, None),
             Query("belongs", age, List(<<Num(1), Num(2)>>))}
MCSomeQueries == {q \in Tests : q.op # "lt" \/ q.second # None}
                 \cup {Both(p, q) : p, q \in FewTests} \cup {_not(Either(p, _not(q))) : p, q \in FewTests}
MCSomeTerms == {"", "a", "A", "%", "_", "\\", "a%", "_a", "\\%", "|", "a|a"}
MCSomeNames == {None} \cup {Str(s) : s \in {"", "a", "A", "aA", "%a", "a%", "a_A", "\\", "\\%", "aaa%"}}
MCSomeTags == BoundedSeq({"a", "A", "%", "a%", "|a", "a|a", "\\"}, 2)
MCSomeAges == {None, Num(1), Num(2), Num(3)}
MCBounds == {None} \cup {Num(i) : i \in -4..4}

(* Tables a and b have a common filter; a2 is an alias of a.                 *)
MCdalname == [t \in {"a", "a2", "b", "c"} |-> IF t = "a2" THEN "a" ELSE t]
R(id, ref, mine) == [id |-> id, ref |-> ref, mine |-> mine]
MCContents == [a |-> {R(1, 1, TRUE), R(2, 1, FALSE), R(3, 0, TRUE)}, b |-> {R(1, 1, TRUE), R(2, 1, TRUE), R(3, 3, FALSE)},
               c |-> {R(1, 3, TRUE), R(2, 2, TRUE)}]
MCFiltered == {"a", "b"}
SubSets == {TheSet({Is("a2", 0), Is("b", 1)}, FALSE), TheSet({Is("c", 2)}, FALSE), TheSet({Refers("b", "a")}, FALSE), TheSet({Is("a", 1)}, FALSE), TheSet({Is("b", 1)}, FALSE)}
FlatSubselects == {[set |-> s, of |-> CHOOSE t \in {"a", "b", "c"} : \E a \in s.atoms : a.t = t] : s \in SubSets}
MCSubselects == FlatSubselects \cup {[set |-> TheSet({In("c", sub)}, FALSE), of |-> "c"] : sub \in {f \in FlatSubselects : Cardinality(f.set.atoms) = 2 \/ f.set.atoms = {Refers("b", "a")}}}
MCSets == {where(TheSet({}, ~i), atoms, i) : i \in BOOLEAN,
             atoms \in {{Is("a", 1)}, {Is("a", 0)}, {Is("b", 1)}, {Refers("b", "a")}, {Refers("b", "a"), Is("a", 1)}, {Refers("a2", "a")},
                        {Is("a2", 1)}, {Refers("c", "a"), Refers("b", "a")}}
                       \cup {{In("a", sub)} : sub \in MCSubselects} \cup {{Refers("b", "a"), In("a", sub)} : sub \in MCSubselects}
                       \cup {{In("a2", sub)} : sub \in MCSubselects}}
JoinItems == {Plain("c"), [t |-> "b", on |-> {Refers("b", "a")}], [t |-> "c", on |-> {Refers("c", "a")}], [t |-> "c", on |-> {Refers("c", "b")}],
              [t |-> "a2", on |-> {Refers("a", "a2")}]}
MCJoins == {j \in BoundedSeq(JoinItems, 2) : Len(j) < 2 \/ j[1].t # j[2].t}
MCFieldLists == {{}, {"a"}, {"a", "b"}}

(* Rows of few records, and files of two tables of at most two rows.          *)
Rec(id, parent, n) == [id |-> id, parent |-> parent, n |-> n]
MCRowLists == BoundedSeq({Rec(1, 2, 1), Rec(2, 0, 1), Rec(3, 1, 0), Rec(2, 3, 2), Rec(4, 9, 1)}, 3)
MCPasses == BoundedSeq({"first", "all", "0", "1"}, 3)
Line(id, ref) == [id |-> id, ref |-> ref, uuid |-> id]
PLines == {<<>>, <<Line(2, 0)>>, <<Line(1, 1), Line(4, 1)>>, <<Line(2, 4), Line(4, 2)>>}
MCFiles == {[tables |-> [t \in {"p", "d"} |-> IF t = "p" THEN p ELSE d], order |-> o, before |-> b, mapped |-> m, unique |-> u] :
              p \in PLines, d \in {<<Line(1, 2)>>, <<Line(1, 4), Line(3, 1)>>}, o \in {<<"p", "d">>, <<"d", "p">>},
              b \in {0, 3}, m \in BOOLEAN, u \in {"no", "first", "later"}}
MCSelectedColumns ==
    BoundedSeq({FieldColumn("a", "id"), FieldColumn("a", "b"), FieldColumn("b", "id"), FieldColumn("b", "a"), Aliased("", "a"), Aliased("a", "b"), Plainly("COUNT")}, 4)
MCReferencedBy == [t \in {"a", "b"} |-> IF t = "a" THEN <<"b", "a", "c">> ELSE <<"c">>]

(* Texts, put together from predicates, connectives and what is wrong.        *)
Predicates == {<<"age", "==", "1">>, <<"name", "is", "india">>, <<"age", "is", "in", "2", ",", "1">>, <<"name", "starts", "with", "\"x )\"">>,
   <<"age", "is", "less", "or", "equal", "than", "2">>, <<"age", "is", "not", "null">>, <<"name", "lower", "==", "x">>, <<"age", "is", "in", "2">>,
   <<"age", "is", "not", "equal", "1">>, <<"tags", "contains", "x">>, <<"flag", "is", "true">>, <<"name", "is", "x">>, <<"age", "in", "x">>}
Pieces == Predicates \cup {<<"not">>, <<"and">>, <<"or">>, <<"(">>, <<")">>, <<"age">>, <<"<">>, <<"1">>}
FewPredicates == {<<"age", "==", "1">>, <<"age", "is", "in", "2">>}
Connectors == {<<"and">>, <<"or">>, <<"and", "not">>, <<"or", "not">>}
MCTexts == {p \o q \o r : p, q \in Pieces \cup {<<>>}, r \in {<<>>, <<"age", "==", "1">>, <<")">>, <<",", "2">>, <<"1">>}}
   \cup UNION {{p \o c \o q \o d \o r, <<"(">> \o p \o c \o q \o <<")">> \o d \o r, p \o c \o <<"(">> \o q \o d \o r \o <<")">>,
                <<"not", "(">> \o p \o c \o <<"not", "(">> \o q \o <<")">> \o d \o r \o <<")">>} : p, q, r \in FewPredicates, c, d \in Connectors}

(* Things have a color and are related to each other, some to nothing.        *)
AThing(i, n, c) == [id |-> i, name |-> n, color |-> c]
AColor(i, n, up) == [id |-> i, name |-> n, up |-> up]
MCData == [color |-> {AColor(1, 1, 0), AColor(2, 2, 1), AColor(3, 2, 1)},
  thing |-> {AThing(1, 1, 1), AThing(2, 1, 2), AThing(3, 2, 1), AThing(4, 3, 0)},
  rel |-> {[id |-> 1, a |-> 1, kind |-> 1, b |-> 3], [id |-> 2, a |-> 2, kind |-> 2, b |-> 3], [id |-> 3, a |-> 4, kind |-> 1, b |-> 0], [id |-> 4, a |-> 2, kind |-> 1, b |-> 1]},
  note |-> {[id |-> 1, thing |-> 2], [id |-> 2, thing |-> 1], [id |-> 3, thing |-> 2], [id |-> 4, thing |-> 0]}]
MCRefersTo == (<<"thing", "color">> :> "color") @@ (<<"rel", "a">> :> "thing") @@ (<<"rel", "b">> :> "thing") @@ (<<"color", "up">> :> "color") @@ (<<"note", "thing">> :> "thing")
Conditions == {Filtering(neg, p, c, {v}) : neg \in BOOLEAN, c \in {"eq", "ne", "lt", "gt", "le", "ge"}, v \in {1, 2},
   p \in {<<"name">>, <<"color">>, <<"color", "name">>, <<"a", "rel", "kind">>, <<"b", "rel", "kind">>, <<"a", "rel", "b", "name">>}}
FewFilters == {Filtering(neg, p, c, {1}) : neg \in BOOLEAN, c \in {"eq", "gt"},
   p \in {<<"name">>, <<"color", "name">>, <<"a", "rel", "kind">>, <<"a", "rel", "b", "name">>}}
WrongFilters == {Filtering(FALSE, p, "eq", {1}) : p \in {<<"foo">>, <<"foo", "name">>, <<"name", "name">>, <<"color", "foo">>, <<"a", "foo", "x">>, <<"foo", "rel", "kind">>, <<"a", "rel", "foo">>,
   <<"a", "rel", "foo", "name">>, <<"a", "rel", "kind", "name">>, <<"a", "rel", "b", "foo">>, <<"a", "rel", "b", "name", "x">>}}
FilterSets == {{}} \cup {{f} : f \in Conditions \cup WrongFilters} \cup {{f, g} : f, g \in FewFilters}
   \cup {{Filtering(n, p, "in", S)} : n \in BOOLEAN, S \in {{1}, {1, 2}}, p \in {<<"name">>, <<"color", "name">>}}
Searching(filters, order, offset, limit, lookup, fields) == [filters |-> filters, order |-> order, offset |-> offset, limit |-> limit, lookup |-> lookup, fields |-> fields]
Lookups == {<<"color">>, <<"name">>, <<"foo">>, <<"a", "rel">>, <<"b", "rel">>, <<"a", "foo">>, <<"foo", "rel">>, <<"a", "rel", "b">>, <<"b", "rel", "a">>, <<"a", "rel", "foo">>, <<"a", "rel", "kind">>}
MCSearches == {Searching(F, <<>>, 0, <<4>>, <<>>, {}) : F \in FilterSets}
   \cup {Searching(F, o, n, l, <<>>, {}) : F \in {{}, {Filtering(FALSE, <<"color">>, "eq", {1})}}, o \in {<<>>, <<"name">>, <<"foo">>, <<"foo", "color", "id">>, <<"color", "name">>}, n \in 0..4, l \in {<<>>} \cup {<<m>> : m \in -1..5}}
   \cup {Searching(F, <<>>, 0, <<4>>, k, f) : F \in {{}, {Filtering(FALSE, <<"name">>, "eq", {1})}, {Filtering(FALSE, <<"name">>, "eq", {3})}}, k \in Lookups, f \in {{}, {"id"}}}
Bodies == {<<>>} \cup {[f \in S |-> v] : v \in {1, 2, 9}, S \in (SUBSET {"name", "color", "id"}) \ {{}}} \cup {[foo |-> 1]}
MCChanges == [method : {"POST", "PUT", "DELETE"}, id : {0, 1, 4, 9}, body : Bodies]

(* Patterns of a beginning and two more, and paths with words for their tags. *)
MCNumberOf == ("0" :> 0) @@ ("1" :> 1) @@ ("2" :> 2) @@ ("3" :> 3) @@ ("4" :> 4) @@ ("5" :> 5)
MCFieldOrder == <<"id", "name", "color", "a", "kind", "b", "up", "thing">>
Beginnings == {<<Listing("x", "thing")>>, <<Where("thing", "name", "", FALSE)>>, <<Word("x"), Where("thing", "id", "", FALSE)>>, <<Where("color", "name", "ge", FALSE), Where("color", "id", "lt", TRUE)>>,
   <<Where("rel", "kind", "le", FALSE)>>, <<Where("color", "id", "ne", FALSE)>>, <<Where("thing", "color", "eq", TRUE)>>, <<Where("rel", "b", "gt", FALSE)>>}
GoingOn == {<<>>, <<FieldTag>>, <<Following("x", "note", "thing")>>, <<Following("x", "thing", "color")>>, <<Following("x", "rel", "a")>>, <<Following("x", "rel", "b")>>, <<Following("x", "color", "id")>>, <<Following("x", "thing", "id")>>, <<Following("x", "color", "up")>>,
   <<Listing("x", "thing")>>, <<Listing("x", "color")>>, <<Where("thing", "name", "lt", FALSE)>>, <<Where("color", "id", "not", FALSE)>>, <<Word("x")>>, <<Following("x", "color", "id"), Following("x", "thing", "color")>>}
ArgFor(tag) == IF tag.k = "where" THEN {"1", "2", "x"} ELSE IF tag.k = "field" THEN {"id", "name", "kind", "x"} ELSE {"x"}
RECURSIVE ArgsFor(_)
ArgsFor(ts) == IF ts = <<>> THEN {<<>>} ELSE {<<a>> \o r : a \in ArgFor(ts[1]), r \in ArgsFor(Tail(ts))}
By(f, d) == [field |-> f, down |-> d]
FewTagged == {<<Listing("x", "thing")>>, <<Where("color", "name", "ge", FALSE), Following("x", "thing", "color")>>, <<Where("rel", "kind", "le", FALSE), Following("x", "rel", "b"), Listing("x", "color")>>}
MCPatternLists == {<<Pattern1(s \o t \o u)>> : s \in Beginnings, t, u \in GoingOn}
  \cup {<<[Pattern1(t) EXCEPT !.exposed = e, !.basequery = b], Pattern1(<<Listing("x", "color")>>)>> :
       e \in {{}, {"id", "kind"}}, b \in {<<>>, <<"thing", {r \in MCData["thing"] : r.id < 3}>>, <<"color", {r \in MCData["color"] : r.id < 3}>>}, t \in FewTagged}
MCPathsFor(patterns) == ArgsFor(patterns[1].tags) \cup (IF Len(patterns) = 1 THEN {} ELSE {<<"x">>})
Asking(order, offset, limit, queries, nested) == [order |-> order, offset |-> offset, limit |-> limit, queries |-> queries, nested |-> nested]
MCVars == <<{Asking(<<>>, 0, 0, None1, n) : n \in BOOLEAN},
  {Asking(o, f, l, q, TRUE) : f \in {0, 1, -1}, l \in {0, 2}, o \in {<<>>, <<By("id", TRUE)>>, <<By("kind", TRUE), By("id", FALSE)>>}, q \in {None1, [thing |-> {r \in MCData["thing"] : r.id > 1}]}}>>
MCUnreadable == {<<"rel", "kind">>}

(* Three tables, which may refer to each other and to themselves.             *)
To(t) == [to |-> t, list |-> FALSE, field |-> FALSE]
ToList(t) == [To(t) EXCEPT !.list = TRUE]
ToField(t) == [To(t) EXCEPT !.field = TRUE]
MCDefinitions == [t \in {"a", "b", "c"} |->
   CASE t = "a" -> {<<>>, <<To("b")>>, <<To("a"), To("c")>>}
     [] t = "b" -> {<<To("a")>>, <<ToList("a"), To("c")>>, <<To("b"), ToList("b")>>, <<ToField("a")>>}
     [] t = "c" -> {<<To("a"), To("b")>>}]

MCAttempts == {-1, 0, 1, 2}

(* Tables with an id and a table of two keys, of few records.                 *)
Shape(keys, fields, required) == [keys |-> keys, fields |-> fields, required |-> required]
MCShapes == {Shape({"id"}, {"id", "n", "m"}, {"n"}), Shape({"a", "b"}, {"a", "b", "m"}, {})}
MCTablesOf(shape) ==
    IF Keyed(shape) THEN {{}} \cup SUBSET {[a |-> a, b |-> b, m |-> b - 1] : a, b \in 1..2}
    ELSE {{[id |-> i, n |-> n[i], m |-> m[i]] : i \in 1..k} : k \in 0..2, n \in [1..2 -> 1..2], m \in [1..2 -> 0..1]}
SomeOf(fields) == UNION {[S -> 1..2] : S \in SUBSET fields}
MCKeysOf(shape) ==
    {NoKey} \cup IF Keyed(shape) THEN {Key("dict", v) : v \in SomeOf({"a", "b"}) \ {<<>>}}
    ELSE {Key("word", <<>>)} \cup {Key("id", [id |-> i]) : i \in 1..3} \cup {Key("dict", v) : v \in SomeOf({"n", "id"}) \ {<<>>}}
         \cup {Key("query", v) : v \in SomeOf({"n", "m"}) \ {<<>>}}
MCWrittenOf(shape) == SomeOf(shape.fields) \cup IF Keyed(shape) THEN {[a |-> 1, b |-> 2, m |-> 9]} ELSE {[n |-> 9], [n |-> 9, m |-> 1], [n |-> 1, m |-> 0]}
MCDemands(shape) == SomeOf(shape.fields)

(* Tags of up to two records; names of files, written in codes.               *)
MCTagTexts == {<<>>, <<"a">>, <<"a", "b">>, <<"b", "/">>, <<"/", "a", "/", "b">>, <<"a", "/", "b", "/", "/">>, <<"a", "/", "/", "b">>}
MCTagTables == {S \in SUBSET ({1, 2} \X MCTagTexts) : Cardinality(S) < 3}
MCFileNames == {None2, <<>>, <<97, 46, 112, 121>>, <<47, 120, 47, 97, 46, 98>>, <<99, 58, 92, 97, 98, 46, 103, 122>>, <<107, 109, 116>>,
   <<112, 109, 116>>, <<97, 98, 99>>, <<97, 47>>, <<105, 39, 59, 32, 97, 46, 116, 97, 114, 46, 103, 122>>, <<97, 46, 97, 98, 99, 100, 101, 102>>,
   <<120>>, <<97, 46, 98, 99, 45>>, <<46, 97>>, <<32, 32, 107, 59, 46, 95>>}
MCUploadNames == {None2, <<111, 46, 99>>}
MCUploadFields == {[place |-> p, length |-> n, isattachment |-> a] : p \in {"folder", "separate", "fs", "column", "field"}, n \in {29, 32, 33, 64}, a \in BOOLEAN}
MCRows1 == {Missing, <<1, 10>>}
MCDisks == {Missing, <<10>>}

(* Dictionaries of queries, and arguments of tables.                          *)
N1 == FieldDict(age)
S1 == FieldDict(name)
LeafDicts == {Dict(op, l, r) : op \in {"EQ", "LT", "GE", "eq", "ADD", "x"}, l \in {N1, Num(2), None}, r \in {N1, Num(1), Num(2), None}}
             \cup {Dict(op, S1, Str("a")) : op \in {"EQ", "NE"}}
FewDicts == {Dict("GT", N1, Num(1)), Dict("LE", Num(2), N1), Dict("NE", N1, None), Dict("EQ", Num(1), Num(1)), Dict("x", None, None), Dict("LIKE", S1, Str("a"))}
MoreDicts == FewDicts \cup {Dict("NOT", d, None) : d \in FewDicts \ {Dict("EQ", Num(1), Num(1))}}
MCDicts == LeafDicts \cup MoreDicts \cup {Dict("NOT", d, None) : d \in MoreDicts} \cup {Dict("NOT", None, None)}
           \cup {Dict(op, p, q) : op \in {"AND", "OR", "EQ", "LT"}, p \in MoreDicts \cup {N1, Num(1)}, q \in MoreDicts \cup {N1, None}}
MCDictQueries == {q \in MCSomeQueries : \A v \in {q.first, q.second} : v.k # "raw"}
   \cup {Query("lt", age, v) : v \in {Decimal, [k |-> "date", d |-> 1]}} \cup {_not(Query("eq", age, Num(i))) : i \in 1..3}
Wide(n, type, blob, h) == [FieldOf(n, type) EXCEPT !.blob = blob, !.hidden = h]
AField(n) == FieldOf(n, "string")
Capital == [AField("A") EXCEPT !.lower = "a"]
MCArguments == {Single(AField("a")), Single(FieldOf("a", "integer")), Single(Capital), Single(AField("id")), Single(FieldOf("i", "id")), Single(Wide("id", "id", "", TRUE)), AsDict1(AField("a")),
   AsDict1(FieldOf("i", "id")), Several(<<AField("a"), AField("b")>>), Several(<<FieldOf("id", "id")>>), OfTable(<<AutoId, AField("a"), AField("c")>>),
   Single(Wide("u", "upload", "yes", FALSE)), Single(Wide("v", "upload", "w", FALSE)), AsDict1(Wide("x", "upload", "w", FALSE)), Single(Wide("w", "blob", "yes", FALSE)), Single(Wide("h", "string", "", TRUE))}
MCGivenFields == BoundedSeq(MCArguments, 3)
MCGivenKeys == {<<>>, <<"a">>, <<"a", "b">>}
MCDescriptions == BoundedSeq({"a", "b"}, 3)
MCGivenColumns == {[fields |-> f, colnames |-> c] :
   f \in BoundedSeq({FieldColumn("a", "b"), FieldColumn("b", "a"), Plainly("a")}, 2), c \in BoundedSeq({FieldColumn("a", "b"), FieldColumn("b", "a"), Plainly("a"), Plainly("b")}, 3)}
   \ {[fields |-> f, colnames |-> <<>>] : f \in {<<Plainly("a")>>} \cup ({FieldColumn("a", "b"), FieldColumn("b", "a"), Plainly("a")} \X {Plainly("a")}) \cup ({Plainly("a")} \X {FieldColumn("a", "b"), FieldColumn("b", "a")})}

Init == Idle
Next ==
    \/ Connect \/ DefineTable \/ UseTable \/ AliasTable \/ CommitAliases
    \/ Keep
    \/ Waiting /\ BuildQuery
    \/ Waiting /\ SearchTerm
    \/ Waiting /\ SearchItems
    \/ Waiting /\ AskMembership
    \/ Waiting /\ SliceText
    \/ Waiting /\ SelectRows
    \/ Waiting /\ CountOrUpdate
    \/ Waiting /\ CombineRows
    \/ Waiting /\ FindRows
    \/ Waiting /\ ArrangeRows
    \/ Waiting /\ PassRows
    \/ Waiting /\ CsvValue
    \/ Waiting /\ CsvTables
    \/ Waiting /\ ReadRow
    \/ Waiting /\ ReadText
    \/ Waiting /\ WriteDict
    \/ Waiting /\ BuildDict
    \/ Waiting /\ ExecuteSql
    \/ Waiting /\ MakeTable
    \/ Waiting /\ Search
    \/ Waiting /\ Change
    \/ Waiting /\ FollowPath
    \/ Waiting /\ AutoPath
    \/ Waiting /\ TagRecord
    \/ Waiting /\ StoreAndRetrieve
Spec == Init /\ [][Next]_calls

-------------------------------------------------------------------------------
(* A value is the same stored once or again, and in whatever database or CSV  *)
(* file it is kept, as far as it is of the column's type; a tag and a file    *)
(* that was uploaded come back as they were given: the represents and         *)
(* parsers, fix, Tags, store and retrieve.                                    *)
ValuesAreKept ==
    /\ ReadAndStoredAgain /\ OwnValuesSurvive /\ BackendsAgree /\ ValuesComeBack
    /\ TagsAreFound /\ TagsAreKept /\ FilesComeBack

(* What the AST compiles to means the same with parameters in their places,   *)
(* with literals, and as what expand has always written.                      *)
InlineAsBound == InlineIsLegacy /\ ParametersInPlace

(* Terms are looked for literally and items whole, membership and slices mean *)
(* what they mean in Python: like, contains, belongs, __getitem__.            *)
SearchedAsInPython == WildcardsAreLiteral /\ ItemsAreFound /\ BelongsIsMembership /\ SlicesAsInPython

(* Rows combined, searched, paged, grouped, put in trees, iterated, or        *)
(* exported and imported with the references between them are those rows,     *)
(* once each, and their columns are found by name.                            *)
RowsAreKept ==
    /\ StatementsAreRead /\ RowsCombine /\ FoundAndExcluded /\ TreesHoldEveryRow /\ GroupsHoldEveryRow
    /\ IteratesAsRows /\ ColumnsAreFound /\ ReferencesFollow /\ ImportedOnce

(* A query written as text is read as the grammar says, by smart_query as by  *)
(* QueryBuilder; as a dictionary it is built into the query it says.          *)
TextsAreRead == GrammarIsRead /\ SmartAgrees /\ DictsAreQueries /\ BuiltAsSaid

(* What is asked by operators, as a text or as a dictionary is what Python,   *)
(* the grammar or the dictionary says.                                        *)
QueriesAreRead == SearchedAsInPython /\ TextsAreRead

(* A request, and a path of parse_as_rest, is answered with the records its   *)
(* filters describe, once each over the pages, nested or not; a change is     *)
(* answered with what became of it.                                           *)
RequestsAreAnswered ==
    /\ FiltersAreMet /\ PagesMakeAll /\ LookupsAsFilters /\ ChangesAsAnswered
    /\ NestedOrNot /\ CountedAreListed /\ DownAndUp /\ AutoFindsEach

(* A table has the fields it is given, and tables know who refers to them, in *)
(* whatever order they were defined, lazily or not.                           *)
DefinitionsHold == FieldsAreKept /\ DefinedAgain /\ ReferencesKnown /\ DefinedIsUsable /\ SameByEitherName
===============================================================================
