------------------------------ MODULE QueryTexts -------------------------------
(* Queries written as text: QueryBuilder, and the older smart_query. A text   *)
(* is the sequence of its words; brackets, commas and whatever stands between *)
(* quotes are words of their own.                                             *)
EXTENDS Expressions

CONSTANT SomeTexts

flag == Field("flag", "boolean")
FieldNamed == ("name" :> name) @@ ("age" :> age) @@ ("tags" :> tags) @@ ("flag" :> flag)
AllRows == Query("gt", Field("id", "id"), Num(0))
Drop(s, n) == SubSeq(s, n + 1, Len(s))
IsQuoted(w) == SubSeq(w, 1, 1) = "\""
Unquoted(w) == SubSeq(w, 2, Len(w) - 1)
BeginsWith(w, p) == Len(p) <= Len(w) /\ SubSeq(w, 1, Len(p)) = p
(* The longest beginning of a word without any of these characters.           *)
Until(w, chars) ==
    LET free(n) == \A i \in 1..n : SubSeq(w, i, i) \notin chars
    IN SubSeq(w, 1, CHOOSE n \in 0..Len(w) : free(n) /\ (n = Len(w) \/ ~free(n + 1)))

-------------------------------------------------------------------------------
(* The vocabulary: what is written, and the token it stands for.              *)
tokens_not == {<<"not">>}
tokens_and_or == {<<"and">>, <<"or">>}
tokens_ops == {<<"upper">>, <<"lower">>, <<"is", "null">>, <<"is", "not", "null">>, <<"is", "true">>, <<"is", "false">>,
               <<"==">>, <<"!=">>, <<"<">>, <<">">>, <<"<=">>, <<">=">>, <<"belongs">>, <<"contains">>, <<"startswith">>}
Compared(op, phrases) == [p \in {<<"is">> \o q : q \in phrases} |-> <<op>>]
default_token_aliases ==
    Compared("==", {<<>>, <<"equal">>, <<"equal", "to">>}) @@ Compared("!=", {<<"not", "equal">>, <<"not", "equal", "to">>})
    @@ Compared("<", {<<"less">>, <<"less", "than">>}) @@ Compared(">", {<<"greater">>, <<"greater", "than">>})
    @@ Compared("<=", {<<"less", "or", "equal">>, <<"less", "or", "equal", "than">>, <<"equal", "or", "less">>, <<"equal", "or", "less", "than">>})
    @@ Compared(">=", {<<"greater", "or", "equal">>, <<"greater", "or", "equal", "than">>, <<"equal", "or", "greater">>, <<"equal", "or", "greater", "than">>})
    @@ Compared("belongs", {<<"in">>}) @@ (<<"in">> :> <<"belongs">>) @@ (<<"starts", "with">> :> <<"startswith">>)
_augment(aliases, original) ==
    [p \in original \cup {a \in DOMAIN aliases : aliases[a] \in original} |-> IF p \in original THEN p ELSE aliases[p]]
Ops == _augment(default_token_aliases, tokens_ops)
AndOr == _augment(default_token_aliases, tokens_and_or)
Not == _augment(default_token_aliases, tokens_not)

(* A phrase need only begin the word it ends in: "is in" begins "is india".   *)
Matches(phrase, words) ==
    LET n == Len(phrase)
    IN n <= Len(words) /\ SubSeq(words, 1, n - 1) = SubSeq(phrase, 1, n - 1) /\ BeginsWith(words[n], phrase[n])
After(phrase, words) ==
    LET n == Len(phrase)  left == Drop(words[n], Len(phrase[n]))
    IN (IF left = "" THEN <<>> ELSE <<left>>) \o Drop(words, n)
Longer(p, q) == Len(p) > Len(q) \/ (Len(p) = Len(q) /\ Len(Last(p)) > Len(Last(q)))
Taken(token, rest) == [token |-> token, rest |-> rest]
Nothing == [token |-> "", rest |-> <<>>]
(* The longest operator the text begins with.                                 *)
re_op(words) ==
    LET found == {p \in DOMAIN Ops : Matches(p, words)}
        best == CHOOSE p \in found : \A q \in found : p = q \/ Longer(p, q)
    IN IF found = {} THEN Err ELSE Ok(Taken(Ops[best], After(best, words)))
Symbols == {"=", "!", "<", ">", ",", "(", ")", "\"", "#"}
re_token(words) ==
    LET t == Until(words[1], Symbols)
    IN IF words = <<>> THEN Err ELSE IF t = "" THEN Err ELSE Ok(Taken(t, After(<<t>>, words)))
re_value(words) ==
    LET t == Until(words[1], {"\"", ","})
    IN CASE words = <<>> -> Err
         [] IsQuoted(words[1]) -> Ok(Taken(Unquoted(words[1]), Tail(words)))
         [] OTHER -> Ok(Taken(t, After(<<t>>, words)))

(* A number for a field of numbers.                                           *)
IsNumber(s) == s # "" /\ \A i \in 1..Len(s) : SubSeq(s, i, i) \in {"0", "1", "2"}
Invalid(field, value) == field.type = "integer" /\ ~IsNumber(value)

-------------------------------------------------------------------------------
(* QueryBuilder.parse.                                                        *)
_find_closing_bracket(words) ==
    LET count(i, w) == Cardinality({j \in 1..i : words[j] = w})
        closing == {i \in DOMAIN words : count(i, "(") = count(i, ")")}
    IN IF closing = {} THEN 0 ELSE Min(closing)

RECURSIVE ValuesOf(_, _)
(* More values of a belongs, each after a comma.                              *)
Another(field, values, v) ==
    IF v.error THEN Err ELSE IF Invalid(field, v.value.token) THEN Err
    ELSE ValuesOf(field, Taken(Append(values, Str(v.value.token)), v.value.rest))
ValuesOf(field, r) ==
    IF Len(r.rest) = 0 THEN Ok(r) ELSE IF ~BeginsWith(r.rest[1], ",") THEN Ok(r)
    ELSE Another(field, r.token, re_value(Drop(r.rest, 1)))

Comparison == ("==" :> "eq") @@ ("!=" :> "ne") @@ ("<" :> "lt") @@ (">" :> "gt") @@ ("<=" :> "lte") @@ (">=" :> "gte")
Among(field, many) == IF many.error THEN Err ELSE Ok(Taken(belongs(field, many.value.token, FALSE).value, many.value.rest))
OfValue(field, op, v) ==
    LET value == v.value.token
        made(q) == Ok(Taken(q, v.value.rest))
    IN CASE v.error -> Err
         [] Invalid(field, value) -> Err
         [] op \in DOMAIN Comparison -> made(Query(Comparison[op], field, Str(value)))
         [] op = "contains" /\ field.type \in {"string", "list:string"} -> made(contains(field, Str(value), FALSE, FALSE))
         [] op = "startswith" /\ field.type = "string" -> made(startswith(field, Str(value)))
         [] op = "belongs" -> Among(field, ValuesOf(field, Taken(<<Str(value)>>, v.value.rest)))
         [] OTHER -> Err
WithValue(field, op, words) == OfValue(field, op, re_value(words))
RECURSIVE Spelled(_)
Spelled(token) == IF Len(token) = 1 THEN token[1] ELSE token[1] \o " " \o Spelled(Tail(token))
Tested(field, op, words) ==
    LET t == Spelled(op)
    IN CASE t = "is null" -> Ok(Taken(Query("eq", field, None), words))
         [] t = "is not null" -> Ok(Taken(Query("ne", field, None), words))
         [] t \in {"is true", "is false"} /\ field.type = "boolean" -> Ok(Taken(Query("eq", field, Bool(t = "is true")), words))
         [] OTHER -> WithValue(field, t, words)
OfOperator(field, op) == IF op.error THEN Err ELSE Tested(field, op.value.token, op.value.rest)
(* A field of text may be taken in one case first.                            *)
OfField(field, op) ==
    IF ~op.error /\ field.type = "string" /\ op.value.token \in {<<"lower">>, <<"upper">>}
    THEN OfOperator(Method(Head(op.value.token), field, None), re_op(op.value.rest))
    ELSE OfOperator(field, op)
OfToken(f) ==
    IF f.error THEN Err ELSE IF f.value.token \notin DOMAIN FieldNamed THEN Err
    ELSE OfField(FieldNamed[f.value.token], re_op(f.value.rest))
PredicateOf(words) == OfToken(re_token(words))

Combined(left, op, q) == IF op = "none" THEN q ELSE IF op = "and" THEN Both(left, q) ELSE Either(left, q)
RECURSIVE ParseQuery(_), ParseFrom(_, _, _)
Within(q, rest) == IF q.error THEN Err ELSE Ok(Taken(q.value, rest))
Bracketed(words, i) == IF i = 0 THEN Err ELSE Within(ParseQuery(SubSeq(words, 2, i - 1)), Drop(words, i))
Unnegated(words) == IF words[1] = "(" THEN Bracketed(words, _find_closing_bracket(words)) ELSE PredicateOf(words)
Negated(a) == IF a.error THEN Err ELSE Ok(Taken(_not(a.value.token), a.value.rest))
AtomOf(words) == IF Len(words) > 1 /\ <<words[1]>> \in DOMAIN Not THEN Negated(Unnegated(Tail(words))) ELSE Unnegated(words)
(* What follows an atom and begins with no word ends the query unread.        *)
GoOn(query, t) ==
    CASE t.error -> Ok(query)
      [] <<t.value.token>> \in DOMAIN AndOr /\ t.value.rest # <<>> -> ParseFrom(t.value.rest, query, Head(AndOr[<<t.value.token>>]))
      [] OTHER -> Err
FromAtom(left, op, a) == IF a.error THEN Err ELSE GoOn(Combined(left, op, a.value.token), re_token(a.value.rest))
ParseFrom(words, left, op) == FromAtom(left, op, AtomOf(words))
ParseQuery(words) == IF words = <<>> THEN Ok(AllRows) ELSE ParseFrom(words, AllRows, "none")

-------------------------------------------------------------------------------
(* smart_query: first the words are replaced, then read one after another.    *)
Phrases == <<
    <<<<"less", "or", "equal", "than">>, "<=">>, <<<<"greater", "or", "equal", "than">>, ">=">>,
    <<<<"equal", "or", "less", "than">>, "<=">>, <<<<"equal", "or", "greater", "than">>, ">=">>,
    <<<<"less", "or", "equal">>, "<=">>, <<<<"greater", "or", "equal">>, ">=">>,
    <<<<"equal", "or", "less">>, "<=">>, <<<<"equal", "or", "greater">>, ">=">>,
    <<<<"not", "equal", "to">>, "!=">>, <<<<"not", "equal">>, "!=">>, <<<<"equal", "to">>, "=">>, <<<<"equal">>, "=">>, <<<<"equals">>, "=">>,
    <<<<"less", "than">>, "<">>, <<<<"greater", "than">>, ">">>, <<<<"starts", "with">>, "startswith">>,
    <<<<"ends", "with">>, "endswith">>, <<<<"not", "in">>, "notbelongs">>, <<<<"in">>, "belongs">>, <<<<"is">>, "=">> >>
Symbol == ("&" :> "and") @@ ("|" :> "or") @@ ("~" :> "not") @@ ("==" :> "=")
IsOperator(w) == w # "" /\ \A i \in 1..Len(w) : SubSeq(w, i, i) \in {"<", ">", "!", "="}
JoinedUp(words) ==
    FoldLeft(LAMBDA r, w : IF r # <<>> /\ IsOperator(w) /\ IsOperator(Last(r)) THEN Append(Front(r), Last(r) \o w) ELSE Append(r, w), <<>>, words)
RECURSIVE Replacing1(_, _)
Replacing1(p, words) ==
    LET n == Len(p[1])
    IN CASE Len(words) < n -> words
         [] SubSeq(words, 1, n) = p[1] -> <<p[2]>> \o Replacing1(p, Drop(words, n))
         [] OTHER -> <<words[1]>> \o Replacing1(p, Tail(words))
WithIs(p) == <<<<"is">> \o p[1], p[2]>>
(* A quoted text stays as it is, and in one piece.                            *)
ReplacedPhrases(words) == FoldLeft(LAMBDA r, p : Replacing1(p, Replacing1(WithIs(p), r)), words, Phrases)
Normal(words) ==
    JoinedUp(ReplacedPhrases([i \in DOMAIN words |->
        IF IsQuoted(words[i]) THEN words[i] ELSE IF words[i] \in DOMAIN Symbol THEN Symbol[words[i]] ELSE Lowered(Str(words[i])).s]))

SmartOps == ("=" :> "eq") @@ ("<" :> "lt") @@ (">" :> "gt") @@ ("<=" :> "lte") @@ (">=" :> "gte") @@ ("!=" :> "ne")
SmartQuery(field, op, item) ==
    LET value == Str(IF IsQuoted(item) THEN Unquoted(item) ELSE item)
        text == field.type = "string"
        among == belongs(field, <<value>>, FALSE).value
    IN CASE op = "=" /\ text /\ ~IsQuoted(item) -> Ok(like(field, value, FALSE, None))
         [] op \in DOMAIN SmartOps -> Ok(Query(SmartOps[op], field, value))
         [] op = "belongs" -> Ok(among)
         [] op = "notbelongs" -> Ok(_not(among))
         [] op = "contains" /\ field.type \in {"string", "list:string"} -> Ok(contains(field, value, FALSE, FALSE))
         [] op = "startswith" /\ text -> Ok(startswith(field, value))
         [] op = "endswith" /\ text -> Ok(endswith(field, value))
         [] OTHER -> Err
FreshTerm(query) == [query |-> query, field |-> None, op |-> "", neg |-> FALSE, logic |-> "", error |-> FALSE]
(* With neither and nor or between them, the query before is all there is.    *)
AddedTo(query, logic, new) ==
    CASE query = None -> new [] logic = "and" -> Both(query, new) [] logic = "or" -> Either(query, new) [] OTHER -> query
Finished(s, made) ==
    IF made.error THEN [s EXCEPT !.error = TRUE]
    ELSE FreshTerm(AddedTo(s.query, s.logic, IF s.neg THEN _not(made.value) ELSE made.value))
Item1(s, item) ==
    CASE s.error -> s
      [] s.field = None /\ item = "not" -> [s EXCEPT !.neg = TRUE]
      [] s.field = None /\ ~s.neg /\ s.logic = "" /\ item \in {"and", "or"} -> [s EXCEPT !.logic = item]
      [] s.field = None /\ item \in DOMAIN FieldNamed -> [s EXCEPT !.field = FieldNamed[item]]
      [] s.field = None -> [s EXCEPT !.error = TRUE]
      [] s.op = "" -> [s EXCEPT !.op = item]
      [] OTHER -> Finished(s, SmartQuery(s.field, s.op, item))
Understood(s) == IF s.error THEN Err ELSE Ok(s.query)
smart_query(words) == Understood(FoldLeft(Item1, FreshTerm(None), Normal(words)))

ReadText == \E words \in SomeTexts : Ask("text", words, [builder |-> ParseQuery(words), smart |-> smart_query(words)])

-------------------------------------------------------------------------------
(* The grammar parse documents, by splitting a text in every way it can be.   *)
RECURSIVE Queries(_)
Fields(words) ==   \* a field, or a text field in one case, and the words it takes
    IF words[1] \notin DOMAIN FieldNamed THEN {}
    ELSE LET f == FieldNamed[words[1]]
         IN {Taken(f, 1)} \cup (IF f.type = "string" /\ Len(words) > 1 /\ words[2] \in {"lower", "upper"} THEN {Taken(Method(words[2], f, None), 2)} ELSE {})
PredicatesIn(words) ==
    {q \in {Tested(f.token, Ops[p], Drop(words, f.rest + Len(p))) : f \in Fields(words), p \in {p \in DOMAIN Ops : \E i \in 1..2 : i + Len(p) <= Len(words) /\ SubSeq(words, i + 1, i + Len(p)) = p}} :
        ~q.error /\ q.value.rest = <<>>}
Bare(words) ==
    IF words = <<>> THEN {}
    ELSE {q.value.token : q \in PredicatesIn(words)}
         \cup (IF words[1] = "(" /\ Len(words) > 1 /\ Last(words) = ")" THEN Queries(SubSeq(words, 2, Len(words) - 1)) ELSE {})
Atoms(words) == Bare(words) \cup IF words # <<>> /\ words[1] = "not" THEN {_not(q) : q \in Bare(Tail(words))} ELSE {}
Queries(words) ==
    (IF words = <<>> THEN {AllRows} ELSE Atoms(words))
    \cup UNION {{Combined(q, words[i], r) : q \in IF i = 1 THEN {} ELSE Queries(SubSeq(words, 1, i - 1)), r \in Atoms(Drop(words, i))} :
                  i \in {i \in DOMAIN words : words[i] \in {"and", "or"}}}

(* QueryBuilder accepts what the grammar derives and reads it as the grammar  *)
(* does, from left to right, in spite of reading operators by the longest     *)
(* phrase. (Not when a value begins as a longer phrase ends, as in "is        *)
(* india", nor when what is left of a text begins with no word.)              *)
Ambiguous(words) ==
    \E i \in DOMAIN words : \E p \in DOMAIN Ops :
       /\ Matches(p, Drop(words, i)) /\ Drop(words, i)[Len(p)] # Last(p)
       /\ \E q \in DOMAIN Ops : Longer(p, q) /\ Matches(q, Drop(words, i))
GrammarIsRead ==
    asked.of = "text" /\ ~Ambiguous(asked.x) =>
        LET b == answer.builder
            unread(n) == n = Len(asked.x) \/ re_token(Drop(asked.x, n)).error
        IN IF b.error THEN Queries(asked.x) = {}
           ELSE \E n \in 0..Len(asked.x) : unread(n) /\ b.value \in Queries(SubSeq(asked.x, 1, n))

(* smart_query reads a text of numbers without brackets as QueryBuilder does. *)
(* (But it takes null for a value, and a list only in one word.)             *)
SmartAgrees ==
    asked.of = "text" /\ asked.x # <<>> /\ Range(asked.x) \cap {"(", ")", ",", "null", "name", "tags", "flag"} = {} =>
        answer.builder.error \/ answer.builder.value \notin Queries(asked.x) \/ answer.smart = answer.builder
===============================================================================
