--------------------------- MODULE FieldValidators ---------------------------
(* The validators a field gets by its type and options, and the ones that     *)
(* wrap others. A value is a record: a text, a number, a date or time (more   *)
(* says whether it has microseconds), a list, parsed JSON, or None. A         *)
(* validator is a record that names its class.                                *)
EXTENDS Calls

CONSTANTS NumberText,   \* of each number that occurs, its text
          FieldTypes,   \* types of fields
          Values,       \* what is submitted
          TableRows,    \* the rows of the table: [id, text], the value as a text
          Referenced,   \* ids of the referenced table
          Wrapped       \* validators given by the user that wrap others

Nothing == [k |-> "None"]
Text(s) == [k |-> "text", s |-> s]
Number(kind, n) == [k |-> kind, n |-> n]
Numbers == {"int", "float", "Decimal"}
Moments1 == {"date", "time", "datetime"}
Numerals == Range(NumberText)
NumberOf(s) == CHOOSE n \in DOMAIN NumberText : NumberText[n] = s
IsText(v, S) == v.k = "text" /\ v.s \in S

(* What a form or a program submits.                                          *)
Whole(v) ==
    /\ v.k \in {"None", "text", "list"} \cup Numbers \cup Moments1
    /\ v.k = "None" => v = Nothing
    /\ v.k = "text" => v = Text(v.s)
    /\ v.k \in Numbers => v.n \in DOMAIN NumberText
    /\ v.k \in Moments1 => v.more \in BOOLEAN
ASSUME NumbersAssumption ==
    /\ DOMAIN NumberText \subseteq Nat
    /\ \A m, n \in DOMAIN NumberText : NumberText[m] = NumberText[n] => m = n
ASSUME ValuesAssumption ==
    \A v \in Values : Whole(v) /\ (v.k = "list" => v.items \in Seq(Range(v.items)) /\ \A x \in Range(v.items) : Whole(x))
(* The column is unique.                                                      *)
ASSUME RowsAssumption == \A r, q \in TableRows : r.id \in Nat /\ (r.text = q.text => r = q)
ASSUME ReferencedAssumption == Referenced \subseteq DOMAIN NumberText

(* str of a value: what IS_NOT_IN_DB and IS_IN_SET look up. (The fraction of  *)
(* a float is left out.)                                                      *)
Str(v) ==
    CASE v.k = "text" -> v.s
      [] v.k = "None" -> "None"
      [] v.k \in Numbers -> NumberText[v.n]
      [] v.k \in Moments1 -> IF v.more THEN v.s \o ".5" ELSE v.s
      [] OTHER -> v.k

is_empty(v) == IsText(v, {"", " "}) \/ v = Nothing \/ (v.k = "list" /\ v.items = <<>>)
(* What Python takes for false.                                               *)
Falsy(v) == IsText(v, {""}) \/ v = Nothing \/ (v.k = "list" /\ v.items = <<>>) \/ (v.k \in Numbers /\ v.n = 0)
IS_NOT_EMPTY(v) == IF is_empty(v) THEN Err ELSE Ok(v)

Size(v) ==
    CASE v.k = "None" -> 0
      [] v.k = "text" -> Len(v.s)
      [] v.k = "list" -> Len(v.items)
      [] OTHER -> Len(Str(v))
IS_LENGTH(v, max) ==
    IF Size(v) > max THEN Err
    ELSE Ok(IF v.k \in {"None", "text", "list"} THEN v ELSE Text(Str(v)))

InSet(v, theset, multiple) ==
    LET values == IF ~multiple THEN <<v>>
                  ELSE IF v.k = "list" THEN v.items ELSE IF Falsy(v) THEN <<>> ELSE <<v>>
    IN IF theset # <<>> /\ \E i \in DOMAIN values : Str(values[i]) \notin Range(theset) THEN Err
       ELSE Ok(IF multiple THEN [k |-> "list", items |-> values] ELSE v)

ToNumber(v, kind, min, max) ==
    LET n == IF v.k = "text" THEN NumberOf(v.s) ELSE v.n
    IN IF IsText(v, Numerals) \/ v.k \in Numbers
       THEN IF min <= n /\ n <= max THEN Ok(Number(kind, n)) ELSE Err
       ELSE Err
(* The upper bound of an integer is exclusive. A float is no integer.         *)
IS_INT_IN_RANGE(v, min, max) == IF v.k = "float" THEN Err ELSE ToNumber(v, "int", min, max - 1)
IS_FLOAT_IN_RANGE(v, min, max) == ToNumber(v, "float", min, max)
IS_DECIMAL_IN_RANGE(v, min, max) == ToNumber(v, IF v.k = "Decimal" THEN v.k ELSE "Decimal", min, max)

(* Of the three IS_TIME alone takes texts only.                               *)
IsWhen(v, kind) == v.k = "text" /\ v.s = kind
When(v, kind) ==
    IF v.k = kind \/ (kind = "date" /\ v.k = "datetime") THEN IF kind = "time" THEN Err ELSE Ok(v)
    ELSE IF IsWhen(v, kind) THEN Ok([k |-> kind, s |-> kind, more |-> FALSE]) ELSE Err

\* Mutant: what is no text is parsed as well.
IS_JSONTexts(v) ==
    CASE v = Nothing \/ IsText(v, {"null"}) -> Ok(Nothing)
      [] IsText(v, {"\"abc\""}) -> Ok(Text("abc"))
      [] IsText(v, Numerals) -> Ok(Number("int", NumberOf(v.s)))
      [] OTHER -> Err
IS_JSON(v) ==
    CASE v = Nothing \/ IsText(v, {"null"}) -> Ok(Nothing)
      [] IsText(v, {"\"abc\""}) -> Ok(Text("abc"))
      [] IsText(v, Numerals) -> Ok(Number("int", NumberOf(v.s)))
      [] v.k # "text" -> Ok(v)
      [] OTHER -> Err

\* Mutant: whoever edits a record is taken to keep its value.
IS_NOT_IN_DBEdits(v, record_id) ==
    IF Str(v) \in {"", " "} \/ (record_id = 0 /\ \E r \in TableRows : r.text = Str(v)) THEN Err
    ELSE Ok(Text(Str(v)))
(* The value as a text must not be empty, and the first row that has it must  *)
(* be the record itself.                                                      *)
IS_NOT_IN_DB(v, record_id) ==
    LET found == {r \in TableRows : r.text = Str(v)}
    IN IF Str(v) \in {"", " "} \/ (found # {} /\ (CHOOSE r \in found : \A q \in found : r.id <= q.id).id # record_id)
       THEN Err ELSE Ok(Text(Str(v)))

IS_IN_DB(v) ==
    LET n == IF v.k = "text" THEN NumberOf(v.s) ELSE v.n
    IN IF IsText(v, Numerals) \/ v.k = "int" THEN IF n \in Referenced THEN Ok(Number("int", n)) ELSE Err ELSE Err

(* With multiple the ids are counted in the database: one given twice makes   *)
(* the count fall short.                                                      *)
IS_IN_DB_multiple(v) ==
    LET values == IF v.k = "list" THEN v.items ELSE IF Falsy(v) THEN <<>> ELSE <<v>>
        ids == {IF x.k = "text" THEN NumberOf(x.s) ELSE x.n : x \in Range(values)}
    IN IF \A x \in Range(values) : IsText(x, Numerals) \/ x.k = "int"
       THEN IF Cardinality(ids \cap Referenced) = Len(values) THEN Ok([k |-> "list", items |-> values]) ELSE Err
       ELSE Err

-------------------------------------------------------------------------------
(* Validator.__call__ and validator_caller: a validator or a chain of at most *)
(* three. Those wrapped in it are asked with Inner.                           *)
Then(Inner(_, _, _), r, f, record_id) == IF r.error THEN r ELSE Inner(f, r.value, record_id)
Chain(Inner(_, _, _), fs, v, record_id) ==
    LET one == Inner(fs[1], v, record_id)
        two == Then(Inner, one, fs[2], record_id)
    IN CASE Len(fs) = 0 -> Ok(v)
         [] Len(fs) = 1 -> one
         [] Len(fs) = 2 -> two
         [] Len(fs) = 3 -> Then(Inner, two, fs[3], record_id)

Unwrapped(f, v, record_id) ==
    CASE f.is = "IS_NOT_IN_DB" -> IS_NOT_IN_DB(v, record_id)
      [] f.is = "Validator" -> Ok(v)
      [] f.is = "IS_NOT_EMPTY" -> IS_NOT_EMPTY(v)
      [] f.is = "IS_IN_SET" -> InSet(v, f.theset, f.multiple)
      [] f.is = "IS_LENGTH" -> IS_LENGTH(v, f.max)
      [] f.is = "IS_INT_IN_RANGE" -> IS_INT_IN_RANGE(v, f.min, f.max)
      [] f.is = "IS_FLOAT_IN_RANGE" -> IS_FLOAT_IN_RANGE(v, f.min, f.max)
      [] f.is = "IS_DECIMAL_IN_RANGE" -> IS_DECIMAL_IN_RANGE(v, f.min, f.max)
      [] f.is = "IS_JSON" -> IS_JSON(v)
      [] f.is = "IS_EQUAL_TO" -> IF v = f.expression THEN Ok(v) ELSE Err
      [] f.is = "IS_EXPR" -> IF v \in f.holds THEN Ok(v) ELSE Err
      [] f.is = "when" -> When(v, f.kind)

(* What a validator makes of the outcomes of those it wraps.                  *)
EmptyOrOther(f, v, other) == IF is_empty(v) THEN Ok(f.null) ELSE other
AnyOf(subs) ==
    LET good == {i \in DOMAIN subs : ~subs[i].error}
    IN IF good = {} THEN Err ELSE subs[Min(good)]
(* A text is taken apart into its characters, unless it is a JSON list.       *)
ItemsOf(v) ==
    CASE v.k = "list" -> v.items
      [] v.k = "text" -> [i \in 1..Len(v.s) |-> Text(SubSeq(v.s, i, i))]
      [] OTHER -> <<>>
ListOf(f, v, each) ==
    IF Falsy(v) THEN Ok([k |-> "list", items |-> <<>>])
    ELSE IF /\ v.k \in {"list", "text"} /\ ItemsOf(v) # <<>> /\ Len(ItemsOf(v)) \in f.minimum..f.maximum
            /\ \A i \in DOMAIN each : ~each[i].error
    THEN Ok([k |-> "list", items |-> [i \in DOMAIN each |-> each[i].value]])
    ELSE Err
(* With multiple there is no second test: it is not implemented.              *)
InDb(f, v) ==
    CASE f.multiple /\ f.and = <<>> -> IS_IN_DB_multiple(v)
      [] f.multiple /\ f.and # <<>> -> Err
      [] OTHER -> IS_IN_DB(v)
Wrapping(Inner(_, _, _), f, v, record_id) ==
    CASE f.is = "IS_EMPTY_OR" -> EmptyOrOther(f, v, Chain(Inner, f.other, v, record_id))
      [] f.is = "ANY_OF" -> AnyOf([i \in DOMAIN f.subs |-> Inner(f.subs[i], v, 0)])
      [] f.is = "IS_LIST_OF" -> ListOf(f, v, [i \in DOMAIN ItemsOf(v) |-> Chain(Inner, f.other, ItemsOf(v)[i], record_id)])
      [] f.is = "IS_IN_DB" -> IF InDb(f, v).error THEN InDb(f, v) ELSE Chain(Inner, f.and, InDb(f, v).value, record_id)
      [] OTHER -> Unwrapped(f, v, record_id)
(* Three wrap one another at most.                                            *)
Innermost(f, v, record_id) == Wrapping(Unwrapped, f, v, record_id)
Inside(f, v, record_id) == Wrapping(Innermost, f, v, record_id)
Validate(f, v, record_id) == Wrapping(Inside, f, v, record_id)
Chained(fs, v, record_id) == Chain(Validate, fs, v, record_id)

-------------------------------------------------------------------------------
Plain(class) == [is |-> class]
Bounded(class, min, max) == [is |-> class, min |-> min, max |-> max]
EmptyOr(fs, null) == [is |-> "IS_EMPTY_OR", other |-> fs, null |-> null]

TypeValidators(type) ==
    CASE type \in {"string", "text", "password"} -> <<[is |-> "IS_LENGTH", max |-> 5]>>
      [] type = "json" -> <<EmptyOr(<<Plain("IS_JSON")>>, Nothing)>>
      [] type = "double" -> <<Bounded("IS_FLOAT_IN_RANGE", 0, 7)>>
      [] type = "integer" -> <<Bounded("IS_INT_IN_RANGE", 0, 7)>>
      [] type = "decimal" -> <<Bounded("IS_DECIMAL_IN_RANGE", 0, 7)>>
      [] type \in {"date", "time", "datetime"} -> <<[is |-> "when", kind |-> type]>>
      [] OTHER -> <<>>

References == {"reference", "list:reference"}
(* A chain is the list a field's requires holds; <<>> lets everything pass.   *)
default_validators(field) ==
    LET is_list == field.type = "list:reference"
        typed == IF field.options # <<>> THEN <<[is |-> "IS_IN_SET", theset |-> field.options, multiple |-> FALSE]>>
                 ELSE TypeValidators(field.type)
        checked == (IF field.unique THEN <<Plain("IS_NOT_IN_DB")>> ELSE <<>>) \o typed
        null == IF field.type = "password" THEN Text("") ELSE Nothing
        ref == [is |-> "IS_IN_DB", multiple |-> is_list,
                and |-> IF field.unique THEN <<Plain("IS_NOT_IN_DB")>> ELSE <<>>]
    IN CASE field.type \in References ->
              IF field.notnull THEN <<ref>> ELSE <<EmptyOr(<<ref>>, Nothing)>>
         [] field.type \notin References /\ field.options # <<>> -> typed
         [] field.type \notin References /\ field.options = <<>> /\ (field.notnull \/ field.unique)
              /\ field.type \notin {"boolean", "password", "string", "text", "upload"} ->
              <<Plain("IS_NOT_EMPTY")>> \o checked
         [] field.type \notin References /\ field.options = <<>> /\ ~field.notnull /\ ~field.unique /\ checked # <<>> ->
              <<EmptyOr(<<checked[1]>>, null)>>
         [] OTHER -> checked

(* What a field gets when requires is left out. The unbounded ranges hold     *)
(* every number there is.                                                     *)
ByType(field) ==
    LET ref == [is |-> "IS_IN_DB", multiple |-> FALSE, and |-> <<>>]
    IN CASE field.type = "reference" -> ref
         [] field.type = "list:reference" -> [is |-> "IS_LIST_OF", other |-> <<ref>>, minimum |-> 0, maximum |-> 9]
         [] field.type = "integer" -> Bounded("IS_INT_IN_RANGE", 0, 10)
         [] field.type \in {"double", "decimal"} -> Bounded("IS_FLOAT_IN_RANGE", 0, 9)
         [] field.type \in {"date", "time", "datetime"} -> [is |-> "when", kind |-> field.type]
         [] field.type = "json" -> Plain("IS_JSON")
         [] OTHER -> Plain("Validator")
get_default_validator(field) ==
    <<IF field.notnull THEN ByType(field) ELSE EmptyOr(<<ByType(field)>>, Nothing)>>

Fields == [type : FieldTypes, unique : BOOLEAN, notnull : BOOLEAN, options : {<<>>, <<"5", "7">>}]
Chains == {"field", "table"}
ChainOf(which, field) == IF which = "field" THEN get_default_validator(field) ELSE default_validators(field)

ValidateField ==
    \E which \in Chains, f \in Fields, v \in Values, id \in {0} \cup {r.id : r \in TableRows} :
        Ask("field", [which |-> which, field |-> f, given |-> v, id |-> id], Chained(ChainOf(which, f), v, id))
ValidateWrapped ==
    \E f \in Wrapped, v \in Values : Ask("wrapped", [f |-> f, given |-> v], Validate(f, v, 0))
AskField == ValidateField \/ ValidateWrapped

-------------------------------------------------------------------------------
Answered(of) == asked.of = of /\ ~answer.error

(* What a field has accepted, read back and submitted again, is accepted as   *)
(* it is. (A time is not: IS_TIME takes no datetime.time; nor are the text    *)
(* and the null a JSON text stood for, nor the empty list made of a zero.)    *)
AcceptedTwice ==
    Answered("field") /\ asked.x.field.type # "time" /\ ~(asked.x.field.type = "json" /\ answer.value.k \in {"text", "None"})
    /\ ~(asked.x.field.type = "list:reference" /\ asked.x.given.k \in Numbers) =>
        LET id == IF asked.x.field.unique THEN asked.x.id ELSE 0
        IN Chained(ChainOf(asked.x.which, asked.x.field), answer.value, id) = answer

(* Validated, a field of a number, a date or a reference that must not be     *)
(* null is not, however empty what was submitted.                             *)
NotNullMeansNotNull ==
    Answered("field") /\ asked.x.field.notnull
    /\ asked.x.field.type \in {"integer", "double", "decimal", "date", "time", "datetime", "reference"} =>
        answer.value # Nothing /\ ~is_empty(answer.value)

(* A value that a unique field accepts for one record is in no other: Nothing *)
(* may be in several. (Two times that differ below the second are told apart  *)
(* here, not in the table; and a JSON text is looked up as it was submitted.) *)
UniqueAmongRows ==
    Answered("field") /\ asked.x.which = "table" /\ asked.x.field.unique /\ asked.x.field.options = <<>>
    /\ asked.x.field.type # "json" /\ answer.value # Nothing /\ ~(answer.value.k \in Moments1 /\ answer.value.more) =>
        \A r \in TableRows : r.text = Str(answer.value) => r.id = asked.x.id

(* Every id of an accepted reference, or list of references, is a record.     *)
ReferencesExist ==
    Answered("field") /\ asked.x.field.type \in References /\ answer.value # Nothing =>
        LET items == IF answer.value.k = "list" THEN Range(answer.value.items) ELSE {answer.value}
        IN \A x \in items : x.k \in {"int", "text"} /\ (IF x.k = "int" THEN x.n ELSE NumberOf(x.s)) \in Referenced

(* Validators wrapped in others settle: what comes out passes unchanged.      *)
WrappedSettle == Answered("wrapped") => Validate(asked.x.f, answer.value, 0) = answer
===============================================================================
