-------------------------------- MODULE Values --------------------------------
(* What becomes of a Python value on its way into a column and back: the      *)
(* field's filter_in, the representer (or the binding of a parameter), the    *)
(* affinity of an SQLite column, the parser. Dates and times have parts: d    *)
(* the day, t the hour, minute and second as far as given, us whether there   *)
(* are microseconds; a stamp is the text of one.                              *)
EXTENDS Calls, TLC

CONSTANTS StoredTypes,   \* types of fields
          PyValues       \* what is assigned to them

None == [k |-> "None"]
Num(n) == [k |-> "int", n |-> n]
Float(half) == [k |-> "float", half |-> half]
Bool(b) == [k |-> "bool", b |-> b]
Str(s) == [k |-> "text", s |-> s]
List(items) == [k |-> "list", items |-> items]
Stamp(d, t, us) == [k |-> "stamp", d |-> d, t |-> t, us |-> us]

Texty(type) == type \in {"string", "text", "password", "upload", "json"}
Numerals == {"0", "1", "5"}
Numeral(v) == v.k = "text" /\ v.s \in Numerals
NumeralOf(v) == CHOOSE n \in 0..9 : ToString(n) = v.s
Empty(v) == v \in {None, Str("")}
Full(t) == SubSeq(t \o <<0, 0, 0>>, 1, 3)
Chars(s) == [i \in 1..Len(s) |-> SubSeq(s, i, i)]
Replaced(s, c, by) == FoldLeft(LAMBDA r, x : r \o (IF x = c THEN by ELSE x), "", Chars(s))

(* str of a value; of a date or time it is the stamp.                         *)
StrOf(v) ==
    CASE v.k = "text" -> v
      [] v.k = "int" -> Str(ToString(v.n))
      [] v.k = "float" -> Str(ToString(v.half \div 2) \o (IF v.half % 2 = 0 THEN ".0" ELSE ".5"))
      [] v.k = "bool" -> Str(IF v.b THEN "True" ELSE "False")
      [] v.k = "None" -> Str("None")
      [] v.k = "list" -> Str("[]")
      [] v.k = "date" -> Stamp(v.d, <<>>, FALSE)
      [] v.k = "time" -> Stamp(0, v.t, v.us)
      [] v.k = "datetime" -> Stamp(v.d, v.t, v.us)
      [] OTHER -> v
TextOf(v) == IF StrOf(v).k = "stamp" THEN "a date" ELSE StrOf(v).s
ToInt(v) ==
    CASE v.k = "int" -> Ok(v)
      [] v.k = "float" -> Ok(Num(v.half \div 2))
      [] v.k = "bool" -> Ok(Num(IF v.b THEN 1 ELSE 0))
      [] Numeral(v) -> Ok(Num(NumeralOf(v)))
      [] OTHER -> Err
ToFloat(v) ==
    LET n == ToInt(v) IN IF v.k = "float" THEN Ok(v) ELSE IF n.error THEN n ELSE Ok(Float(2 * n.value.n))
IsTrue(v) ==
    CASE v.k = "int" -> v.n # 0 [] v.k = "float" -> v.half # 0 [] v.k = "bool" -> v.b
      [] v.k = "text" -> v.s # "" [] v.k = "list" -> v.items # <<>> [] OTHER -> TRUE
Truth(v) == IsTrue(v) /\ (StrOf(v).k = "stamp" \/ SubSeq(StrOf(v).s, 1, 1) \notin {"0", "f", "F"})

-------------------------------------------------------------------------------
(* bar_escape and bar_encode; ^ stands for the unit separator.                *)
\* Mutant: an item next to a delimiter is not told from it.
bar_escapeOnly(s) == Replaced(s, "|", "||")
bar_escape(s) ==
    LET e == Replaced(s, "|", "||")
        from == IF s # "" /\ SubSeq(s, 1, 1) = "|" THEN "^" ELSE ""
        to == IF s # "" /\ SubSeq(s, Len(s), Len(s)) = "|" THEN "^" ELSE ""
    IN from \o e \o to
Blank(s) == \A i \in 1..Len(s) : SubSeq(s, i, i) = " "
bar_encode(items) ==
    "|" \o FoldLeft(LAMBDA r, s : IF r = "" THEN bar_escape(s) ELSE r \o "|" \o bar_escape(s), "",
                    SelectSeq(items, LAMBDA s : ~Blank(s))) \o "|"

(* REGEX_UNPACK: a bar next to no other bar delimits.                         *)
Delimits(s, i) == SubSeq(s, i, i) = "|" /\ \A j \in {i - 1, i + 1} \cap 1..Len(s) : SubSeq(s, j, j) # "|"
bar_unescape(s) ==
    LET undoubled == FoldLeft(LAMBDA r, x : IF x = "|" /\ r.bar THEN [s |-> r.s, bar |-> FALSE]
                                            ELSE [s |-> r.s \o x, bar |-> x = "|"],
                              [s |-> "", bar |-> FALSE], Chars(s)).s
        from == IF undoubled # "" /\ SubSeq(undoubled, 1, 1) = "^" THEN 2 ELSE 1
        to == IF Len(undoubled) >= from /\ SubSeq(undoubled, Len(undoubled), Len(undoubled)) = "^"
              THEN Len(undoubled) - 1 ELSE Len(undoubled)
    IN SubSeq(undoubled, from, to)
bar_decode_string(s) ==
    LET inner == SubSeq(s, 2, Len(s) - 1)
        parts == FoldLeft(LAMBDA r, i : IF Delimits(inner, i) THEN Append(r, "")
                                        ELSE [r EXCEPT ![Len(r)] = @ \o SubSeq(inner, i, i)],
                          <<"">>, [i \in 1..Len(inner) |-> i])
        kept == SelectSeq(parts, LAMBDA p : ~Blank(p))
    IN [i \in DOMAIN kept |-> bar_unescape(kept[i])]

-------------------------------------------------------------------------------
(* Field._todate, _totime and _todatetime, the filter_in of these types.      *)
filter_in(v, type) ==
    LET s == StrOf(v)
    IN IF type \in {"date", "time", "datetime"} /\ Empty(v) THEN Ok(None)
       ELSE CASE type = "date" -> IF s.k = "stamp" /\ s.d # 0 THEN Ok(Stamp(s.d, <<>>, FALSE)) ELSE Err
         [] type = "time" -> IF s.k = "stamp" /\ s.d = 0 THEN Ok(Stamp(0, Full(s.t), FALSE)) ELSE Err
         [] type = "datetime" -> IF s.k = "stamp" /\ s.d # 0 THEN Ok(Stamp(s.d, Full(s.t), FALSE)) ELSE Err
         [] OTHER -> Ok(v)

AsList(v) == IF ~IsTrue(v) \/ v = None THEN <<>> ELSE IF v.k = "list" THEN v.items ELSE <<v>>
AllOk(rs) == IF \E i \in DOMAIN rs : rs[i].error THEN Err ELSE Ok([i \in DOMAIN rs |-> rs[i].value])
ListText(rs) ==
    LET all == AllOk(rs)
    IN IF all.error THEN Err ELSE Ok(Str(bar_encode([i \in DOMAIN rs |-> TextOf(all.value[i])])))
Integers(v) == LET items == SelectSeq(AsList(v), LAMBDA x : x # Str("")) IN [i \in DOMAIN items |-> ToInt(items[i])]
Strings(v) == LET items == AsList(v) IN [i \in DOMAIN items |-> Ok(StrOf(items[i]))]

(* SQLRepresenter: the literal, without its quotes.                           *)
Nulled(v, type) == v = None \/ (v = Str("") /\ ~Texty(type))
represent(v, type) ==
    IF Nulled(v, type) THEN Ok(None)
    ELSE CASE type \in {"integer", "id", "reference"} -> ToInt(v)
      [] type = "double" -> ToFloat(v)
      [] type = "boolean" -> Ok(Str(IF Truth(v) THEN "T" ELSE "F"))
      [] type \in {"list:integer", "list:reference"} -> ListText(Integers(v))
      [] type = "list:string" -> ListText(Strings(v))
      [] type = "json" -> Ok([k |-> "json", v |-> v])
      [] OTHER -> Ok(StrOf(v))

(* The compiler binds a value instead, of these types, unless it is None.     *)
Parameterizable == {"string", "text", "password", "id", "integer", "double", "boolean", "date", "time", "datetime", "reference"}
BoundTruth(v) == Truth(v)
_adapt_for_bind(v, type) ==
    CASE type \in {"string", "text", "password"} -> Ok(StrOf(v))
      [] type \in {"id", "reference"} -> ToInt(v)
      [] type = "boolean" -> Ok(Str(IF BoundTruth(v) THEN "T" ELSE "F"))
      [] type \in {"date", "time", "datetime"} -> Ok(StrOf(v))
      [] OTHER -> Ok(v)

(* A column of a number converts what it can.                                 *)
Affinity(v, type) ==
    LET n == IF type = "double" THEN ToFloat(v) ELSE ToInt(v)
    IN IF type \in {"integer", "id", "reference", "double"} /\ ~n.error /\ ~(v.k = "float" /\ v.half % 2 = 1)
       THEN n.value ELSE v
(* The value the column holds.                                                *)
Stored(v, type, bound) ==
    LET in == filter_in(v, type)
        out == IF bound /\ in.value # None /\ type \in Parameterizable
               THEN _adapt_for_bind(in.value, type) ELSE represent(in.value, type)
    IN IF in.error THEN Err ELSE IF out.error THEN Err ELSE Ok(Affinity(out.value, type))

(* The parser of a column's type.                                             *)
DecodedIntegers(s) ==
    LET texts == bar_decode_string(s) IN AllOk([i \in DOMAIN texts |-> ToInt(Str(texts[i]))])
ParsedTime(c) == Full(c.t)
parse(c, type) ==
    IF c = None THEN Ok(None)
    ELSE CASE type \in {"integer", "id", "reference"} -> ToInt(c)
      [] type = "double" -> ToFloat(c)
      [] type = "boolean" -> Ok(Bool(c = Str("T")))
      [] type = "date" -> Ok([k |-> "date", d |-> c.d])
      [] type = "time" -> Ok([k |-> "time", t |-> Full(c.t), us |-> FALSE])
      [] type = "datetime" -> Ok([k |-> "datetime", d |-> c.d, t |-> ParsedTime(c), us |-> c.us])
      [] type = "json" -> Ok(c.v)
      [] type = "list:string" ->
            LET texts == bar_decode_string(c.s) IN Ok(List([i \in DOMAIN texts |-> Str(texts[i])]))
      [] type \in {"list:integer", "list:reference"} ->
            LET r == DecodedIntegers(c.s) IN IF r.error THEN Err ELSE Ok(List(r.value))
      [] OTHER -> Ok(c)

(* NoSQLRepresenter: the value itself, converted.                             *)
NoSQLRepresent(v, type) ==
    LET s == StrOf(v)
        lists(rs) == LET all == AllOk(rs) IN IF all.error THEN Err ELSE Ok(List(all.value))
        items == SelectSeq(AsList(v), LAMBDA x : x # None)
    IN IF v = None \/ (v = Str("") /\ (~Texty(type) \/ type = "json")) THEN Ok(None)
       ELSE CASE type \in {"integer", "id", "reference"} -> ToInt(v)
         [] type = "double" -> ToFloat(v)
         [] type = "boolean" -> Ok(Bool(Truth(v)))
         [] type \in {"string", "text", "password"} -> Ok(s)
         [] type = "date" /\ v.k \in {"date", "datetime"} -> Ok([k |-> "date", d |-> v.d])
         [] type = "date" /\ v.k = "stamp" ->
               IF v.d # 0 /\ v.t = <<>> THEN Ok([k |-> "date", d |-> v.d]) ELSE Err
         [] type = "time" /\ v.k = "stamp" /\ v.d = 0 ->
               IF Len(v.t) >= 2 THEN Ok([k |-> "time", t |-> Full(v.t), us |-> FALSE]) ELSE Err
         [] type = "datetime" /\ v.k = "stamp" /\ v.d # 0 ->
               Ok([k |-> "datetime", d |-> v.d, t |-> Full(v.t), us |-> FALSE])
         [] type = "json" -> IF v.k = "text" /\ ~Numeral(v) THEN Err ELSE IF Numeral(v) THEN ToInt(v) ELSE Ok(v)
         [] type \in {"list:integer", "list:reference"} -> lists([i \in DOMAIN items |-> ToInt(items[i])])
         [] type = "list:string" -> Ok(List([i \in DOMAIN items |-> Str(TextOf(items[i]))]))
         [] type = v.k -> Ok(v)
         [] OTHER -> Err

Read(v, type, bound) == LET c == Stored(v, type, bound) IN IF c.error THEN Err ELSE parse(c.value, type)

StoreValue ==
    \E t \in StoredTypes, v \in PyValues, bound \in BOOLEAN :
       Ask("store", [type |-> t, given |-> v, bound |-> bound], Read(v, t, bound))

-------------------------------------------------------------------------------
Told(of) == asked.of = of

(* A bound parameter puts into the column what the literal would, whenever    *)
(* there is a literal. (Not so for the empty text, nor for a fraction         *)
(* assigned to an integer: both are bound as they are.)                       *)
SameEitherWay ==
    Told("store") =>
        LET t == asked.x.type  v == asked.x.given  literal == Stored(v, t, FALSE)
        IN ~literal.error /\ v # Str("") /\ ~(v.k = "float" /\ t = "integer") => Stored(v, t, TRUE) = literal

(* What a literal has put into a column can be read, and what was read stays  *)
(* the same when it is stored again.                                          *)
ReadAndStoredAgain ==
    Told("store") /\ ~asked.x.bound /\ ~Stored(asked.x.given, asked.x.type, FALSE).error =>
        ~answer.error /\ Read(answer.value, asked.x.type, FALSE) = answer

(* A value of the type itself is read as it was written; lists lose their     *)
(* blank items, times their microseconds.                                     *)
Own(v, type) ==
    CASE type = "integer" -> v.k = "int"
      [] Texty(type) -> v.k = "text"
      [] type = "boolean" -> v.k = "bool"
      [] type = "double" -> v.k = "float"
      [] type \in {"date", "time", "datetime"} -> v.k = type /\ (type = "date" \/ ~v.us)
      [] type = "list:string" -> v.k = "list" /\ \A x \in Range(v.items) : x.k = "text" /\ ~Blank(x.s)
      [] OTHER -> FALSE
OwnValuesSurvive ==
    Told("store") /\ Own(asked.x.given, asked.x.type) => answer = Ok(asked.x.given)

(* A NoSQL backend keeps the value that an SQL backend reads back, wherever   *)
(* both take it. (A list with blank items or None, a text as JSON and         *)
(* microseconds are taken differently.)                                       *)
TakenDifferently(v, type) ==
    \/ v.k \in {"time", "datetime"} /\ v.us
    \/ type = "json" /\ v.k = "text"
    \/ type \in {"list:string", "list:integer", "list:reference"}
       /\ \E x \in Range(AsList(v)) : x = None \/ (x.k = "text" /\ Blank(x.s))
BackendsAgree ==
    Told("store") /\ ~answer.error /\ ~asked.x.bound /\ ~TakenDifferently(asked.x.given, asked.x.type) =>
        LET other == NoSQLRepresent(asked.x.given, asked.x.type) IN other.error \/ other = answer
===============================================================================
