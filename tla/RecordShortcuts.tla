---------------------------- MODULE RecordShortcuts ---------------------------
(* A table used as a dictionary of its records, and the calls that insert or  *)
(* update, whichever it takes. A table has ids or keys of its own fields.     *)
EXTENDS Calls

CONSTANTS Shapes,        \* of tables: [keys, fields, required]; those with ids have the key id
          TablesOf(_),     \* what a table of a shape may hold; NULL is 0
          KeysOf(_),     \* what a record is asked for by
          WrittenOf(_),   \* what is written; 9 is invalid
          Demands(_)     \* what besides the key is asked of the record

Keyed(shape) == "id" \notin shape.keys
Agrees(r, values) == \A f \in DOMAIN values : r[f] = values[f]
Having(table, values) == {r \in table : Agrees(r, values)}
Nobody == <<>>
Somebody(rows) == IF rows = {} THEN {Nobody} ELSE {<<r>> : r \in rows}    \* first() of those found in any order

(* A key is none, an id, a word, fields that a record has, or such a query.   *)
NoKey == [by |-> "none", values |-> <<>>]
Key(by, values) == [by |-> by, values |-> values]

(* No two records have one key; only tables with ids are asked for an id.     *)
ASSUME KeysAssumption ==
    \A shape \in Shapes :
       /\ Keyed(shape) \/ shape.keys = {"id"}
       /\ \A table \in TablesOf(shape) : \A q, r \in table : (\A f \in shape.keys : q[f] = r[f]) => q = r
       /\ \A key \in KeysOf(shape) :
             /\ key.by = "id" => ~Keyed(shape) /\ DOMAIN key.values = {"id"}
             /\ key.by \in {"none", "word", "id", "dict", "query"} /\ (key.by = "none" <=> key = NoKey)
             /\ key.by = "dict" => DOMAIN key.values # {}
(* Records have the fields of their table, which are those that are written.  *)
ASSUME FieldsAssumption ==
    \A shape \in Shapes :
       /\ shape.keys \subseteq shape.fields
       /\ \A table \in TablesOf(shape) : IsFiniteSet(table) /\ \A r \in table : DOMAIN r = shape.fields
       /\ \A values \in WrittenOf(shape) : DOMAIN values \subseteq shape.fields
       /\ \A key \in KeysOf(shape) : key.by = "dict" => DOMAIN key.values \subseteq shape.fields

LookedUp1(table, key, kwargs) ==
    IF key.by = "none" THEN IF DOMAIN kwargs = {} THEN {Nobody} ELSE Somebody(Having(table, kwargs))
    ELSE IF key.by \in {"word", "dict"} THEN {Nobody}
    ELSE {IF r = Nobody \/ Agrees(r[1], kwargs) THEN r ELSE Nobody : r \in Somebody(Having(table, key.values))}
\* The key's fields are keywords if it is a dictionary.
Sought(table, key) == IF key.by = "dict" THEN LookedUp1(table, NoKey, key.values) ELSE LookedUp1(table, key, <<>>)

(* What a call comes to: the table, whether it raised, and how many records   *)
(* it says it wrote.                                                          *)
Came(table, wrote) == [table |-> table, raised |-> FALSE, wrote |-> wrote]
Raises(table) == [table |-> table, raised |-> TRUE, wrote |-> 0]
Over1(r, values) == [f \in DOMAIN r |-> IF f \in DOMAIN values THEN values[f] ELSE r[f]]
NewRow(shape, table, values) ==
    [f \in shape.fields |-> IF f \in DOMAIN values THEN values[f] ELSE IF f = "id" THEN Max({r.id : r \in table} \cup {0}) + 1 ELSE 0]
Clashes(shape, table, r) == \E q \in table : \A f \in shape.keys : q[f] = r[f]
insert1(shape, table, values) ==
    LET r == NewRow(shape, table, values)
    IN IF ~(shape.required \subseteq DOMAIN values) \/ Clashes(shape, table, r) \/ (Keyed(shape) /\ \E f \in shape.keys : r[f] = 0) THEN Raises(table)
       ELSE Came(table \cup {r}, 1)
KeysIn(shape, rows) == {[f \in shape.keys |-> r[f]] : r \in rows}
Written1(table, rows, values) == (table \ rows) \cup {Over1(r, values) : r \in rows}
(* The update of a set: without values it raises, and when two records        *)
(* would get the same key.                                                    *)
update1(shape, table, rows, values) ==
    LET after == Written1(table, rows, values)
    IN IF DOMAIN values = {} \/ Cardinality(KeysIn(shape, after)) < Cardinality(table) THEN Raises(table)
       ELSE Came(after, Cardinality(rows))
WithoutId(values) == [f \in DOMAIN values \ {"id"} |-> values[f]]
Beside(key, values) == [f \in DOMAIN key \cup DOMAIN values |-> IF f \in DOMAIN key THEN key[f] ELSE values[f]]

__setitem__(shape, table, key, values) ==
    CASE key.by = "none" -> insert1(shape, table, WithoutId(values))
      [] key.by = "id" -> LET o == update1(shape, table, Having(table, key.values), WithoutId(values)) IN IF o.wrote = 0 THEN Raises(table) ELSE o
      [] OTHER -> IF Keyed(shape) /\ DOMAIN key.values = shape.keys THEN insert1(shape, table, Beside(key.values, WithoutId(values))) ELSE Raises(table)
__delitem__(shape, table, key) ==
    LET rows == Having(table, key.values)
    IN IF key.by \notin {"id", "dict"} \/ (key.by = "dict" /\ ~Keyed(shape)) \/ ~(DOMAIN key.values \subseteq shape.keys) \/ rows = {} THEN Raises(table) ELSE Came(table \ rows, Cardinality(rows))

(* The record found is updated by its id, which one of a keyed table lacks;   *)
(* without values but its id, by all of its own.                              *)
update_or_insert(shape, table, key, values) ==
    {IF r = Nobody THEN insert1(shape, table, values)
     ELSE IF Keyed(shape) THEN Raises(table)
     ELSE update1(shape, table, Having(table, [id |-> r[1].id]), WithoutId(IF DOMAIN values = {} THEN r[1] ELSE values))
     : r \in IF key.by = "none" THEN LookedUp1(table, NoKey, values) ELSE Sought(table, key)}

Errors(shape, values, new) == {f \in DOMAIN values : f = "id" \/ values[f] = 9} \cup (IF new THEN shape.required \ DOMAIN values ELSE {})
validate_and_insert1(shape, table, values) == IF Errors(shape, values, TRUE) # {} THEN Came(table, 0) ELSE insert1(shape, table, values)
(* The answer names the record by its id: a keyed table's record is written   *)
(* before that raises.                                                        *)
validate_and_update1(shape, table, key, values) ==
    {LET rows == IF Keyed(shape) THEN Having(table, key.values) ELSE Having(table, [id |-> r[1].id])
         o == update1(shape, table, rows, values)
     IN IF r = Nobody \/ Errors(shape, values, FALSE) # {} THEN IF r # Nobody /\ Keyed(shape) THEN Raises(table) ELSE Came(table, 0)
        ELSE IF Keyed(shape) THEN Raises(o.table) ELSE o
     : r \in Sought(table, key)}
(* Without a key it is made of the primary key, which only keyed tables have. *)
validate_and_update_or_insert(shape, table, given, values) ==
    LET own == [f \in DOMAIN values \cap shape.keys |-> values[f]]
        key == IF given.by # "none" THEN given ELSE Key("dict", own)
    IN IF given.by = "none" /\ ~Keyed(shape) /\ DOMAIN values # {} THEN {Raises(table)}
       ELSE UNION {IF r = Nobody THEN {validate_and_insert1(shape, table, values)} ELSE validate_and_update1(shape, table, key, values) : r \in Sought(table, key)}

Shortcut ==
    \E shape \in Shapes : \E table \in TablesOf(shape), key \in KeysOf(shape) :
        LET x(op, values) == [op |-> op, shape |-> shape, table |-> table, key |-> key, values |-> values]
        IN \/ \E v \in Demands(shape) : \E r \in LookedUp1(table, key, v) : Ask("lookup", x("__call__", v), [found |-> r])
           \/ key.by \notin {"word", "query"} /\ \E v \in WrittenOf(shape) : Ask("shortcut", x("__setitem__", v), __setitem__(shape, table, key, v))
           \/ key.by # "none" /\ Ask("shortcut", x("__delitem__", <<>>), __delitem__(shape, table, key))
           \/ \E v \in WrittenOf(shape) : \E o \in update_or_insert(shape, table, key, v) : Ask("shortcut", x("update_or_insert", v), o)
           \/ \E v \in WrittenOf(shape) : \E o \in validate_and_update_or_insert(shape, table, key, v) :
                 Ask("shortcut", x("validate_and_update_or_insert", v), o)

-------------------------------------------------------------------------------
Asked(ops) == asked.of = "shortcut" /\ asked.x.op \in ops
Changed(x) == (x.table \ answer.table) \cup (answer.table \ x.table)

(* A record that is looked up agrees with all that was asked, and none is     *)
(* found only if none agrees; but with a query, of whose records one is taken *)
(* before the rest is asked of it. (A dictionary is no key here.)             *)
LookupsAgree ==
    asked.of = "lookup" =>
        LET x == asked.x
            agreeing == {r \in Having(x.table, x.key.values) : Agrees(r, x.values)}
        IN IF answer.found # Nobody THEN answer.found[1] \in agreeing
           ELSE agreeing = {} \/ x.key.by \in {"word", "dict", "query"} \/ (x.key.by = "none" /\ DOMAIN x.values = {})

(* A call changes one record: it writes it, adds it or takes it away, and if  *)
(* it raises none; but of a keyed table all that have the fields of the key   *)
(* that were given are written, and then it raises.                           *)
OneRecordIsWritten ==
    Asked({"__setitem__", "__delitem__", "update_or_insert", "validate_and_update_or_insert"}) =>
        LET x == asked.x
        IN \/ ~answer.raised /\ Cardinality(x.table \ answer.table) <= 1 /\ Cardinality(answer.table \ x.table) <= 1
              /\ (answer.wrote = 0 => Changed(x) = {})
           \/ answer.raised /\ Changed(x) = {}
           \/ Keyed(x.shape) /\ x.op = "validate_and_update_or_insert"
           \/ Keyed(x.shape) /\ x.op = "__delitem__" /\ DOMAIN x.key.values # x.shape.keys

(* What was written is there, once, and a record that was asked for is not    *)
(* written beside.                                                            *)
WrittenIsThere ==
    Asked({"__setitem__", "update_or_insert", "validate_and_update_or_insert"}) /\ ~answer.raised /\ answer.wrote = 1 =>
        LET x == asked.x
            said == IF x.op = "__setitem__" /\ x.key.by = "dict" THEN Beside(x.key.values, x.values) ELSE x.values
        IN /\ \E r \in answer.table : \A f \in DOMAIN said : f # "id" => r[f] = said[f]
           /\ x.key.by \in {"id", "dict", "query"} /\ Having(x.table, x.key.values) # {} => Cardinality(answer.table) = Cardinality(x.table)
===============================================================================
