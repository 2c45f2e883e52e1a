----------------------------- MODULE TableFields -------------------------------
(* What fields a table has, of the fields, dictionaries, lists and tables it  *)
(* is defined by: Table.__init__; and the table as a dictionary, from which   *)
(* it can be defined again.                                                   *)
EXTENDS Calls, Functions

CONSTANTS GivenFields,   \* sequences of arguments
          GivenKeys      \* primarykey: <<>> is none

(* A field has a name, a lower, which is the name without capitals, a type;   *)
(* blob is where it keeps an upload: "" in no column, "yes" in one to be      *)
(* named; hidden is neither readable nor writable.                            *)
FieldOf(n, type) == [name |-> n, lower |-> n, type |-> type, blob |-> "", hidden |-> FALSE]
AutoId == FieldOf("id", "id")
Single(f) == [k |-> "field", fields |-> <<f>>]
AsDict1(f) == [k |-> "dict", fields |-> <<f>>]
Several(fields) == [k |-> "list", fields |-> fields]
OfTable(fields) == [k |-> "table", fields |-> fields]

-------------------------------------------------------------------------------
NamesIn(fields) == {fields[i].name : i \in DOMAIN fields}
include_new(t, f) == [t EXCEPT !.fields = Append(@, f), !.id = IF f.type = "id" THEN f ELSE @]
IncludeAll(t, fields) == FoldLeft(include_new, t, fields)
(* The first of a name stays; but a list is taken as it is, and a dictionary  *)
(* of a name there is already is taken for no argument at all.                *)
Include(t, arg) ==
    LET new(f) == f.name \notin NamesIn(t.fields)
        first == arg.fields[1]
    IN CASE arg.k = "list" -> IncludeAll(t, arg.fields)
         [] arg.k = "table" -> FoldLeft(LAMBDA s, f : IF f.type # "id" /\ f.name \notin NamesIn(s.fields) THEN include_new(s, f) ELSE s, t, arg.fields)
         [] new(first) -> include_new(t, first)
         [] arg.k = "field" -> t
         [] OTHER -> [t EXCEPT !.raised = TRUE]

NoField == FieldOf("", "")
Singles(args) == SelectSeq(args, LAMBDA a : a.k = "field")
HasId(args) == \E i \in DOMAIN args : args[i].k \in {"field", "dict"} /\ args[i].fields[1].type = "id"
(* One key is looked for among the arguments that are fields.                 *)
Begun(args, keys) ==
    LET keyed == SelectSeq(Singles(args), LAMBDA a : a.fields[1].name = keys[1])
    IN CASE keys = <<>> /\ ~HasId(args) -> [fields |-> <<AutoId>>, id |-> AutoId, raised |-> FALSE]
         [] Len(keys) = 1 /\ keyed = <<>> -> [fields |-> <<>>, id |-> NoField, raised |-> TRUE]
         [] OTHER -> [fields |-> <<>>, id |-> IF Len(keys) = 1 THEN keyed[1].fields[1] ELSE NoField, raised |-> FALSE]

(* Where uploads are kept in columns, those columns are added.                *)
BlobOf(f) == IF f.type = "upload" /\ f.blob = "yes" THEN f.name \o "_blob" ELSE f.blob
WithBlobs(fields) ==
    LET there == {fields[i].name : i \in {j \in DOMAIN fields : fields[j].type = "blob"}}
        named == [i \in DOMAIN fields |-> [fields[i] EXCEPT !.blob = BlobOf(fields[i])]]
        lacking == SelectSeq(named, LAMBDA f : f.blob \notin there \cup {"", "yes"})
    IN named \o [i \in DOMAIN lacking |-> [FieldOf(lacking[i].blob, "blob") EXCEPT !.hidden = TRUE]]

Unique1(fields, ignore_case) ==
    IsInjective([i \in DOMAIN fields |-> IF ignore_case THEN fields[i].lower ELSE fields[i].name])
(* What the attributes of the table are; t.id is the field of that type. A    *)
(* table whose only id was dropped for a field of its name is not created.    *)
Attributes(fields) ==
    FoldLeft(LAMBDA a, f : [n \in DOMAIN a \cup {f.name} \cup (IF f.type = "id" THEN {"id"} ELSE {}) |->
                              IF n = f.name \/ (n = "id" /\ f.type = "id") THEN f ELSE a[n]], <<>>, fields)
TableOf(args, keys, ignore_case, in_blob) ==
    LET t == FoldLeft(Include, Begun(args, keys), args)
        fields == IF in_blob THEN WithBlobs(t.fields) ELSE t.fields
    IN IF t.raised \/ (keys = <<>> /\ t.id = NoField) \/ ~Unique1(fields, ignore_case) \/ ~(Range(keys) \subseteq NamesIn(fields)) THEN Err
       ELSE Ok([fields |-> fields, id |-> t.id, attr |-> Attributes(fields), notnull |-> Range(keys)])

(* Table.as_dict and Field.as_dict. The key of the table is not in it.        *)
TableAsDict(t, sanitize) ==
    LET shown == SelectSeq(t.fields, LAMBDA f : ~sanitize \/ ~f.hidden) IN [i \in DOMAIN shown |-> AsDict1(shown[i])]

MakeTable ==
    \E args \in GivenFields, keys \in GivenKeys, ignore_case, in_blob \in BOOLEAN :
       Ask("table", [args |-> args, keys |-> keys, ignore_case |-> ignore_case, in_blob |-> in_blob],
           TableOf(args, keys, ignore_case, in_blob))

-------------------------------------------------------------------------------
(* A table that can be made has a column for each name it was given, once,    *)
(* of the first that had it, and its id is one of them. (A field named id of  *)
(* another type is dropped for the automatic one; the one key of a table may  *)
(* be a field that is dropped for a dictionary or a list of that name.)       *)
GivenTo(args) ==
    FlattenSeq([i \in DOMAIN args |-> SelectSeq(args[i].fields, LAMBDA f : args[i].k # "table" \/ f.type # "id")])
Columns(fields) == {<<fields[i].name, fields[i].type>> : i \in DOMAIN fields}
FieldsAreKept ==
    asked.of = "table" /\ ~answer.error =>
        LET given == GivenTo(asked.x.args)
            made == answer.value
            first(n) == given[CHOOSE i \in DOMAIN given : given[i].name = n /\ \A j \in 1..(i - 1) : given[j].name # n]
        IN /\ Unique1(made.fields, asked.x.ignore_case)
           /\ \A n \in NamesIn(given) \ {"id"} : <<n, first(n).type>> \in Columns(made.fields)
           /\ "id" \in NamesIn(given) => "id" \in NamesIn(made.fields)
           /\ asked.x.keys = <<>> => made.id.type = "id"
           /\ Singles(asked.x.args) = asked.x.args \/ asked.x.keys = <<>> =>
                 Len(asked.x.keys) > 1 \/ <<made.id.name, made.id.type>> \in Columns(made.fields)
           /\ asked.x.in_blob => \A f \in Range(made.fields) : f.type = "upload" => f.blob \in NamesIn(made.fields) \cup {""}

(* Defined again by its dictionary a table has the fields that it had; by a   *)
(* sanitized one, those of them that are not hidden. (A table with a key      *)
(* other than id loses the key; one whose id is hidden gets another.)         *)
Visible(fields) == SelectSeq(fields, LAMBDA f : ~f.hidden)
DefinedAgain ==
    asked.of = "table" /\ ~answer.error /\ asked.x.keys = <<>> =>
        LET made == answer.value
            again(sanitize) == TableOf(TableAsDict(made, sanitize), <<>>, asked.x.ignore_case, asked.x.in_blob)
        IN /\ again(FALSE) = answer
           /\ ~made.id.hidden => ~again(TRUE).error /\ Visible(again(TRUE).value.fields) = Visible(made.fields)
===============================================================================
