---------------------------- MODULE RestPatterns ------------------------------
(* parse_as_rest: a path is answered by the first of the patterns it matches, *)
(* tag by tag; a tag compares a field, or goes on to a related table.         *)
(* Tables and their records are those of RestRequests. Values are numbers;    *)
(* parts of dates and texts are not compared here.                            *)
EXTENDS RestRequests, Functions

CONSTANTS Unreadable,    \* pairs <<table, field>>
          FieldOrder,    \* fields in the order of their tables
          NumberOf,      \* the words that are numbers
          PatternLists, PathsFor(_),  \* lists of patterns, and the paths asked of each
          Vars,          \* what besides: [order, offset, limit, queries, nested], by how many patterns
          AutoTables     \* tables asked for through patterns made of their fields

\* The tags of a pattern: word, {table.field.op.not}, word[table], word[table.field], :field.
Tag(k, w, t, f, op, neg) == [k |-> k, word |-> w, table |-> t, field |-> f, op |-> op, neg |-> neg]
Word(w) == Tag("word", w, "", "", "", FALSE)
Where(t, f, op, neg) == Tag("where", "", t, f, op, neg)
Listing(w, t) == Tag("table", w, t, "", "", FALSE)
Following(w, t, f) == Tag("follow", w, t, f, "", FALSE)
FieldTag == Tag("field", ":field", "", "", "", FALSE)
Pattern1(tags) == [tags |-> tags, basequery |-> <<>>, exposed |-> {}]

Readable(t) == {f \in FieldsOf(t) : <<t, f>> \notin Unreadable}

(* A set of records: of each table it is about those that are left. Other     *)
(* tables multiply the rows.                                                  *)
None1 == <<>>
Narrowed(dbset, t, rows) == [u \in DOMAIN dbset \cup {t} |-> IF u # t THEN dbset[u] ELSE IF t \in DOMAIN dbset THEN dbset[t] \cap rows ELSE rows]
Multiplied(dbset, t) == MapThenFoldSet(LAMBDA x, y : x * y, 1, LAMBDA u : Cardinality(dbset[u]), LAMBDA S : CHOOSE u \in S : TRUE, DOMAIN dbset \ {t})
Count1(dbset, t) == Cardinality(dbset[t]) * Multiplied(dbset, t)
(* The value of a word that is no number comes after every number; an id has  *)
(* none, nor has a number where the older way to SQL is taken (a subselect, a *)
(* count of several tables), which is found out when the set is used.         *)
Unusable(t, f, word) == IF word \in DOMAIN NumberOf THEN {} ELSE IF f = "id" \/ IsReference(t, f) THEN {"id"} ELSE {"number"}
Value(word) == IF word \in DOMAIN NumberOf THEN NumberOf[word] ELSE 1000
Compares(v, op, word, neg) == LET x == make_query(v, IF op = "" THEN "eq" ELSE op, {Value(word)}) IN (IF neg THEN Not3(x) ELSE x) = "true"
Compared1(t, f, op, word, neg) == {r \in Data[t] : Compares(r[f], op, word, neg)}

(* The field through which a set of otable is gone on from to table.field: a  *)
(* field that refers to what table.field refers to, one that refers to the    *)
(* table, or else the id.                                                     *)
refs(otable, t, f) ==
    IF IsReference(t, f) THEN {g \in FieldsOf(otable) : IsReference(otable, g) /\ RefersTo[<<otable, g>>] = RefersTo[<<t, f>>]}
    ELSE {g \in FieldsOf(otable) : IsReference(otable, g) /\ RefersTo[<<otable, g>>] = t}
First(fields) == FieldOrder[Min({i \in DOMAIN FieldOrder : FieldOrder[i] \in fields})]
selfld(otable, t, f) == IF refs(otable, t, f) = {} THEN "id" ELSE First(refs(otable, t, f))

-------------------------------------------------------------------------------
(* Reading the tags one after another: the state is the set, the table of the *)
(* last tag, what in the set is compared with a word that is none, and what   *)
(* is over: nothing, the pattern, or all with an answer.                      *)
NextPattern == Status(-1)
Done(s, answer1) == [s EXCEPT !.done = <<answer1>>]
(* The first table's set: its query, where there are queries by table, and    *)
(* the pattern's; which a tag that lists the table forgets if there are.      *)
Based(dbset, pattern) == IF pattern.basequery = <<>> THEN dbset ELSE Narrowed(dbset, pattern.basequery[1], pattern.basequery[2])
NoQuery(x, s, t) == s.table = "" /\ x.queries # None1 /\ t \notin DOMAIN x.queries    \* raises a KeyError
Starts(x, s, pattern, tag) ==
    LET own == Narrowed(None1, tag.table, x.queries[tag.table])
    IN IF s.table # "" THEN s.dbset
       ELSE IF x.queries = None1 THEN Based(None1, pattern)
       ELSE IF tag.k = "table" THEN own ELSE Based(own, pattern)
\* Mutant: a field other tables refer by is followed by the id.
FollowedById(x, s, tag) ==
    Narrowed(None1, tag.table, {r \in Data[tag.table] : \E o \in s.dbset[s.table] : o.id = r[tag.field]})
(* A tag that goes on makes a new set, of the related records; without        *)
(* nested_select they are selected first, and asked for their id.             *)
Followed(x, s, tag) ==
    Narrowed(None1, tag.table, {r \in Data[tag.table] : r[tag.field] # 0 /\ Multiplied(s.dbset, s.table) # 0 /\ \E o \in s.dbset[s.table] : o[selfld(s.table, tag.table, tag.field)] = r[tag.field]})
FollowRaises(x, s, tag) == ~x.nested /\ selfld(s.table, tag.table, tag.field) # "id" /\ Count1(s.dbset, s.table) # 0

Sorted(rows, order) ==
    LET by == Append(order, [field |-> "id", down |-> FALSE])
        before(r, q) == LET i == Min({j \in DOMAIN by : r[by[j].field] # q[by[j].field]})
                        IN IF by[i].down THEN r[by[i].field] > q[by[i].field] ELSE r[by[i].field] < q[by[i].field]
    IN SetToSortSeq(rows, before)
Repeated(rows, n) == [i \in 1..Len(rows) * n |-> rows[((i - 1) \div n) + 1]]
PageOf(rows, x) == LET last == x.offset + (IF x.limit = 0 THEN 1000 ELSE x.limit) IN SubSeq(rows, x.offset + 1, Min({Len(rows), last}))
BadNumbers(x) == x.offset < 0 \/ x.limit < 0    \* what int refuses

ReadField(x, s, field, n) ==
    LET t == s.table
        items == PageOf(Repeated(Sorted(s.dbset[t], <<>>), Multiplied(s.dbset, t)), x)
    IN CASE field \notin FieldsOf(t) -> Done(s, NextPattern)
         [] field \notin Readable(t) -> Done(s, Status(418))
         [] BadNumbers(x) -> Done(s, Status(400))
         [] "id" \in s.unusable -> Done(s, Raised)
         [] items = <<>> -> Done(s, Status(404))
         [] OTHER -> Done(s, [code |-> 200, pattern |-> n, count |-> -1, items |-> [i \in DOMAIN items |-> Shown(items[i], {field})]])
Listed(x, s, pattern, n) ==
    LET t == s.table
        fields == Readable(t) \cap (IF pattern.exposed = {} THEN FieldsOf(t) ELSE pattern.exposed)
        items == PageOf(Repeated(Sorted(s.dbset[t], x.order), Multiplied(s.dbset, t)), x)
    IN CASE \E i \in DOMAIN x.order : x.order[i].field \notin FieldsOf(t) -> Status(400)
         [] "id" \in s.unusable \/ (s.unusable # {} /\ Cardinality(DOMAIN s.dbset) > 1) -> Raised
         [] BadNumbers(x) -> Status(400)
         [] OTHER -> [code |-> 200, pattern |-> n, count |-> Count1(s.dbset, t), items |-> [i \in DOMAIN items |-> Shown(items[i], fields)]]

ReadTag(x, s, pattern, n, tag, arg) ==
    LET started == Starts(x, s, pattern, tag)
        going(dbset) == [s EXCEPT !.dbset = dbset, !.table = tag.table]
    IN CASE s.done # <<>> -> s
         [] tag.k = "where" /\ (s.table \notin {"", tag.table} \/ tag.op = "not") -> Done(s, Raised)
         [] tag.k = "where" -> IF NoQuery(x, s, tag.table) THEN Done(s, Raised)
                               ELSE [going(Narrowed(started, tag.table, Compared1(tag.table, tag.field, tag.op, arg, tag.neg)))
                                     EXCEPT !.unusable = @ \cup Unusable(tag.table, tag.field, arg)]
         [] tag.k = "follow" /\ arg = tag.word ->
              IF s.table = "" THEN Done(s, Raised)
              ELSE IF s.unusable # {} /\ (x.nested \/ "id" \in s.unusable) THEN Done(s, IF x.nested THEN Status(400) ELSE Raised)
              ELSE IF FollowRaises(x, s, tag) THEN Done(s, Raised)
              ELSE [going(Followed(x, s, tag)) EXCEPT !.unusable = {}]
         [] tag.k = "table" /\ arg = tag.word -> IF NoQuery(x, s, tag.table) THEN Done(s, Raised) ELSE going(Narrowed(started, tag.table, Data[tag.table]))
         [] tag.k = "field" /\ s.table # "" -> ReadField(x, s, arg, n)
         [] tag.k = "word" /\ tag.word = arg -> s
         [] OTHER -> Done(s, NextPattern)
AtEnd(x, read, pattern, n) ==
    CASE read.done # <<>> -> read.done[1]
      [] read.table = "" -> NextPattern
      [] OTHER -> Listed(x, read, pattern, n)
Read1(x, n) ==
    LET pattern == x.patterns[n]
        read == FoldLeft(LAMBDA s, i : ReadTag(x, s, pattern, n, pattern.tags[i], x.args[i]),
                         [dbset |-> None1, table |-> "", unusable |-> {}, done |-> <<>>], [i \in DOMAIN pattern.tags |-> i])
    IN IF Len(pattern.tags) # Len(x.args) THEN NextPattern ELSE AtEnd(x, read, pattern, n)
FirstOf(read) ==
    LET over == {n \in DOMAIN read : read[n] # NextPattern}
    IN IF over = {} THEN Status(400) ELSE read[Min(over)]
parse_as_rest(x) == FirstOf([n \in DOMAIN x.patterns |-> Read1(x, n)])

(* Patterns made of the fields of a table that may be read, one to list what  *)
(* compares and one to show a field of it.                                    *)
auto_table(t) ==
    LET of(f) == <<Word(t), Word(f)>> \o (IF f = "id" \/ IsReference(t, f) THEN <<Where(t, f, "", FALSE)>> ELSE <<Where(t, f, "ge", FALSE), Where(t, f, "lt", FALSE)>>)
    IN UNION {{of(f), Append(of(f), FieldTag)} : f \in Readable(t)}

FollowPath ==
    \E patterns \in PatternLists : \E args \in PathsFor(patterns), v \in Vars[Len(patterns)] :
        LET x == [patterns |-> patterns, args |-> args] @@ v IN Ask("path", x, parse_as_rest(x))
Plainly1(tags, args) == [patterns |-> tags, args |-> args, order |-> <<>>, offset |-> 0, limit |-> 0, queries |-> None1, nested |-> TRUE]
AutoPath ==
    \E t \in AutoTables : \E f \in Readable(t), r \in Data[t], g \in FieldsOf(t) \cup {""} :
        LET word(v) == CHOOSE w \in DOMAIN NumberOf : NumberOf[w] = v
            args == <<t, f, word(r[f])>> \o (IF f = "id" \/ IsReference(t, f) THEN <<>> ELSE <<word(r[f] + 1)>>) \o (IF g = "" THEN <<>> ELSE <<g>>)
        IN Ask("auto", [table |-> t, field |-> f, row |-> r, shows |-> g], parse_as_rest(Plainly1(SetToSeq({Pattern1(p) : p \in auto_table(t)}), args)))

-------------------------------------------------------------------------------
(* Selected in one statement or in two, the same is found. (In two, a tag     *)
(* that goes on by another field than the id raises, and so may a word for a  *)
(* number, which is else answered with 400.)                                  *)
NestedOrNot ==
    asked.of = "path" /\ answer # Raised =>
        LET other == parse_as_rest([asked.x EXCEPT !.nested = ~@]) IN other \in {answer, Raised} \/ Status(400) \in {answer, other}

(* The pages make up what was counted, and show readable fields alone.        *)
RECURSIVE PagesFrom(_, _)
PagesFrom(x, offset) ==
    LET page == parse_as_rest([x EXCEPT !.offset = offset]).items IN IF page = <<>> THEN <<>> ELSE page \o PagesFrom(x, offset + Len(page))
CountedAreListed ==
    asked.of = "path" /\ answer.code = 200 /\ answer.count # -1 => Len(PagesFrom(asked.x, 0)) = answer.count

(* From records to those that refer to them, and back, one comes to none but  *)
(* where one was; unless two fields refer there, or the table to itself.      *)
DownAndUp ==
    asked.of = "path" /\ answer.code = 200 /\ answer.count # -1 =>
        LET x == asked.x  p == x.patterns[answer.pattern]  tags == p.tags  n == Len(tags)
            down == tags[n - 1]  up == tags[n]
            before == parse_as_rest([x EXCEPT !.patterns = <<[p EXCEPT !.tags = SubSeq(tags, 1, n - 2), !.exposed = {}]>>, !.args = SubSeq(x.args, 1, n - 2),
                                              !.order = <<>>, !.offset = 0, !.limit = 0])
            start == Last(SelectSeq(SubSeq(tags, 1, n - 2), LAMBDA tag : tag.table # "")).table
            back == /\ n > 2 /\ p.exposed = {} /\ down.k = "follow" /\ up.k = "follow"
                    /\ IsReference(down.table, down.field) /\ RefersTo[<<down.table, down.field>>] = start
                    /\ up.table = start /\ up.field = "id"
                    /\ Cardinality(refs(down.table, start, "id")) = 1 /\ refs(start, down.table, down.field) = {}
        IN back => Range(answer.items) \subseteq Range(before.items)

(* By the patterns made of its readable fields each record is found, and each *)
(* of its readable fields is shown. (NULL compares with nothing.)             *)
AutoFindsEach ==
    asked.of = "auto" /\ asked.x.row[asked.x.field] # 0 =>
        LET x == asked.x
        IN IF x.shows = "" THEN answer.code = 200 /\ Shown(x.row, Readable(x.table)) \in Range(answer.items)
           ELSE IF x.shows \in Readable(x.table) THEN answer.code = 200 /\ Shown(x.row, {x.shows}) \in Range(answer.items)
           ELSE answer.code = 418
===============================================================================
