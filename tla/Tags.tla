--------------------------------- MODULE Tags ---------------------------------
(* Tags of records: paths, kept between slashes in a table beside, so that    *)
(* whoever begins as asked is found. A text is a sequence of characters.      *)
EXTENDS Calls

CONSTANTS TagTexts, TagTables, TagRecords

Slash == "/"
Strip(text) ==
    LET own == {i \in DOMAIN text : text[i] # Slash}
    IN IF own = {} THEN <<>> ELSE SubSeq(text, Min(own), Max(own))
Path(tag) == <<Slash>> \o Strip(tag) \o <<Slash>>
TagRow(record_id, tagpath) == [record_id |-> record_id, tagpath |-> tagpath]

get(table, record_id) == {Strip(row.tagpath) : row \in {row \in table : row.record_id = record_id}}
add(table, record_id, tags) == FoldLeft(LAMBDA t, tag : t \cup {TagRow(record_id, Path(tag))}, table, tags)
remove(table, record_id, tags) ==
    LET paths == {Path(tags[i]) : i \in DOMAIN tags} IN {row \in table : ~(row.record_id = record_id /\ row.tagpath \in paths)}
(* The records of which a tag begins with the path, for each of the tags or   *)
(* for one of them; asked for none, reduce raises.                            *)
FindTagged(table, tags, mode) ==
    LET found(tag) == {row.record_id : row \in {row \in table : IsPrefix(Path(tag), row.tagpath)}}
    IN IF tags = <<>> THEN Err
       ELSE Ok({r \in TagRecords : IF mode = "and" THEN \A i \in DOMAIN tags : r \in found(tags[i]) ELSE \E i \in DOMAIN tags : r \in found(tags[i])})

TagLists == {<<>>} \cup {<<t>> : t \in TagTexts} \cup {<<t, u>> : t, u \in TagTexts}
Tag1(op, table, record_id, tags, mode) == [op |-> op, table |-> table, record_id |-> record_id, tags |-> tags, mode |-> mode]
(* The table was filled by add.                                               *)
Filled(tagged) == UNION {add({}, r, <<t>>) : <<r, t>> \in tagged}
TagRecord ==
    \E tagged \in TagTables, tags \in TagLists :
        LET table == Filled(tagged)
        IN \/ \E r \in TagRecords : Ask("tags", Tag1("add", tagged, r, tags, ""), [table |-> add(table, r, tags), got |-> get(add(table, r, tags), r)])
           \/ \E r \in TagRecords : Ask("tags", Tag1("remove", tagged, r, tags, ""), [table |-> remove(table, r, tags), got |-> get(remove(table, r, tags), r)])
           \/ \E mode \in {"and", "or"} : Ask("tagged", Tag1("find", tagged, 0, tags, mode), FindTagged(table, tags, mode))

-------------------------------------------------------------------------------
(* The words of a tag. (Slashes at its ends are none of its own.)             *)
Words1(tag) ==
    LET text == Strip(tag)
        ends == SetToSortSeq({i \in DOMAIN text : text[i] = Slash} \cup {0, Len(text) + 1}, <)
    IN [i \in 1..(Len(ends) - 1) |-> SubSeq(text, ends[i] + 1, ends[i + 1] - 1)]

(* A record is found by the words its tags begin with, and by no part of one. *)
TagsAreFound ==
    asked.of = "tagged" /\ asked.x.tags # <<>> =>
        LET x == asked.x
            has(r, tag) == \E <<s, u>> \in x.table : s = r /\ IsPrefix(Words1(tag), Words1(u))
        IN answer.value = {r \in TagRecords : IF x.mode = "and" THEN \A i \in DOMAIN x.tags : has(r, x.tags[i]) ELSE \E i \in DOMAIN x.tags : has(r, x.tags[i])}

(* A record has the tags it was given, each once, until just they are taken   *)
(* from it; those of others stay.                                             *)
TagsAreKept ==
    asked.of = "tags" =>
        LET x == asked.x
            given == {Words1(x.tags[i]) : i \in DOMAIN x.tags}
            had == {Words1(u) : u \in {p[2] : p \in {p \in x.table : p[1] = x.record_id}}}
            others(table) == {row \in table : row.record_id # x.record_id}
        IN /\ {Words1(u) : u \in answer.got} = IF x.op = "add" THEN had \cup given ELSE had \ given
           /\ Cardinality({row \in answer.table : row.record_id = x.record_id}) = Cardinality(answer.got)
           /\ others(answer.table) = others(Filled(x.table))
===============================================================================
