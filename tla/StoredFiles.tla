------------------------------ MODULE StoredFiles ------------------------------
(* Upload fields: a file is stored under a name made of the field, a key and  *)
(* its own name in base 64, and is given back with its own name.              *)
(* A text is a sequence of the codes of its characters.                       *)
EXTENDS Calls

CONSTANTS FileNames,     \* as given, with or without directories; None2 if it is not
          UploadNames,      \* of what is uploaded: None2 for an open file that has none
          UploadFields,  \* [place, length, isattachment]; place is folder, separate, fs, column or field
          Paths          \* given to store and retrieve instead of the field's; "" if not

None2 == <<-1>>
NoneText == <<78, 111, 110, 101>>
IsWord(c) == c \in 48..57 \cup 65..90 \cup 97..122 \cup {95}
PrefixLength == 21     \* t.f., a key of 16 and a dot
BaseName(text) == LET seps == {i \in DOMAIN text : text[i] \in {47, 92}} IN SubSeq(text, Max(seps \cup {0}) + 1, Len(text))
Extension(name) ==
    LET dot == Max({i \in DOMAIN name : name[i] = 46} \cup {0})
        after == SubSeq(name, dot + 1, Len(name))
    IN IF dot > 0 /\ Len(after) \in 1..5 /\ \A i \in DOMAIN after : IsWord(after[i]) THEN after ELSE <<116, 120, 116>>

(* Base 64: four digits for three bytes, filled up with Padding.              *)
Padding == 64
b64encode(name) ==
    LET byte(i) == IF i > Len(name) THEN 0 ELSE name[i]
        digit(g, pos) == CASE pos = 0 -> byte(3 * g + 1) \div 4
                           [] pos = 1 -> (byte(3 * g + 1) % 4) * 16 + byte(3 * g + 2) \div 16
                           [] pos = 2 -> (byte(3 * g + 2) % 16) * 4 + byte(3 * g + 3) \div 64
                           [] pos = 3 -> byte(3 * g + 3) % 64
    IN [i \in 1..4 * ((Len(name) + 2) \div 3) |->
          LET g == (i - 1) \div 4  pos == (i - 1) % 4 IN IF pos > 1 /\ 3 * g + pos > Len(name) THEN Padding ELSE digit(g, pos)]
b64decode(digits) ==
    LET d(i) == IF digits[i] = Padding THEN 0 ELSE digits[i]
        size == (Len(digits) \div 4) * 3 - Cardinality({i \in DOMAIN digits : digits[i] = Padding})
        byte(g, pos) == CASE pos = 0 -> d(4 * g + 1) * 4 + d(4 * g + 2) \div 16
                          [] pos = 1 -> (d(4 * g + 2) % 16) * 16 + d(4 * g + 3) \div 4
                          [] pos = 2 -> (d(4 * g + 3) % 4) * 64 + d(4 * g + 4)
    IN IF Len(digits) % 4 # 0 THEN Err ELSE Ok([i \in 1..size |-> byte((i - 1) \div 3, (i - 1) % 3)])
(* A to F, a to f and 0 to 9 are digits to base 16 too, which is tried first. *)
IsHex(digits) == Len(digits) % 2 = 0 /\ \A i \in DOMAIN digits : digits[i] \in 0..5 \cup 26..31 \cup 52..61

-------------------------------------------------------------------------------
(* A name not given is the text None, which is taken for given; an empty one  *)
(* is that of the file.                                                       *)
Given(filename, own) == IF filename = None2 THEN NoneText ELSE IF filename = <<>> THEN own ELSE filename
StoredName(field, name) ==
    LET encoded == b64encode(name)  room == field.length - 1 - Len(Extension(name)) - PrefixLength
    IN [encoded |-> SubSeq(encoded, 1, Min({room, Len(encoded)})), extension |-> Extension(name)]
PlaceOf(field, path) ==
    CASE field.place \in {"column", "field", "fs"} -> <<field.place>>
      [] field.place = "folder" -> <<IF path = "" THEN "uploadfolder" ELSE path>>
      [] OTHER -> <<IF path = "" THEN "uploadfolder" ELSE path, "t.f", "key">>
(* A file of a column is written with its record, by whoever stored it.       *)
store(field, filename, own, path) ==
    IF Given(filename, own) = None2 THEN Err
    ELSE Ok([name |-> StoredName(field, BaseName(Given(filename, own))), place |-> PlaceOf(field, path)])
Unclean == {39, 34, 59, 32, 9, 10}
Squeezed(name) ==    \* what is unclean becomes _, several in a row one
    FoldLeft(LAMBDA text, i : IF name[i] \notin Unclean THEN Append(text, name[i])
                              ELSE IF i > 1 /\ name[i - 1] \in Unclean THEN text ELSE Append(text, 95),
             <<>>, [i \in DOMAIN name |-> i])
Mangled == <<-2>>      \* what the bytes say in UTF-8, or a UnicodeDecodeError
retrieve_file_properties(field, name, path) ==
    IF name.encoded = <<>> \/ ~field.isattachment THEN Err
    ELSE IF IsHex(name.encoded) THEN Ok(Mangled)
    ELSE IF b64decode(name.encoded).error THEN Err
    ELSE Ok(Squeezed(b64decode(name.encoded).value))
retrieve(field, stored, path) ==
    LET properties == retrieve_file_properties(field, stored.name, path)
    IN IF properties.error THEN Err ELSE Ok([name |-> properties.value, place |-> PlaceOf(field, path)])

StoreAndRetrieve ==
    \E field \in UploadFields, filename \in FileNames, own \in UploadNames, path \in Paths :
        LET stored == store(field, filename, own, path)
        IN Ask("upload", [field |-> field, filename |-> filename, own |-> own, path |-> path],
               [stored |-> stored, retrieved |-> IF stored.error THEN Err ELSE retrieve(field, stored.value, path)])

-------------------------------------------------------------------------------
(* A file is found where it was stored and comes back under the name it had,  *)
(* as long as its field is for attachments and has room for it, and its name  *)
(* has a dot; without any it may read as a number to base 16. (Where there is *)
(* no room the name comes back cut, or not at all.)                           *)
FilesComeBack ==
    asked.of = "upload" /\ ~answer.stored.error =>
        LET x == asked.x
            name == BaseName(Given(x.filename, x.own))
            room == x.field.length - 1 - Len(Extension(name)) - PrefixLength
            fits == Len(b64encode(name)) <= room
            r == answer.retrieved
        IN /\ x.field.isattachment /\ fits /\ name # <<>> /\ (\E i \in DOMAIN name : name[i] = 46)
              => ~r.error /\ r.value.name = Squeezed(name)
           /\ ~r.error => /\ r.value.place = answer.stored.value.place
                          /\ r.value.name = Mangled \/ IsPrefix(r.value.name, Squeezed(name))
           /\ Len(answer.stored.value.name.encoded) + Len(answer.stored.value.name.extension) + PrefixLength + 1 <= x.field.length
================================================================================
