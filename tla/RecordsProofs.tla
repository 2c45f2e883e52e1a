----------------------------- MODULE RecordsProofs -----------------------------
(* Records, for any number of clients, keys, records and files: the types,    *)
(* one record with a key, the history of every record, and the upload folder,  *)
(* which has the files of the records and no others.                          *)
EXTENDS Records, TLAPS

Inserting == {"insert", "insert row"}
Changing == {"before", "upload", "archive", "write"}

(* What a call has found out so far.                                          *)
Prepared(c) ==
    \/ call[c] = NoCall
    \/ /\ call[c].at \in Inserting /\ (\E k \in Keys : call[c].key = {k}) /\ call[c].id = 0
       /\ call[c].at = "insert" => call[c].file = 0
       /\ call[c].at = "insert row" => call[c].file \in Files /\ buffer[c].touched
    \/ /\ call[c].at \in Changing /\ call[c].id \in Ids /\ call[c].op \in {"update", "delete"}
       /\ call[c].at = "upload" => call[c].op = "update"
       /\ call[c].at \in {"before", "upload"} \/ call[c].op = "delete" => call[c].file = 0
       /\ call[c].at \in {"archive", "write"} /\ call[c].op = "update" => call[c].file \in Files /\ buffer[c].touched
CallsPrepared == \A c \in Clients : Prepared(c)

(* A row is written by one client at a time, and by none before it is         *)
(* inserted.                                                                  *)
OneWriter == \A c, d \in Clients, i \in Ids : Touches(c, i) /\ Touches(d, i) => c = d
NotYetInserted == \A i \in Ids : i >= nextId => rows[i] = Absent /\ \A c \in Clients : ~Touches(c, i)

(* What a client sees and is about to do, if nobody has outdated its looks.    *)
Fresh(c) == ~raced /\ ~stale[c]
Distinct(f) == \A i, j \in Ids : IsActive(f[i]) /\ IsActive(f[j]) /\ f[i].key = f[j].key => i = j
InsertsNew(c) ==
    call[c].at \in Inserting =>
       call[c].key \subseteq looked[c] /\ \A i \in Ids : IsActive(View(c)[i]) => View(c)[i].key # call[c].key
ChangesSeen(c) ==
    call[c].at \in Changing => IsActive(View(c)[call[c].id]) /\ View(c)[call[c].id].key \subseteq looked[c]
WroteSeen(c) == \A i \in Ids : Touches(c, i) => buffer[c].rows[i].key \subseteq looked[c]

(* What a transaction is about to replace is archived.                        *)
Archived(c, i, f) == <<i, f>> \in archive \cup buffer[c].archive
WriteArchived(c) == versioned /\ call[c].at = "write" => Archived(c, call[c].id, View(c)[call[c].id].file)
WrittenArchived(c) == versioned => \A i \in Ids : Touches(c, i) /\ rows[i] # Absent => Archived(c, i, rows[i].file)

Sees(c) ==
    Distinct(View(c)) /\ InsertsNew(c) /\ ChangesSeen(c) /\ WroteSeen(c) /\ WriteArchived(c) /\ WrittenArchived(c)
Sight == \A c \in Clients : Fresh(c) => Sees(c)

KeysInv == TypeOK /\ CallsPrepared /\ OneWriter /\ NotYetInserted /\ OneRecordPerKey /\ Sight

-------------------------------------------------------------------------------
(* What rows are, and what a write makes of them.                             *)
LEMMA RowFacts ==
  ASSUME NEW r \in Rows
  PROVE  /\ r # Untouched /\ r.key \in SUBSET Keys
         /\ r # Absent => r.file \in Files /\ r.is_active \in BOOLEAN /\ r.key # {}
<1>1. CASE r = Absent
  <2>1. DOMAIN Absent = {"key"} /\ DOMAIN Untouched = {"key", "by"} /\ "by" # "key"
    BY DEF Absent, Untouched
  <2>2. Absent # Untouched /\ Absent.key = {}
    BY <2>1 DEF Absent
  <2> QED
    BY <1>1, <2>2
<1>2. CASE r # Absent
  <2>1. PICK k \in Keys, f \in Files, a \in BOOLEAN : r = Record(k, f, a)
    BY <1>2 DEF Rows
  <2>2. r.key = {k} /\ r.file = f /\ r.is_active = a
    BY <2>1 DEF Record
  <2>3. Untouched.key = {}
    BY DEF Untouched
  <2> QED
    BY <2>2, <2>3
<1> QED
  BY <1>1, <1>2

LEMMA WrittenFacts ==
  ASSUME NEW r \in Rows, r # Absent, NEW cl, cl.op = "update" => cl.file \in Files, NEW w, w = Written(r, cl)
  PROVE  /\ w \in Rows /\ w.key \subseteq r.key
         /\ w # Absent => w.key = r.key
         /\ IsActive(w) => IsActive(r) /\ cl.op = "update"
         /\ cl.op = "update" => w # Absent /\ w.file = cl.file
         /\ cl.op # "update" /\ w # Absent => w.file = r.file
<1>1. PICK k \in Keys, f \in Files, a \in BOOLEAN : r = Record(k, f, a)
  BY DEF Rows
<1>2. r.key = {k} /\ r.file = f /\ r.is_active = a
  BY <1>1 DEF Record
<1>3. CASE cl.op = "update"
  <2>1. w = Record(k, cl.file, a)
    BY <1>1, <1>3 DEF Written, Record
  <2>2. w \in Rows /\ w.key = {k} /\ w.file = cl.file /\ w.is_active = a
    <3>1. w \in Rows
      BY <1>3, <2>1 DEF Rows
    <3> QED
      BY <2>1, <3>1 DEF Record
  <2>3. w # Absent
    BY <2>2 DEF Absent
  <2> QED
    BY <1>2, <1>3, <2>2, <2>3 DEF IsActive
<1>4. CASE cl.op # "update" /\ cl.op = "delete" /\ versioned
  <2>1. w = Record(k, f, FALSE)
    BY <1>1, <1>4 DEF Written, Record
  <2>2. w \in Rows /\ w.key = {k} /\ w.file = f /\ w.is_active = FALSE
    <3>1. \A b \in BOOLEAN : Record(k, f, b) \in Rows
      BY DEF Rows
    <3>2. w \in Rows
      BY <2>1, <3>1
    <3> QED
      BY <2>1, <3>2 DEF Record
  <2> QED
    BY <1>2, <1>4, <2>2 DEF IsActive
<1>5. CASE cl.op # "update" /\ ~(cl.op = "delete" /\ versioned)
  <2>1. w = Absent
    BY <1>5 DEF Written
  <2>2. w \in Rows /\ w.key = {}
    BY <2>1 DEF Rows, Absent
  <2> QED
    BY <1>5, <2>1, <2>2 DEF IsActive
<1> QED
  BY <1>3, <1>4, <1>5

(* What a client sees of a row is a row.                                      *)
LEMMA ViewFacts ==
  ASSUME TypeOK, NEW c \in Clients, NEW i \in Ids
  PROVE  /\ View(c)[i] \in Rows
         /\ Touches(c, i) => View(c)[i] = buffer[c].rows[i]
         /\ ~Touches(c, i) => View(c)[i] = rows[i]
<1>1. rows[i] \in Rows /\ buffer[c].rows[i] \in Rows \cup {Untouched}
  BY DEF TypeOK, Buffers
<1>2. View(c)[i] = IF Touches(c, i) THEN buffer[c].rows[i] ELSE rows[i]
  BY DEF View
<1> QED
  BY <1>1, <1>2 DEF Touches
-------------------------------------------------------------------------------
(* Types. A call keeps what the later steps need of the earlier ones.         *)
Others(c) == \A d \in Clients \ {c} : call'[d] = call[d] /\ buffer'[d] = buffer[d] /\ looked'[d] = looked[d]

LEMMA PreparedFacts ==
  ASSUME NEW c \in Clients, Prepared(c)
  PROVE  /\ call[c].at \in Inserting => (\E k \in Keys : call[c].key = {k}) /\ call[c].id = 0
         /\ call[c].at = "insert" => call[c].file = 0
         /\ call[c].at = "insert row" => call[c].file \in Files /\ buffer[c].touched
         /\ call[c].at \in Changing => call[c].id \in Ids /\ call[c].op \in {"update", "delete"}
         /\ call[c].at = "upload" => call[c].op = "update"
         /\ call[c].at \in {"before", "upload"} => call[c].file = 0
         /\ call[c].at \in Changing /\ call[c].op = "delete" => call[c].file = 0
         /\ call[c].at \in {"archive", "write"} /\ call[c].op = "update" => call[c].file \in Files /\ buffer[c].touched
<1>1. NoCall.at \notin Inserting \cup Changing
  BY DEF NoCall, Inserting, Changing
<1>2. CASE call[c] = NoCall
  BY <1>1, <1>2 DEF Inserting, Changing
<1>3. CASE call[c].at \in Inserting /\ call[c] # NoCall
  <2>1. call[c].at \notin Changing
    BY <1>3 DEF Inserting, Changing
  <2> QED
    BY <1>3, <2>1 DEF Prepared, Changing
<1>4. CASE call[c].at \in Changing /\ call[c] # NoCall
  <2>1. call[c].at \notin Inserting
    BY <1>4 DEF Inserting, Changing
  <2> QED
    BY <1>4, <2>1 DEF Prepared, Inserting
<1> QED
  BY <1>2, <1>3, <1>4 DEF Prepared

LEMMA RowPut ==
  ASSUME NEW b \in Buffers, NEW i \in Ids, NEW r \in Rows
  PROVE  [b EXCEPT !.rows[i] = r] \in Buffers
<1>1. b.rows \in [Ids -> Rows \cup {Untouched}]
  BY DEF Buffers
<1>2. [b.rows EXCEPT ![i] = r] \in [Ids -> Rows \cup {Untouched}]
  BY <1>1
<1> QED
  BY <1>2 DEF Buffers

LEMMA PreparedFrame ==
  ASSUME CallsPrepared, NEW c \in Clients, Others(c), Prepared(c)'
  PROVE  CallsPrepared'
<1>1. ASSUME NEW d \in Clients \ {c} PROVE Prepared(d)'
  <2>1. Prepared(d) /\ call'[d] = call[d] /\ buffer'[d] = buffer[d]
    BY DEF CallsPrepared, Others
  <2> QED
    BY <2>1 DEF Prepared
<1> QED
  BY <1>1 DEF CallsPrepared

LEMMA TypesInit == Init => TypeOK /\ CallsPrepared
<1> SUFFICES ASSUME Init PROVE TypeOK /\ CallsPrepared
  OBVIOUS
<1>1. NoCall \in Calls
  BY DEF NoCall, Calls, Places
<1>2. Empty \in Buffers
  BY DEF Empty, Buffers
<1>3. Absent \in Rows
  BY DEF Rows
<1>4. buffer \in [Clients -> Buffers] /\ call \in [Clients -> Calls] /\ rows \in [Ids -> Rows]
  BY <1>1, <1>2, <1>3 DEF Init
<1>5. nextId \in 1..(MaxId + 1) /\ nextFile \in 1..(MaxFile + 1)
  BY RecordsAssumption DEF Init
<1>6. CallsPrepared
  BY DEF Init, CallsPrepared, Prepared
<1> QED
  BY <1>4, <1>5, <1>6 DEF Init, TypeOK

LEMMA TypesStep ==
  ASSUME TypeOK, CallsPrepared, Next
  PROVE  TypeOK' /\ CallsPrepared'
<1>a. MaxId \in Nat /\ MaxFile \in Nat /\ nextId \in 1..(MaxId + 1) /\ nextFile \in 1..(MaxFile + 1)
  BY RecordsAssumption DEF TypeOK
<1>b. (nextId <= MaxId => nextId \in Ids /\ nextId + 1 \in 1..(MaxId + 1)) /\ (nextFile <= MaxFile => nextFile \in Files /\ nextFile + 1 \in 1..(MaxFile + 1))
  BY <1>a DEF Ids, Files
<1>0. PICK c \in Clients :
         \/ \E k \in Keys, op \in {"update_or_insert", "validate_and_insert"} : LookUp(c, k, op)
         \/ \E i \in Ids, op \in {"update", "delete"} : Begin(c, i, op)
         \/ StoreForInsert(c) \/ InsertRow(c)
         \/ DeleteUploadedFiles(c) \/ StoreForUpdate(c) \/ ArchiveRecord(c) \/ Write(c)
         \/ Commit(c) \/ Rollback(c)
  BY DEF Next
<1>p. Prepared(c) /\ call[c] \in Calls /\ buffer[c] \in Buffers
  BY DEF CallsPrepared, TypeOK
<1>1. ASSUME NEW k \in Keys, NEW op \in {"update_or_insert", "validate_and_insert"}, LookUp(c, k, op)
      PROVE  TypeOK' /\ CallsPrepared'
  <2>1. call' = [call EXCEPT ![c] = call'[c]] /\ call'[c] \in Calls /\ Prepared(c)' /\ Others(c)
    <3>1. CASE Matching(c, k) = {} /\ call' = [call EXCEPT ![c] = [NoCall EXCEPT !.at = "insert", !.key = {k}, !.op = op]]
      BY <1>1, <3>1 DEF LookUp, TypeOK, NoCall, Calls, Places, Prepared, Inserting, Others
    <3>2. CASE call' = call
      BY <1>1, <3>2 DEF LookUp, TypeOK, Others, Prepared
    <3>3. ASSUME NEW i \in Matching(c, k), call' = [call EXCEPT ![c] = [NoCall EXCEPT !.at = "before", !.id = i, !.op = "update"]]
          PROVE  call' = [call EXCEPT ![c] = call'[c]] /\ call'[c] \in Calls /\ Prepared(c)' /\ Others(c)
      <4>1. i \in Ids
        BY DEF Matching
      <4>2. call'[c] = [at |-> "before", id |-> i, key |-> {}, op |-> "update", file |-> 0, filter |-> FALSE]
        BY <3>3 DEF TypeOK, NoCall
      <4>3. call'[c] \in Calls
        BY <4>1, <4>2 DEF Calls, Places
      <4>4. Prepared(c)'
        BY <4>1, <4>2 DEF Prepared, Changing
      <4> QED
        BY <1>1, <3>3, <4>3, <4>4 DEF LookUp, TypeOK, Others
    <3> QED
      BY <1>1, <3>1, <3>2, <3>3 DEF LookUp
  <2>2. TypeOK'
    BY <1>1, <2>1 DEF LookUp, Store, TypeOK
  <2> QED
    BY <2>1, <2>2, PreparedFrame
<1>2. ASSUME NEW i \in Ids, NEW op \in {"update", "delete"}, Begin(c, i, op)
      PROVE  TypeOK' /\ CallsPrepared'
  <2>1. View(c)[i].key \in SUBSET Keys
    BY ViewFacts, RowFacts
  <2>2. call' = [call EXCEPT ![c] = call'[c]] /\ call'[c] \in Calls /\ Prepared(c)' /\ Others(c)
    <3>1. call'[c] = [at |-> "before", id |-> i, key |-> {}, op |-> op, file |-> 0, filter |-> TRUE]
      BY <1>2 DEF Begin, TypeOK, NoCall
    <3>2. call'[c] \in Calls
      BY <3>1 DEF Calls, Places
    <3>3. Prepared(c)'
      BY <3>1 DEF Prepared, Changing
    <3> QED
      BY <1>2, <3>2, <3>3 DEF Begin, TypeOK, Others
  <2>3. TypeOK'
    BY <1>2, <2>1, <2>2 DEF Begin, Store, TypeOK
  <2> QED
    BY <2>2, <2>3, PreparedFrame
<1>3. CASE StoreForInsert(c)
  <2>1. nextFile \in Files /\ nextFile + 1 \in 1..(MaxFile + 1)
    BY <1>3, <1>b DEF StoreForInsert
  <2>2. /\ call' = [call EXCEPT ![c] = call'[c]] /\ call'[c] \in Calls
        /\ buffer' = [buffer EXCEPT ![c] = buffer'[c]] /\ buffer'[c] \in Buffers
        /\ Prepared(c)' /\ Others(c)
    <3>1. call'[c] = [call[c] EXCEPT !.at = "insert row", !.file = nextFile] /\ buffer'[c] = [buffer[c] EXCEPT !.touched = TRUE]
      BY <1>3 DEF StoreForInsert, NewName, TypeOK
    <3>2. call[c].at = "insert" /\ (\E k \in Keys : call[c].key = {k}) /\ call[c].id = 0
      BY <1>3, <1>p, PreparedFacts DEF StoreForInsert, Inserting
    <3>3. call'[c] \in Calls /\ buffer'[c] \in Buffers
      <4>1. call'[c] \in Calls
        BY <1>p, <2>1, <3>1 DEF Calls, Places
      <4>2. buffer'[c] \in Buffers
        BY <1>p, <2>1, <3>1 DEF Buffers
      <4> QED
        BY <4>1, <4>2
    <3>4. Prepared(c)'
      BY <1>p, <2>1, <3>1, <3>2 DEF Prepared, Inserting, Calls, Buffers
    <3> QED
      BY <1>3, <3>3, <3>4 DEF StoreForInsert, TypeOK, Others
  <2>3. TypeOK'
    BY <1>3, <2>1, <2>2 DEF StoreForInsert, NewName, Store, TypeOK
  <2> QED
    BY <2>2, <2>3, PreparedFrame
<1>4. CASE InsertRow(c)
  <2>1. nextId \in Ids /\ nextId + 1 \in 1..(MaxId + 1) /\ call[c].file \in Files
    <3>1. call[c].at = "insert row"
      BY <1>4 DEF InsertRow
    <3> QED
      BY <1>4, <1>b, <1>p, <3>1, PreparedFacts DEF InsertRow
  <2>2. PICK k \in call[c].key : buffer' = [buffer EXCEPT ![c].rows[nextId] = Record(k, call[c].file, TRUE)]
    BY <1>4 DEF InsertRow
  <2>3. Record(k, call[c].file, TRUE) \in Rows
    <3>1. k \in Keys
      BY <1>p DEF Calls
    <3>2. \A a \in BOOLEAN : Record(k, call[c].file, a) \in Rows
      BY <2>1, <3>1 DEF Rows
    <3> QED
      BY <3>2
  <2>4. /\ call' = [call EXCEPT ![c] = call'[c]] /\ call'[c] = NoCall /\ NoCall \in Calls
        /\ buffer' = [buffer EXCEPT ![c] = buffer'[c]] /\ buffer'[c] \in Buffers
        /\ Prepared(c)' /\ Others(c)
    <3>1. call'[c] = NoCall /\ buffer'[c] = [buffer[c] EXCEPT !.rows[nextId] = Record(k, call[c].file, TRUE)]
      BY <1>4, <2>2 DEF InsertRow, TypeOK
    <3>2. NoCall \in Calls
      BY DEF NoCall, Calls, Places
    <3>3. [buffer[c] EXCEPT !.rows[nextId] = Record(k, call[c].file, TRUE)] \in Buffers
      BY <1>p, <2>1, <2>3, RowPut
    <3>4. Prepared(c)'
      BY <3>1 DEF Prepared
    <3> QED
      BY <1>4, <2>2, <3>1, <3>2, <3>3, <3>4 DEF InsertRow, TypeOK, Others
  <2>5. TypeOK'
    BY <1>4, <2>1, <2>4 DEF InsertRow, Store, TypeOK
  <2> QED
    BY <2>4, <2>5, PreparedFrame
<1>5. CASE DeleteUploadedFiles(c)
  <2>1. call[c].at = "before" /\ call[c].id \in Ids /\ call[c].op \in {"update", "delete"} /\ call[c].file = 0
    BY <1>5, <1>p, PreparedFacts DEF DeleteUploadedFiles, Changing
  <2>2. \E at \in {"upload", "archive", "write"} :
           /\ call' = [call EXCEPT ![c].at = at]
           /\ at = "upload" <=> call[c].op = "update"
    BY <1>5, <2>1 DEF DeleteUploadedFiles
  <2>3. \E b \in BOOLEAN : buffer' = [buffer EXCEPT ![c].touched = b]
    BY <1>5, <1>p DEF DeleteUploadedFiles, Buffers
  <2>4. /\ call' = [call EXCEPT ![c] = call'[c]] /\ call'[c] \in Calls
        /\ buffer' = [buffer EXCEPT ![c] = buffer'[c]] /\ buffer'[c] \in Buffers
        /\ Prepared(c)' /\ Others(c)
    <3>1. PICK at \in {"upload", "archive", "write"} : call' = [call EXCEPT ![c].at = at] /\ (at = "upload" <=> call[c].op = "update")
      BY <2>2
    <3>2. PICK b \in BOOLEAN : buffer' = [buffer EXCEPT ![c].touched = b]
      BY <2>3
    <3>3. call'[c] = [call[c] EXCEPT !.at = at] /\ buffer'[c] = [buffer[c] EXCEPT !.touched = b]
      BY <3>1, <3>2 DEF TypeOK
    <3>4. call'[c] \in Calls /\ buffer'[c] \in Buffers
      <4>1. call'[c] \in Calls
        BY <1>p, <3>3 DEF Calls, Places
      <4>2. buffer'[c] \in Buffers
        BY <1>p, <3>3 DEF Buffers
      <4> QED
        BY <4>1, <4>2
    <3>5. Prepared(c)'
      <4>1. call'[c].at = at /\ call'[c].id = call[c].id /\ call'[c].op = call[c].op /\ call'[c].file = 0
        BY <1>p, <2>1, <3>3 DEF Calls
      <4> QED
        BY <2>1, <3>1, <4>1 DEF Prepared, Changing
    <3> QED
      BY <1>5, <3>1, <3>2, <3>4, <3>5 DEF DeleteUploadedFiles, TypeOK, Others
  <2>5. TypeOK'
    BY <1>5, <2>4 DEF DeleteUploadedFiles, Store, TypeOK
  <2> QED
    BY <2>4, <2>5, PreparedFrame
<1>6. CASE StoreForUpdate(c)
  <2>1. nextFile \in Files /\ nextFile + 1 \in 1..(MaxFile + 1)
    BY <1>6, <1>b DEF StoreForUpdate
  <2>2. call[c].at = "upload" /\ call[c].id \in Ids /\ call[c].op = "update"
    BY <1>6, <1>p, PreparedFacts DEF StoreForUpdate, Changing
  <2>3. /\ call' = [call EXCEPT ![c] = call'[c]] /\ call'[c] \in Calls
        /\ buffer' = [buffer EXCEPT ![c] = buffer'[c]] /\ buffer'[c] \in Buffers
        /\ Prepared(c)' /\ Others(c)
    <3>1. PICK at \in {"archive", "write"} : call' = [call EXCEPT ![c].file = nextFile, ![c].at = at]
      BY <1>6 DEF StoreForUpdate, NewName
    <3>2. call'[c] = [call[c] EXCEPT !.file = nextFile, !.at = at] /\ buffer'[c] = [buffer[c] EXCEPT !.touched = TRUE]
      BY <1>6, <3>1 DEF StoreForUpdate, TypeOK
    <3>3. call'[c] \in Calls /\ buffer'[c] \in Buffers
      <4>1. call'[c] \in Calls
        BY <1>p, <2>1, <3>2 DEF Calls, Places
      <4>2. buffer'[c] \in Buffers
        BY <1>p, <2>1, <3>2 DEF Buffers
      <4> QED
        BY <4>1, <4>2
    <3>4. Prepared(c)'
      BY <1>p, <2>1, <2>2, <3>2 DEF Prepared, Changing, Calls, Buffers
    <3> QED
      BY <1>6, <3>1, <3>3, <3>4 DEF StoreForUpdate, TypeOK, Others
  <2>4. TypeOK'
    BY <1>6, <2>1, <2>3 DEF StoreForUpdate, NewName, Store, TypeOK
  <2> QED
    BY <2>3, <2>4, PreparedFrame
<1>7. CASE ArchiveRecord(c)
  <2>1. call[c].at = "archive" /\ call[c].id \in Ids
    BY <1>7, <1>p, PreparedFacts DEF ArchiveRecord, Changing
  <2>2. PICK old \in SUBSET (Ids \X Files) : buffer' = [buffer EXCEPT ![c].archive = @ \cup old]
    <3>1. Selected(c, call[c].id, call[c].filter) => Version(c, call[c].id) \in Files
      BY <2>1, ViewFacts, RowFacts DEF Selected, Version
    <3> DEFINE old == IF Selected(c, call[c].id, call[c].filter) THEN {<<call[c].id, Version(c, call[c].id)>>} ELSE {}
    <3>2. old \in SUBSET (Ids \X Files)
      BY <2>1, <3>1
    <3>3. buffer' = [buffer EXCEPT ![c].archive = @ \cup old]
      BY <1>7 DEF ArchiveRecord
    <3> QED
      BY <3>2, <3>3
  <2>3. /\ call' = [call EXCEPT ![c] = call'[c]] /\ call'[c] \in Calls
        /\ buffer' = [buffer EXCEPT ![c] = buffer'[c]] /\ buffer'[c] \in Buffers
        /\ Prepared(c)' /\ Others(c)
    <3>1. call'[c] = [call[c] EXCEPT !.at = "write"] /\ buffer'[c] = [buffer[c] EXCEPT !.archive = @ \cup old]
      BY <1>7, <2>2 DEF ArchiveRecord, TypeOK
    <3>2. call'[c] \in Calls /\ buffer'[c] \in Buffers
      <4>1. call'[c] \in Calls
        BY <1>p, <3>1 DEF Calls, Places
      <4>2. buffer'[c] \in Buffers
        BY <1>p, <3>1 DEF Buffers
      <4> QED
        BY <4>1, <4>2
    <3>3. Prepared(c)'
      BY <1>p, <2>1, <3>1 DEF Prepared, NoCall, Inserting, Changing, Calls, Buffers
    <3> QED
      BY <1>7, <2>2, <3>2, <3>3 DEF ArchiveRecord, TypeOK, Others
  <2>4. TypeOK'
    BY <1>7, <2>3 DEF ArchiveRecord, Store, TypeOK
  <2> QED
    BY <2>3, <2>4, PreparedFrame
<1>8. CASE Write(c)
  <2>1. call[c].at = "write" /\ call[c].id \in Ids /\ (call[c].op = "update" => call[c].file \in Files)
    BY <1>8, <1>p, PreparedFacts DEF Write, Changing
  <2>2. /\ buffer' = [buffer EXCEPT ![c] = buffer'[c]] /\ buffer'[c] \in Buffers
        /\ \A d \in Clients \ {c} : buffer'[d] = buffer[d]
    <3>1. CASE Selected(c, call[c].id, call[c].filter)
      <4>1. Written(View(c)[call[c].id], call[c]) \in Rows
        BY <2>1, <3>1, ViewFacts, WrittenFacts DEF Selected
      <4> DEFINE put == [buffer[c] EXCEPT !.rows[call[c].id] = Written(View(c)[call[c].id], call[c])]
      <4>2. buffer'[c] = [put EXCEPT !.touched = TRUE]
        BY <1>8, <3>1 DEF Write, TypeOK
      <4>3. buffer'[c] \in Buffers
        <5>1. put \in Buffers
          BY <1>p, <2>1, <4>1, RowPut
        <5> HIDE DEF put
        <5> QED
          BY <4>2, <5>1 DEF Buffers
      <4> QED
        BY <1>8, <3>1, <4>3 DEF Write, TypeOK
    <3>2. CASE ~Selected(c, call[c].id, call[c].filter)
      BY <1>8, <1>p, <3>2 DEF Write, TypeOK
    <3> QED
      BY <3>1, <3>2
  <2>3. /\ call' = [call EXCEPT ![c] = call'[c]] /\ call'[c] = NoCall /\ NoCall \in Calls
        /\ Prepared(c)' /\ Others(c)
    <3>1. call'[c] = NoCall
      BY <1>8 DEF Write, TypeOK
    <3>2. NoCall \in Calls
      BY DEF NoCall, Calls, Places
    <3>3. Prepared(c)'
      BY <3>1 DEF Prepared
    <3> QED
      BY <1>8, <2>2, <3>1, <3>2, <3>3 DEF Write, TypeOK, Others
  <2>4. TypeOK'
    BY <1>8, <2>2, <2>3 DEF Write, Store, TypeOK
  <2> QED
    BY <2>3, <2>4, PreparedFrame
<1>9. CASE Commit(c)
  <2>1. Empty \in Buffers
    BY DEF Empty, Buffers
  <2>2. View(c) \in [Ids -> Rows]
    <3>1. \A i \in Ids : View(c)[i] \in Rows
      BY ViewFacts
    <3> QED
      BY <3>1 DEF View
  <2>3. Prepared(c)' /\ Others(c)
    BY <1>9 DEF Commit, EndTransaction, TypeOK, Prepared, Others
  <2>4. TypeOK'
    BY <1>9, <1>p, <2>1, <2>2 DEF Commit, EndTransaction, TypeOK, Buffers
  <2> QED
    BY <2>3, <2>4, PreparedFrame
<1>10. CASE Rollback(c)
  <2>1. Empty \in Buffers /\ NoCall \in Calls
    BY DEF Empty, Buffers, NoCall, Calls, Places
  <2>2. Prepared(c)' /\ Others(c)
    BY <1>10 DEF Rollback, EndTransaction, TypeOK, Prepared, Others
  <2>3. TypeOK'
    BY <1>10, <1>p, <2>1 DEF Rollback, EndTransaction, TypeOK, Buffers
  <2> QED
    BY <2>2, <2>3, PreparedFrame
<1> QED
  BY <1>0, <1>1, <1>2, <1>3, <1>4, <1>5, <1>6, <1>7, <1>8, <1>9, <1>10
-------------------------------------------------------------------------------
(* One record with a key, and its history. What a step of another does not    *)
(* touch, a client sees as before.                                            *)
LEMMA SameView ==
  ASSUME NEW d \in Clients, rows' = rows, buffer'[d].rows = buffer[d].rows
  PROVE  \A i \in Ids : View(d)'[i] = View(d)[i] /\ Touches(d, i)' = Touches(d, i)
BY DEF View, Touches

LEMMA SightFrame ==
  ASSUME NEW d \in Clients, Sees(d), Prepared(d),
         \A i \in Ids : View(d)'[i] = View(d)[i],
         \A i \in Ids : Touches(d, i) => rows'[i] = rows[i],
         call'[d] = call[d], buffer'[d] = buffer[d], looked'[d] = looked[d],
         versioned' = versioned, archive \subseteq archive'
  PROVE  Sees(d)'
<1>1. Distinct(View(d))'
  BY DEF Sees, Distinct
<1>2. InsertsNew(d)'
  BY DEF Sees, InsertsNew
<1>3. ChangesSeen(d)'
  <2>1. CASE call[d].at \in Changing
    <3>1. call[d].id \in Ids
      BY <2>1, PreparedFacts
    <3>2. View(d)'[call[d].id] = View(d)[call[d].id]
      BY <3>1
    <3> QED
      BY <2>1, <3>2 DEF Sees, ChangesSeen
  <2>2. CASE call[d].at \notin Changing
    BY <2>2 DEF ChangesSeen
  <2> QED
    BY <2>1, <2>2
<1>4. \A i \in Ids : Touches(d, i)' = Touches(d, i)
  BY DEF Touches
<1>5. WroteSeen(d)'
  BY <1>4 DEF Sees, WroteSeen
<1>6. \A i, f : Archived(d, i, f) => Archived(d, i, f)'
  BY DEF Archived
<1>7. WriteArchived(d)'
  <2>1. CASE call[d].at = "write"
    <3>1. call[d].id \in Ids
      BY <2>1, PreparedFacts DEF Changing
    <3>2. View(d)'[call[d].id] = View(d)[call[d].id]
      BY <3>1
    <3> QED
      BY <1>6, <2>1, <3>2 DEF Sees, WriteArchived
  <2>2. CASE call[d].at # "write"
    BY <2>2 DEF WriteArchived
  <2> QED
    BY <2>1, <2>2
<1>8. WrittenArchived(d)'
  BY <1>4, <1>6 DEF Sees, WrittenArchived
<1> QED
  BY <1>1, <1>2, <1>3, <1>5, <1>7, <1>8 DEF Sees

(* A step that writes no row and ends no transaction.                         *)
Quiet(c) ==
    /\ rows' = rows /\ archive' = archive /\ versioned' = versioned /\ nextId' = nextId
    /\ stale' = stale /\ raced' = raced
    /\ Others(c) /\ buffer'[c].rows = buffer[c].rows /\ buffer[c].archive \subseteq buffer'[c].archive
    /\ looked[c] \subseteq looked'[c]

LEMMA QuietStep ==
  ASSUME KeysInv, TypeOK', CallsPrepared', NEW c \in Clients, Quiet(c),
         Fresh(c) /\ Sees(c) => (InsertsNew(c) /\ ChangesSeen(c) /\ WriteArchived(c))'
  PROVE  KeysInv'
<1>1. \A d \in Clients : buffer'[d].rows = buffer[d].rows
  BY DEF Quiet, Others
<1>2. \A d \in Clients, i \in Ids : View(d)'[i] = View(d)[i] /\ Touches(d, i)' = Touches(d, i)
  BY <1>1, SameView DEF Quiet
<1>3. OneWriter' /\ NotYetInserted'
  BY <1>2 DEF KeysInv, OneWriter, NotYetInserted, Quiet
<1>4. OneRecordPerKey'
  BY DEF KeysInv, OneRecordPerKey, Quiet
<1>5. ASSUME NEW d \in Clients, Fresh(d)' PROVE Sees(d)'
  <2>1. Fresh(d) /\ Sees(d) /\ Prepared(d)
    BY <1>5 DEF KeysInv, Sight, Fresh, Quiet, CallsPrepared
  <2>2. CASE d # c
    BY <1>2, <2>1, <2>2, SightFrame DEF Quiet, Others
  <2>3. CASE d = c
    <3>1. Distinct(View(d))'
      BY <1>2, <2>1 DEF Sees, Distinct
    <3>2. WroteSeen(d)'
      BY <1>1, <1>2, <2>1, <2>3 DEF Sees, WroteSeen, Quiet
    <3>3. WrittenArchived(d)'
      BY <1>2, <2>1, <2>3 DEF Sees, WrittenArchived, Archived, Quiet
    <3> QED
      BY <2>1, <2>3, <3>1, <3>2, <3>3 DEF Sees
  <2> QED
    BY <2>2, <2>3
<1> QED
  BY <1>3, <1>4, <1>5 DEF KeysInv, Sight

LEMMA LookUpStep ==
  ASSUME KeysInv, TypeOK', CallsPrepared', NEW c \in Clients, NEW k \in Keys,
         NEW op \in {"update_or_insert", "validate_and_insert"}, LookUp(c, k, op)
  PROVE  KeysInv'
<1>1. TypeOK /\ looked'[c] = looked[c] \cup {k}
  BY DEF KeysInv, LookUp, TypeOK
<1>2. \A i \in Ids : View(c)'[i] = View(c)[i]
  BY SameView DEF LookUp, Store
<1>3. CASE Matching(c, k) = {} /\ call' = [call EXCEPT ![c] = [NoCall EXCEPT !.at = "insert", !.key = {k}, !.op = op]]
  <2>1. Quiet(c) /\ call'[c].at = "insert" /\ call'[c].key = {k}
    BY <1>1, <1>3 DEF LookUp, Store, TypeOK, NoCall, Quiet, Others
  <2>2. \A i \in Ids : IsActive(View(c)[i]) => View(c)[i].key # {k}
    BY <1>3 DEF Matching
  <2>3. InsertsNew(c)' /\ ChangesSeen(c)' /\ WriteArchived(c)'
    BY <1>1, <1>2, <2>1, <2>2 DEF InsertsNew, ChangesSeen, WriteArchived, Changing
  <2> QED
    BY <2>1, <2>3, QuietStep
<1>4. CASE call' = call
  <2>1. Quiet(c) /\ call'[c].at = "idle"
    <3>1. call'[c] = NoCall /\ NoCall.at = "idle"
      BY <1>4 DEF LookUp, NoCall
    <3>2. looked' = [looked EXCEPT ![c] = @ \cup {k}] /\ buffer' = buffer /\ nextId' = nextId /\ Store
      BY DEF LookUp
    <3> QED
      BY <1>1, <1>4, <3>1, <3>2 DEF Store, Quiet, Others, TypeOK
  <2>2. InsertsNew(c)' /\ ChangesSeen(c)' /\ WriteArchived(c)'
    BY <2>1 DEF InsertsNew, ChangesSeen, WriteArchived, Changing, Inserting
  <2> QED
    BY <2>1, <2>2, QuietStep
<1>5. ASSUME NEW i \in Matching(c, k), call' = [call EXCEPT ![c] = [NoCall EXCEPT !.at = "before", !.id = i, !.op = "update"]]
      PROVE  KeysInv'
  <2>1. Quiet(c) /\ call'[c].at = "before" /\ call'[c].id = i
    BY <1>1, <1>5 DEF LookUp, Store, TypeOK, NoCall, Quiet, Others
  <2>2. i \in Ids /\ IsActive(View(c)[i]) /\ View(c)[i].key = {k}
    BY DEF Matching
  <2>3. InsertsNew(c)' /\ ChangesSeen(c)' /\ WriteArchived(c)'
    BY <1>1, <1>2, <2>1, <2>2 DEF InsertsNew, ChangesSeen, WriteArchived, Changing, Inserting
  <2> QED
    BY <2>1, <2>3, QuietStep
<1> QED
  BY <1>3, <1>4, <1>5 DEF LookUp

LEMMA BeginStep ==
  ASSUME KeysInv, TypeOK', CallsPrepared', NEW c \in Clients, NEW i \in Ids, NEW op \in {"update", "delete"}, Begin(c, i, op)
  PROVE  KeysInv'
<1>1. TypeOK /\ looked'[c] = looked[c] \cup View(c)[i].key
  BY DEF KeysInv, Begin, TypeOK
<1>2. View(c)'[i] = View(c)[i]
  BY SameView DEF Begin, Store
<1>3. Quiet(c) /\ call'[c].at = "before" /\ call'[c].id = i
  BY <1>1 DEF Begin, Store, TypeOK, NoCall, Quiet, Others
<1>4. IsActive(View(c)[i])
  BY DEF Begin, Selected
<1>5. InsertsNew(c)' /\ ChangesSeen(c)' /\ WriteArchived(c)'
  BY <1>1, <1>2, <1>3, <1>4 DEF InsertsNew, ChangesSeen, WriteArchived, Changing, Inserting
<1> QED
  BY <1>3, <1>5, QuietStep

(* The steps within a call.                                                   *)
LEMMA CallStep ==
  ASSUME KeysInv, TypeOK', CallsPrepared', NEW c \in Clients,
         \/ StoreForInsert(c) \/ DeleteUploadedFiles(c) \/ StoreForUpdate(c) \/ ArchiveRecord(c)
  PROVE  KeysInv'
<1>1. TypeOK /\ call[c] \in Calls /\ buffer[c] \in Buffers /\ Prepared(c)
  BY DEF KeysInv, TypeOK, CallsPrepared
<1>2. CASE StoreForInsert(c)
  <2>1. call[c].at = "insert" /\ call'[c] = [call[c] EXCEPT !.at = "insert row", !.file = NewName]
    BY <1>1, <1>2 DEF StoreForInsert, TypeOK
  <2>2. call'[c].at = "insert row" /\ call'[c].key = call[c].key
    BY <1>1, <2>1 DEF Calls
  <2>3. buffer'[c].rows = buffer[c].rows /\ buffer'[c].archive = buffer[c].archive
    BY <1>1, <1>2 DEF StoreForInsert, TypeOK, Buffers
  <2>4. Quiet(c)
    BY <1>1, <1>2, <2>3 DEF StoreForInsert, Store, TypeOK, Quiet, Others
  <2>5. \A i \in Ids : View(c)'[i] = View(c)[i]
    BY <2>4, SameView DEF Quiet
  <2>6. Sees(c) => InsertsNew(c)' /\ ChangesSeen(c)' /\ WriteArchived(c)'
    BY <1>2, <2>1, <2>2, <2>5 DEF StoreForInsert, Sees, InsertsNew, ChangesSeen, WriteArchived, Changing, Inserting
  <2> QED
    BY <2>4, <2>6, QuietStep
<1>3. CASE DeleteUploadedFiles(c)
  <2>1. call[c].at = "before" /\ call[c].id \in Ids /\ call[c].op \in {"update", "delete"}
    BY <1>1, <1>3, PreparedFacts DEF DeleteUploadedFiles, Changing
  <2>2. PICK at \in {"upload", "archive", "write"} : call' = [call EXCEPT ![c].at = at] /\ (at = "write" => ~versioned)
    BY <1>3, <2>1 DEF DeleteUploadedFiles
  <2>3. call'[c].at = at /\ call'[c].id = call[c].id
    BY <1>1, <2>2 DEF TypeOK, Calls
  <2>4. buffer'[c].rows = buffer[c].rows /\ buffer'[c].archive = buffer[c].archive
    BY <1>1, <1>3 DEF DeleteUploadedFiles, TypeOK, Buffers
  <2>5. Quiet(c)
    BY <1>1, <1>3, <2>4 DEF DeleteUploadedFiles, Store, TypeOK, Quiet, Others
  <2>6. View(c)'[call[c].id] = View(c)[call[c].id]
    BY <2>1, <2>5, SameView DEF Quiet
  <2>7. InsertsNew(c)'
    BY <2>3 DEF InsertsNew, Inserting
  <2>8. Sees(c) => ChangesSeen(c)'
    BY <1>3, <2>1, <2>3, <2>6 DEF DeleteUploadedFiles, Sees, ChangesSeen, Changing
  <2>9. WriteArchived(c)'
    BY <2>2, <2>3, <2>5 DEF WriteArchived, Quiet
  <2> QED
    BY <2>5, <2>7, <2>8, <2>9, QuietStep
<1>4. CASE StoreForUpdate(c)
  <2>1. call[c].at = "upload" /\ call[c].id \in Ids
    BY <1>1, <1>4, PreparedFacts DEF StoreForUpdate, Changing
  <2>2. PICK at \in {"archive", "write"} : call' = [call EXCEPT ![c].file = NewName, ![c].at = at] /\ (at = "write" => ~versioned)
    BY <1>4 DEF StoreForUpdate
  <2>3. call'[c].at = at /\ call'[c].id = call[c].id
    BY <1>1, <2>2 DEF TypeOK, Calls
  <2>4. buffer'[c].rows = buffer[c].rows /\ buffer'[c].archive = buffer[c].archive
    BY <1>1, <1>4 DEF StoreForUpdate, TypeOK, Buffers
  <2>5. Quiet(c)
    BY <1>1, <1>4, <2>2, <2>4 DEF StoreForUpdate, Store, TypeOK, Quiet, Others
  <2>6. View(c)'[call[c].id] = View(c)[call[c].id]
    BY <2>1, <2>5, SameView DEF Quiet
  <2>7. InsertsNew(c)'
    BY <2>3 DEF InsertsNew, Inserting
  <2>8. Sees(c) => ChangesSeen(c)'
    BY <1>4, <2>1, <2>3, <2>6 DEF StoreForUpdate, Sees, ChangesSeen, Changing
  <2>9. WriteArchived(c)'
    BY <2>2, <2>3, <2>5 DEF WriteArchived, Quiet
  <2> QED
    BY <2>5, <2>7, <2>8, <2>9, QuietStep
<1>5. CASE ArchiveRecord(c)
  <2>1. call[c].at = "archive" /\ call[c].id \in Ids
    BY <1>1, <1>5, PreparedFacts DEF ArchiveRecord, Changing
  <2>2. call'[c].at = "write" /\ call'[c].id = call[c].id
    BY <1>1, <1>5 DEF ArchiveRecord, TypeOK, Calls
  <2> DEFINE old == IF Selected(c, call[c].id, call[c].filter) THEN {<<call[c].id, Version(c, call[c].id)>>} ELSE {}
  <2>3. buffer' = [buffer EXCEPT ![c].archive = @ \cup old]
    BY <1>5 DEF ArchiveRecord
  <2>4. ChangesSeen(c) => <<call[c].id, View(c)[call[c].id].file>> \in old
    BY <2>1 DEF ChangesSeen, Changing, Selected, IsActive, Version
  <2> HIDE DEF old
  <2>5. buffer'[c].rows = buffer[c].rows /\ buffer'[c].archive = buffer[c].archive \cup old
    BY <1>1, <2>3 DEF TypeOK, Buffers
  <2>6. Quiet(c)
    BY <1>1, <1>5, <2>3, <2>5 DEF ArchiveRecord, Store, TypeOK, Quiet, Others
  <2>7. View(c)'[call[c].id] = View(c)[call[c].id]
    BY <2>1, <2>6, SameView DEF Quiet
  <2>8. InsertsNew(c)'
    BY <2>2 DEF InsertsNew, Inserting
  <2>9. Sees(c) => ChangesSeen(c)'
    BY <1>5, <2>1, <2>2, <2>7 DEF ArchiveRecord, Sees, ChangesSeen, Changing
  <2>10. Sees(c) => WriteArchived(c)'
    BY <2>2, <2>4, <2>5, <2>7 DEF Sees, WriteArchived, Archived
  <2> QED
    BY <2>6, <2>8, <2>9, <2>10, QuietStep
<1> QED
  BY <1>2, <1>3, <1>4, <1>5

LEMMA InsertRowStep ==
  ASSUME KeysInv, TypeOK', CallsPrepared', NEW c \in Clients, InsertRow(c)
  PROVE  KeysInv'
<1>1. TypeOK /\ call[c] \in Calls /\ buffer[c] \in Buffers /\ Prepared(c)
  BY DEF KeysInv, TypeOK, CallsPrepared
<1>2. nextId \in Ids /\ nextId \in Nat
  <2>1. MaxId \in Nat /\ nextId \in 1..(MaxId + 1) /\ nextId <= MaxId
    BY <1>1, RecordsAssumption DEF InsertRow, TypeOK
  <2> QED
    BY <2>1 DEF Ids
<1>n. PICK n \in Ids : n = nextId
  BY <1>2
<1>3. PICK k \in call[c].key : buffer' = [buffer EXCEPT ![c].rows[nextId] = Record(k, call[c].file, TRUE)]
  BY DEF InsertRow
<1>4. call[c].at = "insert row" /\ call[c].key = {k} /\ call[c].file \in Files /\ k \in Keys
  BY <1>1, <1>3, PreparedFacts DEF InsertRow, Inserting
<1> DEFINE r == Record(k, call[c].file, TRUE)
<1>5. r.key = {k} /\ IsActive(r) /\ r # Untouched
  <2>1. r.key = {k} /\ r.is_active = TRUE
    BY DEF Record
  <2>2. Absent.key = {} /\ Untouched.key = {}
    BY DEF Absent, Untouched
  <2> QED
    BY <2>1, <2>2 DEF IsActive
<1> HIDE DEF r
<1>6. buffer'[c].rows = [buffer[c].rows EXCEPT ![n] = r] /\ buffer'[c].archive = buffer[c].archive
  BY <1>1, <1>3, <1>n DEF TypeOK, Buffers, r
<1>7. /\ rows' = rows /\ archive' = archive /\ versioned' = versioned /\ nextId' = nextId + 1
      /\ stale' = stale /\ raced' = raced /\ looked' = looked /\ Others(c) /\ call'[c] = NoCall
  BY <1>1, <1>3 DEF InsertRow, Store, TypeOK, Others
<1>8. buffer'[c].rows[n] = r /\ \A i \in Ids \ {n} : buffer'[c].rows[i] = buffer[c].rows[i]
  BY <1>1, <1>2, <1>6 DEF Buffers
<1>9. /\ Touches(c, n)' /\ View(c)'[n] = r
      /\ \A i \in Ids \ {n} : View(c)'[i] = View(c)[i] /\ Touches(c, i)' = Touches(c, i)
  <2>1. Touches(c, n)' /\ \A i \in Ids \ {n} : Touches(c, i)' = Touches(c, i)
    BY <1>5, <1>8 DEF Touches
  <2>2. \A i \in Ids : /\ View(c)[i] = IF Touches(c, i) THEN buffer[c].rows[i] ELSE rows[i]
                       /\ View(c)'[i] = IF Touches(c, i)' THEN buffer'[c].rows[i] ELSE rows'[i]
    BY DEF View
  <2> QED
    BY <1>2, <1>7, <1>8, <2>1, <2>2
<1>10. \A d \in Clients \ {c}, i \in Ids : View(d)'[i] = View(d)[i] /\ Touches(d, i)' = Touches(d, i)
  BY <1>7, SameView DEF Others
<1>11. OneWriter' /\ NotYetInserted'
  <2>1. \A d \in Clients : ~Touches(d, n)
    BY <1>2, <1>n DEF KeysInv, NotYetInserted
  <2>2. OneWriter'
    BY <1>9, <1>10, <2>1 DEF KeysInv, OneWriter
  <2>3. \A i \in Ids : i >= n + 1 => i >= n /\ i # n
    BY <1>2, <1>n DEF Ids
  <2>4. NotYetInserted'
    BY <1>7, <1>9, <1>10, <1>n, <2>3 DEF KeysInv, NotYetInserted
  <2> QED
    BY <2>2, <2>4
<1>12. OneRecordPerKey'
  BY <1>7 DEF KeysInv, OneRecordPerKey
<1>13. ASSUME NEW d \in Clients, Fresh(d)' PROVE Sees(d)'
  <2>1. Fresh(d) /\ Sees(d) /\ Prepared(d)
    BY <1>7, <1>13 DEF KeysInv, Sight, Fresh, CallsPrepared
  <2>2. CASE d # c
    BY <1>7, <1>10, <2>1, <2>2, SightFrame DEF Others
  <2>3. CASE d = c
    <3>1. call[c].key \subseteq looked[c] /\ \A i \in Ids : IsActive(View(c)[i]) => View(c)[i].key # {k}
      BY <1>4, <2>1, <2>3 DEF Sees, InsertsNew, Inserting
    <3>2. Distinct(View(c))'
      BY <1>5, <1>9, <2>1, <2>3, <3>1 DEF Sees, Distinct
    <3>3. InsertsNew(c)' /\ ChangesSeen(c)' /\ WriteArchived(c)'
      BY <1>7 DEF InsertsNew, ChangesSeen, WriteArchived, NoCall, Inserting, Changing
    <3>4. WroteSeen(c)'
      BY <1>4, <1>5, <1>7, <1>8, <1>9, <2>1, <2>3, <3>1 DEF Sees, WroteSeen
    <3>5. rows[n] = Absent
      BY <1>2, <1>n DEF KeysInv, NotYetInserted
    <3>6. WrittenArchived(c)'
      BY <1>6, <1>7, <1>9, <2>1, <2>3, <3>5 DEF Sees, WrittenArchived, Archived
    <3> QED
      BY <2>3, <3>2, <3>3, <3>4, <3>6 DEF Sees
  <2> QED
    BY <2>2, <2>3
<1> QED
  BY <1>11, <1>12, <1>13 DEF KeysInv, Sight

LEMMA WriteStep ==
  ASSUME KeysInv, TypeOK', CallsPrepared', NEW c \in Clients, Write(c)
  PROVE  KeysInv'
<1>1. TypeOK /\ call[c] \in Calls /\ buffer[c] \in Buffers /\ Prepared(c)
  BY DEF KeysInv, TypeOK, CallsPrepared
<1>i. PICK i \in Ids \cup {0} : i = call[c].id
  BY <1>1 DEF Calls
<1>2. call[c].at = "write" /\ i \in Ids /\ (call[c].op = "update" => call[c].file \in Files)
  BY <1>1, <1>i, PreparedFacts DEF Write, Changing
<1>3. /\ rows' = rows /\ archive' = archive /\ versioned' = versioned /\ nextId' = nextId
      /\ stale' = stale /\ raced' = raced /\ looked' = looked /\ call'[c] = NoCall
      /\ \A d \in Clients \ {c} : call'[d] = call[d]
  BY <1>1 DEF Write, Store, TypeOK
<1>4. InsertsNew(c)' /\ ChangesSeen(c)' /\ WriteArchived(c)'
  BY <1>3 DEF InsertsNew, ChangesSeen, WriteArchived, NoCall, Inserting, Changing
<1>5. CASE ~Selected(c, i, call[c].filter)
  <2>1. buffer' = buffer
    BY <1>5, <1>i DEF Write
  <2>2. Quiet(c)
    BY <1>3, <2>1 DEF Quiet, Others
  <2> QED
    BY <1>4, <2>2, QuietStep
<1>6. CASE Selected(c, i, call[c].filter)
  <2> DEFINE r == View(c)[i]
             w == Written(r, call[c])
  <2>1. r \in Rows /\ r # Absent
    BY <1>1, <1>2, <1>6, ViewFacts DEF Selected
  <2>2. w \in Rows /\ w # Untouched /\ w.key \subseteq r.key /\ (IsActive(w) => IsActive(r) /\ w.key = r.key)
    <3>1. w \in Rows /\ w.key \subseteq r.key /\ (w # Absent => w.key = r.key) /\ (IsActive(w) => IsActive(r))
      BY <1>2, <2>1, WrittenFacts
    <3> HIDE DEF w
    <3> QED
      BY <3>1, RowFacts DEF IsActive
  <2>3. buffer' = [buffer EXCEPT ![c].rows[i] = w, ![c].touched = TRUE]
    BY <1>6, <1>i DEF Write
  <2>4. ~Locked(c, i)
    BY <1>i DEF Write
  <2> HIDE DEF r, w
  <2>5. buffer'[c].rows = [buffer[c].rows EXCEPT ![i] = w] /\ buffer'[c].archive = buffer[c].archive
    BY <1>1, <2>3 DEF TypeOK, Buffers
  <2>6. Others(c)
    BY <1>1, <1>3, <2>3 DEF Others, TypeOK
  <2>7. buffer'[c].rows[i] = w /\ \A j \in Ids \ {i} : buffer'[c].rows[j] = buffer[c].rows[j]
    BY <1>1, <1>2, <2>5 DEF Buffers
  <2>8. /\ Touches(c, i)' /\ View(c)'[i] = w
        /\ \A j \in Ids \ {i} : View(c)'[j] = View(c)[j] /\ Touches(c, j)' = Touches(c, j)
    <3>1. Touches(c, i)' /\ \A j \in Ids \ {i} : Touches(c, j)' = Touches(c, j)
      BY <2>2, <2>7 DEF Touches
    <3>2. \A j \in Ids : /\ View(c)[j] = IF Touches(c, j) THEN buffer[c].rows[j] ELSE rows[j]
                         /\ View(c)'[j] = IF Touches(c, j)' THEN buffer'[c].rows[j] ELSE rows'[j]
      BY DEF View
    <3> QED
      BY <1>2, <1>3, <2>7, <3>1, <3>2 
  <2>9. \A d \in Clients \ {c}, j \in Ids : View(d)'[j] = View(d)[j] /\ Touches(d, j)' = Touches(d, j)
    BY <1>3, <2>6, SameView DEF Others
  <2>10. OneWriter'
    BY <2>4, <2>8, <2>9 DEF KeysInv, OneWriter, Locked
  <2>11. NotYetInserted'
    <3>1. rows[i] # Absent \/ Touches(c, i)
      BY <1>1, <1>2, <2>1, ViewFacts DEF r
    <3>2. ~(i >= nextId)
      BY <1>2, <3>1 DEF KeysInv, NotYetInserted
    <3> QED
      BY <1>3, <2>8, <2>9, <3>2 DEF KeysInv, NotYetInserted
  <2>12. OneRecordPerKey'
    BY <1>3 DEF KeysInv, OneRecordPerKey
  <2>13. ASSUME NEW d \in Clients, Fresh(d)' PROVE Sees(d)'
    <3>1. Fresh(d) /\ Sees(d) /\ Prepared(d)
      BY <1>3, <2>13 DEF KeysInv, Sight, Fresh, CallsPrepared
    <3>2. CASE d # c
      BY <1>3, <2>6, <2>9, <3>1, <3>2, SightFrame DEF Others
    <3>3. CASE d = c
      <4>1. Distinct(View(c))'
        BY <2>2, <2>8, <3>1, <3>3 DEF Sees, Distinct, r
      <4>2. r.key \subseteq looked[c]
        BY <1>2, <1>i, <3>1, <3>3 DEF Sees, ChangesSeen, Changing, r
      <4>3. WroteSeen(c)'
        BY <1>3, <2>2, <2>7, <2>8, <3>1, <3>3, <4>2 DEF Sees, WroteSeen
      <4>4. versioned => Archived(c, i, r.file)
        BY <1>2, <1>i, <3>1, <3>3 DEF Sees, WriteArchived, r
      <4>5. versioned /\ rows[i] # Absent => Archived(c, i, rows[i].file)
        <5>1. CASE Touches(c, i)
          BY <1>2, <3>1, <3>3, <5>1 DEF Sees, WrittenArchived
        <5>2. CASE ~Touches(c, i)
          BY <1>1, <1>2, <4>4, <5>2, ViewFacts DEF r
        <5> QED
          BY <5>1, <5>2
      <4>6. WrittenArchived(c)'
        BY <1>3, <2>5, <2>8, <3>1, <3>3, <4>5 DEF Sees, WrittenArchived, Archived
      <4> QED
        BY <1>4, <3>3, <4>1, <4>3, <4>6 DEF Sees
    <3> QED
      BY <3>2, <3>3
  <2> QED
    BY <2>10, <2>11, <2>12, <2>13 DEF KeysInv, Sight
<1> QED
  BY <1>5, <1>6

(* A rollback brings back what is committed.                                  *)
LEMMA RollbackStep ==
  ASSUME KeysInv, TypeOK', CallsPrepared', NEW c \in Clients, Rollback(c)
  PROVE  KeysInv'
<1>1. TypeOK
  BY DEF KeysInv
<1>2. /\ rows' = rows /\ archive' = archive /\ versioned' = versioned /\ nextId' = nextId /\ raced' = raced
      /\ stale' = [stale EXCEPT ![c] = FALSE] /\ call'[c] = NoCall /\ buffer'[c] = Empty /\ Others(c)
  BY <1>1 DEF Rollback, EndTransaction, TypeOK, Others
<1>3. \A i \in Ids : ~Touches(c, i)' /\ View(c)'[i] = rows[i]
  BY <1>2 DEF View, Touches, Empty
<1>4. \A d \in Clients \ {c}, i \in Ids : View(d)'[i] = View(d)[i] /\ Touches(d, i)' = Touches(d, i)
  BY <1>2, SameView DEF Others
<1>5. OneWriter' /\ NotYetInserted' /\ OneRecordPerKey'
  BY <1>2, <1>3, <1>4 DEF KeysInv, OneWriter, NotYetInserted, OneRecordPerKey
<1>6. ASSUME NEW d \in Clients, Fresh(d)' PROVE Sees(d)'
  <2>1. CASE d # c
    <3>1. Fresh(d) /\ Sees(d) /\ Prepared(d)
      BY <1>1, <1>2, <1>6, <2>1 DEF KeysInv, Sight, Fresh, CallsPrepared, TypeOK
    <3> QED
      BY <1>2, <1>4, <2>1, <3>1, SightFrame DEF Others
  <2>2. CASE d = c
    <3>1. ~raced
      BY <1>2, <1>6 DEF Fresh
    <3>2. Distinct(View(c))'
      BY <1>3, <3>1 DEF KeysInv, OneRecordPerKey, Distinct
    <3>3. InsertsNew(c)' /\ ChangesSeen(c)' /\ WriteArchived(c)'
      BY <1>2 DEF InsertsNew, ChangesSeen, WriteArchived, NoCall, Inserting, Changing
    <3>4. WroteSeen(c)' /\ WrittenArchived(c)'
      BY <1>3 DEF WroteSeen, WrittenArchived
    <3> QED
      BY <2>2, <3>2, <3>3, <3>4 DEF Sees
  <2> QED
    BY <2>1, <2>2
<1> QED
  BY <1>5, <1>6 DEF KeysInv, Sight

(* A commit is seen by the others, and outdates what they know of its keys.   *)
LEMMA CommitStep ==
  ASSUME KeysInv, TypeOK', CallsPrepared', NEW c \in Clients, Commit(c)
  PROVE  KeysInv'
<1>1. TypeOK
  BY DEF KeysInv
<1>2. /\ rows' = View(c) /\ archive' = archive \cup buffer[c].archive /\ versioned' = versioned /\ nextId' = nextId
      /\ call[c] = NoCall /\ call'[c] = NoCall /\ buffer'[c] = Empty /\ Others(c)
  BY <1>1 DEF Commit, EndTransaction, TypeOK, Others
<1>3. ~raced' => ~raced /\ (Wrote(c) => Fresh(c))
  BY DEF Commit, Fresh
<1>4. \A d \in Clients \ {c} : Fresh(d)' => Fresh(d) /\ looked[d] \cap KeysWritten(c) = {}
  BY <1>3 DEF Commit, Fresh
<1>5. \A i \in Ids : ~Touches(c, i)' /\ View(c)'[i] = View(c)[i]
  BY <1>2 DEF View, Touches, Empty
<1>6. \A d \in Clients \ {c}, i \in Ids :
         /\ Touches(d, i)' = Touches(d, i)
         /\ Touches(d, i) => View(d)[i] = buffer[d].rows[i] /\ View(d)'[i] = View(d)[i] /\ ~Touches(c, i)
         /\ ~Touches(d, i) => View(d)[i] = rows[i] /\ View(d)'[i] = View(c)[i]
         /\ ~Touches(c, i) => View(d)'[i] = View(d)[i] /\ View(c)[i] = rows[i]
  <2> TAKE d \in Clients \ {c}, i \in Ids
  <2>1. Touches(d, i)' = Touches(d, i) /\ (Touches(d, i) => ~Touches(c, i))
    BY <1>2 DEF Others, Touches, KeysInv, OneWriter
  <2>2. /\ View(d)[i] = IF Touches(d, i) THEN buffer[d].rows[i] ELSE rows[i]
        /\ View(d)'[i] = IF Touches(d, i)' THEN buffer'[d].rows[i] ELSE rows'[i]
        /\ View(c)[i] = IF Touches(c, i) THEN buffer[c].rows[i] ELSE rows[i]
    BY DEF View
  <2> QED
    BY <1>2, <2>1, <2>2 DEF Others
<1>7. \A i \in Ids : Touches(c, i) => Wrote(c) /\ rows[i].key \cup View(c)[i].key \subseteq KeysWritten(c)
  BY <1>1, ViewFacts DEF Wrote, KeysWritten
<1>8. \A i \in Ids : rows'[i] # rows[i] => Touches(c, i)
  BY <1>1, <1>2, ViewFacts
<1>9. OneWriter'
  BY <1>5, <1>6 DEF KeysInv, OneWriter
<1>10. NotYetInserted'
  BY <1>2, <1>5, <1>6, <1>8 DEF KeysInv, NotYetInserted
<1>11. ~raced' => Distinct(View(c))
  <2>1. CASE Wrote(c)
    BY <1>3, <2>1 DEF KeysInv, Sight, Sees
  <2>2. CASE ~Wrote(c)
    <3>1. \A i \in Ids : View(c)[i] = rows[i]
      BY <1>1, <2>2, ViewFacts DEF Wrote
    <3> QED
      BY <1>3, <3>1 DEF KeysInv, OneRecordPerKey, Distinct
  <2> QED
    BY <2>1, <2>2
<1>12. OneRecordPerKey'
  BY <1>2, <1>11 DEF OneRecordPerKey, Distinct
<1>13. ASSUME NEW d \in Clients, Fresh(d)' PROVE Sees(d)'
  <2>0. ~raced'
    BY <1>13 DEF Fresh
  <2>1. CASE d = c
    <3>1. Distinct(View(c))'
      BY <1>5, <1>11, <2>0 DEF Distinct
    <3>2. InsertsNew(c)' /\ ChangesSeen(c)' /\ WriteArchived(c)'
      BY <1>2 DEF InsertsNew, ChangesSeen, WriteArchived, NoCall, Inserting, Changing
    <3>3. WroteSeen(c)' /\ WrittenArchived(c)'
      BY <1>5 DEF WroteSeen, WrittenArchived
    <3> QED
      BY <2>1, <3>1, <3>2, <3>3 DEF Sees
  <2>2. CASE d # c
    <3>1. Fresh(d) /\ Sees(d) /\ Prepared(d) /\ looked[d] \cap KeysWritten(c) = {}
      BY <1>4, <1>13, <2>2 DEF KeysInv, Sight, CallsPrepared
    <3>2. /\ call'[d] = call[d] /\ buffer'[d] = buffer[d] /\ looked'[d] = looked[d]
          /\ \A i \in Ids : Touches(d, i)' = Touches(d, i)
      BY <1>2, <1>6, <2>2 DEF Others
    <3>3. \A i \in Ids : IsActive(View(d)'[i]) => View(d)'[i].key # {}
      <4> TAKE i \in Ids
      <4>1. View(d)'[i] \in Rows
        <5>1. View(d)[i] \in Rows /\ View(c)[i] \in Rows
          BY <1>1, ViewFacts
        <5> QED
          BY <1>6, <2>2, <5>1
      <4> QED
        BY <4>1, RowFacts DEF IsActive
    <3>4. \A i \in Ids : Touches(c, i) => View(d)'[i] = View(c)[i] /\ View(d)'[i].key \cap looked[d] = {} /\ rows[i].key \cap looked[d] = {}
      BY <1>6, <1>7, <2>2, <3>1
    <3>5. \A i \in Ids : Touches(d, i) => View(d)'[i].key \subseteq looked[d]
      BY <1>6, <2>2, <3>1 DEF Sees, WroteSeen
    <3>6. Distinct(View(d))'
      <4> SUFFICES ASSUME NEW i \in Ids, NEW j \in Ids, IsActive(View(d)'[i]), IsActive(View(d)'[j]), View(d)'[i].key = View(d)'[j].key
                   PROVE  i = j
        BY DEF Distinct
      <4>1. CASE ~Touches(c, i) /\ ~Touches(c, j)
        BY <1>6, <2>2, <3>1, <4>1 DEF Sees, Distinct
      <4>2. CASE ~Touches(d, i) /\ ~Touches(d, j)
        BY <1>6, <1>11, <2>0, <2>2, <4>2 DEF Distinct
      <4>3. CASE Touches(c, i) /\ Touches(d, j)
        BY <3>3, <3>4, <3>5, <4>3
      <4>4. CASE Touches(c, j) /\ Touches(d, i)
        BY <3>3, <3>4, <3>5, <4>4
      <4>5. ~(Touches(c, i) /\ Touches(d, i)) /\ ~(Touches(c, j) /\ Touches(d, j))
        BY <1>6, <2>2
      <4> QED
        BY <4>1, <4>2, <4>3, <4>4, <4>5
    <3>7. InsertsNew(d)'
      <4>1. CASE call[d].at \in Inserting
        <5>1. call[d].key \subseteq looked[d] /\ call[d].key # {} /\ \A i \in Ids : IsActive(View(d)[i]) => View(d)[i].key # call[d].key
          BY <3>1, <4>1, PreparedFacts DEF Sees, InsertsNew
        <5>2. ASSUME NEW i \in Ids, IsActive(View(d)'[i]) PROVE View(d)'[i].key # call[d].key
          <6>1. CASE Touches(c, i)
            BY <3>4, <5>1, <6>1
          <6>2. CASE ~Touches(c, i)
            BY <1>6, <2>2, <5>1, <5>2, <6>2
          <6> QED
            BY <6>1, <6>2
        <5> QED
          BY <3>2, <5>1, <5>2 DEF InsertsNew
      <4>2. CASE call[d].at \notin Inserting
        BY <3>2, <4>2 DEF InsertsNew
      <4> QED
        BY <4>1, <4>2
    <3>8. call[d].at \in Changing => call[d].id \in Ids /\ ~Touches(c, call[d].id) /\ View(d)'[call[d].id] = View(d)[call[d].id]
      <4> SUFFICES ASSUME call[d].at \in Changing
                   PROVE  call[d].id \in Ids /\ ~Touches(c, call[d].id) /\ View(d)'[call[d].id] = View(d)[call[d].id]
        OBVIOUS
      <4>1. call[d].id \in Ids /\ IsActive(View(d)[call[d].id]) /\ View(d)[call[d].id].key \subseteq looked[d]
        BY <3>1, PreparedFacts DEF Sees, ChangesSeen
      <4>2. View(d)[call[d].id].key # {}
        BY <1>1, <4>1, ViewFacts, RowFacts DEF IsActive
      <4>3. ~Touches(c, call[d].id)
        BY <1>6, <2>2, <3>4, <4>1, <4>2
      <4> QED
        BY <1>6, <2>2, <4>1, <4>3
    <3>9. ChangesSeen(d)'
      BY <3>1, <3>2, <3>8 DEF Sees, ChangesSeen
    <3>10. WroteSeen(d)'
      BY <3>1, <3>2 DEF Sees, WroteSeen
    <3>11. \A i, f : Archived(d, i, f) => Archived(d, i, f)'
      BY <1>2, <3>2 DEF Archived
    <3>12. WriteArchived(d)'
      BY <1>2, <3>1, <3>2, <3>8, <3>11 DEF Sees, WriteArchived, Changing
    <3>13. WrittenArchived(d)'
      BY <1>2, <1>6, <1>8, <2>2, <3>1, <3>2, <3>11 DEF Sees, WrittenArchived
    <3> QED
      BY <3>6, <3>7, <3>9, <3>10, <3>12, <3>13 DEF Sees
  <2> QED
    BY <2>1, <2>2
<1> QED
  BY <1>9, <1>10, <1>12, <1>13 DEF KeysInv, Sight

LEMMA KeysInit == Init => KeysInv
<1> SUFFICES ASSUME Init PROVE KeysInv
  OBVIOUS
<1>1. TypeOK /\ CallsPrepared
  BY TypesInit
<1>2. /\ \A i \in Ids : rows[i] = Absent
      /\ \A c \in Clients : call[c] = NoCall /\ buffer[c] = Empty
  BY DEF Init
<1>3. \A c \in Clients, i \in Ids : ~Touches(c, i) /\ View(c)[i] = Absent
  BY <1>2 DEF View, Touches, Empty
<1>4. OneWriter /\ NotYetInserted
  BY <1>2, <1>3 DEF OneWriter, NotYetInserted
<1>5. OneRecordPerKey
  BY <1>2 DEF OneRecordPerKey, IsActive
<1>6. ASSUME NEW c \in Clients PROVE Sees(c)
  <2>1. Distinct(View(c))
    BY <1>3 DEF Distinct, IsActive
  <2>2. call[c].at = "idle"
    BY <1>2 DEF NoCall
  <2>3. InsertsNew(c) /\ ChangesSeen(c) /\ WriteArchived(c)
    BY <2>2 DEF InsertsNew, ChangesSeen, WriteArchived, Inserting, Changing
  <2>4. WroteSeen(c) /\ WrittenArchived(c)
    BY <1>3 DEF WroteSeen, WrittenArchived
  <2> QED
    BY <2>1, <2>3, <2>4 DEF Sees
<1> QED
  BY <1>1, <1>4, <1>5, <1>6 DEF KeysInv, Sight

LEMMA KeysStep ==
  ASSUME KeysInv, [Next]_vars
  PROVE  KeysInv'
<1>1. CASE Next
  <2>1. TypeOK' /\ CallsPrepared'
    BY <1>1, TypesStep DEF KeysInv
  <2>2. PICK c \in Clients :
           \/ \E k \in Keys, op \in {"update_or_insert", "validate_and_insert"} : LookUp(c, k, op)
           \/ \E i \in Ids, op \in {"update", "delete"} : Begin(c, i, op)
           \/ StoreForInsert(c) \/ InsertRow(c)
           \/ DeleteUploadedFiles(c) \/ StoreForUpdate(c) \/ ArchiveRecord(c) \/ Write(c)
           \/ Commit(c) \/ Rollback(c)
    BY <1>1 DEF Next
  <2> QED
    BY <2>1, <2>2, LookUpStep, BeginStep, CallStep, InsertRowStep, WriteStep, CommitStep, RollbackStep
<1>2. CASE UNCHANGED vars
  <2>1. TypeOK' /\ CallsPrepared'
    BY <1>2 DEF vars, KeysInv, TypeOK, CallsPrepared, Prepared
  <2>2. \A c \in Clients, i \in Ids : View(c)'[i] = View(c)[i] /\ Touches(c, i)' = Touches(c, i)
    BY <1>2, SameView DEF vars
  <2>3. OneWriter' /\ NotYetInserted' /\ OneRecordPerKey'
    BY <1>2, <2>2 DEF vars, KeysInv, OneWriter, NotYetInserted, OneRecordPerKey
  <2>4. ASSUME NEW c \in Clients, Fresh(c)' PROVE Sees(c)'
    <3>1. Fresh(c) /\ Sees(c) /\ Prepared(c)
      BY <1>2, <2>4 DEF vars, KeysInv, Sight, Fresh, CallsPrepared
    <3> QED
      BY <1>2, <2>2, <3>1, SightFrame DEF vars
  <2> QED
    BY <2>1, <2>3, <2>4 DEF KeysInv, Sight
<1> QED
  BY <1>1, <1>2

THEOREM KeysInvariant == Spec => []KeysInv
BY KeysInit, KeysStep, PTL DEF Spec

(* The types: what is committed, what each client has written and is about    *)
(* to do, the files and the looks.                                            *)
THEOREM TypeCorrect == Spec => []TypeOK
<1>1. KeysInv => TypeOK
  BY DEF KeysInv
<1> QED
  BY <1>1, KeysInvariant, PTL

(* update_or_insert and validate_and_insert keep one active record with a     *)
(* key, unless a transaction has committed on a look that another had         *)
(* outdated.                                                                  *)
THEOREM OneRecordPerKeyHolds == Spec => []OneRecordPerKey
<1>1. KeysInv => OneRecordPerKey
  BY DEF KeysInv
<1> QED
  BY <1>1, KeysInvariant, PTL

(* As long as no transaction commits on a look that another has outdated, the *)
(* archive has every version a commit replaces: archive_record reads it in a  *)
(* select of its own, and all a client wrote before agrees with that. A write *)
(* between that select and the UPDATE outdates the look, and is not archived. *)
THEOREM HistoryIsKept == Spec => HistoryKept
<1>1. ASSUME KeysInv, [Next]_vars
      PROVE  [\A i \in Ids : versioned /\ ~raced' /\ rows[i] # Absent /\ rows'[i] # rows[i] => <<i, rows[i].file>> \in archive']_vars
  <2> SUFFICES ASSUME NEW i \in Ids, versioned, ~raced', rows[i] # Absent, rows'[i] # rows[i]
               PROVE  <<i, rows[i].file>> \in archive'
    OBVIOUS
  <2>1. PICK c \in Clients : Commit(c)
    BY <1>1 DEF Next, vars, LookUp, Begin, StoreForInsert, InsertRow, DeleteUploadedFiles, StoreForUpdate, ArchiveRecord, Write, Rollback, Store
  <2>2. Touches(c, i)
    BY <1>1, <2>1, ViewFacts DEF KeysInv, Commit
  <2>3. Sees(c)
    BY <1>1, <2>1, <2>2 DEF KeysInv, Sight, Fresh, Commit, Wrote
  <2> QED
    BY <2>1, <2>2, <2>3 DEF Sees, WrittenArchived, Archived, Commit
<1> QED
  BY <1>1, KeysInvariant, PTL DEF Spec, HistoryKept
-------------------------------------------------------------------------------
(* The upload folder                                                          *)

(* A file is one record's or one call's.                                      *)
Holds(i, f) ==
    \/ rows[i] # Absent /\ rows[i].file = f
    \/ \E c \in Clients : Touches(c, i) /\ buffer[c].rows[i] # Absent /\ buffer[c].rows[i].file = f
NamesWereGiven ==
    /\ \A f \in files : f < nextFile
    /\ \A c \in Clients : call[c].file < nextFile
    /\ \A i \in Ids, f \in Files : Holds(i, f) => f < nextFile
OneHolder == \A i, j \in Ids, f \in Files : Holds(i, f) /\ Holds(j, f) => i = j
StoredIsNobodys == \A c \in Clients, i \in Ids, f \in Files : call[c].file = f => ~Holds(i, f)
StoredOnce == \A c, d \in Clients : call[c].file # 0 /\ call[c].file = call[d].file => c = d
UpdatedIsNew ==
    \A c \in Clients, i \in Ids :
       Touches(c, i) /\ rows[i] # Absent /\ IsActive(buffer[c].rows[i]) => buffer[c].rows[i].file # rows[i].file
Names == NamesWereGiven /\ OneHolder /\ StoredIsNobodys /\ StoredOnce /\ UpdatedIsNew

(* Who has written a row, or has removed the files of the record it changes,  *)
(* says so.                                                                   *)
Late == {"upload", "archive", "write"}
WritersTouched == \A c \in Clients, i \in Ids : Touches(c, i) => buffer[c].touched
LateTouched == \A c \in Clients : Fresh(c) /\ call[c].at \in Late => buffer[c].touched

(* Nobody has changed files but who will commit: until then the files are     *)
(* those of the records as they will be.                                      *)
Calm == ~undone /\ ~raced /\ \A c \in Clients : stale[c] => ~buffer[c].touched
Past(c, i) == call[c].id = i /\ call[c].at \in Late
Worked(c, i) == buffer[c].touched /\ (Touches(c, i) \/ Past(c, i))
RowsHaveFiles == \A i \in Ids : IsActive(rows[i]) /\ (\A c \in Clients : ~Worked(c, i)) => rows[i].file \in files
WrittenHaveFiles ==
    \A c \in Clients, i \in Ids :
       Touches(c, i) /\ IsActive(buffer[c].rows[i]) /\ ~Past(c, i) => buffer[c].rows[i].file \in files
StoredIsThere == \A c \in Clients : call[c].file # 0 => call[c].file \in files
ReplacedIsGone == \A c \in Clients, i \in Ids : Touches(c, i) /\ rows[i] # Absent => rows[i].file \notin files
OldIsGone == \A c \in Clients : buffer[c].touched /\ call[c].at \in Late => View(c)[call[c].id].file \notin files
NoneForgotten == \A f \in files : (\E i \in Ids : Holds(i, f)) \/ (\E c \in Clients : call[c].file = f)
InPlace ==
    RowsHaveFiles /\ WrittenHaveFiles /\ StoredIsThere /\ ReplacedIsGone /\ OldIsGone /\ NoneForgotten

FilesInv == KeysInv /\ WritersTouched /\ LateTouched /\ Names /\ (Calm => InPlace)

-------------------------------------------------------------------------------
(* Who holds a file, and what a call has done to files.                       *)
LEMMA FilesFacts == nextFile \in Nat => 0 \notin Files /\ \A f \in Files : f \in Nat /\ f # 0
BY DEF Files

LEMMA HoldsFacts ==
  ASSUME TypeOK, NEW c \in Clients, NEW i \in Ids
  PROVE  /\ rows[i] # Absent => Holds(i, rows[i].file)
         /\ View(c)[i] # Absent => Holds(i, View(c)[i].file)
BY ViewFacts DEF Holds

LEMMA StoredTouched ==
  ASSUME NEW c \in Clients, Prepared(c), call[c].file # 0
  PROVE  /\ buffer[c].touched
         /\ call[c].at = "insert row" \/ (call[c].at \in {"archive", "write"} /\ call[c].op = "update")
<1>1. call[c] # NoCall
  BY DEF NoCall
<1>2. call[c].at \in Inserting \cup Changing
  BY <1>1 DEF Prepared
<1> QED
  BY <1>2, PreparedFacts DEF Inserting, Changing

LEMMA CalmClient ==
  ASSUME KeysInv, Calm, NEW c \in Clients, buffer[c].touched
  PROVE  Fresh(c) /\ Sees(c)
BY DEF KeysInv, Sight, Calm, Fresh

LEMMA CalmBack ==
  ASSUME stale' = stale, raced' = raced, undone' = undone,
         \A d \in Clients : buffer[d].touched => buffer'[d].touched
  PROVE  Calm' => Calm
BY DEF Calm

-------------------------------------------------------------------------------
(* The names.                                                                 *)
LEMMA HoldsQuiet ==
  ASSUME NEW c \in Clients, Quiet(c)
  PROVE  \A i \in Ids, f \in Files : Holds(i, f)' <=> Holds(i, f)
<1>1. rows' = rows /\ \A d \in Clients : buffer'[d].rows = buffer[d].rows
  BY DEF Quiet, Others
<1>2. \A d \in Clients, i \in Ids : Touches(d, i)' = Touches(d, i)
  BY <1>1, SameView
<1> QED
  BY <1>1, <1>2 DEF Holds

LEMMA UpdatedQuiet ==
  ASSUME UpdatedIsNew, NEW c \in Clients, Quiet(c)
  PROVE  UpdatedIsNew'
<1>1. rows' = rows /\ \A d \in Clients : buffer'[d].rows = buffer[d].rows
  BY DEF Quiet, Others
<1>2. \A d \in Clients, i \in Ids : Touches(d, i)' = Touches(d, i)
  BY <1>1, SameView
<1> QED
  BY <1>1, <1>2 DEF UpdatedIsNew

LEMMA NamesKept ==
  ASSUME Names, UpdatedIsNew',
         \A i \in Ids, f \in Files : Holds(i, f)' => Holds(i, f),
         \A d \in Clients : call'[d].file \in {0, call[d].file},
         files' \subseteq files, nextFile' = nextFile, nextFile \in Nat \ {0}
  PROVE  Names'
<1>1. NamesWereGiven'
  BY DEF Names, NamesWereGiven
<1>2. OneHolder'
  BY DEF Names, OneHolder
<1>3. StoredIsNobodys'
  BY FilesFacts DEF Names, StoredIsNobodys
<1>4. StoredOnce'
  BY DEF Names, StoredOnce
<1> QED
  BY <1>1, <1>2, <1>3, <1>4 DEF Names

LEMMA NamesStored ==
  ASSUME TypeOK, Names, UpdatedIsNew', nextFile \in Files, NEW c \in Clients, Others(c),
         \A i \in Ids, f \in Files : Holds(i, f)' => Holds(i, f),
         call'[c].file = nextFile, files' = files \cup {nextFile}, nextFile' = nextFile + 1
  PROVE  Names'
<1>1. nextFile \in Nat /\ nextFile # 0 /\ \A f \in Files : f \in Nat /\ f # 0
  BY DEF Files
<1>2. \A d \in Clients : call[d].file \in Files \cup {0} /\ call[d].file \in Nat /\ call[d].file < nextFile
  <2> TAKE d \in Clients
  <2>1. call[d] \in Calls
    BY DEF TypeOK
  <2>2. call[d].file \in Files \cup {0}
    BY <2>1 DEF Calls
  <2>3. call[d].file \in Nat
    <3>1. CASE call[d].file = 0
      BY <3>1
    <3>2. CASE call[d].file \in Files
      BY <1>1, <3>2
    <3> QED
      BY <2>2, <3>1, <3>2
  <2>4. call[d].file < nextFile
    BY DEF Names, NamesWereGiven
  <2> QED
    BY <2>2, <2>3, <2>4
<1>3. files \subseteq Files /\ \A f \in files : f < nextFile
  BY DEF Names, NamesWereGiven, TypeOK
<1>4. \A i \in Ids, f \in Files : Holds(i, f) => f < nextFile
  BY DEF Names, NamesWereGiven
<1>5. NamesWereGiven'
  <2>1. \A f \in files' : f < nextFile'
    BY <1>1, <1>3
  <2>2. \A d \in Clients : call'[d].file < nextFile'
    BY <1>1, <1>2 DEF Others
  <2>3. \A i \in Ids, f \in Files : Holds(i, f)' => f < nextFile'
    BY <1>1, <1>4
  <2> QED
    BY <2>1, <2>2, <2>3 DEF NamesWereGiven
<1>6. OneHolder'
  BY DEF Names, OneHolder
<1>7. StoredIsNobodys'
  <2> SUFFICES ASSUME NEW d \in Clients, NEW i \in Ids, NEW f \in Files, call'[d].file = f, Holds(i, f)'
               PROVE  FALSE
    BY DEF StoredIsNobodys
  <2>1. CASE d = c
    <3>1. f = nextFile /\ f < nextFile
      BY <1>4, <2>1
    <3> QED
      BY <1>1, <3>1
  <2>2. CASE d # c
    BY <2>2 DEF Others, Names, StoredIsNobodys
  <2> QED
    BY <2>1, <2>2
<1>8. StoredOnce'
  <2>1. \A d \in Clients \ {c} : call'[d].file = call[d].file /\ call'[d].file # nextFile
    BY <1>1, <1>2 DEF Others
  <2> QED
    BY <2>1 DEF Names, StoredOnce
<1> QED
  BY <1>5, <1>6, <1>7, <1>8 DEF Names

(* InsertRow and Write: row n has the new file, or the one it had, or none.   *)
LEMMA NamesPut ==
  ASSUME TypeOK, Names, NEW c \in Clients, NEW n \in Ids, Others(c),
         rows' = rows, files' = files, nextFile' = nextFile, call'[c].file = 0,
         \A j \in Ids \ {n} : buffer'[c].rows[j] = buffer[c].rows[j],
         \/ buffer'[c].rows[n] = Absent
         \/ buffer'[c].rows[n].file = call[c].file /\ call[c].file \in Files
         \/ Holds(n, buffer'[c].rows[n].file) /\ ~IsActive(buffer'[c].rows[n])
  PROVE  Names'
<1> DEFINE w == buffer'[c].rows[n]
<1>1. \A d \in Clients \ {c}, i \in Ids : Touches(d, i)' = Touches(d, i) /\ buffer'[d].rows[i] = buffer[d].rows[i]
  BY DEF Others, Touches
<1>2. \A j \in Ids \ {n} : Touches(c, j)' = Touches(c, j)
  BY DEF Touches
<1>3. \A i \in Ids, f \in Files : Holds(i, f)' => Holds(i, f) \/ (i = n /\ f = call[c].file)
  <2> SUFFICES ASSUME NEW i \in Ids, NEW f \in Files, Holds(i, f)'
               PROVE  Holds(i, f) \/ (i = n /\ f = call[c].file)
    OBVIOUS
  <2>1. CASE rows'[i] # Absent /\ rows'[i].file = f
    BY <2>1 DEF Holds
  <2>2. ASSUME NEW d \in Clients, Touches(d, i)', buffer'[d].rows[i] # Absent, buffer'[d].rows[i].file = f
        PROVE  Holds(i, f) \/ (i = n /\ f = call[c].file)
    <3>1. CASE d # c \/ i # n
      BY <1>1, <1>2, <2>2, <3>1 DEF Holds
    <3>2. CASE d = c /\ i = n
      BY <2>2, <3>2
    <3> QED
      BY <3>1, <3>2
  <2> QED
    BY <2>1, <2>2 DEF Holds
<1>4. \A d \in Clients : call'[d].file \in {0, call[d].file} /\ (d # c => call'[d].file = call[d].file)
  BY DEF Others
<1>5. nextFile \in Nat \ {0} /\ \A f \in Files : f \in Nat /\ f # 0
  BY RecordsAssumption DEF TypeOK, Files
<1>6. NamesWereGiven'
  BY <1>3, <1>4, <1>5 DEF Names, NamesWereGiven
<1>7. OneHolder'
  BY <1>3 DEF Names, OneHolder, StoredIsNobodys
<1>8. StoredIsNobodys'
  <2> SUFFICES ASSUME NEW d \in Clients, NEW i \in Ids, NEW f \in Files, call'[d].file = f, Holds(i, f)'
               PROVE  FALSE
    BY DEF StoredIsNobodys
  <2>1. d # c /\ call[d].file = f
    BY <1>4, <1>5
  <2>2. ~Holds(i, f) /\ f # call[c].file
    BY <1>5, <2>1 DEF Names, StoredIsNobodys, StoredOnce
  <2> QED
    BY <1>3, <2>2
<1>9. StoredOnce'
  BY <1>4 DEF Names, StoredOnce
<1>10. UpdatedIsNew'
  <2> SUFFICES ASSUME NEW d \in Clients, NEW i \in Ids, Touches(d, i)', rows[i] # Absent, IsActive(buffer'[d].rows[i])
               PROVE  buffer'[d].rows[i].file # rows[i].file
    BY DEF UpdatedIsNew
  <2>1. CASE d # c \/ i # n
    BY <1>1, <1>2, <2>1 DEF Names, UpdatedIsNew
  <2>2. CASE d = c /\ i = n
    <3>1. w.file = call[c].file /\ call[c].file \in Files
      BY <2>2 DEF IsActive
    <3>2. Holds(n, rows[n].file) /\ rows[n].file \in Files
      BY <2>2, RowFacts, HoldsFacts DEF TypeOK
    <3> QED
      BY <2>2, <3>1, <3>2 DEF Names, StoredIsNobodys
  <2> QED
    BY <2>1, <2>2
<1> QED
  BY <1>6, <1>7, <1>8, <1>9, <1>10 DEF Names

-------------------------------------------------------------------------------
(* The folder. A step that stores at most the file its call then has.         *)
LEMMA PlaceQuiet ==
  ASSUME KeysInv, LateTouched, Names, InPlace, Calm, Calm',
         NEW c \in Clients, Quiet(c), buffer[c].touched => buffer'[c].touched,
         files' = files \/ (files' = files \cup {nextFile} /\ call'[c].file = nextFile),
         call'[c].file = call[c].file \/ (call[c].file = 0 /\ call'[c].file \in files'),
         call'[c].at \in Late <=> call[c].at \in Late,
         call[c].at \in Late => call'[c].id = call[c].id
  PROVE  InPlace'
<1>0. TypeOK /\ CallsPrepared /\ nextFile \in Nat /\ files \subseteq Files /\ \A f \in Files : f \in Nat /\ f # 0
  BY RecordsAssumption DEF KeysInv, TypeOK, Files
<1>1. rows' = rows /\ \A d \in Clients : buffer'[d].rows = buffer[d].rows /\ (buffer[d].touched => buffer'[d].touched)
  BY DEF Quiet, Others
<1>2. \A d \in Clients, i \in Ids : View(d)'[i] = View(d)[i] /\ Touches(d, i)' = Touches(d, i)
  BY <1>1, SameView
<1>3. \A d \in Clients \ {c} : call'[d] = call[d] /\ buffer'[d] = buffer[d]
  BY DEF Quiet, Others
<1>4. \A d \in Clients, i \in Ids : Past(d, i)' <=> Past(d, i)
  BY <1>3 DEF Past
<1>5. RowsHaveFiles'
  <2>1. \A d \in Clients, i \in Ids : Worked(d, i) => Worked(d, i)'
    BY <1>1, <1>2, <1>4 DEF Worked
  <2> QED
    BY <1>1, <2>1 DEF InPlace, RowsHaveFiles
<1>6. WrittenHaveFiles'
  BY <1>1, <1>2, <1>4 DEF InPlace, WrittenHaveFiles
<1>7. StoredIsThere'
  BY <1>3 DEF InPlace, StoredIsThere
<1>8. ReplacedIsGone'
  <2> SUFFICES ASSUME NEW d \in Clients, NEW i \in Ids, Touches(d, i), rows[i] # Absent
               PROVE  rows[i].file \notin files'
    BY <1>1, <1>2 DEF ReplacedIsGone
  <2>1. rows[i].file \notin files
    BY DEF InPlace, ReplacedIsGone
  <2>2. rows[i].file \in Files /\ Holds(i, rows[i].file)
    BY <1>0, RowFacts, HoldsFacts DEF TypeOK
  <2>3. rows[i].file < nextFile
    BY <2>2 DEF Names, NamesWereGiven
  <2> QED
    BY <1>0, <2>1, <2>3
<1>9. OldIsGone'
  <2> SUFFICES ASSUME NEW d \in Clients, buffer'[d].touched, call'[d].at \in Late
               PROVE  View(d)'[call'[d].id].file \notin files'
    BY DEF OldIsGone
  <2>1. call[d].at \in Late /\ call'[d].id = call[d].id /\ call[d].id \in Ids
    <3>1. call[d].at \in Late /\ call'[d].id = call[d].id
      BY <1>3
    <3> QED
      BY <1>0, <3>1, PreparedFacts DEF CallsPrepared, Late, Changing
  <2>2. Fresh(d)
    BY DEF Calm, Fresh, Quiet
  <2>3. buffer[d].touched /\ Sees(d)
    BY <2>1, <2>2 DEF LateTouched, KeysInv, Sight
  <2> DEFINE r == View(d)[call[d].id]
  <2>4. r.file \notin files
    BY <2>1, <2>3 DEF InPlace, OldIsGone
  <2>5. r \in Rows /\ r # Absent
    BY <1>0, <2>1, <2>3, ViewFacts DEF Sees, ChangesSeen, Late, Changing, IsActive
  <2>6. r.file \in Files /\ Holds(call[d].id, r.file)
    BY <1>0, <2>1, <2>5, RowFacts, HoldsFacts
  <2>7. r.file < nextFile
    BY <2>1, <2>6 DEF Names, NamesWereGiven
  <2>8. View(d)'[call'[d].id] = r
    BY <1>2, <2>1
  <2> HIDE DEF r
  <2> QED
    BY <1>0, <2>4, <2>7, <2>8
<1>10. NoneForgotten'
  <2> SUFFICES ASSUME NEW f \in files'
               PROVE  (\E i \in Ids : Holds(i, f)') \/ (\E d \in Clients : call'[d].file = f)
    BY DEF NoneForgotten
  <2>1. CASE f \in files
    <3>1. f \in Files /\ f # 0
      BY <1>0, <2>1
    <3>2. CASE \E i \in Ids : Holds(i, f)
      BY <3>1, <3>2, HoldsQuiet
    <3>3. ASSUME NEW d \in Clients, call[d].file = f PROVE \E e \in Clients : call'[e].file = f
      BY <1>3, <3>1, <3>3
    <3> QED
      BY <2>1, <3>2, <3>3 DEF InPlace, NoneForgotten
  <2>2. CASE f \notin files
    BY <2>2
  <2> QED
    BY <2>1, <2>2
<1> QED
  BY <1>5, <1>6, <1>7, <1>8, <1>9, <1>10 DEF InPlace

(* DeleteUploadedFiles: what is removed is held by the record that will be    *)
(* changed, and by no other.                                                  *)
LEMMA PlaceDeleted ==
  ASSUME FilesInv, Calm', NEW c \in Clients, DeleteUploadedFiles(c), Quiet(c), call'[c].at \in Late, call'[c].id = call[c].id, call'[c].file = 0
  PROVE  InPlace'
<1> DEFINE i == call[c].id
           f == View(c)[i].file
<1>0. KeysInv /\ TypeOK /\ CallsPrepared /\ Names /\ \A g \in Files : g # 0
  BY DEF FilesInv, KeysInv, Files
<1>1. rows' = rows /\ (\A d \in Clients : buffer'[d].rows = buffer[d].rows) /\ stale' = stale /\ raced' = raced
  BY DEF Quiet, Others
<1>2. \A d \in Clients, j \in Ids : View(d)'[j] = View(d)[j] /\ Touches(d, j)' = Touches(d, j)
  BY <1>1, SameView
<1>3. \A d \in Clients \ {c} : call'[d] = call[d] /\ buffer'[d] = buffer[d]
  BY DEF Quiet, Others
<1>4. call[c].at = "before" /\ i \in Ids /\ files' = files \ OldFiles(c) /\ buffer'[c].touched = (buffer[c].touched \/ OldFiles(c) # {})
  <2>1. call[c].at = "before" /\ files' = files \ OldFiles(c) /\ buffer' = [buffer EXCEPT ![c].touched = @ \/ OldFiles(c) # {}]
    BY DEF DeleteUploadedFiles
  <2>2. buffer[c] \in Buffers /\ buffer'[c] = [buffer[c] EXCEPT !.touched = @ \/ OldFiles(c) # {}]
    BY <1>0, <2>1 DEF TypeOK
  <2>3. buffer'[c].touched = (buffer[c].touched \/ OldFiles(c) # {})
    BY <2>2 DEF Buffers
  <2>4. i \in Ids
    BY <1>0, <2>1, PreparedFacts DEF CallsPrepared, Changing
  <2> QED
    BY <2>1, <2>3, <2>4
<1>5. Calm /\ InPlace
  <2>1. undone' = undone
    BY DEF DeleteUploadedFiles, Store
  <2> QED
    BY <1>1, <1>3, <1>4, <2>1, CalmBack DEF FilesInv
<1>6. OldFiles(c) \subseteq {f} /\ (OldFiles(c) # {} => f \in Files /\ Holds(i, f) /\ View(c)[i] # Absent /\ OldFiles(c) = {f})
  BY <1>0, <1>4, ViewFacts, RowFacts, HoldsFacts DEF OldFiles, Selected
<1>7. Fresh(c) => OldFiles(c) = {f}
  BY <1>0, <1>4 DEF KeysInv, Sight, Sees, ChangesSeen, Changing, OldFiles, Selected, IsActive
<1>8. \A j \in Ids \ {i}, g \in Files : Holds(j, g) => g \notin OldFiles(c)
  BY <1>4, <1>6 DEF FilesInv, Names, OneHolder
<1> HIDE DEF i, f
<1>9. RowsHaveFiles'
  <2> SUFFICES ASSUME NEW j \in Ids, IsActive(rows[j]), \A d \in Clients : ~Worked(d, j)'
               PROVE  rows[j].file \in files'
    BY <1>1 DEF RowsHaveFiles
  <2>1. \A d \in Clients : ~Worked(d, j)
    <3>1. \A d \in Clients \ {c} : ~Worked(d, j)
      BY <1>2, <1>3 DEF Worked, Past
    <3>2. ~Worked(c, j)
      BY <1>2, <1>4 DEF Worked, Past, Late
    <3> QED
      BY <3>1, <3>2
  <2>2. rows[j].file \in files
    BY <1>5, <2>1 DEF InPlace, RowsHaveFiles
  <2>3. Holds(j, rows[j].file) /\ rows[j].file \in Files
    BY <1>0, RowFacts, HoldsFacts DEF TypeOK, IsActive
  <2>4. j = i => OldFiles(c) = {}
    BY <1>4 DEF Worked, Past, Late, i
  <2> QED
    BY <1>4, <1>8, <2>2, <2>3, <2>4
<1>10. WrittenHaveFiles'
  <2> SUFFICES ASSUME NEW d \in Clients, NEW j \in Ids, Touches(d, j), IsActive(buffer[d].rows[j]), ~Past(d, j)'
               PROVE  buffer[d].rows[j].file \in files'
    BY <1>1, <1>2 DEF WrittenHaveFiles
  <2>1. ~Past(d, j)
    BY <1>3, <1>4 DEF Past, Late
  <2>2. buffer[d].rows[j].file \in files
    BY <1>5, <2>1 DEF InPlace, WrittenHaveFiles
  <2>3. buffer[d].rows[j] = View(d)[j] /\ View(d)[j] \in Rows /\ View(d)[j] # Absent
    BY <1>0, ViewFacts DEF IsActive
  <2>4. Holds(j, View(d)[j].file) /\ View(d)[j].file \in Files
    BY <1>0, <2>3, RowFacts, HoldsFacts
  <2>5. CASE j # i
    BY <1>4, <1>8, <2>2, <2>3, <2>4, <2>5
  <2>6. CASE j = i /\ d = c
    BY <2>6 DEF Past, i
  <2>7. CASE j = i /\ d # c
    <3>1. ~Touches(c, i)
      BY <1>0, <2>7 DEF KeysInv, OneWriter
    <3>2. View(c)[i] = rows[i]
      BY <1>0, <1>4, <3>1, ViewFacts DEF i
    <3>3. rows[i] # Absent => buffer[d].rows[j].file # rows[i].file
      BY <1>0, <2>7 DEF Names, UpdatedIsNew
    <3>4. buffer[d].rows[j].file \notin OldFiles(c)
      BY <1>6, <3>2, <3>3 DEF f
    <3> QED
      BY <1>4, <2>2, <3>4
  <2> QED
    BY <2>5, <2>6, <2>7
<1>11. StoredIsThere'
  <2> SUFFICES ASSUME NEW d \in Clients, call'[d].file # 0
               PROVE  call'[d].file \in files'
    BY DEF StoredIsThere
  <2>1. d # c /\ call'[d] = call[d]
    BY <1>3
  <2>2. call[d].file \in files /\ call[d].file \in Files
    BY <1>0, <1>5, <2>1 DEF InPlace, StoredIsThere, TypeOK
  <2>3. call[d].file \notin OldFiles(c)
    BY <1>0, <1>4, <1>6, <2>2 DEF Names, StoredIsNobodys
  <2> QED
    BY <1>4, <2>1, <2>2, <2>3
<1>12. ReplacedIsGone'
  BY <1>1, <1>2, <1>4, <1>5 DEF InPlace, ReplacedIsGone
<1>13. OldIsGone'
  <2> SUFFICES ASSUME NEW d \in Clients, buffer'[d].touched, call'[d].at \in Late
               PROVE  View(d)'[call'[d].id].file \notin files'
    BY DEF OldIsGone
  <2>1. CASE d # c
    <3>1. call[d].at \in Late /\ call'[d].id = call[d].id /\ buffer[d].touched
      BY <1>3, <2>1
    <3>2. call[d].id \in Ids
      BY <1>0, <3>1, PreparedFacts DEF CallsPrepared, Late, Changing
    <3>3. View(d)[call[d].id].file \notin files
      BY <1>5, <3>1 DEF InPlace, OldIsGone
    <3> QED
      BY <1>2, <1>4, <3>1, <3>2, <3>3
  <2>2. CASE d = c
    <3>1. Fresh(c)
      BY <1>1, <2>2 DEF Calm, Fresh
    <3>2. f \notin files'
      BY <1>4, <1>7, <3>1
    <3> QED
      BY <1>2, <1>4, <2>2, <3>2 DEF f, i
  <2> QED
    BY <2>1, <2>2
<1>14. NoneForgotten'
  <2> SUFFICES ASSUME NEW g \in files'
               PROVE  (\E j \in Ids : Holds(j, g)') \/ (\E d \in Clients : call'[d].file = g)
    BY DEF NoneForgotten
  <2>1. g \in files /\ g \in Files /\ g # 0
    BY <1>0, <1>4 DEF TypeOK
  <2>2. CASE \E j \in Ids : Holds(j, g)
    BY <2>1, <2>2, HoldsQuiet
  <2>3. ASSUME NEW d \in Clients, call[d].file = g PROVE \E e \in Clients : call'[e].file = g
    <3>1. call[c].file = 0
      BY <1>0, <1>4, PreparedFacts DEF CallsPrepared
    <3> QED
      BY <1>3, <2>1, <2>3, <3>1
  <2> QED
    BY <1>5, <2>1, <2>2, <2>3 DEF InPlace, NoneForgotten
<1> QED
  BY <1>9, <1>10, <1>11, <1>12, <1>13, <1>14 DEF InPlace

(* InsertRow and Write: row n has the new file, or the one it had, or none.   *)
LEMMA PlacePut ==
  ASSUME FilesInv, KeysInv', Calm, NEW c \in Clients, NEW n \in Ids, Others(c),
         rows' = rows, files' = files, call'[c] = NoCall, buffer'[c].touched,
         \A j \in Ids \ {n} : buffer'[c].rows[j] = buffer[c].rows[j],
         Touches(c, n)',
         \/ buffer'[c].rows[n].file = call[c].file
         \/ ~IsActive(buffer'[c].rows[n]) /\ call[c].file = 0,
         call[c].file # 0 => buffer'[c].rows[n] # Absent /\ buffer'[c].rows[n].file = call[c].file,
         IsActive(buffer'[c].rows[n]) => call[c].file # 0,
         View(c)[n] # Absent => View(c)[n].file \notin files,
         call[c].at \in Late => call[c].id = n
  PROVE  InPlace'
<1>0. KeysInv /\ TypeOK /\ CallsPrepared /\ Names /\ InPlace /\ WritersTouched /\ \A g \in Files : g # 0
  BY DEF FilesInv, KeysInv, Files
<1>1. \A d \in Clients \ {c}, i \in Ids : Touches(d, i)' = Touches(d, i) /\ View(d)'[i] = View(d)[i] /\ buffer'[d].rows[i] = buffer[d].rows[i]
  BY SameView DEF Others
<1>2. \A j \in Ids \ {n} : Touches(c, j)' = Touches(c, j) /\ buffer'[c].rows[j] = buffer[c].rows[j]
  BY DEF Touches
<1>3. \A d \in Clients \ {c} : call'[d] = call[d] /\ buffer'[d] = buffer[d]
  BY DEF Others
<1>4. NoCall.file = 0 /\ NoCall.at \notin Late
  BY DEF NoCall, Late
<1>5. \A j \in Ids \ {n} : ~Past(c, j)
  BY DEF Past
<1>6. RowsHaveFiles'
  <2> SUFFICES ASSUME NEW j \in Ids, IsActive(rows[j]), \A d \in Clients : ~Worked(d, j)'
               PROVE  rows[j].file \in files
    BY DEF RowsHaveFiles
  <2>1. j # n
    BY DEF Worked
  <2>2. \A d \in Clients \ {c} : ~Worked(d, j)
    BY <1>1, <1>3 DEF Worked, Past
  <2>3. ~Worked(c, j)
    BY <1>2, <1>5, <2>1 DEF Worked
  <2> QED
    BY <1>0, <2>2, <2>3 DEF InPlace, RowsHaveFiles
<1>7. WrittenHaveFiles'
  <2> SUFFICES ASSUME NEW d \in Clients, NEW j \in Ids, Touches(d, j)', IsActive(buffer'[d].rows[j]), ~Past(d, j)'
               PROVE  buffer'[d].rows[j].file \in files
    BY DEF WrittenHaveFiles
  <2>1. CASE d # c
    BY <1>0, <1>1, <1>3, <2>1 DEF InPlace, WrittenHaveFiles, Past
  <2>2. CASE d = c /\ j # n
    BY <1>0, <1>2, <1>5, <2>2 DEF InPlace, WrittenHaveFiles
  <2>3. CASE d = c /\ j = n
    BY <1>0, <2>3 DEF InPlace, StoredIsThere
  <2> QED
    BY <2>1, <2>2, <2>3
<1>8. StoredIsThere'
  BY <1>0, <1>3, <1>4 DEF InPlace, StoredIsThere
<1>9. ReplacedIsGone'
  <2> SUFFICES ASSUME NEW d \in Clients, NEW j \in Ids, Touches(d, j)', rows[j] # Absent
               PROVE  rows[j].file \notin files
    BY DEF ReplacedIsGone
  <2>1. CASE Touches(d, j)
    BY <1>0, <2>1 DEF InPlace, ReplacedIsGone
  <2>2. CASE ~Touches(d, j)
    <3>1. d = c /\ j = n
      BY <1>1, <1>2, <2>2
    <3> QED
      BY <1>0, <2>2, <3>1, ViewFacts
  <2> QED
    BY <2>1, <2>2
<1>10. OldIsGone'
  <2> SUFFICES ASSUME NEW d \in Clients, buffer'[d].touched, call'[d].at \in Late
               PROVE  View(d)'[call'[d].id].file \notin files
    BY DEF OldIsGone
  <2>1. d # c /\ call'[d] = call[d] /\ buffer'[d] = buffer[d]
    BY <1>3, <1>4
  <2>2. call[d].id \in Ids
    BY <1>0, <2>1, PreparedFacts DEF CallsPrepared, Late, Changing
  <2> QED
    BY <1>0, <1>1, <2>1, <2>2 DEF InPlace, OldIsGone
<1>11. NoneForgotten'
  <2> SUFFICES ASSUME NEW g \in files
               PROVE  (\E j \in Ids : Holds(j, g)') \/ (\E d \in Clients : call'[d].file = g)
    BY DEF NoneForgotten
  <2>1. g # 0
    BY <1>0 DEF TypeOK
  <2>2. ASSUME NEW j \in Ids, Holds(j, g) PROVE Holds(j, g)'
    <3>1. CASE rows[j] # Absent /\ rows[j].file = g
      BY <3>1 DEF Holds
    <3>2. ASSUME NEW d \in Clients, Touches(d, j), buffer[d].rows[j] # Absent, buffer[d].rows[j].file = g PROVE Holds(j, g)'
      <4>1. ~(d = c /\ j = n)
        BY <1>0, <3>2, ViewFacts
      <4> QED
        BY <1>1, <1>2, <3>2, <4>1 DEF Holds
    <3> QED
      BY <2>2, <3>1, <3>2 DEF Holds
  <2>3. ASSUME NEW d \in Clients, call[d].file = g PROVE Holds(n, g)' \/ \E e \in Clients : call'[e].file = g
    <3>1. CASE d = c
      BY <2>1, <2>3, <3>1 DEF Holds
    <3>2. CASE d # c
      BY <1>3, <2>3, <3>2
    <3> QED
      BY <3>1, <3>2
  <2> QED
    BY <1>0, <2>2, <2>3 DEF InPlace, NoneForgotten
<1> QED
  BY <1>6, <1>7, <1>8, <1>9, <1>10, <1>11 DEF InPlace

(* A client that has changed no file leaves its call.                         *)
LEMMA PlaceDropped ==
  ASSUME KeysInv, WritersTouched, InPlace, NEW c \in Clients, Others(c), ~buffer[c].touched,
         rows' = rows, files' = files, call'[c] = NoCall, ~buffer'[c].touched, \A i \in Ids : ~Touches(c, i)'
  PROVE  InPlace'
<1>0. TypeOK /\ CallsPrepared /\ \A g \in Files : g # 0
  BY DEF KeysInv, Files
<1>1. \A d \in Clients \ {c}, i \in Ids : Touches(d, i)' = Touches(d, i) /\ View(d)'[i] = View(d)[i] /\ buffer'[d].rows[i] = buffer[d].rows[i]
  BY SameView DEF Others
<1>2. \A d \in Clients \ {c} : call'[d] = call[d] /\ buffer'[d] = buffer[d]
  BY DEF Others
<1>3. NoCall.file = 0 /\ NoCall.at \notin Late
  BY DEF NoCall, Late
<1>4. call[c].file = 0 /\ \A i \in Ids : ~Touches(c, i)
  BY <1>0, StoredTouched DEF CallsPrepared, WritersTouched
<1>5. \A d \in Clients, i \in Ids : Worked(d, i)' <=> Worked(d, i)
  BY <1>1, <1>2 DEF Worked, Past
<1>6. RowsHaveFiles' /\ StoredIsThere' /\ ReplacedIsGone'
  BY <1>1, <1>2, <1>3, <1>5 DEF InPlace, RowsHaveFiles, StoredIsThere, ReplacedIsGone
<1>7. WrittenHaveFiles'
  BY <1>1, <1>2 DEF InPlace, WrittenHaveFiles, Past
<1>8. OldIsGone'
  <2> SUFFICES ASSUME NEW d \in Clients, buffer'[d].touched, call'[d].at \in Late
               PROVE  View(d)'[call'[d].id].file \notin files
    BY DEF OldIsGone
  <2>1. d # c /\ call'[d] = call[d] /\ buffer'[d] = buffer[d]
    BY <1>2, <1>3
  <2>2. call[d].id \in Ids
    BY <1>0, <2>1, PreparedFacts DEF CallsPrepared, Late, Changing
  <2> QED
    BY <1>1, <2>1, <2>2 DEF InPlace, OldIsGone
<1>9. NoneForgotten'
  <2> SUFFICES ASSUME NEW g \in files
               PROVE  (\E j \in Ids : Holds(j, g)') \/ (\E d \in Clients : call'[d].file = g)
    BY DEF NoneForgotten
  <2>1. g # 0
    BY <1>0 DEF TypeOK
  <2>2. ASSUME NEW j \in Ids, Holds(j, g) PROVE Holds(j, g)'
    BY <1>1, <1>4, <2>2 DEF Holds
  <2>3. ASSUME NEW d \in Clients, call[d].file = g PROVE \E e \in Clients : call'[e].file = g
    BY <1>2, <1>4, <2>1, <2>3
  <2> QED
    BY <2>2, <2>3 DEF InPlace, NoneForgotten
<1> QED
  BY <1>6, <1>7, <1>8, <1>9 DEF InPlace

(* What a commit leaves of the others: the rows they have written and, of     *)
(* those nobody has outdated, the record they change.                         *)
LEMMA CommitLeaves ==
  ASSUME KeysInv, NEW c \in Clients, Commit(c), NEW d \in Clients \ {c}
  PROVE  /\ \A i \in Ids : Touches(d, i) => ~Touches(c, i) /\ rows'[i] = rows[i]
         /\ Fresh(d)' /\ call[d].at \in Changing => call[d].id \in Ids /\ View(d)'[call[d].id] = View(d)[call[d].id]
<1>0. TypeOK /\ CallsPrepared /\ rows' = View(c) /\ buffer'[d] = buffer[d]
  BY DEF KeysInv, Commit, EndTransaction, TypeOK
<1>1. \A i \in Ids : ~Touches(c, i) => rows'[i] = rows[i]
  BY <1>0, ViewFacts
<1>2. \A i \in Ids : Touches(d, i) => ~Touches(c, i) /\ rows'[i] = rows[i]
  BY <1>1 DEF KeysInv, OneWriter
<1>3. ASSUME Fresh(d)', call[d].at \in Changing
      PROVE  call[d].id \in Ids /\ View(d)'[call[d].id] = View(d)[call[d].id]
  <2> DEFINE i == call[d].id
  <2>1. Fresh(d) /\ looked[d] \cap KeysWritten(c) = {}
    BY <1>3 DEF Commit, Fresh
  <2>2. i \in Ids /\ IsActive(View(d)[i]) /\ View(d)[i].key \subseteq looked[d]
    BY <1>0, <1>3, <2>1, PreparedFacts DEF KeysInv, Sight, Sees, ChangesSeen, CallsPrepared
  <2>3. View(d)[i].key # {} /\ View(d)[i].key \cap KeysWritten(c) = {}
    BY <1>0, <2>1, <2>2, ViewFacts, RowFacts DEF IsActive
  <2>4. Touches(c, i) => rows[i].key \subseteq KeysWritten(c)
    BY <2>2 DEF KeysWritten
  <2>5. ~Touches(c, i)
    BY <1>0, <1>2, <2>2, <2>3, <2>4, ViewFacts
  <2>6. PICK j \in Ids : j = i
    BY <2>2
  <2>7. Touches(d, j)' = Touches(d, j) /\ rows'[j] = rows[j] /\ buffer'[d].rows[j] = buffer[d].rows[j]
    BY <1>0, <1>1, <2>5, <2>6 DEF Touches
  <2>8. View(d)[j] = (IF Touches(d, j) THEN buffer[d].rows[j] ELSE rows[j]) /\ View(d)'[j] = (IF Touches(d, j)' THEN buffer'[d].rows[j] ELSE rows'[j])
    BY DEF View
  <2> QED
    BY <2>2, <2>6, <2>7, <2>8
<1> QED
  BY <1>2, <1>3

LEMMA PlaceCommitted ==
  ASSUME FilesInv, Calm, Calm', NEW c \in Clients, Commit(c)
  PROVE  InPlace'
<1>0. KeysInv /\ TypeOK /\ CallsPrepared /\ Names /\ InPlace /\ WritersTouched
  BY DEF FilesInv, KeysInv
<1>1. rows' = View(c) /\ call[c] = NoCall /\ call' = call /\ buffer'[c] = Empty /\ files' = files /\ Others(c)
  BY <1>0 DEF Commit, EndTransaction, TypeOK, Others
<1>2. NoCall.file = 0 /\ NoCall.at \notin Late
  BY DEF NoCall, Late
<1>3. \A i \in Ids : /\ ~Touches(c, i)'
                     /\ Touches(c, i) => rows'[i] = buffer[c].rows[i]
                     /\ ~Touches(c, i) => rows'[i] = rows[i]
  BY <1>0, <1>1, ViewFacts DEF Empty, Touches
<1>4. \A d \in Clients \ {c}, i \in Ids : Touches(d, i)' = Touches(d, i) /\ buffer'[d] = buffer[d]
  BY <1>1 DEF Others, Touches
<1>5. \A d \in Clients, i \in Ids : Past(d, i)' <=> Past(d, i)
  BY <1>1 DEF Past
<1>6. \A i \in Ids : ~Past(c, i)
  BY <1>1, <1>2 DEF Past
<1>7. RowsHaveFiles'
  <2> SUFFICES ASSUME NEW i \in Ids, IsActive(rows'[i]), \A d \in Clients : ~Worked(d, i)'
               PROVE  rows'[i].file \in files
    BY <1>1 DEF RowsHaveFiles
  <2>1. CASE Touches(c, i)
    BY <1>0, <1>3, <1>6, <2>1 DEF InPlace, WrittenHaveFiles
  <2>2. CASE ~Touches(c, i)
    <3>1. \A d \in Clients : ~Worked(d, i)
      BY <1>4, <1>5, <1>6, <2>2 DEF Worked
    <3> QED
      BY <1>0, <1>3, <2>2, <3>1 DEF InPlace, RowsHaveFiles
  <2> QED
    BY <2>1, <2>2
<1>8. WrittenHaveFiles'
  BY <1>0, <1>1, <1>3, <1>4, <1>5 DEF InPlace, WrittenHaveFiles
<1>9. StoredIsThere'
  BY <1>0, <1>1 DEF InPlace, StoredIsThere
<1>10. ReplacedIsGone'
  BY <1>0, <1>1, <1>3, <1>4, CommitLeaves DEF InPlace, ReplacedIsGone
<1>11. OldIsGone'
  <2> SUFFICES ASSUME NEW d \in Clients, buffer'[d].touched, call'[d].at \in Late
               PROVE  View(d)'[call'[d].id].file \notin files
    BY <1>1 DEF OldIsGone
  <2>1. d # c /\ call'[d] = call[d] /\ buffer'[d] = buffer[d]
    BY <1>1, <1>2 DEF Others
  <2>2. Fresh(d)'
    BY DEF Calm, Fresh
  <2>3. View(d)'[call[d].id] = View(d)[call[d].id]
    BY <1>0, <2>1, <2>2, CommitLeaves DEF Late, Changing
  <2> QED
    BY <1>0, <2>1, <2>3 DEF InPlace, OldIsGone
<1>12. NoneForgotten'
  <2> SUFFICES ASSUME NEW g \in files
               PROVE  (\E j \in Ids : Holds(j, g)') \/ (\E d \in Clients : call'[d].file = g)
    BY <1>1 DEF NoneForgotten
  <2>1. ASSUME NEW j \in Ids, Holds(j, g) PROVE Holds(j, g)'
    <3>1. CASE rows[j] # Absent /\ rows[j].file = g
      <4>1. ~Touches(c, j)
        BY <1>0, <3>1 DEF InPlace, ReplacedIsGone
      <4> QED
        BY <1>3, <3>1, <4>1 DEF Holds
    <3>2. ASSUME NEW d \in Clients, Touches(d, j), buffer[d].rows[j] # Absent, buffer[d].rows[j].file = g PROVE Holds(j, g)'
      <4>1. CASE d = c
        BY <1>3, <3>2, <4>1 DEF Holds
      <4>2. CASE d # c
        BY <1>4, <3>2, <4>2 DEF Holds
      <4> QED
        BY <4>1, <4>2
    <3> QED
      BY <2>1, <3>1, <3>2 DEF Holds
  <2> QED
    BY <1>0, <1>1, <2>1 DEF InPlace, NoneForgotten
<1> QED
  BY <1>7, <1>8, <1>9, <1>10, <1>11, <1>12 DEF InPlace

-------------------------------------------------------------------------------
(* The steps.                                                                 *)
LEMMA TouchedFrame ==
  ASSUME WritersTouched, LateTouched, NEW c \in Clients, Others(c),
         \A d \in Clients \ {c} : Fresh(d)' => Fresh(d),
         \A i \in Ids : Touches(c, i)' => buffer'[c].touched,
         Fresh(c)' /\ call'[c].at \in Late => buffer'[c].touched
  PROVE  WritersTouched' /\ LateTouched'
<1>1. \A d \in Clients \ {c} : buffer'[d] = buffer[d] /\ call'[d] = call[d] /\ \A i \in Ids : Touches(d, i)' = Touches(d, i)
  BY DEF Others, Touches
<1>2. WritersTouched'
  BY <1>1 DEF WritersTouched
<1>3. LateTouched'
  <2> SUFFICES ASSUME NEW d \in Clients, Fresh(d)', call'[d].at \in Late
               PROVE  buffer'[d].touched
    BY DEF LateTouched
  <2>1. CASE d = c
    BY <2>1
  <2>2. CASE d # c
    <3>1. call'[d] = call[d] /\ buffer'[d] = buffer[d]
      BY <1>1, <2>2
    <3>2. Fresh(d)
      BY <2>2
    <3> QED
      BY <3>1, <3>2 DEF LateTouched
  <2> QED
    BY <2>1, <2>2
<1> QED
  BY <1>2, <1>3

LEMMA LooksFiles ==
  ASSUME FilesInv, KeysInv', NEW c \in Clients,
         \/ \E k \in Keys, op \in {"update_or_insert", "validate_and_insert"} : LookUp(c, k, op)
         \/ \E i \in Ids, op \in {"update", "delete"} : Begin(c, i, op)
  PROVE  FilesInv'
<1>0. KeysInv /\ TypeOK /\ Names /\ nextFile \in Nat \ {0} /\ NoCall.file = 0 /\ NoCall.at = "idle" /\ call[c] = NoCall
  <2>1. KeysInv /\ TypeOK /\ Names
    BY DEF FilesInv, KeysInv
  <2>2. nextFile \in Nat \ {0}
    BY <2>1, RecordsAssumption DEF TypeOK
  <2>3. call[c] = NoCall
    BY DEF LookUp, Begin
  <2> QED
    BY <2>1, <2>2, <2>3 DEF NoCall
<1>1. Store /\ buffer' = buffer /\ files' = files /\ nextId' = nextId /\ nextFile' = nextFile /\ \E l : looked' = [looked EXCEPT ![c] = @ \cup l]
  BY DEF LookUp, Begin
<1>2. call'[c].file = 0 /\ call'[c].at \in {"idle", "insert", "before"} /\ \A d \in Clients \ {c} : call'[d] = call[d]
  <2> DEFINE New(cl) == call' = [call EXCEPT ![c] = cl] /\ cl.file = 0 /\ cl.at \in {"idle", "insert", "before"}
  <2>1. ASSUME NEW k, NEW op, call' = [call EXCEPT ![c] = [NoCall EXCEPT !.at = "insert", !.key = {k}, !.op = op]]
        PROVE  \E cl : New(cl)
    <3>1. New([NoCall EXCEPT !.at = "insert", !.key = {k}, !.op = op])
      BY <2>1 DEF NoCall
    <3> QED
      BY <3>1
  <2>2. ASSUME NEW i, NEW op, NEW filter, call' = [call EXCEPT ![c] = [NoCall EXCEPT !.at = "before", !.id = i, !.op = op, !.filter = filter]]
        PROVE  \E cl : New(cl)
    <3>1. New([NoCall EXCEPT !.at = "before", !.id = i, !.op = op, !.filter = filter])
      BY <2>2 DEF NoCall
    <3> QED
      BY <3>1
  <2>3. ASSUME call' = call PROVE \E cl : New(cl)
    <3>1. New(NoCall)
      BY <1>0, <2>3 DEF TypeOK
    <3> QED
      BY <3>1
  <2>4. ASSUME NEW i, call' = [call EXCEPT ![c] = [NoCall EXCEPT !.at = "before", !.id = i, !.op = "update"]]
        PROVE  \E cl : New(cl)
    <3>1. New([NoCall EXCEPT !.at = "before", !.id = i, !.op = "update"])
      BY <2>4 DEF NoCall
    <3> QED
      BY <3>1
  <2>5. \E cl : New(cl)
    <3> HIDE DEF New
    <3>1. ASSUME NEW k \in Keys, NEW op \in {"update_or_insert", "validate_and_insert"}, LookUp(c, k, op) PROVE \E cl : New(cl)
      <4>1. CASE call' = [call EXCEPT ![c] = [NoCall EXCEPT !.at = "insert", !.key = {k}, !.op = op]]
        BY <2>1, <4>1
      <4>2. CASE call' = call
        BY <2>3, <4>2
      <4>3. ASSUME NEW i, call' = [call EXCEPT ![c] = [NoCall EXCEPT !.at = "before", !.id = i, !.op = "update"]] PROVE \E cl : New(cl)
        BY <2>4, <4>3
      <4> QED
        BY <3>1, <4>1, <4>2, <4>3 DEF LookUp
    <3>2. ASSUME NEW i \in Ids, NEW op \in {"update", "delete"}, Begin(c, i, op) PROVE \E cl : New(cl)
      BY <2>2, <3>2 DEF Begin
    <3> QED
      BY <3>1, <3>2
  <2> QED
    BY <1>0, <2>5 DEF TypeOK
<1>3. Quiet(c)
  BY <1>0, <1>1, <1>2 DEF Quiet, Others, Store, TypeOK
<1>4. Names'
  <2>1. UpdatedIsNew'
    BY <1>0, <1>3, UpdatedQuiet DEF Names
  <2>2. \A d \in Clients : call'[d].file \in {0, call[d].file}
    BY <1>2
  <2> QED
    BY <1>0, <1>1, <1>3, <2>1, <2>2, HoldsQuiet, NamesKept
<1>5. WritersTouched' /\ LateTouched'
  <2>1. \A i \in Ids : Touches(c, i)' = Touches(c, i)
    BY <1>1 DEF Touches
  <2> QED
    BY <1>1, <1>2, <1>3, <2>1, TouchedFrame DEF FilesInv, WritersTouched, Late, Quiet, Fresh
<1>6. ASSUME Calm' PROVE InPlace'
  <2>1. Calm
    BY <1>1, <1>6 DEF Calm, Store
  <2>2. call'[c].at \notin Late /\ call[c].at \notin Late
    BY <1>0, <1>2 DEF Late
  <2> QED
    BY <1>0, <1>1, <1>2, <1>3, <1>6, <2>1, <2>2, PlaceQuiet DEF FilesInv
<1> QED
  BY <1>4, <1>5, <1>6 DEF FilesInv

LEMMA StoreFiles ==
  ASSUME FilesInv, KeysInv', NEW c \in Clients, StoreForInsert(c) \/ StoreForUpdate(c)
  PROVE  FilesInv'
<1>0. KeysInv /\ TypeOK /\ Prepared(c) /\ Names /\ call[c] \in Calls /\ buffer[c] \in Buffers
  BY DEF FilesInv, KeysInv, TypeOK, CallsPrepared
<1>1. /\ Store /\ files' = files \cup {nextFile} /\ nextFile' = nextFile + 1 /\ nextFile <= MaxFile
      /\ nextId' = nextId /\ looked' = looked /\ buffer' = [buffer EXCEPT ![c].touched = TRUE]
  BY DEF StoreForInsert, StoreForUpdate, NewName
<1>2. nextFile \in Files
  <2>1. MaxFile \in Nat /\ nextFile \in 1..(MaxFile + 1)
    BY <1>0, RecordsAssumption DEF TypeOK
  <2> QED
    BY <1>1, <2>1 DEF Files
<1>3. \/ call[c].at = "insert" /\ call' = [call EXCEPT ![c].at = "insert row", ![c].file = nextFile]
      \/ call[c].at = "upload" /\ \E at \in {"archive", "write"} : call' = [call EXCEPT ![c].file = nextFile, ![c].at = at]
  BY DEF StoreForInsert, StoreForUpdate, NewName
<1>4. /\ call'[c].file = nextFile /\ call[c].file = 0 /\ call'[c].id = call[c].id
      /\ call'[c].at \in Late <=> call[c].at \in Late
  <2>1. call[c].file = 0
    BY <1>0, <1>3, PreparedFacts
  <2>2. \/ call[c].at = "insert" /\ call'[c] = [call[c] EXCEPT !.at = "insert row", !.file = nextFile]
        \/ call[c].at = "upload" /\ \E at \in {"archive", "write"} : call'[c] = [call[c] EXCEPT !.file = nextFile, !.at = at]
    BY <1>0, <1>3 DEF TypeOK
  <2> QED
    BY <1>0, <2>1, <2>2 DEF Calls, Late
<1>5. buffer'[c].rows = buffer[c].rows /\ buffer'[c].archive = buffer[c].archive /\ buffer'[c].touched
  BY <1>0, <1>1 DEF TypeOK, Buffers
<1>6. Quiet(c)
  <2>1. Others(c)
    BY <1>0, <1>1, <1>3 DEF Others, TypeOK
  <2> QED
    BY <1>1, <1>5, <2>1 DEF Quiet, Store
<1>7. Names'
  <2>1. UpdatedIsNew'
    BY <1>0, <1>6, UpdatedQuiet DEF Names
  <2> QED
    BY <1>0, <1>1, <1>2, <1>4, <1>6, <2>1, HoldsQuiet, NamesStored DEF Quiet
<1>8. WritersTouched' /\ LateTouched'
  BY <1>5, <1>6, TouchedFrame DEF FilesInv, Quiet, Fresh
<1>9. ASSUME Calm' PROVE InPlace'
  <2>1. Calm
    <3>1. \A d \in Clients : buffer[d].touched => buffer'[d].touched
      BY <1>5, <1>6 DEF Quiet, Others
    <3> QED
      BY <1>1, <1>9, <3>1, CalmBack DEF Store
  <2>2. call'[c].file \in files'
    BY <1>1, <1>4
  <2> QED
    BY <1>0, <1>1, <1>4, <1>5, <1>6, <1>9, <2>1, <2>2, PlaceQuiet DEF FilesInv
<1> QED
  BY <1>7, <1>8, <1>9 DEF FilesInv

LEMMA ArchiveFiles ==
  ASSUME FilesInv, KeysInv', NEW c \in Clients, ArchiveRecord(c)
  PROVE  FilesInv'
<1>0. KeysInv /\ TypeOK /\ Names /\ call[c] \in Calls /\ buffer[c] \in Buffers /\ nextFile \in Nat \ {0}
  BY RecordsAssumption DEF FilesInv, KeysInv, TypeOK
<1>1. /\ Store /\ files' = files /\ nextFile' = nextFile /\ nextId' = nextId /\ looked' = looked
      /\ call[c].at = "archive" /\ call' = [call EXCEPT ![c].at = "write"]
      /\ \E old : buffer' = [buffer EXCEPT ![c].archive = @ \cup old]
  BY DEF ArchiveRecord
<1>2. call'[c].at = "write" /\ call'[c].id = call[c].id /\ call'[c].file = call[c].file
  BY <1>0, <1>1 DEF TypeOK, Calls
<1>3. buffer'[c].rows = buffer[c].rows /\ buffer[c].archive \subseteq buffer'[c].archive /\ buffer'[c].touched = buffer[c].touched
  BY <1>0, <1>1 DEF TypeOK, Buffers
<1>4. Quiet(c)
  BY <1>0, <1>1, <1>3 DEF Quiet, Others, Store, TypeOK
<1>5. Names'
  <2>1. UpdatedIsNew'
    BY <1>0, <1>4, UpdatedQuiet DEF Names
  <2>2. \A d \in Clients : call'[d].file \in {0, call[d].file}
    BY <1>2, <1>4 DEF Quiet, Others
  <2> QED
    BY <1>0, <1>1, <1>4, <2>1, <2>2, HoldsQuiet, NamesKept
<1>6. WritersTouched' /\ LateTouched'
  <2>1. \A i \in Ids : Touches(c, i)' => buffer'[c].touched
    BY <1>3 DEF Touches, FilesInv, WritersTouched
  <2>2. Fresh(c)' => buffer'[c].touched
    BY <1>1, <1>3, <1>4 DEF Fresh, Quiet, FilesInv, LateTouched, Late
  <2> QED
    BY <1>4, <2>1, <2>2, TouchedFrame DEF FilesInv, Quiet, Fresh
<1>7. ASSUME Calm' PROVE InPlace'
  <2>1. Calm
    <3>1. \A d \in Clients : buffer[d].touched => buffer'[d].touched
      BY <1>3, <1>4 DEF Quiet, Others
    <3> QED
      BY <1>1, <1>7, <3>1, CalmBack DEF Store
  <2>2. call'[c].at \in Late /\ call[c].at \in Late
    BY <1>1, <1>2 DEF Late
  <2> QED
    BY <1>0, <1>1, <1>2, <1>3, <1>4, <1>7, <2>1, <2>2, PlaceQuiet DEF FilesInv
<1> QED
  BY <1>5, <1>6, <1>7 DEF FilesInv

LEMMA DeleteFiles ==
  ASSUME FilesInv, KeysInv', NEW c \in Clients, DeleteUploadedFiles(c)
  PROVE  FilesInv'
<1>0. KeysInv /\ TypeOK /\ Prepared(c) /\ Names /\ call[c] \in Calls /\ buffer[c] \in Buffers /\ nextFile \in Nat \ {0}
  BY RecordsAssumption DEF FilesInv, KeysInv, TypeOK, CallsPrepared
<1>1. /\ Store /\ files' \subseteq files /\ nextFile' = nextFile /\ nextId' = nextId /\ looked' = looked /\ call[c].at = "before"
      /\ buffer' = [buffer EXCEPT ![c].touched = @ \/ OldFiles(c) # {}]
      /\ \E at \in Late : call' = [call EXCEPT ![c].at = at]
  <2>1. call[c].op \in {"update", "delete"}
    BY <1>0, PreparedFacts DEF DeleteUploadedFiles, Changing
  <2> QED
    BY <2>1 DEF DeleteUploadedFiles, Late
<1>2. call'[c].at \in Late /\ call'[c].id = call[c].id /\ call'[c].file = 0
  <2>1. PICK at \in Late : call'[c] = [call[c] EXCEPT !.at = at]
    BY <1>0, <1>1 DEF TypeOK
  <2>2. call[c].file = 0
    BY <1>0, <1>1, PreparedFacts
  <2> QED
    BY <1>0, <2>1, <2>2 DEF Calls
<1>3. buffer'[c].rows = buffer[c].rows /\ buffer[c].archive = buffer'[c].archive /\ (buffer[c].touched => buffer'[c].touched)
  BY <1>0, <1>1 DEF TypeOK, Buffers
<1>4. Quiet(c)
  BY <1>0, <1>1, <1>3 DEF Quiet, Others, Store, TypeOK
<1>5. Names'
  <2>1. UpdatedIsNew'
    BY <1>0, <1>4, UpdatedQuiet DEF Names
  <2>2. \A d \in Clients : call'[d].file \in {0, call[d].file}
    BY <1>2, <1>4 DEF Quiet, Others
  <2> QED
    BY <1>0, <1>1, <1>4, <2>1, <2>2, HoldsQuiet, NamesKept
<1>6. WritersTouched' /\ LateTouched'
  <2>1. \A i \in Ids : Touches(c, i)' => buffer'[c].touched
    BY <1>3 DEF Touches, FilesInv, WritersTouched
  <2>2. Fresh(c)' => buffer'[c].touched
    <3> SUFFICES ASSUME Fresh(c)' PROVE buffer'[c].touched
      OBVIOUS
    <3>1. Sees(c)
      BY <1>0, <1>4 DEF KeysInv, Sight, Fresh, Quiet
    <3>2. OldFiles(c) # {}
      BY <1>1, <3>1 DEF Sees, ChangesSeen, Changing, OldFiles, Selected, IsActive
    <3>3. buffer'[c] = [buffer[c] EXCEPT !.touched = @ \/ OldFiles(c) # {}]
      BY <1>0, <1>1 DEF TypeOK
    <3> QED
      BY <1>0, <3>2, <3>3 DEF Buffers
  <2> QED
    BY <1>4, <2>1, <2>2, TouchedFrame DEF FilesInv, Quiet, Fresh
<1>7. Calm' => InPlace'
  BY <1>2, <1>4, PlaceDeleted
<1> QED
  BY <1>5, <1>6, <1>7 DEF FilesInv

LEMMA InsertFiles ==
  ASSUME FilesInv, KeysInv', NEW c \in Clients, InsertRow(c)
  PROVE  FilesInv'
<1>0. KeysInv /\ TypeOK /\ Prepared(c) /\ Names /\ call[c] \in Calls /\ buffer[c] \in Buffers
  BY DEF FilesInv, KeysInv, TypeOK, CallsPrepared
<1>1. PICK n \in Ids : n = nextId /\ n >= nextId
  <2>1. MaxId \in Nat /\ nextId \in 1..(MaxId + 1) /\ nextId <= MaxId
    BY <1>0, RecordsAssumption DEF InsertRow, TypeOK
  <2> QED
    BY <2>1 DEF Ids
<1>2. PICK k \in call[c].key : buffer' = [buffer EXCEPT ![c].rows[n] = Record(k, call[c].file, TRUE)]
  BY <1>1 DEF InsertRow
<1>3. call[c].at = "insert row" /\ call[c].file \in Files /\ call[c].file # 0 /\ buffer[c].touched
  <2>1. call[c].at = "insert row" /\ call[c].file \in Files /\ buffer[c].touched
    BY <1>0, PreparedFacts DEF InsertRow
  <2>2. \A g \in Files : g # 0
    BY DEF Files
  <2> QED
    BY <2>1, <2>2
<1> DEFINE r == Record(k, call[c].file, TRUE)
<1>4. r # Absent /\ r # Untouched /\ r.file = call[c].file
  <2>1. r.key = {k} /\ r.file = call[c].file
    BY DEF Record
  <2>2. Absent.key = {} /\ Untouched.key = {}
    BY DEF Absent, Untouched
  <2> QED
    BY <2>1, <2>2
<1> HIDE DEF r
<1>5. buffer'[c].rows = [buffer[c].rows EXCEPT ![n] = r] /\ buffer'[c].touched = buffer[c].touched
  BY <1>0, <1>2 DEF TypeOK, Buffers, r
<1>6. buffer'[c].rows[n] = r /\ \A i \in Ids \ {n} : buffer'[c].rows[i] = buffer[c].rows[i]
  BY <1>0, <1>5 DEF Buffers
<1>7. /\ rows' = rows /\ files' = files /\ nextFile' = nextFile /\ stale' = stale /\ raced' = raced /\ undone' = undone
      /\ Others(c) /\ call'[c] = NoCall
  BY <1>0, <1>2 DEF InsertRow, Store, TypeOK, Others
<1>8. rows[n] = Absent /\ ~Touches(c, n) /\ View(c)[n] = Absent
  BY <1>0, <1>1, ViewFacts DEF KeysInv, NotYetInserted
<1>9. NoCall.file = 0 /\ NoCall.at = "idle"
  BY DEF NoCall
<1>10. Names'
  BY <1>0, <1>3, <1>4, <1>6, <1>7, <1>9, NamesPut
<1>11. WritersTouched' /\ LateTouched'
  BY <1>3, <1>5, <1>7, TouchedFrame DEF FilesInv, Fresh
<1>12. ASSUME Calm' PROVE InPlace'
  <2>1. Calm
    <3>1. \A d \in Clients : buffer[d].touched => buffer'[d].touched
      BY <1>5, <1>7 DEF Others
    <3> QED
      BY <1>7, <1>12, <3>1, CalmBack
  <2>2. Touches(c, n)' /\ call[c].at \notin Late
    BY <1>3, <1>4, <1>6 DEF Touches, Late
  <2> QED
    BY <1>3, <1>4, <1>5, <1>6, <1>7, <1>8, <2>1, <2>2, PlacePut
<1> QED
  BY <1>10, <1>11, <1>12 DEF FilesInv

LEMMA EndFiles ==
  ASSUME FilesInv, KeysInv', NEW c \in Clients, Commit(c) \/ Rollback(c)
  PROVE  FilesInv'
<1>0. KeysInv /\ TypeOK /\ Prepared(c) /\ Names /\ nextFile \in Nat \ {0}
  BY RecordsAssumption DEF FilesInv, KeysInv, TypeOK, CallsPrepared
<1>1. files' = files /\ nextFile' = nextFile /\ Others(c) /\ buffer'[c] = Empty /\ call'[c] = NoCall
  BY <1>0 DEF Commit, Rollback, EndTransaction, TypeOK, Others
<1>2. NoCall.file = 0 /\ NoCall.at = "idle" /\ ~Empty.touched /\ \A i \in Ids : ~Touches(c, i)'
  BY <1>1 DEF NoCall, Empty, Touches
<1>3. \A d \in Clients \ {c} : buffer'[d] = buffer[d] /\ \A i \in Ids : Touches(d, i)' = Touches(d, i)
  BY <1>1 DEF Others, Touches
<1>4. \A i \in Ids : rows'[i] = rows[i] \/ (Touches(c, i) /\ rows'[i] = buffer[c].rows[i])
  BY <1>0, ViewFacts DEF Commit, Rollback
<1>5. \A i \in Ids, f \in Files : Holds(i, f)' => Holds(i, f)
  <2> SUFFICES ASSUME NEW i \in Ids, NEW f \in Files, Holds(i, f)' PROVE Holds(i, f)
    OBVIOUS
  <2>1. CASE rows'[i] # Absent /\ rows'[i].file = f
    BY <1>4, <2>1 DEF Holds
  <2>2. ASSUME NEW d \in Clients, Touches(d, i)', buffer'[d].rows[i] # Absent, buffer'[d].rows[i].file = f
        PROVE  Holds(i, f)
    BY <1>2, <1>3, <2>2 DEF Holds
  <2> QED
    BY <2>1, <2>2 DEF Holds
<1>6. UpdatedIsNew'
  <2> SUFFICES ASSUME NEW d \in Clients, NEW i \in Ids, Touches(d, i)', rows'[i] # Absent, IsActive(buffer'[d].rows[i])
               PROVE  buffer'[d].rows[i].file # rows'[i].file
    BY DEF UpdatedIsNew
  <2>1. d # c /\ Touches(d, i) /\ buffer'[d] = buffer[d]
    BY <1>2, <1>3
  <2>2. rows'[i] = rows[i]
    BY <1>0, <1>4, <2>1 DEF KeysInv, OneWriter
  <2> QED
    BY <1>0, <2>1, <2>2 DEF Names, UpdatedIsNew
<1>7. Names'
  <2>1. \A d \in Clients : call'[d].file \in {0, call[d].file}
    BY <1>1, <1>2 DEF Others
  <2> QED
    BY <1>0, <1>1, <1>5, <1>6, <2>1, NamesKept
<1>8. WritersTouched' /\ LateTouched'
  <2>1. \A d \in Clients \ {c} : Fresh(d)' => Fresh(d)
    BY <1>0 DEF Commit, Rollback, Fresh, TypeOK
  <2> QED
    BY <1>1, <1>2, <2>1, TouchedFrame DEF FilesInv, Late
<1>9. CASE Commit(c)
  <2> SUFFICES ASSUME Calm' PROVE InPlace'
    BY <1>7, <1>8 DEF FilesInv
  <2>1. Calm
    <3>1. ~raced /\ ~undone /\ (stale[c] => ~buffer[c].touched)
      BY <1>9 DEF Commit, Calm
    <3>2. \A d \in Clients \ {c} : stale[d] => ~buffer[d].touched
      BY <1>3, <1>9 DEF Commit, Calm
    <3> QED
      BY <3>1, <3>2 DEF Calm
  <2> QED
    BY <1>9, <2>1, PlaceCommitted
<1>10. CASE Rollback(c)
  <2> SUFFICES ASSUME Calm' PROVE InPlace'
    BY <1>7, <1>8 DEF FilesInv
  <2>1. rows' = rows /\ ~buffer[c].touched
    BY <1>10 DEF Rollback, Calm
  <2>2. Calm
    <3>1. \A d \in Clients \ {c} : stale'[d] = stale[d] /\ buffer'[d] = buffer[d]
      BY <1>0, <1>3, <1>10 DEF Rollback, TypeOK
    <3> QED
      BY <1>10, <2>1, <3>1 DEF Rollback, Calm
  <2> QED
    BY <1>0, <1>1, <1>2, <2>1, <2>2, PlaceDropped DEF FilesInv
<1> QED
  BY <1>9, <1>10

LEMMA WriteFiles ==
  ASSUME FilesInv, KeysInv', NEW c \in Clients, Write(c)
  PROVE  FilesInv'
<1>0. KeysInv /\ TypeOK /\ Prepared(c) /\ Names /\ call[c] \in Calls /\ buffer[c] \in Buffers /\ nextFile \in Nat \ {0} /\ \A g \in Files : g # 0
  BY RecordsAssumption DEF FilesInv, KeysInv, TypeOK, CallsPrepared, Files
<1>1. call[c].at = "write" /\ (call[c].op = "update" => call[c].file \in Files /\ buffer[c].touched) /\ (call[c].op # "update" => call[c].file = 0)
  <2>1. call[c].at = "write"
    BY DEF Write
  <2> QED
    BY <1>0, <2>1, PreparedFacts DEF Changing
<1>2. PICK n \in Ids : n = call[c].id
  BY <1>0, <1>1, PreparedFacts DEF Changing
<1>3. /\ rows' = rows /\ files' = files /\ nextFile' = nextFile /\ stale' = stale /\ raced' = raced /\ undone' = undone
      /\ call'[c] = NoCall /\ Others(c)
  BY <1>0 DEF Write, Store, TypeOK, Others
<1>4. NoCall.file = 0 /\ NoCall.at = "idle" /\ call[c].at \in Late
  BY <1>1 DEF NoCall, Late
<1>5. CASE ~Selected(c, n, call[c].filter)
  <2>1. buffer' = buffer
    BY <1>2, <1>5 DEF Write
  <2>2. Quiet(c)
    BY <1>3, <2>1 DEF Quiet, Write, Store
  <2>3. Names'
    <3>1. UpdatedIsNew'
      BY <1>0, <2>2, UpdatedQuiet DEF Names
    <3>2. \A d \in Clients : call'[d].file \in {0, call[d].file}
      BY <1>3, <1>4 DEF Others
    <3> QED
      BY <1>0, <1>3, <2>2, <3>1, <3>2, HoldsQuiet, NamesKept
  <2>4. \A i \in Ids : Touches(c, i)' = Touches(c, i)
    BY <2>1 DEF Touches
  <2>5. WritersTouched' /\ LateTouched'
    BY <1>3, <1>4, <2>1, <2>4, TouchedFrame DEF FilesInv, WritersTouched, Fresh, Late
  <2>6. ASSUME Calm' PROVE InPlace'
    <3>1. Calm
      BY <1>3, <2>1, <2>6 DEF Calm
    <3>2. ~buffer[c].touched
      <4> SUFFICES ASSUME buffer[c].touched PROVE FALSE
        OBVIOUS
      <4>1. Sees(c)
        BY <1>0, <3>1, CalmClient
      <4> QED
        BY <1>1, <1>2, <1>5, <4>1 DEF Sees, ChangesSeen, Changing, Selected, IsActive
    <3>3. \A i \in Ids : ~Touches(c, i)'
      BY <2>4, <3>2 DEF FilesInv, WritersTouched
    <3> QED
      BY <1>0, <1>3, <2>1, <3>1, <3>2, <3>3, PlaceDropped DEF FilesInv
  <2> QED
    BY <2>3, <2>5, <2>6 DEF FilesInv
<1>6. CASE Selected(c, n, call[c].filter)
  <2> DEFINE r == View(c)[n]
             w == Written(r, call[c])
  <2>1. r \in Rows /\ r # Absent
    BY <1>0, <1>6, ViewFacts DEF Selected
  <2>2. /\ w \in Rows /\ (IsActive(w) => call[c].op = "update")
        /\ call[c].op = "update" => w # Absent /\ w.file = call[c].file
        /\ call[c].op # "update" /\ w # Absent => w.file = r.file
    BY <1>1, <2>1, WrittenFacts
  <2>3. buffer' = [buffer EXCEPT ![c].rows[n] = w, ![c].touched = TRUE]
    BY <1>2, <1>6 DEF Write
  <2>4. Holds(n, r.file) /\ r.file \in Files
    BY <1>0, <2>1, HoldsFacts, RowFacts
  <2> HIDE DEF w
  <2>5. buffer'[c].rows = [buffer[c].rows EXCEPT ![n] = w] /\ buffer'[c].touched
    BY <1>0, <2>3 DEF TypeOK, Buffers
  <2>6. buffer'[c].rows[n] = w /\ \A i \in Ids \ {n} : buffer'[c].rows[i] = buffer[c].rows[i]
    BY <1>0, <2>5 DEF Buffers
  <2>7. Names'
    <3>1. \/ buffer'[c].rows[n] = Absent
          \/ buffer'[c].rows[n].file = call[c].file /\ call[c].file \in Files
          \/ Holds(n, buffer'[c].rows[n].file) /\ ~IsActive(buffer'[c].rows[n])
      BY <1>1, <2>2, <2>4, <2>6
    <3> QED
      BY <1>0, <1>3, <1>4, <2>6, <3>1, NamesPut
  <2>8. WritersTouched' /\ LateTouched'
    BY <1>3, <2>5, TouchedFrame DEF FilesInv, Fresh
  <2>9. ASSUME Calm' PROVE InPlace'
    <3>1. Calm
      <4>1. \A d \in Clients : buffer[d].touched => buffer'[d].touched
        BY <1>3, <2>5 DEF Others
      <4> QED
        BY <1>3, <2>9, <4>1, CalmBack
    <3>2. Fresh(c)
      BY <1>3, <2>5, <2>9 DEF Calm, Fresh
    <3>3. r.file \notin files
      <4>1. buffer[c].touched
        BY <1>4, <3>2 DEF FilesInv, LateTouched
      <4> QED
        BY <1>2, <1>4, <3>1, <4>1 DEF FilesInv, InPlace, OldIsGone
    <3>4. Touches(c, n)'
      BY <2>2, <2>6, RowFacts DEF Touches
    <3>5. /\ w.file = call[c].file \/ (~IsActive(w) /\ call[c].file = 0)
          /\ call[c].file # 0 => w # Absent /\ w.file = call[c].file
          /\ IsActive(w) => call[c].file # 0
      BY <1>0, <1>1, <2>2
    <3> QED
      BY <1>2, <1>3, <2>5, <2>6, <3>1, <3>3, <3>4, <3>5, PlacePut
  <2> QED
    BY <2>7, <2>8, <2>9 DEF FilesInv
<1> QED
  BY <1>5, <1>6

LEMMA FilesInit == Init => FilesInv
<1> SUFFICES ASSUME Init PROVE FilesInv
  OBVIOUS
<1>1. KeysInv
  BY KeysInit
<1>2. /\ files = {} /\ nextFile = 1 /\ \A i \in Ids : rows[i] = Absent
      /\ \A c \in Clients : call[c] = NoCall /\ buffer[c] = Empty /\ call[c].file = 0 /\ call[c].at = "idle"
  BY DEF Init, NoCall
<1>3. \A c \in Clients, i \in Ids : ~Touches(c, i)
  BY <1>2 DEF Touches, Empty
<1>4. \A i \in Ids, f \in Files : ~Holds(i, f)
  BY <1>2, <1>3 DEF Holds
<1>5. Names
  BY <1>2, <1>3, <1>4 DEF Names, NamesWereGiven, OneHolder, StoredIsNobodys, StoredOnce, UpdatedIsNew
<1>6. WritersTouched /\ LateTouched
  BY <1>2, <1>3 DEF WritersTouched, LateTouched, Late
<1>7. InPlace
  BY <1>2, <1>3 DEF InPlace, RowsHaveFiles, WrittenHaveFiles, StoredIsThere, ReplacedIsGone, OldIsGone, NoneForgotten, IsActive, Late
<1> QED
  BY <1>1, <1>5, <1>6, <1>7 DEF FilesInv

LEMMA FilesStep ==
  ASSUME FilesInv, [Next]_vars
  PROVE  FilesInv'
<1>1. KeysInv'
  BY KeysStep DEF FilesInv
<1>2. CASE Next
  <2>1. PICK c \in Clients :
           \/ \E k \in Keys, op \in {"update_or_insert", "validate_and_insert"} : LookUp(c, k, op)
           \/ \E i \in Ids, op \in {"update", "delete"} : Begin(c, i, op)
           \/ StoreForInsert(c) \/ InsertRow(c)
           \/ DeleteUploadedFiles(c) \/ StoreForUpdate(c) \/ ArchiveRecord(c) \/ Write(c)
           \/ Commit(c) \/ Rollback(c)
    BY <1>2 DEF Next
  <2> QED
    BY <1>1, <2>1, LooksFiles, StoreFiles, InsertFiles, DeleteFiles, ArchiveFiles, WriteFiles, EndFiles
<1>3. CASE UNCHANGED vars
  <2>1. \A c \in Clients, i \in Ids : View(c)'[i] = View(c)[i] /\ Touches(c, i)' = Touches(c, i)
    BY <1>3, SameView DEF vars
  <2>2. \A i \in Ids, f \in Files : Holds(i, f)' <=> Holds(i, f)
    BY <1>3, <2>1 DEF Holds, vars
  <2>3. Names'
    <3>1. UpdatedIsNew'
      BY <1>3, <2>1 DEF FilesInv, Names, UpdatedIsNew, vars
    <3>2. nextFile \in Nat \ {0}
      BY RecordsAssumption DEF FilesInv, KeysInv, TypeOK
    <3> QED
      BY <1>3, <2>2, <3>1, <3>2, NamesKept DEF FilesInv, vars
  <2>4. WritersTouched' /\ LateTouched'
    BY <1>3, <2>1 DEF FilesInv, WritersTouched, LateTouched, Fresh, vars
  <2>5. Calm' => Calm
    BY <1>3 DEF Calm, vars
  <2>6. ASSUME InPlace PROVE InPlace'
    <3>1. \A c \in Clients, i \in Ids : (Past(c, i)' <=> Past(c, i)) /\ (Worked(c, i)' <=> Worked(c, i))
      BY <1>3, <2>1 DEF Past, Worked, vars
    <3>2. RowsHaveFiles' /\ WrittenHaveFiles' /\ StoredIsThere' /\ ReplacedIsGone'
      BY <1>3, <2>1, <2>6, <3>1 DEF InPlace, RowsHaveFiles, WrittenHaveFiles, StoredIsThere, ReplacedIsGone, vars
    <3>3. OldIsGone'
      <4> SUFFICES ASSUME NEW c \in Clients, buffer[c].touched, call[c].at \in Late
                   PROVE  View(c)'[call[c].id].file \notin files
        BY <1>3 DEF OldIsGone, vars
      <4>1. call[c].id \in Ids
        BY PreparedFacts DEF FilesInv, KeysInv, CallsPrepared, Late, Changing
      <4> QED
        BY <2>1, <2>6, <4>1 DEF InPlace, OldIsGone
    <3>4. NoneForgotten'
      <4>1. files \subseteq Files
        BY DEF FilesInv, KeysInv, TypeOK
      <4> QED
        BY <1>3, <2>2, <2>6, <4>1 DEF InPlace, NoneForgotten, vars
    <3> QED
      BY <3>2, <3>3, <3>4 DEF InPlace
  <2> QED
    BY <1>1, <2>3, <2>4, <2>5, <2>6 DEF FilesInv
<1> QED
  BY <1>2, <1>3

(* While no client has changed files in vain, the file of every active        *)
(* record is in the upload folder but for the records a transaction is        *)
(* changing, and the folder has no file of nobody: the callbacks remove and   *)
(* store files at once, ahead of the rows.                                    *)
THEOREM FilesMatch == Spec => []FilesMatchRecords
<1>1. ASSUME FilesInv PROVE FilesMatchRecords
  <2> SUFFICES ASSUME Undisturbed
               PROVE  /\ \A i \in Ids : IsActive(rows[i]) /\ ~Busy(i) => rows[i].file \in files
                      /\ \A f \in files :
                            \/ \E i \in Ids : rows[i] # Absent /\ rows[i].file = f
                            \/ \E c \in Clients : call[c].file = f \/ \E i \in Ids : View(c)[i] # Absent /\ View(c)[i].file = f
    BY DEF FilesMatchRecords
  <2>1. InPlace /\ TypeOK
    BY <1>1 DEF FilesInv, KeysInv, Undisturbed, Calm
  <2>2. \A i \in Ids : IsActive(rows[i]) /\ ~Busy(i) => rows[i].file \in files
    BY <2>1 DEF InPlace, RowsHaveFiles, Worked, Past, Busy
  <2>3. \A c \in Clients, i \in Ids : Touches(c, i) => View(c)[i] = buffer[c].rows[i]
    BY <2>1, ViewFacts
  <2> QED
    BY <2>1, <2>2, <2>3 DEF InPlace, NoneForgotten, Holds
<1>2. Spec => []FilesInv
  BY FilesInit, FilesStep, PTL DEF Spec
<1> QED
  BY <1>1, <1>2, PTL
===============================================================================
