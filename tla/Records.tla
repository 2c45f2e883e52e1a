-------------------------------- MODULE Records --------------------------------
(* The operations of a table with an upload field and, when versioned, an     *)
(* archive of its versions and a soft delete. Clients run them in             *)
(* transactions at read committed: what a client writes is in its buffer      *)
(* until it commits, a row one of them has written is locked, but files are   *)
(* created and removed at once. Each operation looks, runs its callbacks and  *)
(* writes in separate steps. A version of a record is known by its file.      *)
EXTENDS Integers

CONSTANTS Clients, Keys,
          MaxId,        \* how many records may be inserted
          MaxFile       \* how many files may be stored

ASSUME RecordsAssumption == MaxId \in Nat /\ MaxFile \in Nat

Ids == 1..MaxId
Files == 1..MaxFile
Absent == [key |-> {}]
Untouched == [key |-> {}, by |-> "none"]
Record(k, f, active) == [key |-> {k}, file |-> f, is_active |-> active]

VARIABLES versioned,        \* whether _enable_record_versioning was called
          rows, archive,    \* what is committed
          buffer,           \* what each client has written: [rows, archive]
          call,             \* the call each client is in
          files,            \* the upload folder
          nextId, nextFile,
          \* for the properties only
          looked,           \* keys whose records the transaction has looked at
          stale,            \* another has changed one of them since
          raced, undone     \* one has committed all the same; one that had changed anything was rolled back

vars == <<versioned, rows, archive, buffer, call, files, nextId, nextFile, looked, stale, raced, undone>>

NoCall == [at |-> "idle", id |-> 0, key |-> {}, op |-> "none", file |-> 0, filter |-> FALSE]
Empty == [rows |-> [i \in Ids |-> Untouched], archive |-> {}, touched |-> FALSE]

Touches(c, i) == buffer[c].rows[i] # Untouched
View(c) == [i \in Ids |-> IF Touches(c, i) THEN buffer[c].rows[i] ELSE rows[i]]
IsActive(r) == r # Absent /\ r.is_active

(* What db(id == i) selects: the common filter hides the inactive, unless it  *)
(* is ignored.                                                                *)
Selected(c, i, filter) == View(c)[i] # Absent /\ (filter => IsActive(View(c)[i]))

Locked(c, i) == \E d \in Clients \ {c} : Touches(d, i)

Init ==
    /\ versioned \in BOOLEAN
    /\ rows = [i \in Ids |-> Absent] /\ archive = {}
    /\ buffer = [c \in Clients |-> Empty]
    /\ call = [c \in Clients |-> NoCall]
    /\ files = {} /\ nextId = 1 /\ nextFile = 1
    /\ looked = [c \in Clients |-> {}] /\ stale = [c \in Clients |-> FALSE]
    /\ raced = FALSE /\ undone = FALSE

Store == UNCHANGED <<versioned, rows, archive, stale, raced, undone>>

-------------------------------------------------------------------------------
(* Table.__call__ and IS_NOT_IN_DB: a record with the key, in no order.       *)
\* Mutant: what the transaction itself has inserted is not looked at.
MatchingCommitted(c, k) == {i \in Ids : IsActive(rows[i]) /\ rows[i].key = {k}}
Matching(c, k) == {i \in Ids : IsActive(View(c)[i]) /\ View(c)[i].key = {k}}

(* update_or_insert and validate_and_insert look the key up.                  *)
LookUp(c, k, op) ==
    /\ call[c] = NoCall
    /\ looked' = [looked EXCEPT ![c] = @ \cup {k}]
    /\ \/ /\ Matching(c, k) = {}
          /\ call' = [call EXCEPT ![c] = [NoCall EXCEPT !.at = "insert", !.key = {k}, !.op = op]]
       \/ /\ Matching(c, k) # {} /\ op = "validate_and_insert"
          /\ call' = call
       \/ /\ op = "update_or_insert"
          /\ \E i \in Matching(c, k) : call' = [call EXCEPT ![c] = [NoCall EXCEPT !.at = "before", !.id = i, !.op = "update"]]
    /\ UNCHANGED <<buffer, files, nextId, nextFile>> /\ Store

(* Set.update and Set.delete of one id, of a record the client has seen, by   *)
(* the common filter.                                                         *)
Begin(c, i, op) ==
    /\ call[c] = NoCall /\ Selected(c, i, TRUE)
    /\ call' = [call EXCEPT ![c] = [NoCall EXCEPT !.at = "before", !.id = i, !.op = op, !.filter = TRUE]]
    /\ looked' = [looked EXCEPT ![c] = @ \cup View(c)[i].key]
    /\ UNCHANGED <<buffer, files, nextId, nextFile>> /\ Store

(* Field.store gives every file a name of its own.                            *)
\* Mutant: numbered from zero.
NewNameZero == nextFile - 1
\* Mutant: the name has no unique part.
NewNameAgain == IF nextFile > 1 THEN nextFile - 1 ELSE 1
NewName == nextFile

(* insert: attempt_upload stores the file, then the row is inserted.          *)
StoreForInsert(c) ==
    /\ call[c].at = "insert" /\ nextFile <= MaxFile
    /\ files' = files \cup {NewName} /\ nextFile' = nextFile + 1
    /\ call' = [call EXCEPT ![c].at = "insert row", ![c].file = NewName]
    /\ buffer' = [buffer EXCEPT ![c].touched = TRUE]
    /\ UNCHANGED <<nextId, looked>> /\ Store
InsertRow(c) ==
    /\ call[c].at = "insert row" /\ nextId <= MaxId
    /\ \E k \in call[c].key :
          buffer' = [buffer EXCEPT ![c].rows[nextId] = Record(k, call[c].file, TRUE)]
    /\ nextId' = nextId + 1
    /\ call' = [call EXCEPT ![c] = NoCall]
    /\ UNCHANGED <<files, nextFile, looked>> /\ Store

(* delete_uploaded_files, the first callback of an update or a delete: the    *)
(* files of the records selected are removed.                                 *)
OldFiles(c) ==
    LET i == call[c].id IN IF Selected(c, i, call[c].filter) THEN {View(c)[i].file} ELSE {}
DeleteUploadedFiles(c) ==
    LET i == call[c].id
    IN /\ call[c].at = "before"
       /\ files' = files \ OldFiles(c)
       /\ buffer' = [buffer EXCEPT ![c].touched = @ \/ OldFiles(c) # {}]
       /\ call' = [call EXCEPT ![c].at =
             CASE call[c].op = "update" -> "upload"
               [] call[c].op = "delete" /\ versioned -> "archive"
               [] OTHER -> "write"]
       /\ UNCHANGED <<nextId, nextFile, looked>> /\ Store

(* attempt_upload, the second callback of an update.                          *)
StoreForUpdate(c) ==
    /\ call[c].at = "upload" /\ nextFile <= MaxFile
    /\ files' = files \cup {NewName} /\ nextFile' = nextFile + 1
    /\ call' = [call EXCEPT ![c].file = NewName, ![c].at = IF versioned THEN "archive" ELSE "write"]
    /\ buffer' = [buffer EXCEPT ![c].touched = TRUE]
    /\ UNCHANGED <<nextId, looked>> /\ Store

(* archive_record, the last: a select of its own. A soft delete comes here    *)
(* through the update of is_active.                                           *)
\* Mutant: the version is archived that is about to be written.
VersionNew(c, i) == call[c].file
Version(c, i) == View(c)[i].file
ArchiveRecord(c) ==
    LET i == call[c].id
        old == IF Selected(c, i, call[c].filter) THEN {<<i, Version(c, i)>>} ELSE {}
    IN /\ call[c].at = "archive"
       /\ buffer' = [buffer EXCEPT ![c].archive = @ \cup old]
       /\ call' = [call EXCEPT ![c].at = "write"]
       /\ UNCHANGED <<files, nextId, nextFile, looked>> /\ Store

(* The UPDATE or DELETE, on what is selected now. After a soft delete that    *)
(* found nothing the DELETE follows, and finds nothing either.                *)
Written(r, cl) ==
    CASE cl.op = "update" -> [r EXCEPT !.file = cl.file]
      [] cl.op = "delete" /\ versioned -> [r EXCEPT !.is_active = FALSE]
      [] OTHER -> Absent
Write(c) ==
    LET i == call[c].id
    IN /\ call[c].at = "write" /\ ~Locked(c, i)
       /\ buffer' = IF Selected(c, i, call[c].filter)
                    THEN [buffer EXCEPT ![c].rows[i] = Written(View(c)[i], call[c]), ![c].touched = TRUE]
                    ELSE buffer
       /\ call' = [call EXCEPT ![c] = NoCall]
       /\ UNCHANGED <<files, nextId, nextFile, looked>> /\ Store

-------------------------------------------------------------------------------
Wrote(c) == \E i \in Ids : Touches(c, i)
KeysWritten(c) == UNION {rows[i].key \cup buffer[c].rows[i].key : i \in {j \in Ids : Touches(c, j)}}

EndTransaction(c) ==
    /\ buffer' = [buffer EXCEPT ![c] = Empty]
    /\ looked' = [looked EXCEPT ![c] = {}]

Commit(c) ==
    /\ call[c] = NoCall /\ (Wrote(c) \/ looked[c] # {})
    /\ rows' = View(c) /\ archive' = archive \cup buffer[c].archive
    /\ raced' = (raced \/ (stale[c] /\ (Wrote(c) \/ buffer[c].touched)))
    /\ stale' = [d \in Clients |-> d # c /\ (stale[d] \/ looked[d] \cap KeysWritten(c) # {})]
    /\ EndTransaction(c)
    /\ UNCHANGED <<versioned, call, files, nextId, nextFile, undone>>

(* An exception in the middle of a call is followed by a rollback as well;    *)
(* so is a deadlock of two clients over the rows they have written.           *)
Rollback(c) ==
    /\ call[c] # NoCall \/ Wrote(c)
    /\ call' = [call EXCEPT ![c] = NoCall]
    /\ undone' = (undone \/ buffer[c].touched)
    /\ stale' = [stale EXCEPT ![c] = FALSE]
    /\ EndTransaction(c)
    /\ UNCHANGED <<versioned, rows, archive, files, nextId, nextFile, raced>>

Next ==
    \E c \in Clients :
       \/ \E k \in Keys, op \in {"update_or_insert", "validate_and_insert"} : LookUp(c, k, op)
       \/ \E i \in Ids, op \in {"update", "delete"} : Begin(c, i, op)
       \/ StoreForInsert(c) \/ InsertRow(c)
       \/ DeleteUploadedFiles(c) \/ StoreForUpdate(c) \/ ArchiveRecord(c) \/ Write(c)
       \/ Commit(c) \/ Rollback(c)

Spec == Init /\ [][Next]_vars

-------------------------------------------------------------------------------
Rows == {Absent} \cup {Record(k, f, a) : k \in Keys, f \in Files, a \in BOOLEAN}
Buffers == [rows : [Ids -> Rows \cup {Untouched}], archive : SUBSET (Ids \X Files), touched : BOOLEAN]
Places == {"idle", "insert", "insert row", "before", "upload", "archive", "write"}
Calls == [at : Places, id : Ids \cup {0}, key : SUBSET Keys, op : {"none", "update_or_insert", "validate_and_insert", "update", "delete"},
          file : Files \cup {0}, filter : BOOLEAN]
TypeOK ==
    /\ versioned \in BOOLEAN /\ rows \in [Ids -> Rows] /\ archive \subseteq Ids \X Files
    /\ buffer \in [Clients -> Buffers] /\ call \in [Clients -> Calls]
    /\ files \subseteq Files /\ nextId \in 1..(MaxId + 1) /\ nextFile \in 1..(MaxFile + 1)
    /\ looked \in [Clients -> SUBSET Keys] /\ stale \in [Clients -> BOOLEAN]
    /\ raced \in BOOLEAN /\ undone \in BOOLEAN

(* update_or_insert and validate_and_insert leave one active record with a    *)
(* key, as long as no transaction writes on a look that another has outdated. *)
OneRecordPerKey ==
    ~raced => \A i, j \in Ids : IsActive(rows[i]) /\ IsActive(rows[j]) /\ rows[i].key = rows[j].key => i = j

(* The version of a record that a commit replaces is in the archive after it, *)
(* as long as no transaction has committed on an outdated look. One that does *)
(* loses a version: it wrote after archive_record had read another's.         *)
HistoryKept ==
    [][\A i \in Ids :
          versioned /\ ~raced' /\ rows[i] # Absent /\ rows'[i] # rows[i] => <<i, rows[i].file>> \in archive']_vars

(* No file was removed or stored in vain: no transaction that had changed     *)
(* files or rows was rolled back, and none works or has worked on an outdated *)
(* look.                                                                      *)
Undisturbed == ~undone /\ ~raced /\ \A c \in Clients : ~stale[c]
Busy(i) == \E c \in Clients : call[c].id = i \/ Touches(c, i)

(* Undisturbed, the file of an active record exists, unless a transaction is  *)
(* about to change the record; and a stored file belongs to a record or to    *)
(* one about to be committed.                                                 *)
FilesMatchRecords ==
    Undisturbed =>
       /\ \A i \in Ids : IsActive(rows[i]) /\ ~Busy(i) => rows[i].file \in files
       /\ \A f \in files :
             \/ \E i \in Ids : rows[i] # Absent /\ rows[i].file = f
             \/ \E c \in Clients : call[c].file = f \/ \E i \in Ids : View(c)[i] # Absent /\ View(c)[i].file = f
===============================================================================
