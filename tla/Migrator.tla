------------------------------ MODULE Migrator ------------------------------
(***************************************************************************)
(* define_table(migrate=True) of one table: the schema in the database,    *)
(* the snapshot of it in a locked file, and processes that compare the     *)
(* snapshot with their definition and execute the difference statement by  *)
(* statement (pydal/migrator.py).  Processes crash and restart, with the   *)
(* same or another definition; statements fail.  The log file, geometry    *)
(* columns, fake_migrate and drop_table are left out.                      *)
(***************************************************************************)
EXTENDS Naturals, Sequences, Functions

CONSTANTS
  Procs,        \* processes; inside one, GLOBAL_LOCKER lets one thread migrate
  Fields,       \* field names
  FieldOrder,   \* the fields in the order definitions declare them
  Names,        \* column names
  TmpOf,        \* TmpOf[f]: name of the column f__tmp
  Sqls,         \* column types
  Frozen,       \* types a column is never altered to (reference, double, id)
  Definitions,  \* tables the program declares: a field's rname and sql
  Engines,      \* among "postgres", "mysql", "sqlite"
  Overlap,      \* engines with which several processes may start at a time
  Faults,       \* among "crash", "error"
  MaxStarts,    \* bound on the starts of processes
  NoOne, NoData

FieldDefs   == [rname : Names, sql : Sqls]
PartialOn(S, T) == UNION {[D -> T] : D \in SUBSET S}
NoFields    == [f \in {} |-> NoData]

ASSUME MigratorAssumption ==
  /\ FieldOrder \in Seq(Fields) /\ IsInjective(FieldOrder) /\ Range(FieldOrder) = Fields
  /\ TmpOf \in [Fields -> Names]
  /\ \A f, g \in Fields : f # g => TmpOf[f] # TmpOf[g]
  /\ Definitions \subseteq PartialOn(Fields, FieldDefs)
  /\ \A d \in Definitions : \A f, g \in DOMAIN d :
       /\ d[f].rname # TmpOf[g]
       /\ f # g => d[f].rname # d[g].rname
  /\ Engines \subseteq {"postgres", "mysql", "sqlite"} /\ Overlap \subseteq Engines
  /\ MaxStarts \in Nat /\ NoOne \notin Procs /\ NoData \notin Fields

\* No definition gives a field the column name another one gives another field,
\* or that of a temporary column.
NamesApart ==
  /\ \A d, e \in Definitions : \A f \in DOMAIN d, g \in DOMAIN e :
       f # g => d[f].rname # e[g].rname
  /\ \A d \in Definitions : \A f \in DOMAIN d, g \in Fields : d[f].rname # TmpOf[g]

VARIABLES
  engine,    \* the database
  columns,   \* committed columns: type, and the field whose values it holds
  pending,   \* the same, as the open transaction sees them
  txn,       \* process with an open transaction on the table
  file,      \* the snapshot: "missing", "empty" or "full", and its content
  fileLock,  \* process that holds the exclusive lock of the file
  pc, want,  \* of a process: where it is, its definition (sql_fields)
  cur,       \* sql_fields_current; of a key not reached yet also the old one
  keys,      \* keys the loop has not reached
  query,     \* statements of the current key not executed yet
  changed,   \* metadata_change
  queried,   \* the last key had a query
  final,     \* the next save is the last
  starts,    \* number of starts
  asked,     \* definition of the last start
  kept,      \* fields with values that no start since has left out
  disturbed  \* there was a crash, an error, an overlap or, on sqlite, a refusal

dbVars    == <<columns, pending, txn>>
fileVars  == <<file, fileLock>>
loopVars  == <<cur, keys, query, changed, queried, final>>
ghostVars == <<starts, asked, kept, disturbed>>
vars == <<engine, dbVars, fileVars, pc, want, loopVars, ghostVars>>

Resting == {"out", "done", "failed"}
PCs     == Resting \union {"look", "create", "load", "work", "commit", "open", "lock", "write"}
Busy(p) == pc[p] \notin Resting

CommitOnAlter == engine = "mysql"
KeepsColumns  == engine = "sqlite"

Full(d)  == [state |-> "full", fields |-> d]
Missing  == [state |-> "missing", fields |-> NoFields]
Empty    == [state |-> "empty", fields |-> NoFields]
Goto(p, l) == pc' = [pc EXCEPT ![p] = l]

\* The columns of a table declared as d; field f of S has values.
TableOf(d, S) ==
  [n \in {d[f].rname : f \in DOMAIN d} |->
     LET f == CHOOSE g \in DOMAIN d : d[g].rname = n
     IN  [sql |-> d[f].sql, data |-> IF f \in S THEN f ELSE NoData]]

Init ==
  /\ engine \in Engines
  /\ \/ /\ columns = NoFields /\ file = Missing
        /\ asked = NoFields /\ kept = {}
     \/ \E d \in Definitions :
          /\ columns = TableOf(d, DOMAIN d) /\ file = Full(d)
          /\ asked = d /\ kept = DOMAIN d
  /\ pending = columns /\ txn = NoOne /\ fileLock = NoOne
  /\ pc = [p \in Procs |-> "out"] /\ want = [p \in Procs |-> NoFields]
  /\ cur = [p \in Procs |-> NoFields]
  /\ keys = [p \in Procs |-> {}] /\ query = [p \in Procs |-> << >>]
  /\ changed = [p \in Procs |-> FALSE] /\ queried = [p \in Procs |-> FALSE]
  /\ final = [p \in Procs |-> FALSE]
  /\ starts = 0 /\ disturbed = FALSE

----------------------------------------------------------------------------
(* Statements                                                              *)

Add(n, sql) == [do |-> "add", name |-> n, sql |-> sql]
Copy(n, m)  == [do |-> "copy", name |-> n, from |-> m]
Drop(n)     == [do |-> "drop", name |-> n]

Possible(st, cols) ==
  CASE st.do = "add"  -> st.name \notin DOMAIN cols
    [] st.do = "copy" -> {st.name, st.from} \subseteq DOMAIN cols
    [] st.do = "drop" -> st.name \in DOMAIN cols

Effect(st, cols) ==
  CASE st.do = "add" ->
         [n \in DOMAIN cols \union {st.name} |->
            IF n = st.name THEN [sql |-> st.sql, data |-> NoData] ELSE cols[n]]
    [] st.do = "copy" -> [cols EXCEPT ![st.name].data = cols[st.from].data]
    [] st.do = "drop" -> Restrict(cols, DOMAIN cols \ {st.name})

\* Schema statements commit at once on mysql, and on sqlite outside of the
\* transaction an UPDATE opens.
CommitsAtOnce(p, isCopy) ==
  ~ isCopy /\ (engine = "mysql" \/ (engine = "sqlite" /\ txn # p))

----------------------------------------------------------------------------
(* migrate_table: the query of one key, and what it does to the metadata   *)

\* Mutant: the old column goes before its values are copied.
QueryDropFirst(f, old, new) ==
  IF f \notin DOMAIN old THEN <<Add(new[f].rname, new[f].sql)>>
  ELSE IF KeepsColumns THEN << >>
  ELSE IF f \notin DOMAIN new THEN <<Drop(old[f].rname)>>
  ELSE IF new[f].rname # old[f].rname THEN
    <<Add(new[f].rname, new[f].sql), Drop(old[f].rname)>>
  ELSE << >>

\* Mutant: a change of type is only recorded.
QueryNoTypes(f, old, new) ==
  IF f \notin DOMAIN old THEN <<Add(new[f].rname, new[f].sql)>>
  ELSE IF KeepsColumns THEN << >>
  ELSE IF f \notin DOMAIN new THEN <<Drop(old[f].rname)>>
  ELSE IF new[f].rname # old[f].rname THEN
    <<Add(new[f].rname, new[f].sql), Copy(new[f].rname, old[f].rname),
      Drop(old[f].rname)>>
  ELSE << >>

Query(f, old, new) ==
  LET to == new[f].rname  from == old[f].rname  sql == new[f].sql
  IN CASE f \notin DOMAIN old -> <<Add(to, sql)>>
       [] f \in DOMAIN old \ DOMAIN new ->
            IF KeepsColumns THEN << >> ELSE <<Drop(from)>>
       [] f \in DOMAIN old \intersect DOMAIN new /\ to # from ->
            IF KeepsColumns THEN <<Add(to, sql), Copy(to, from)>>
            ELSE <<Add(to, sql), Copy(to, from), Drop(from)>>
       [] f \in DOMAIN old \intersect DOMAIN new /\ to = from ->
            IF KeepsColumns \/ sql = old[f].sql \/ sql \in Frozen THEN << >>
            ELSE <<Add(TmpOf[f], sql), Copy(TmpOf[f], from), Drop(from),
                   Add(to, sql), Copy(to, TmpOf[f]), Drop(TmpOf[f])>>

ChangesMetadata(f, old, new) ==
  \/ f \notin DOMAIN old \/ KeepsColumns \/ f \notin DOMAIN new
  \/ old[f] # new[f]

\* On sqlite the snapshot keeps the fields the definition has dropped.
Updated(f, fields, new) ==
  IF f \in DOMAIN new
  THEN [g \in DOMAIN fields \union {f} |-> IF g = f THEN new[f] ELSE fields[g]]
  ELSE IF KeepsColumns THEN fields
  ELSE Restrict(fields, DOMAIN fields \ {f})

KeysOf(new, old) == DOMAIN new \union DOMAIN old

\* The keys of the new definition in its order, then those only the old one has.
Place(f) == CHOOSE i \in DOMAIN FieldOrder : FieldOrder[i] = f
Before(f, g, new) ==
  \/ f \in DOMAIN new /\ g \notin DOMAIN new
  \/ (f \in DOMAIN new <=> g \in DOMAIN new) /\ Place(f) < Place(g)

----------------------------------------------------------------------------
(* create_table                                                            *)

Start(p, d) ==
  /\ ~ Busy(p) /\ starts < MaxStarts
  /\ engine \in Overlap \/ \A q \in Procs : ~ Busy(q)
  /\ Goto(p, "look") /\ want' = [want EXCEPT ![p] = d]
  /\ starts' = starts + 1 /\ asked' = d /\ kept' = kept \intersect DOMAIN d
  /\ disturbed' = (disturbed \/ \E q \in Procs : Busy(q))
  /\ UNCHANGED <<engine, dbVars, fileVars, loopVars>>

\* self.file_exists(table._dbt)
Look(p) ==
  /\ pc[p] = "look"
  /\ Goto(p, IF file.state = "missing" THEN "create" ELSE "load")
  /\ UNCHANGED <<engine, dbVars, fileVars, want, loopVars, ghostVars>>

CreateTable(p) ==
  /\ pc[p] = "create" /\ txn \in {NoOne, p} /\ DOMAIN pending = {}
  /\ pending' = TableOf(want[p], {})
  /\ IF CommitsAtOnce(p, FALSE) THEN columns' = pending' /\ txn' = NoOne
                                ELSE txn' = p /\ UNCHANGED columns
  /\ cur' = [cur EXCEPT ![p] = want[p]] /\ final' = [final EXCEPT ![p] = TRUE]
  /\ Goto(p, "commit")
  /\ UNCHANGED <<engine, fileVars, want, keys, query, changed, queried, ghostVars>>

\* The end of define_table, by its return or by an exception.
Leave(p, l) ==
  /\ Goto(p, l)
  /\ cur' = [cur EXCEPT ![p] = NoFields]
  /\ keys' = [keys EXCEPT ![p] = {}] /\ query' = [query EXCEPT ![p] = << >>]
  /\ changed' = [changed EXCEPT ![p] = FALSE]
  /\ queried' = [queried EXCEPT ![p] = FALSE]
  /\ final' = [final EXCEPT ![p] = FALSE]

\* A reader takes the shared lock.  An empty file raises RuntimeError.
Load(p) ==
  /\ pc[p] = "load" /\ fileLock = NoOne
  /\ CASE file.state = "empty" -> Leave(p, "failed")
       [] file = Full(want[p]) -> Leave(p, "done")
       [] file.state = "full" /\ file.fields # want[p] ->
            /\ Goto(p, "work")
            /\ cur' = [cur EXCEPT ![p] = file.fields]
            /\ keys' = [keys EXCEPT ![p] = KeysOf(want[p], file.fields)]
            /\ UNCHANGED <<query, changed, queried, final>>
  /\ UNCHANGED <<engine, dbVars, fileVars, want, ghostVars>>

----------------------------------------------------------------------------
(* migrate_table                                                           *)

\* One turn of the loop over the keys, up to its statements.
TakeKey(p) ==
  /\ pc[p] = "work" /\ query[p] = << >>
  /\ \E f \in keys[p] :
       /\ \A g \in keys[p] \ {f} : Before(f, g, want[p])
       /\ keys' = [keys EXCEPT ![p] = @ \ {f}]
       /\ cur' = [cur EXCEPT ![p] = Updated(f, cur[p], want[p])]
       /\ LET q == Query(f, cur[p], want[p])
              c == changed[p] \/ ChangesMetadata(f, cur[p], want[p])
          IN /\ query' = [query EXCEPT ![p] = q]
             /\ changed' = [changed EXCEPT ![p] = c]
             /\ queried' = [queried EXCEPT ![p] = q # << >>]
             /\ Goto(p, IF q = << >> /\ c THEN "open" ELSE "work")
  /\ UNCHANGED <<engine, dbVars, fileVars, want, final, ghostVars>>

Execute(p) ==
  /\ pc[p] = "work" /\ query[p] # << >> /\ txn \in {NoOne, p}
  /\ LET st == Head(query[p])
     IN /\ Possible(st, pending)
        /\ pending' = Effect(st, pending)
        /\ IF CommitsAtOnce(p, st.do = "copy")
           THEN columns' = pending' /\ txn' = NoOne
           ELSE txn' = p /\ UNCHANGED columns
  /\ query' = [query EXCEPT ![p] = Tail(query[p])]
  /\ Goto(p, IF CommitOnAlter THEN "commit" ELSE "work")
  /\ UNCHANGED <<engine, fileVars, want, cur, keys, changed, queried, final, ghostVars>>

Finish(p) ==
  /\ pc[p] = "work" /\ query[p] = << >> /\ keys[p] = {}
  /\ IF changed[p] /\ ~ (queried[p] /\ CommitOnAlter)
     THEN /\ final' = [final EXCEPT ![p] = TRUE] /\ Goto(p, "commit")
          /\ UNCHANGED <<cur, keys, query, changed, queried>>
     ELSE Leave(p, "done")
  /\ UNCHANGED <<engine, dbVars, fileVars, want, ghostVars>>

\* db.commit(), which commits nothing if another process has the transaction.
Commit(p) ==
  /\ pc[p] = "commit"
  /\ columns' = IF txn = p THEN pending ELSE columns
  /\ txn' = IF txn = p THEN NoOne ELSE txn
  /\ Goto(p, "open")
  /\ UNCHANGED <<engine, pending, fileVars, want, loopVars, ghostVars>>

----------------------------------------------------------------------------
(* save_dbt: LockedFile opens the file to append, which creates it, locks  *)
(* it, and only then truncates it                                          *)

Open(p) ==
  /\ pc[p] = "open"
  /\ file' = IF file.state = "missing" THEN Empty ELSE file
  /\ Goto(p, "lock")
  /\ UNCHANGED <<engine, dbVars, fileLock, want, loopVars, ghostVars>>

\* Mutant: the file is truncated without waiting for the lock.
LockAtOnce(p) ==
  /\ pc[p] = "lock"
  /\ fileLock' = p /\ file' = Empty
  /\ Goto(p, "write")
  /\ UNCHANGED <<engine, dbVars, want, loopVars, ghostVars>>

Lock(p) ==
  /\ pc[p] = "lock" /\ fileLock = NoOne
  /\ fileLock' = p /\ file' = Empty
  /\ Goto(p, "write")
  /\ UNCHANGED <<engine, dbVars, want, loopVars, ghostVars>>

\* Mutant: the lock stays with a process that is done.
WriteKeepsLock(p) ==
  /\ pc[p] = "write"
  /\ file' = Full(cur[p]) /\ UNCHANGED fileLock
  /\ IF final[p] THEN Leave(p, "done")
     ELSE Goto(p, "work") /\ UNCHANGED loopVars
  /\ UNCHANGED <<engine, dbVars, want, ghostVars>>

Write(p) ==
  /\ pc[p] = "write"
  /\ file' = Full(cur[p]) /\ fileLock' = NoOne
  /\ IF final[p] THEN Leave(p, "done")
     ELSE Goto(p, "work") /\ UNCHANGED loopVars
  /\ UNCHANGED <<engine, dbVars, want, ghostVars>>

----------------------------------------------------------------------------
(* Failures                                                                *)

Rollback(p) ==
  /\ pending' = IF txn = p THEN columns ELSE pending
  /\ txn' = IF txn = p THEN NoOne ELSE txn
  /\ UNCHANGED columns

\* The database refuses the next statement; the exception ends the process.
\* On sqlite the statements that committed at once stay.
Refused(p) ==
  /\ txn \in {NoOne, p}
  /\ \/ pc[p] = "create" /\ DOMAIN pending # {}
     \/ pc[p] = "work" /\ query[p] # << >> /\ ~ Possible(Head(query[p]), pending)
  /\ Rollback(p) /\ Leave(p, "failed")
  /\ disturbed' = (disturbed \/ KeepsColumns)
  /\ UNCHANGED <<engine, fileVars, want, starts, asked, kept>>

\* A statement fails for a reason of its own: values, rights, time, space.
StatementFails(p) ==
  /\ "error" \in Faults /\ txn \in {NoOne, p}
  /\ pc[p] = "create" \/ (pc[p] = "work" /\ query[p] # << >>)
  /\ Rollback(p) /\ Leave(p, "failed") /\ disturbed' = TRUE
  /\ UNCHANGED <<engine, fileVars, want, starts, asked, kept>>

Crash(p) ==
  /\ "crash" \in Faults /\ Busy(p)
  /\ Rollback(p) /\ Leave(p, "out") /\ disturbed' = TRUE
  /\ fileLock' = IF fileLock = p THEN NoOne ELSE fileLock
  /\ UNCHANGED <<engine, file, want, starts, asked, kept>>

Step(p) ==
  \/ Look(p) \/ CreateTable(p) \/ Load(p)
  \/ TakeKey(p) \/ Execute(p) \/ Finish(p) \/ Commit(p)
  \/ Open(p) \/ Lock(p) \/ Write(p) \/ Refused(p)

Next == \E p \in Procs :
          \/ \E d \in Definitions : Start(p, d)
          \/ Step(p) \/ StatementFails(p) \/ Crash(p)

\* A process goes on until its define_table ends.
Spec == Init /\ [][Next]_vars /\ \A p \in Procs : WF_vars(Step(p))

----------------------------------------------------------------------------
(* Properties                                                              *)

ColumnDefs == [sql : Sqls, data : Fields \union {NoData}]
Statements == [do : {"add"}, name : Names, sql : Sqls] \union
              [do : {"copy"}, name : Names, from : Names] \union
              [do : {"drop"}, name : Names]

\* Domain and range membership, so that TLC need not enumerate functions.
IsFields(d)  == DOMAIN d \subseteq Fields /\ \A f \in DOMAIN d : d[f] \in FieldDefs
IsColumns(t) == DOMAIN t \subseteq Names /\ \A n \in DOMAIN t : t[n] \in ColumnDefs
\* The schema, the transaction and the file are well formed; one process has
\* the transaction and one the lock, and only while it migrates.
TypeOK ==
  /\ engine \in Engines /\ IsColumns(columns) /\ IsColumns(pending)
  /\ txn = NoOne => pending = columns
  /\ txn # NoOne => txn \in Procs /\ pc[txn] \in {"work", "commit", "open", "lock", "write"}
  /\ file.state \in {"missing", "empty", "full"} /\ IsFields(file.fields)
  /\ fileLock # NoOne => fileLock \in Procs /\ pc[fileLock] = "write" /\ file = Empty
  /\ \A p \in Procs :
       /\ pc[p] \in PCs /\ IsFields(want[p]) /\ IsFields(cur[p])
       /\ pc[p] = "write" => fileLock = p
       /\ {changed[p], queried[p], final[p]} \subseteq BOOLEAN
       /\ keys[p] \subseteq Fields
       /\ \A i \in DOMAIN query[p] : query[p][i] \in Statements
  /\ starts \in 0..MaxStarts /\ IsFields(asked)
  /\ kept \subseteq Fields /\ disturbed \in BOOLEAN

\* Whatever is interrupted and started again, the values of a field that no
\* definition since has left out are in some column of the committed table.
DataKept == \A f \in kept : \E n \in DOMAIN columns : columns[n].data = f

\* The table is what the definition d says, with the values in place, but
\* for what the code leaves: old columns and types on sqlite, frozen types.
TableMatches(d) ==
  /\ \A f \in DOMAIN d :
       /\ d[f].rname \in DOMAIN columns
       /\ f \in kept => columns[d[f].rname].data = f
  /\ ~ KeepsColumns =>
       /\ DOMAIN columns = {d[f].rname : f \in DOMAIN d}
       /\ \A f \in DOMAIN d : d[f].sql \notin Frozen =>
            columns[d[f].rname].sql = d[f].sql

Settled == \A p \in Procs : ~ Busy(p)

\* Migrations that nothing disturbs, one after the other, are refused no
\* statement and leave the table and its snapshot as the last one asked.  On
\* sqlite a column is in the way when its name is taken up again: that refusal
\* is a disturbance, as the snapshot may already tell of a copy rolled back.
UndisturbedConverges ==
  ~ disturbed =>
    /\ \A p \in Procs : pc[p] # "failed"
    /\ Settled /\ starts > 0 =>
         /\ file.state = "full" /\ TableMatches(asked)
         /\ \A f \in DOMAIN asked : f \in DOMAIN file.fields /\ file.fields[f] = asked[f]
         /\ ~ KeepsColumns => DOMAIN file.fields = DOMAIN asked

\* define_table always comes to an end: nobody waits for ever for a lock.
EveryMigrationEnds == \A p \in Procs : Busy(p) ~> ~ Busy(p)

=============================================================================
