# A TLA+ development for pydal

pyDAL is a database abstraction layer: tables are declared in Python, queries
are built from expressions, and an adapter per database engine turns them into
SQL. Its code has two halves. One keeps state across calls, threads, processes
and restarts (the pool, the scheduler, migrations, distributed transactions,
records with their files): there the steps of several actors are modelled and
interleaved. The other computes: values to columns and back, expressions to
SQL, sets to statements, texts and requests to queries, forms to values. There
one call is one step, and what is checked is that ways which should agree do,
over bounded inputs. Paths are relative to `src/pydal/` unless they start with
`src/`.

## 1. Inventory

| Component | State it keeps | Operations | Hard behaviour | What makes it correct |
| --- | --- | --- | --- | --- |
| Connection pool (`connection.py`, `_globals.py`) | a slot per thread, adapter and pid for the connection and one for its cursor; the free-list `POOLS[uri]` of the process; `_first_connection`; the re-entrant `GLOBAL_LOCKER` | `get_connection`, `set_connection`, `close`, `reset_cursor`, connection hooks | threads preempted anywhere; a connection found dead; exceptions inside the locked section; adapters sharing a URI | a connection has one user; the free-list is bounded and clean; the lock is always given back; calls return |
| Scheduler (`tools/scheduler.py`) | the table `task_run` shared by processes; a loop thread per process; forked daemon children | `start`, `stop`, `loop`, `step`, `next_run`, `exec_child`, `enqueue_run` | loops of several processes interleave with each other and with children; everything crashes; timeouts race with completion | a run is executed at most once, reaches an outcome and keeps it |
| Migrator (`migrator.py`) | the schema in the database, and its snapshot in a file | `create_table`, `migrate_table`, `save_dbt` | two stores without a common transaction; engines that commit at each ALTER; processes starting at once | data of a field survives; undisturbed migrations converge |
| Distributed transactions (`base.py`) | what each database has prepared, and under which key | `distributed_transaction_commit` | one of several databases fails in either phase | all commit or none; the caller is told the truth |
| DAL, instances, files in the database (`base.py`, `helpers/classes.py`) | a list of instances per thread and `db_uid`, blank ones among them; rows of `web2py_filesystem` | constructor with its attempts, `close`, unpickling, `get_instances`; `DatabaseStoredFile` | failed connections, closing in any order, two openings of a file | the open ones are found; what was written is kept |
| Tables, references, lazy tables (`objects.py`, `base.py`) | `_tables`, `_LAZY_TABLES`, `_pending_references`, `_references`, `_referenced_by`, `_aliased_tables` | `define_table`, `__getattr__`, `Table.__init__`, `as_dict`, `with_alias`, `commit` | any order, cycles, redefinition, definitions that raise | both ends of a reference know it; a table has the fields it was given |
| Sets, selects (`objects.py`, `backend_base.py`, `ast_translate.py`) | common filters; caches of the application | `select`, `count`, `update`, `delete`, joins, subselects | two ways to SQL that must not differ | the rows are those of the query, filtered |
| Expressions and compilers (`objects.py`, `ast*.py`, `compilers/`) | `parameterize` of a shared compiler | operators, `expand`, `visit_*` | parameters in the order of the text, wildcards, None | all forms mean the same |
| Values (`backend_base.py`) | none | representers, parsers, `filter_in`, list encoding | affinity of columns, empty texts, bars | what is stored is read |
| Rows and CSV (`objects.py`) | `Rows`, `IterRows`, the map from old to new ids | `find`, `exclude`, `sort`, `as_trees`, `group_by_value`, import and export | references to rows not imported yet | rows are neither lost nor doubled |
| Records (`objects.py`, `helpers/methods.py`, `helpers/classes.py`) | files of upload fields; archive tables; uncommitted writes | `insert`, `update_or_insert`, `validate_and_*`, delete, soft delete, versioning, the shortcuts `table[key]` | check-then-act, file system against transaction | no missing file, one record per key, each version archived |
| Uploads (`objects.py`) | where a file is | `store`, `retrieve` | names coded into names | it comes back with its name |
| REST (`restapi.py`), `parse_as_rest` (`helpers/rest.py`) | none | `search`, `post`, `put`, `delete`; patterns | filters through references, pages | what is answered is what was asked |
| Query texts (`querybuilder.py`, `helpers/methods.py`) | none | `QueryBuilder.parse`, `smart_query` | phrases that begin alike | the grammar is what is read |
| Tags (`tools/tags.py`) | a table of paths | `add`, `remove`, `find` | prefixes | found by what they begin with |
| Validators (`validators.py`, `default_validators.py`) | none (a kept set in `IS_IN_DB`) | `validate`, `formatter` | forms show what they will read | round trips; accepted is what was asked for |
| Backends, vendored code | connections of foreign services | translation | - | see Not modelled |

How they interact. A `DAL` owns an adapter, the adapter is a `ConnectionPool`
and holds a `Migrator`. Every statement (`Set`, `Table`, `executesql`) goes
through `adapter.execute`, which takes the thread's connection from the pool.
`define_table` calls the migrator inside `GLOBAL_LOCKER`, and the migrator's
own statements take it again in `get_connection`. The scheduler uses a `DAL`
from its loop thread and, after `fork`, from each child, which opens its own
connection because slots are keyed by pid. A `Set` gives the adapter a query
built of expressions; the adapter's compiler writes SQL from its AST, or falls
back to the dialect; values pass the representer on their way in, the parsers
on their way out, where they become `Rows`. `restapi`, `helpers/rest`,
`querybuilder` and `Set.build` all end in such queries; inserts and updates
from forms pass the validators of the fields and their upload files first.

## 2. Plan and state

| Module | About | State |
| --- | --- | --- |
| `ConnectionLease`, `ConnectionPool`, `MCConnectionPool`, `ConnectionPoolProofs` | the pool, and the lease it implements | modelled, checked, proved |
| `TaskRun`, `Scheduler`, `MCScheduler`, `SchedulerProofs` | the scheduler, and the life of a run it implements | modelled, checked, proved |
| `Migrator`, `MCMigrator`, `MigratorProofs` | a migration executed by processes that crash, on three kinds of engine | modelled, checked, proved |
| `AtomicCommit`, `DistributedCommit`, `MCDistributedCommit`, `DistributedCommitProofs` | two-phase commit over instances, and the atomic commit it implements | modelled, checked, proved |
| `Records`, `MCRecords`, `RecordsProofs` | records with files and archives in two clients' transactions | modelled, checked, proved |
| `Calls`, `TextValidators`, `AddressValidators`, `FieldValidators`, `Validators`, `MCValidators`, `ValidatorsProofs` | validators and formatters | modelled, checked; what they accept, passwords and times proved |
| `Values`, `Expressions`, `QueryDicts`, `Selects`, `RowSets`, `RowAccess`, `QueryTexts`, `RestRequests`, `RestPatterns`, `Tags`, `StoredFiles`, `TableFields`, `Definitions`, `MCQueries`, `AnswersProofs` | values, queries, rows, requests, tables, tags and uploads | modelled, checked; selects proved |
| `Instances`, `RecordShortcuts`, `DatabaseFiles`, `KeptCalls`, `KeptProofs` | instances of `DAL`, shortcuts of tables, files of the database, and with `Values` the calls that keep something | modelled, checked, proved |

`Expressions` extends `Values`; `QueryDicts` extends `Expressions`;
`RestPatterns` extends `RestRequests`; all modules of one call extend `Calls`,
whose `asked` and `answer` are the call and what it returned. `KeptCalls`
composes four modules that are proved about together, `Validators` the three of
the validators; `MCQueries` and `MCValidators` put all together, so that one run
asks all questions of a kind.

Left for later: the caches of `count` and `select`, the pool as a forked child
inherits it, groups, unions and DISTINCT, and what a policy of `restapi`
decides.

## 3. Connection pool

**Correspondence.** A client `<<a, t>>` is adapter `a` used from thread `t`,
the key of the thread-local slots (`_connection_uname_`; the pid is constant).
`slot`, `cursor` are the slots, `pool` is `POOLS[uri]`, `known` says whether
that key exists, `owner`/`depth` are `GLOBAL_LOCKER`, `first` is
`_first_connection`, `conn[c]` and `work[c]` what the driver and the server
know of connection `c`. `lent` marks the slots whose connection
`get_connection` has returned; `firstRuns` is there for a property
only. Actions follow the code's order:
`GetBound`, `GetStart`, `GetLock`, `Pop`, `VetPasses`/`VetFails`,
`PoolExhausted`, `Connect`/`ConnectFails`, `HookTest`, `FirstHookDone`,
`Initialised`/`InitialiseFails` are `get_connection` with `set_connection` and
the hooks; `CloseCall` (the commit or rollback), `CloseCursor`/`CloseCursorRaises`,
`CloseKeyError`, `CloseFull`, `CloseRoom`, `Recycle`, `Unset` and `Discard` are
`close`; `BeginDefine`/`EndDefine`
are the locked section of `lazy_define_table`. `Die` and `Collect` are the
server and the interpreter. What a thread does to its own connection between
two points where another thread could tell the difference is one step.

**Abstract specification.** `ConnectionLease`: a set of holders; a connection
is lent to one client at a time and given back by it. `LeaseSpec` is that
specification under the mapping *holder of k = slot of k while lent*. The
mapping matters: `close` appends the connection to the free-list before it
empties its slot, so the slots themselves do overlap.

**Runs.**

| Run | Shows |
| --- | --- |
| `pool_safety` | two threads, one adapter with `pool_size` 1, two connections, with and without `use_pool`, all failures: types, exclusivity, bound, lock, no transaction in the pool, the first hook at most once per thread, refinement, what a close leaves in its slot |
| `pool_first_hook` | *violated*: the first hook of an adapter runs once (`FirstHookOnce`); two threads find `_first_connection` unset |
| `pool_liveness` | every call returns |

A connection that failed its test, when no other can be opened, stays in the
slot and the next call returns it untested (line 96): the model has this, and
no property says otherwise.

`FirstHookOnce` is what `connection.py:26` and `:242` say; `_first_connection`
is tested at line 246 and set at 248, after the hook, and nothing is locked. What
remains is `FirstHookPerThread`: a thread that runs the hook finds the flag set
the next time.

`CloseUnbinds` is the comment of line 212, "always unset the thread-local slots",
with the two exits the code has after its commit or rollback: `cursor.close`
raises (line 192, outside of any try), and `POOLS[self.uri]` raises KeyError
(line 197) when only calls with `use_pool=False` were made. In both the client
keeps its connection. The property says that there are no others, and that a
connection so kept is not in the free-list at the same time.

`PooledIsIdle` is checked for closes that commit or roll back. With `"none"`
among `CloseActions` TLC refutes it, and the commit of the next checkout then
finishes the previous borrower's transaction; nothing promises otherwise.

**Bounds.** Two threads suffice for the overlaps of check and act, two
connections for one free and one lent, or one dead and one fresh. Adapters
that share a free-list differ only in `pool_size`; the theorems are for any number of
them. The only unbounded number of the code, the connections ever opened, is
bounded by reusing the identity of a closed one.

**Fairness.** A thread inside a call is scheduled (weak); a lock released
again and again is granted in the end (strong: `RLock` gives no order, but
the interpreter does wake waiters); a `define_table` ends (strong, its thread
competes for nothing else). The application need not do anything.

**Proved** (`ConnectionPoolProofs`), for any adapters, threads and
connections: `TypeCorrect`, `ConnectionsAreExclusive`, `PoolIsBounded`,
`LockIsBalanced`, `PoolImplementsLease`, and `NoTransactionInPool` under the
assumption that no close leaves the transaction open; `ClosesUnbind`, and
`HookAtMostOncePerThread` (`FirstHookPerThread`), which assume nothing.
The inductive invariant
`Inv` adds to the properties: `RoomAtAppend` (between the length test and the
append there is still room, because the lock is held), `Bound` and
`LentIsOwned` (each program point knows whether its slot is set and lent),
`NotYetLent` (a thread on its way through `get_connection` or past the
append has not lent its slot), and `Excl`, the exclusivity of all *owned*
slots, not only the lent ones: a popped connection that is still being vetted
is nobody else's. Exclusivity alone is not inductive, since `Pop` would make
a lent slot of one never claimed. `Excl` gives the second half of `CloseUnbinds`
too: a slot that a close leaves set is still owned, so its connection is not free. The count of
hooks (`HooksCounted`) is the completed runs and the threads about to run it:
that sum never grows once the flag is set. Left to TLC: `CallsReturn` (liveness).

## 4. Scheduler

**Correspondence.** `status`, `worker`, `task`, `due` are columns of
`task_run` (`due` stands for `scheduled_for <= now()`), `child[r]` the process
forked for run `r`, on machine `home[r]`: `forked` until it commits
`running` with its pid, then `working`, `recorded` after it commits its
outcome, `gone`. `expired[r]` stands for `started_on + timeout < now()`.
`pc[s]`, `todo[s]`, `num[s]`, `run[s]` are the loop's place, the rows of its
select still to look at, `num_running` and the row in hand. One action per
statement with its commit: `Reenqueue`, `Scan`, `CheckPid`,
`CountRunning`/`Kill`/`KillRaises`, `Checked` are the first half of `step`;
`Pick`, `Claim`/`ClaimLost` are `next_run`; `SkipUnknown`,
`Fork`/`ForkFails`/`ForkedLoops` its end; `Begin`, `Record`, `Exit` are
`exec_child`. `Faults` names what may happen besides: crashes of children
and of the loops' processes, expiry, failing forks, a failing UPDATE, stop and
start.

**Abstract specification.** `TaskRun`: a run is absent, waiting, claimed,
executing, ended, in this order. `RunOnce` says that `Scheduler` implements
it, where the phase of a run is read from its worker column and its process,
not from its status, which the code does take back (from assigned to queued).

**Runs.**

| Run | Shows |
| --- | --- |
| `sched_safety` | a loop and the copy of it a failed fork leaves behind, all faults, two rows, one task that neither knows: run once, outcomes never undone, dead means gone |
| `sched_liveness` | two loops on two machines, cap 1, no faults: every queued run ends, successors of periodic ones too |
| `sched_never_reassigned` | *violated*, under fairness: a run set back to queued after its fork failed is never run |

The model shows more that no run states as a property. `Pick` counts the rows
that say running, and a forked child says so later, so more children than
`max_concurrent_runs` may be in flight. `KillRaises`: the pid of an expired run
may be gone, `os.kill` raises and the loop ends. `CheckPid` after
`Record` replaces completed by dead, since the loop's snapshot is old
(outcomes stay outcomes, but not the same one). `Kill`, `ChildDies` and
`CheckPid` end a periodic run without a successor. `ForkedLoops` is a forked
process that becomes a second scheduler, because `step` catches the exception
in it. And with one worker id on two machines, `DeadIsGone` fails (`scheduler.py:121`),
while the other safety properties are proved for this case too.

**Bounds.** `MaxRuns` rows are inserted at most (a periodic run beyond the
bound exits without a successor).
Two rows let one be in a loop's hand while another changes, and make a
periodic run with its successor. `MaxConcurrent` is 1, so the cap is reached by one child.

**Fairness.** Processes and children are scheduled, tasks return, and time
passes (weak fairness of `Loop`, `Child`, `Due`); nothing is assumed of
crashes, expiry or the application.

**Proved** (`SchedulerProofs`), for any number of loops, rows and tasks and
with all faults: `SchedulerTypes`, `RunsRunOnce` (the refinement) and
`FinishedRunsStayFinished`, whether or not machines share a worker id; and, when a
worker id stands for one machine (`OneHostPerId`), `DeadRunsAreGone`.
The invariant has three parts besides the types. `RowsAgree` ties the status
of a row to the stage of its process: without it a late `running` could not
be excluded. It allows for the row of a live process that says dead, as another
machine's loop may have written; `InPlace` excludes that with one machine per id. `LoopsAgree` says what remains true of the rows a loop
remembers: they are of its worker and their process has begun, so whatever
has happened since, they can not be waiting again. `LaunchesDiffer` says that
two loops about to fork hold different runs; it needs the condition that the
claiming UPDATE repeats. Left to TLC: `EveryRunEnds`, which is liveness.

**Not modelled**: the log file of a run, and the arithmetic of the next slot
of a period (a successor is simply not due yet).

## 5. Migrator

**Correspondence.** One table. `columns` is its committed schema (for each
column its type and the field whose values it holds), `pending` the schema as
the open transaction of `txn` sees it, `file`/`fileLock` the snapshot
`table._dbt` and the exclusive lock on it. A process is inside
`lazy_define_table`, under its `GLOBAL_LOCKER`, so it has one migration at a
time: `want[p]` is `sql_fields`, `cur[p]` is `sql_fields_current` (which for
a key not reached yet is also the old entry, so the model needs no copy of
`sql_fields_old`), `keys[p]` and `query[p]` what the two loops of
`migrate_table` have left, `changed[p]` is `metadata_change`. `keys[p]` is a
set; the list the code makes of it is the order `Before` in which `TakeKey`
reaches the keys: those of the new definition, then those only the old one has. `Look`,
`CreateTable`, `Load` are `create_table`; `TakeKey`, `Execute`, `Finish`,
`Commit` are `migrate_table`; `Open`, `Lock`, `Write` are `save_dbt` with
`LockedFile`, which opens, locks and only then truncates. `Query` is the table
of cases of lines 494-589. A field is its `rname` and its `sql`; the other
entries of the snapshot only cause a save, which a change to a frozen type
does as well.

Three kinds of engine: `postgres` stands for those where ALTER is
transactional, `mysql` for those with `commit_on_alter_table` (each schema
statement commits), `sqlite` for the branch that never drops a column, where
Python's driver opens a transaction at the first UPDATE. A statement waits
while another process has the transaction. Which statements the database
refuses (`Refused`) is decided by the schema; `StatementFails` and `Crash` may
come anywhere. A process that fails or crashes loses its transaction and its
lock, as its connection and its file are closed.

`asked`, `kept`, `disturbed` are there for the properties: the last
definition started, the fields with values that no definition started since
leaves out, and whether anything went wrong. `Overlap` says on which engines
the deployment starts processes at the same time.

**Runs.**

| Run | Shows |
| --- | --- |
| `mig_safety` | two processes, three starts, three versions of a table, crashes and failing statements; overlapping on postgres: no values lost (`DataKept`), undisturbed migrations converge (`UndisturbedConverges`), every migration ends |

`DataKept` is what makes an interrupted migration repairable: it says nothing
of which column has the values. After a crash on mysql they may be in the old
column or in `f__tmp`, with a snapshot that claims the migration is done, or
with one that makes every later start add `f__tmp` again and be refused. On
`sqlite` it holds because nothing is dropped. `UndisturbedConverges` leaves
out what the code leaves out: a change to `double`, `reference` or `id` is
recorded in the snapshot and not made, and sqlite keeps old columns, types
and snapshot entries, so a name taken up again is refused. That refusal is
counted among the disturbances on sqlite: the copy of another field may be
rolled back by it, while the snapshot, which a commit in between had saved,
says that the field was renamed, and later starts leave it so.

Two settings keep to what the code can promise. After a fault a process may
be up without its columns (on postgres, `a` new, `b` unchanged, `c` new: the ADD
of `c` fails, `a` is rolled back but already in the snapshot, and no later start
adds it), so convergence is stated for undisturbed migrations. And processes
overlap only on `postgres`, where the transaction that the first ALTER opens
keeps others out until the commit: on mysql, with no fault at all, one may drop
the column that another has copied to from an older snapshot. A third limit came
to light in the proof: definitions keep the columns of their fields apart over
time (`NamesApart`). If a later definition gives field `b` the column that was
`a`'s, and a process was killed between the commit and the save, then on
postgres and mysql the snapshot names a column that by now has the values of the
other field, and the next start drops it. `MCMigrator` assumes `NamesApart` of
its versions, as the theorems do of all definitions.
An empty snapshot needs no crash either: `Open` creates the file before `Lock`,
and a second process that looks in between fails with "appears corrupted".

**Bounds.** Three starts allow a migration, one that interrupts or overlaps
it, and one that builds on what they left. The versions between them rename,
retype, freeze, add and drop, and return to earlier names.

**Fairness.** A process goes on with its migration (weak fairness of `Step`);
faults and starts are free. That `EveryMigrationEnds` means that the database's
lock on the table and the lock of the file never wait for each other.

**Assumed of definitions** (`MigratorAssumption`): two fields have different
columns and none is called like the temporary column of another, which the
code does not check.

**Not modelled**: `fake_migrate`, `drop_table`, the log file, geometry
columns, primary keys, and `InDBMigrator`, whose snapshot is in the database.

**Proved** (`MigratorProofs`), for any processes, fields, definitions, engines,
faults and starts: `TypesAreRight`; `NothingIsLost`, if `NamesApart` and mysql is
not among `Overlap`; `UndisturbedMigrationsConverge`, if `NamesApart`. The
inductive invariant is in five parts, each proved from those before it:

- `Typed` and `Control`: who may have the transaction and the lock, which
  variables of the loop are in use where, and that on an engine without
  `Overlap` one process is busy at most.
- `Naming`: every column holds values of the field whose names include its own,
  and a query in progress is about the columns of one field. It is here that
  `NamesApart` is used; everything after it can be said field by field.
- `Data`: the values of each kept field are in some column of the committed
  table *and* of the open transaction, since either may be what is left. And
  what remains of a query does no harm wherever it is cut: `SafeQuery` lists
  its remainders, each with what the table has by then, and a `Drop` is never
  left over unless the values have been copied (`Copied`) or nobody keeps the
  field. That this stays so between two statements needs `Mine` (the process
  has the transaction, or is alone), where the hypothesis on mysql enters; on
  sqlite, where others may step in, it is `Stays`: the new column is empty
  whether or not the transaction is rolled back.
- `Calm`, for migrations that nothing disturbed: in the loop the table has each
  field as `cur` says (`Fits`), but the one field whose query is in progress
  (`HalfWay`: again its remainders, now with all columns of the field); the
  fields already reached agree with the definition (`Agrees`); between
  migrations table and snapshot agree (`AtRest`). So no statement is refused,
  and when all keys are reached the table is the one asked for.

All parts were checked by TLC as invariants of `mig_safety` before they were proved.

## 6. Distributed transactions

**Correspondence.** `distributed_transaction_commit(*instances)` is two loops:
`Prepare`/`PrepareFails` are the first, `CommitPrepared`/`CommitRaises` the
second, `RollbackPrepared`/`RollbackRaises` the loop of its except clause, which
also asks instances that never prepared. `fate[t][i]` is what instance `i` did
with transaction `t`, `answer[t]` how the call ended. `TakesPart` is
`with_connection`: nothing is done for an adapter without connection. `Keyed` are
the instances that prepare under a key (postgres); the others prepare the session
of their connection.

The keys are those of line 274, host, thread and position: all transactions of a
thread have the same, so `Held(i)`, what the key names at `i`, is whatever is
prepared there. Hence a transaction that a failure left prepared is in the way of
the next (`InUse`), and is ended by the next one's answer (`EndNamed`).

`methods` are the instances whose `support_distributed_transaction` is a method.
In this repository it is a class attribute, a truth value (`backend_base.py:677`,
`True` in postgres, mysql and firebird), and line 277 calls it: with pyDAL's own
adapters every call raises TypeError before it prepares anything. The loops are
reached by adapters of an application that define the method the docstring asks
for. Both are in the model, and `AnswerIsTrue` says both: unless all instances
have the method, the call gives no answer and nothing is prepared or committed.

**Abstract specification.** `AtomicCommit`: nothing commits before all have
voted, nothing aborts once one has committed, as long as the coordinator stays.
A transaction its coordinator has `left` commits nowhere any more, and what is
prepared of it may abort. The mapping is `Abandoned`: the call was cut off, or it
ended in an exception that does not tell the outcome.

**Run.** `dist_safety`: three transactions over three instances, one of them
without keys, any of them without connection, which refuse, raise before or after
doing it, or lose their client: `Atomic`, `AnswerIsTrue` and `AtomicSpec`. Three
instances let the first, the middle and the last fail; three transactions let one
leave something prepared, the next find the key in use, and a third begin after
both.

What the code does not give, and the formulas therefore do not say. The docstring
(`base.py:303`) has it that if any prepare fails, every adapter is rolled back and
RuntimeError raised. In the model, as in the code, the loop of the except clause
asks every instance for ROLLBACK PREPARED, those that have not prepared
too; postgres refuses that, the exception leaves the loop, the instances after it
stay as they were, and the caller gets the driver's exception. So RuntimeError
does mean that everything is rolled back, but it comes only when each keyed
instance with a connection has something prepared under its key; the run has both
endings, `answer` tells them apart.
A committed transaction may also lose its part at another instance, after
`CommitRaises`: by a rollback of the application, or of the next transaction,
under the same key. `Atomic` allows this for an `Abandoned` transaction alone.
Nothing promises that a prepared transaction ends, no one tries again: so there is
no liveness property.

**Proved** (`DistributedCommitProofs`), for any number of instances and
transactions, all faults and the keys as they are: `DistTypes`,
`TwoPhaseIsAtomic`, `CallerIsToldTheTruth`, `ImplementsAtomicCommit`. The
invariant adds `Places` (what each place of the loops knows of the transaction
in hand: those before `at` have done it, those from `at` on have not),
`Future` (a transaction not begun has done nothing) and `OneHeld`: although all
transactions share a key, at most one is prepared under it. `Atomic` alone is not
inductive: a commit of one instance is safe only because `Places` says that all
have prepared, and by `OneHeld` a key that the transaction in hand has prepared
names no other.

## 7. Records

**Correspondence.** A table with a unique key and an upload field; `versioned`
says whether `_enable_record_versioning` gave it an archive and a soft delete.
`rows` and `archive` are what is committed, `buffer[c]` what client `c` has
written, `files` the upload folder, which no transaction protects. An operation
looks (`LookUp` is `Table.__call__` in `update_or_insert`, or `IS_NOT_IN_DB`;
`Begin` is the select of `update` and `delete`), runs its callbacks
(`StoreForInsert`, `DeleteUploadedFiles`, `StoreForUpdate`, `ArchiveRecord`) and
writes (`InsertRow`, `Write`). `Commit` and `Rollback` end transactions; a
rollback comes anywhere, as the exception of an application does. Clients read
what is committed, a row one has written is locked for the other.

**Run.** `records`: two clients, two keys, two records, three files: as long as
nobody commits over a look that another has outdated (`raced`), there is one
active record per key, and every version replaced is in the archive; and as long
as no transaction that changed files or rows was rolled back, files and records
match.
The conditions are those of the code, and the interleavings they leave out are
in the model, not in the properties: `update_or_insert` looks and inserts
in two statements (`objects.py:1093`), files are removed before the statement
(`helpers/methods.py:588`), the archive copies what was read (`:179`). Without
them TLC finds the second record, the missing file and the missing version.
The constraint of the configuration stops at states in which none of the
properties can say more. Two clients, because each anomaly is one of a pair.

**Proofs.** All four properties, under the same conditions (`OneRecordPerKey` and
`HistoryKept` as long as nothing has `raced`, `FilesMatchRecords` while
`Undisturbed`), for any number of clients, keys, records and files. None is inductive. `KeysInv` (`RecordsProofs`) adds what a client sees:
`Sees(c)` says, of a client whose looks nobody has outdated, that its view has no
two active records with a key, that the key it inserts is nobody's, that the
record it changes is there, that it has looked at all keys it wrote, and that the
versions it replaces are archived. The step that needs the argument is a commit
seen by another client: what it writes is either a key the other has looked at,
and then the other is stale, or none the other writes. `FilesInv`
adds `Names` (a file is one record's or one call's) and, as
long as nobody has changed files in vain, `InPlace`: which files are there and
which are gone between the callbacks and the write. The callbacks run ahead of the
rows, so `InPlace` says what the rows will be: a record whose files are removed
is excused only while its client is `Past` the removal or has written it.

## 8. Validators

One call of `validate` or `formatter` is a step; a text is a sequence of
characters, one for each class a validator tells apart. `TextValidators` has
lists, e-mails, slugs, cleaning, passwords (`IS_STRONG`, `calc_entropy`,
`CRYPT` and `LazyCrypt`), dates and times with zones; `AddressValidators` URLs,
addresses in a small base, files and images; `FieldValidators` the default
chains a field gets, numbers, sets, `IS_IN_DB`, `IS_NOT_IN_DB`, `IS_LIST_OF`,
`ANY_OF`, `IS_EMPTY_OR`. `Validators` composes them. None declares a recursive
operator: a default chain has at most three validators, one inside another at
most three deep (`IS_EMPTY_OR` of a list of those of a chain), and both are
spelled out to that length.

**Run.** `validators`, every input of the sets in `MCValidators`:
`CleanedSettles` (cleaned values are accepted again, unchanged, alone or in a
list that is shown and read back), `ShownIsReadBack` (a form reads the dates,
moments and hours it shows), `PasswordsTell` (the stored password is told from
any other and outlives a form that shows it; a stronger one is no less accepted),
`AcceptedAsAsked` (family and range, kind of file, null, unique, existing). The
parts of each are named in the modules, with the exceptions the code makes. The
texts are all those of up to four characters of the classes, long enough for a
separator between two others and for two that meet.

**Proved** (`ValidatorsProofs`), for inputs of any number and size: three of the
four invariants, `AcceptedAsAsked` (`AcceptedIsAsked`), `PasswordsTell`
(`PasswordsAreTold`), `ShownIsReadBack` (`TimesAreReadBack`). A call is one step,
so the inductive invariants, `AllAnswered` for the first and `TextsAnswered` for
the others, say what an answer is: that of the validator asked, on one of the
inputs. Each action establishes its part, and each part of a property follows
from one of them.

*What is accepted.*
Addresses: their octets are numbers below the base, a number in a range has its
octets where comparison by digits puts them (`NumbersInOrder`), so a range that
is compared by the number is one of addresses. Files: the last dot is the last
(`Greatest`), what follows it is the extension, in the case asked for. Fields:
`FieldChains` and its kin list the chains a field gets by its type and whether it
is null, unique, a reference; then one lemma for each validator says what it lets
through (`NotInDbGives`, `InDbGives`, `ReferringGives`), and that what comes
before it in its chain has not changed it (`TypeKeepsText`), since a unique value
is looked up as it comes out of the conversions.

*Passwords*, of any length over the five sets of `CharSets`
(`PasswordsAssumption`). The entropy is that of a power, the alphabet credited to
the length; alphabet and power are recursive functions of a place. `Carried`
shows that such a function exists, by the last place up to which one does, and
`AllPlaces` carries a fact from each place to the next. One more character adds to
the credit (`CreditGrows`), so it keeps every bound met (`EntropyOfMore`, from
`PowersInOrder` and `PowersOfTwo`); every requirement counts characters or is
such a bound, so who asks no more is satisfied by what satisfied another
(`StrongerMeetsLess`). At a log-in the stored hash, which names its algorithm and
salt, is compared with that of what is typed: the same text gives the same hash
(`SameHashes`), another text another (`OtherHashes`: a hash is the term of what
goes into it), and a key with a second colon, which the comparison cuts once
more, is shorter there (`SecondPartShorter`), so that not even the right password
is told. `CryptsAssumption` says that a key names one algorithm at most.

*Times*, any integers as years and moments, any length of the year
(`TimesAssumption`): division with remainder. A year of two digits is read back
from 1969 to 2068 and no other; a moment is read back exactly if it lies in the
same year in the zone of the form, since the formatter takes the year before it
moves the moment; twelve hours and two halves name each hour of the day once
(`HourOnce`).

## 9. Values, queries, rows, requests, tables

Each module of this group is one call a step, but for `Definitions`,
`Instances` and `DatabaseFiles`, in which what earlier calls left matters: there
`asked` and `answer` hold the state, too.

| Module | Models | Part of the property |
| --- | --- | --- |
| `Values` | `filter_in`, SQL and NoSQL representers, bound parameters, SQLite's affinity, parsers, lists with bars | `KeptIsFound`, `ValuesAreKept` |
| `Expressions` | operators and methods of `Expression` and `Query`, `expand` of the dialect, translation to AST, the compiler with and without parameters, what SQL says of a row | `InlineAsBound`, `QueriesAreRead` |
| `QueryDicts` | `Query.as_dict`, `Set.build` | `QueriesAreRead` |
| `QueryTexts` | `QueryBuilder` and `smart_query`, against a grammar | `QueriesAreRead` |
| `Selects` | tables of a query, common filters, joins, aliases, subselects, pages, `count`, `update` by the AST and by the older path, and the rows of the statement | `EveryTableIsFiltered`, `SelectsAgree`, `SubselectsAgree` |
| `RowSets` | `Rows` as multisets, `find`, `exclude`, trees, groups, `IterRows`, CSV out and in | `RowsAreKept`, `ValuesAreKept` |
| `RowAccess` | from columns to names, `executesql` | `RowsAreKept` |
| `RestRequests`, `RestPatterns` | `RestAPI.search` and changes; `parse_as_rest` | `RequestsAreAnswered` |
| `TableFields` | the fields a table is made of, its dictionary | `DefinitionsHold` |
| `Definitions` | definition now or lazily, references pending or not, redefinition, aliases, commit | `DefinitionsHold` |
| `Instances` | instances by `db_uid`, blank, open, failed, closed | `KeptIsFound` |
| `RecordShortcuts` | `table(key)`, `table[key]`, `update_or_insert` and its kin on tables with ids or keys | `KeptIsFound` |
| `DatabaseFiles` | a file kept in a row, opened by two | `KeptIsFound` |
| `Tags`, `StoredFiles` | tags as paths; upload names | `ValuesAreKept` |

**Runs.** `queries` checks them together. Each of its ten invariants is the
conjunction, in `MCQueries`, of properties named and commented in the modules;
a comment in brackets there states where the code does not keep the promise, and
the formula leaves out that case and no other. `queries_scrambled` is
*violated*: in `(db.t.x + 1).belongs([3, 4])` the compiler visits the values
before the expression (`compilers/sql.py:706`), so 3, 4, 1 are bound to
`x + ?`, `?`, `?`. What `SubselectsAgree` leaves out is an error of the code as well:
`compile_count` gives the scope of its subselects the canonical name of a table
that the query calls by an alias (`compilers/sql.py:464`), so the subselect lists
the alias in a FROM of its own, and `count` counts rows that `select` of the same
set does not return. TLC shows it for `CountAndUpdateAsSelected` without the
exception. The names a set's subselects use are those at any depth
(`NamedInSubselects`): with the names of the first level alone TLC finds the
property violated by a subselect in a subselect.

**What is compared.** Most of these properties compare two ways the code itself
has: bound and inline, AST and older path, NoSQL and SQL, one statement and two,
lookup and filter, `QueryBuilder` and `smart_query`, a dictionary and its query,
a file out and in. `Selects` leaves out in what order a statement lists its tables
and its conditions, which SQL does not look at, but keeps that of the joins on
conditions, in which a condition may name only what comes before. Others compare
with a definition of what Python or SQL means
(membership, slices, LIKE, rows of joins), written in the modules apart from the
code's translation.

**Bounds.** Texts of up to three letters with each wildcard and escape; lists
of up to three; tables of three rows, with NULLs, dangling and self references;
two joins; subselects, two of them with another in it; queries of two predicates
under `and`, `or`, `not`; up to four definitions of three tables, which allows a
cycle, a redefinition and a use between; three instances of two databases; two
openings of a file. Values differ where the code branches on
them.

**Proved** (`KeptProofs`), for every value of the constants: `KeptAreFound`, that
`KeptIsFound` holds of `KeptSpec`, the calls of `KeptCalls` in any order, which in
`MCQueries` are the disjunct `Keep` of `Next`. (`MCQueries` as a whole has
recursive operators.) Its parts are theorems of their own:

| Theorem | In | States | From |
| --- | --- | --- | --- |
| `OpenInstancesAreListed`, `UnpickledInstancesConnect`, `ClosesOneAtMost` | `KeptProofs` | `OpenOnesAreListed`, `UnpickledIsConnected`, `OthersStayOpen` | `InstancesInv` |
| `BoundIsLiteral` | `KeptProofs` | `SameEitherWay`: what is bound is stored as what is written out | cases of type and value |
| `OneRecordPerCall`, `WrittenOnce`, `LookedUpAgrees` | `KeptProofs` | `OneRecordIsWritten`, `WrittenIsThere`, `LookupsAgree` | `KeysAssumption`, `FieldsAssumption` |
| `PartsAreTheFile`, `WhatIsClosedIsKept` | `KeptProofs` | `PartsMakeTheFile`, `ClosedIsKept` | `FileInv`, `ContentsAssumption` |

The inductive invariant `KeptInv` is that of the instances, that of the files,
and the properties of the shortcuts; a call of one kind leaves the others nothing
to show (`OthersSayNothing`), since `asked` says which it was.

`InstancesInv` says of the lists of instances, besides what the property says,
that they hold an instance of their own database, that an open instance has the
adapter `close` needs, and that who waits to be connected is blank. The last is
what makes `UnpickledIsConnected` inductive: a waiting instance that were open
would be connected again and listed twice. The lists are sequences, so the
lemmas of appending to a list and taking one off it come first.

`FileInv` says of each open file that what was read is the beginning of its
content (`Begins`, position by position, of which `SubSeq` and `IsPrefix` are
consequences), and that, while nobody has closed since it was opened, what it
began with is still what is there. `ClosedIsKept` alone is not inductive: that
one write is not lost when one closes depends on what it found when it opened.

The shortcuts need no invariant: each call is given its table. The lemmas follow
the calls, `insert1` and `update1` first (one record is written, and the keys
stay as many as the records), then what is looked up by a key, then each
shortcut by those. Their assumptions are what the database enforces: one record
of a key, each with the fields of its table and none other written.

`BoundIsLiteral` is by cases: a value with a bound form (`Parameterizable`) is
coerced on its way into the column (`Affinity`), and what is coerced once is not
changed by coercing it again (`ToIntTwice`, `ToFloatTwice`).

**Proved of selects** (`AnswersProofs`), for any tables, rows, filters, sets,
joins, subselects and lists of fields: `RowsOfOthersAreHidden`, that
`EveryTableIsFiltered`, and `SelectsAgreeByEitherPath`, that `SelectsAgree`, hold
of `SelectsSpec`. The inductive invariant `SelectsAnswered` says that an answer is
the statement of the call asked, and its rows. From it:

- *Rows of others.* What the rows of a statement have passed is followed through
  its joins one by one: a left join adds a row that passed its condition, or none
  (`JoiningStep`, `JoinsKeepFilters`), and the conditions of WHERE come last
  (`WhereKeepsFilters`).
- *Two paths.* Both build FROM of the same parts (`BuiltJoins`, `SamePaths`); that
  pages settle is `OrderSettles`.
- *Failing.* A statement has tables unless all are excluded, and a condition of a
  join names tables that come before it (`WholeFrom`, `WholeSelect`, `WholeRuns`);
  so it fails only where the property says.
- *Meaning.* A row of the tables on the left has one of the joined that extends
  it: `LeftJoinsKeep` takes the first join at which one were lost and finds that
  `LeftExtends` there. The rows after each join are a recursive function of its
  place, of which only its steps are needed.

`SubselectsAgreeToo` proves `SubselectsAgree`, by the same invariant. What a
subselect returns (`SelectedIn`), and whether it fails (`SubselectFails`), is
defined by a recursion over the subselects in it, for a row around it and the
names in scope. The assumptions `SubselectsAssumption` (finitely many, no
subselect in itself, those of a set and of a subselect among them) and
`NamesAssumption` (a name stands for a table, which has its own name, too) make
it a definition:

- *Recursion.* `Solved`: a largest set of subselects that has a solution and is
  closed leaves none out, for the solution extends to one whose own are all in it
  (`SolvedOneMore`). So the two functions are what their equations say
  (`SelectedUnfolds`, `FailsUnfolds`). `Founded` is the induction they are used
  by: what no subselect violates unless one in it does, none violates.
- *Only what is used.* With `NamesWithin`, the names a subselect and those in it
  use: one that does not fail has around it all it uses of its scope
  (`KnownWithin`); whether it fails depends on the part of its scope that it uses
  (`FailsAgree`), and what it returns on the rows of that part (`SelectedAgree`).
- *The calls.* A left join adds names that the subselects do not use, so they fail
  and return as without it (`AloneRuns`, `LeftKeeps`). A `count` compiles them in
  the scope of the tables' own names: since it did not fail, they use none of
  those but the ones the set has, and by the exception none of the set's aliases;
  so the rows are those of `select` (`CountedAsSelected`). Sets without subselects
  are a case of this.

**Deadlock** is not checked in the runs of calls and in `records`,
`mig_safety` and `dist_safety`, which really end: the one call has returned, or
the bounded records, starts and transactions are used up.

**Observed of the code**, and left out of the formulas where they say so:
as_dict writes operators that build does not know, and a Decimal becomes NULL;
`"+HH:MM"` of a stored moment is added where it should be taken off
(`backend_base.py:2705`); an empty text is bound as a text and written out as
NULL; `LIKE` with an expression gets `ESCAPE 'None'`; tables that are only
joined plainly or selected from get no common filter; `count` over tables with a
subselect falls back and fails; CSV rows of a table with a cascade lose their
referrers while ids are skipped; a unique column first in a file is taken for
none (`objects.py:1294`); `find(limitby=(0, 0))` returns everything; a negative
`@limit` of a request is not bounded (`restapi.py:522`); lazy tables that refer
to each other lose their definitions (`base.py:760`); a redefined table forgets
who refers to it (`objects.py:641`); `DAL(attempts=0)` is an unbound local;
uploads with long names come back cut, and a name without a dot may be read to
base 16 (`objects.py:2580`); a file of the database that was only read is
written back on closing (`helpers/classes.py:684`); updating a keyed record
through `validate_and_update` writes and then raises.

## 10. What is proved, what is checked, what is neither

Proved for every value of the constants: the theorems of sections 3 to 8, and
those of section 9 about what `KeptCalls` composes and about `Selects`. Their
assumptions are those named in the modules (`PoolSizeAssumption` and its kin),
evaluated by TLC in every run, and the conditions stated with some theorems:
`OneHostPerId` for `DeadRunsAreGone` (4), `NamesApart` and no overlap on mysql
(5), and no close that leaves a transaction open for `NoTransactionInPool` (3).
Each condition excludes a behaviour in which TLC finds the property violated; the
section describes it. The exceptions inside formulas (`raced`, `Undisturbed`,
`disturbed`, `Abandoned`) are described with them.

Only model-checked:

- Liveness (`CallsReturn`, `EveryRunEnds`, `EveryMigrationEnds`), which the provers
  do not reach.
- Of section 8 `CleanedSettles`: texts are rewritten until nothing changes, lists
  are joined and split again, which is induction over texts with the rewriting
  itself as the data.
- Of section 9 what rests on recursive definitions over texts, trees and lists
  (`Expressions`, `QueryDicts`, `QueryTexts`, `RowSets`, `RestRequests`,
  `RestPatterns`, `Definitions`), which need induction over data too, and
  `RowAccess`, `TableFields`, `Tags` and `StoredFiles`, whose properties are parts
  of conjunctions with those.

Of the ten invariants of `queries` four are proved: `KeptIsFound`,
`EveryTableIsFiltered`, `SelectsAgree`, `SubselectsAgree`; of the four of
`validators` three.

Where several alternatives of a CASE hold, TLC takes the first, though the
language leaves the choice open. Modules that only TLC evaluates are written so in
places; those with theorems keep the alternatives apart.

**Not modelled.**

- Groups, `having`, DISTINCT, unions, CTEs, and the caches of `count` and
  `select`: the caches are objects of the application.
- `parameterize` of the compiler as state of several threads; virtual fields,
  computed fields and callbacks the application gives.
- Geometry, JSON accessors, regular expressions, and the spelling of one
  engine's SQL (`backends/*`, `dialects`): they keep no state, and what a foreign
  database makes of them is not in this repository.
- `backends/mongo.py`, `google.py`, `couchdb.py`, `contrib/imap_adapter.py`:
  translations to foreign services. Their representer is compared in `Values`.
- `contrib/ipaddress.py`, `portalocker.py` but for the lock in `Migrator`,
  `reserved_sql_keywords.py`: vendored code and tables of words.
- XML, JSON and HTML output, wording of errors, folders, logs, timing.
- `fake_migrate`, `drop_table`, `InDBMigrator`; what a policy of `restapi`
  decides; the free-list of the pool as a forked child inherits it.
