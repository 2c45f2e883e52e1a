-------------------------- MODULE ConnectionPool ---------------------------
(***************************************************************************)
(* pydal/connection.py: the thread-local connection slots and the          *)
(* process-wide free-list POOLS[uri] of the adapters that share one URI,   *)
(* guarded by GLOBAL_LOCKER.                                               *)
(*                                                                         *)
(* A client <<a, t>> is adapter a used from thread t: the key of the       *)
(* THREAD_LOCAL slot (_connection_uname_).  A thread runs one call at a    *)
(* time; pc[t] is the place inside get_connection or close where it can be *)
(* preempted.  Work a thread does on the connection it alone holds, between*)
(* two such places, is one step.                                           *)
(***************************************************************************)
EXTENDS Naturals, SequencesExt

CONSTANTS
  Adapters,        \* adapters with the same URI, hence the same free-list
  Threads,
  Conns,           \* identities of DB-API connection objects (a bound)
  PoolSize,        \* PoolSize[a]: the pool_size adapter a was created with
  CloseActions,    \* arguments of close: "commit"/"rollback", or "none" for
                   \* None or a callable that leaves the transaction open
  ReallyArgs,      \* values of close's really argument
  UsePoolArgs,     \* values of get_connection's use_pool argument
  CheckActive,     \* check_active_connection
  MayFail,         \* the server drops connections and refuses new ones
  MayDefine,       \* threads run define_table's migration under GLOBAL_LOCKER
  NoConn, NoThread

Clients == Adapters \X Threads

ASSUME PoolSizeAssumption == PoolSize \in [Adapters -> Nat]
ASSUME ArgsAssumption ==
  /\ CloseActions \subseteq {"commit", "rollback", "none"}
  /\ ReallyArgs \subseteq BOOLEAN /\ UsePoolArgs \subseteq BOOLEAN
  /\ CheckActive \in BOOLEAN /\ MayFail \in BOOLEAN /\ MayDefine \in BOOLEAN
ASSUME NoneAssumption == NoConn \notin Conns /\ NoThread \notin Threads

VARIABLES
  pool,       \* POOLS[uri], appended to and popped from its end
  known,      \* POOLS has the key uri
  owner,      \* thread that holds GLOBAL_LOCKER, or NoThread
  depth,      \* its recursion count: the lock is an RLock
  defining,   \* threads inside define_table's locked section
  pc,         \* pc[t]: where thread t is
  cur,        \* cur[t]: the adapter whose method t is running
  really,     \* really[t]: close's argument
  slot,       \* slot[<<a, t>>]: the connection in the thread-local slot
  cursor,     \* cursor[<<a, t>>]: "none", "open" or "closed"
  lent,       \* lent[<<a, t>>]: get_connection returned the slot's connection to its caller
  conn,       \* conn[c]: "new" (not open), "live", "dead" (the server dropped it)
  work,       \* work[c]: "dirty" while a transaction with a caller's statements is open
  first,      \* first[a]: adapter a's _first_connection flag
  firstRuns   \* firstRuns[a]: completed calls of _after_first_connection

lockVars == <<owner, depth, defining>>
poolVars == <<pool, known>>
slotVars == <<slot, cursor, lent>>
connVars == <<conn, work>>
hookVars == <<first, firstRuns>>
callVars == <<pc, cur, really>>
vars == <<poolVars, lockVars, callVars, slotVars, connVars, hookVars>>

PCs == {"idle", "getlock", "pop", "vet", "connect", "hooks", "firsthook",
        "initialise", "closepooled", "closeunpooled", "closelock", "append", "discard", "unset"}

Init ==
  /\ pool = <<>> /\ known = FALSE
  /\ owner = NoThread /\ depth = 0 /\ defining = {}
  /\ pc = [t \in Threads |-> "idle"]
  /\ cur \in [Threads -> Adapters]
  /\ really = [t \in Threads |-> TRUE]
  /\ slot = [k \in Clients |-> NoConn]
  /\ cursor = [k \in Clients |-> "none"]
  /\ lent = [k \in Clients |-> FALSE]
  /\ conn = [c \in Conns |-> "new"]
  /\ work = [c \in Conns |-> "clean"]
  /\ first = [a \in Adapters |-> FALSE]
  /\ firstRuns = [a \in Adapters |-> 0]

----------------------------------------------------------------------------
(* GLOBAL_LOCKER, a threading.RLock.                                       *)

\* Mutant: the acquire does not wait.
CanLockAlways(t) == TRUE

CanLock(t) == owner \in {NoThread, t}
Lock(t)    == CanLock(t) /\ owner' = t /\ depth' = depth + 1
Unlock(t)  == /\ depth' = depth - 1
              /\ owner' = IF depth = 1 THEN NoThread ELSE t

(* The call returns or raises: its exceptions reach the caller.            *)
Goto(t, l) == pc' = [pc EXCEPT ![t] = l]

\* lazy_define_table runs the migration inside GLOBAL_LOCKER; every statement
\* of it calls get_connection, so the lock is taken a second time.
BeginDefine(t) ==
  /\ MayDefine /\ pc[t] = "idle" /\ t \notin defining
  /\ Lock(t) /\ defining' = defining \union {t}
  /\ UNCHANGED <<poolVars, callVars, slotVars, connVars, hookVars>>

EndDefine(t) ==
  /\ pc[t] = "idle" /\ t \in defining
  /\ Unlock(t) /\ defining' = defining \ {t}
  /\ UNCHANGED <<poolVars, callVars, slotVars, connVars, hookVars>>

----------------------------------------------------------------------------
(* get_connection                                                          *)

\* The slot is set: its connection is returned as it is.
GetBound(a, t) ==
  /\ pc[t] = "idle" /\ slot[<<a, t>>] # NoConn /\ ~lent[<<a, t>>]
  /\ lent' = [lent EXCEPT ![<<a, t>>] = TRUE]
  /\ UNCHANGED <<poolVars, lockVars, callVars, slot, cursor, connVars, hookVars>>

GetStart(a, t, usePool) ==
  /\ pc[t] = "idle" /\ slot[<<a, t>>] = NoConn
  /\ cur' = [cur EXCEPT ![t] = a]
  /\ Goto(t, IF usePool /\ PoolSize[a] > 0 THEN "getlock" ELSE "connect")
  /\ UNCHANGED <<poolVars, lockVars, really, slotVars, connVars, hookVars>>

\* The free-list of this URI exists from here on.
GetLock(t) ==
  /\ pc[t] = "getlock"
  /\ Lock(t) /\ known' = TRUE /\ Goto(t, "pop")
  /\ UNCHANGED <<pool, defining, cur, really, slotVars, connVars, hookVars>>

\* Mutant: the free connection is read, not popped.
PopPeeks(t) ==
  /\ pc[t] = "pop" /\ pool # <<>>
  /\ slot' = [slot EXCEPT ![<<cur[t], t>>] = Last(pool)]
  /\ Goto(t, "vet")
  /\ UNCHANGED <<poolVars, lockVars, cur, really, cursor, lent, connVars, hookVars>>

\* Take the newest free connection into the slot; set_connection goes on in Vet.
Pop(t) ==
  /\ pc[t] = "pop" /\ pool # <<>>
  /\ pool' = Front(pool)
  /\ slot' = [slot EXCEPT ![<<cur[t], t>>] = Last(pool)]
  /\ Goto(t, "vet")
  /\ UNCHANGED <<known, lockVars, cur, really, cursor, lent, connVars, hookVars>>

\* Mutant: no finally releases the lock when the pool is empty.
PoolExhaustedLocked(t) ==
  /\ pc[t] = "pop" /\ pool = <<>>
  /\ Goto(t, "connect")
  /\ UNCHANGED <<poolVars, lockVars, cur, really, slotVars, connVars, hookVars>>

PoolExhausted(t) ==
  /\ pc[t] = "pop" /\ pool = <<>>
  /\ Unlock(t) /\ Goto(t, "connect")
  /\ UNCHANGED <<poolVars, defining, cur, really, slotVars, connVars, hookVars>>

\* What may go wrong with connection c: anything needs the server once c is dead.
Breaks(c) == conn[c] = "dead" \/ MayFail

\* set_connection(c, run_hooks=False) ran to its end: get_connection returns c.
VetPasses(t) ==
  LET k == <<cur[t], t>>
      c == slot[k]
  IN  /\ pc[t] = "vet" /\ (CheckActive => conn[c] = "live") /\ c # NoConn
      /\ cursor' = [cursor EXCEPT ![k] = "open"]
      /\ lent' = [lent EXCEPT ![k] = TRUE]
      /\ work' = IF CheckActive THEN [work EXCEPT ![c] = "clean"] ELSE work
      /\ Unlock(t) /\ Goto(t, "idle")
      /\ UNCHANGED <<poolVars, defining, cur, really, slot, conn, hookVars>>

\* set_connection raised.  Only the local variable forgets the connection: the
\* slot keeps it.  cursor() fails on a dead connection (the cursor slot keeps
\* what it had), the test or its commit may fail on any.
VetFails(t) ==
  LET k == <<cur[t], t>>
      c == slot[k]
  IN  /\ pc[t] = "vet" /\ Breaks(c)
      /\ \/ conn[c] = "dead" /\ UNCHANGED cursor
         \/ CheckActive /\ cursor' = [cursor EXCEPT ![k] = "open"]
      /\ Goto(t, "pop")
      /\ UNCHANGED <<poolVars, lockVars, cur, really, slot, lent, connVars, hookVars>>

\* connector() opened c, bound to the slot with a cursor.
Connect(t, c) ==
  LET k == <<cur[t], t>>
  IN  /\ pc[t] = "connect" /\ conn[c] = "new"
      /\ conn' = [conn EXCEPT ![c] = "live"]
      /\ slot' = [slot EXCEPT ![k] = c]
      /\ cursor' = [cursor EXCEPT ![k] = "open"]
      /\ Goto(t, "hooks")
      /\ UNCHANGED <<poolVars, lockVars, cur, really, lent, work, hookVars>>

\* connector() raised: the slot keeps whatever the pool loop left in it.
ConnectFails(t) ==
  /\ pc[t] = "connect" /\ (MayFail \/ \A c \in Conns : conn[c] # "new")
  /\ Goto(t, "idle")
  /\ UNCHANGED <<poolVars, lockVars, cur, really, slotVars, connVars, hookVars>>

\* after_connection_hook: test of _first_connection, then its assignment after
\* _after_first_connection has run.
HookTest(t) ==
  /\ pc[t] = "hooks"
  /\ IF first[cur[t]]
     THEN Goto(t, "initialise")
     ELSE Goto(t, "firsthook")
  /\ UNCHANGED <<poolVars, lockVars, cur, really, slotVars, connVars, hookVars>>

\* Mutant: _first_connection is never set.
FirstHookForgotten(t) ==
  /\ pc[t] = "firsthook"
  /\ firstRuns' = [firstRuns EXCEPT ![cur[t]] = @ + 1]
  /\ Goto(t, "initialise")
  /\ UNCHANGED <<poolVars, lockVars, cur, really, slotVars, connVars, first>>

FirstHookDone(t) ==
  /\ pc[t] = "firsthook"
  /\ first' = [first EXCEPT ![cur[t]] = TRUE]
  /\ firstRuns' = [firstRuns EXCEPT ![cur[t]] = @ + 1]
  /\ Goto(t, "initialise")
  /\ UNCHANGED <<poolVars, lockVars, cur, really, slotVars, connVars>>

\* The remaining hooks, the test and the commit succeed: the fresh connection is returned.
Initialised(t) ==
  LET k == <<cur[t], t>>
  IN  /\ pc[t] = "initialise" /\ conn[slot[k]] = "live"
      /\ lent' = [lent EXCEPT ![k] = TRUE]
      /\ Goto(t, "idle")
      /\ UNCHANGED <<poolVars, lockVars, cur, really, slot, cursor, conn, work, hookVars>>

\* A hook, the test or the commit raises: the exception leaves get_connection
\* with the half-initialised connection still in the slot.
InitialiseFails(t) ==
  /\ pc[t] \in {"firsthook", "initialise"} /\ Breaks(slot[<<cur[t], t>>])
  /\ Goto(t, "idle")
  /\ UNCHANGED <<poolVars, lockVars, cur, really, slotVars, connVars, hookVars>>

----------------------------------------------------------------------------
(* The caller's own statements                                             *)

\* insert, update, ... on the thread's connection: a transaction is open.
DoWork(a, t) ==
  LET c == slot[<<a, t>>]
  IN  /\ pc[t] = "idle" /\ lent[<<a, t>>] /\ c # NoConn
      /\ conn[c] = "live" /\ cursor[<<a, t>>] = "open"
      /\ work' = [work EXCEPT ![c] = "dirty"]
      /\ UNCHANGED <<poolVars, lockVars, callVars, slotVars, conn, hookVars>>

\* reset_cursor on the bound connection.
ResetCursor(a, t) ==
  /\ pc[t] = "idle" /\ slot[<<a, t>>] # NoConn /\ conn[slot[<<a, t>>]] = "live"
  /\ cursor[<<a, t>>] # "open"
  /\ cursor' = [cursor EXCEPT ![<<a, t>>] = "open"]
  /\ lent' = [lent EXCEPT ![<<a, t>>] = TRUE]
  /\ UNCHANGED <<poolVars, lockVars, callVars, slot, connVars, hookVars>>

----------------------------------------------------------------------------
(* close(action, really)                                                   *)

\* Commit and rollback end the transaction and need a live connection; "none"
\* succeeds whatever the connection's state and ends nothing.
ActionSucceeds(c, act) == act = "none" \/ conn[c] = "live"

\* Mutant: the rollback is skipped.
WorkAfterNoRollback(c, act) == IF act = "commit" THEN [work EXCEPT ![c] = "clean"] ELSE work

WorkAfter(c, act) == IF act = "none" THEN work ELSE [work EXCEPT ![c] = "clean"]

\* The action.  A thread without connection returns at once (no step); with
\* pool_size and a successful action the free-list comes next.
CloseCall(a, t, act, close) ==
  LET c == slot[<<a, t>>]
  IN  /\ pc[t] = "idle" /\ c # NoConn
      /\ \E ok \in BOOLEAN :
           /\ IF ok THEN ActionSucceeds(c, act) ELSE Breaks(c) /\ act # "none"
           /\ work' = IF ok THEN WorkAfter(c, act) ELSE work
           /\ Goto(t, IF PoolSize[a] > 0 /\ ok THEN "closepooled" ELSE "closeunpooled")
      /\ cur' = [cur EXCEPT ![t] = a]
      /\ really' = [really EXCEPT ![t] = close]
      /\ UNCHANGED <<poolVars, lockVars, slotVars, conn, hookVars>>

BeforeCursor(t) == pc[t] \in {"closepooled", "closeunpooled"}

\* cursor.close(), "unconditionally".
CloseCursor(t) ==
  LET k == <<cur[t], t>>
  IN  /\ BeforeCursor(t) /\ cursor[k] # "none"
      /\ cursor' = [cursor EXCEPT ![k] = "closed"]
      /\ Goto(t, IF pc[t] = "closepooled" THEN "closelock" ELSE "discard")
      /\ UNCHANGED <<poolVars, lockVars, cur, really, slot, lent, connVars, hookVars>>

\* There is no cursor object to close, or the driver refuses on a dead connection.
Unclosable(k) == cursor[k] = "none" \/ conn[slot[k]] = "dead"

\* cursor.close() raises, and the exception leaves close; the slot stays bound.
CloseCursorRaises(t) ==
  /\ BeforeCursor(t) /\ Unclosable(<<cur[t], t>>)
  /\ really' = [really EXCEPT ![t] = TRUE]   \* moot from here on
  /\ Goto(t, "idle")
  /\ UNCHANGED <<poolVars, lockVars, cur, slotVars, connVars, hookVars>>

HasRoom(a) == Len(pool) < PoolSize[a]

\* Under the lock: POOLS[uri] raises KeyError when no thread ever created the
\* free-list, and close is left with the slot bound.
CloseKeyError(t) ==
  /\ pc[t] = "closelock" /\ CanLock(t) /\ ~known
  /\ really' = [really EXCEPT ![t] = TRUE]
  /\ Goto(t, "idle")
  /\ UNCHANGED <<poolVars, lockVars, cur, slotVars, connVars, hookVars>>

\* Mutant: releases a lock it did not take.
CloseFullReleases(t) ==
  /\ pc[t] = "closelock" /\ CanLock(t) /\ known /\ ~HasRoom(cur[t])
  /\ Unlock(t) /\ Goto(t, "discard")
  /\ UNCHANGED <<poolVars, defining, cur, really, slotVars, connVars, hookVars>>

CloseFull(t) ==
  /\ pc[t] = "closelock" /\ CanLock(t) /\ known /\ ~HasRoom(cur[t])
  /\ Goto(t, "discard")
  /\ UNCHANGED <<poolVars, lockVars, cur, really, slotVars, connVars, hookVars>>

CloseRoom(t) ==
  /\ pc[t] = "closelock" /\ known /\ HasRoom(cur[t])
  /\ Lock(t) /\ Goto(t, "append")
  /\ UNCHANGED <<poolVars, defining, cur, really, slotVars, connVars, hookVars>>

\* The connection is free from here on, although the slot is emptied later.
Recycle(t) ==
  LET k == <<cur[t], t>>
  IN  /\ pc[t] = "append"
      /\ pool' = Append(pool, slot[k])
      /\ really' = [really EXCEPT ![t] = TRUE]   \* moot from here on
      /\ lent' = [lent EXCEPT ![k] = FALSE]
      /\ Unlock(t) /\ Goto(t, "unset")
      /\ UNCHANGED <<known, defining, cur, slot, cursor, conn, work, hookVars>>

\* Mutant: only the cursor slot is emptied.
EmptyCursorSlot(k) ==
  /\ cursor' = [cursor EXCEPT ![k] = "none"]
  /\ lent' = [lent EXCEPT ![k] = FALSE]
  /\ UNCHANGED slot

\* set_connection(None)
EmptySlot(k) ==
  /\ slot' = [slot EXCEPT ![k] = NoConn]
  /\ cursor' = [cursor EXCEPT ![k] = "none"]
  /\ lent' = [lent EXCEPT ![k] = FALSE]

Unset(t) ==
  /\ pc[t] = "unset"
  /\ EmptySlot(<<cur[t], t>>) /\ Goto(t, "idle")
  /\ UNCHANGED <<poolVars, lockVars, cur, really, connVars, hookVars>>

\* close_connection if really, its errors swallowed; then set_connection(None).
\* A closed connection object is gone: its identity is free for a new one.
Discard(t) ==
  LET k == <<cur[t], t>>
      c == slot[k]
  IN  /\ pc[t] = "discard"
      /\ \/ /\ really[t]
            /\ conn' = [conn EXCEPT ![c] = "new"]
            /\ work' = [work EXCEPT ![c] = "clean"]
         \/ ~really[t] /\ UNCHANGED <<conn, work>>
      /\ really' = [really EXCEPT ![t] = TRUE]
      /\ EmptySlot(k) /\ Goto(t, "idle")
      /\ UNCHANGED <<poolVars, lockVars, cur, hookVars>>

----------------------------------------------------------------------------
(* The environment                                                         *)

\* The server ends a connection and rolls back what it had open.
Die(c) ==
  /\ MayFail /\ conn[c] = "live"
  /\ conn' = [conn EXCEPT ![c] = "dead"]
  /\ work' = [work EXCEPT ![c] = "clean"]
  /\ UNCHANGED <<poolVars, lockVars, callVars, slotVars, hookVars>>

Reachable(c) ==
  \/ \E i \in DOMAIN pool : pool[i] = c
  \/ \E k \in Clients : slot[k] = c

\* The interpreter reclaims (and the driver closes) an object nothing refers to.
Collect(c) ==
  /\ conn[c] # "new" /\ ~Reachable(c)
  /\ conn' = [conn EXCEPT ![c] = "new"]
  /\ work' = [work EXCEPT ![c] = "clean"]
  /\ UNCHANGED <<poolVars, lockVars, callVars, slotVars, hookVars>>

----------------------------------------------------------------------------
\* What thread t does by itself once a call has begun.
Step(t) ==
  \/ Pop(t) \/ PoolExhausted(t) \/ VetPasses(t) \/ VetFails(t)
  \/ (\E c \in Conns : Connect(t, c)) \/ ConnectFails(t)
  \/ HookTest(t) \/ FirstHookDone(t) \/ Initialised(t) \/ InitialiseFails(t)
  \/ CloseCursor(t) \/ CloseCursorRaises(t) \/ Recycle(t) \/ Unset(t) \/ Discard(t)

\* Steps that wait for GLOBAL_LOCKER.
LockStep(t) == GetLock(t) \/ CloseKeyError(t) \/ CloseFull(t) \/ CloseRoom(t)

\* What the application may ask of a thread that is not inside a call.
Call(t) ==
  \/ BeginDefine(t) \/ EndDefine(t)
  \/ \E a \in Adapters :
       \/ GetBound(a, t) \/ DoWork(a, t) \/ ResetCursor(a, t)
       \/ \E up \in UsePoolArgs : GetStart(a, t, up)
       \/ \E act \in CloseActions, close \in ReallyArgs : CloseCall(a, t, act, close)

Environment == \E c \in Conns : Die(c) \/ Collect(c)

Next == (\E t \in Threads : Call(t) \/ Step(t) \/ LockStep(t)) \/ Environment

Spec == Init /\ [][Next]_vars

\* A call that has begun goes on; a lock that keeps being released is granted
\* in the end; define_table issues finitely many statements.
Fairness == \A t \in Threads : WF_vars(Step(t)) /\ SF_vars(LockStep(t)) /\ SF_vars(EndDefine(t))

FairSpec == Spec /\ Fairness

----------------------------------------------------------------------------
(* Properties                                                              *)

TypeOK ==
  /\ pool \in Seq(Conns) /\ known \in BOOLEAN
  /\ owner \in Threads \union {NoThread} /\ depth \in Nat /\ defining \subseteq Threads
  /\ pc \in [Threads -> PCs] /\ cur \in [Threads -> Adapters]
  /\ really \in [Threads -> BOOLEAN]
  /\ slot \in [Clients -> Conns \union {NoConn}]
  /\ cursor \in [Clients -> {"none", "open", "closed"}]
  /\ lent \in [Clients -> BOOLEAN]
  /\ conn \in [Conns -> {"new", "live", "dead"}]
  /\ work \in [Conns -> {"clean", "dirty"}]
  /\ first \in [Adapters -> BOOLEAN] /\ firstRuns \in [Adapters -> Nat]

\* Threads sharing an adapter "don't trample each other" (connection.py:7-9),
\* nor do adapters sharing a pool: a connection one client was given is in no
\* other client's hands and not in the free-list, and the free-list holds no
\* connection twice.  close puts the connection into the free-list BEFORE it
\* empties the slot, so the slot alone does not say who may use it.
Exclusive ==
  /\ \A j, k \in Clients : lent[j] /\ lent[k] /\ slot[j] = slot[k] => j = k
  /\ \A k \in Clients, i \in DOMAIN pool : lent[k] => slot[k] # pool[i]
  /\ IsInjective(pool)

\* The free-list never outgrows the largest pool_size of the adapters that
\* share it: the length read under the lock is still the length at the append.
PoolBound == pool = <<>> \/ \E a \in Adapters : Len(pool) <= PoolSize[a]

\* GLOBAL_LOCKER is held exactly while a thread is inside one of the locked
\* sections, as often as it is nested in them: every exit, the raising ones
\* included, gives it back.
Critical(t) == pc[t] \in {"pop", "vet", "append"}

LockBalanced ==
  /\ \A t \in Threads : owner = t <=> (t \in defining \/ Critical(t))
  /\ depth = IF owner = NoThread THEN 0
             ELSE (IF owner \in defining THEN 1 ELSE 0)
                  + (IF Critical(owner) THEN 1 ELSE 0)

\* A connection waiting in the free-list has no transaction open, so the commit
\* of the next checkout cannot make somebody else's statements permanent; as long
\* as every close commits or rolls back (CloseActions without "none").
PooledIsIdle == \A i \in DOMAIN pool : work[pool[i]] = "clean"

\* "Always unset the thread-local slots" (connection.py:212).  A close that ends
\* leaves its client without connection, unless it raised: because the cursor
\* could not be closed (line 192), or because no thread had created the free-list
\* (line 197).  Then the client keeps the connection, and keeps it alone: it has
\* not been put into the free-list as well.
Closing(t) == BeforeCursor(t) \/ pc[t] \in {"closelock", "append", "discard", "unset"}

CloseUnbinds ==
  [][\A t \in Threads :
       LET k == <<cur[t], t>>
       IN  Closing(t) /\ pc'[t] = "idle" /\ slot'[k] # NoConn
             => /\ \/ BeforeCursor(t) /\ Unclosable(k)
                   \/ pc[t] = "closelock" /\ ~known
                /\ \A i \in DOMAIN pool' : pool'[i] # slot'[k]]_vars

\* "_after_first_connection: called the first time only" (connection.py:26).
\* The flag is tested and set apart, without a lock: two threads refute it.
FirstHookOnce == \A a \in Adapters : firstRuns[a] <= 1

\* What is left of it (connection.py:246-248): only the threads that opened a
\* connection before the first of them had set the flag run the hook, each once,
\* however many connections the adapter opens and whichever of them fail.
FirstHookPerThread == \A a \in Adapters : firstRuns[a] <= Cardinality(Threads)

\* Nobody is stuck: a get_connection or close that began returns or raises,
\* whatever the other threads do with GLOBAL_LOCKER.
CallsReturn == \A t \in Threads : pc[t] # "idle" ~> pc[t] = "idle"

\* The pool implements the lease: get_connection's return lends, the append to
\* the free-list (or the emptied slot) gives back.
Lease == INSTANCE ConnectionLease
  WITH holder <- [k \in Clients |-> IF lent[k] THEN slot[k] ELSE NoConn]

LeaseSpec == Lease!Spec
=============================================================================
