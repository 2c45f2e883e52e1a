----------------------- MODULE ConnectionPoolProofs ------------------------
(***************************************************************************)
(* Proofs about ConnectionPool for any number of adapters, threads,        *)
(* connections and any pool sizes.                                         *)
(***************************************************************************)
EXTENDS ConnectionPool, SequenceTheorems, FiniteSetTheorems, TLAPS

\* Thread t may still use the connection in adapter a's slot: close has not
\* passed it to the free-list yet.
Owns(a, t) == slot[<<a, t>>] # NoConn /\ ~(pc[t] = "unset" /\ cur[t] = a)

\* Calls that work on the slot's connection have one.
InCall == {"vet", "hooks", "firsthook", "initialise", "closepooled", "closeunpooled",
           "closelock", "append", "discard", "unset"}

Bound == \A t \in Threads : pc[t] \in InCall => slot[<<cur[t], t>>] # NoConn

\* Nothing is lent while get_connection is still running.
NotYetLent ==
  \A t \in Threads :
    pc[t] \in {"getlock", "pop", "vet", "connect", "hooks", "firsthook", "initialise"}
      => ~lent[<<cur[t], t>>]

LentIsOwned == \A a \in Adapters, t \in Threads : lent[<<a, t>>] => Owns(a, t)

\* The heart of the argument: ownership, unlike the slots, is exclusive.
OwnersDiffer ==
  \A a, b \in Adapters, t, u \in Threads :
    Owns(a, t) /\ Owns(b, u) /\ slot[<<a, t>>] = slot[<<b, u>>] => a = b /\ t = u

OwnedIsNotFree ==
  \A a \in Adapters, t \in Threads, i \in DOMAIN pool :
    Owns(a, t) => slot[<<a, t>>] # pool[i]

FreeOnce == \A i, j \in DOMAIN pool : pool[i] = pool[j] => i = j

\* A connection that is not open is neither owned nor free, so a fresh one
\* collides with nothing.
NewIsNowhere ==
  /\ \A a \in Adapters, t \in Threads : Owns(a, t) => conn[slot[<<a, t>>]] # "new"
  /\ \A i \in DOMAIN pool : conn[pool[i]] # "new"

RoomAtAppend == \A t \in Threads : pc[t] = "append" => HasRoom(cur[t])

Excl == OwnersDiffer /\ OwnedIsNotFree /\ FreeOnce /\ NewIsNowhere

\* The inductive invariant.
Inv ==
  /\ TypeOK /\ LockBalanced /\ PoolBound /\ RoomAtAppend
  /\ Bound /\ NotYetLent /\ LentIsOwned /\ Excl

----------------------------------------------------------------------------
\* Popping a nonempty free-list: what is taken and what is left.
LEMMA PopLemma ==
  ASSUME NEW S, NEW s \in Seq(S), s # <<>>
  PROVE  /\ Len(s) \in Nat \ {0} /\ Front(s) \in Seq(S)
         /\ Last(s) \in S /\ Last(s) = s[Len(s)]
         /\ Len(Front(s)) = Len(s) - 1
         /\ \A i \in 1 .. Len(s) - 1 : Front(s)[i] = s[i]
<1>1. Len(s) \in Nat \ {0} /\ \A i \in 1 .. Len(s) : s[i] \in S
  BY LenProperties, EmptySeq, ElementOfSeq
<1>2. /\ Front(s) \in Seq(S) /\ Len(Front(s)) = Len(s) - 1
      /\ \A i \in 1 .. Len(s) - 1 : Front(s)[i] = s[i]
  <2>1. \A i \in 1 .. Len(s) - 1 : s[i] \in S
    BY <1>1
  <2>2. /\ SubSeq(s, 1, Len(s) - 1) \in Seq(S)
        /\ Len(SubSeq(s, 1, Len(s) - 1)) = IF 1 <= Len(s) - 1 THEN Len(s) - 1 - 1 + 1 ELSE 0
        /\ \A i \in 1 .. Len(s) - 1 - 1 + 1 : SubSeq(s, 1, Len(s) - 1)[i] = s[1 + i - 1]
    BY <1>1, <2>1, SubSeqProperties
  <2>3. Len(s) - 1 - 1 + 1 = Len(s) - 1 /\ \A i \in 1 .. Len(s) - 1 : 1 + i - 1 = i
    BY <1>1
  <2>4. (IF 1 <= Len(s) - 1 THEN Len(s) - 1 - 1 + 1 ELSE 0) = Len(s) - 1
    <3>1. \A n \in Nat \ {0} : (IF 1 <= n - 1 THEN n - 1 - 1 + 1 ELSE 0) = n - 1
      OBVIOUS
    <3> QED
      BY <1>1, <3>1
  <2>5. Front(s) = SubSeq(s, 1, Len(s) - 1)
    BY DEF Front
  <2> QED
    BY <1>1, <2>2, <2>3, <2>4, <2>5
<1> QED
  BY <1>1, <1>2 DEF Last

\* No step leaves the types.
LEMMA TypeStep == TypeOK /\ LockBalanced /\ Bound /\ [Next]_vars => TypeOK'
<1> SUFFICES ASSUME TypeOK, LockBalanced, Bound, [Next]_vars PROVE TypeOK'
  OBVIOUS
<1> USE PoolSizeAssumption, ArgsAssumption, NoneAssumption DEF TypeOK, Clients, PCs,
        vars, poolVars, lockVars, callVars, slotVars, connVars, hookVars
<1>0. CASE UNCHANGED vars
  BY <1>0
<1>1. ASSUME NEW t \in Threads, BeginDefine(t) PROVE TypeOK'
  BY <1>1 DEF BeginDefine, Lock
<1>2. ASSUME NEW t \in Threads, EndDefine(t) PROVE TypeOK'
  BY <1>2 DEF EndDefine, Unlock, LockBalanced, Critical
<1>3. ASSUME NEW t \in Threads, GetLock(t) PROVE TypeOK'
  BY <1>3 DEF GetLock, Lock, Goto
<1>4. ASSUME NEW t \in Threads, Pop(t) PROVE TypeOK'
  BY <1>4, PopLemma DEF Pop, Goto
<1>5. ASSUME NEW t \in Threads, PoolExhausted(t) PROVE TypeOK'
  BY <1>5 DEF PoolExhausted, Unlock, LockBalanced, Critical, Goto
<1>6. ASSUME NEW t \in Threads, VetPasses(t) PROVE TypeOK'
  <2> DEFINE k == <<cur[t], t>>
  <2>1. k \in Clients /\ slot[k] \in Conns
    BY <1>6 DEF VetPasses
  <2>2. depth' \in Nat /\ owner' \in Threads \union {NoThread}
    BY <1>6 DEF VetPasses, Unlock, LockBalanced, Critical
  <2>3. work' \in [Conns -> {"clean", "dirty"}]
    BY <1>6, <2>1 DEF VetPasses
  <2> QED
    BY <1>6, <2>1, <2>2, <2>3 DEF VetPasses, Goto
<1>7. ASSUME NEW t \in Threads, VetFails(t) PROVE TypeOK'
  BY <1>7 DEF VetFails, Goto, Breaks
<1>8. ASSUME NEW t \in Threads, ConnectFails(t) PROVE TypeOK'
  BY <1>8 DEF ConnectFails, Goto
<1>9. ASSUME NEW t \in Threads, HookTest(t) PROVE TypeOK'
  BY <1>9 DEF HookTest, Goto
<1>10. ASSUME NEW t \in Threads, FirstHookDone(t) PROVE TypeOK'
  BY <1>10 DEF FirstHookDone, Goto
<1>11. ASSUME NEW t \in Threads, Initialised(t) PROVE TypeOK'
  BY <1>11 DEF Initialised, Bound, InCall, Goto
<1>12. ASSUME NEW t \in Threads, InitialiseFails(t) PROVE TypeOK'
  BY <1>12 DEF InitialiseFails, Goto, Breaks
<1>13. ASSUME NEW t \in Threads, Recycle(t) PROVE TypeOK'
  <2> DEFINE k == <<cur[t], t>>
  <2>1. k \in Clients /\ slot[k] \in Conns
    BY <1>13 DEF Recycle, Bound, InCall
  <2>2. pool' \in Seq(Conns)
    BY <1>13, <2>1 DEF Recycle
  <2>3. depth' \in Nat /\ owner' \in Threads \union {NoThread}
    BY <1>13 DEF Recycle, Unlock, LockBalanced, Critical
  <2> QED
    BY <1>13, <2>1, <2>2, <2>3 DEF Recycle, Goto
<1>14. ASSUME NEW t \in Threads, Unset(t) PROVE TypeOK'
  BY <1>14 DEF Unset, EmptySlot, Goto
<1>15. ASSUME NEW t \in Threads, Discard(t) PROVE TypeOK'
  <2> DEFINE k == <<cur[t], t>>
  <2>1. k \in Clients /\ slot[k] \in Conns
    BY <1>15 DEF Discard, Bound, InCall
  <2>2. conn' \in [Conns -> {"new", "live", "dead"}] /\ work' \in [Conns -> {"clean", "dirty"}]
    BY <1>15, <2>1 DEF Discard
  <2> QED
    BY <1>15, <2>1, <2>2 DEF Discard, EmptySlot, Goto
<1>16. ASSUME NEW t \in Threads, CloseKeyError(t) PROVE TypeOK'
  BY <1>16 DEF CloseKeyError, Goto
<1>17. ASSUME NEW t \in Threads, CloseFull(t) PROVE TypeOK'
  BY <1>17 DEF CloseFull, Goto
<1>18. ASSUME NEW t \in Threads, CloseRoom(t) PROVE TypeOK'
  BY <1>18 DEF CloseRoom, Lock, Goto
<1>19. ASSUME NEW t \in Threads, NEW c \in Conns, Connect(t, c) PROVE TypeOK'
  BY <1>19 DEF Connect, Goto
<1>20. ASSUME NEW t \in Threads, NEW a \in Adapters, GetBound(a, t) PROVE TypeOK'
  BY <1>20 DEF GetBound
<1>21. ASSUME NEW t \in Threads, NEW a \in Adapters, DoWork(a, t) PROVE TypeOK'
  BY <1>21 DEF DoWork
<1>22. ASSUME NEW t \in Threads, NEW a \in Adapters, ResetCursor(a, t) PROVE TypeOK'
  BY <1>22 DEF ResetCursor
<1>23. ASSUME NEW t \in Threads, NEW a \in Adapters, NEW up \in UsePoolArgs, GetStart(a, t, up) PROVE TypeOK'
  BY <1>23 DEF GetStart, Goto
<1>24. ASSUME NEW t \in Threads, CloseCursor(t) \/ CloseCursorRaises(t) PROVE TypeOK'
  BY <1>24 DEF CloseCursor, CloseCursorRaises, BeforeCursor, Goto
<1>25. ASSUME NEW t \in Threads, NEW a \in Adapters, NEW act \in CloseActions, NEW really_ \in ReallyArgs, CloseCall(a, t, act, really_) PROVE TypeOK'
  BY <1>25 DEF CloseCall, ActionSucceeds, WorkAfter, Goto, Breaks
<1>26. ASSUME NEW c \in Conns, Die(c) \/ Collect(c) PROVE TypeOK'
  BY <1>26 DEF Die, Collect
<1> QED
  BY <1>0, <1>1, <1>2, <1>3, <1>4, <1>5, <1>6, <1>7, <1>8, <1>9, <1>10, <1>11, <1>12, <1>13, <1>14, <1>15, <1>16, <1>17, <1>18, <1>19, <1>20, <1>21, <1>22, <1>23, <1>24, <1>25, <1>26 DEF Next, Call, Step, LockStep, Environment

\* Every step keeps the lock's book-keeping.
LEMMA LockStepBalanced == TypeOK /\ LockBalanced /\ [Next]_vars => LockBalanced'
<1> SUFFICES ASSUME TypeOK, LockBalanced, [Next]_vars PROVE LockBalanced'
  OBVIOUS
<1> USE NoneAssumption DEF TypeOK, LockBalanced, Critical,
        poolVars, lockVars, callVars, slotVars, connVars, hookVars
<1>1. ASSUME NEW t \in Threads, BeginDefine(t) PROVE LockBalanced'
  BY <1>1 DEF BeginDefine, Lock, CanLock
<1>2. ASSUME NEW t \in Threads, EndDefine(t) PROVE LockBalanced'
  BY <1>2 DEF EndDefine, Unlock
<1>3. ASSUME NEW t \in Threads, NEW a \in Adapters, GetBound(a, t) PROVE LockBalanced'
  BY <1>3 DEF GetBound
<1>4. ASSUME NEW t \in Threads, NEW a \in Adapters, NEW up \in UsePoolArgs, GetStart(a, t, up) PROVE LockBalanced'
  BY <1>4 DEF GetStart, Goto
<1>5. ASSUME NEW t \in Threads, GetLock(t) PROVE LockBalanced'
  BY <1>5 DEF GetLock, Lock, CanLock, Goto
<1>6. ASSUME NEW t \in Threads, Pop(t) PROVE LockBalanced'
  BY <1>6 DEF Pop, Goto
<1>7. ASSUME NEW t \in Threads, PoolExhausted(t) PROVE LockBalanced'
  BY <1>7 DEF PoolExhausted, Unlock, Goto
<1>8. ASSUME NEW t \in Threads, VetPasses(t) PROVE LockBalanced'
  BY <1>8 DEF VetPasses, Unlock, Goto
<1>9. ASSUME NEW t \in Threads, VetFails(t) PROVE LockBalanced'
  BY <1>9 DEF VetFails, Goto
<1>10. ASSUME NEW t \in Threads, NEW c \in Conns, Connect(t, c) PROVE LockBalanced'
  BY <1>10 DEF Connect, Goto
<1>11. ASSUME NEW t \in Threads, ConnectFails(t) PROVE LockBalanced'
  BY <1>11 DEF ConnectFails, Goto
<1>12. ASSUME NEW t \in Threads, HookTest(t) PROVE LockBalanced'
  BY <1>12 DEF HookTest, Goto
<1>13. ASSUME NEW t \in Threads, FirstHookDone(t) PROVE LockBalanced'
  BY <1>13 DEF FirstHookDone, Goto
<1>14. ASSUME NEW t \in Threads, Initialised(t) PROVE LockBalanced'
  BY <1>14 DEF Initialised, Goto
<1>15. ASSUME NEW t \in Threads, InitialiseFails(t) PROVE LockBalanced'
  BY <1>15 DEF InitialiseFails, Goto
<1>16. ASSUME NEW t \in Threads, NEW a \in Adapters, DoWork(a, t) PROVE LockBalanced'
  BY <1>16 DEF DoWork
<1>17. ASSUME NEW t \in Threads, NEW a \in Adapters, ResetCursor(a, t) PROVE LockBalanced'
  BY <1>17 DEF ResetCursor
<1>18. ASSUME NEW t \in Threads, NEW a \in Adapters, NEW act \in CloseActions, NEW rl \in ReallyArgs, CloseCall(a, t, act, rl) PROVE LockBalanced'
  BY <1>18 DEF CloseCall, Goto
<1>19. ASSUME NEW t \in Threads, CloseCursor(t) \/ CloseCursorRaises(t) PROVE LockBalanced'
  BY <1>19 DEF CloseCursor, CloseCursorRaises, BeforeCursor, Goto
<1>20. ASSUME NEW t \in Threads, CloseKeyError(t) PROVE LockBalanced'
  BY <1>20 DEF CloseKeyError, Goto
<1>21. ASSUME NEW t \in Threads, CloseFull(t) PROVE LockBalanced'
  BY <1>21 DEF CloseFull, Goto
<1>22. ASSUME NEW t \in Threads, CloseRoom(t) PROVE LockBalanced'
  BY <1>22 DEF CloseRoom, Lock, CanLock, Goto
<1>23. ASSUME NEW t \in Threads, Recycle(t) PROVE LockBalanced'
  BY <1>23 DEF Recycle, Unlock, Goto
<1>24. ASSUME NEW t \in Threads, Unset(t) PROVE LockBalanced'
  BY <1>24 DEF Unset, Goto
<1>25. ASSUME NEW t \in Threads, Discard(t) PROVE LockBalanced'
  BY <1>25 DEF Discard, Goto
<1>26. ASSUME NEW c \in Conns, Die(c) \/ Collect(c) PROVE LockBalanced'
  BY <1>26 DEF Die, Collect
<1>27. CASE UNCHANGED vars
  BY <1>27 DEF vars
<1> QED
  BY <1>1, <1>2, <1>3, <1>4, <1>5, <1>6, <1>7, <1>8, <1>9, <1>10, <1>11, <1>12, <1>13, <1>14, <1>15, <1>16, <1>17, <1>18, <1>19, <1>20, <1>21, <1>22, <1>23, <1>24, <1>25, <1>26, <1>27 DEF Next, Call, Step, LockStep, Environment

\* The length tested under the lock still holds at the append, because whoever
\* is between the two holds the lock.
LEMMA RoomStep ==
  TypeOK /\ LockBalanced /\ Bound /\ RoomAtAppend /\ PoolBound /\ [Next]_vars
    => RoomAtAppend' /\ PoolBound'
<1> SUFFICES ASSUME TypeOK, LockBalanced, Bound, RoomAtAppend, PoolBound, [Next]_vars
             PROVE  RoomAtAppend' /\ PoolBound'
  OBVIOUS
<1> USE PoolSizeAssumption DEF TypeOK, RoomAtAppend, PoolBound, HasRoom, Clients,
        poolVars, lockVars, callVars, slotVars, connVars, hookVars
<1>1. ASSUME NEW t \in Threads, BeginDefine(t) PROVE RoomAtAppend' /\ PoolBound'
  BY <1>1 DEF BeginDefine
<1>2. ASSUME NEW t \in Threads, EndDefine(t) PROVE RoomAtAppend' /\ PoolBound'
  BY <1>2 DEF EndDefine
<1>3. ASSUME NEW t \in Threads, NEW a \in Adapters, GetBound(a, t) PROVE RoomAtAppend' /\ PoolBound'
  BY <1>3 DEF GetBound
<1>4. ASSUME NEW t \in Threads, NEW a \in Adapters, NEW up \in UsePoolArgs, GetStart(a, t, up) PROVE RoomAtAppend' /\ PoolBound'
  BY <1>4 DEF GetStart, Goto
<1>5. ASSUME NEW t \in Threads, GetLock(t) PROVE RoomAtAppend' /\ PoolBound'
  BY <1>5 DEF GetLock, Goto
<1>6. ASSUME NEW t \in Threads, Pop(t) PROVE RoomAtAppend' /\ PoolBound'
  <2>1. pool \in Seq(Conns) /\ pool # <<>> /\ pool' = Front(pool)
    BY <1>6 DEF Pop
  <2>2. Len(pool) \in Nat \ {0} /\ Len(pool') = Len(pool) - 1
    BY <2>1, PopLemma
  <2> QED
    BY <1>6, <2>2 DEF Pop, Goto
<1>7. ASSUME NEW t \in Threads, PoolExhausted(t) PROVE RoomAtAppend' /\ PoolBound'
  BY <1>7 DEF PoolExhausted, Goto
<1>8. ASSUME NEW t \in Threads, VetPasses(t) PROVE RoomAtAppend' /\ PoolBound'
  BY <1>8 DEF VetPasses, Goto
<1>9. ASSUME NEW t \in Threads, VetFails(t) PROVE RoomAtAppend' /\ PoolBound'
  BY <1>9 DEF VetFails, Goto
<1>10. ASSUME NEW t \in Threads, NEW c \in Conns, Connect(t, c) PROVE RoomAtAppend' /\ PoolBound'
  BY <1>10 DEF Connect, Goto
<1>11. ASSUME NEW t \in Threads, ConnectFails(t) PROVE RoomAtAppend' /\ PoolBound'
  BY <1>11 DEF ConnectFails, Goto
<1>12. ASSUME NEW t \in Threads, HookTest(t) PROVE RoomAtAppend' /\ PoolBound'
  BY <1>12 DEF HookTest, Goto
<1>13. ASSUME NEW t \in Threads, FirstHookDone(t) PROVE RoomAtAppend' /\ PoolBound'
  BY <1>13 DEF FirstHookDone, Goto
<1>14. ASSUME NEW t \in Threads, Initialised(t) PROVE RoomAtAppend' /\ PoolBound'
  BY <1>14 DEF Initialised, Goto
<1>15. ASSUME NEW t \in Threads, InitialiseFails(t) PROVE RoomAtAppend' /\ PoolBound'
  BY <1>15 DEF InitialiseFails, Goto
<1>16. ASSUME NEW t \in Threads, NEW a \in Adapters, DoWork(a, t) PROVE RoomAtAppend' /\ PoolBound'
  BY <1>16 DEF DoWork
<1>17. ASSUME NEW t \in Threads, NEW a \in Adapters, ResetCursor(a, t) PROVE RoomAtAppend' /\ PoolBound'
  BY <1>17 DEF ResetCursor
<1>18. ASSUME NEW t \in Threads, NEW a \in Adapters, NEW act \in CloseActions, NEW rl \in ReallyArgs, CloseCall(a, t, act, rl) PROVE RoomAtAppend' /\ PoolBound'
  BY <1>18 DEF CloseCall, Goto
<1>19. ASSUME NEW t \in Threads, CloseCursor(t) \/ CloseCursorRaises(t) PROVE RoomAtAppend' /\ PoolBound'
  BY <1>19 DEF CloseCursor, CloseCursorRaises, BeforeCursor, Goto
<1>20. ASSUME NEW t \in Threads, CloseKeyError(t) PROVE RoomAtAppend' /\ PoolBound'
  BY <1>20 DEF CloseKeyError, Goto
<1>21. ASSUME NEW t \in Threads, CloseFull(t) PROVE RoomAtAppend' /\ PoolBound'
  BY <1>21 DEF CloseFull, Goto
<1>22. ASSUME NEW t \in Threads, CloseRoom(t) PROVE RoomAtAppend' /\ PoolBound'
  BY <1>22 DEF CloseRoom, Lock, CanLock, Goto
<1>23. ASSUME NEW t \in Threads, Recycle(t) PROVE RoomAtAppend' /\ PoolBound'
  <2>1. Len(pool) \in Nat /\ Len(pool') = Len(pool) + 1
    BY <1>23, LenProperties, AppendProperties DEF Recycle, Bound, InCall
  <2>2. \A u \in Threads : pc[u] = "append" => u = t
    BY <1>23 DEF Recycle, LockBalanced, Critical
  <2>3. Len(pool) < PoolSize[cur[t]]
    BY <1>23 DEF Recycle
  <2>4. PoolSize[cur[t]] \in Nat /\ Len(pool') <= PoolSize[cur[t]]
    BY <2>1, <2>3
  <2>5. PoolBound'
    BY <2>4
  <2> QED
    BY <1>23, <2>2, <2>5 DEF Recycle, Goto
<1>24. ASSUME NEW t \in Threads, Unset(t) PROVE RoomAtAppend' /\ PoolBound'
  BY <1>24 DEF Unset, Goto
<1>25. ASSUME NEW t \in Threads, Discard(t) PROVE RoomAtAppend' /\ PoolBound'
  BY <1>25 DEF Discard, Goto
<1>26. ASSUME NEW c \in Conns, Die(c) \/ Collect(c) PROVE RoomAtAppend' /\ PoolBound'
  BY <1>26 DEF Die, Collect
<1>27. CASE UNCHANGED vars
  BY <1>27 DEF vars
<1> QED
  BY <1>1, <1>2, <1>3, <1>4, <1>5, <1>6, <1>7, <1>8, <1>9, <1>10, <1>11, <1>12, <1>13, <1>14, <1>15, <1>16, <1>17, <1>18, <1>19, <1>20, <1>21, <1>22, <1>23, <1>24, <1>25, <1>26, <1>27 DEF Next, Call, Step, LockStep, Environment

\* What a thread's place in its call says about its slot.
LEMMA PlaceStep ==
  TypeOK /\ Bound /\ NotYetLent /\ LentIsOwned /\ [Next]_vars
    => Bound' /\ NotYetLent' /\ LentIsOwned'
<1> DEFINE Place == Bound /\ NotYetLent /\ LentIsOwned
<1> SUFFICES ASSUME TypeOK, Place, [Next]_vars
             PROVE  Place'
  OBVIOUS
<1> USE NoneAssumption DEF TypeOK, Clients, Owns, InCall, Bound, NotYetLent, LentIsOwned,
        poolVars, lockVars, callVars, slotVars, connVars, hookVars
<1>1. ASSUME NEW t \in Threads, BeginDefine(t) PROVE Place'
  BY <1>1 DEF BeginDefine
<1>2. ASSUME NEW t \in Threads, EndDefine(t) PROVE Place'
  BY <1>2 DEF EndDefine
<1>3. ASSUME NEW t \in Threads, NEW a \in Adapters, GetBound(a, t) PROVE Place'
  BY <1>3 DEF GetBound
<1>4. ASSUME NEW t \in Threads, NEW a \in Adapters, NEW up \in UsePoolArgs, GetStart(a, t, up) PROVE Place'
  BY <1>4 DEF GetStart, Goto
<1>5. ASSUME NEW t \in Threads, GetLock(t) PROVE Place'
  BY <1>5 DEF GetLock, Goto
<1>6. ASSUME NEW t \in Threads, Pop(t) PROVE Place'
  <2>1. pool \in Seq(Conns) /\ pool # <<>> /\ pool' = Front(pool)
    BY <1>6 DEF Pop
  <2>2. Last(pool) \in Conns
    BY <2>1, PopLemma
  <2> QED
    BY <1>6, <2>2 DEF Pop, Goto
<1>7. ASSUME NEW t \in Threads, PoolExhausted(t) PROVE Place'
  BY <1>7 DEF PoolExhausted, Goto
<1>8. ASSUME NEW t \in Threads, VetPasses(t) PROVE Place'
  BY <1>8 DEF VetPasses, Goto
<1>9. ASSUME NEW t \in Threads, VetFails(t) PROVE Place'
  BY <1>9 DEF VetFails, Goto
<1>10. ASSUME NEW t \in Threads, NEW c \in Conns, Connect(t, c) PROVE Place'
  BY <1>10 DEF Connect, Goto
<1>11. ASSUME NEW t \in Threads, ConnectFails(t) PROVE Place'
  BY <1>11 DEF ConnectFails, Goto
<1>12. ASSUME NEW t \in Threads, HookTest(t) PROVE Place'
  BY <1>12 DEF HookTest, Goto
<1>13. ASSUME NEW t \in Threads, FirstHookDone(t) PROVE Place'
  BY <1>13 DEF FirstHookDone, Goto
<1>14. ASSUME NEW t \in Threads, Initialised(t) PROVE Place'
  BY <1>14 DEF Initialised, Goto
<1>15. ASSUME NEW t \in Threads, InitialiseFails(t) PROVE Place'
  BY <1>15 DEF InitialiseFails, Goto
<1>16. ASSUME NEW t \in Threads, NEW a \in Adapters, DoWork(a, t) PROVE Place'
  BY <1>16 DEF DoWork
<1>17. ASSUME NEW t \in Threads, NEW a \in Adapters, ResetCursor(a, t) PROVE Place'
  BY <1>17 DEF ResetCursor
<1>18. ASSUME NEW t \in Threads, NEW a \in Adapters, NEW act \in CloseActions, NEW rl \in ReallyArgs, CloseCall(a, t, act, rl) PROVE Place'
  <2>1. /\ pc[t] = "idle" /\ slot[<<a, t>>] # NoConn /\ slot' = slot /\ lent' = lent
        /\ cur' = [cur EXCEPT ![t] = a]
    BY <1>18 DEF CloseCall
  <2>2. pc'[t] \in {"closepooled", "closeunpooled"} /\ \A u \in Threads : u # t => pc'[u] = pc[u]
    BY <1>18 DEF CloseCall, Goto
  <2>3. /\ cur'[t] = a /\ slot'[<<a, t>>] # NoConn
        /\ \A u \in Threads : u # t => cur'[u] = cur[u]
    BY <2>1
  <2>4. Bound' /\ NotYetLent'
    BY <2>1, <2>2, <2>3
  <2>5. LentIsOwned'
    BY <2>1, <2>2, <2>3
  <2> QED
    BY <2>4, <2>5
<1>19. ASSUME NEW t \in Threads, CloseCursor(t) \/ CloseCursorRaises(t) PROVE Place'
  BY <1>19 DEF CloseCursor, CloseCursorRaises, BeforeCursor, Goto
<1>20. ASSUME NEW t \in Threads, CloseKeyError(t) PROVE Place'
  BY <1>20 DEF CloseKeyError, Goto
<1>21. ASSUME NEW t \in Threads, CloseFull(t) PROVE Place'
  BY <1>21 DEF CloseFull, Goto
<1>22. ASSUME NEW t \in Threads, CloseRoom(t) PROVE Place'
  BY <1>22 DEF CloseRoom, Goto
<1>23. ASSUME NEW t \in Threads, Recycle(t) PROVE Place'
  BY <1>23 DEF Recycle, Goto
<1>24. ASSUME NEW t \in Threads, Unset(t) PROVE Place'
  BY <1>24 DEF Unset, EmptySlot, Goto
<1>25. ASSUME NEW t \in Threads, Discard(t) PROVE Place'
  BY <1>25 DEF Discard, EmptySlot, Goto
<1>26. ASSUME NEW c \in Conns, Die(c) \/ Collect(c) PROVE Place'
  BY <1>26 DEF Die, Collect
<1>27. CASE UNCHANGED vars
  BY <1>27 DEF vars
<1> QED
  BY <1>1, <1>2, <1>3, <1>4, <1>5, <1>6, <1>7, <1>8, <1>9, <1>10, <1>11, <1>12, <1>13, <1>14, <1>15, <1>16, <1>17, <1>18, <1>19, <1>20, <1>21, <1>22, <1>23, <1>24, <1>25, <1>26, <1>27 DEF Next, Call, Step, LockStep, Environment

\* A step that gives nobody a connection and opens or closes none.
LEMMA Undisturbed ==
  ASSUME TypeOK, Excl, pool' = pool, conn' = conn,
         \A b \in Adapters, u \in Threads :
           Owns(b, u)' => Owns(b, u) /\ slot'[<<b, u>>] = slot[<<b, u>>]
  PROVE  Excl'
BY DEF Excl, OwnersDiffer, OwnedIsNotFree, FreeOnce, NewIsNowhere

\* A client that takes a connection neither owned nor left in the free-list.
LEMMA Taken ==
  ASSUME Excl, NEW a \in Adapters, NEW t \in Threads, NEW c,
         slot'[<<a, t>>] = c, conn'[c] # "new",
         \A b \in Adapters, u \in Threads :
           Owns(b, u)' /\ ~(b = a /\ u = t)
             => /\ Owns(b, u) /\ slot'[<<b, u>>] = slot[<<b, u>>]
                /\ slot[<<b, u>>] # c,
         \A i \in DOMAIN pool' : i \in DOMAIN pool /\ pool'[i] = pool[i] /\ pool'[i] # c,
         \A b \in Adapters, u \in Threads :
           conn[slot[<<b, u>>]] # "new" => conn'[slot[<<b, u>>]] # "new",
         \A i \in DOMAIN pool : conn[pool[i]] # "new" => conn'[pool[i]] # "new"
  PROVE  Excl'
<1>1. OwnersDiffer'
  BY DEF Excl, OwnersDiffer
<1>2. OwnedIsNotFree'
  BY DEF Excl, OwnedIsNotFree
<1>3. FreeOnce'
  BY DEF Excl, FreeOnce
<1>4. NewIsNowhere'
  BY DEF Excl, NewIsNowhere
<1> QED
  BY <1>1, <1>2, <1>3, <1>4 DEF Excl

\* A connection moves between owners only through the free-list, and a fresh
\* one is nobody's.
LEMMA ExclStep == TypeOK /\ Bound /\ Excl /\ [Next]_vars => Excl'
<1> SUFFICES ASSUME TypeOK, Bound, Excl, [Next]_vars
             PROVE  Excl'
  OBVIOUS
<1> USE NoneAssumption DEF TypeOK, Clients, Owns, Excl,
        OwnersDiffer, OwnedIsNotFree, FreeOnce, NewIsNowhere,
        poolVars, lockVars, callVars, slotVars, connVars, hookVars
<1>1. ASSUME NEW t \in Threads, BeginDefine(t) PROVE Excl'
  <2>1. /\ pool' = pool /\ conn' = conn
        /\ \A b \in Adapters, u \in Threads :
             Owns(b, u)' => Owns(b, u) /\ slot'[<<b, u>>] = slot[<<b, u>>]
    BY <1>1 DEF BeginDefine
  <2> QED
    BY <2>1, Undisturbed
<1>2. ASSUME NEW t \in Threads, EndDefine(t) PROVE Excl'
  <2>1. /\ pool' = pool /\ conn' = conn
        /\ \A b \in Adapters, u \in Threads :
             Owns(b, u)' => Owns(b, u) /\ slot'[<<b, u>>] = slot[<<b, u>>]
    BY <1>2 DEF EndDefine
  <2> QED
    BY <2>1, Undisturbed
<1>3. ASSUME NEW t \in Threads, NEW a \in Adapters, GetBound(a, t) PROVE Excl'
  <2>1. /\ pool' = pool /\ conn' = conn
        /\ \A b \in Adapters, u \in Threads :
             Owns(b, u)' => Owns(b, u) /\ slot'[<<b, u>>] = slot[<<b, u>>]
    BY <1>3 DEF GetBound
  <2> QED
    BY <2>1, Undisturbed
<1>4. ASSUME NEW t \in Threads, NEW a \in Adapters, NEW up \in UsePoolArgs, GetStart(a, t, up) PROVE Excl'
  <2>1. /\ pool' = pool /\ conn' = conn
        /\ \A b \in Adapters, u \in Threads :
             Owns(b, u)' => Owns(b, u) /\ slot'[<<b, u>>] = slot[<<b, u>>]
    BY <1>4 DEF GetStart, Goto
  <2> QED
    BY <2>1, Undisturbed
<1>5. ASSUME NEW t \in Threads, GetLock(t) PROVE Excl'
  <2>1. /\ pool' = pool /\ conn' = conn
        /\ \A b \in Adapters, u \in Threads :
             Owns(b, u)' => Owns(b, u) /\ slot'[<<b, u>>] = slot[<<b, u>>]
    BY <1>5 DEF GetLock, Goto
  <2> QED
    BY <2>1, Undisturbed
<1>6. ASSUME NEW t \in Threads, Pop(t) PROVE Excl'
  <2>1. /\ pool \in Seq(Conns) /\ pool # <<>> /\ pool' = Front(pool)
        /\ pc[t] = "pop" /\ cur' = cur /\ conn' = conn
        /\ slot' = [slot EXCEPT ![<<cur[t], t>>] = Last(pool)]
        /\ pc' = [pc EXCEPT ![t] = "vet"]
    BY <1>6 DEF Pop, Goto
  <2>2. /\ Len(pool) \in Nat \ {0} /\ pool' \in Seq(Conns) /\ Len(pool') = Len(pool) - 1
        /\ Last(pool) \in Conns /\ Last(pool) = pool[Len(pool)]
        /\ \A i \in 1 .. Len(pool) - 1 : pool'[i] = pool[i]
    <3>1. /\ Len(pool) \in Nat \ {0} /\ Front(pool) \in Seq(Conns)
          /\ Last(pool) \in Conns /\ Last(pool) = pool[Len(pool)]
          /\ Len(Front(pool)) = Len(pool) - 1
          /\ \A i \in 1 .. Len(pool) - 1 : Front(pool)[i] = pool[i]
      <4>1. pool \in Seq(Conns) /\ pool # <<>>
        BY <2>1
      <4> QED
        BY <4>1, PopLemma, ZenonT(60)
    <3>2. pool' = Front(pool)
      BY <2>1
    <3> QED
      BY <3>1, <3>2, SMTT(60)
  <2>3. /\ DOMAIN pool = 1 .. Len(pool) /\ DOMAIN pool' = 1 .. Len(pool) - 1
        /\ Len(pool) \in DOMAIN pool /\ Len(pool) \notin DOMAIN pool'
        /\ \A i \in DOMAIN pool' : i \in DOMAIN pool /\ pool'[i] = pool[i] /\ i # Len(pool)
    <3>1. DOMAIN pool = 1 .. Len(pool)
      BY <2>1, LenProperties
    <3>2. DOMAIN pool' = 1 .. Len(pool) - 1
      BY <2>2, LenProperties
    <3> QED
      BY <2>2, <3>1, <3>2
  <2>4. \A b \in Adapters, u \in Threads : Owns(b, u) => slot[<<b, u>>] # Last(pool)
    BY <2>2, <2>3
  <2>5. \A b \in Adapters, u \in Threads :
          Owns(b, u)' /\ ~(b = cur[t] /\ u = t)
            => /\ Owns(b, u) /\ slot'[<<b, u>>] = slot[<<b, u>>]
               /\ slot[<<b, u>>] # Last(pool)
    BY <2>1, <2>4
  <2>6. \A i \in DOMAIN pool' : i \in DOMAIN pool /\ pool'[i] = pool[i] /\ pool'[i] # Last(pool)
    BY <2>2, <2>3
  <2>7. slot'[<<cur[t], t>>] = Last(pool) /\ conn'[Last(pool)] # "new"
    BY <2>1, <2>2, <2>3
  <2>8. cur[t] \in Adapters /\ conn' = conn
    BY <2>1
  <2> HIDE DEF TypeOK, Clients, Owns, Excl, OwnersDiffer, OwnedIsNotFree, FreeOnce, NewIsNowhere
  <2> QED
    BY <2>5, <2>6, <2>7, <2>8, Taken
<1>7. ASSUME NEW t \in Threads, PoolExhausted(t) PROVE Excl'
  <2>1. /\ pool' = pool /\ conn' = conn
        /\ \A b \in Adapters, u \in Threads :
             Owns(b, u)' => Owns(b, u) /\ slot'[<<b, u>>] = slot[<<b, u>>]
    BY <1>7 DEF PoolExhausted, Goto
  <2> QED
    BY <2>1, Undisturbed
<1>8. ASSUME NEW t \in Threads, VetPasses(t) PROVE Excl'
  <2>1. /\ pool' = pool /\ conn' = conn
        /\ \A b \in Adapters, u \in Threads :
             Owns(b, u)' => Owns(b, u) /\ slot'[<<b, u>>] = slot[<<b, u>>]
    BY <1>8 DEF VetPasses, Goto
  <2> QED
    BY <2>1, Undisturbed
<1>9. ASSUME NEW t \in Threads, VetFails(t) PROVE Excl'
  <2>1. /\ pool' = pool /\ conn' = conn
        /\ \A b \in Adapters, u \in Threads :
             Owns(b, u)' => Owns(b, u) /\ slot'[<<b, u>>] = slot[<<b, u>>]
    BY <1>9 DEF VetFails, Goto
  <2> QED
    BY <2>1, Undisturbed
<1>10. ASSUME NEW t \in Threads, NEW c \in Conns, Connect(t, c) PROVE Excl'
  <2>1. /\ pc[t] = "connect" /\ cur' = cur /\ conn[c] = "new" /\ pool' = pool
        /\ conn' = [conn EXCEPT ![c] = "live"]
        /\ slot' = [slot EXCEPT ![<<cur[t], t>>] = c]
        /\ pc' = [pc EXCEPT ![t] = "hooks"]
    BY <1>10 DEF Connect, Goto
  <2>2. \A b \in Adapters, u \in Threads :
          Owns(b, u)' /\ ~(b = cur[t] /\ u = t)
            => Owns(b, u) /\ slot'[<<b, u>>] = slot[<<b, u>>] /\ slot[<<b, u>>] # c
    BY <2>1
  <2>3. slot'[<<cur[t], t>>] = c /\ \A i \in DOMAIN pool : pool[i] # c
    BY <2>1
  <2>4. \A i \in DOMAIN pool : pool[i] \in Conns
    BY ElementOfSeq, LenProperties
  <2> QED
    BY <2>1, <2>2, <2>3, <2>4
<1>11. ASSUME NEW t \in Threads, ConnectFails(t) PROVE Excl'
  <2>1. /\ pool' = pool /\ conn' = conn
        /\ \A b \in Adapters, u \in Threads :
             Owns(b, u)' => Owns(b, u) /\ slot'[<<b, u>>] = slot[<<b, u>>]
    BY <1>11 DEF ConnectFails, Goto
  <2> QED
    BY <2>1, Undisturbed
<1>12. ASSUME NEW t \in Threads, HookTest(t) PROVE Excl'
  <2>1. /\ pool' = pool /\ conn' = conn
        /\ \A b \in Adapters, u \in Threads :
             Owns(b, u)' => Owns(b, u) /\ slot'[<<b, u>>] = slot[<<b, u>>]
    BY <1>12 DEF HookTest, Goto
  <2> QED
    BY <2>1, Undisturbed
<1>13. ASSUME NEW t \in Threads, FirstHookDone(t) PROVE Excl'
  <2>1. /\ pool' = pool /\ conn' = conn
        /\ \A b \in Adapters, u \in Threads :
             Owns(b, u)' => Owns(b, u) /\ slot'[<<b, u>>] = slot[<<b, u>>]
    BY <1>13 DEF FirstHookDone, Goto
  <2> QED
    BY <2>1, Undisturbed
<1>14. ASSUME NEW t \in Threads, Initialised(t) PROVE Excl'
  <2>1. /\ pool' = pool /\ conn' = conn
        /\ \A b \in Adapters, u \in Threads :
             Owns(b, u)' => Owns(b, u) /\ slot'[<<b, u>>] = slot[<<b, u>>]
    BY <1>14 DEF Initialised, Goto
  <2> QED
    BY <2>1, Undisturbed
<1>15. ASSUME NEW t \in Threads, InitialiseFails(t) PROVE Excl'
  <2>1. /\ pool' = pool /\ conn' = conn
        /\ \A b \in Adapters, u \in Threads :
             Owns(b, u)' => Owns(b, u) /\ slot'[<<b, u>>] = slot[<<b, u>>]
    BY <1>15 DEF InitialiseFails, Goto
  <2> QED
    BY <2>1, Undisturbed
<1>16. ASSUME NEW t \in Threads, NEW a \in Adapters, DoWork(a, t) PROVE Excl'
  <2>1. /\ pool' = pool /\ conn' = conn
        /\ \A b \in Adapters, u \in Threads :
             Owns(b, u)' => Owns(b, u) /\ slot'[<<b, u>>] = slot[<<b, u>>]
    BY <1>16 DEF DoWork
  <2> QED
    BY <2>1, Undisturbed
<1>17. ASSUME NEW t \in Threads, NEW a \in Adapters, ResetCursor(a, t) PROVE Excl'
  <2>1. /\ pool' = pool /\ conn' = conn
        /\ \A b \in Adapters, u \in Threads :
             Owns(b, u)' => Owns(b, u) /\ slot'[<<b, u>>] = slot[<<b, u>>]
    BY <1>17 DEF ResetCursor
  <2> QED
    BY <2>1, Undisturbed
<1>18. ASSUME NEW t \in Threads, NEW a \in Adapters, NEW act \in CloseActions, NEW rl \in ReallyArgs, CloseCall(a, t, act, rl) PROVE Excl'
  <2>1. /\ pool' = pool /\ conn' = conn
        /\ \A b \in Adapters, u \in Threads :
             Owns(b, u)' => Owns(b, u) /\ slot'[<<b, u>>] = slot[<<b, u>>]
    BY <1>18 DEF CloseCall, Goto
  <2> QED
    BY <2>1, Undisturbed
<1>19. ASSUME NEW t \in Threads, CloseCursor(t) \/ CloseCursorRaises(t) PROVE Excl'
  <2>1. /\ pool' = pool /\ conn' = conn
        /\ \A b \in Adapters, u \in Threads :
             Owns(b, u)' => Owns(b, u) /\ slot'[<<b, u>>] = slot[<<b, u>>]
    BY <1>19 DEF CloseCursor, CloseCursorRaises, BeforeCursor, Goto
  <2> QED
    BY <2>1, Undisturbed
<1>20. ASSUME NEW t \in Threads, CloseKeyError(t) PROVE Excl'
  <2>1. /\ pool' = pool /\ conn' = conn
        /\ \A b \in Adapters, u \in Threads :
             Owns(b, u)' => Owns(b, u) /\ slot'[<<b, u>>] = slot[<<b, u>>]
    BY <1>20 DEF CloseKeyError, Goto
  <2> QED
    BY <2>1, Undisturbed
<1>21. ASSUME NEW t \in Threads, CloseFull(t) PROVE Excl'
  <2>1. /\ pool' = pool /\ conn' = conn
        /\ \A b \in Adapters, u \in Threads :
             Owns(b, u)' => Owns(b, u) /\ slot'[<<b, u>>] = slot[<<b, u>>]
    BY <1>21 DEF CloseFull, Goto
  <2> QED
    BY <2>1, Undisturbed
<1>22. ASSUME NEW t \in Threads, CloseRoom(t) PROVE Excl'
  <2>1. /\ pool' = pool /\ conn' = conn
        /\ \A b \in Adapters, u \in Threads :
             Owns(b, u)' => Owns(b, u) /\ slot'[<<b, u>>] = slot[<<b, u>>]
    BY <1>22 DEF CloseRoom, Goto
  <2> QED
    BY <2>1, Undisturbed
<1>23. ASSUME NEW t \in Threads, Recycle(t) PROVE Excl'
  <2> DEFINE c == slot[<<cur[t], t>>]
  <2>1. /\ pc[t] = "append" /\ cur' = cur /\ conn' = conn /\ slot' = slot
        /\ pool' = Append(pool, c) /\ pc' = [pc EXCEPT ![t] = "unset"]
    BY <1>23 DEF Recycle, Goto
  <2>2. c \in Conns /\ Owns(cur[t], t)
    BY <2>1 DEF Bound, InCall
  <2>3. /\ Len(pool) \in Nat /\ pool' \in Seq(Conns) /\ Len(pool') = Len(pool) + 1
        /\ pool'[Len(pool) + 1] = c
        /\ \A i \in 1 .. Len(pool) : pool'[i] = pool[i]
    BY <2>1, <2>2, LenProperties, AppendProperties
  <2>4. /\ DOMAIN pool = 1 .. Len(pool)
        /\ \A i \in DOMAIN pool' : \/ i \in DOMAIN pool /\ pool'[i] = pool[i]
                                   \/ i = Len(pool) + 1 /\ pool'[i] = c
    BY <2>3, LenProperties
  <2>5. \A b \in Adapters, u \in Threads :
          Owns(b, u)' => Owns(b, u) /\ ~(b = cur[t] /\ u = t)
    BY <2>1
  <2>6. \A b \in Adapters, u \in Threads : Owns(b, u)' => slot[<<b, u>>] # c
    BY <2>2, <2>5
  <2>7. \A i \in DOMAIN pool : pool[i] # c
    BY <2>2
  <2>8. OwnersDiffer' /\ OwnedIsNotFree'
    BY <2>1, <2>4, <2>5, <2>6
  <2>9. FreeOnce'
    BY <2>4, <2>7
  <2>10. NewIsNowhere'
    BY <2>1, <2>2, <2>4, <2>5
  <2> QED
    BY <2>8, <2>9, <2>10
<1>24. ASSUME NEW t \in Threads, Unset(t) PROVE Excl'
  <2>1. /\ pool' = pool /\ conn' = conn
        /\ \A b \in Adapters, u \in Threads :
             Owns(b, u)' => Owns(b, u) /\ slot'[<<b, u>>] = slot[<<b, u>>]
    BY <1>24 DEF Unset, EmptySlot, Goto
  <2> QED
    BY <2>1, Undisturbed
<1>25. ASSUME NEW t \in Threads, Discard(t) PROVE Excl'
  <2> DEFINE c == slot[<<cur[t], t>>]
  <2>1. /\ pc[t] = "discard" /\ cur' = cur /\ pool' = pool
        /\ slot' = [slot EXCEPT ![<<cur[t], t>>] = NoConn]
        /\ \A d \in Conns : conn'[d] # conn[d] => d = c
        /\ pc' = [pc EXCEPT ![t] = "idle"]
    <3>1. /\ pc[t] = "discard" /\ cur' = cur /\ pool' = pool
          /\ slot' = [slot EXCEPT ![<<cur[t], t>>] = NoConn]
          /\ pc' = [pc EXCEPT ![t] = "idle"]
      BY <1>25 DEF Discard, EmptySlot, Goto
    <3>2. conn' = [conn EXCEPT ![c] = "new"] \/ conn' = conn
      BY <1>25 DEF Discard
    <3>3. \A d \in Conns : conn'[d] # conn[d] => d = c
      <4> SUFFICES ASSUME NEW d \in Conns, d # c PROVE conn'[d] = conn[d]
        OBVIOUS
      <4>1. CASE conn' = conn
        BY <4>1
      <4>2. CASE conn' = [conn EXCEPT ![c] = "new"]
        BY <4>2
      <4> QED
        BY <3>2, <4>1, <4>2
    <3> QED
      BY <3>1, <3>3
  <2>2. c \in Conns /\ Owns(cur[t], t)
    BY <2>1 DEF Bound, InCall
  <2>3. \A b \in Adapters, u \in Threads :
          Owns(b, u)' => /\ Owns(b, u) /\ ~(b = cur[t] /\ u = t)
                         /\ slot'[<<b, u>>] = slot[<<b, u>>] /\ slot[<<b, u>>] # c
    BY <2>1, <2>2
  <2>4. \A i \in DOMAIN pool : pool[i] \in Conns /\ pool[i] # c
    BY <2>2, ElementOfSeq, LenProperties
  <2>5. OwnersDiffer' /\ OwnedIsNotFree'
    BY <2>1, <2>3
  <2>6. FreeOnce'
    BY <2>1
  <2>7. \A b \in Adapters, u \in Threads : Owns(b, u)' => slot[<<b, u>>] \in Conns
    BY <2>3 DEF Bound, InCall
  <2>8. \A b \in Adapters, u \in Threads : Owns(b, u)' => conn'[slot'[<<b, u>>]] # "new"
    <3> SUFFICES ASSUME NEW b \in Adapters, NEW u \in Threads, Owns(b, u)'
                 PROVE  conn'[slot'[<<b, u>>]] # "new"
      OBVIOUS
    <3> QED
      BY <2>1, <2>3, <2>7
  <2>9. \A i \in DOMAIN pool' : conn'[pool'[i]] # "new"
    BY <2>1, <2>4
  <2>10. NewIsNowhere'
    BY <2>8, <2>9
  <2> QED
    BY <2>5, <2>6, <2>10
<1>26. ASSUME NEW c \in Conns, Die(c) \/ Collect(c) PROVE Excl'
  <2>1. /\ pool' = pool /\ slot' = slot /\ pc' = pc /\ cur' = cur
        /\ \A d \in Conns : conn[d] # "new" => conn'[d] # "new" \/ (~Reachable(d) /\ d = c)
    BY <1>26 DEF Die, Collect
  <2>2. \A b \in Adapters, u \in Threads : slot[<<b, u>>] = c => Reachable(c)
    BY DEF Reachable
  <2>3. \A i \in DOMAIN pool : pool[i] = c => Reachable(c)
    BY DEF Reachable
  <2>4. \A i \in DOMAIN pool : pool[i] \in Conns
    BY ElementOfSeq, LenProperties
  <2> QED
    BY <2>1, <2>2, <2>3, <2>4
<1>27. CASE UNCHANGED vars
  <2>1. /\ pool' = pool /\ conn' = conn
        /\ \A b \in Adapters, u \in Threads :
             Owns(b, u)' => Owns(b, u) /\ slot'[<<b, u>>] = slot[<<b, u>>]
    BY <1>27 DEF vars
  <2> QED
    BY <2>1, Undisturbed
<1> QED
  BY <1>1, <1>2, <1>3, <1>4, <1>5, <1>6, <1>7, <1>8, <1>9, <1>10, <1>11, <1>12, <1>13, <1>14, <1>15, <1>16, <1>17, <1>18, <1>19, <1>20, <1>21, <1>22, <1>23, <1>24, <1>25, <1>26, <1>27 DEF Next, Call, Step, LockStep, Environment

----------------------------------------------------------------------------
LEMMA InvInit == Init => Inv
<1> SUFFICES ASSUME Init PROVE Inv
  OBVIOUS
<1> USE NoneAssumption, PoolSizeAssumption DEF Init, Clients
<1>1. TypeOK
  BY EmptySeq DEF TypeOK, PCs
<1>2. LockBalanced /\ PoolBound /\ RoomAtAppend
  BY DEF LockBalanced, Critical, PoolBound, RoomAtAppend
<1>3. Bound /\ NotYetLent /\ LentIsOwned
  BY DEF Bound, InCall, NotYetLent, LentIsOwned
<1>4. Excl
  BY DEF Excl, OwnersDiffer, OwnedIsNotFree, FreeOnce, NewIsNowhere, Owns
<1> QED
  BY <1>1, <1>2, <1>3, <1>4 DEF Inv

LEMMA InvStep == Inv /\ [Next]_vars => Inv'
BY TypeStep, LockStepBalanced, RoomStep, PlaceStep, ExclStep DEF Inv

\* The pool's state stays consistent in every reachable state.
THEOREM Invariance == Spec => []Inv
BY InvInit, InvStep, PTL DEF Spec

\* Every variable keeps its type.
THEOREM TypeCorrect == Spec => []TypeOK
BY Invariance, PTL DEF Inv

\* connection.py:7-9: no connection is in two clients' hands, or in a client's
\* hands and in the free-list, or twice in the free-list, for any number of
\* threads and of adapters sharing the pool.
THEOREM ConnectionsAreExclusive == Spec => []Exclusive
<1>1. Inv => Exclusive
  <2> SUFFICES ASSUME Inv PROVE Exclusive
    OBVIOUS
  <2>1. \A a, b \in Adapters, t, u \in Threads :
          lent[<<a, t>>] /\ lent[<<b, u>>] /\ slot[<<a, t>>] = slot[<<b, u>>] => a = b /\ t = u
    BY DEF Inv, LentIsOwned, Excl, OwnersDiffer
  <2>2. \A a \in Adapters, t \in Threads, i \in DOMAIN pool :
          lent[<<a, t>>] => slot[<<a, t>>] # pool[i]
    BY DEF Inv, LentIsOwned, Excl, OwnedIsNotFree
  <2>3. IsInjective(pool)
    BY DEF Inv, Excl, FreeOnce, IsInjective
  <2> QED
    BY <2>1, <2>2, <2>3 DEF Exclusive, Clients
<1> QED
  BY <1>1, Invariance, PTL

\* close's length test under GLOBAL_LOCKER bounds the free-list, also when the
\* adapters sharing it have different pool sizes.
THEOREM PoolIsBounded == Spec => []PoolBound
BY Invariance, PTL DEF Inv

\* Every exit of a locked section gives GLOBAL_LOCKER back.
THEOREM LockIsBalanced == Spec => []LockBalanced
BY Invariance, PTL DEF Inv

----------------------------------------------------------------------------
\* The refinement mapping of ConnectionPool!Lease.
Held == [k \in Clients |-> IF lent[k] THEN slot[k] ELSE NoConn]

\* A connection its client owns but was not given is in nobody's hands.
LEMMA OwnedIsNotHeld ==
  ASSUME TypeOK, LentIsOwned, OwnersDiffer, NEW a \in Adapters, NEW t \in Threads,
         Owns(a, t), ~lent[<<a, t>>]
  PROVE  \A j \in Clients : Held[j] # slot[<<a, t>>]
<1> SUFFICES ASSUME NEW b \in Adapters, NEW u \in Threads, Held[<<b, u>>] = slot[<<a, t>>]
             PROVE  FALSE
  BY DEF Clients
<1>1. <<b, u>> \in Clients /\ slot[<<a, t>>] # NoConn
  BY DEF Clients, Owns
<1>2. lent[<<b, u>>] /\ slot[<<b, u>>] = slot[<<a, t>>]
  BY <1>1 DEF Held
<1>3. Owns(b, u)
  BY <1>2 DEF LentIsOwned
<1> QED
  BY <1>2, <1>3 DEF OwnersDiffer

\* A step of the lease, or none, seen through the mapping.
LendOrReturn ==
  \/ Held' = Held
  \/ \E k \in Clients, c \in Conns :
       /\ Held[k] = NoConn /\ \A j \in Clients : Held[j] # c
       /\ Held' = [Held EXCEPT ![k] = c]
  \/ \E k \in Clients : Held[k] # NoConn /\ Held' = [Held EXCEPT ![k] = NoConn]

\* connection.py implements the lease: get_connection lends a connection nobody
\* holds, the append to the free-list and the discarding of a slot return it,
\* and no other step changes what anybody holds.
THEOREM PoolImplementsLease == Spec => LeaseSpec
<1> USE NoneAssumption DEF Clients
<1>1. Init => Lease!Init
  BY DEF Init, Lease!Init
<1>2. Inv /\ [Next]_vars => LendOrReturn
  <2> SUFFICES ASSUME Inv, [Next]_vars PROVE LendOrReturn
    OBVIOUS
  <2> USE DEF Inv, TypeOK, Excl, poolVars, lockVars, callVars, slotVars, connVars, hookVars
  <2>1. ASSUME NEW t \in Threads, BeginDefine(t) PROVE LendOrReturn
    BY <2>1 DEF BeginDefine, Held, LendOrReturn
  <2>2. ASSUME NEW t \in Threads, EndDefine(t) PROVE LendOrReturn
    BY <2>2 DEF EndDefine, Held, LendOrReturn
  <2>3. ASSUME NEW t \in Threads, NEW a \in Adapters, GetBound(a, t) PROVE LendOrReturn
    <3> DEFINE k == <<a, t>>
    <3>1. k \in Clients /\ slot[k] \in Conns /\ Owns(a, t)
      BY <2>3 DEF GetBound, Owns
    <3>2. CASE lent[k]
      <4>1. Held' = Held
        BY <2>3, <3>2 DEF GetBound, Held
      <4> QED
        BY <4>1 DEF LendOrReturn
    <3>3. CASE ~lent[k]
      <4>1. Held' = [Held EXCEPT ![k] = slot[k]] /\ Held[k] = NoConn
        BY <2>3, <3>1, <3>3 DEF GetBound, Held
      <4>2. \A j \in Clients : Held[j] # slot[k]
        BY <3>1, <3>3, OwnedIsNotHeld
      <4> QED
        BY <3>1, <4>1, <4>2 DEF LendOrReturn
    <3> QED
      BY <3>2, <3>3
  <2>4. ASSUME NEW t \in Threads, NEW a \in Adapters, NEW up \in UsePoolArgs, GetStart(a, t, up) PROVE LendOrReturn
    BY <2>4 DEF GetStart, Held, LendOrReturn
  <2>5. ASSUME NEW t \in Threads, GetLock(t) PROVE LendOrReturn
    BY <2>5 DEF GetLock, Held, LendOrReturn
  <2>6. ASSUME NEW t \in Threads, Pop(t) PROVE LendOrReturn
    <3>1. ~lent[<<cur[t], t>>]
      BY <2>6 DEF Pop, NotYetLent
    <3>2. Held' = Held
      BY <2>6, <3>1 DEF Pop, Held
    <3> QED
      BY <3>2 DEF LendOrReturn
  <2>7. ASSUME NEW t \in Threads, PoolExhausted(t) PROVE LendOrReturn
    BY <2>7 DEF PoolExhausted, Held, LendOrReturn
  <2>8. ASSUME NEW t \in Threads, VetPasses(t) PROVE LendOrReturn
    <3> DEFINE k == <<cur[t], t>>
    <3>1. k \in Clients /\ slot[k] \in Conns /\ Owns(cur[t], t) /\ ~lent[k]
      BY <2>8 DEF VetPasses, Owns, Bound, InCall, NotYetLent
    <3>2. Held' = [Held EXCEPT ![k] = slot[k]] /\ Held[k] = NoConn
      BY <2>8, <3>1 DEF VetPasses, Held
    <3>3. \A j \in Clients : Held[j] # slot[k]
      BY <3>1, OwnedIsNotHeld
    <3> QED
      BY <3>1, <3>2, <3>3 DEF LendOrReturn
  <2>9. ASSUME NEW t \in Threads, VetFails(t) PROVE LendOrReturn
    BY <2>9 DEF VetFails, Held, LendOrReturn
  <2>10. ASSUME NEW t \in Threads, NEW c \in Conns, Connect(t, c) PROVE LendOrReturn
    <3>1. ~lent[<<cur[t], t>>]
      BY <2>10 DEF Connect, NotYetLent
    <3>2. Held' = Held
      BY <2>10, <3>1 DEF Connect, Held
    <3> QED
      BY <3>2 DEF LendOrReturn
  <2>11. ASSUME NEW t \in Threads, ConnectFails(t) PROVE LendOrReturn
    BY <2>11 DEF ConnectFails, Held, LendOrReturn
  <2>12. ASSUME NEW t \in Threads, HookTest(t) PROVE LendOrReturn
    BY <2>12 DEF HookTest, Held, LendOrReturn
  <2>13. ASSUME NEW t \in Threads, FirstHookDone(t) PROVE LendOrReturn
    BY <2>13 DEF FirstHookDone, Held, LendOrReturn
  <2>14. ASSUME NEW t \in Threads, Initialised(t) PROVE LendOrReturn
    <3> DEFINE k == <<cur[t], t>>
    <3>1. k \in Clients /\ slot[k] \in Conns /\ Owns(cur[t], t) /\ ~lent[k]
      BY <2>14 DEF Initialised, Owns, Bound, InCall, NotYetLent
    <3>2. Held' = [Held EXCEPT ![k] = slot[k]] /\ Held[k] = NoConn
      BY <2>14, <3>1 DEF Initialised, Held
    <3>3. \A j \in Clients : Held[j] # slot[k]
      BY <3>1, OwnedIsNotHeld
    <3> QED
      BY <3>1, <3>2, <3>3 DEF LendOrReturn
  <2>15. ASSUME NEW t \in Threads, InitialiseFails(t) PROVE LendOrReturn
    BY <2>15 DEF InitialiseFails, Held, LendOrReturn
  <2>16. ASSUME NEW t \in Threads, NEW a \in Adapters, DoWork(a, t) PROVE LendOrReturn
    BY <2>16 DEF DoWork, Held, LendOrReturn
  <2>17. ASSUME NEW t \in Threads, NEW a \in Adapters, ResetCursor(a, t) PROVE LendOrReturn
    <3> DEFINE k == <<a, t>>
    <3>1. k \in Clients /\ slot[k] \in Conns /\ Owns(a, t)
      BY <2>17 DEF ResetCursor, Owns
    <3>2. CASE lent[k]
      <4>1. Held' = Held
        BY <2>17, <3>2 DEF ResetCursor, Held
      <4> QED
        BY <4>1 DEF LendOrReturn
    <3>3. CASE ~lent[k]
      <4>1. Held' = [Held EXCEPT ![k] = slot[k]] /\ Held[k] = NoConn
        BY <2>17, <3>1, <3>3 DEF ResetCursor, Held
      <4>2. \A j \in Clients : Held[j] # slot[k]
        BY <3>1, <3>3, OwnedIsNotHeld
      <4> QED
        BY <3>1, <4>1, <4>2 DEF LendOrReturn
    <3> QED
      BY <3>2, <3>3
  <2>18. ASSUME NEW t \in Threads, NEW a \in Adapters, NEW act \in CloseActions, NEW rl \in ReallyArgs, CloseCall(a, t, act, rl) PROVE LendOrReturn
    BY <2>18 DEF CloseCall, Held, LendOrReturn
  <2>19. ASSUME NEW t \in Threads, CloseCursor(t) \/ CloseCursorRaises(t) PROVE LendOrReturn
    <3>1. slot' = slot /\ lent' = lent
      BY <2>19 DEF CloseCursor, CloseCursorRaises
    <3> QED
      BY <3>1 DEF Held, LendOrReturn
  <2>20. ASSUME NEW t \in Threads, CloseKeyError(t) PROVE LendOrReturn
    BY <2>20 DEF CloseKeyError, Held, LendOrReturn
  <2>21. ASSUME NEW t \in Threads, CloseFull(t) PROVE LendOrReturn
    BY <2>21 DEF CloseFull, Held, LendOrReturn
  <2>22. ASSUME NEW t \in Threads, CloseRoom(t) PROVE LendOrReturn
    BY <2>22 DEF CloseRoom, Held, LendOrReturn
  <2>23. ASSUME NEW t \in Threads, Recycle(t) PROVE LendOrReturn
    <3> DEFINE k == <<cur[t], t>>
    <3>1. k \in Clients /\ slot[k] \in Conns
      BY <2>23 DEF Recycle, Bound, InCall
    <3>2. Held' = [Held EXCEPT ![k] = NoConn]
      BY <2>23, <3>1 DEF Recycle, Held
    <3>3. CASE Held[k] = NoConn
      <4>1. Held' = Held
        BY <3>1, <3>2, <3>3 DEF Held
      <4> QED
        BY <4>1 DEF LendOrReturn
    <3>4. CASE Held[k] # NoConn
      BY <3>1, <3>2, <3>4 DEF LendOrReturn
    <3> QED
      BY <3>3, <3>4
  <2>24. ASSUME NEW t \in Threads, Unset(t) PROVE LendOrReturn
    <3>1. ~lent[<<cur[t], t>>]
      BY <2>24 DEF Unset, LentIsOwned, Owns
    <3>2. Held' = Held
      BY <2>24, <3>1 DEF Unset, EmptySlot, Held
    <3> QED
      BY <3>2 DEF LendOrReturn
  <2>25. ASSUME NEW t \in Threads, Discard(t) PROVE LendOrReturn
    <3> DEFINE k == <<cur[t], t>>
    <3>1. k \in Clients /\ slot[k] \in Conns
      BY <2>25 DEF Discard, Bound, InCall
    <3>2. Held' = [Held EXCEPT ![k] = NoConn]
      BY <2>25, <3>1 DEF Discard, EmptySlot, Held
    <3>3. CASE Held[k] = NoConn
      <4>1. Held' = Held
        BY <3>1, <3>2, <3>3 DEF Held
      <4> QED
        BY <4>1 DEF LendOrReturn
    <3>4. CASE Held[k] # NoConn
      BY <3>1, <3>2, <3>4 DEF LendOrReturn
    <3> QED
      BY <3>3, <3>4
  <2>26. ASSUME NEW c \in Conns, Die(c) \/ Collect(c) PROVE LendOrReturn
    <3>1. slot' = slot /\ lent' = lent
      BY <2>26 DEF Die, Collect
    <3> QED
      BY <3>1 DEF Held, LendOrReturn
  <2>27. CASE UNCHANGED vars
    <3>1. slot' = slot /\ lent' = lent
      BY <2>27 DEF vars
    <3> QED
      BY <3>1 DEF Held, LendOrReturn
  <2> QED
    BY <2>1, <2>2, <2>3, <2>4, <2>5, <2>6, <2>7, <2>8, <2>9, <2>10, <2>11, <2>12, <2>13, <2>14, <2>15, <2>16, <2>17, <2>18, <2>19, <2>20, <2>21, <2>22, <2>23, <2>24, <2>25, <2>26, <2>27 DEF Next, Call, Step, LockStep, Environment
<1>3. LendOrReturn => [Lease!Next]_Held
  <2>1. CASE \E k \in Clients, c \in Conns :
               /\ Held[k] = NoConn /\ \A j \in Clients : Held[j] # c
               /\ Held' = [Held EXCEPT ![k] = c]
    BY <2>1 DEF Held, Lease!Next, Lease!Lease
  <2>2. CASE \E k \in Clients : Held[k] # NoConn /\ Held' = [Held EXCEPT ![k] = NoConn]
    BY <2>2 DEF Held, Lease!Next, Lease!Return
  <2> QED
    BY <2>1, <2>2 DEF LendOrReturn
<1> QED
  BY <1>1, <1>2, <1>3, Invariance, PTL DEF Spec, LeaseSpec, Lease!Spec, Held

----------------------------------------------------------------------------
\* close is past its action and on the way to the free-list.
Leaving == {"closepooled", "closelock", "append"}

\* No open transaction travels to the free-list or waits in it.
Settled ==
  /\ PooledIsIdle
  /\ \A t \in Threads : pc[t] \in Leaving => work[slot[<<cur[t], t>>]] = "clean"

\* Steps that free nothing, start no transaction and begin no close.
LEMMA Tidy ==
  ASSUME TypeOK, Bound, Settled,
         \A i \in DOMAIN pool' : \E j \in DOMAIN pool : pool'[i] = pool[j],
         \A d \in Conns : work[d] = "clean" => work'[d] = "clean",
         \A u \in Threads : pc'[u] \in Leaving =>
           pc[u] \in Leaving /\ cur'[u] = cur[u] /\ slot'[<<cur[u], u>>] = slot[<<cur[u], u>>]
  PROVE  Settled'
<1>1. \A i \in DOMAIN pool : pool[i] \in Conns
  BY ElementOfSeq, LenProperties DEF TypeOK
<1>2. PooledIsIdle'
  BY <1>1 DEF Settled, PooledIsIdle
<1>3. \A u \in Threads : pc[u] \in Leaving => slot[<<cur[u], u>>] \in Conns
  BY DEF TypeOK, Bound, InCall, Leaving, Clients
<1>4. \A u \in Threads : pc'[u] \in Leaving => work'[slot'[<<cur'[u], u>>]] = "clean"
  BY <1>3 DEF Settled
<1> QED
  BY <1>2, <1>4 DEF Settled

\* When every close commits or rolls back, a transaction ends before its
\* connection is recycled; exclusivity keeps others from opening one meanwhile.
LEMMA SettledStep ==
  ASSUME "none" \notin CloseActions
  PROVE  Inv /\ Settled /\ [Next]_vars => Settled'
<1> SUFFICES ASSUME Inv, Settled, [Next]_vars
             PROVE  Settled'
  OBVIOUS
<1> USE NoneAssumption DEF Inv, TypeOK, Clients, Leaving,
        poolVars, lockVars, callVars, slotVars, connVars, hookVars
<1>1. ASSUME NEW t \in Threads, BeginDefine(t) PROVE Settled'
  <2>1. /\ \A i \in DOMAIN pool' : \E j \in DOMAIN pool : pool'[i] = pool[j]
        /\ \A d \in Conns : work[d] = "clean" => work'[d] = "clean"
        /\ \A u \in Threads : pc'[u] \in Leaving =>
             pc[u] \in Leaving /\ cur'[u] = cur[u] /\ slot'[<<cur[u], u>>] = slot[<<cur[u], u>>]
    BY <1>1 DEF BeginDefine
  <2> QED
    BY <2>1, Tidy
<1>2. ASSUME NEW t \in Threads, EndDefine(t) PROVE Settled'
  <2>1. /\ \A i \in DOMAIN pool' : \E j \in DOMAIN pool : pool'[i] = pool[j]
        /\ \A d \in Conns : work[d] = "clean" => work'[d] = "clean"
        /\ \A u \in Threads : pc'[u] \in Leaving =>
             pc[u] \in Leaving /\ cur'[u] = cur[u] /\ slot'[<<cur[u], u>>] = slot[<<cur[u], u>>]
    BY <1>2 DEF EndDefine
  <2> QED
    BY <2>1, Tidy
<1>3. ASSUME NEW t \in Threads, NEW a \in Adapters, GetBound(a, t) PROVE Settled'
  <2>1. /\ \A i \in DOMAIN pool' : \E j \in DOMAIN pool : pool'[i] = pool[j]
        /\ \A d \in Conns : work[d] = "clean" => work'[d] = "clean"
        /\ \A u \in Threads : pc'[u] \in Leaving =>
             pc[u] \in Leaving /\ cur'[u] = cur[u] /\ slot'[<<cur[u], u>>] = slot[<<cur[u], u>>]
    BY <1>3 DEF GetBound
  <2> QED
    BY <2>1, Tidy
<1>4. ASSUME NEW t \in Threads, NEW a \in Adapters, NEW up \in UsePoolArgs, GetStart(a, t, up) PROVE Settled'
  <2>1. /\ \A i \in DOMAIN pool' : \E j \in DOMAIN pool : pool'[i] = pool[j]
        /\ \A d \in Conns : work[d] = "clean" => work'[d] = "clean"
        /\ \A u \in Threads : pc'[u] \in Leaving =>
             pc[u] \in Leaving /\ cur'[u] = cur[u] /\ slot'[<<cur[u], u>>] = slot[<<cur[u], u>>]
    BY <1>4 DEF GetStart, Goto
  <2> QED
    BY <2>1, Tidy
<1>5. ASSUME NEW t \in Threads, GetLock(t) PROVE Settled'
  <2>1. /\ \A i \in DOMAIN pool' : \E j \in DOMAIN pool : pool'[i] = pool[j]
        /\ \A d \in Conns : work[d] = "clean" => work'[d] = "clean"
        /\ \A u \in Threads : pc'[u] \in Leaving =>
             pc[u] \in Leaving /\ cur'[u] = cur[u] /\ slot'[<<cur[u], u>>] = slot[<<cur[u], u>>]
    BY <1>5 DEF GetLock, Goto
  <2> QED
    BY <2>1, Tidy
<1>6. ASSUME NEW t \in Threads, Pop(t) PROVE Settled'
  <2>1. pool \in Seq(Conns) /\ pool # <<>> /\ pool' = Front(pool)
    BY <1>6 DEF Pop
  <2>2. \A i \in DOMAIN pool' : i \in DOMAIN pool /\ pool'[i] = pool[i]
    <3>1. /\ Len(pool) \in Nat \ {0} /\ pool' \in Seq(Conns) /\ Len(pool') = Len(pool) - 1
          /\ \A i \in 1 .. Len(pool) - 1 : pool'[i] = pool[i]
      BY <2>1, PopLemma
    <3>2. DOMAIN pool = 1 .. Len(pool) /\ DOMAIN pool' = 1 .. Len(pool) - 1
      BY <3>1, LenProperties
    <3> QED
      BY <3>1, <3>2
  <2>3. /\ work' = work /\ cur' = cur
        /\ \A u \in Threads : pc'[u] \in Leaving => pc[u] \in Leaving /\ u # t
        /\ slot' = [slot EXCEPT ![<<cur[t], t>>] = Last(pool)]
    BY <1>6 DEF Pop, Goto
  <2> QED
    BY <2>2, <2>3, Tidy
<1>7. ASSUME NEW t \in Threads, PoolExhausted(t) PROVE Settled'
  <2>1. /\ \A i \in DOMAIN pool' : \E j \in DOMAIN pool : pool'[i] = pool[j]
        /\ \A d \in Conns : work[d] = "clean" => work'[d] = "clean"
        /\ \A u \in Threads : pc'[u] \in Leaving =>
             pc[u] \in Leaving /\ cur'[u] = cur[u] /\ slot'[<<cur[u], u>>] = slot[<<cur[u], u>>]
    BY <1>7 DEF PoolExhausted, Goto
  <2> QED
    BY <2>1, Tidy
<1>8. ASSUME NEW t \in Threads, VetPasses(t) PROVE Settled'
  <2>1. /\ \A i \in DOMAIN pool' : \E j \in DOMAIN pool : pool'[i] = pool[j]
        /\ \A d \in Conns : work[d] = "clean" => work'[d] = "clean"
        /\ \A u \in Threads : pc'[u] \in Leaving =>
             pc[u] \in Leaving /\ cur'[u] = cur[u] /\ slot'[<<cur[u], u>>] = slot[<<cur[u], u>>]
    BY <1>8 DEF VetPasses, Goto
  <2> QED
    BY <2>1, Tidy
<1>9. ASSUME NEW t \in Threads, VetFails(t) PROVE Settled'
  <2>1. /\ \A i \in DOMAIN pool' : \E j \in DOMAIN pool : pool'[i] = pool[j]
        /\ \A d \in Conns : work[d] = "clean" => work'[d] = "clean"
        /\ \A u \in Threads : pc'[u] \in Leaving =>
             pc[u] \in Leaving /\ cur'[u] = cur[u] /\ slot'[<<cur[u], u>>] = slot[<<cur[u], u>>]
    BY <1>9 DEF VetFails, Goto
  <2> QED
    BY <2>1, Tidy
<1>10. ASSUME NEW t \in Threads, NEW c \in Conns, Connect(t, c) PROVE Settled'
  <2>1. /\ \A i \in DOMAIN pool' : \E j \in DOMAIN pool : pool'[i] = pool[j]
        /\ \A d \in Conns : work[d] = "clean" => work'[d] = "clean"
        /\ \A u \in Threads : pc'[u] \in Leaving =>
             pc[u] \in Leaving /\ cur'[u] = cur[u] /\ slot'[<<cur[u], u>>] = slot[<<cur[u], u>>]
    BY <1>10 DEF Connect, Goto
  <2> QED
    BY <2>1, Tidy
<1>11. ASSUME NEW t \in Threads, ConnectFails(t) PROVE Settled'
  <2>1. /\ \A i \in DOMAIN pool' : \E j \in DOMAIN pool : pool'[i] = pool[j]
        /\ \A d \in Conns : work[d] = "clean" => work'[d] = "clean"
        /\ \A u \in Threads : pc'[u] \in Leaving =>
             pc[u] \in Leaving /\ cur'[u] = cur[u] /\ slot'[<<cur[u], u>>] = slot[<<cur[u], u>>]
    BY <1>11 DEF ConnectFails, Goto
  <2> QED
    BY <2>1, Tidy
<1>12. ASSUME NEW t \in Threads, HookTest(t) PROVE Settled'
  <2>1. /\ \A i \in DOMAIN pool' : \E j \in DOMAIN pool : pool'[i] = pool[j]
        /\ \A d \in Conns : work[d] = "clean" => work'[d] = "clean"
        /\ \A u \in Threads : pc'[u] \in Leaving =>
             pc[u] \in Leaving /\ cur'[u] = cur[u] /\ slot'[<<cur[u], u>>] = slot[<<cur[u], u>>]
    BY <1>12 DEF HookTest, Goto
  <2> QED
    BY <2>1, Tidy
<1>13. ASSUME NEW t \in Threads, FirstHookDone(t) PROVE Settled'
  <2>1. /\ \A i \in DOMAIN pool' : \E j \in DOMAIN pool : pool'[i] = pool[j]
        /\ \A d \in Conns : work[d] = "clean" => work'[d] = "clean"
        /\ \A u \in Threads : pc'[u] \in Leaving =>
             pc[u] \in Leaving /\ cur'[u] = cur[u] /\ slot'[<<cur[u], u>>] = slot[<<cur[u], u>>]
    BY <1>13 DEF FirstHookDone, Goto
  <2> QED
    BY <2>1, Tidy
<1>14. ASSUME NEW t \in Threads, Initialised(t) PROVE Settled'
  <2>1. /\ \A i \in DOMAIN pool' : \E j \in DOMAIN pool : pool'[i] = pool[j]
        /\ \A d \in Conns : work[d] = "clean" => work'[d] = "clean"
        /\ \A u \in Threads : pc'[u] \in Leaving =>
             pc[u] \in Leaving /\ cur'[u] = cur[u] /\ slot'[<<cur[u], u>>] = slot[<<cur[u], u>>]
    BY <1>14 DEF Initialised, Goto
  <2> QED
    BY <2>1, Tidy
<1>15. ASSUME NEW t \in Threads, InitialiseFails(t) PROVE Settled'
  <2>1. /\ \A i \in DOMAIN pool' : \E j \in DOMAIN pool : pool'[i] = pool[j]
        /\ \A d \in Conns : work[d] = "clean" => work'[d] = "clean"
        /\ \A u \in Threads : pc'[u] \in Leaving =>
             pc[u] \in Leaving /\ cur'[u] = cur[u] /\ slot'[<<cur[u], u>>] = slot[<<cur[u], u>>]
    BY <1>15 DEF InitialiseFails, Goto
  <2> QED
    BY <2>1, Tidy
<1>16. ASSUME NEW t \in Threads, NEW a \in Adapters, DoWork(a, t) PROVE Settled'
  <2> DEFINE c == slot[<<a, t>>]
  <2>1. /\ pool' = pool /\ slot' = slot /\ pc' = pc /\ cur' = cur /\ pc[t] = "idle"
        /\ Owns(a, t) /\ \A d \in Conns : d # c => work'[d] = work[d]
    BY <1>16 DEF DoWork, LentIsOwned
  <2>2. \A i \in DOMAIN pool : pool[i] \in Conns /\ pool[i] # c
    BY <2>1, ElementOfSeq, LenProperties DEF Excl, OwnedIsNotFree
  <2>3. \A u \in Threads : pc[u] \in Leaving =>
          /\ Owns(cur[u], u) /\ u # t
          /\ slot[<<cur[u], u>>] \in Conns /\ slot[<<cur[u], u>>] # c
    BY <2>1 DEF Bound, InCall, Owns, Excl, OwnersDiffer
  <2>4. PooledIsIdle'
    BY <2>1, <2>2 DEF Settled, PooledIsIdle
  <2>5. \A u \in Threads : pc'[u] \in Leaving => work'[slot'[<<cur'[u], u>>]] = "clean"
    BY <2>1, <2>3 DEF Settled
  <2> QED
    BY <2>4, <2>5 DEF Settled
<1>17. ASSUME NEW t \in Threads, NEW a \in Adapters, ResetCursor(a, t) PROVE Settled'
  <2>1. /\ \A i \in DOMAIN pool' : \E j \in DOMAIN pool : pool'[i] = pool[j]
        /\ \A d \in Conns : work[d] = "clean" => work'[d] = "clean"
        /\ \A u \in Threads : pc'[u] \in Leaving =>
             pc[u] \in Leaving /\ cur'[u] = cur[u] /\ slot'[<<cur[u], u>>] = slot[<<cur[u], u>>]
    BY <1>17 DEF ResetCursor
  <2> QED
    BY <2>1, Tidy
<1>18. ASSUME NEW t \in Threads, NEW a \in Adapters, NEW act \in CloseActions, NEW rl \in ReallyArgs, CloseCall(a, t, act, rl) PROVE Settled'
  <2> DEFINE c == slot[<<a, t>>]
  <2>1. /\ pool' = pool /\ slot' = slot /\ cur' = [cur EXCEPT ![t] = a]
        /\ pc[t] = "idle" /\ c \in Conns /\ act # "none"
        /\ \A u \in Threads : u # t => pc'[u] = pc[u]
    BY <1>18 DEF CloseCall, Goto
  <2>2. /\ \A d \in Conns : work[d] = "clean" => work'[d] = "clean"
        /\ pc'[t] \in Leaving => work'[c] = "clean"
    BY <1>18, <2>1 DEF CloseCall, WorkAfter, Goto
  <2>3. PooledIsIdle'
    BY <2>1, <2>2, ElementOfSeq, LenProperties DEF Settled, PooledIsIdle
  <2>4. \A u \in Threads : pc[u] \in Leaving => slot[<<cur[u], u>>] \in Conns
    BY DEF Bound, InCall
  <2>5. \A u \in Threads : pc'[u] \in Leaving => work'[slot'[<<cur'[u], u>>]] = "clean"
    BY <2>1, <2>2, <2>4 DEF Settled
  <2> QED
    BY <2>3, <2>5 DEF Settled
<1>19. ASSUME NEW t \in Threads, CloseCursor(t) \/ CloseCursorRaises(t) PROVE Settled'
  <2>1. /\ \A i \in DOMAIN pool' : \E j \in DOMAIN pool : pool'[i] = pool[j]
        /\ \A d \in Conns : work[d] = "clean" => work'[d] = "clean"
        /\ \A u \in Threads : pc'[u] \in Leaving =>
             pc[u] \in Leaving /\ cur'[u] = cur[u] /\ slot'[<<cur[u], u>>] = slot[<<cur[u], u>>]
    BY <1>19 DEF CloseCursor, CloseCursorRaises, BeforeCursor, Goto
  <2> QED
    BY <2>1, Tidy
<1>20. ASSUME NEW t \in Threads, CloseKeyError(t) PROVE Settled'
  <2>1. /\ \A i \in DOMAIN pool' : \E j \in DOMAIN pool : pool'[i] = pool[j]
        /\ \A d \in Conns : work[d] = "clean" => work'[d] = "clean"
        /\ \A u \in Threads : pc'[u] \in Leaving =>
             pc[u] \in Leaving /\ cur'[u] = cur[u] /\ slot'[<<cur[u], u>>] = slot[<<cur[u], u>>]
    BY <1>20 DEF CloseKeyError, Goto
  <2> QED
    BY <2>1, Tidy
<1>21. ASSUME NEW t \in Threads, CloseFull(t) PROVE Settled'
  <2>1. /\ \A i \in DOMAIN pool' : \E j \in DOMAIN pool : pool'[i] = pool[j]
        /\ \A d \in Conns : work[d] = "clean" => work'[d] = "clean"
        /\ \A u \in Threads : pc'[u] \in Leaving =>
             pc[u] \in Leaving /\ cur'[u] = cur[u] /\ slot'[<<cur[u], u>>] = slot[<<cur[u], u>>]
    BY <1>21 DEF CloseFull, Goto
  <2> QED
    BY <2>1, Tidy
<1>22. ASSUME NEW t \in Threads, CloseRoom(t) PROVE Settled'
  <2>1. /\ \A i \in DOMAIN pool' : \E j \in DOMAIN pool : pool'[i] = pool[j]
        /\ \A d \in Conns : work[d] = "clean" => work'[d] = "clean"
        /\ \A u \in Threads : pc'[u] \in Leaving =>
             pc[u] \in Leaving /\ cur'[u] = cur[u] /\ slot'[<<cur[u], u>>] = slot[<<cur[u], u>>]
    BY <1>22 DEF CloseRoom, Goto
  <2> QED
    BY <2>1, Tidy
<1>23. ASSUME NEW t \in Threads, Recycle(t) PROVE Settled'
  <2> DEFINE c == slot[<<cur[t], t>>]
  <2>1. /\ pool' = Append(pool, c) /\ slot' = slot /\ cur' = cur /\ work' = work
        /\ pc[t] = "append" /\ pc' = [pc EXCEPT ![t] = "unset"]
    BY <1>23 DEF Recycle, Goto
  <2>2. c \in Conns /\ work[c] = "clean"
    BY <2>1 DEF Bound, InCall, Settled
  <2>3. \A i \in DOMAIN pool' : pool'[i] = c \/ (i \in DOMAIN pool /\ pool'[i] = pool[i])
    BY <2>1, <2>2, AppendProperties, LenProperties
  <2>4. PooledIsIdle'
    BY <2>1, <2>2, <2>3 DEF Settled, PooledIsIdle
  <2> QED
    BY <2>1, <2>4 DEF Settled
<1>24. ASSUME NEW t \in Threads, Unset(t) PROVE Settled'
  <2>1. /\ \A i \in DOMAIN pool' : \E j \in DOMAIN pool : pool'[i] = pool[j]
        /\ \A d \in Conns : work[d] = "clean" => work'[d] = "clean"
        /\ \A u \in Threads : pc'[u] \in Leaving =>
             pc[u] \in Leaving /\ cur'[u] = cur[u] /\ slot'[<<cur[u], u>>] = slot[<<cur[u], u>>]
    BY <1>24 DEF Unset, EmptySlot, Goto
  <2> QED
    BY <2>1, Tidy
<1>25. ASSUME NEW t \in Threads, Discard(t) PROVE Settled'
  <2>1. /\ \A i \in DOMAIN pool' : \E j \in DOMAIN pool : pool'[i] = pool[j]
        /\ \A d \in Conns : work[d] = "clean" => work'[d] = "clean"
        /\ \A u \in Threads : pc'[u] \in Leaving =>
             pc[u] \in Leaving /\ cur'[u] = cur[u] /\ slot'[<<cur[u], u>>] = slot[<<cur[u], u>>]
    BY <1>25 DEF Discard, EmptySlot, Goto
  <2> QED
    BY <2>1, Tidy
<1>26. ASSUME NEW c \in Conns, Die(c) \/ Collect(c) PROVE Settled'
  <2>1. /\ \A i \in DOMAIN pool' : \E j \in DOMAIN pool : pool'[i] = pool[j]
        /\ \A d \in Conns : work[d] = "clean" => work'[d] = "clean"
        /\ \A u \in Threads : pc'[u] \in Leaving =>
             pc[u] \in Leaving /\ cur'[u] = cur[u] /\ slot'[<<cur[u], u>>] = slot[<<cur[u], u>>]
    BY <1>26 DEF Die, Collect
  <2> QED
    BY <2>1, Tidy
<1>27. CASE UNCHANGED vars
  <2>1. /\ \A i \in DOMAIN pool' : \E j \in DOMAIN pool : pool'[i] = pool[j]
        /\ \A d \in Conns : work[d] = "clean" => work'[d] = "clean"
        /\ \A u \in Threads : pc'[u] \in Leaving =>
             pc[u] \in Leaving /\ cur'[u] = cur[u] /\ slot'[<<cur[u], u>>] = slot[<<cur[u], u>>]
    BY <1>27 DEF vars
  <2> QED
    BY <2>1, Tidy
<1> QED
  BY <1>1, <1>2, <1>3, <1>4, <1>5, <1>6, <1>7, <1>8, <1>9, <1>10, <1>11, <1>12, <1>13, <1>14, <1>15, <1>16, <1>17, <1>18, <1>19, <1>20, <1>21, <1>22, <1>23, <1>24, <1>25, <1>26, <1>27 DEF Next, Call, Step, LockStep, Environment

\* connection.py:126-135: with closes that commit or roll back, the commit that
\* ends every checkout finds no statement of an earlier borrower to commit.
THEOREM NoTransactionInPool ==
  ASSUME "none" \notin CloseActions
  PROVE  Spec => []PooledIsIdle
<1>1. Init => Settled
  BY DEF Init, Settled, PooledIsIdle, Leaving
<1>2. Inv /\ Settled /\ [Next]_vars => Settled'
  BY SettledStep
<1>3. Settled => PooledIsIdle
  BY DEF Settled
<1> QED
  BY <1>1, <1>2, <1>3, Invariance, PTL DEF Spec

----------------------------------------------------------------------------
\* A client that keeps its connection does so because the cursor could not be
\* closed or the free-list is not there.
KeptFor(t) ==
  LET k == <<cur[t], t>>
  IN  \/ BeforeCursor(t) /\ Unclosable(k)
      \/ pc[t] = "closelock" /\ ~known

\* The ways out of close that leave the slot bound are its two exceptions.
LEMMA UnbindStep ==
  ASSUME Inv, [Next]_vars
  PROVE  UNCHANGED vars \/
         \A u \in Threads :
           Closing(u) /\ pc'[u] = "idle" /\ slot'[<<cur[u], u>>] # NoConn => KeptFor(u)
<1> DEFINE Unbound == \A u \in Threads :
             Closing(u) /\ pc'[u] = "idle" /\ slot'[<<cur[u], u>>] # NoConn => KeptFor(u)
<1> SUFFICES UNCHANGED vars \/ Unbound
  OBVIOUS
<1> USE NoneAssumption
    DEF Inv, TypeOK, Clients, Closing, BeforeCursor, KeptFor, poolVars, lockVars, callVars, slotVars, connVars, hookVars
<1>1. ASSUME NEW t \in Threads, BeginDefine(t)
      PROVE  Unbound
  BY <1>1 DEF BeginDefine, Lock
<1>2. ASSUME NEW t \in Threads, EndDefine(t)
      PROVE  Unbound
  BY <1>2 DEF EndDefine, Unlock
<1>3. ASSUME NEW t \in Threads, NEW a \in Adapters, GetBound(a, t)
      PROVE  Unbound
  BY <1>3 DEF GetBound
<1>4. ASSUME NEW t \in Threads, NEW a \in Adapters, NEW up \in UsePoolArgs, GetStart(a, t, up)
      PROVE  Unbound
  BY <1>4 DEF GetStart, Goto
<1>5. ASSUME NEW t \in Threads, GetLock(t)
      PROVE  Unbound
  BY <1>5 DEF GetLock, Lock, Goto
<1>6. ASSUME NEW t \in Threads, Pop(t)
      PROVE  Unbound
  BY <1>6 DEF Pop, Goto
<1>7. ASSUME NEW t \in Threads, PoolExhausted(t)
      PROVE  Unbound
  BY <1>7 DEF PoolExhausted, Unlock, Goto
<1>8. ASSUME NEW t \in Threads, VetPasses(t)
      PROVE  Unbound
  BY <1>8 DEF VetPasses, Unlock, Goto
<1>9. ASSUME NEW t \in Threads, VetFails(t)
      PROVE  Unbound
  BY <1>9 DEF VetFails, Goto
<1>10. ASSUME NEW t \in Threads, NEW c \in Conns, Connect(t, c)
      PROVE  Unbound
  BY <1>10 DEF Connect, Goto
<1>11. ASSUME NEW t \in Threads, ConnectFails(t)
      PROVE  Unbound
  BY <1>11 DEF ConnectFails, Goto
<1>12. ASSUME NEW t \in Threads, HookTest(t)
      PROVE  Unbound
  BY <1>12 DEF HookTest, Goto
<1>13. ASSUME NEW t \in Threads, FirstHookDone(t)
      PROVE  Unbound
  BY <1>13 DEF FirstHookDone, Goto
<1>14. ASSUME NEW t \in Threads, Initialised(t)
      PROVE  Unbound
  BY <1>14 DEF Initialised, Goto
<1>15. ASSUME NEW t \in Threads, InitialiseFails(t)
      PROVE  Unbound
  BY <1>15 DEF InitialiseFails, Goto
<1>16. ASSUME NEW t \in Threads, NEW a \in Adapters, DoWork(a, t)
      PROVE  Unbound
  BY <1>16 DEF DoWork
<1>17. ASSUME NEW t \in Threads, NEW a \in Adapters, ResetCursor(a, t)
      PROVE  Unbound
  BY <1>17 DEF ResetCursor
<1>18. ASSUME NEW t \in Threads, NEW a \in Adapters, NEW act \in CloseActions, NEW close \in ReallyArgs, CloseCall(a, t, act, close)
      PROVE  Unbound
  BY <1>18 DEF CloseCall, Goto
<1>19. ASSUME NEW t \in Threads, CloseCursor(t) \/ CloseCursorRaises(t)
      PROVE  Unbound
  BY <1>19 DEF CloseCursor, CloseCursorRaises, Goto
<1>20. ASSUME NEW t \in Threads, CloseKeyError(t)
      PROVE  Unbound
  BY <1>20 DEF CloseKeyError, Goto
<1>21. ASSUME NEW t \in Threads, CloseFull(t)
      PROVE  Unbound
  BY <1>21 DEF CloseFull, Goto
<1>22. ASSUME NEW t \in Threads, CloseRoom(t)
      PROVE  Unbound
  BY <1>22 DEF CloseRoom, Lock, Goto
<1>23. ASSUME NEW t \in Threads, Recycle(t)
      PROVE  Unbound
  BY <1>23 DEF Recycle, Unlock, Goto
<1>24. ASSUME NEW t \in Threads, Unset(t)
      PROVE  Unbound
  BY <1>24 DEF Unset, EmptySlot, Goto
<1>25. ASSUME NEW t \in Threads, Discard(t)
      PROVE  Unbound
  BY <1>25 DEF Discard, EmptySlot, Goto
<1>26. ASSUME NEW c \in Conns, Die(c)
      PROVE  Unbound
  BY <1>26 DEF Die
<1>27. ASSUME NEW c \in Conns, Collect(c)
      PROVE  Unbound
  BY <1>27 DEF Collect
<1> QED
  BY <1>1, <1>2, <1>3, <1>4, <1>5, <1>6, <1>7, <1>8, <1>9, <1>10, <1>11,
     <1>12, <1>13, <1>14, <1>15, <1>16, <1>17, <1>18, <1>19, <1>20, <1>21,
     <1>22, <1>23, <1>24, <1>25, <1>26, <1>27
     DEF Next, Call, Step, LockStep, Environment

\* connection.py:212, "Always unset the thread-local slots": for any number of
\* threads and adapters a close that ends leaves its client without connection,
\* unless it raised at line 192 or 197; what the client then keeps is its own.
THEOREM ClosesUnbind == Spec => CloseUnbinds
<1> DEFINE Unbinds == \A t \in Threads :
                        LET k == <<cur[t], t>>
                        IN  Closing(t) /\ pc'[t] = "idle" /\ slot'[k] # NoConn
                              => /\ \/ BeforeCursor(t) /\ Unclosable(k)
                                    \/ pc[t] = "closelock" /\ ~known
                                 /\ \A i \in DOMAIN pool' : pool'[i] # slot'[k]
<1>1. ASSUME Inv, Inv', [Next]_vars
      PROVE  UNCHANGED vars \/ Unbinds
  <2> SUFFICES ASSUME ~ UNCHANGED vars, NEW t \in Threads, Closing(t),
                      pc'[t] = "idle", slot'[<<cur[t], t>>] # NoConn
               PROVE  KeptFor(t) /\ \A i \in DOMAIN pool' : pool'[i] # slot'[<<cur[t], t>>]
    BY DEF KeptFor
  <2>1. KeptFor(t)
    BY <1>1, UnbindStep
  <2>2. cur[t] \in Adapters
    BY <1>1 DEF Inv, TypeOK
  <2>3. \A i \in DOMAIN pool' : pool'[i] # slot'[<<cur[t], t>>]
    BY <1>1, <2>2 DEF Inv, Excl, OwnedIsNotFree, Owns
  <2> QED
    BY <2>1, <2>3
<1> QED
  BY <1>1, Invariance, PTL DEF Spec, CloseUnbinds

----------------------------------------------------------------------------
\* Threads that have found _first_connection unset and are to run the hook.
Running(a) == {t \in Threads : pc[t] = "firsthook" /\ cur[t] = a}

\* Once the flag is set nobody starts the hook any more: each run of it was, or
\* will be, by one of the threads that had found it unset.
HooksCounted ==
  /\ \A a \in Adapters : ~ first[a] => firstRuns[a] = 0
  /\ \A a \in Adapters :
       first[a] => firstRuns[a] + Cardinality(Running(a)) <= Cardinality(Threads)

\* Threads are as many as there are, now and after a step.
LEMMA RunningIsFinite ==
  ASSUME IsFiniteSet(Threads), NEW a
  PROVE  /\ IsFiniteSet(Running(a)) /\ Cardinality(Running(a)) \in Nat
         /\ IsFiniteSet(Running(a)') /\ Cardinality(Running(a)') \in Nat
         /\ Cardinality(Threads) \in Nat
<1>1. Running(a) \in SUBSET Threads /\ Running(a)' \in SUBSET Threads
  BY DEF Running
<1> QED
  BY <1>1, FS_Subset, FS_CardinalityType

\* Steps that complete no hook, and start one only where the flag is unset.
LEMMA CountStays ==
  ASSUME IsFiniteSet(Threads), TypeOK, HooksCounted, UNCHANGED hookVars,
         \A u \in Threads : pc'[u] = "firsthook" =>
           \/ pc[u] = "firsthook" /\ cur'[u] = cur[u]
           \/ ~ first[cur'[u]]
  PROVE  HooksCounted'
<1>1. first' = first /\ firstRuns' = firstRuns
  BY DEF hookVars
<1>2. ASSUME NEW a \in Adapters, first[a]
      PROVE  firstRuns[a] + Cardinality(Running(a)') <= Cardinality(Threads)
  <2>1. Running(a)' \in SUBSET Running(a)
    BY <1>2 DEF Running
  <2>2. IsFiniteSet(Running(a)) /\ Cardinality(Running(a)) \in Nat
        /\ Cardinality(Running(a)') \in Nat /\ Cardinality(Threads) \in Nat
    BY RunningIsFinite
  <2>3. Cardinality(Running(a)') <= Cardinality(Running(a))
    BY <2>1, <2>2, FS_Subset
  <2>4. firstRuns[a] \in Nat
    BY DEF TypeOK
  <2> QED
    BY <1>2, <2>2, <2>3, <2>4 DEF HooksCounted
<1> QED
  BY <1>1, <1>2 DEF HooksCounted

\* A thread that completes the hook is counted once instead of as one to come.
LEMMA FirstHookDoneCounts ==
  ASSUME IsFiniteSet(Threads), TypeOK, HooksCounted, NEW t \in Threads, FirstHookDone(t)
  PROVE  HooksCounted'
<1> PICK a \in Adapters : a = cur[t]
  BY DEF TypeOK
<1>1. /\ first'[a] /\ firstRuns'[a] = firstRuns[a] + 1
      /\ \A b \in Adapters : b # a => first'[b] = first[b] /\ firstRuns'[b] = firstRuns[b]
  BY DEF TypeOK, FirstHookDone
<1>2. pc[t] = "firsthook" /\ cur' = cur /\ pc' = [pc EXCEPT ![t] = "initialise"]
  BY DEF FirstHookDone, Goto
<1>3. \A b : Running(b)' \in SUBSET (Running(b) \ {t})
  BY <1>2 DEF Running, TypeOK
<1>4. t \in Running(a)
  BY <1>2 DEF Running
<1>5. \A b \in Adapters : firstRuns[b] \in Nat
  BY DEF TypeOK
<1>6. firstRuns[a] + 1 + Cardinality(Running(a)') <= Cardinality(Threads)
  <2>1. /\ IsFiniteSet(Running(a)) /\ Cardinality(Running(a)) \in Nat
        /\ Cardinality(Running(a)') \in Nat /\ Cardinality(Threads) \in Nat
    BY RunningIsFinite
  <2>2. IsFiniteSet(Running(a) \ {t}) /\ Cardinality(Running(a) \ {t}) = Cardinality(Running(a)) - 1
    BY <1>4, <2>1, FS_RemoveElement
  <2>3. Cardinality(Running(a)') <= Cardinality(Running(a)) - 1
    BY <1>3, <2>2, FS_Subset
  <2>4. CASE first[a]
    BY <1>5, <2>1, <2>3, <2>4 DEF HooksCounted
  <2>5. CASE ~ first[a]
    <3>1. Running(a) \in SUBSET Threads
      BY DEF Running
    <3>2. Cardinality(Running(a)) <= Cardinality(Threads)
      BY <3>1, FS_Subset
    <3>3. firstRuns[a] = 0
      BY <2>5 DEF HooksCounted
    <3> QED
      BY <2>1, <2>3, <3>2, <3>3
  <2> QED
    BY <2>4, <2>5
<1>7. ASSUME NEW b \in Adapters, b # a, first[b]
      PROVE  firstRuns[b] + Cardinality(Running(b)') <= Cardinality(Threads)
  <2>1. /\ IsFiniteSet(Running(b)) /\ Cardinality(Running(b)) \in Nat
        /\ Cardinality(Running(b)') \in Nat /\ Cardinality(Threads) \in Nat
    BY RunningIsFinite
  <2>2. Running(b)' \in SUBSET Running(b)
    BY <1>3
  <2>3. Cardinality(Running(b)') <= Cardinality(Running(b))
    BY <2>1, <2>2, FS_Subset
  <2> QED
    BY <1>5, <1>7, <2>1, <2>3 DEF HooksCounted
<1>8. \A b \in Adapters : ~ first'[b] => firstRuns'[b] = 0
  BY <1>1 DEF HooksCounted
<1>9. \A b \in Adapters :
        first'[b] => firstRuns'[b] + Cardinality(Running(b)') <= Cardinality(Threads)
  BY <1>1, <1>6, <1>7
<1> QED
  BY <1>8, <1>9 DEF HooksCounted

\* No other step completes a hook, and HookTest starts none where the flag is set.
LEMMA HooksStep ==
  ASSUME IsFiniteSet(Threads)
  PROVE  Inv /\ HooksCounted /\ [Next]_vars => HooksCounted'
<1> SUFFICES ASSUME Inv, HooksCounted, [Next]_vars
             PROVE  HooksCounted'
  OBVIOUS
<1> DEFINE Same == /\ UNCHANGED hookVars
                   /\ \A u \in Threads : pc'[u] = "firsthook" =>
                        \/ pc[u] = "firsthook" /\ cur'[u] = cur[u]
                        \/ ~ first[cur'[u]]
<1> SUFFICES Same \/ \E t \in Threads : FirstHookDone(t)
  BY CountStays, FirstHookDoneCounts DEF Inv
<1> USE DEF Inv, TypeOK, poolVars, lockVars, callVars, slotVars, connVars, hookVars
<1>1. ASSUME NEW t \in Threads, BeginDefine(t)
      PROVE  Same
  BY <1>1 DEF BeginDefine, Lock
<1>2. ASSUME NEW t \in Threads, EndDefine(t)
      PROVE  Same
  BY <1>2 DEF EndDefine, Unlock
<1>3. ASSUME NEW t \in Threads, NEW a \in Adapters, GetBound(a, t)
      PROVE  Same
  BY <1>3 DEF GetBound
<1>4. ASSUME NEW t \in Threads, NEW a \in Adapters, NEW up \in UsePoolArgs, GetStart(a, t, up)
      PROVE  Same
  BY <1>4 DEF GetStart, Goto
<1>5. ASSUME NEW t \in Threads, GetLock(t)
      PROVE  Same
  BY <1>5 DEF GetLock, Lock, Goto
<1>6. ASSUME NEW t \in Threads, Pop(t)
      PROVE  Same
  BY <1>6 DEF Pop, Goto
<1>7. ASSUME NEW t \in Threads, PoolExhausted(t)
      PROVE  Same
  BY <1>7 DEF PoolExhausted, Unlock, Goto
<1>8. ASSUME NEW t \in Threads, VetPasses(t)
      PROVE  Same
  BY <1>8 DEF VetPasses, Unlock, Goto
<1>9. ASSUME NEW t \in Threads, VetFails(t)
      PROVE  Same
  BY <1>9 DEF VetFails, Goto
<1>10. ASSUME NEW t \in Threads, NEW c \in Conns, Connect(t, c)
      PROVE  Same
  BY <1>10 DEF Connect, Goto
<1>11. ASSUME NEW t \in Threads, ConnectFails(t)
      PROVE  Same
  BY <1>11 DEF ConnectFails, Goto
<1>12. ASSUME NEW t \in Threads, HookTest(t)
      PROVE  Same
  BY <1>12 DEF HookTest, Goto
<1>14. ASSUME NEW t \in Threads, Initialised(t)
      PROVE  Same
  BY <1>14 DEF Initialised, Goto
<1>15. ASSUME NEW t \in Threads, InitialiseFails(t)
      PROVE  Same
  BY <1>15 DEF InitialiseFails, Goto
<1>16. ASSUME NEW t \in Threads, NEW a \in Adapters, DoWork(a, t)
      PROVE  Same
  BY <1>16 DEF DoWork
<1>17. ASSUME NEW t \in Threads, NEW a \in Adapters, ResetCursor(a, t)
      PROVE  Same
  BY <1>17 DEF ResetCursor
<1>18. ASSUME NEW t \in Threads, NEW a \in Adapters, NEW act \in CloseActions, NEW close \in ReallyArgs, CloseCall(a, t, act, close)
      PROVE  Same
  BY <1>18 DEF CloseCall, Goto
<1>19. ASSUME NEW t \in Threads, CloseCursor(t) \/ CloseCursorRaises(t)
      PROVE  Same
  BY <1>19 DEF CloseCursor, CloseCursorRaises, BeforeCursor, Goto
<1>20. ASSUME NEW t \in Threads, CloseKeyError(t)
      PROVE  Same
  BY <1>20 DEF CloseKeyError, Goto
<1>21. ASSUME NEW t \in Threads, CloseFull(t)
      PROVE  Same
  BY <1>21 DEF CloseFull, Goto
<1>22. ASSUME NEW t \in Threads, CloseRoom(t)
      PROVE  Same
  BY <1>22 DEF CloseRoom, Lock, Goto
<1>23. ASSUME NEW t \in Threads, Recycle(t)
      PROVE  Same
  BY <1>23 DEF Recycle, Unlock, Goto
<1>24. ASSUME NEW t \in Threads, Unset(t)
      PROVE  Same
  BY <1>24 DEF Unset, EmptySlot, Goto
<1>25. ASSUME NEW t \in Threads, Discard(t)
      PROVE  Same
  BY <1>25 DEF Discard, EmptySlot, Goto
<1>26. ASSUME NEW c \in Conns, Die(c)
      PROVE  Same
  BY <1>26 DEF Die
<1>27. ASSUME NEW c \in Conns, Collect(c)
      PROVE  Same
  BY <1>27 DEF Collect
<1>28. CASE UNCHANGED vars
  BY <1>28 DEF vars
<1> QED
  BY <1>1, <1>2, <1>3, <1>4, <1>5, <1>6, <1>7, <1>8, <1>9, <1>10, <1>11,
     <1>12, <1>14, <1>15, <1>16, <1>17, <1>18, <1>19, <1>20, <1>21,
     <1>22, <1>23, <1>24, <1>25, <1>26, <1>27, <1>28
     DEF Next, Call, Step, LockStep, Environment

\* connection.py:246-248: the test of _first_connection and its setting are
\* apart, so the hook may run once for each thread, and no more often, however
\* many connections the adapter opens.
THEOREM HookAtMostOncePerThread ==
  ASSUME IsFiniteSet(Threads)
  PROVE  Spec => []FirstHookPerThread
<1>1. Init => HooksCounted
  BY DEF Init, HooksCounted
<1>2. Inv /\ HooksCounted /\ [Next]_vars => HooksCounted'
  BY HooksStep
<1>3. Inv /\ HooksCounted => FirstHookPerThread
  <2> SUFFICES ASSUME TypeOK, HooksCounted, NEW a \in Adapters
               PROVE  firstRuns[a] <= Cardinality(Threads)
    BY DEF Inv, FirstHookPerThread
  <2>1. Cardinality(Running(a)) \in Nat /\ Cardinality(Threads) \in Nat
    BY RunningIsFinite
  <2>2. firstRuns[a] \in Nat /\ first[a] \in BOOLEAN
    BY DEF TypeOK
  <2> QED
    BY <2>1, <2>2 DEF HooksCounted
<1> QED
  BY <1>1, <1>2, <1>3, Invariance, PTL DEF Spec
=============================================================================
