--------------------------- MODULE MigratorProofs ---------------------------
(***************************************************************************)
(* Proofs about Migrator: its types, that no values are lost, and that     *)
(* undisturbed migrations converge, for every set of processes, fields and *)
(* definitions that MigratorAssumption admits.  The last two need that no  *)
(* definition gives a field the column name of another field (NamesApart), *)
(* and the first of them that on mysql, where every ALTER commits,         *)
(* processes do not overlap.                                               *)
(***************************************************************************)
EXTENDS Migrator, TLAPS

----------------------------------------------------------------------------
(* Control and types                                                       *)

Working == {"work", "commit", "open", "lock", "write"}

\* A process outside of the loop has none of its variables.
Idle(p) ==
  /\ cur[p] = NoFields /\ keys[p] = {} /\ query[p] = << >>
  /\ changed[p] = FALSE /\ queried[p] = FALSE /\ final[p] = FALSE

Typed ==
  /\ engine \in Engines /\ IsColumns(columns) /\ IsColumns(pending)
  /\ txn \in Procs \union {NoOne} /\ fileLock \in Procs \union {NoOne}
  /\ file = [state |-> file.state, fields |-> file.fields]
  /\ file.state \in {"missing", "empty", "full"} /\ IsFields(file.fields)
  /\ pc \in [Procs -> PCs] /\ DOMAIN want = Procs /\ DOMAIN cur = Procs
  /\ keys \in [Procs -> SUBSET Fields] /\ query \in [Procs -> Seq(Statements)]
  /\ changed \in [Procs -> BOOLEAN] /\ queried \in [Procs -> BOOLEAN]
  /\ final \in [Procs -> BOOLEAN]
  /\ \A p \in Procs : IsFields(want[p]) /\ IsFields(cur[p])
  /\ starts \in 0..MaxStarts /\ IsFields(asked)
  /\ kept \subseteq Fields /\ disturbed \in BOOLEAN

\* Where a process can be with what its variables say; who has the
\* transaction or the lock.
Flow(p) ==
  /\ pc[p] \notin Working => Idle(p)
  /\ pc[p] = "load" => file.state # "missing"
  /\ pc[p] \in Working \ {"work"} => changed[p] \/ final[p]
  /\ pc[p] = "work" => ~ final[p]
  /\ pc[p] = "commit" => final[p] \/ engine = "mysql"
  /\ final[p] => keys[p] = {}
  /\ query[p] # << >> => changed[p] /\ queried[p] /\ ~ final[p]
  /\ keys[p] \subseteq DOMAIN want[p] \union DOMAIN cur[p]
  /\ txn = p => \/ pc[p] = "commit"
                \/ pc[p] \in Working /\ changed[p] /\ ~ final[p] /\ engine # "mysql"
  /\ fileLock = p <=> pc[p] = "write"

Control ==
  /\ \A p \in Procs : Flow(p)
  /\ txn = NoOne => pending = columns
  /\ fileLock # NoOne => file = Empty
  /\ \A p, q \in Procs : engine \notin Overlap /\ Busy(p) /\ Busy(q) => p = q

----------------------------------------------------------------------------
(* The names of a field                                                    *)

NamesOf(f) ==
  {TmpOf[f]} \union {d[f].rname : d \in {e \in Definitions : f \in DOMAIN e}}

Declared(d) == \A f \in DOMAIN d : d[f].rname \in NamesOf(f) /\ d[f].rname # TmpOf[f]

\* The columns of t hold nothing but values of the field that has their name.
Owned(t) ==
  \A n \in DOMAIN t : \E f \in Fields : n \in NamesOf(f) /\ t[n].data \in {f, NoData}

\* The statement st is about a column, or two, of field f.
OfField(st, f) == st.name \in NamesOf(f) /\ (st.do = "copy" => st.from \in NamesOf(f))

OfOne(p) ==
  query[p] # << >> => \E f \in Fields : \A i \in DOMAIN query[p] : OfField(query[p][i], f)

Naming ==
  /\ Declared(file.fields) /\ Owned(columns) /\ Owned(pending)
  /\ \A p \in Procs : Declared(want[p]) /\ Declared(cur[p]) /\ OfOne(p)

----------------------------------------------------------------------------
(* Statements and queries                                                  *)

LEMMA StatementTypes ==
  ASSUME NEW n \in Names, NEW m \in Names, NEW s \in Sqls
  PROVE  /\ Add(n, s) \in Statements /\ Copy(n, m) \in Statements
         /\ Drop(n) \in Statements
BY DEF Add, Copy, Drop, Statements

LEMMA FieldTypes ==
  ASSUME NEW d, IsFields(d), NEW f \in DOMAIN d
  PROVE  /\ f \in Fields /\ d[f] \in FieldDefs
         /\ d[f].rname \in Names /\ d[f].sql \in Sqls
         /\ d[f] = [rname |-> d[f].rname, sql |-> d[f].sql]
<1>1. f \in Fields /\ d[f] \in FieldDefs
  BY DEF IsFields
<1>2. QED
  BY <1>1 DEF FieldDefs

LEMMA TmpNames == \A f \in Fields : TmpOf[f] \in Names
BY MigratorAssumption

\* The query of a key, case by case.
LEMMA QueryCases ==
  ASSUME NEW old, NEW new, NEW f, f \in DOMAIN old \union DOMAIN new
  PROVE  /\ f \notin DOMAIN old =>
              Query(f, old, new) = <<Add(new[f].rname, new[f].sql)>>
         /\ f \in DOMAIN old /\ f \notin DOMAIN new =>
              Query(f, old, new) = IF KeepsColumns THEN << >> ELSE <<Drop(old[f].rname)>>
         /\ f \in DOMAIN old /\ f \in DOMAIN new /\ new[f].rname # old[f].rname =>
              Query(f, old, new) =
                IF KeepsColumns
                THEN <<Add(new[f].rname, new[f].sql), Copy(new[f].rname, old[f].rname)>>
                ELSE <<Add(new[f].rname, new[f].sql), Copy(new[f].rname, old[f].rname),
                       Drop(old[f].rname)>>
         /\ f \in DOMAIN old /\ f \in DOMAIN new /\ new[f].rname = old[f].rname =>
              Query(f, old, new) =
                IF KeepsColumns \/ new[f].sql = old[f].sql \/ new[f].sql \in Frozen
                THEN << >>
                ELSE <<Add(TmpOf[f], new[f].sql), Copy(TmpOf[f], new[f].rname),
                       Drop(new[f].rname), Add(new[f].rname, new[f].sql),
                       Copy(new[f].rname, TmpOf[f]), Drop(TmpOf[f])>>
BY DEF Query

LEMMA QueryTypes ==
  ASSUME NEW old, NEW new, IsFields(old), IsFields(new),
         NEW f, f \in DOMAIN old \union DOMAIN new
  PROVE  /\ Query(f, old, new) \in Seq(Statements)
         /\ Query(f, old, new) # << >> => ChangesMetadata(f, old, new)
<1> f \in Fields
  BY DEF IsFields
<1>1. CASE f \notin DOMAIN old
  <2>1. Add(new[f].rname, new[f].sql) \in Statements
    BY <1>1, FieldTypes, StatementTypes
  <2>2. Query(f, old, new) = <<Add(new[f].rname, new[f].sql)>>
    BY <1>1, QueryCases
  <2>3. QED
    BY <1>1, <2>1, <2>2 DEF ChangesMetadata
<1>2. CASE f \in DOMAIN old /\ f \notin DOMAIN new
  <2>1. Drop(old[f].rname) \in Statements
    BY <1>2, FieldTypes, StatementTypes
  <2>2. Query(f, old, new) = IF KeepsColumns THEN << >> ELSE <<Drop(old[f].rname)>>
    BY <1>2, QueryCases
  <2>3. QED
    BY <1>2, <2>1, <2>2 DEF ChangesMetadata
<1>3. CASE f \in DOMAIN old /\ f \in DOMAIN new
  <2> DEFINE t == new[f].rname
             o == old[f].rname
             u == TmpOf[f]
             s == new[f].sql
  <2>1. t \in Names /\ o \in Names /\ u \in Names /\ s \in Sqls
    BY <1>3, FieldTypes, TmpNames
  <2> HIDE DEF t, o, u, s
  <2>2. /\ Add(t, s) \in Statements /\ Copy(t, o) \in Statements
        /\ Drop(o) \in Statements /\ Drop(t) \in Statements /\ Drop(u) \in Statements
        /\ Add(u, s) \in Statements /\ Copy(u, t) \in Statements
        /\ Copy(t, u) \in Statements
    BY <2>1, StatementTypes
  <2>3. CASE t # o
    <3>1. Query(f, old, new) = IF KeepsColumns THEN <<Add(t, s), Copy(t, o)>>
                               ELSE <<Add(t, s), Copy(t, o), Drop(o)>>
      BY <1>3, <2>3, QueryCases DEF t, o, s
    <3>2. old[f] # new[f]
      BY <2>3 DEF t, o
    <3>3. QED
      BY <2>2, <3>1, <3>2 DEF ChangesMetadata
  <2>4. CASE t = o
    <3>1. Query(f, old, new) =
            IF KeepsColumns \/ s = old[f].sql \/ s \in Frozen THEN << >>
            ELSE <<Add(u, s), Copy(u, t), Drop(t), Add(t, s), Copy(t, u), Drop(u)>>
      BY <1>3, <2>4, QueryCases DEF t, o, s, u
    <3>2. Query(f, old, new) \in Seq(Statements)
      BY <2>2, <3>1
    <3>3. s # old[f].sql => old[f] # new[f]
      BY DEF s
    <3>4. QED
      BY <3>1, <3>2, <3>3 DEF ChangesMetadata
  <2>5. QED
    BY <2>3, <2>4
<1>4. QED
  BY <1>1, <1>2, <1>3

LEMMA UpdatedIn ==
  ASSUME NEW old, NEW new, NEW f \in DOMAIN new
  PROVE  /\ \A g : g \in DOMAIN Updated(f, old, new) <=> g \in DOMAIN old \/ g = f
         /\ Updated(f, old, new)[f] = new[f]
<1>1. Updated(f, old, new) =
        [g \in DOMAIN old \union {f} |-> IF g = f THEN new[f] ELSE old[g]]
  BY DEF Updated
<1>2. QED
  BY <1>1

LEMMA UpdatedOut ==
  ASSUME NEW old, NEW new, NEW f, f \notin DOMAIN new
  PROVE  /\ KeepsColumns => Updated(f, old, new) = old
         /\ ~ KeepsColumns =>
              \A g : g \in DOMAIN Updated(f, old, new) <=> g \in DOMAIN old /\ g # f
<1>1. Updated(f, old, new) =
        IF KeepsColumns THEN old ELSE [g \in DOMAIN old \ {f} |-> old[g]]
  BY DEF Updated, Restrict
<1>2. QED
  BY <1>1

LEMMA UpdatedLeaves ==
  ASSUME NEW old, NEW new, NEW f, NEW g, g # f
  PROVE  /\ g \in DOMAIN Updated(f, old, new) <=> g \in DOMAIN old
         /\ g \in DOMAIN old => Updated(f, old, new)[g] = old[g]
BY DEF Updated, Restrict

LEMMA UpdatedTypes ==
  ASSUME NEW old, NEW new, IsFields(old), IsFields(new),
         NEW f, f \in DOMAIN old \union DOMAIN new
  PROVE  IsFields(Updated(f, old, new))
<1> DEFINE u == Updated(f, old, new)
<1>1. ASSUME NEW g \in DOMAIN u PROVE g \in Fields /\ u[g] \in FieldDefs
  <2>1. CASE g # f
    <3>1. g \in DOMAIN old /\ u[g] = old[g]
      BY <1>1, <2>1, UpdatedLeaves
    <3>2. QED
      BY <3>1, FieldTypes
  <2>2. CASE g = f /\ f \in DOMAIN new
    <3>1. u[f] = new[f]
      BY <2>2, UpdatedIn
    <3>2. QED
      BY <2>2, <3>1, FieldTypes
  <2>3. CASE g = f /\ f \notin DOMAIN new
    <3>1. f \in DOMAIN old /\ u = old
      BY <1>1, <2>3, UpdatedOut
    <3>2. QED
      BY <2>3, <3>1, FieldTypes
  <2>4. QED
    BY <2>1, <2>2, <2>3
<1>2. QED
  BY <1>1 DEF IsFields

----------------------------------------------------------------------------
(* What a statement does to a table                                        *)

LEMMA AddEffect ==
  ASSUME NEW t, NEW n, NEW s
  PROVE  /\ Possible(Add(n, s), t) <=> n \notin DOMAIN t
         /\ \A k : k \in DOMAIN Effect(Add(n, s), t) <=> k \in DOMAIN t \/ k = n
         /\ Effect(Add(n, s), t)[n].sql = s /\ Effect(Add(n, s), t)[n].data = NoData
<1>1. /\ Possible(Add(n, s), t) <=> n \notin DOMAIN t
      /\ Effect(Add(n, s), t) =
           [k \in DOMAIN t \union {n} |->
              IF k = n THEN [sql |-> s, data |-> NoData] ELSE t[k]]
  BY DEF Possible, Effect, Add
<1>2. QED
  BY <1>1

LEMMA AddLeaves ==
  ASSUME NEW t, NEW n, NEW s, NEW k \in DOMAIN t, k # n
  PROVE  Effect(Add(n, s), t)[k] = t[k]
BY DEF Effect, Add

LEMMA CopyEffect ==
  ASSUME NEW t, IsColumns(t), NEW n, NEW m
  PROVE  /\ Possible(Copy(n, m), t) <=> n \in DOMAIN t /\ m \in DOMAIN t
         /\ DOMAIN Effect(Copy(n, m), t) = DOMAIN t
         /\ n \in DOMAIN t => /\ Effect(Copy(n, m), t)[n].sql = t[n].sql
                              /\ Effect(Copy(n, m), t)[n].data = t[m].data
<1>1. /\ Possible(Copy(n, m), t) <=> {n, m} \subseteq DOMAIN t
      /\ Effect(Copy(n, m), t) = [t EXCEPT ![n].data = t[m].data]
  BY DEF Possible, Effect, Copy
<1>2. n \in DOMAIN t =>
        t[n] = [sql |-> t[n].sql, data |-> t[n].data]
  BY DEF IsColumns, ColumnDefs
<1>3. QED
  BY <1>1, <1>2

LEMMA CopyLeaves ==
  ASSUME NEW t, NEW n, NEW m, NEW k \in DOMAIN t, k # n
  PROVE  Effect(Copy(n, m), t)[k] = t[k]
BY DEF Effect, Copy

LEMMA DropEffect ==
  ASSUME NEW t, NEW n
  PROVE  /\ Possible(Drop(n), t) <=> n \in DOMAIN t
         /\ \A k : k \in DOMAIN Effect(Drop(n), t) <=> k \in DOMAIN t /\ k # n
<1>1. /\ Possible(Drop(n), t) <=> n \in DOMAIN t
      /\ Effect(Drop(n), t) = [k \in DOMAIN t \ {n} |-> t[k]]
  BY DEF Possible, Effect, Drop, Restrict
<1>2. QED
  BY <1>1

LEMMA DropLeaves ==
  ASSUME NEW t, NEW n, NEW k \in DOMAIN t, k # n
  PROVE  Effect(Drop(n), t)[k] = t[k]
BY DEF Effect, Drop, Restrict

LEMMA EffectTypes ==
  ASSUME NEW t, IsColumns(t), NEW st \in Statements, Possible(st, t)
  PROVE  IsColumns(Effect(st, t))
<1> DEFINE u == Effect(st, t)
<1>1. CASE \E n \in Names, s \in Sqls : st = Add(n, s)
  <2> PICK n \in Names, s \in Sqls : st = Add(n, s)
    BY <1>1
  <2>1. u = [k \in DOMAIN t \union {n} |->
               IF k = n THEN [sql |-> s, data |-> NoData] ELSE t[k]]
    BY DEF Effect, Add
  <2>2. [sql |-> s, data |-> NoData] \in ColumnDefs
    BY DEF ColumnDefs
  <2>3. QED
    BY <2>1, <2>2 DEF IsColumns
<1>2. CASE \E n, m \in Names : st = Copy(n, m)
  <2> PICK n \in Names, m \in Names : st = Copy(n, m)
    BY <1>2
  <2>1. n \in DOMAIN t /\ m \in DOMAIN t
    BY CopyEffect
  <2>2. u = [t EXCEPT ![n] = [t[n] EXCEPT !.data = t[m].data]]
    BY DEF Effect, Copy
  <2>3. [t[n] EXCEPT !.data = t[m].data] \in ColumnDefs
    BY <2>1 DEF IsColumns, ColumnDefs
  <2>4. QED
    BY <2>1, <2>2, <2>3 DEF IsColumns
<1>3. CASE \E n \in Names : st = Drop(n)
  <2> PICK n \in Names : st = Drop(n)
    BY <1>3
  <2>1. u = [k \in DOMAIN t \ {n} |-> t[k]]
    BY DEF Effect, Drop, Restrict
  <2>2. QED
    BY <2>1 DEF IsColumns
<1>4. QED
  BY <1>1, <1>2, <1>3 DEF Statements, Add, Copy, Drop

LEMMA TableFacts ==
  ASSUME NEW d, IsFields(d), NEW S, S \subseteq Fields
  PROVE  /\ IsColumns(TableOf(d, S))
         /\ \A n : n \in DOMAIN TableOf(d, S) <=> \E f \in DOMAIN d : n = d[f].rname
         /\ \A n \in DOMAIN TableOf(d, S) : \E g \in DOMAIN d :
              /\ d[g].rname = n /\ TableOf(d, S)[n].sql = d[g].sql
              /\ TableOf(d, S)[n].data = IF g \in S THEN g ELSE NoData
<1> DEFINE ns   == {d[f].rname : f \in DOMAIN d}
           G(n) == CHOOSE g \in DOMAIN d : d[g].rname = n
           R(n) == [sql |-> d[G(n)].sql, data |-> IF G(n) \in S THEN G(n) ELSE NoData]
<1>1. TableOf(d, S) = [n \in ns |-> R(n)]
  BY DEF TableOf
<1>2. \A n \in ns : G(n) \in DOMAIN d /\ d[G(n)].rname = n
  OBVIOUS
<1> HIDE DEF G
<1>3. \A n \in ns : R(n) \in ColumnDefs /\ n \in Names
  BY <1>2, FieldTypes DEF ColumnDefs
<1>4. QED
  BY <1>1, <1>2, <1>3 DEF IsColumns

----------------------------------------------------------------------------
(* One process moves                                                       *)

\* The variables of the other processes, and what they have, stay.
Elsewhere(p) ==
  /\ engine' = engine /\ (file.state # "missing" => file'.state # "missing")
  /\ \A q \in Procs : q # p =>
       /\ pc'[q] = pc[q] /\ want'[q] = want[q] /\ cur'[q] = cur[q]
       /\ keys'[q] = keys[q] /\ query'[q] = query[q]
       /\ changed'[q] = changed[q] /\ queried'[q] = queried[q] /\ final'[q] = final[q]
       /\ txn' = q <=> txn = q
       /\ fileLock' = q <=> fileLock = q

LEMMA FlowFrame ==
  ASSUME NEW p \in Procs, NEW q \in Procs, p # q, Elsewhere(p), Flow(q)
  PROVE  Flow(q)'
BY DEF Elsewhere, Flow, Idle, Working

LEMMA ControlFrame ==
  ASSUME Control, NEW p \in Procs, Elsewhere(p), Busy(p), Flow(p)',
         (txn = NoOne => pending = columns)', (fileLock # NoOne => file = Empty)'
  PROVE  Control'
<1>1. \A q \in Procs : Flow(q)'
  BY FlowFrame DEF Control
<1>2. \A q \in Procs : Busy(q)' => Busy(q)
  BY DEF Elsewhere, Busy
<1>3. engine' = engine
  BY DEF Elsewhere
<1>4. QED
  BY <1>1, <1>2, <1>3 DEF Control

\* A step to l inside of define_table.
LEMMA GotoTypes ==
  ASSUME Typed, NEW p \in Procs, NEW l \in PCs, Goto(p, l)
  PROVE  /\ pc' \in [Procs -> PCs] /\ pc'[p] = l
         /\ \A q \in Procs : q # p => pc'[q] = pc[q]
BY DEF Typed, Goto

LEMMA NoFieldsTypes == IsFields(NoFields) /\ DOMAIN NoFields = {}
BY DEF IsFields, NoFields

LEMMA LeaveTypes ==
  ASSUME Typed, NEW p \in Procs, NEW l \in PCs, Leave(p, l)
  PROVE  /\ pc' \in [Procs -> PCs] /\ DOMAIN cur' = Procs
         /\ \A q \in Procs : IsFields(cur[q]')
         /\ keys' \in [Procs -> SUBSET Fields] /\ query' \in [Procs -> Seq(Statements)]
         /\ changed' \in [Procs -> BOOLEAN] /\ queried' \in [Procs -> BOOLEAN]
         /\ final' \in [Procs -> BOOLEAN]
<1>1. pc' \in [Procs -> PCs] /\ DOMAIN cur' = Procs
  BY DEF Typed, Leave, Goto
<1>2. \A q \in Procs : cur'[q] = IF q = p THEN NoFields ELSE cur[q]
  BY DEF Typed, Leave
<1>3. keys' \in [Procs -> SUBSET Fields]
  BY DEF Typed, Leave
<1>4. query' \in [Procs -> Seq(Statements)]
  BY DEF Typed, Leave
<1>5. /\ changed' \in [Procs -> BOOLEAN] /\ queried' \in [Procs -> BOOLEAN]
      /\ final' \in [Procs -> BOOLEAN]
  BY DEF Typed, Leave
<1>6. QED
  BY <1>1, <1>2, <1>3, <1>4, <1>5, NoFieldsTypes DEF Typed

LEMMA LeaveIdle ==
  ASSUME Typed, NEW p \in Procs, NEW l \in PCs, Leave(p, l)
  PROVE  /\ Idle(p)' /\ pc'[p] = l
         /\ \A q \in Procs : q # p =>
              /\ pc'[q] = pc[q] /\ cur'[q] = cur[q] /\ keys'[q] = keys[q]
              /\ query'[q] = query[q] /\ changed'[q] = changed[q]
              /\ queried'[q] = queried[q] /\ final'[q] = final[q]
<1>1. cur'[p] = NoFields /\ keys'[p] = {} /\ query'[p] = << >>
  BY DEF Typed, Leave
<1>2. changed'[p] = FALSE /\ queried'[p] = FALSE /\ final'[p] = FALSE /\ pc'[p] = l
  BY DEF Typed, Leave, Goto
<1>3. QED
  BY <1>1, <1>2 DEF Typed, Leave, Goto, Idle

LEMMA RestingFlow ==
  ASSUME NEW p \in Procs, Idle(p)', pc'[p] \in Resting, txn' # p, fileLock' # p
  PROVE  Flow(p)'
BY DEF Flow, Idle, Working, Resting

----------------------------------------------------------------------------
(* Types and control, action by action                                     *)

LEMMA ControlInit == Init => Typed /\ Control
<1> SUFFICES ASSUME Init PROVE Typed /\ Control
  OBVIOUS
<1>1. engine \in Engines /\ IsColumns(columns) /\ IsFields(asked)
      /\ file = [state |-> file.state, fields |-> file.fields]
      /\ file.state \in {"missing", "full"} /\ IsFields(file.fields) /\ kept \subseteq Fields
  <2>1. CASE columns = NoFields /\ file = Missing /\ asked = NoFields /\ kept = {}
    <3>1. IsColumns(NoFields)
      BY DEF IsColumns, NoFields
    <3>2. QED
      BY <2>1, <3>1, NoFieldsTypes DEF Init, Missing
  <2>2. ASSUME NEW d \in Definitions, columns = TableOf(d, DOMAIN d), file = Full(d),
               asked = d, kept = DOMAIN d
        PROVE  /\ engine \in Engines /\ IsColumns(columns) /\ IsFields(asked)
               /\ file = [state |-> file.state, fields |-> file.fields]
               /\ file.state \in {"missing", "full"} /\ IsFields(file.fields)
               /\ kept \subseteq Fields
    <3>1. IsFields(d)
      BY MigratorAssumption DEF PartialOn, IsFields
    <3>2. DOMAIN d \subseteq Fields
      BY <3>1 DEF IsFields
    <3>3. IsColumns(TableOf(d, DOMAIN d))
      BY <3>1, <3>2, TableFacts
    <3>4. QED
      BY <2>2, <3>1, <3>2, <3>3 DEF Init, Full
  <2>3. QED
    BY <2>1, <2>2 DEF Init
<1>2. Typed
  <2>1. \A p \in Procs : IsFields(want[p]) /\ IsFields(cur[p])
    BY NoFieldsTypes DEF Init
  <2>2. starts \in 0..MaxStarts
    BY MigratorAssumption DEF Init
  <2>3. pc \in [Procs -> PCs] /\ keys \in [Procs -> SUBSET Fields]
    BY DEF Init, PCs, Resting
  <2>4. query \in [Procs -> Seq(Statements)]
    BY DEF Init
  <2>5. /\ changed \in [Procs -> BOOLEAN] /\ queried \in [Procs -> BOOLEAN]
        /\ final \in [Procs -> BOOLEAN]
    BY DEF Init
  <2>6. QED
    BY <1>1, <2>1, <2>2, <2>3, <2>4, <2>5 DEF Init, Typed
<1>3. \A p \in Procs : Flow(p)
  BY MigratorAssumption DEF Init, Flow, Idle, Working
<1>4. QED
  BY <1>2, <1>3 DEF Control, Init, Busy, Resting

LEMMA StartControl ==
  ASSUME Typed, Control, NEW p \in Procs, NEW d \in Definitions, Start(p, d)
  PROVE  Typed' /\ Control'
<1>1. IsFields(d)
  BY MigratorAssumption DEF PartialOn, IsFields
<1>2. Elsewhere(p)
  BY DEF Typed, Start, Goto, Elsewhere, dbVars, fileVars, loopVars
<1>3. pc[p] \in Resting /\ pc'[p] = "look" /\ Idle(p) /\ Flow(p)
  BY DEF Typed, Control, Flow, Start, Goto, Busy, Working, Resting
<1>4. Flow(p)'
  BY <1>3 DEF Start, Flow, Idle, Working, Resting, dbVars, fileVars, loopVars
<1>5. \A q, r \in Procs : engine' \notin Overlap /\ Busy(q)' /\ Busy(r)' => q = r
  BY <1>2, <1>3 DEF Control, Start, Elsewhere, Busy
<1>6. Control'
  <2>1. \A q \in Procs : Flow(q)'
    BY <1>2, <1>4, FlowFrame DEF Control
  <2>2. QED
    BY <1>5, <2>1 DEF Control, Start, dbVars, fileVars
<1>7. Typed'
  <2>1. pc' \in [Procs -> PCs]
    BY DEF Typed, Start, Goto, PCs
  <2>2. \A q \in Procs : IsFields(want'[q])
    BY <1>1 DEF Typed, Start
  <2>3. starts' \in 0..MaxStarts
    BY MigratorAssumption DEF Typed, Start
  <2>4. disturbed' \in BOOLEAN
    BY DEF Typed, Start
  <2>5. DOMAIN want' = Procs
    BY DEF Typed, Start
  <2>6. QED
    BY <1>1, <2>1, <2>2, <2>3, <2>4, <2>5
       DEF Typed, Start, dbVars, fileVars, loopVars, IsFields, IsColumns
<1>8. QED
  BY <1>6, <1>7

LEMMA LookControl ==
  ASSUME Typed, Control, NEW p \in Procs, Look(p)
  PROVE  Typed' /\ Control'
<1>1. Elsewhere(p)
  BY DEF Typed, Look, Goto, Elsewhere, dbVars, fileVars, loopVars
<1>2. /\ pc'[p] \in {"create", "load"} /\ Idle(p)
      /\ pc'[p] = "load" => file.state # "missing"
  BY DEF Typed, Control, Flow, Look, Goto, Working
<1>3. Flow(p)'
  BY <1>2 DEF Control, Look, Flow, Idle, Working, dbVars, fileVars, loopVars
<1>4. Control'
  BY <1>1, <1>3, ControlFrame DEF Control, Look, Busy, Resting, dbVars, fileVars
<1>5. pc' \in [Procs -> PCs]
  BY DEF Typed, Look, Goto, PCs
<1>6. Typed'
  BY <1>5 DEF Typed, Look, dbVars, fileVars, loopVars, ghostVars, IsFields, IsColumns
<1>7. QED
  BY <1>4, <1>6

LEMMA CreateTableControl ==
  ASSUME Typed, Control, NEW p \in Procs, CreateTable(p)
  PROVE  Typed' /\ Control'
<1>0. IsFields(want[p])
  BY DEF Typed
<1>1. Elsewhere(p)
  BY MigratorAssumption DEF Typed, CreateTable, Goto, Elsewhere, fileVars
<1>2. pc'[p] = "commit" /\ final'[p] = TRUE /\ Idle(p)
  BY DEF Typed, Control, Flow, CreateTable, Goto, Working
<1>3. Flow(p)'
  BY <1>2 DEF Control, CreateTable, Flow, Idle, Working, fileVars
<1>4. (txn = NoOne => pending = columns)'
  BY MigratorAssumption DEF CreateTable
<1>5. Control'
  BY <1>1, <1>3, <1>4, ControlFrame DEF Control, CreateTable, Busy, Resting, fileVars
<1>6. pc' \in [Procs -> PCs]
  BY DEF Typed, CreateTable, Goto, PCs
<1>7. IsColumns(pending') /\ IsColumns(columns')
  <2>1. IsColumns(TableOf(want[p], {}))
    BY <1>0, TableFacts
  <2>2. QED
    BY <2>1 DEF Typed, CreateTable
<1>8. DOMAIN cur' = Procs /\ \A q \in Procs : IsFields(cur'[q])
  BY <1>0 DEF Typed, CreateTable
<1>9. final' \in [Procs -> BOOLEAN]
  BY DEF Typed, CreateTable
<1>10. txn' \in Procs \union {NoOne}
  BY DEF CreateTable
<1>11. Typed'
  BY <1>6, <1>7, <1>8, <1>9, <1>10
     DEF Typed, CreateTable, fileVars, ghostVars, IsFields, IsColumns
<1>12. QED
  BY <1>5, <1>11

LEMMA LoadControl ==
  ASSUME Typed, Control, NEW p \in Procs, Load(p)
  PROVE  Typed' /\ Control'
<1>0. IsFields(want[p]) /\ IsFields(file.fields) /\ pc[p] = "load" /\ Idle(p)
  BY DEF Typed, Control, Flow, Load, Working
<1>1. \/ Leave(p, "failed") \/ Leave(p, "done")
      \/ /\ Goto(p, "work") /\ cur' = [cur EXCEPT ![p] = file.fields]
         /\ keys' = [keys EXCEPT ![p] = KeysOf(want[p], file.fields)]
         /\ UNCHANGED <<query, changed, queried, final>>
  <2>1. file.state \in {"empty", "full"}
    BY DEF Typed, Control, Flow, Load
  <2>2. file.state = "full" /\ file.fields = want[p] => file = Full(want[p])
    BY DEF Typed, Full
  <2>3. QED
    BY <2>1, <2>2 DEF Load
<1>2. CASE Leave(p, "failed") \/ Leave(p, "done")
  <2> PICK l \in {"failed", "done"} : Leave(p, l)
    BY <1>2
  <2> l \in PCs /\ l \in Resting
    BY DEF PCs, Resting
  <2>1. Elsewhere(p)
    BY LeaveIdle DEF Load, Elsewhere, dbVars, fileVars
  <2>2. Flow(p)'
    BY <1>0, LeaveIdle, RestingFlow DEF Load, Control, Flow, dbVars, fileVars, Working
  <2>3. Control'
    BY <1>0, <2>1, <2>2, ControlFrame DEF Control, Load, Busy, Resting, dbVars, fileVars
  <2>4. Typed'
    BY LeaveTypes DEF Typed, Load, dbVars, fileVars, ghostVars, IsFields, IsColumns
  <2>5. QED
    BY <2>3, <2>4
<1>3. CASE /\ Goto(p, "work") /\ cur' = [cur EXCEPT ![p] = file.fields]
           /\ keys' = [keys EXCEPT ![p] = KeysOf(want[p], file.fields)]
           /\ UNCHANGED <<query, changed, queried, final>>
  <2>1. Elsewhere(p)
    BY <1>3 DEF Typed, Load, Goto, Elsewhere, dbVars, fileVars
  <2>2. keys'[p] = DOMAIN want'[p] \union DOMAIN cur'[p] /\ pc'[p] = "work"
    BY <1>3 DEF Typed, Load, Goto, KeysOf
  <2>3. Flow(p)'
    BY <1>0, <1>3, <2>2 DEF Control, Load, Flow, Idle, Working, dbVars, fileVars
  <2>4. Control'
    BY <1>0, <2>1, <2>3, ControlFrame DEF Control, Load, Busy, Resting, dbVars, fileVars
  <2>5. pc' \in [Procs -> PCs]
    BY <1>3 DEF Typed, Goto, PCs
  <2>6. KeysOf(want[p], file.fields) \subseteq Fields
    BY <1>0 DEF KeysOf, IsFields
  <2>7. keys' \in [Procs -> SUBSET Fields]
    BY <1>3, <2>6 DEF Typed
  <2>8. DOMAIN cur' = Procs /\ \A q \in Procs : IsFields(cur'[q])
    BY <1>0, <1>3 DEF Typed
  <2>9. Typed'
    BY <1>3, <2>5, <2>7, <2>8
       DEF Typed, Load, dbVars, fileVars, ghostVars, IsFields, IsColumns
  <2>10. QED
    BY <2>4, <2>9
<1>4. QED
  BY <1>1, <1>2, <1>3

LEMMA TakeKeyControl ==
  ASSUME Typed, Control, NEW p \in Procs, TakeKey(p)
  PROVE  Typed' /\ Control'
<1> PICK f \in keys[p] :
      /\ keys' = [keys EXCEPT ![p] = @ \ {f}]
      /\ cur' = [cur EXCEPT ![p] = Updated(f, cur[p], want[p])]
      /\ LET q == Query(f, cur[p], want[p])
             c == changed[p] \/ ChangesMetadata(f, cur[p], want[p])
         IN /\ query' = [query EXCEPT ![p] = q]
            /\ changed' = [changed EXCEPT ![p] = c]
            /\ queried' = [queried EXCEPT ![p] = q # << >>]
            /\ Goto(p, IF q = << >> /\ c THEN "open" ELSE "work")
  BY DEF TakeKey
<1> DEFINE q == Query(f, cur[p], want[p])
           c == changed[p] \/ ChangesMetadata(f, cur[p], want[p])
           u == Updated(f, cur[p], want[p])
<1>1. /\ IsFields(want[p]) /\ IsFields(cur[p]) /\ Flow(p) /\ pc[p] = "work"
      /\ f \in DOMAIN cur[p] \union DOMAIN want[p]
  BY DEF Typed, Control, Flow, TakeKey
<1>2. q \in Seq(Statements) /\ (q # << >> => c)
  BY <1>1, QueryTypes
<1>3. IsFields(u)
  BY <1>1, UpdatedTypes
<1>4. \A g : g # f => (g \in DOMAIN u <=> g \in DOMAIN cur[p])
  BY UpdatedLeaves
<1> HIDE DEF q, c, u
<1>5. /\ query'[p] = q /\ changed'[p] = c /\ queried'[p] = (q # << >>)
      /\ cur'[p] = u /\ keys'[p] = keys[p] \ {f}
      /\ pc'[p] = IF q = << >> /\ c THEN "open" ELSE "work"
  BY DEF Typed, Goto, q, c, u
<1>6. Elsewhere(p)
  BY DEF Typed, TakeKey, Goto, Elsewhere, dbVars, fileVars, ghostVars
<1>7. Flow(p)'
  <2>1. keys'[p] \subseteq DOMAIN want'[p] \union DOMAIN cur'[p]
    BY <1>1, <1>4, <1>5 DEF Flow, TakeKey
  <2>2. c \in BOOLEAN /\ (txn' = p => c)
    BY <1>1 DEF Typed, Flow, TakeKey, dbVars, c, ChangesMetadata
  <2>3. ~ final'[p] /\ fileLock' # p /\ engine' = engine
    BY <1>1 DEF Typed, Flow, TakeKey, fileVars
  <2>4. QED
    BY <1>1, <1>2, <1>5, <2>1, <2>2, <2>3 DEF TakeKey, Flow, Working, dbVars
<1>8. Control'
  BY <1>1, <1>6, <1>7, ControlFrame
     DEF Control, TakeKey, Busy, Resting, dbVars, fileVars
<1>9. Typed'
  <2>1. pc' \in [Procs -> PCs]
    BY DEF Typed, Goto, PCs
  <2>2. c \in BOOLEAN /\ (q # << >>) \in BOOLEAN
    BY DEF Typed, c, ChangesMetadata
  <2>3. changed' \in [Procs -> BOOLEAN]
    BY <2>2 DEF Typed, c, q
  <2>4. queried' \in [Procs -> BOOLEAN]
    BY <2>2 DEF Typed, q
  <2>5. query' \in [Procs -> Seq(Statements)]
    BY <1>2 DEF Typed, q
  <2>6. keys' \in [Procs -> SUBSET Fields]
    BY DEF Typed
  <2>7. DOMAIN cur' = Procs /\ \A r \in Procs : IsFields(cur'[r])
    BY <1>3 DEF Typed, u
  <2>8. QED
    BY <2>1, <2>3, <2>4, <2>5, <2>6, <2>7
       DEF Typed, TakeKey, dbVars, fileVars, ghostVars, IsFields, IsColumns
<1>10. QED
  BY <1>8, <1>9

LEMMA ExecuteControl ==
  ASSUME Typed, Control, NEW p \in Procs, Execute(p)
  PROVE  Typed' /\ Control'
<1> DEFINE st == Head(query[p])
<1>1. /\ st \in Statements /\ Tail(query[p]) \in Seq(Statements) /\ Flow(p)
      /\ pc[p] = "work" /\ query[p] # << >> /\ txn \in {NoOne, p}
  BY DEF Typed, Control, Execute
<1>2. /\ Possible(st, pending) /\ pending' = Effect(st, pending)
      /\ \/ columns' = pending' /\ txn' = NoOne
         \/ txn' = p /\ columns' = columns /\ ~ CommitsAtOnce(p, st.do = "copy")
  BY DEF Execute
<1> HIDE DEF st
<1>3. Elsewhere(p)
  BY <1>1, <1>2, MigratorAssumption DEF Typed, Execute, Goto, Elsewhere, fileVars
<1>4. /\ query'[p] = Tail(query[p])
      /\ pc'[p] = IF engine = "mysql" THEN "commit" ELSE "work"
  BY DEF Typed, Execute, Goto, CommitOnAlter
<1>5. Flow(p)'
  BY <1>1, <1>2, <1>4, MigratorAssumption DEF Execute, Flow, Working, fileVars
<1>6. Control'
  BY <1>1, <1>2, <1>3, <1>5, ControlFrame, MigratorAssumption
     DEF Control, Execute, Busy, Resting, fileVars
<1>7. Typed'
  <2>1. IsColumns(pending') /\ IsColumns(columns')
    BY <1>1, <1>2, EffectTypes DEF Typed
  <2>2. pc' \in [Procs -> PCs]
    BY DEF Typed, Execute, Goto, PCs
  <2>3. query' \in [Procs -> Seq(Statements)]
    BY <1>1 DEF Typed, Execute
  <2>4. txn' \in Procs \union {NoOne}
    BY <1>2
  <2>5. QED
    BY <2>1, <2>2, <2>3, <2>4
       DEF Typed, Execute, fileVars, ghostVars, IsFields, IsColumns
<1>8. QED
  BY <1>6, <1>7

LEMMA FinishControl ==
  ASSUME Typed, Control, NEW p \in Procs, Finish(p)
  PROVE  Typed' /\ Control'
<1>1. Flow(p) /\ pc[p] = "work" /\ query[p] = << >> /\ keys[p] = {}
  BY DEF Control, Finish
<1>2. CASE changed[p] /\ ~ (queried[p] /\ CommitOnAlter)
  <2>1. /\ final' = [final EXCEPT ![p] = TRUE] /\ Goto(p, "commit")
        /\ UNCHANGED <<cur, keys, query, changed, queried>>
    BY <1>2 DEF Finish
  <2>2. Elsewhere(p)
    BY <2>1 DEF Typed, Finish, Goto, Elsewhere, dbVars, fileVars
  <2>3. pc'[p] = "commit" /\ final'[p] = TRUE
    BY <2>1 DEF Typed, Goto
  <2>4. Flow(p)'
    BY <1>1, <2>1, <2>3 DEF Finish, Flow, Working, dbVars, fileVars
  <2>5. Control'
    BY <1>1, <2>2, <2>4, ControlFrame
       DEF Control, Finish, Busy, Resting, dbVars, fileVars
  <2>6. pc' \in [Procs -> PCs] /\ final' \in [Procs -> BOOLEAN]
    BY <2>1 DEF Typed, Goto, PCs
  <2>7. Typed'
    BY <2>1, <2>6
       DEF Typed, Finish, dbVars, fileVars, ghostVars, IsFields, IsColumns
  <2>8. QED
    BY <2>5, <2>7
<1>3. CASE ~ (changed[p] /\ ~ (queried[p] /\ CommitOnAlter))
  <2>1. Leave(p, "done") /\ "done" \in PCs /\ "done" \in Resting
    BY <1>3 DEF Finish, PCs, Resting
  <2>2. Elsewhere(p)
    BY <2>1, LeaveIdle DEF Finish, Elsewhere, dbVars, fileVars
  <2>3. Idle(p)' /\ pc'[p] = "done"
    BY <2>1, LeaveIdle
  <2>4. txn # p /\ fileLock # p
    BY <1>1, <1>3 DEF Flow, CommitOnAlter
  <2>5. Flow(p)'
    BY <2>1, <2>3, <2>4, RestingFlow DEF Finish, dbVars, fileVars
  <2>6. Control'
    BY <1>1, <2>2, <2>5, ControlFrame
       DEF Control, Finish, Busy, Resting, dbVars, fileVars
  <2>7. Typed'
    BY <2>1, LeaveTypes
       DEF Typed, Finish, dbVars, fileVars, ghostVars, IsFields, IsColumns
  <2>8. QED
    BY <2>6, <2>7
<1>4. QED
  BY <1>2, <1>3

LEMMA CommitControl ==
  ASSUME Typed, Control, NEW p \in Procs, Commit(p)
  PROVE  Typed' /\ Control'
<1>1. Flow(p) /\ pc[p] = "commit" /\ pc'[p] = "open"
  BY DEF Typed, Control, Commit, Goto
<1>2. Elsewhere(p)
  BY MigratorAssumption DEF Typed, Commit, Goto, Elsewhere, fileVars, loopVars
<1>3. txn' # p
  BY MigratorAssumption DEF Commit
<1>4. Flow(p)'
  BY <1>1, <1>3 DEF Commit, Flow, Idle, Working, fileVars, loopVars
<1>5. Control'
  BY <1>1, <1>2, <1>4, ControlFrame DEF Control, Commit, Busy, Resting, fileVars
<1>6. pc' \in [Procs -> PCs]
  BY DEF Typed, Commit, Goto, PCs
<1>7. IsColumns(columns') /\ txn' \in Procs \union {NoOne}
  BY DEF Typed, Commit
<1>8. Typed'
  BY <1>6, <1>7 DEF Typed, Commit, fileVars, loopVars, ghostVars, IsFields, IsColumns
<1>9. QED
  BY <1>5, <1>8

LEMMA EmptyTypes ==
  /\ Empty.state = "empty" /\ Empty.fields = NoFields
  /\ Empty = [state |-> Empty.state, fields |-> Empty.fields]
BY DEF Empty

LEMMA OpenControl ==
  ASSUME Typed, Control, NEW p \in Procs, Open(p)
  PROVE  Typed' /\ Control'
<1>1. Flow(p) /\ pc[p] = "open" /\ pc'[p] = "lock"
  BY DEF Typed, Control, Open, Goto
<1>2. Elsewhere(p)
  BY EmptyTypes DEF Typed, Open, Goto, Elsewhere, dbVars, loopVars
<1>3. Flow(p)'
  BY <1>1 DEF Open, Flow, Idle, Working, dbVars, loopVars
<1>4. Control'
  BY <1>1, <1>2, <1>3, ControlFrame, EmptyTypes
     DEF Control, Open, Busy, Resting, dbVars
<1>5. pc' \in [Procs -> PCs]
  BY DEF Typed, Open, Goto, PCs
<1>6. /\ file' = [state |-> file'.state, fields |-> file'.fields]
      /\ file'.state \in {"missing", "empty", "full"} /\ IsFields(file'.fields)
  BY EmptyTypes, NoFieldsTypes DEF Typed, Open
<1>7. Typed'
  BY <1>5, <1>6 DEF Typed, Open, dbVars, loopVars, ghostVars, IsFields, IsColumns
<1>8. QED
  BY <1>4, <1>7

LEMMA LockControl ==
  ASSUME Typed, Control, NEW p \in Procs, Lock(p)
  PROVE  Typed' /\ Control'
<1>1. Flow(p) /\ pc[p] = "lock" /\ pc'[p] = "write"
  BY DEF Typed, Control, Lock, Goto
<1>2. Elsewhere(p)
  BY EmptyTypes, MigratorAssumption DEF Typed, Lock, Goto, Elsewhere, dbVars, loopVars
<1>3. Flow(p)'
  BY <1>1 DEF Lock, Flow, Idle, Working, dbVars, loopVars
<1>4. Control'
  BY <1>1, <1>2, <1>3, ControlFrame DEF Control, Lock, Busy, Resting, dbVars
<1>5. pc' \in [Procs -> PCs]
  BY DEF Typed, Lock, Goto, PCs
<1>6. Typed'
  BY <1>5, EmptyTypes, NoFieldsTypes
     DEF Typed, Lock, dbVars, loopVars, ghostVars, IsFields, IsColumns
<1>7. QED
  BY <1>4, <1>6

LEMMA FullTypes ==
  ASSUME NEW d
  PROVE  Full(d).state = "full" /\ Full(d).fields = d
BY DEF Full

LEMMA WriteControl ==
  ASSUME Typed, Control, NEW p \in Procs, Write(p)
  PROVE  Typed' /\ Control'
<1>1. /\ Flow(p) /\ pc[p] = "write" /\ fileLock = p /\ IsFields(cur[p])
      /\ fileLock' = NoOne
  BY DEF Typed, Control, Flow, Write
<1>2. /\ file' = [state |-> file'.state, fields |-> file'.fields]
      /\ file'.state = "full" /\ IsFields(file'.fields)
  BY <1>1 DEF Write, Full
<1>3. CASE final[p]
  <2>1. Leave(p, "done") /\ "done" \in PCs /\ "done" \in Resting
    BY <1>3 DEF Write, PCs, Resting
  <2>2. Elsewhere(p)
    BY <1>1, <1>2, <2>1, LeaveIdle, MigratorAssumption DEF Write, Elsewhere, dbVars
  <2>3. Idle(p)' /\ pc'[p] = "done"
    BY <2>1, LeaveIdle
  <2>4. txn' # p /\ fileLock' # p
    BY <1>1, <1>3, MigratorAssumption DEF Write, Flow, dbVars
  <2>5. Flow(p)'
    BY <2>1, <2>3, <2>4, RestingFlow
  <2>6. Control'
    BY <1>1, <2>2, <2>5, ControlFrame DEF Control, Write, Busy, Resting, dbVars
  <2>7. Typed'
    BY <1>1, <1>2, <2>1, LeaveTypes
       DEF Typed, Write, dbVars, ghostVars, IsFields, IsColumns
  <2>8. QED
    BY <2>6, <2>7
<1>4. CASE ~ final[p]
  <2>1. Goto(p, "work") /\ UNCHANGED loopVars
    BY <1>4 DEF Write
  <2>2. Elsewhere(p)
    BY <1>1, <1>2, <2>1, MigratorAssumption
       DEF Typed, Write, Goto, Elsewhere, dbVars, loopVars
  <2>3. pc'[p] = "work"
    BY <2>1 DEF Typed, Goto
  <2>4. Flow(p)'
    BY <1>1, <1>4, <2>1, <2>3, MigratorAssumption
       DEF Write, Flow, Idle, Working, dbVars, loopVars
  <2>5. Control'
    BY <1>1, <2>2, <2>4, ControlFrame DEF Control, Write, Busy, Resting, dbVars
  <2>6. pc' \in [Procs -> PCs]
    BY <2>1 DEF Typed, Goto, PCs
  <2>7. Typed'
    BY <1>1, <1>2, <2>1, <2>6
       DEF Typed, Write, dbVars, loopVars, ghostVars, IsFields, IsColumns
  <2>8. QED
    BY <2>5, <2>7
<1>5. QED
  BY <1>3, <1>4

\* The failures have this in common.
LEMMA RollbackControl ==
  ASSUME Typed, Control, NEW p \in Procs, NEW l \in Resting, Rollback(p), Leave(p, l),
         Busy(p), fileLock' = (IF fileLock = p THEN NoOne ELSE fileLock),
         UNCHANGED <<engine, file, want, starts, asked, kept>>, disturbed' \in BOOLEAN
  PROVE  Typed' /\ Control'
<1> l \in PCs
  BY DEF PCs
<1>1. Elsewhere(p)
  BY LeaveIdle, MigratorAssumption DEF Rollback, Elsewhere
<1>2. Idle(p)' /\ pc'[p] = l
  BY LeaveIdle
<1>3. Flow(p)'
  BY <1>2, RestingFlow, MigratorAssumption DEF Rollback
<1>4. Control'
  BY <1>1, <1>3, ControlFrame DEF Control, Rollback
<1>5. /\ IsColumns(pending') /\ IsColumns(columns')
      /\ txn' \in Procs \union {NoOne} /\ fileLock' \in Procs \union {NoOne}
  BY DEF Typed, Rollback
<1>6. Typed'
  BY <1>5, LeaveTypes DEF Typed, IsFields, IsColumns
<1>7. QED
  BY <1>4, <1>6

LEMMA RefusedControl ==
  ASSUME Typed, Control, NEW p \in Procs, Refused(p)
  PROVE  Typed' /\ Control'
<1>1. Busy(p) /\ fileLock # p
  BY DEF Control, Flow, Refused, Busy, Resting
<1>2. disturbed' \in BOOLEAN /\ "failed" \in Resting
  BY DEF Typed, Refused, Resting
<1>3. QED
  BY <1>1, <1>2, RollbackControl DEF Refused, fileVars

LEMMA StatementFailsControl ==
  ASSUME Typed, Control, NEW p \in Procs, StatementFails(p)
  PROVE  Typed' /\ Control'
<1>1. Busy(p) /\ fileLock # p
  BY DEF Control, Flow, StatementFails, Busy, Resting
<1>2. disturbed' \in BOOLEAN /\ "failed" \in Resting
  BY DEF StatementFails, Resting
<1>3. QED
  BY <1>1, <1>2, RollbackControl DEF StatementFails, fileVars

LEMMA CrashControl ==
  ASSUME Typed, Control, NEW p \in Procs, Crash(p)
  PROVE  Typed' /\ Control'
<1>1. disturbed' \in BOOLEAN /\ "out" \in Resting
  BY DEF Crash, Resting
<1>2. QED
  BY <1>1, RollbackControl DEF Crash

LEMMA ControlStep == Typed /\ Control /\ [Next]_vars => Typed' /\ Control'
<1> SUFFICES ASSUME Typed, Control, [Next]_vars PROVE Typed' /\ Control'
  OBVIOUS
<1>1. CASE Next
  <2> PICK p \in Procs : \/ \E d \in Definitions : Start(p, d)
                        \/ Step(p) \/ StatementFails(p) \/ Crash(p)
    BY <1>1 DEF Next
  <2>1. CASE \E d \in Definitions : Start(p, d)
    BY <2>1, StartControl
  <2>2. CASE Step(p)
    BY <2>2, LookControl, CreateTableControl, LoadControl, TakeKeyControl,
       ExecuteControl, FinishControl, CommitControl, OpenControl, LockControl,
       WriteControl, RefusedControl DEF Step
  <2>3. CASE StatementFails(p)
    BY <2>3, StatementFailsControl
  <2>4. CASE Crash(p)
    BY <2>4, CrashControl
  <2>5. QED
    BY <2>1, <2>2, <2>3, <2>4
<1>2. CASE UNCHANGED vars
  BY <1>2 DEF vars, dbVars, fileVars, loopVars, ghostVars, Typed, Control, Flow,
     Idle, Busy, IsFields, IsColumns
<1>3. QED
  BY <1>1, <1>2

LEMMA ControlTypes == Typed /\ Control => TypeOK
<1> SUFFICES ASSUME Typed, Control PROVE TypeOK
  OBVIOUS
<1>1. txn # NoOne =>
        txn \in Procs /\ pc[txn] \in {"work", "commit", "open", "lock", "write"}
  BY DEF Typed, Control, Flow, Working
<1>2. fileLock # NoOne => fileLock \in Procs /\ pc[fileLock] = "write" /\ file = Empty
  BY DEF Typed, Control, Flow
<1>3. ASSUME NEW p \in Procs
      PROVE  /\ pc[p] \in PCs /\ IsFields(want[p]) /\ IsFields(cur[p])
             /\ pc[p] = "write" => fileLock = p
             /\ {changed[p], queried[p], final[p]} \subseteq BOOLEAN
             /\ keys[p] \subseteq Fields
             /\ \A i \in DOMAIN query[p] : query[p][i] \in Statements
  <2>1. query[p] \in Seq(Statements)
    BY DEF Typed
  <2>2. \A i \in DOMAIN query[p] : query[p][i] \in Statements
    BY <2>1
  <2>3. QED
    BY <2>2 DEF Typed, Control, Flow
<1>4. txn = NoOne => pending = columns
  BY DEF Control
<1>5. QED
  BY <1>1, <1>2, <1>3, <1>4 DEF TypeOK, Typed

\* The schema, the transaction and the file stay well formed, one process at
\* most has the transaction, and one the lock of the snapshot while it writes.
THEOREM TypesAreRight == Spec => []TypeOK
<1>1. Spec => [](Typed /\ Control)
  BY ControlInit, ControlStep, PTL DEF Spec
<1>2. QED
  BY <1>1, ControlTypes, PTL

----------------------------------------------------------------------------
(* The names of the fields                                                 *)

LEMMA DefinitionTypes ==
  ASSUME NEW d \in Definitions
  PROVE  IsFields(d) /\ \A f \in DOMAIN d : d[f].rname \in NamesOf(f)
<1>1. IsFields(d)
  BY MigratorAssumption DEF PartialOn, IsFields
<1>2. QED
  BY <1>1 DEF NamesOf

LEMMA NamesOfTypes ==
  ASSUME NEW f \in Fields, NEW n \in NamesOf(f)
  PROVE  n \in Names
<1>1. CASE n = TmpOf[f]
  BY <1>1, TmpNames
<1>2. ASSUME NEW d \in Definitions, f \in DOMAIN d, n = d[f].rname
      PROVE  n \in Names
  BY <1>2, DefinitionTypes, FieldTypes
<1>3. QED
  BY <1>1, <1>2 DEF NamesOf

LEMMA OneOwner ==
  ASSUME NamesApart, NEW f \in Fields, NEW g \in Fields,
         NEW n \in NamesOf(f), n \in NamesOf(g)
  PROVE  f = g
<1>1. CASE n = TmpOf[f] /\ n = TmpOf[g]
  BY <1>1, MigratorAssumption
<1>2. ASSUME NEW d \in Definitions, f \in DOMAIN d, n = d[f].rname
      PROVE  n # TmpOf[g] /\ \A e \in Definitions : g \in DOMAIN e /\ n = e[g].rname => f = g
  BY <1>2 DEF NamesApart
<1>3. ASSUME NEW d \in Definitions, g \in DOMAIN d, n = d[g].rname
      PROVE  n # TmpOf[f]
  BY <1>3 DEF NamesApart
<1>4. QED
  BY <1>1, <1>2, <1>3 DEF NamesOf

LEMMA DefinitionNames ==
  ASSUME NamesApart, NEW d \in Definitions
  PROVE  Declared(d)
<1>1. \A f \in DOMAIN d : f \in Fields /\ d[f].rname \in NamesOf(f)
  BY DefinitionTypes DEF IsFields
<1>2. QED
  BY <1>1 DEF Declared, NamesApart

LEMMA TmpName == ASSUME NEW f PROVE TmpOf[f] \in NamesOf(f)
BY DEF NamesOf

LEMMA OwnedBy ==
  ASSUME NamesApart, NEW t, Owned(t), NEW n \in DOMAIN t, NEW f \in Fields,
         n \in NamesOf(f)
  PROVE  t[n].data \in {f, NoData}
<1> PICK g \in Fields : n \in NamesOf(g) /\ t[n].data \in {g, NoData}
  BY DEF Owned
<1>1. f = g
  BY OneOwner
<1>2. QED
  BY <1>1

LEMMA AddOwned ==
  ASSUME NEW t, Owned(t), NEW f \in Fields, NEW n \in NamesOf(f), NEW s,
         Possible(Add(n, s), t)
  PROVE  Owned(Effect(Add(n, s), t))
<1> DEFINE u == Effect(Add(n, s), t)
<1>1. n \notin DOMAIN t /\ u[n].data = NoData
  BY AddEffect
<1>2. \A k : k \in DOMAIN u <=> k \in DOMAIN t \/ k = n
  BY AddEffect
<1>3. \A k \in DOMAIN t : u[k] = t[k]
  BY <1>1, AddLeaves
<1> HIDE DEF u
<1>4. Owned(u)
  BY <1>1, <1>2, <1>3 DEF Owned
<1>5. QED
  BY <1>4 DEF u

LEMMA CopyOwned ==
  ASSUME NamesApart, NEW t, IsColumns(t), Owned(t), NEW f \in Fields,
         NEW n \in NamesOf(f), NEW m \in NamesOf(f), Possible(Copy(n, m), t)
  PROVE  Owned(Effect(Copy(n, m), t))
<1> DEFINE u == Effect(Copy(n, m), t)
<1>1. n \in DOMAIN t /\ m \in DOMAIN t /\ u[n].data = t[m].data
  BY CopyEffect
<1>2. DOMAIN u = DOMAIN t
  BY CopyEffect
<1>3. \A k \in DOMAIN t : k # n => u[k] = t[k]
  BY CopyLeaves
<1>4. t[m].data \in {f, NoData}
  BY <1>1, OwnedBy
<1> HIDE DEF u
<1>5. Owned(u)
  BY <1>1, <1>2, <1>3, <1>4 DEF Owned
<1>6. QED
  BY <1>5 DEF u

LEMMA DropOwned ==
  ASSUME NEW t, Owned(t), NEW n
  PROVE  Owned(Effect(Drop(n), t))
<1> DEFINE u == Effect(Drop(n), t)
<1>1. \A k : k \in DOMAIN u <=> k \in DOMAIN t /\ k # n
  BY DropEffect
<1>2. \A k \in DOMAIN t : k # n => u[k] = t[k]
  BY DropLeaves
<1> HIDE DEF u
<1>3. Owned(u)
  BY <1>1, <1>2 DEF Owned
<1>4. QED
  BY <1>3 DEF u

LEMMA EffectOwned ==
  ASSUME NamesApart, NEW t, IsColumns(t), Owned(t), NEW f \in Fields,
         NEW st \in Statements, OfField(st, f), Possible(st, t)
  PROVE  Owned(Effect(st, t))
<1>1. CASE \E n \in Names, s \in Sqls : st = Add(n, s)
  <2> PICK n \in Names, s \in Sqls : st = Add(n, s)
    BY <1>1
  <2>1. n \in NamesOf(f)
    BY DEF OfField, Add
  <2>2. QED
    BY <2>1, AddOwned
<1>2. CASE \E n, m \in Names : st = Copy(n, m)
  <2> PICK n \in Names, m \in Names : st = Copy(n, m)
    BY <1>2
  <2>1. n \in NamesOf(f) /\ m \in NamesOf(f)
    BY DEF OfField, Copy
  <2>2. QED
    BY <2>1, CopyOwned
<1>3. CASE \E n \in Names : st = Drop(n)
  BY <1>3, DropOwned
<1>4. QED
  BY <1>1, <1>2, <1>3 DEF Statements, Add, Copy, Drop

LEMMA OfFieldIs ==
  ASSUME NEW f, NEW n \in NamesOf(f), NEW m \in NamesOf(f), NEW s
  PROVE  OfField(Add(n, s), f) /\ OfField(Copy(n, m), f) /\ OfField(Drop(n), f)
BY DEF OfField, Add, Copy, Drop

LEMMA QueryOfField ==
  ASSUME NEW old, NEW new, Declared(old), Declared(new),
         NEW f, f \in DOMAIN old \union DOMAIN new
  PROVE  \A i \in DOMAIN Query(f, old, new) : OfField(Query(f, old, new)[i], f)
<1> DEFINE t == new[f].rname
           o == old[f].rname
           u == TmpOf[f]
           s == new[f].sql
           q == Query(f, old, new)
<1>1. (f \in DOMAIN new => t \in NamesOf(f)) /\ (f \in DOMAIN old => o \in NamesOf(f))
      /\ u \in NamesOf(f)
  BY TmpName DEF Declared
<1>2. CASE f \notin DOMAIN old
  <2>1. q = <<Add(t, s)>>
    BY <1>2, QueryCases
  <2> HIDE DEF q, t, o, u, s
  <2>2. OfField(Add(t, s), f)
    BY <1>1, <1>2, OfFieldIs
  <2>3. \A i \in DOMAIN q : OfField(q[i], f)
    BY <2>1, <2>2
  <2>4. QED
    BY <2>3 DEF q
<1>3. CASE f \in DOMAIN old /\ f \notin DOMAIN new
  <2>1. q = IF KeepsColumns THEN << >> ELSE <<Drop(o)>>
    BY <1>3, QueryCases
  <2> HIDE DEF q, t, o, u, s
  <2>2. OfField(Drop(o), f)
    BY <1>1, <1>3, OfFieldIs
  <2>3. \A i \in DOMAIN q : OfField(q[i], f)
    BY <2>1, <2>2
  <2>4. QED
    BY <2>3 DEF q
<1>4. CASE f \in DOMAIN old /\ f \in DOMAIN new
  <2>1. t # o => q = IF KeepsColumns THEN <<Add(t, s), Copy(t, o)>>
                     ELSE <<Add(t, s), Copy(t, o), Drop(o)>>
    BY <1>4, QueryCases
  <2>2. t = o =>
          q = IF KeepsColumns \/ s = old[f].sql \/ s \in Frozen THEN << >>
              ELSE <<Add(u, s), Copy(u, t), Drop(t), Add(t, s), Copy(t, u), Drop(u)>>
    BY <1>4, QueryCases
  <2> HIDE DEF q, t, o, u, s
  <2>3. /\ OfField(Add(t, s), f) /\ OfField(Copy(t, o), f) /\ OfField(Drop(o), f)
        /\ OfField(Drop(t), f) /\ OfField(Drop(u), f)
        /\ OfField(Add(u, s), f) /\ OfField(Copy(u, t), f) /\ OfField(Copy(t, u), f)
    BY <1>1, <1>4, OfFieldIs
  <2>4. t # o => \A i \in DOMAIN q : OfField(q[i], f)
    BY <2>1, <2>3
  <2>5. t = o => \A i \in DOMAIN q : OfField(q[i], f)
    BY <2>2, <2>3
  <2>6. \A i \in DOMAIN q : OfField(q[i], f)
    BY <2>4, <2>5
  <2>7. QED
    BY <2>6 DEF q
<1>5. QED
  BY <1>2, <1>3, <1>4

LEMMA UpdatedDeclared ==
  ASSUME NEW old, NEW new, Declared(old), Declared(new),
         NEW f, f \in DOMAIN old \union DOMAIN new
  PROVE  Declared(Updated(f, old, new))
<1> DEFINE u == Updated(f, old, new)
<1>1. ASSUME NEW g \in DOMAIN u
      PROVE  u[g].rname \in NamesOf(g) /\ u[g].rname # TmpOf[g]
  <2>1. CASE g # f
    <3>1. g \in DOMAIN old /\ u[g] = old[g]
      BY <1>1, <2>1, UpdatedLeaves
    <3>2. QED
      BY <3>1 DEF Declared
  <2>2. CASE g = f /\ f \in DOMAIN new
    <3>1. u[f] = new[f]
      BY <2>2, UpdatedIn
    <3>2. QED
      BY <2>2, <3>1 DEF Declared
  <2>3. CASE g = f /\ f \notin DOMAIN new
    <3>1. f \in DOMAIN old /\ u = old
      BY <1>1, <2>3, UpdatedOut
    <3>2. QED
      BY <2>3, <3>1 DEF Declared
  <2>4. QED
    BY <2>1, <2>2, <2>3
<1>2. QED
  BY <1>1 DEF Declared

LEMMA TableOwned ==
  ASSUME NEW d, IsFields(d), Declared(d), NEW S, S \subseteq Fields
  PROVE  Owned(TableOf(d, S))
<1> DEFINE u == TableOf(d, S)
<1>1. \A n \in DOMAIN u : \E g \in DOMAIN d :
        d[g].rname = n /\ u[n].data = IF g \in S THEN g ELSE NoData
  BY TableFacts
<1> HIDE DEF u
<1>2. \A n \in DOMAIN u : \E g \in Fields : n \in NamesOf(g) /\ u[n].data \in {g, NoData}
  BY <1>1 DEF Declared, IsFields
<1>3. QED
  BY <1>2 DEF Owned, u

LEMMA NoNames == Declared(NoFields) /\ Owned(NoFields)
BY DEF Declared, Owned, NoFields

LEMMA NamingInit == NamesApart /\ Init => Naming
<1> SUFFICES ASSUME NamesApart, Init PROVE Naming
  OBVIOUS
<1>1. Declared(file.fields) /\ Owned(columns)
  <2>1. CASE columns = NoFields /\ file = Missing
    BY <2>1, NoNames DEF Missing
  <2>2. ASSUME NEW d \in Definitions, columns = TableOf(d, DOMAIN d), file = Full(d)
        PROVE  Declared(file.fields) /\ Owned(columns)
    <3>1. IsFields(d) /\ Declared(d) /\ DOMAIN d \subseteq Fields
      BY DefinitionTypes, DefinitionNames DEF IsFields
    <3>2. QED
      BY <2>2, <3>1, TableOwned DEF Full
  <2>3. QED
    BY <2>1, <2>2 DEF Init
<1>2. QED
  BY <1>1, NoNames DEF Init, Naming, OfOne

\* A step of p that leaves the table and the queries.
LEMMA NamingFrame ==
  ASSUME Naming, Declared(file'.fields), UNCHANGED <<columns, pending, query>>,
         \A q \in Procs : Declared(want'[q]) /\ Declared(cur'[q])
  PROVE  Naming'
BY DEF Naming, OfOne, OfField, Declared, Owned

LEMMA NamingLeave ==
  ASSUME Typed, Naming, NEW p \in Procs, NEW l \in PCs, Leave(p, l),
         Declared(file'.fields), Owned(columns'), Owned(pending'), UNCHANGED want
  PROVE  Naming'
<1>1. cur'[p] = NoFields /\ query'[p] = << >>
  BY LeaveIdle DEF Idle
<1>2. \A q \in Procs : q # p => cur'[q] = cur[q] /\ query'[q] = query[q]
  BY LeaveIdle
<1>3. \A q \in Procs : Declared(cur'[q])
  BY <1>1, <1>2, NoNames DEF Naming
<1>4. \A q \in Procs : OfOne(q)'
  BY <1>1, <1>2 DEF Naming, OfOne, OfField, NamesOf
<1>5. QED
  BY <1>3, <1>4 DEF Naming, Declared, NamesOf, Owned

LEMMA NamingTakeKey ==
  ASSUME Typed, Control, Naming, NEW p \in Procs, TakeKey(p)
  PROVE  Naming'
<1> PICK f \in keys[p] :
      /\ cur' = [cur EXCEPT ![p] = Updated(f, cur[p], want[p])]
      /\ query' = [query EXCEPT ![p] = Query(f, cur[p], want[p])]
  BY DEF TakeKey
<1>1. f \in DOMAIN cur[p] \union DOMAIN want[p]
  BY DEF Control, Flow, TakeKey
<1>2. f \in Fields
  BY DEF Typed
<1>3. \A i \in DOMAIN Query(f, cur[p], want[p]) : OfField(Query(f, cur[p], want[p])[i], f)
  BY <1>1, QueryOfField DEF Naming
<1>4. Declared(Updated(f, cur[p], want[p]))
  BY <1>1, UpdatedDeclared DEF Naming
<1>5. query'[p] = Query(f, cur[p], want[p]) /\ cur'[p] = Updated(f, cur[p], want[p])
  BY DEF Typed
<1>6. \A q \in Procs : q # p => query'[q] = query[q] /\ cur'[q] = cur[q]
  BY DEF Typed
<1>7. \A q \in Procs : OfOne(q)'
  BY <1>2, <1>3, <1>5, <1>6 DEF Naming, OfOne, OfField, NamesOf
<1>8. \A q \in Procs : Declared(cur'[q])
  BY <1>4, <1>5, <1>6 DEF Naming
<1>9. QED
  BY <1>7, <1>8 DEF TakeKey, Naming, Declared, NamesOf, Owned, dbVars, fileVars

LEMMA NamingExecute ==
  ASSUME NamesApart, Typed, Naming, NEW p \in Procs, Execute(p)
  PROVE  Naming'
<1> DEFINE st == Head(query[p])
<1>1. query[p] \in Seq(Statements) /\ query[p] # << >>
  BY DEF Typed, Execute
<1> PICK f \in Fields : \A i \in DOMAIN query[p] : OfField(query[p][i], f)
  BY <1>1 DEF Naming, OfOne
<1>2. st \in Statements /\ OfField(st, f)
  BY <1>1
<1>3. Possible(st, pending) /\ pending' = Effect(st, pending)
  BY DEF Execute
<1> HIDE DEF st
<1>4. Owned(pending')
  BY <1>2, <1>3, EffectOwned DEF Typed, Naming
<1>5. columns' = pending' \/ columns' = columns
  BY DEF Execute
<1>6. Owned(columns')
  BY <1>4, <1>5 DEF Naming
<1>7. query'[p] = Tail(query[p]) /\ \A q \in Procs : q # p => query'[q] = query[q]
  BY DEF Typed, Execute
<1>8. \A i \in DOMAIN Tail(query[p]) : OfField(Tail(query[p])[i], f)
  <2>1. ASSUME NEW i \in DOMAIN Tail(query[p])
        PROVE  i + 1 \in DOMAIN query[p] /\ Tail(query[p])[i] = query[p][i + 1]
    BY <1>1, <2>1
  <2>2. QED
    BY <2>1
<1>9. \A i \in DOMAIN query'[p] : OfField(query'[p][i], f)
  BY <1>7, <1>8
<1>10. OfOne(p)'
  BY <1>9 DEF OfOne, OfField, NamesOf
<1>11. \A q \in Procs : q # p => OfOne(q)'
  BY <1>7 DEF Naming, OfOne, OfField, NamesOf
<1>12. QED
  BY <1>4, <1>6, <1>10, <1>11 DEF Naming, Execute, Declared, NamesOf, fileVars, Owned

LEMMA NamingRollback ==
  ASSUME Typed, Control, Naming, NEW p \in Procs, Rollback(p)
  PROVE  Owned(columns') /\ Owned(pending')
BY DEF Naming, Rollback

LEMMA NamingStep == NamesApart /\ Typed /\ Control /\ Naming /\ [Next]_vars => Naming'
<1> SUFFICES ASSUME NamesApart, Typed, Control, Naming, [Next]_vars PROVE Naming'
  OBVIOUS
<1>1. ASSUME NEW p \in Procs, NEW d \in Definitions, Start(p, d) PROVE Naming'
  <2>1. Declared(d)
    BY DefinitionNames
  <2>2. \A q \in Procs : Declared(want'[q])
    BY <1>1, <2>1 DEF Typed, Start, Naming
  <2>3. QED
    BY <1>1, <2>2, NamingFrame DEF Start, Naming, dbVars, fileVars, loopVars
<1>2. ASSUME NEW p \in Procs, Look(p) PROVE Naming'
  BY <1>2, NamingFrame DEF Look, Naming, dbVars, fileVars, loopVars
<1>3. ASSUME NEW p \in Procs, CreateTable(p) PROVE Naming'
  <2>1. \A q \in Procs : cur'[q] = IF q = p THEN want[p] ELSE cur[q]
    BY <1>3 DEF Typed, CreateTable
  <2>2. \A q \in Procs : Declared(cur'[q])
    BY <2>1 DEF Naming
  <2>3. Owned(TableOf(want[p], {}))
    BY TableOwned DEF Typed, Naming
  <2>4. Owned(pending') /\ Owned(columns')
    BY <1>3, <2>3 DEF CreateTable, Naming
  <2>5. \A q \in Procs : OfOne(q)'
    BY <1>3 DEF CreateTable, Naming, OfOne, OfField, NamesOf
  <2>6. QED
    BY <1>3, <2>2, <2>4, <2>5 DEF CreateTable, Naming, fileVars, Declared, NamesOf, Owned
<1>4. ASSUME NEW p \in Procs, Load(p) PROVE Naming'
  <2>1. CASE Leave(p, "failed") \/ Leave(p, "done")
    <3>1. "failed" \in PCs /\ "done" \in PCs
      BY DEF PCs, Resting
    <3>2. QED
      BY <1>4, <2>1, <3>1, NamingLeave DEF Load, Naming, dbVars, fileVars
  <2>2. CASE cur' = [cur EXCEPT ![p] = file.fields] /\ UNCHANGED query
    <3>1. \A q \in Procs : Declared(cur'[q])
      BY <2>2 DEF Typed, Naming
    <3>2. QED
      BY <1>4, <2>2, <3>1, NamingFrame DEF Load, Naming, dbVars, fileVars
  <2>3. file.state \in {"empty", "full"}
    BY <1>4 DEF Typed, Control, Flow, Load
  <2>4. file.state = "full" /\ file.fields = want[p] => file = Full(want[p])
    BY DEF Typed, Full
  <2>5. QED
    BY <1>4, <2>1, <2>2, <2>3, <2>4 DEF Load
<1>5. ASSUME NEW p \in Procs, Finish(p) PROVE Naming'
  <2>1. "done" \in PCs
    BY DEF PCs, Resting
  <2>2. CASE Leave(p, "done")
    BY <1>5, <2>1, <2>2, NamingLeave DEF Finish, Naming, dbVars, fileVars
  <2>3. CASE UNCHANGED <<cur, query>>
    BY <1>5, <2>3, NamingFrame DEF Finish, Naming, dbVars, fileVars
  <2>4. QED
    BY <1>5, <2>2, <2>3 DEF Finish
<1>6. ASSUME NEW p \in Procs, Commit(p) PROVE Naming'
  <2>1. Owned(columns')
    BY <1>6 DEF Commit, Naming
  <2>2. QED
    BY <1>6, <2>1 DEF Commit, Naming, fileVars, loopVars, OfOne, OfField, Declared,
       NamesOf, Owned
<1>7. ASSUME NEW p \in Procs, Open(p) PROVE Naming'
  <2>1. Declared(file'.fields)
    BY <1>7, EmptyTypes, NoNames DEF Open, Naming
  <2>2. QED
    BY <1>7, <2>1, NamingFrame DEF Open, Naming, dbVars, loopVars
<1>8. ASSUME NEW p \in Procs, Lock(p) PROVE Naming'
  <2>1. Declared(file'.fields)
    BY <1>8, EmptyTypes, NoNames DEF Lock
  <2>2. QED
    BY <1>8, <2>1, NamingFrame DEF Lock, Naming, dbVars, loopVars
<1>9. ASSUME NEW p \in Procs, Write(p) PROVE Naming'
  <2>1. Declared(file'.fields)
    BY <1>9, FullTypes DEF Write, Naming
  <2>2. "done" \in PCs
    BY DEF PCs, Resting
  <2>3. CASE Leave(p, "done")
    BY <1>9, <2>1, <2>2, <2>3, NamingLeave DEF Write, Naming, dbVars
  <2>4. CASE UNCHANGED loopVars
    BY <1>9, <2>1, <2>4, NamingFrame DEF Write, Naming, dbVars, loopVars
  <2>5. QED
    BY <1>9, <2>3, <2>4 DEF Write
<1>10. ASSUME NEW p \in Procs, Refused(p) \/ StatementFails(p) \/ Crash(p) PROVE Naming'
  <2>1. /\ Rollback(p) /\ UNCHANGED <<file, want>>
        /\ Leave(p, "failed") \/ Leave(p, "out")
    BY <1>10 DEF Refused, StatementFails, Crash, fileVars
  <2>2. "failed" \in PCs /\ "out" \in PCs
    BY DEF PCs, Resting
  <2>3. QED
    BY <2>1, <2>2, NamingRollback, NamingLeave DEF Naming
<1>11. CASE UNCHANGED vars
  BY <1>11, NamingFrame DEF vars, dbVars, fileVars, loopVars, Naming
<1>12. QED
  BY <1>1, <1>2, <1>3, <1>4, <1>5, <1>6, <1>7, <1>8, <1>9, <1>10, <1>11,
     NamingTakeKey, NamingExecute DEF Next, Step

----------------------------------------------------------------------------
(* The data                                                                *)

\* Some column of t, of a name of f, has the values of f.
Held(f, t) == \E n \in NamesOf(f) \intersect DOMAIN t : t[n].data = f

Fresh(n)     == n \in DOMAIN pending /\ pending[n].data = NoData
Copied(n, m) ==
  n \in DOMAIN pending /\ (m \in DOMAIN pending => pending[n].data = pending[m].data)

\* Nobody else changes the table while p is between two statements.
Mine(p) == ~ KeepsColumns /\ (txn = p \/ engine \notin Overlap)

\* On sqlite others may; but the column p has added is not rolled back by them.
Stays(p, n) ==
  /\ KeepsColumns /\ Fresh(n)
  /\ txn = p \/ n \in DOMAIN columns
  /\ n \in DOMAIN columns => columns[n].data = NoData

\* What is left of the query of field f cannot lose its values.
SafeQuery(p, f, t, o, s) ==
  \/ query[p] = <<Add(t, s)>>
  \/ query[p] = <<Drop(o)>> /\ ~ KeepsColumns /\ f \notin kept
  \/ query[p] = <<Add(t, s), Copy(t, o), Drop(o)>> /\ ~ KeepsColumns
  \/ query[p] = <<Copy(t, o), Drop(o)>> /\ Mine(p) /\ Fresh(t)
  \/ query[p] = <<Drop(o)>> /\ Mine(p) /\ Copied(t, o)
  \/ /\ query[p] = <<Add(t, s), Copy(t, o), Drop(o), Add(o, s), Copy(o, t), Drop(t)>>
     /\ ~ KeepsColumns
  \/ /\ query[p] = <<Copy(t, o), Drop(o), Add(o, s), Copy(o, t), Drop(t)>>
     /\ Mine(p) /\ Fresh(t)
  \/ /\ query[p] = <<Drop(o), Add(o, s), Copy(o, t), Drop(t)>>
     /\ Mine(p) /\ Copied(t, o)
  \/ query[p] = <<Add(t, s), Copy(t, o)>> /\ KeepsColumns
  \/ query[p] = <<Copy(t, o)>> /\ Stays(p, t)

Safe(p) ==
  query[p] # << >> =>
    \E f \in Fields : \E t, o \in NamesOf(f), s \in Sqls : t # o /\ SafeQuery(p, f, t, o, s)

Data ==
  /\ \A f \in kept : Held(f, columns) /\ Held(f, pending)
  /\ KeepsColumns => DOMAIN columns \subseteq DOMAIN pending
  /\ \A p \in Procs : Busy(p) => kept \subseteq DOMAIN want[p]
  /\ \A p \in Procs : Safe(p)
  /\ \A p, q \in Procs : \A n, m, k \in Names :
       KeepsColumns /\ query[p] = <<Copy(n, m)>> /\ query[q] = <<Copy(n, k)>> => p = q

----------------------------------------------------------------------------
(* The values a statement leaves in a table                                *)

LEMMA AddHeld ==
  ASSUME NEW t, NEW n, NEW s, Possible(Add(n, s), t), NEW g, Held(g, t)
  PROVE  Held(g, Effect(Add(n, s), t))
<1> DEFINE u == Effect(Add(n, s), t)
<1>1. n \notin DOMAIN t /\ \A k : k \in DOMAIN u <=> k \in DOMAIN t \/ k = n
  BY AddEffect
<1>2. \A k \in DOMAIN t : u[k] = t[k]
  BY <1>1, AddLeaves
<1> HIDE DEF u
<1>3. Held(g, u)
  BY <1>1, <1>2 DEF Held
<1>4. QED
  BY <1>3 DEF u

LEMMA CopyHeld ==
  ASSUME NEW t, IsColumns(t), NEW n, NEW m, Possible(Copy(n, m), t),
         t[n].data = NoData, NEW g \in Fields, Held(g, t)
  PROVE  Held(g, Effect(Copy(n, m), t))
<1> DEFINE u == Effect(Copy(n, m), t)
<1>1. DOMAIN u = DOMAIN t
  BY CopyEffect
<1>2. \A k \in DOMAIN t : k # n => u[k] = t[k]
  BY CopyLeaves
<1> HIDE DEF u
<1> PICK k \in NamesOf(g) \intersect DOMAIN t : t[k].data = g
  BY DEF Held
<1>3. k # n
  BY MigratorAssumption
<1>4. Held(g, u)
  BY <1>1, <1>2, <1>3 DEF Held
<1>5. QED
  BY <1>4 DEF u

LEMMA DropHeld ==
  ASSUME NamesApart, NEW t, NEW f \in Fields,
         NEW n \in NamesOf(f), NEW g \in Fields, g # f, Held(g, t)
  PROVE  Held(g, Effect(Drop(n), t))
<1> DEFINE u == Effect(Drop(n), t)
<1>1. \A k : k \in DOMAIN u <=> k \in DOMAIN t /\ k # n
  BY DropEffect
<1>2. \A k \in DOMAIN t : k # n => u[k] = t[k]
  BY DropLeaves
<1> HIDE DEF u
<1> PICK k \in NamesOf(g) \intersect DOMAIN t : t[k].data = g
  BY DEF Held
<1>3. k # n
  BY OneOwner
<1>4. Held(g, u)
  BY <1>1, <1>2, <1>3 DEF Held
<1>5. QED
  BY <1>4 DEF u

\* The column may go when another has its values.
LEMMA DropCopied ==
  ASSUME NEW t, NEW f, NEW n, NEW m \in NamesOf(f), n # m, m \in DOMAIN t,
         n \in DOMAIN t => t[m].data = t[n].data, Held(f, t)
  PROVE  Held(f, Effect(Drop(n), t))
<1> DEFINE u == Effect(Drop(n), t)
<1>1. \A k : k \in DOMAIN u <=> k \in DOMAIN t /\ k # n
  BY DropEffect
<1>2. \A k \in DOMAIN t : k # n => u[k] = t[k]
  BY DropLeaves
<1> HIDE DEF u
<1> PICK k \in NamesOf(f) \intersect DOMAIN t : t[k].data = f
  BY DEF Held
<1>3. CASE k # n
  <2>1. Held(f, u)
    BY <1>1, <1>2, <1>3 DEF Held
  <2>2. QED
    BY <2>1 DEF u
<1>4. CASE k = n
  <2>1. m \in DOMAIN u /\ u[m].data = f
    BY <1>1, <1>2, <1>4
  <2>2. Held(f, u)
    BY <2>1 DEF Held
  <2>3. QED
    BY <2>2 DEF u
<1>5. QED
  BY <1>3, <1>4

----------------------------------------------------------------------------
(* What is left of a query                                                 *)

LEMMA TailOne == ASSUME NEW s, NEW x, s = <<x>> PROVE s # << >> /\ Tail(s) = << >>
OBVIOUS

LEMMA SafeHead ==
  ASSUME NEW p, NEW f, NEW t, NEW o, NEW s, SafeQuery(p, f, t, o, s)
  PROVE  \/ Head(query[p]) = Add(t, s)
         \/ Head(query[p]) = Copy(t, o) /\ Fresh(t)
         \/ Head(query[p]) = Drop(o) /\ ~ KeepsColumns /\ (f \notin kept \/ Copied(t, o))
BY DEF SafeQuery, Stays, Mine

\* The query of a key as the loop starts it.
LEMMA QueryForms ==
  ASSUME NEW old, NEW new, IsFields(old), IsFields(new), Declared(old), Declared(new),
         NEW f, f \in DOMAIN old \union DOMAIN new, Query(f, old, new) # << >>
  PROVE  \E t, o \in NamesOf(f), s \in Sqls : t # o /\
           \/ Query(f, old, new) = <<Add(t, s)>>
           \/ Query(f, old, new) = <<Drop(o)>> /\ ~ KeepsColumns /\ f \notin DOMAIN new
           \/ Query(f, old, new) = <<Add(t, s), Copy(t, o), Drop(o)>> /\ ~ KeepsColumns
           \/ /\ Query(f, old, new) =
                   <<Add(t, s), Copy(t, o), Drop(o), Add(o, s), Copy(o, t), Drop(t)>>
              /\ ~ KeepsColumns
           \/ Query(f, old, new) = <<Add(t, s), Copy(t, o)>> /\ KeepsColumns
<1>1. TmpOf[f] \in NamesOf(f)
  BY TmpName
<1>2. f \in DOMAIN new => /\ new[f].rname \in NamesOf(f) /\ new[f].rname # TmpOf[f]
                          /\ new[f].sql \in Sqls
  BY FieldTypes DEF Declared
<1>3. f \in DOMAIN old => /\ old[f].rname \in NamesOf(f) /\ old[f].rname # TmpOf[f]
                          /\ old[f].sql \in Sqls
  BY FieldTypes DEF Declared
<1>4. CASE f \notin DOMAIN old
  <2>1. Query(f, old, new) = <<Add(new[f].rname, new[f].sql)>>
    BY <1>4, QueryCases
  <2>2. QED
    BY <1>1, <1>2, <1>4, <2>1
<1>5. CASE f \in DOMAIN old /\ f \notin DOMAIN new
  <2>1. Query(f, old, new) = <<Drop(old[f].rname)>> /\ ~ KeepsColumns
    BY <1>5, QueryCases
  <2>2. QED
    BY <1>1, <1>3, <1>5, <2>1
<1>6. CASE f \in DOMAIN old /\ f \in DOMAIN new
  <2>1. CASE new[f].rname # old[f].rname
    <3>1. Query(f, old, new) =
            IF KeepsColumns
            THEN <<Add(new[f].rname, new[f].sql), Copy(new[f].rname, old[f].rname)>>
            ELSE <<Add(new[f].rname, new[f].sql), Copy(new[f].rname, old[f].rname),
                   Drop(old[f].rname)>>
      BY <1>6, <2>1, QueryCases
    <3>2. QED
      BY <1>2, <1>3, <1>6, <2>1, <3>1
  <2>2. CASE new[f].rname = old[f].rname
    <3>1. /\ ~ KeepsColumns
          /\ Query(f, old, new) =
               <<Add(TmpOf[f], new[f].sql), Copy(TmpOf[f], new[f].rname),
                 Drop(new[f].rname), Add(new[f].rname, new[f].sql),
                 Copy(new[f].rname, TmpOf[f]), Drop(TmpOf[f])>>
      BY <1>6, <2>2, QueryCases
    <3>2. QED
      BY <1>1, <1>2, <1>6, <3>1
  <2>3. QED
    BY <2>1, <2>2
<1>7. QED
  BY <1>4, <1>5, <1>6

LEMMA Querying ==
  ASSUME Control, NEW p \in Procs, query[p] # << >>
  PROVE  /\ Busy(p) /\ ~ final[p] /\ pc[p] \in Working
         /\ pc[p] = "commit" => engine = "mysql"
BY DEF Control, Flow, Idle, Working, Busy, Resting

LEMMA SafeFrame ==
  ASSUME NEW q, Safe(q), query'[q] = query[q], engine' = engine, kept' \subseteq kept,
         query[q] # << >> /\ Mine(q) => Mine(q)' /\ UNCHANGED pending,
         \A t, o \in Names : query[q] = <<Copy(t, o)>> /\ Stays(q, t) => Stays(q, t)'
  PROVE  Safe(q)'
<1> SUFFICES ASSUME query[q] # << >> PROVE Safe(q)'
  BY DEF Safe
<1> PICK f \in Fields : \E t, o \in NamesOf(f), s \in Sqls : t # o /\ SafeQuery(q, f, t, o, s)
  BY DEF Safe
<1> PICK t \in NamesOf(f), o \in NamesOf(f), s \in Sqls : t # o /\ SafeQuery(q, f, t, o, s)
  OBVIOUS
<1>1. t \in Names /\ o \in Names
  BY NamesOfTypes
<1>2. KeepsColumns' = KeepsColumns
  BY DEF KeepsColumns
<1>3. Mine(q) => /\ Fresh(t) => Fresh(t)'
                 /\ Copied(t, o) => Copied(t, o)'
  BY DEF Fresh, Copied
<1>4. SafeQuery(q, f, t, o, s)'
  <2>1. CASE \/ query[q] = <<Add(t, s)>>
             \/ query[q] = <<Drop(o)>> /\ ~ KeepsColumns /\ f \notin kept
             \/ query[q] = <<Add(t, s), Copy(t, o), Drop(o)>> /\ ~ KeepsColumns
             \/ /\ query[q] = <<Add(t, s), Copy(t, o), Drop(o), Add(o, s), Copy(o, t), Drop(t)>>
                /\ ~ KeepsColumns
             \/ query[q] = <<Add(t, s), Copy(t, o)>> /\ KeepsColumns
    BY <1>2, <2>1 DEF SafeQuery
  <2>2. CASE query[q] = <<Copy(t, o)>> /\ Stays(q, t)
    BY <1>1, <2>2 DEF SafeQuery
  <2>3. CASE /\ \/ query[q] = <<Copy(t, o), Drop(o)>>
                \/ query[q] = <<Copy(t, o), Drop(o), Add(o, s), Copy(o, t), Drop(t)>>
             /\ Mine(q) /\ Fresh(t)
    <3>1. Mine(q)' /\ Fresh(t)'
      BY <1>3, <2>3
    <3>2. QED
      BY <2>3, <3>1 DEF SafeQuery
  <2>4. CASE /\ \/ query[q] = <<Drop(o)>>
                \/ query[q] = <<Drop(o), Add(o, s), Copy(o, t), Drop(t)>>
             /\ Mine(q) /\ Copied(t, o)
    <3>1. Mine(q)' /\ Copied(t, o)'
      BY <1>3, <2>4
    <3>2. QED
      BY <2>4, <3>1 DEF SafeQuery
  <2>5. QED
    BY <2>1, <2>2, <2>3, <2>4 DEF SafeQuery
<1>5. QED
  BY <1>4 DEF Safe, NamesOf

\* A column added on sqlite, and its copy not made yet.
LEMMA CopierStays ==
  ASSUME NEW q, Safe(q), NEW n \in Names, NEW m \in Names, KeepsColumns,
         query[q] = <<Copy(n, m)>>
  PROVE  Stays(q, n)
<1> PICK f \in Fields : \E t, o \in NamesOf(f), s \in Sqls : t # o /\ SafeQuery(q, f, t, o, s)
  BY DEF Safe
<1> PICK t \in NamesOf(f), o \in NamesOf(f), s \in Sqls : t # o /\ SafeQuery(q, f, t, o, s)
  OBVIOUS
<1>1. query[q] = <<Copy(t, o)>> /\ Stays(q, t)
  BY DEF SafeQuery, Add, Copy, Drop
<1>2. n = t
  BY <1>1 DEF Copy
<1>3. QED
  BY <1>1, <1>2

----------------------------------------------------------------------------
(* Nothing is lost, action by action                                       *)

\* Of two processes in define_table, the engine lets them overlap.
LEMMA Alone ==
  ASSUME Control, NEW p \in Procs, NEW q \in Procs, Busy(p), Busy(q), p # q
  PROVE  engine \in Overlap
BY DEF Control

\* The table after a statement.
LEMMA ExecuteTable ==
  ASSUME NamesApart, Typed, Naming, Data, NEW p \in Procs, Execute(p)
  PROVE  /\ \A g \in kept : Held(g, pending')
         /\ KeepsColumns => DOMAIN pending \subseteq DOMAIN pending'
<1> PICK f \in Fields : \E t, o \in NamesOf(f), s \in Sqls : t # o /\ SafeQuery(p, f, t, o, s)
  BY DEF Data, Safe, Execute
<1> PICK t \in NamesOf(f), o \in NamesOf(f), s \in Sqls : t # o /\ SafeQuery(p, f, t, o, s)
  OBVIOUS
<1> DEFINE st == Head(query[p])
<1>1. Possible(st, pending) /\ pending' = Effect(st, pending)
  BY DEF Execute
<1>2. \/ st = Add(t, s)
      \/ st = Copy(t, o) /\ Fresh(t)
      \/ st = Drop(o) /\ ~ KeepsColumns /\ (f \notin kept \/ Copied(t, o))
  BY SafeHead
<1> HIDE DEF st
<1>3. IsColumns(pending) /\ kept \subseteq Fields /\ \A g \in kept : Held(g, pending)
  BY DEF Typed, Data
<1>4. CASE st = Add(t, s)
  <2>1. Possible(Add(t, s), pending) /\ pending' = Effect(Add(t, s), pending)
    BY <1>1, <1>4
  <2>2. \A k \in DOMAIN pending : k \in DOMAIN pending'
    BY <2>1, AddEffect
  <2>3. \A g \in kept : Held(g, Effect(Add(t, s), pending))
    BY <1>3, <2>1, AddHeld
  <2>4. QED
    BY <2>1, <2>2, <2>3
<1>5. CASE st = Copy(t, o) /\ Fresh(t)
  <2>1. Possible(Copy(t, o), pending) /\ pending' = Effect(Copy(t, o), pending)
    BY <1>1, <1>5
  <2>2. DOMAIN pending' = DOMAIN pending
    BY <1>3, <2>1, CopyEffect
  <2>3. pending[t].data = NoData
    BY <1>5 DEF Fresh
  <2>4. \A g \in kept : Held(g, Effect(Copy(t, o), pending))
    BY <1>3, <2>1, <2>3, CopyHeld
  <2>5. QED
    BY <2>1, <2>2, <2>4
<1>6. CASE st = Drop(o) /\ ~ KeepsColumns /\ (f \notin kept \/ Copied(t, o))
  <2>1. Possible(Drop(o), pending) /\ pending' = Effect(Drop(o), pending)
    BY <1>1, <1>6
  <2>2. ASSUME NEW g \in kept, g # f PROVE Held(g, Effect(Drop(o), pending))
    BY <1>3, <2>2, DropHeld
  <2>3. ASSUME f \in kept PROVE Held(f, Effect(Drop(o), pending))
    <3>1. t \in DOMAIN pending /\ (o \in DOMAIN pending => pending[t].data = pending[o].data)
      BY <1>6, <2>3 DEF Copied
    <3>2. Held(f, pending)
      BY <1>3, <2>3
    <3>3. QED
      BY <3>1, <3>2, DropCopied
  <2>4. QED
    BY <1>6, <2>1, <2>2, <2>3
<1>7. QED
  BY <1>2, <1>4, <1>5, <1>6

\* The rest of its own query.
LEMMA ExecuteSafe ==
  ASSUME "mysql" \notin Overlap, Typed, Control, Data,
         NEW p \in Procs, Execute(p)
  PROVE  Safe(p)'
<1> PICK f \in Fields : \E t, o \in NamesOf(f), s \in Sqls : t # o /\ SafeQuery(p, f, t, o, s)
  BY DEF Data, Safe, Execute
<1> PICK t \in NamesOf(f), o \in NamesOf(f), s \in Sqls : t # o /\ SafeQuery(p, f, t, o, s)
  OBVIOUS
<1> DEFINE st == Head(query[p])
<1>1. /\ Possible(st, pending) /\ pending' = Effect(st, pending)
      /\ \/ columns' = pending' /\ txn' = NoOne /\ CommitsAtOnce(p, st.do = "copy")
         \/ txn' = p /\ columns' = columns
      /\ engine' = engine
  BY DEF Execute
<1>2. query'[p] = Tail(query[p])
  BY DEF Typed, Execute
<1>3. ~ KeepsColumns => Mine(p)'
  BY <1>1 DEF Mine, CommitsAtOnce, KeepsColumns
<1>4. ASSUME NEW n, NEW r, st = Add(n, r)
      PROVE  Fresh(n)' /\ (KeepsColumns => Stays(p, n)')
  <2>1. /\ n \notin DOMAIN pending /\ n \in DOMAIN pending'
        /\ pending'[n].data = NoData
    BY <1>1, <1>4, AddEffect
  <2>2. Fresh(n)'
    BY <2>1 DEF Fresh
  <2>3. ASSUME KeepsColumns PROVE Stays(p, n)'
    <3>1. KeepsColumns'
      BY <1>1, <2>3 DEF KeepsColumns
    <3>2. n \notin DOMAIN columns
      BY <2>1, <2>3 DEF Data
    <3>3. /\ txn' = p \/ n \in DOMAIN columns'
          /\ n \in DOMAIN columns' => columns'[n].data = NoData
      BY <1>1, <2>1, <3>2
    <3>4. QED
      BY <2>2, <3>1, <3>3 DEF Stays
  <2>4. QED
    BY <2>2, <2>3
<1>5. ASSUME NEW n, NEW m, n # m, st = Copy(n, m)
      PROVE  Copied(n, m)'
  <2>1. IsColumns(pending) /\ Possible(Copy(n, m), pending)
        /\ pending' = Effect(Copy(n, m), pending)
    BY <1>1, <1>5 DEF Typed
  <2>2. n \in DOMAIN pending /\ m \in DOMAIN pending /\ DOMAIN pending' = DOMAIN pending
    BY <2>1, CopyEffect
  <2>3. pending'[n].data = pending[m].data
    BY <2>1, <2>2, CopyEffect
  <2>4. pending'[m] = pending[m]
    BY <1>5, <2>1, <2>2, CopyLeaves
  <2>5. QED
    BY <2>2, <2>3, <2>4 DEF Copied
<1>6. KeepsColumns' = KeepsColumns
  BY <1>1 DEF KeepsColumns
<1>7. \/ query'[p] = << >>
      \/ \E a, b \in NamesOf(f) : a # b /\ SafeQuery(p, f, a, b, s)'
  <2>1. CASE \/ query[p] = <<Add(t, s)>> \/ query[p] = <<Drop(o)>>
             \/ query[p] = <<Copy(t, o)>>
    <3>1. query'[p] = << >>
      BY <1>2, <2>1, TailOne
    <3>2. QED
      BY <3>1
  <2>2. CASE query[p] = <<Add(t, s), Copy(t, o), Drop(o)>> /\ ~ KeepsColumns
    <3>1. st = Add(t, s) /\ query'[p] = <<Copy(t, o), Drop(o)>>
      BY <1>2, <2>2
    <3> HIDE DEF st
    <3>2. Mine(p)' /\ Fresh(t)'
      BY <1>3, <1>4, <2>2, <3>1
    <3>3. SafeQuery(p, f, t, o, s)'
      BY <3>1, <3>2 DEF SafeQuery
    <3>4. QED
      BY <3>3
  <2>3. CASE query[p] = <<Copy(t, o), Drop(o)>> /\ Mine(p)
    <3>1. st = Copy(t, o) /\ query'[p] = <<Drop(o)>>
      BY <1>2, <2>3
    <3> HIDE DEF st
    <3>2. Mine(p)' /\ Copied(t, o)'
      BY <1>3, <1>5, <2>3, <3>1 DEF Mine
    <3>3. SafeQuery(p, f, t, o, s)'
      BY <3>1, <3>2 DEF SafeQuery
    <3>4. QED
      BY <3>3
  <2>4. CASE /\ query[p] = <<Add(t, s), Copy(t, o), Drop(o), Add(o, s), Copy(o, t), Drop(t)>>
             /\ ~ KeepsColumns
    <3>1. st = Add(t, s)
          /\ query'[p] = <<Copy(t, o), Drop(o), Add(o, s), Copy(o, t), Drop(t)>>
      BY <1>2, <2>4
    <3> HIDE DEF st
    <3>2. Mine(p)' /\ Fresh(t)'
      BY <1>3, <1>4, <2>4, <3>1
    <3>3. SafeQuery(p, f, t, o, s)'
      BY <3>1, <3>2 DEF SafeQuery
    <3>4. QED
      BY <3>3
  <2>5. CASE /\ query[p] = <<Copy(t, o), Drop(o), Add(o, s), Copy(o, t), Drop(t)>>
             /\ Mine(p)
    <3>1. st = Copy(t, o) /\ query'[p] = <<Drop(o), Add(o, s), Copy(o, t), Drop(t)>>
      BY <1>2, <2>5
    <3> HIDE DEF st
    <3>2. Mine(p)' /\ Copied(t, o)'
      BY <1>3, <1>5, <2>5, <3>1 DEF Mine
    <3>3. SafeQuery(p, f, t, o, s)'
      BY <3>1, <3>2 DEF SafeQuery
    <3>4. QED
      BY <3>3
  <2>6. CASE query[p] = <<Drop(o), Add(o, s), Copy(o, t), Drop(t)>> /\ Mine(p)
    <3>1. query'[p] = <<Add(o, s), Copy(o, t), Drop(t)>>
      BY <1>2, <2>6
    <3>2. ~ KeepsColumns'
      BY <1>6, <2>6 DEF Mine
    <3>3. SafeQuery(p, f, o, t, s)'
      BY <3>1, <3>2 DEF SafeQuery
    <3>4. QED
      BY <3>3
  <2>7. CASE query[p] = <<Add(t, s), Copy(t, o)>> /\ KeepsColumns
    <3>1. st = Add(t, s) /\ query'[p] = <<Copy(t, o)>>
      BY <1>2, <2>7
    <3> HIDE DEF st
    <3>2. Stays(p, t)'
      BY <1>4, <2>7, <3>1
    <3>3. SafeQuery(p, f, t, o, s)'
      BY <3>1, <3>2 DEF SafeQuery
    <3>4. QED
      BY <3>3
  <2>8. QED
    BY <2>1, <2>2, <2>3, <2>4, <2>5, <2>6, <2>7 DEF SafeQuery
<1>8. CASE query'[p] = << >>
  BY <1>8 DEF Safe
<1>9. CASE \E a, b \in NamesOf(f) : a # b /\ SafeQuery(p, f, a, b, s)'
  BY <1>9 DEF Safe, NamesOf
<1>10. QED
  BY <1>7, <1>8, <1>9

\* The queries of the others.
LEMMA ExecuteSafeElsewhere ==
  ASSUME Typed, Control, Data, NEW p \in Procs, Execute(p),
         NEW q \in Procs, q # p
  PROVE  Safe(q)'
<1> DEFINE st == Head(query[p])
<1>1. /\ Possible(st, pending) /\ pending' = Effect(st, pending)
      /\ columns' = pending' \/ columns' = columns
      /\ txn \in {NoOne, p} /\ engine' = engine /\ kept' = kept /\ query[p] # << >>
  BY DEF Execute, ghostVars
<1>2. query'[q] = query[q]
  BY DEF Typed, Execute
<1>3. txn # q
  BY <1>1, MigratorAssumption
<1>4. ~ (query[q] # << >> /\ Mine(q))
  BY <1>1, <1>3, Querying, Alone DEF Mine
<1>5. ASSUME NEW t \in Names, NEW o \in Names, query[q] = <<Copy(t, o)>>, Stays(q, t)
      PROVE  Stays(q, t)'
  <2>1. /\ KeepsColumns /\ t \in DOMAIN columns /\ columns[t].data = NoData
        /\ t \in DOMAIN pending /\ pending[t].data = NoData
    BY <1>3, <1>5 DEF Stays, Fresh
  <2> PICK f \in Fields : \E a, b \in NamesOf(f), s \in Sqls : a # b /\ SafeQuery(p, f, a, b, s)
    BY DEF Data, Safe, Execute
  <2> PICK a \in NamesOf(f), b \in NamesOf(f), s \in Sqls : a # b /\ SafeQuery(p, f, a, b, s)
    OBVIOUS
  <2>2. a \in Names /\ b \in Names
    BY NamesOfTypes
  <2>3. \/ st = Add(a, s)
        \/ st = Copy(a, b) /\ query[p] = <<Copy(a, b)>>
    BY <2>1 DEF SafeQuery, Mine
  <2> HIDE DEF st
  <2>4. t \in DOMAIN pending' /\ pending'[t].data = NoData
    <3>1. CASE st = Add(a, s)
      <4>1. Possible(Add(a, s), pending) /\ pending' = Effect(Add(a, s), pending)
        BY <1>1, <3>1
      <4>2. a \notin DOMAIN pending /\ t \in DOMAIN pending'
        BY <2>1, <4>1, AddEffect
      <4>3. pending'[t] = pending[t]
        BY <2>1, <4>1, <4>2, AddLeaves
      <4>4. QED
        BY <2>1, <4>2, <4>3
    <3>2. CASE st = Copy(a, b) /\ query[p] = <<Copy(a, b)>>
      <4>1. a # t
        BY <1>5, <2>1, <2>2, <3>2 DEF Data
      <4>2. IsColumns(pending) /\ pending' = Effect(Copy(a, b), pending)
        BY <1>1, <3>2 DEF Typed
      <4>3. DOMAIN pending' = DOMAIN pending
        BY <4>2, CopyEffect
      <4>4. pending'[t] = pending[t]
        BY <2>1, <4>1, <4>2, CopyLeaves
      <4>5. QED
        BY <2>1, <4>3, <4>4
    <3>3. QED
      BY <2>3, <3>1, <3>2
  <2>5. t \in DOMAIN columns' /\ columns'[t].data = NoData
    BY <1>1, <2>1, <2>4
  <2>6. QED
    BY <1>1, <2>1, <2>4, <2>5 DEF Stays, Fresh, KeepsColumns
<1>6. Safe(q)
  BY DEF Data
<1>7. QED
  BY <1>1, <1>2, <1>4, <1>5, <1>6, SafeFrame

\* On sqlite no two processes copy into a column.
LEMMA ExecuteCopier ==
  ASSUME Typed, Control, Data, NEW p \in Procs, Execute(p),
         NEW q \in Procs, NEW n \in Names, NEW m \in Names, NEW k \in Names,
         KeepsColumns, query'[p] = <<Copy(n, m)>>, query'[q] = <<Copy(n, k)>>
  PROVE  p = q
<1> SUFFICES ASSUME p # q PROVE FALSE
  OBVIOUS
<1>1. query[q] = <<Copy(n, k)>> /\ query'[p] = Tail(query[p])
  BY DEF Typed, Execute
<1>2. n \in DOMAIN pending
  BY <1>1, CopierStays DEF Data, Stays, Fresh
<1> PICK f \in Fields : \E t, o \in NamesOf(f), s \in Sqls : t # o /\ SafeQuery(p, f, t, o, s)
  BY DEF Data, Safe, Execute
<1> PICK t \in NamesOf(f), o \in NamesOf(f), s \in Sqls : t # o /\ SafeQuery(p, f, t, o, s)
  OBVIOUS
<1>3. \/ query[p] = <<Add(t, s)>> \/ query[p] = <<Copy(t, o)>>
      \/ query[p] = <<Add(t, s), Copy(t, o)>>
  BY DEF SafeQuery, Mine
<1>4. query'[p] = <<Copy(t, o)>> /\ Head(query[p]) = Add(t, s)
  <2>1. query[p] = <<Add(t, s)>> => query'[p] = << >>
    BY <1>1, TailOne
  <2>2. query[p] = <<Copy(t, o)>> => query'[p] = << >>
    BY <1>1, TailOne
  <2>3. query[p] = <<Add(t, s), Copy(t, o)>>
    BY <1>3, <2>1, <2>2
  <2>4. QED
    BY <1>1, <2>3
<1>5. n = t
  BY <1>4 DEF Copy
<1>6. Possible(Add(n, s), pending)
  BY <1>4, <1>5 DEF Execute
<1>7. QED
  BY <1>2, <1>6, AddEffect

LEMMA ExecuteData ==
  ASSUME NamesApart, "mysql" \notin Overlap, Typed, Control, Naming, Data,
         NEW p \in Procs, Execute(p)
  PROVE  Data'
<1>1. /\ columns' = pending' \/ columns' = columns
      /\ engine' = engine /\ kept' = kept /\ want' = want /\ KeepsColumns' = KeepsColumns
  BY DEF Execute, ghostVars, KeepsColumns
<1>2. /\ \A g \in kept : Held(g, pending')
      /\ KeepsColumns => DOMAIN pending \subseteq DOMAIN pending'
  BY ExecuteTable
<1>3. \A g \in kept : Held(g, columns')
  BY <1>1, <1>2 DEF Data
<1>4. KeepsColumns => DOMAIN columns' \subseteq DOMAIN pending'
  BY <1>1, <1>2 DEF Data
<1>5. \A q \in Procs : Busy(q)' => Busy(q)
  BY DEF Typed, Execute, Goto, Busy, Resting
<1>6. \A q \in Procs : Busy(q)' => kept' \subseteq DOMAIN want'[q]
  BY <1>1, <1>5 DEF Data
<1>7. \A q \in Procs : Safe(q)'
  BY ExecuteSafe, ExecuteSafeElsewhere
<1>8. \A q \in Procs : q # p => query'[q] = query[q]
  BY DEF Typed, Execute
<1>9. ASSUME NEW q \in Procs, NEW r \in Procs, NEW n \in Names, NEW m \in Names,
             NEW k \in Names,
             KeepsColumns, query'[q] = <<Copy(n, m)>>, query'[r] = <<Copy(n, k)>>
      PROVE  q = r
  <2>1. CASE q = p
    BY <1>9, <2>1, ExecuteCopier
  <2>2. CASE r = p
    BY <1>9, <2>2, ExecuteCopier
  <2>3. CASE q # p /\ r # p
    BY <1>8, <1>9, <2>3 DEF Data
  <2>4. QED
    BY <2>1, <2>2, <2>3
<1>10. \A g \in kept' : Held(g, columns)' /\ Held(g, pending)'
  BY <1>1, <1>2, <1>3 DEF Held, NamesOf
<1>11. QED
  BY <1>1, <1>4, <1>6, <1>7, <1>9, <1>10 DEF Data, Copy


\* The query of a new key.
LEMMA TakeKeyData ==
  ASSUME Typed, Control, Naming, Data, NEW p \in Procs, TakeKey(p)
  PROVE  Data'
<1> PICK f \in keys[p] : query' = [query EXCEPT ![p] = Query(f, cur[p], want[p])]
  BY DEF TakeKey
<1>1. /\ f \in Fields /\ f \in DOMAIN cur[p] \union DOMAIN want[p] /\ Busy(p)
      /\ IsFields(cur[p]) /\ IsFields(want[p]) /\ Declared(cur[p]) /\ Declared(want[p])
  BY DEF Typed, Control, Flow, Naming, TakeKey, Busy, Resting
<1>2. /\ UNCHANGED <<engine, columns, pending, txn, want, kept>>
      /\ KeepsColumns' = KeepsColumns
  BY DEF TakeKey, dbVars, ghostVars, KeepsColumns
<1>3. query'[p] = Query(f, cur[p], want[p]) /\ \A q \in Procs : q # p => query'[q] = query[q]
  BY DEF Typed
<1>4. \A q \in Procs : Busy(q)' => Busy(q)
  BY <1>1 DEF Typed, TakeKey, Goto, Busy, Resting
<1>5. kept \subseteq DOMAIN want[p]
  BY <1>1 DEF Data
<1>6. query'[p] # << >> =>
        \E t, o \in NamesOf(f), s \in Sqls : t # o /\
          \/ query'[p] = <<Add(t, s)>>
          \/ query'[p] = <<Drop(o)>> /\ ~ KeepsColumns /\ f \notin DOMAIN want[p]
          \/ query'[p] = <<Add(t, s), Copy(t, o), Drop(o)>> /\ ~ KeepsColumns
          \/ /\ query'[p] =
                  <<Add(t, s), Copy(t, o), Drop(o), Add(o, s), Copy(o, t), Drop(t)>>
             /\ ~ KeepsColumns
          \/ query'[p] = <<Add(t, s), Copy(t, o)>> /\ KeepsColumns
  BY <1>1, <1>3, QueryForms
<1>7. Safe(p)'
  <2> SUFFICES ASSUME query'[p] # << >> PROVE Safe(p)'
    BY DEF Safe
  <2> PICK t \in NamesOf(f), o \in NamesOf(f), s \in Sqls : t # o /\
         \/ query'[p] = <<Add(t, s)>>
         \/ query'[p] = <<Drop(o)>> /\ ~ KeepsColumns /\ f \notin DOMAIN want[p]
         \/ query'[p] = <<Add(t, s), Copy(t, o), Drop(o)>> /\ ~ KeepsColumns
         \/ /\ query'[p] =
                 <<Add(t, s), Copy(t, o), Drop(o), Add(o, s), Copy(o, t), Drop(t)>>
            /\ ~ KeepsColumns
         \/ query'[p] = <<Add(t, s), Copy(t, o)>> /\ KeepsColumns
    BY <1>6
  <2>1. SafeQuery(p, f, t, o, s)'
    BY <1>2, <1>5 DEF SafeQuery
  <2>2. QED
    BY <1>1, <2>1 DEF Safe, NamesOf
<1>8. ASSUME NEW q \in Procs, q # p PROVE Safe(q)'
  <2>1. Safe(q) /\ (Mine(q) => Mine(q)') /\ \A t : Stays(q, t) => Stays(q, t)'
    BY <1>2 DEF Data, Mine, Stays, Fresh
  <2>2. QED
    BY <1>2, <1>3, <1>8, <2>1, SafeFrame
<1>9. ASSUME NEW n, NEW m, query'[p] = <<Copy(n, m)>> PROVE FALSE
  <2>1. query'[p] # << >>
    BY <1>9, TailOne
  <2> PICK t \in NamesOf(f), o \in NamesOf(f), s \in Sqls :
         \/ query'[p] = <<Add(t, s)>> \/ query'[p] = <<Drop(o)>>
         \/ query'[p] = <<Add(t, s), Copy(t, o), Drop(o)>>
         \/ query'[p] = <<Add(t, s), Copy(t, o), Drop(o), Add(o, s), Copy(o, t), Drop(t)>>
         \/ query'[p] = <<Add(t, s), Copy(t, o)>>
    BY <1>6, <2>1
  <2>2. Head(query'[p]) = Add(t, s) \/ Head(query'[p]) = Drop(o)
    OBVIOUS
  <2>3. QED
    BY <1>9, <2>2 DEF Add, Copy, Drop
<1>10. \A q, r \in Procs : \A n, m, k \in Names :
         KeepsColumns /\ query'[q] = <<Copy(n, m)>> /\ query'[r] = <<Copy(n, k)>> => q = r
  BY <1>3, <1>9 DEF Data
<1>11. \A g \in kept' : Held(g, columns)' /\ Held(g, pending)'
  BY <1>2 DEF Data, Held, NamesOf
<1>12. \A q \in Procs : Busy(q)' => kept' \subseteq DOMAIN want'[q]
  BY <1>2, <1>4 DEF Data
<1>13. QED
  BY <1>2, <1>7, <1>8, <1>10, <1>11, <1>12 DEF Data, Copy

\* A step that leaves the table and the queries.
LEMMA DataFrame ==
  ASSUME Data, UNCHANGED <<engine, columns, pending, txn, query>>, kept' \subseteq kept,
         \A q \in Procs : Busy(q)' => kept' \subseteq DOMAIN want'[q]
  PROVE  Data'
<1>1. KeepsColumns' = KeepsColumns
  BY DEF KeepsColumns
<1>2. \A g \in kept' : Held(g, columns)' /\ Held(g, pending)'
  BY DEF Data, Held, NamesOf
<1>3. ASSUME NEW q \in Procs PROVE Safe(q)'
  <2>1. Safe(q) /\ (Mine(q) => Mine(q)') /\ \A t : Stays(q, t) => Stays(q, t)'
    BY <1>1 DEF Data, Mine, Stays, Fresh
  <2>2. QED
    BY <1>1, <2>1, SafeFrame
<1>4. QED
  BY <1>1, <1>2, <1>3 DEF Data, Copy

LEMMA CreateTableData ==
  ASSUME Typed, Control, Data, NEW p \in Procs, CreateTable(p)
  PROVE  Data'
<1>1. /\ DOMAIN pending = {} /\ txn \in {NoOne, p} /\ Busy(p) /\ query[p] = << >>
      /\ UNCHANGED <<engine, want, query, kept>> /\ KeepsColumns' = KeepsColumns
      /\ columns' = pending' \/ columns' = columns
  BY DEF Typed, Control, Flow, Idle, CreateTable, Working, Busy, Resting, ghostVars,
     KeepsColumns
<1>2. kept = {}
  BY <1>1 DEF Data, Held
<1>3. KeepsColumns => DOMAIN columns' \subseteq DOMAIN pending'
  BY <1>1 DEF Data
<1>4. ASSUME NEW q \in Procs PROVE Safe(q)'
  <2>1. txn # q \/ q = p
    BY <1>1, MigratorAssumption
  <2>2. ~ (query[q] # << >> /\ Mine(q))
    BY <1>1, <2>1, Querying, Alone DEF Mine
  <2>3. \A t : ~ Stays(q, t)
    BY <1>1 DEF Stays, Fresh
  <2>4. Safe(q)
    BY DEF Data
  <2>5. QED
    BY <1>1, <2>2, <2>3, <2>4, SafeFrame
<1>5. \A q \in Procs : Busy(q)' => kept' \subseteq DOMAIN want'[q]
  BY <1>1, <1>2
<1>6. QED
  BY <1>1, <1>2, <1>3, <1>4, <1>5 DEF Data, Copy

LEMMA CommitData ==
  ASSUME "mysql" \notin Overlap, Typed, Control, Data, NEW p \in Procs, Commit(p)
  PROVE  Data'
<1>1. /\ UNCHANGED <<engine, pending, want, query, kept>> /\ KeepsColumns' = KeepsColumns
      /\ columns' = (IF txn = p THEN pending ELSE columns)
      /\ txn' = (IF txn = p THEN NoOne ELSE txn)
  BY DEF Commit, loopVars, ghostVars, KeepsColumns
<1>2. \A g \in kept' : Held(g, columns)' /\ Held(g, pending)'
  BY <1>1 DEF Data, Held, NamesOf
<1>3. KeepsColumns => DOMAIN columns' \subseteq DOMAIN pending'
  BY <1>1 DEF Data
<1>4. ASSUME NEW q \in Procs PROVE Safe(q)'
  <2>1. query[q] # << >> /\ Mine(q) => Mine(q)'
    <3>1. query[p] # << >> => engine \notin Overlap
      BY Querying DEF Commit
    <3>2. QED
      BY <1>1, <3>1 DEF Mine
  <2>2. ASSUME NEW t \in Names, NEW o \in Names, query[q] = <<Copy(t, o)>>, Stays(q, t)
        PROVE  Stays(q, t)'
    <3>1. query[p] # << >> => ~ KeepsColumns
      BY Querying DEF Commit, KeepsColumns
    <3>2. q # p
      BY <2>2, <3>1 DEF Stays
    <3>3. QED
      BY <1>1, <2>2, <3>2 DEF Stays, Fresh
  <2>3. Safe(q)
    BY DEF Data
  <2>4. QED
    BY <1>1, <2>1, <2>2, <2>3, SafeFrame
<1>5. \A q \in Procs : Busy(q)' => Busy(q)
  BY DEF Typed, Commit, Goto, Busy, Resting
<1>6. QED
  BY <1>1, <1>2, <1>3, <1>4, <1>5 DEF Data, Copy

\* A process ends; its transaction, if it has one, is undone.
LEMMA RollbackData ==
  ASSUME Typed, Control, Data, NEW p \in Procs, NEW l \in Resting, Rollback(p),
         Leave(p, l), Busy(p), UNCHANGED <<engine, want, kept>>
  PROVE  Data'
<1> l \in PCs
  BY DEF PCs
<1>1. /\ columns' = columns /\ KeepsColumns' = KeepsColumns
      /\ pending' = (IF txn = p THEN columns ELSE pending)
      /\ txn' = (IF txn = p THEN NoOne ELSE txn)
  BY DEF Rollback, KeepsColumns
<1>2. /\ query'[p] = << >> /\ pc'[p] = l
      /\ \A q \in Procs : q # p => query'[q] = query[q] /\ pc'[q] = pc[q]
  BY LeaveIdle DEF Idle
<1>3. \A g \in kept' : Held(g, columns)' /\ Held(g, pending)'
  BY <1>1 DEF Data, Held, NamesOf
<1>4. KeepsColumns => DOMAIN columns' \subseteq DOMAIN pending'
  BY <1>1 DEF Data
<1>5. ASSUME NEW q \in Procs, q # p PROVE Safe(q)'
  <2>1. query[q] # << >> /\ Mine(q) => Mine(q)' /\ UNCHANGED pending
    <3>1. query[q] # << >> => engine \in Overlap
      BY <1>5, Querying, Alone
    <3>2. QED
      BY <1>1, <1>5, <3>1 DEF Mine
  <2>2. ASSUME NEW t \in Names, NEW o \in Names, query[q] = <<Copy(t, o)>>, Stays(q, t)
        PROVE  Stays(q, t)'
    BY <1>1, <1>5, <2>2 DEF Stays, Fresh
  <2>3. Safe(q)
    BY DEF Data
  <2>4. QED
    BY <1>1, <1>2, <1>5, <2>1, <2>2, <2>3, SafeFrame
<1>6. Safe(p)'
  BY <1>2 DEF Safe
<1>7. \A q \in Procs : Busy(q)' => Busy(q)
  BY <1>2 DEF Busy
<1>8. \A q, r \in Procs : \A n, m, k \in Names :
        KeepsColumns /\ query'[q] = <<Copy(n, m)>> /\ query'[r] = <<Copy(n, k)>> => q = r
  BY <1>2 DEF Data
<1>9. QED
  BY <1>1, <1>3, <1>4, <1>5, <1>6, <1>7, <1>8 DEF Data, Copy

LEMMA DataInit == Init => Data
<1> SUFFICES ASSUME Init PROVE Data
  OBVIOUS
<1>1. \A g \in kept : Held(g, columns)
  <2>1. CASE kept = {}
    BY <2>1
  <2>2. ASSUME NEW d \in Definitions, columns = TableOf(d, DOMAIN d), kept = DOMAIN d
        PROVE  \A g \in kept : Held(g, columns)
    <3>1. IsFields(d) /\ DOMAIN d \subseteq Fields /\ \A g \in DOMAIN d : d[g].rname \in NamesOf(g)
      BY DefinitionTypes DEF IsFields
    <3>2. ASSUME NEW g \in DOMAIN d PROVE Held(g, columns)
      <4>1. d[g].rname \in DOMAIN columns
        BY <2>2, <3>1, TableFacts
      <4> PICK h \in DOMAIN d :
             /\ d[h].rname = d[g].rname
             /\ columns[d[g].rname].data = IF h \in DOMAIN d THEN h ELSE NoData
        BY <2>2, <3>1, <4>1, TableFacts
      <4>2. h = g
        BY MigratorAssumption
      <4>3. QED
        BY <3>1, <4>1, <4>2 DEF Held
    <3>3. QED
      BY <2>2, <3>2
  <2>3. QED
    BY <2>1, <2>2 DEF Init
<1>2. \A p \in Procs : ~ Busy(p) /\ query[p] = << >>
  BY DEF Init, Busy, Resting
<1>3. QED
  BY <1>1, <1>2 DEF Init, Data, Safe

LEMMA DataStep ==
  ASSUME NamesApart, "mysql" \notin Overlap, Typed, Control, Naming, Data, [Next]_vars
  PROVE  Data'
<1>1. ASSUME NEW p \in Procs, NEW d \in Definitions, Start(p, d) PROVE Data'
  <2>1. /\ UNCHANGED <<engine, columns, pending, txn, query>>
        /\ kept' = kept \intersect DOMAIN d /\ want'[p] = d
        /\ \A q \in Procs : q # p => want'[q] = want[q] /\ pc'[q] = pc[q]
    BY <1>1 DEF Typed, Start, Goto, dbVars, loopVars
  <2>2. \A q \in Procs : Busy(q)' => kept' \subseteq DOMAIN want'[q]
    BY <2>1 DEF Data, Busy
  <2>3. kept' \subseteq kept
    BY <2>1
  <2>4. QED
    BY <2>1, <2>2, <2>3, DataFrame
<1>2. ASSUME NEW p \in Procs, Busy(p), UNCHANGED <<engine, columns, pending, txn, want, kept>>,
             query' = query, \A q \in Procs : q # p => pc'[q] = pc[q]
      PROVE  Data'
  <2>1. \A q \in Procs : Busy(q)' => Busy(q)
    BY <1>2 DEF Busy
  <2>2. \A q \in Procs : Busy(q)' => kept' \subseteq DOMAIN want'[q]
    BY <1>2, <2>1 DEF Data
  <2>3. QED
    BY <1>2, <2>2, DataFrame
<1>3. ASSUME NEW p \in Procs, NEW l, Leave(p, l), query[p] = << >>
      PROVE  query' = query /\ \A q \in Procs : q # p => pc'[q] = pc[q]
  BY <1>3 DEF Typed, Leave, Goto
<1>4. ASSUME NEW p \in Procs, NEW l, Goto(p, l)
      PROVE  \A q \in Procs : q # p => pc'[q] = pc[q]
  BY <1>4 DEF Typed, Goto
<1>5. ASSUME NEW p \in Procs, Look(p) \/ Open(p) \/ Lock(p) PROVE Data'
  <2>1. Busy(p)
    BY <1>5 DEF Look, Open, Lock, Busy, Resting
  <2>2. UNCHANGED <<engine, columns, pending, txn, want, kept, query>>
        /\ \E l : Goto(p, l)
    BY <1>5 DEF Look, Open, Lock, dbVars, loopVars, ghostVars
  <2>3. QED
    BY <1>2, <1>4, <2>1, <2>2
<1>6. ASSUME NEW p \in Procs, Load(p) \/ Finish(p) \/ Write(p) PROVE Data'
  <2>1. Busy(p)
    BY <1>6 DEF Load, Finish, Write, Busy, Resting
  <2>2. /\ UNCHANGED <<engine, columns, pending, txn, want, kept>>
    BY <1>6 DEF Load, Finish, Write, dbVars, ghostVars
  <2>3. \/ query[p] = << >> /\ \E l : Leave(p, l)
        \/ query' = query /\ \E l : Goto(p, l)
    <3>1. CASE Load(p)
      <4>1. query[p] = << >> /\ file.state \in {"empty", "full"}
        BY <3>1 DEF Typed, Control, Flow, Idle, Working, Load
      <4>2. file.state = "full" /\ file.fields = want[p] => file = Full(want[p])
        BY DEF Typed, Full
      <4>3. QED
        BY <3>1, <4>1, <4>2 DEF Load
    <3>2. CASE Finish(p)
      BY <3>2 DEF Finish
    <3>3. CASE Write(p)
      <4>1. final[p] => query[p] = << >>
        BY Querying
      <4>2. QED
        BY <3>3, <4>1 DEF Write, loopVars
    <3>4. QED
      BY <1>6, <3>1, <3>2, <3>3
  <2>4. QED
    BY <1>2, <1>3, <1>4, <2>1, <2>2, <2>3
<1>7. ASSUME NEW p \in Procs, Refused(p) \/ StatementFails(p) \/ Crash(p) PROVE Data'
  <2>1. /\ Rollback(p) /\ UNCHANGED <<engine, want, kept>>
        /\ Leave(p, "failed") \/ Leave(p, "out")
        /\ Busy(p)
    BY <1>7 DEF Refused, StatementFails, Crash, fileVars, Busy, Resting
  <2>2. "failed" \in Resting /\ "out" \in Resting
    BY DEF Resting
  <2>3. QED
    BY <2>1, <2>2, RollbackData
<1>8. CASE UNCHANGED vars
  <2>1. /\ UNCHANGED <<engine, columns, pending, txn, query, kept>>
        /\ \A q \in Procs : (Busy(q)' <=> Busy(q)) /\ want'[q] = want[q]
    BY <1>8 DEF vars, dbVars, loopVars, ghostVars, Busy
  <2>2. \A q \in Procs : Busy(q)' => kept' \subseteq DOMAIN want'[q]
    BY <2>1 DEF Data
  <2>3. QED
    BY <2>1, <2>2, DataFrame
<1>9. QED
  BY <1>1, <1>5, <1>6, <1>7, <1>8, CreateTableData, TakeKeyData, ExecuteData, CommitData
     DEF Next, Step

\* Whatever is interrupted and started again, the values of a field that no
\* definition since has left out are in some column of the committed table: if
\* no definition gives a field the column name of another field, and processes
\* do not overlap where every statement commits.
THEOREM NothingIsLost ==
  ASSUME NamesApart, "mysql" \notin Overlap
  PROVE  Spec => []DataKept
<1> DEFINE I == Typed /\ Control /\ Naming /\ Data
<1>1. Init => I
  BY ControlInit, NamingInit, DataInit
<1>2. I /\ [Next]_vars => I'
  BY ControlStep, NamingStep, DataStep
<1>3. I => DataKept
  BY DEF Data, DataKept, Held
<1> HIDE DEF I
<1>4. QED
  BY <1>1, <1>2, <1>3, PTL DEF Spec

----------------------------------------------------------------------------
(* Undisturbed migrations                                                  *)

\* Of the names of f the table has those in S.
Only(f, S) == \A n \in NamesOf(f) : n \in DOMAIN pending <=> n \in S
Good(f, n) == f \in kept => pending[n].data = f

\* The table has the column t of field f, with its values, and of type s.
FitsAs(f, t, s) ==
  /\ t \in DOMAIN pending /\ Good(f, t)
  /\ ~ KeepsColumns => Only(f, {t}) /\ (s \notin Frozen => pending[t].sql = s)

Absent(f) == f \notin kept /\ (~ KeepsColumns => Only(f, {}))

\* The table has field f as d says.
Fits(f, d) == IF f \in DOMAIN d THEN FitsAs(f, d[f].rname, d[f].sql) ELSE Absent(f)

\* What is left of the query of field f removes it.
Removes(p, f) ==
  /\ f \notin kept /\ ~ KeepsColumns
  /\ \E o \in NamesOf(f) : Only(f, {o}) /\ query[p] = <<Drop(o)>>

\* It ends with the column t, of type s; o is the other one.
Fills(p, f, t, o, s) ==
  \/ query[p] = <<Add(t, s)>> /\ Absent(f)
  \/ /\ query[p] = <<Add(t, s), Copy(t, o), Drop(o)>>
     /\ ~ KeepsColumns /\ Only(f, {o}) /\ Good(f, o)
  \/ /\ query[p] = <<Copy(t, o), Drop(o)>>
     /\ ~ KeepsColumns /\ Only(f, {o, t}) /\ Good(f, o) /\ pending[t].sql = s
  \/ /\ query[p] = <<Drop(o)>>
     /\ ~ KeepsColumns /\ Only(f, {o, t}) /\ Good(f, t) /\ pending[t].sql = s
  \/ /\ query[p] = <<Add(o, s), Copy(o, t), Drop(t), Add(t, s), Copy(t, o), Drop(o)>>
     /\ ~ KeepsColumns /\ Only(f, {t}) /\ Good(f, t)
  \/ /\ query[p] = <<Copy(o, t), Drop(t), Add(t, s), Copy(t, o), Drop(o)>>
     /\ ~ KeepsColumns /\ Only(f, {o, t}) /\ Good(f, t)
  \/ /\ query[p] = <<Drop(t), Add(t, s), Copy(t, o), Drop(o)>>
     /\ ~ KeepsColumns /\ Only(f, {o, t}) /\ Good(f, o)
  \/ /\ query[p] = <<Add(t, s), Copy(t, o)>>
     /\ KeepsColumns /\ o \in DOMAIN pending /\ Good(f, o)
  \/ /\ query[p] = <<Copy(t, o)>>
     /\ KeepsColumns /\ {o, t} \subseteq DOMAIN pending /\ Good(f, o)

HalfWay(p, f) ==
  IF f \in DOMAIN cur[p]
  THEN \E t, o \in NamesOf(f), s \in Sqls :
         /\ t = cur[p][f].rname /\ s = cur[p][f].sql /\ t # o
         /\ Fills(p, f, t, o, s)
  ELSE Removes(p, f)

\* Of field f the table d says what the program asks.
Agrees(f, d, new) ==
  /\ f \in DOMAIN new => f \in DOMAIN d /\ d[f] = new[f]
  /\ f \in DOMAIN d => f \in DOMAIN new \/ KeepsColumns

\* The snapshot is d.
Saved(d) ==
  /\ file.state = "full"
  /\ \A f \in Fields : /\ f \in DOMAIN file.fields <=> f \in DOMAIN d
                       /\ f \in DOMAIN d => file.fields[f] = d[f]

InLoop(p) ==
  /\ query[p] = << >> => \A f \in Fields : Fits(f, cur[p])
  /\ query[p] # << >> =>
       \E f \in Fields \ keys[p] :
          HalfWay(p, f) /\ \A g \in Fields \ {f} : Fits(g, cur[p])
  /\ \A f \in Fields \ keys[p] : Agrees(f, cur[p], want[p])
  /\ ~ changed[p] /\ ~ final[p] => Saved(cur[p])
  /\ pc[p] = "work" /\ query[p] = << >> /\ queried[p] /\ CommitOnAlter => Saved(cur[p])

AtRest ==
  \/ file.state = "missing" /\ DOMAIN pending = {} /\ kept = {}
  \/ file.state = "full" /\ \A f \in Fields : Fits(f, file.fields)

InStep(p) ==
  /\ want[p] = asked /\ kept \subseteq DOMAIN want[p]
  /\ pc[p] \in {"look", "create", "load"} => AtRest
  /\ pc[p] = "create" => file.state = "missing"
  /\ pc[p] = "load" => file.state = "full"
  /\ pc[p] \in Working => InLoop(p)

Calm ==
  ~ disturbed =>
    /\ \A p, q \in Procs : Busy(p) /\ Busy(q) => p = q
    /\ \A p \in Procs : pc[p] # "failed" /\ (Busy(p) => InStep(p) /\ starts > 0)
    /\ Settled =>
         /\ AtRest
         /\ starts > 0 => /\ file.state = "full"
                          /\ \A f \in Fields : Agrees(f, file.fields, asked)

LEMMA FitsAt ==
  ASSUME NEW f, NEW d, NEW e, Fits(f, d), f \in DOMAIN d <=> f \in DOMAIN e,
         f \in DOMAIN d => d[f] = e[f]
  PROVE  Fits(f, e)
BY DEF Fits

\* Fields the step does not touch still fit.
LEMMA FitsFrame ==
  ASSUME NEW f, NEW d, Fits(f, d), f \in DOMAIN d => d[f].rname \in NamesOf(f),
         engine' = engine, kept' \subseteq kept,
         \A n \in NamesOf(f) : /\ n \in DOMAIN pending' <=> n \in DOMAIN pending
                               /\ n \in DOMAIN pending => pending'[n] = pending[n]
  PROVE  Fits(f, d)'
<1>1. KeepsColumns' = KeepsColumns
  BY DEF KeepsColumns
<1>2. \A n \in NamesOf(f)' : n \in NamesOf(f)
  BY DEF NamesOf
<1>3. ASSUME NEW S, Only(f, S) PROVE Only(f, S)'
  BY <1>2, <1>3 DEF Only
<1>4. CASE f \in DOMAIN d
  <2>1. FitsAs(f, d[f].rname, d[f].sql) /\ d[f].rname \in NamesOf(f)
    BY <1>4 DEF Fits
  <2>2. d[f].rname \in DOMAIN pending /\ pending'[d[f].rname] = pending[d[f].rname]
    BY <2>1 DEF FitsAs
  <2>3. Good(f, d[f].rname)'
    BY <2>1, <2>2 DEF FitsAs, Good
  <2>4. FitsAs(f, d[f].rname, d[f].sql)'
    BY <1>1, <1>3, <2>1, <2>2, <2>3 DEF FitsAs
  <2>5. QED
    BY <1>4, <2>4 DEF Fits
<1>5. CASE f \notin DOMAIN d
  <2>1. Absent(f)'
    BY <1>1, <1>3, <1>5 DEF Fits, Absent
  <2>2. QED
    BY <1>5, <2>1 DEF Fits
<1>6. QED
  BY <1>4, <1>5

LEMMA FitsStill ==
  ASSUME NEW f, NEW d, Fits(f, d), f \in DOMAIN d => d[f].rname \in NamesOf(f),
         UNCHANGED <<engine, pending>>, kept' \subseteq kept
  PROVE  Fits(f, d)'
BY FitsFrame

LEMMA FitsNow ==
  ASSUME NEW p, NEW d, d = cur'[p], NEW f, Fits(f, d)'
  PROVE  Fits(f, cur[p])'
BY DEF Fits, FitsAs, Absent, Good, Only

LEMMA FitsSaved ==
  ASSUME NEW d, d = file'.fields, NEW f, Fits(f, d)'
  PROVE  Fits(f, file.fields)'
BY DEF Fits, FitsAs, Absent, Good, Only

\* Names of f in a table of fields.
LEMMA DeclaredNames ==
  ASSUME NEW d, Declared(d), NEW f, f \in DOMAIN d
  PROVE  d[f].rname \in NamesOf(f)
BY DEF Declared

LEMMA AtRestFrame ==
  ASSUME Naming, AtRest, UNCHANGED <<engine, pending, file>>, kept' \subseteq kept
  PROVE  AtRest'
<1>1. CASE file.state = "missing" /\ DOMAIN pending = {} /\ kept = {}
  BY <1>1 DEF AtRest
<1>2. CASE file.state = "full" /\ \A f \in Fields : Fits(f, file.fields)
  <2> PICK d : d = file.fields
    OBVIOUS
  <2>1. \A f \in Fields : Fits(f, d)'
    BY <1>2, DeclaredNames, FitsStill DEF Naming
  <2>2. \A f \in Fields : Fits(f, file.fields)'
    BY <2>1, FitsSaved
  <2>3. QED
    BY <1>2, <2>2 DEF AtRest
<1>3. QED
  BY <1>1, <1>2 DEF AtRest

\* A step of the one process that is in define_table.
LEMMA CalmBusy ==
  ASSUME Typed, Calm, ~ disturbed, NEW p \in Procs, Busy(p),
         \A q \in Procs : q # p => pc'[q] = pc[q], pc'[p] # "failed",
         UNCHANGED <<starts, asked>>,
         pc'[p] \notin Resting => InStep(p)',
         pc'[p] \in Resting =>
           AtRest' /\ file'.state = "full" /\ \A f \in Fields : Agrees(f, file.fields, asked)'
  PROVE  Calm'
<1>1. /\ \A q \in Procs : q # p => ~ Busy(q)
      /\ \A q \in Procs : pc[q] # "failed"
      /\ starts > 0
  BY DEF Calm
<1>2. \A q \in Procs : q # p => ~ Busy(q)'
  BY <1>1 DEF Busy
<1>3. Busy(p)' => InStep(p)'
  BY DEF Busy
<1>4. Settled' => pc'[p] \in Resting
  BY DEF Settled, Busy
<1>5. \A q \in Procs : pc'[q] # "failed"
  BY <1>1
<1>6. QED
  BY <1>1, <1>2, <1>3, <1>4, <1>5 DEF Calm

\* The end of define_table with the snapshot d.
LEMMA RestFull ==
  ASSUME Declared(file'.fields), NEW d, d = file'.fields, file'.state = "full",
         UNCHANGED <<engine, pending, kept>>, \A f \in Fields : Fits(f, d)
  PROVE  AtRest'
<1>1. \A f \in Fields : Fits(f, d)'
  BY DeclaredNames, FitsStill
<1>2. \A f \in Fields : Fits(f, file.fields)'
  BY <1>1, FitsSaved
<1>3. QED
  BY <1>2 DEF AtRest


LEMMA LoopFrame ==
  ASSUME NEW p, InLoop(p), Declared(cur[p]),
         UNCHANGED <<engine, pending, kept, query, cur, keys, want>>,
         (~ changed[p] /\ ~ final[p] => Saved(cur[p]))',
         (pc[p] = "work" /\ query[p] = << >> /\ queried[p] /\ CommitOnAlter
            => Saved(cur[p]))'
  PROVE  InLoop(p)'
<1>1. \A f : Fits(f, cur[p]) => Fits(f, cur[p])'
  BY DEF Fits, FitsAs, Absent, Good, Only, KeepsColumns, NamesOf
<1>2. ASSUME NEW f, HalfWay(p, f) PROVE HalfWay(p, f)'
  <2>1. /\ KeepsColumns' = KeepsColumns
        /\ \A S : Only(f, S) => Only(f, S)'
        /\ \A n : Good(f, n) => Good(f, n)'
    BY DEF KeepsColumns, Only, Good, NamesOf
  <2>2. Absent(f) => Absent(f)'
    BY <2>1 DEF Absent
  <2>3. CASE f \in DOMAIN cur[p]
    <3> PICK t \in NamesOf(f), o \in NamesOf(f), s \in Sqls :
           t = cur[p][f].rname /\ s = cur[p][f].sql /\ t # o /\ Fills(p, f, t, o, s)
      BY <1>2, <2>3 DEF HalfWay
    <3>1. Fills(p, f, t, o, s)'
      BY <2>1, <2>2 DEF Fills
    <3>2. QED
      BY <2>3, <3>1 DEF HalfWay, NamesOf
  <2>4. CASE f \notin DOMAIN cur[p]
    <3>1. Removes(p, f)'
      BY <1>2, <2>1, <2>4 DEF HalfWay, Removes, NamesOf
    <3>2. QED
      BY <2>4, <3>1 DEF HalfWay
  <2>5. QED
    BY <2>3, <2>4
<1>3. \A f : Agrees(f, cur[p], want[p]) => Agrees(f, cur[p], want[p])'
  BY DEF Agrees, KeepsColumns
<1>4. QED
  BY <1>1, <1>2, <1>3 DEF InLoop

LEMMA StartCalm ==
  ASSUME Typed, Naming, Calm, ~ disturbed', NEW p \in Procs, NEW d \in Definitions,
         Start(p, d)
  PROVE  Calm'
<1>1. /\ ~ disturbed /\ Settled /\ \A q \in Procs : ~ Busy(q)
  BY DEF Start, Settled
<1>2. /\ AtRest /\ \A q \in Procs : pc[q] # "failed"
  BY <1>1 DEF Calm
<1>3. /\ pc'[p] = "look" /\ \A q \in Procs : q # p => pc'[q] = pc[q]
      /\ want'[p] = d /\ asked' = d /\ kept' = kept \intersect DOMAIN d
      /\ UNCHANGED <<engine, pending, file>> /\ starts' = starts + 1
  BY DEF Typed, Start, Goto, dbVars, fileVars
<1>4. AtRest'
  BY <1>2, <1>3, AtRestFrame
<1>5. InStep(p)'
  BY <1>3, <1>4 DEF InStep, Working
<1>6. starts' > 0
  BY <1>3, MigratorAssumption DEF Typed
<1>7. \A q \in Procs : q # p => ~ Busy(q)'
  BY <1>1, <1>3 DEF Busy
<1>8. Busy(p)' /\ pc'[p] # "failed"
  BY <1>3 DEF Busy, Resting
<1>9. QED
  BY <1>2, <1>3, <1>5, <1>6, <1>7, <1>8 DEF Calm, Settled

LEMMA LookCalm ==
  ASSUME Typed, Naming, Calm, ~ disturbed', NEW p \in Procs, Look(p)
  PROVE  Calm'
<1>1. ~ disturbed /\ Busy(p)
  BY DEF Look, Busy, Resting, ghostVars
<1>2. InStep(p) /\ AtRest
  BY <1>1 DEF Calm, InStep, Look
<1>3. /\ pc'[p] = (IF file.state = "missing" THEN "create" ELSE "load")
      /\ \A q \in Procs : q # p => pc'[q] = pc[q]
      /\ UNCHANGED <<engine, pending, file, kept, want, starts, asked>>
  BY DEF Typed, Look, Goto, dbVars, fileVars, ghostVars
<1>4. AtRest'
  BY <1>2, <1>3, AtRestFrame
<1>5. pc'[p] = "load" => file'.state = "full"
  BY <1>2, <1>3 DEF AtRest
<1>6. InStep(p)'
  BY <1>2, <1>3, <1>4, <1>5 DEF InStep, Working
<1>7. QED
  BY <1>1, <1>3, <1>6, CalmBusy DEF Resting


LEMMA CreateTableCalm ==
  ASSUME NamesApart, Typed, Control, Naming, Calm, ~ disturbed', NEW p \in Procs,
         CreateTable(p)
  PROVE  Calm'
<1>1. ~ disturbed /\ Busy(p) /\ Idle(p)
  BY DEF Control, Flow, Working, CreateTable, Busy, Resting, ghostVars
<1>2. InStep(p) /\ kept = {}
  <2>1. InStep(p) /\ AtRest /\ file.state = "missing"
    BY <1>1 DEF Calm, InStep, CreateTable
  <2>2. QED
    BY <2>1 DEF AtRest
<1> PICK d : d = want[p]
  OBVIOUS
<1>3. IsFields(d) /\ Declared(d)
  BY DEF Typed, Naming
<1>4. /\ pc'[p] = "commit" /\ \A q \in Procs : q # p => pc'[q] = pc[q]
      /\ pending' = TableOf(d, {}) /\ cur'[p] = d /\ want' = want /\ final'[p] = TRUE
      /\ UNCHANGED <<keys, query, engine, kept, starts, asked>>
  BY DEF Typed, CreateTable, Goto, ghostVars
<1>5. \A n : n \in DOMAIN pending' <=> \E g \in DOMAIN d : n = d[g].rname
  BY <1>3, <1>4, TableFacts
<1>6. \A n \in DOMAIN pending' : \E g \in DOMAIN d :
        d[g].rname = n /\ pending'[n].sql = d[g].sql
  BY <1>3, <1>4, TableFacts
<1>7. ASSUME NEW f \in Fields, NEW g \in DOMAIN d, d[g].rname \in NamesOf(f)
      PROVE  g = f
  BY <1>3, <1>7, OneOwner DEF Declared, IsFields
<1>8. ASSUME NEW f \in Fields PROVE Fits(f, d)'
  <2>1. CASE f \in DOMAIN d
    <3>1. d[f].rname \in DOMAIN pending' /\ d[f].rname \in NamesOf(f)
      BY <1>3, <1>5, <2>1 DEF Declared
    <3>2. pending'[d[f].rname].sql = d[f].sql
      BY <1>6, <1>7, <3>1
    <3>3. Only(f, {d[f].rname})'
      BY <1>5, <1>7, <3>1 DEF Only, NamesOf
    <3>4. Good(f, d[f].rname)'
      BY <1>2, <1>4 DEF Good
    <3>5. FitsAs(f, d[f].rname, d[f].sql)'
      BY <3>1, <3>2, <3>3, <3>4 DEF FitsAs
    <3>6. QED
      BY <2>1, <3>5 DEF Fits
  <2>2. CASE f \notin DOMAIN d
    <3>1. Only(f, {})'
      BY <1>5, <1>7, <2>2 DEF Only, NamesOf
    <3>2. Absent(f)'
      BY <1>2, <1>4, <3>1 DEF Absent
    <3>3. QED
      BY <2>2, <3>2 DEF Fits
  <2>3. QED
    BY <2>1, <2>2
<1>9. \A f \in Fields : Fits(f, cur[p])'
  BY <1>4, <1>8, FitsNow
<1>10. InLoop(p)'
  BY <1>1, <1>4, <1>9 DEF InLoop, Idle, Agrees
<1>11. InStep(p)'
  BY <1>2, <1>4, <1>10 DEF InStep
<1>12. QED
  BY <1>1, <1>4, <1>11, CalmBusy DEF Resting

LEMMA LoadCalm ==
  ASSUME Typed, Control, Naming, Calm, ~ disturbed', NEW p \in Procs, Load(p)
  PROVE  Calm'
<1>1. ~ disturbed /\ Busy(p) /\ Idle(p) /\ IsFields(file.fields) /\ IsFields(want[p])
  BY DEF Typed, Control, Flow, Working, Load, Busy, Resting, ghostVars
<1>2. InStep(p) /\ file.state = "full" /\ \A f \in Fields : Fits(f, file.fields)
  BY <1>1 DEF Calm, InStep, AtRest, Load
<1>3. UNCHANGED <<engine, pending, kept, want, file, starts, asked>>
  BY DEF Load, dbVars, fileVars, ghostVars
<1>4. Declared(file.fields)
  BY DEF Naming
<1>5. CASE file.fields = want[p]
  <2>1. file = Full(want[p])
    BY <1>2, <1>5 DEF Typed, Full
  <2>2. Leave(p, "done") /\ "done" \in PCs
    BY <1>2, <1>5, <2>1 DEF Load, PCs, Resting
  <2>3. pc'[p] = "done" /\ \A q \in Procs : q # p => pc'[q] = pc[q]
    BY <2>2, LeaveIdle
  <2>4. AtRest'
    BY <1>2, <1>3, <1>4, AtRestFrame DEF AtRest
  <2>5. \A f \in Fields : Agrees(f, file.fields, asked)'
    BY <1>2, <1>3, <1>5 DEF Agrees, InStep
  <2>6. QED
    BY <1>1, <1>2, <1>3, <2>3, <2>4, <2>5, CalmBusy DEF Resting
<1>6. CASE file.fields # want[p]
  <2>1. /\ Goto(p, "work") /\ cur' = [cur EXCEPT ![p] = file.fields]
        /\ keys' = [keys EXCEPT ![p] = KeysOf(want[p], file.fields)]
        /\ UNCHANGED <<query, changed, queried, final>>
    BY <1>2, <1>6, FullTypes DEF Load
  <2> PICK d : d = file.fields
    OBVIOUS
  <2>2. /\ pc'[p] = "work" /\ \A q \in Procs : q # p => pc'[q] = pc[q]
        /\ cur'[p] = d /\ keys'[p] = DOMAIN want[p] \union DOMAIN d
    BY <2>1 DEF Typed, Goto, KeysOf
  <2>3. \A f \in Fields : Fits(f, d)'
    BY <1>2, <1>3, <1>4, DeclaredNames, FitsStill
  <2>4. \A f \in Fields : Fits(f, cur[p])'
    BY <2>2, <2>3, FitsNow
  <2>5. \A f \in Fields \ keys'[p] : Agrees(f, cur[p], want[p])'
    BY <1>3, <2>2 DEF Agrees
  <2>6. Saved(cur[p])'
    BY <1>2, <1>3, <2>2 DEF Saved
  <2>7. InLoop(p)'
    BY <1>1, <2>1, <2>4, <2>5, <2>6 DEF InLoop, Idle
  <2>8. InStep(p)'
    BY <1>2, <1>3, <2>2, <2>7 DEF InStep
  <2>9. QED
    BY <1>1, <1>3, <2>2, <2>8, CalmBusy DEF Resting
<1>7. QED
  BY <1>5, <1>6


\* A statement of field f leaves the columns of the others alone.
LEMMA OtherColumns ==
  ASSUME NamesApart, Typed, NEW p \in Procs, Execute(p), NEW f \in Fields,
         OfField(Head(query[p]), f), NEW g \in Fields, g # f, NEW n \in NamesOf(g)
  PROVE  /\ n \in DOMAIN pending' <=> n \in DOMAIN pending
         /\ n \in DOMAIN pending => pending'[n] = pending[n]
<1> DEFINE st == Head(query[p])
<1>1. /\ st \in Statements /\ Possible(st, pending) /\ pending' = Effect(st, pending)
      /\ IsColumns(pending)
  BY DEF Typed, Execute
<1>2. OfField(st, f)
  OBVIOUS
<1> HIDE DEF st
<1>3. CASE \E a \in Names, s \in Sqls : st = Add(a, s)
  <2> PICK a \in Names, s \in Sqls : st = Add(a, s)
    BY <1>3
  <2>1. a # n
    BY <1>2, OneOwner DEF OfField, Add
  <2>2. \A k : k \in DOMAIN pending' <=> k \in DOMAIN pending \/ k = a
    BY <1>1, AddEffect
  <2>3. n \in DOMAIN pending => pending'[n] = pending[n]
    BY <1>1, <2>1, AddLeaves
  <2>4. QED
    BY <2>1, <2>2, <2>3
<1>4. CASE \E a, b \in Names : st = Copy(a, b)
  <2> PICK a \in Names, b \in Names : st = Copy(a, b)
    BY <1>4
  <2>1. a # n
    BY <1>2, OneOwner DEF OfField, Copy
  <2>2. DOMAIN pending' = DOMAIN pending
    BY <1>1, CopyEffect
  <2>3. n \in DOMAIN pending => pending'[n] = pending[n]
    BY <1>1, <2>1, CopyLeaves
  <2>4. QED
    BY <2>2, <2>3
<1>5. CASE \E a \in Names : st = Drop(a)
  <2> PICK a \in Names : st = Drop(a)
    BY <1>5
  <2>1. a # n
    BY <1>2, OneOwner DEF OfField, Drop
  <2>2. \A k : k \in DOMAIN pending' <=> k \in DOMAIN pending /\ k # a
    BY <1>1, DropEffect
  <2>3. n \in DOMAIN pending => pending'[n] = pending[n]
    BY <1>1, <2>1, DropLeaves
  <2>4. QED
    BY <2>1, <2>2, <2>3
<1>6. QED
  BY <1>1, <1>3, <1>4, <1>5 DEF Statements, Add, Copy, Drop

\* The columns of its own, statement by statement.
LEMMA AddOnly ==
  ASSUME NEW t, NEW s, Possible(Add(t, s), pending),
         pending' = Effect(Add(t, s), pending), kept' = kept, NEW f
  PROVE  /\ Only(f, {}) => Only(f, {t})'
         /\ \A o : Only(f, {o}) => Only(f, {o, t})'
         /\ t \in DOMAIN pending' /\ pending'[t].sql = s
         /\ \A o \in DOMAIN pending : o \in DOMAIN pending' /\ (Good(f, o) => Good(f, o)')
<1>1. t \notin DOMAIN pending /\ pending'[t].sql = s
  BY AddEffect
<1>2. \A k : k \in DOMAIN pending' <=> k \in DOMAIN pending \/ k = t
  BY AddEffect
<1>3. \A k \in DOMAIN pending : pending'[k] = pending[k]
  BY <1>1, AddLeaves
<1>4. QED
  BY <1>1, <1>2, <1>3 DEF Only, Good, NamesOf

LEMMA CopyOnly ==
  ASSUME IsColumns(pending), NEW t, NEW o, Possible(Copy(t, o), pending),
         pending' = Effect(Copy(t, o), pending), kept' = kept, NEW f
  PROVE  /\ \A S : Only(f, S) => Only(f, S)'
         /\ DOMAIN pending' = DOMAIN pending /\ pending'[t].sql = pending[t].sql
         /\ Good(f, o) => Good(f, t)'
<1>1. t \in DOMAIN pending /\ DOMAIN pending' = DOMAIN pending
  BY CopyEffect
<1>2. pending'[t].sql = pending[t].sql /\ pending'[t].data = pending[o].data
  BY <1>1, CopyEffect
<1>3. QED
  BY <1>1, <1>2 DEF Only, Good, NamesOf

LEMMA DropOnly ==
  ASSUME NEW o, pending' = Effect(Drop(o), pending), kept' = kept, NEW f
  PROVE  /\ Only(f, {o}) => Only(f, {})'
         /\ \A t : t # o /\ Only(f, {o, t}) => Only(f, {t})'
         /\ \A t \in DOMAIN pending : t # o =>
              /\ t \in DOMAIN pending' /\ pending'[t] = pending[t]
              /\ Good(f, t) => Good(f, t)'
<1>1. \A k : k \in DOMAIN pending' <=> k \in DOMAIN pending /\ k # o
  BY DropEffect
<1>2. \A k \in DOMAIN pending : k # o => pending'[k] = pending[k]
  BY DropLeaves
<1>3. QED
  BY <1>1, <1>2 DEF Only, Good, NamesOf

\* A statement of a query that fills f leaves the rest of one, or f as it was asked.
LEMMA FillsStep ==
  ASSUME Typed, NEW p \in Procs, Execute(p), NEW f \in Fields,
         NEW t \in NamesOf(f), NEW o \in NamesOf(f), t # o, NEW s, Fills(p, f, t, o, s)
  PROVE  \/ query'[p] # << >> /\ Fills(p, f, t, o, s)'
         \/ query'[p] = << >> /\ FitsAs(f, t, s)'
<1> DEFINE st == Head(query[p])
<1>1. /\ Possible(st, pending) /\ pending' = Effect(st, pending) /\ IsColumns(pending)
      /\ engine' = engine /\ kept' = kept /\ KeepsColumns' = KeepsColumns
      /\ query'[p] = Tail(query[p])
  BY DEF Typed, Execute, ghostVars, KeepsColumns
<1>2. ASSUME NEW n, NEW r, st = Add(n, r)
      PROVE  /\ Only(f, {}) => Only(f, {n})'
             /\ \A m : Only(f, {m}) => Only(f, {m, n})'
             /\ n \in DOMAIN pending' /\ pending'[n].sql = r
             /\ \A m \in DOMAIN pending :
                  m \in DOMAIN pending' /\ (Good(f, m) => Good(f, m)')
  <2>1. Possible(Add(n, r), pending) /\ pending' = Effect(Add(n, r), pending)
    BY <1>1, <1>2
  <2>2. QED
    BY <1>1, <2>1, AddOnly
<1>3. ASSUME NEW n, NEW m, st = Copy(n, m)
      PROVE  /\ \A S : Only(f, S) => Only(f, S)'
             /\ DOMAIN pending' = DOMAIN pending /\ pending'[n].sql = pending[n].sql
             /\ Good(f, m) => Good(f, n)'
  <2>1. Possible(Copy(n, m), pending) /\ pending' = Effect(Copy(n, m), pending)
    BY <1>1, <1>3
  <2>2. QED
    BY <1>1, <2>1, CopyOnly
<1>4. ASSUME NEW n, st = Drop(n)
      PROVE  /\ Only(f, {n}) => Only(f, {})'
             /\ \A m : m # n /\ Only(f, {n, m}) => Only(f, {m})'
             /\ \A m \in DOMAIN pending : m # n =>
                  /\ m \in DOMAIN pending' /\ pending'[m] = pending[m]
                  /\ Good(f, m) => Good(f, m)'
  <2>1. pending' = Effect(Drop(n), pending)
    BY <1>1, <1>4
  <2>2. QED
    BY <1>1, <2>1, DropOnly
<1>5. /\ \A a, b : Only(f, {a, b}) => Only(f, {b, a})
      /\ \A a, b : Only(f, {a, b})' => Only(f, {b, a})'
  BY DEF Only
<1>6. \A a, b \in NamesOf(f) : Only(f, {a, b}) => a \in DOMAIN pending /\ b \in DOMAIN pending
  BY DEF Only
<1>7. \A a \in NamesOf(f) : Only(f, {a}) => a \in DOMAIN pending
  BY DEF Only
<1>8. CASE query[p] = <<Add(t, s)>> /\ Absent(f)
  <2>1. st = Add(t, s) /\ query'[p] = << >>
    BY <1>1, <1>8, TailOne
  <2> HIDE DEF st
  <2>2. /\ Only(f, {}) => Only(f, {t})'
        /\ t \in DOMAIN pending' /\ pending'[t].sql = s
    BY <1>2, <2>1
  <2>3. Good(f, t)'
    BY <1>1, <1>8 DEF Absent, Good
  <2>4. FitsAs(f, t, s)'
    BY <1>1, <1>8, <2>2, <2>3 DEF FitsAs, Absent
  <2>5. QED
    BY <2>1, <2>4
<1>9. CASE /\ query[p] = <<Add(t, s), Copy(t, o), Drop(o)>>
           /\ ~ KeepsColumns /\ Only(f, {o}) /\ Good(f, o)
  <2>1. st = Add(t, s) /\ query'[p] = <<Copy(t, o), Drop(o)>>
    BY <1>1, <1>9
  <2> HIDE DEF st
  <2>2. Only(f, {o, t})' /\ pending'[t].sql = s /\ Good(f, o)'
    BY <1>2, <1>7, <1>9, <2>1
  <2>3. Fills(p, f, t, o, s)'
    BY <1>1, <1>9, <2>1, <2>2 DEF Fills
  <2>4. QED
    BY <2>1, <2>3
<1>10. CASE /\ query[p] = <<Copy(t, o), Drop(o)>>
            /\ ~ KeepsColumns /\ Only(f, {o, t}) /\ Good(f, o) /\ pending[t].sql = s
  <2>1. st = Copy(t, o) /\ query'[p] = <<Drop(o)>>
    BY <1>1, <1>10
  <2> HIDE DEF st
  <2>2. Only(f, {o, t})' /\ pending'[t].sql = s /\ Good(f, t)'
    BY <1>3, <1>10, <2>1
  <2>3. Fills(p, f, t, o, s)'
    BY <1>1, <1>10, <2>1, <2>2 DEF Fills
  <2>4. QED
    BY <2>1, <2>3, TailOne
<1>11. CASE /\ query[p] = <<Drop(o)>>
            /\ ~ KeepsColumns /\ Only(f, {o, t}) /\ Good(f, t) /\ pending[t].sql = s
  <2>1. st = Drop(o) /\ query'[p] = << >>
    BY <1>1, <1>11, TailOne
  <2> HIDE DEF st
  <2>2. t \in DOMAIN pending
    BY <1>6, <1>11
  <2>3. t \in DOMAIN pending' /\ pending'[t] = pending[t] /\ Good(f, t)'
    BY <1>4, <1>11, <2>1, <2>2
  <2>4. Only(f, {t})'
    BY <1>4, <1>11, <2>1
  <2>5. FitsAs(f, t, s)'
    BY <1>11, <2>3, <2>4 DEF FitsAs
  <2>6. QED
    BY <2>1, <2>5
<1>12. CASE /\ query[p] = <<Add(o, s), Copy(o, t), Drop(t), Add(t, s), Copy(t, o), Drop(o)>>
            /\ ~ KeepsColumns /\ Only(f, {t}) /\ Good(f, t)
  <2>1. st = Add(o, s)
        /\ query'[p] = <<Copy(o, t), Drop(t), Add(t, s), Copy(t, o), Drop(o)>>
    BY <1>1, <1>12
  <2> HIDE DEF st
  <2>2. Only(f, {t, o})' /\ Good(f, t)'
    BY <1>2, <1>7, <1>12, <2>1
  <2>3. Fills(p, f, t, o, s)'
    BY <1>1, <1>5, <1>12, <2>1, <2>2 DEF Fills
  <2>4. QED
    BY <2>1, <2>3
<1>13. CASE /\ query[p] = <<Copy(o, t), Drop(t), Add(t, s), Copy(t, o), Drop(o)>>
            /\ ~ KeepsColumns /\ Only(f, {o, t}) /\ Good(f, t)
  <2>1. st = Copy(o, t) /\ query'[p] = <<Drop(t), Add(t, s), Copy(t, o), Drop(o)>>
    BY <1>1, <1>13
  <2> HIDE DEF st
  <2>2. Only(f, {o, t})' /\ Good(f, o)'
    BY <1>3, <1>13, <2>1
  <2>3. Fills(p, f, t, o, s)'
    BY <1>1, <1>13, <2>1, <2>2 DEF Fills
  <2>4. QED
    BY <2>1, <2>3
<1>14. CASE /\ query[p] = <<Drop(t), Add(t, s), Copy(t, o), Drop(o)>>
            /\ ~ KeepsColumns /\ Only(f, {o, t}) /\ Good(f, o)
  <2>1. st = Drop(t) /\ query'[p] = <<Add(t, s), Copy(t, o), Drop(o)>>
    BY <1>1, <1>14
  <2> HIDE DEF st
  <2>2. Only(f, {o})' /\ Good(f, o)'
    BY <1>4, <1>5, <1>6, <1>14, <2>1
  <2>3. Fills(p, f, t, o, s)'
    BY <1>1, <1>14, <2>1, <2>2 DEF Fills
  <2>4. QED
    BY <2>1, <2>3
<1>15. CASE /\ query[p] = <<Add(t, s), Copy(t, o)>>
            /\ KeepsColumns /\ o \in DOMAIN pending /\ Good(f, o)
  <2>1. st = Add(t, s) /\ query'[p] = <<Copy(t, o)>>
    BY <1>1, <1>15
  <2> HIDE DEF st
  <2>2. t \in DOMAIN pending' /\ o \in DOMAIN pending' /\ Good(f, o)'
    BY <1>2, <1>15, <2>1
  <2>3. Fills(p, f, t, o, s)'
    BY <1>1, <1>15, <2>1, <2>2 DEF Fills
  <2>4. QED
    BY <2>1, <2>3, TailOne
<1>16. CASE /\ query[p] = <<Copy(t, o)>>
            /\ KeepsColumns /\ {o, t} \subseteq DOMAIN pending /\ Good(f, o)
  <2>1. st = Copy(t, o) /\ query'[p] = << >>
    BY <1>1, <1>16, TailOne
  <2> HIDE DEF st
  <2>2. t \in DOMAIN pending' /\ Good(f, t)'
    BY <1>3, <1>16, <2>1
  <2>3. FitsAs(f, t, s)'
    BY <1>1, <1>16, <2>2 DEF FitsAs
  <2>4. QED
    BY <2>1, <2>3
<1>17. QED
  BY <1>8, <1>9, <1>10, <1>11, <1>12, <1>13, <1>14, <1>15, <1>16 DEF Fills

LEMMA RemovesStep ==
  ASSUME Typed, NEW p \in Procs, Execute(p), NEW f \in Fields, Removes(p, f)
  PROVE  query'[p] = << >> /\ Absent(f)'
<1> PICK o \in NamesOf(f) : Only(f, {o}) /\ query[p] = <<Drop(o)>>
  BY DEF Removes
<1>1. query'[p] = << >>
  BY TailOne DEF Typed, Execute
<1>2. pending' = Effect(Drop(o), pending) /\ kept' = kept
  BY DEF Execute, ghostVars
<1>3. Only(f, {})'
  BY <1>2, DropOnly
<1>4. QED
  BY <1>1, <1>2, <1>3 DEF Removes, Absent

\* Where the database lets columns go, it can execute the next statement.
LEMMA HalfWayPossible ==
  ASSUME NEW p, NEW f \in Fields, HalfWay(p, f), ~ KeepsColumns
  PROVE  Possible(Head(query[p]), pending)
<1>1. CASE f \in DOMAIN cur[p]
  <2> PICK t \in NamesOf(f), o \in NamesOf(f), s \in Sqls : t # o /\ Fills(p, f, t, o, s)
    BY <1>1 DEF HalfWay
  <2>1. \/ Head(query[p]) = Add(t, s) /\ Only(f, {})
        \/ Head(query[p]) = Add(t, s) /\ Only(f, {o})
        \/ Head(query[p]) = Add(o, s) /\ Only(f, {t})
        \/ /\ Only(f, {o, t})
           /\ Head(query[p]) \in {Copy(t, o), Copy(o, t), Drop(o), Drop(t)}
    BY DEF Fills, Absent
  <2>2. CASE Head(query[p]) = Add(t, s) /\ (Only(f, {}) \/ Only(f, {o}))
    BY <2>2, AddEffect DEF Only
  <2>3. CASE Head(query[p]) = Add(o, s) /\ Only(f, {t})
    BY <2>3, AddEffect DEF Only
  <2>4. CASE /\ Only(f, {o, t})
             /\ Head(query[p]) \in {Copy(t, o), Copy(o, t), Drop(o), Drop(t)}
    <3>1. t \in DOMAIN pending /\ o \in DOMAIN pending
      BY <2>4 DEF Only
    <3>2. /\ Possible(Copy(t, o), pending) /\ Possible(Copy(o, t), pending)
          /\ Possible(Drop(t), pending) /\ Possible(Drop(o), pending)
      BY <3>1 DEF Possible, Copy, Drop
    <3>3. QED
      BY <2>4, <3>2
  <2>5. QED
    BY <2>1, <2>2, <2>3, <2>4
<1>2. CASE f \notin DOMAIN cur[p]
  <2> PICK o \in NamesOf(f) : Only(f, {o}) /\ query[p] = <<Drop(o)>>
    BY <1>2 DEF HalfWay, Removes
  <2>1. o \in DOMAIN pending /\ Head(query[p]) = Drop(o)
    BY DEF Only
  <2>2. QED
    BY <2>1, DropEffect
<1>3. QED
  BY <1>1, <1>2


LEMMA ExecuteCalm ==
  ASSUME NamesApart, Typed, Control, Naming, Calm, ~ disturbed', NEW p \in Procs, Execute(p)
  PROVE  Calm'
<1>1. ~ disturbed /\ Busy(p) /\ query[p] # << >> /\ changed[p] /\ pc[p] = "work"
  BY DEF Control, Flow, Execute, Busy, Resting, ghostVars
<1>2. InStep(p) /\ InLoop(p)
  BY <1>1 DEF Calm, InStep, Working
<1> PICK f \in Fields \ keys[p] :
      HalfWay(p, f) /\ \A g \in Fields \ {f} : Fits(g, cur[p])
  BY <1>1, <1>2 DEF InLoop
<1> PICK d : d = cur[p]
  OBVIOUS
<1>3. /\ Declared(d) /\ UNCHANGED <<engine, want, cur, keys, changed, kept, starts, asked>>
  BY DEF Naming, Execute, ghostVars
<1>4. /\ pc'[p] = (IF CommitOnAlter THEN "commit" ELSE "work")
      /\ query'[p] = Tail(query[p]) /\ \A q \in Procs : q # p => pc'[q] = pc[q]
  BY DEF Typed, Execute, Goto
<1>5. OfField(Head(query[p]), f)
  <2>1. CASE f \in DOMAIN d
    <3> PICK t \in NamesOf(f), o \in NamesOf(f), s \in Sqls : Fills(p, f, t, o, s)
      BY <2>1 DEF HalfWay
    <3>1. Head(query[p]) \in {Add(t, s), Add(o, s), Copy(t, o), Copy(o, t), Drop(t), Drop(o)}
      BY DEF Fills
    <3>2. QED
      BY <3>1, OfFieldIs
  <2>2. CASE f \notin DOMAIN d
    <3> PICK o \in NamesOf(f) : query[p] = <<Drop(o)>>
      BY <2>2 DEF HalfWay, Removes
    <3>1. Head(query[p]) = Drop(o)
      OBVIOUS
    <3>2. QED
      BY <3>1, OfFieldIs
  <2>3. QED
    BY <2>1, <2>2
<1>6. ASSUME NEW g \in Fields \ {f} PROVE Fits(g, cur[p])'
  <2>1. \A n \in NamesOf(g) : /\ n \in DOMAIN pending' <=> n \in DOMAIN pending
                              /\ n \in DOMAIN pending => pending'[n] = pending[n]
    BY <1>5, OtherColumns
  <2>2. Fits(g, d) /\ (g \in DOMAIN d => d[g].rname \in NamesOf(g))
    BY <1>3, DeclaredNames
  <2>3. Fits(g, d)'
    BY <1>3, <2>1, <2>2, FitsFrame
  <2>4. QED
    BY <1>3, <2>3, FitsNow
<1>7. \/ query'[p] # << >> /\ HalfWay(p, f)'
      \/ query'[p] = << >> /\ Fits(f, cur[p])'
  <2>1. CASE f \in DOMAIN d
    <3> PICK t \in NamesOf(f), o \in NamesOf(f), s \in Sqls :
           t = d[f].rname /\ s = d[f].sql /\ t # o /\ Fills(p, f, t, o, s)
      BY <2>1 DEF HalfWay
    <3>1. CASE query'[p] # << >> /\ Fills(p, f, t, o, s)'
      <4>1. HalfWay(p, f)'
        BY <1>3, <2>1, <3>1 DEF HalfWay, NamesOf
      <4>2. QED
        BY <3>1, <4>1
    <3>2. CASE query'[p] = << >> /\ FitsAs(f, t, s)'
      <4>1. Fits(f, d)'
        BY <2>1, <3>2 DEF Fits
      <4>2. Fits(f, cur[p])'
        BY <1>3, <4>1, FitsNow
      <4>3. QED
        BY <3>2, <4>2
    <3>3. QED
      BY <3>1, <3>2, FillsStep
  <2>2. CASE f \notin DOMAIN d
    <3>1. Removes(p, f)
      BY <2>2 DEF HalfWay
    <3>2. query'[p] = << >> /\ Absent(f)'
      BY <3>1, RemovesStep
    <3>3. Fits(f, d)'
      BY <2>2, <3>2 DEF Fits
    <3>4. QED
      BY <1>3, <3>2, <3>3, FitsNow
  <2>3. QED
    BY <2>1, <2>2
<1>8. \A g \in Fields \ keys'[p] : Agrees(g, cur[p], want[p])'
  BY <1>2, <1>3 DEF InLoop, Agrees, KeepsColumns
<1>9. InLoop(p)'
  <2>1. query'[p] = << >> => \A g \in Fields : Fits(g, cur[p])'
    BY <1>6, <1>7
  <2>2. query'[p] # << >> =>
          \E g \in Fields \ keys'[p] :
             HalfWay(p, g)' /\ \A h \in Fields \ {g} : Fits(h, cur[p])'
    BY <1>3, <1>6, <1>7
  <2>3. changed'[p] /\ ~ (pc'[p] = "work" /\ CommitOnAlter')
    BY <1>1, <1>3, <1>4 DEF CommitOnAlter
  <2>4. QED
    BY <1>8, <2>1, <2>2, <2>3 DEF InLoop
<1>10. InStep(p)'
  BY <1>2, <1>3, <1>4, <1>9 DEF InStep
<1>11. QED
  BY <1>1, <1>3, <1>4, <1>10, CalmBusy DEF Resting

\* The columns of f when the loop reaches it, and its query.
LEMMA TakeKeyFits ==
  ASSUME NEW p \in Procs, NEW old, NEW new, IsFields(old), IsFields(new),
         Declared(old), Declared(new), NEW f \in Fields, f \in DOMAIN old \union DOMAIN new,
         kept \subseteq DOMAIN new, Fits(f, old), NEW e, e = Updated(f, old, new),
         UNCHANGED <<engine, pending, kept>>,
         query'[p] = Query(f, old, new), cur'[p] = e
  PROVE  \/ query'[p] # << >> /\ HalfWay(p, f)'
         \/ query'[p] = << >> /\ Fits(f, e)
<1> DEFINE t == new[f].rname
           s == new[f].sql
           o == old[f].rname
           u == TmpOf[f]
<1>1. /\ f \in DOMAIN new => t \in NamesOf(f) /\ t # u /\ s \in Sqls
      /\ f \in DOMAIN old => o \in NamesOf(f)
      /\ u \in NamesOf(f)
  BY TmpName, FieldTypes DEF Declared
<1>2. /\ f \in DOMAIN new => f \in DOMAIN e /\ e[f].rname = t /\ e[f].sql = s
      /\ f \notin DOMAIN new /\ ~ KeepsColumns => f \notin DOMAIN e
      /\ f \notin DOMAIN new /\ KeepsColumns => e = old
  BY UpdatedIn, UpdatedOut
<1>3. /\ KeepsColumns' = KeepsColumns
      /\ \A S : Only(f, S) => Only(f, S)'
      /\ \A n : Good(f, n) => Good(f, n)'
      /\ Absent(f) => Absent(f)'
  BY DEF KeepsColumns, Only, Good, Absent, NamesOf
<1>4. f \in DOMAIN old => FitsAs(f, o, old[f].sql)
  BY DEF Fits
<1>5. ASSUME f \in DOMAIN new, NEW b \in NamesOf(f), t # b, Fills(p, f, t, b, s)'
      PROVE  HalfWay(p, f)'
  BY <1>1, <1>2, <1>5 DEF HalfWay, NamesOf
<1>6. CASE f \notin DOMAIN old
  <2>1. query'[p] = <<Add(t, s)>> /\ f \in DOMAIN new
    BY <1>6, QueryCases
  <2>2. Absent(f)'
    BY <1>3, <1>6 DEF Fits
  <2> HIDE DEF t, s, u
  <2>3. Fills(p, f, t, u, s)'
    BY <2>1, <2>2 DEF Fills
  <2>4. QED
    BY <1>1, <1>5, <2>1, <2>3, TailOne
<1>7. CASE f \in DOMAIN old /\ f \notin DOMAIN new
  <2>1. query'[p] = IF KeepsColumns THEN << >> ELSE <<Drop(o)>>
    BY <1>7, QueryCases
  <2>2. CASE KeepsColumns
    BY <1>2, <1>7, <2>1, <2>2
  <2>3. CASE ~ KeepsColumns
    <3>1. query'[p] = <<Drop(o)>> /\ f \notin kept /\ f \notin DOMAIN e
      BY <1>2, <1>7, <2>1, <2>3
    <3>2. Only(f, {o})
      BY <1>4, <1>7, <2>3 DEF FitsAs
    <3> HIDE DEF o
    <3>3. Only(f, {o})'
      BY <1>3, <3>2
    <3>4. Removes(p, f)'
      BY <1>1, <1>3, <1>7, <2>3, <3>1, <3>3 DEF Removes, NamesOf
    <3>5. HalfWay(p, f)'
      BY <3>1, <3>4 DEF HalfWay
    <3>6. QED
      BY <3>1, <3>5, TailOne
  <2>4. QED
    BY <2>2, <2>3
<1>8. CASE f \in DOMAIN old /\ f \in DOMAIN new /\ t # o
  <2>1. query'[p] = IF KeepsColumns THEN <<Add(t, s), Copy(t, o)>>
                    ELSE <<Add(t, s), Copy(t, o), Drop(o)>>
    BY <1>8, QueryCases
  <2>2. /\ o \in DOMAIN pending /\ Good(f, o) /\ t \in NamesOf(f)
        /\ ~ KeepsColumns => Only(f, {o})
    BY <1>1, <1>4, <1>8 DEF FitsAs
  <2> HIDE DEF t, s, o, u
  <2>3. /\ o \in DOMAIN pending' /\ Good(f, o)'
        /\ ~ KeepsColumns' => Only(f, {o})'
    BY <1>3, <2>2
  <2>4. Fills(p, f, t, o, s)'
    BY <1>3, <2>1, <2>3 DEF Fills
  <2>5. query'[p] # << >>
    BY <2>1
  <2>6. QED
    BY <1>1, <1>5, <1>8, <2>4, <2>5
<1>9. CASE f \in DOMAIN old /\ f \in DOMAIN new /\ t = o
  <2>1. query'[p] =
          IF KeepsColumns \/ s = old[f].sql \/ s \in Frozen THEN << >>
          ELSE <<Add(u, s), Copy(u, t), Drop(t), Add(t, s), Copy(t, u), Drop(u)>>
    BY <1>9, QueryCases
  <2>2. CASE KeepsColumns \/ s = old[f].sql \/ s \in Frozen
    <3>1. FitsAs(f, t, s)
      BY <1>4, <1>9, <2>2 DEF FitsAs
    <3>2. Fits(f, e)
      BY <1>2, <1>9, <3>1 DEF Fits
    <3>3. QED
      BY <2>1, <2>2, <3>2
  <2>3. CASE ~ (KeepsColumns \/ s = old[f].sql \/ s \in Frozen)
    <3>1. Only(f, {t}) /\ Good(f, t)
      BY <1>4, <1>9, <2>3 DEF FitsAs
    <3>2. query'[p] =
            <<Add(u, s), Copy(u, t), Drop(t), Add(t, s), Copy(t, u), Drop(u)>>
      BY <2>1, <2>3
    <3> HIDE DEF t, s, o, u
    <3>3. Only(f, {t})' /\ Good(f, t)'
      BY <1>3, <3>1
    <3>4. Fills(p, f, t, u, s)'
      BY <1>3, <2>3, <3>2, <3>3 DEF Fills
    <3>5. query'[p] # << >>
      BY <3>2
    <3>6. QED
      BY <1>1, <1>5, <1>9, <3>4, <3>5
  <2>4. QED
    BY <2>2, <2>3
<1>10. QED
  BY <1>6, <1>7, <1>8, <1>9

LEMMA TakeKeyCalm ==
  ASSUME Typed, Control, Naming, Calm, ~ disturbed', NEW p \in Procs, TakeKey(p)
  PROVE  Calm'
<1>1. /\ ~ disturbed /\ Busy(p) /\ pc[p] = "work" /\ query[p] = << >>
      /\ IsFields(cur[p]) /\ IsFields(want[p]) /\ Declared(cur[p]) /\ Declared(want[p])
  BY DEF Typed, Naming, TakeKey, Busy, Resting, ghostVars
<1>2. InStep(p) /\ InLoop(p) /\ \A g \in Fields : Fits(g, cur[p])
  BY <1>1 DEF Calm, InStep, InLoop, Working
<1> PICK f \in keys[p] :
      /\ keys' = [keys EXCEPT ![p] = @ \ {f}]
      /\ cur' = [cur EXCEPT ![p] = Updated(f, cur[p], want[p])]
      /\ LET q == Query(f, cur[p], want[p])
             c == changed[p] \/ ChangesMetadata(f, cur[p], want[p])
         IN /\ query' = [query EXCEPT ![p] = q]
            /\ changed' = [changed EXCEPT ![p] = c]
            /\ queried' = [queried EXCEPT ![p] = q # << >>]
            /\ Goto(p, IF q = << >> /\ c THEN "open" ELSE "work")
  BY DEF TakeKey
<1> PICK old, new : old = cur[p] /\ new = want[p]
  OBVIOUS
<1> PICK e : e = Updated(f, old, new)
  OBVIOUS
<1>3. /\ f \in Fields /\ f \in DOMAIN old \union DOMAIN new
      /\ keys'[p] = keys[p] \ {f} /\ cur'[p] = e /\ query'[p] = Query(f, old, new)
      /\ changed'[p] = (changed[p] \/ ChangesMetadata(f, old, new))
      /\ queried'[p] = (query'[p] # << >>)
  BY DEF Typed, Control, Flow
<1>4. /\ UNCHANGED <<engine, pending, want, kept, file, final, starts, asked>>
      /\ pc'[p] \in {"open", "work"} /\ \A q \in Procs : q # p => pc'[q] = pc[q]
  <2>1. UNCHANGED <<engine, pending, want, kept, file, final, starts, asked>>
    BY DEF TakeKey, dbVars, fileVars, ghostVars
  <2>2. pc'[p] \in {"open", "work"} /\ \A q \in Procs : q # p => pc'[q] = pc[q]
    BY DEF Typed, Goto
  <2>3. QED
    BY <2>1, <2>2
<1>5. Declared(e)
  <2>1. Declared(old) /\ Declared(new) /\ f \in DOMAIN old \union DOMAIN new
    BY <1>1, <1>3
  <2>2. QED
    BY <2>1, UpdatedDeclared
<1>6. ASSUME NEW g \in Fields, g # f PROVE Fits(g, e)
  <2>1. /\ g \in DOMAIN old <=> g \in DOMAIN e
        /\ g \in DOMAIN old => old[g] = e[g]
    BY <1>6, UpdatedLeaves
  <2>2. Fits(g, old)
    BY <1>2
  <2>3. QED
    BY <2>1, <2>2, FitsAt
<1>7. ASSUME NEW g \in Fields, Fits(g, e) PROVE Fits(g, cur[p])'
  <2>1. Fits(g, e)'
    BY <1>4, <1>5, <1>7, DeclaredNames, FitsStill
  <2>2. QED
    BY <1>3, <2>1, FitsNow
<1>8. \/ query'[p] # << >> /\ HalfWay(p, f)'
      \/ query'[p] = << >> /\ Fits(f, e)
  <2>1. Fits(f, old) /\ kept \subseteq DOMAIN new
    BY <1>2, <1>3 DEF InStep
  <2>2. QED
    BY <1>1, <1>3, <1>4, <2>1, TakeKeyFits
<1>9. ASSUME NEW g \in Fields \ keys'[p] PROVE Agrees(g, cur[p], want[p])'
  <2>1. KeepsColumns' = KeepsColumns
    BY <1>4 DEF KeepsColumns
  <2>2. CASE g = f
    <3>1. /\ f \in DOMAIN new => f \in DOMAIN e /\ e[f] = new[f]
          /\ f \notin DOMAIN new /\ ~ KeepsColumns => f \notin DOMAIN e
      BY UpdatedIn, UpdatedOut
    <3>2. QED
      BY <1>3, <1>4, <2>1, <2>2, <3>1 DEF Agrees
  <2>3. CASE g # f
    <3>1. /\ g \in DOMAIN old <=> g \in DOMAIN e
          /\ g \in DOMAIN old => old[g] = e[g]
      BY <2>3, UpdatedLeaves
    <3>2. Agrees(g, old, new)
      BY <1>2, <1>3, <2>3 DEF InLoop
    <3>3. QED
      BY <1>3, <1>4, <2>1, <3>1, <3>2 DEF Agrees
  <2>4. QED
    BY <2>2, <2>3
<1>10. ASSUME ~ changed'[p], ~ final'[p] PROVE Saved(cur[p])'
  <2>1. ~ changed[p] /\ ~ final[p] /\ ~ ChangesMetadata(f, old, new)
    BY <1>3, <1>4, <1>10
  <2>2. f \in DOMAIN old /\ f \in DOMAIN new /\ old[f] = new[f]
    BY <2>1 DEF ChangesMetadata
  <2>3. f \in DOMAIN e /\ e[f] = old[f]
    BY <2>2, UpdatedIn
  <2>4. \A g : g # f => /\ g \in DOMAIN old <=> g \in DOMAIN e
                        /\ g \in DOMAIN old => old[g] = e[g]
    BY UpdatedLeaves
  <2>5. Saved(old)
    BY <1>2, <2>1 DEF InLoop
  <2>6. QED
    BY <1>3, <1>4, <2>2, <2>3, <2>4, <2>5 DEF Saved
<1>11. InLoop(p)'
  <2>1. query'[p] = << >> => \A g \in Fields : Fits(g, cur[p])'
    BY <1>3, <1>6, <1>7, <1>8
  <2>2. query'[p] # << >> =>
          \E g \in Fields \ keys'[p] :
             HalfWay(p, g)' /\ \A h \in Fields \ {g} : Fits(h, cur[p])'
    BY <1>3, <1>6, <1>7, <1>8
  <2>3. ~ (query'[p] = << >> /\ queried'[p])
    BY <1>3
  <2>4. QED
    BY <1>9, <1>10, <2>1, <2>2, <2>3 DEF InLoop
<1>12. InStep(p)'
  BY <1>2, <1>4, <1>11 DEF InStep
<1>13. QED
  BY <1>1, <1>4, <1>12, CalmBusy DEF Resting


\* What holds when the keys are done.
LEMMA LoopEnds ==
  ASSUME NEW p, InLoop(p), keys[p] = {}, query[p] = << >>
  PROVE  /\ \A f \in Fields : Fits(f, cur[p])
         /\ \A f \in Fields : Agrees(f, cur[p], want[p])
BY DEF InLoop

LEMMA FinishCalm ==
  ASSUME Typed, Control, Naming, Calm, ~ disturbed', NEW p \in Procs, Finish(p)
  PROVE  Calm'
<1>1. ~ disturbed /\ Busy(p) /\ ~ final[p] /\ pc[p] = "work"
  BY DEF Control, Flow, Finish, Busy, Resting, ghostVars
<1>2. InStep(p) /\ InLoop(p)
  BY <1>1 DEF Calm, InStep, Working
<1>3. UNCHANGED <<engine, pending, want, kept, file, starts, asked>>
  BY DEF Finish, dbVars, fileVars, ghostVars
<1>4. /\ \A f \in Fields : Fits(f, cur[p])
      /\ \A f \in Fields : Agrees(f, cur[p], want[p])
  BY <1>2, LoopEnds DEF Finish
<1>5. CASE changed[p] /\ ~ (queried[p] /\ CommitOnAlter)
  <2>1. /\ Goto(p, "commit") /\ final' = [final EXCEPT ![p] = TRUE]
        /\ UNCHANGED <<cur, keys, query, changed, queried>>
    BY <1>5 DEF Finish
  <2>2. /\ pc'[p] = "commit" /\ \A q \in Procs : q # p => pc'[q] = pc[q]
        /\ final'[p] = TRUE
    BY <2>1 DEF Typed, Goto
  <2>3. InLoop(p)'
    BY <1>2, <1>3, <2>1, <2>2, LoopFrame DEF Naming
  <2>4. InStep(p)'
    BY <1>2, <1>3, <2>2, <2>3 DEF InStep
  <2>5. QED
    BY <1>1, <1>3, <2>2, <2>4, CalmBusy DEF Resting
<1>6. CASE ~ (changed[p] /\ ~ (queried[p] /\ CommitOnAlter))
  <2>1. Leave(p, "done") /\ "done" \in PCs /\ query[p] = << >>
    BY <1>6 DEF Finish, PCs, Resting
  <2>2. pc'[p] = "done" /\ \A q \in Procs : q # p => pc'[q] = pc[q]
    BY <2>1, LeaveIdle
  <2>3. Saved(cur[p])
    BY <1>1, <1>2, <1>6, <2>1 DEF InLoop, Typed
  <2> PICK d, c : d = file.fields /\ c = cur[p]
    OBVIOUS
  <2>4. \A f \in Fields : /\ f \in DOMAIN d <=> f \in DOMAIN c
                          /\ f \in DOMAIN c => d[f] = c[f]
    BY <2>3 DEF Saved
  <2>5. \A f \in Fields : Fits(f, d)
    BY <1>4, <2>4, FitsAt
  <2>6. AtRest' /\ file'.state = "full"
    BY <1>3, <2>3, <2>5, RestFull DEF Naming, Saved
  <2>7. \A f \in Fields : Agrees(f, d, want[p])
    BY <1>4, <2>4 DEF Agrees
  <2>8. \A f \in Fields : Agrees(f, file.fields, asked)'
    BY <1>2, <1>3, <2>7 DEF Agrees, InStep, KeepsColumns
  <2>9. QED
    BY <1>1, <1>3, <2>2, <2>6, <2>8, CalmBusy DEF Resting
<1>7. QED
  BY <1>5, <1>6

\* The steps of a save before it writes.
LEMMA SavingCalm ==
  ASSUME Typed, Control, Naming, Calm, ~ disturbed',
         NEW p \in Procs, Commit(p) \/ Open(p) \/ Lock(p)
  PROVE  Calm'
<1>1. /\ ~ disturbed /\ Busy(p) /\ (changed[p] \/ final[p])
      /\ pc[p] \in {"commit", "open", "lock"}
  BY DEF Control, Flow, Working, Commit, Open, Lock, Busy, Resting, ghostVars
<1>2. InStep(p) /\ InLoop(p)
  BY <1>1 DEF Calm, InStep, Working
<1>3. UNCHANGED <<engine, pending, want, kept, loopVars, starts, asked>>
  BY DEF Commit, Open, Lock, dbVars, ghostVars
<1>4. pc'[p] \in {"open", "lock", "write"} /\ \A q \in Procs : q # p => pc'[q] = pc[q]
  BY DEF Typed, Commit, Open, Lock, Goto
<1>5. InLoop(p)'
  BY <1>1, <1>2, <1>3, <1>4, LoopFrame DEF Naming, loopVars
<1>6. InStep(p)'
  BY <1>2, <1>3, <1>4, <1>5 DEF InStep
<1>7. QED
  BY <1>1, <1>3, <1>4, <1>6, CalmBusy DEF Resting

LEMMA WriteCalm ==
  ASSUME Typed, Control, Naming, Calm, ~ disturbed', NEW p \in Procs, Write(p)
  PROVE  Calm'
<1>1. ~ disturbed /\ Busy(p) /\ pc[p] = "write" /\ (final[p] => keys[p] = {})
  BY DEF Control, Flow, Write, Busy, Resting, ghostVars
<1>2. InStep(p) /\ InLoop(p)
  BY <1>1 DEF Calm, InStep, Working
<1> PICK c : c = cur[p]
  OBVIOUS
<1>3. /\ UNCHANGED <<engine, pending, want, kept, starts, asked>>
      /\ file'.state = "full" /\ file'.fields = c /\ Declared(c)
  BY FullTypes DEF Naming, Write, dbVars, ghostVars
<1>4. CASE final[p]
  <2>1. Leave(p, "done") /\ "done" \in PCs /\ query[p] = << >>
    BY <1>4, Querying DEF Write, PCs, Resting
  <2>2. pc'[p] = "done" /\ \A q \in Procs : q # p => pc'[q] = pc[q]
    BY <2>1, LeaveIdle
  <2>3. /\ \A f \in Fields : Fits(f, c)
        /\ \A f \in Fields : Agrees(f, c, want[p])
    BY <1>1, <1>2, <1>4, <2>1, LoopEnds
  <2>4. AtRest'
    BY <1>3, <2>3, RestFull
  <2>5. \A f \in Fields : Agrees(f, file.fields, asked)'
    BY <1>2, <1>3, <2>3 DEF Agrees, InStep, KeepsColumns
  <2>6. QED
    BY <1>1, <1>3, <2>2, <2>4, <2>5, CalmBusy DEF Resting
<1>5. CASE ~ final[p]
  <2>1. Goto(p, "work") /\ UNCHANGED loopVars
    BY <1>5 DEF Write
  <2>2. pc'[p] = "work" /\ \A q \in Procs : q # p => pc'[q] = pc[q]
    BY <2>1 DEF Typed, Goto
  <2>3. Saved(cur[p])'
    BY <1>3, <2>1 DEF Saved, loopVars
  <2>4. InLoop(p)'
    BY <1>2, <1>3, <2>1, <2>3, LoopFrame DEF loopVars
  <2>5. InStep(p)'
    BY <1>2, <1>3, <2>2, <2>4 DEF InStep
  <2>6. QED
    BY <1>1, <1>3, <2>2, <2>5, CalmBusy DEF Resting
<1>6. QED
  BY <1>4, <1>5

\* Nothing is refused but on sqlite.
LEMMA RefusedCalm ==
  ASSUME Typed, Control, Naming, Calm, ~ disturbed', NEW p \in Procs
  PROVE  ~ Refused(p)
<1> SUFFICES ASSUME Refused(p) PROVE FALSE
  OBVIOUS
<1>1. ~ disturbed /\ ~ KeepsColumns /\ Busy(p)
  BY DEF Refused, Busy, Resting
<1>2. InStep(p)
  BY <1>1 DEF Calm
<1>3. CASE pc[p] = "create" /\ DOMAIN pending # {}
  BY <1>2, <1>3 DEF InStep, AtRest
<1>4. CASE pc[p] = "work" /\ query[p] # << >> /\ ~ Possible(Head(query[p]), pending)
  <2> PICK f \in Fields : HalfWay(p, f)
    BY <1>2, <1>4 DEF InStep, InLoop, Working
  <2>1. QED
    BY <1>1, <1>4, HalfWayPossible
<1>5. QED
  BY <1>3, <1>4 DEF Refused

LEMMA CalmInit == NamesApart /\ Init => Calm
<1> SUFFICES ASSUME NamesApart, Init PROVE Calm
  OBVIOUS
<1>1. Settled /\ \A p \in Procs : pc[p] = "out" /\ ~ Busy(p)
  BY DEF Init, Settled, Busy, Resting
<1>2. AtRest
  <2>1. CASE columns = NoFields /\ file = Missing /\ kept = {}
    <3>1. DOMAIN NoFields = {}
      BY NoFieldsTypes
    <3>2. QED
      BY <2>1, <3>1 DEF Init, AtRest, Missing
  <2>2. ASSUME NEW d \in Definitions, columns = TableOf(d, DOMAIN d), file = Full(d),
               kept = DOMAIN d
        PROVE  AtRest
    <3>1. IsFields(d) /\ Declared(d) /\ DOMAIN d \subseteq Fields
      BY DefinitionTypes, DefinitionNames DEF IsFields
    <3>2. pending = TableOf(d, DOMAIN d)
      BY <2>2 DEF Init
    <3>3. \A n : n \in DOMAIN pending <=> \E g \in DOMAIN d : n = d[g].rname
      BY <3>1, <3>2, TableFacts
    <3>4. \A n \in DOMAIN pending : \E g \in DOMAIN d :
            /\ d[g].rname = n /\ pending[n].sql = d[g].sql
            /\ pending[n].data = IF g \in DOMAIN d THEN g ELSE NoData
      BY <3>1, <3>2, TableFacts
    <3>5. ASSUME NEW f \in Fields, NEW g \in DOMAIN d, d[g].rname \in NamesOf(f)
          PROVE  g = f
      BY <3>1, <3>5, OneOwner DEF Declared
    <3>6. ASSUME NEW f \in Fields PROVE Fits(f, d)
      <4>1. CASE f \in DOMAIN d
        <5>1. d[f].rname \in DOMAIN pending /\ d[f].rname \in NamesOf(f)
          BY <3>1, <3>3, <4>1 DEF Declared
        <5>2. pending[d[f].rname].sql = d[f].sql /\ pending[d[f].rname].data = f
          BY <3>4, <3>5, <4>1, <5>1
        <5>3. Only(f, {d[f].rname})
          BY <3>3, <3>5, <5>1 DEF Only
        <5>4. FitsAs(f, d[f].rname, d[f].sql)
          BY <5>1, <5>2, <5>3 DEF FitsAs, Good
        <5>5. QED
          BY <4>1, <5>4 DEF Fits
      <4>2. CASE f \notin DOMAIN d
        <5>1. Only(f, {})
          BY <3>3, <3>5, <4>2 DEF Only
        <5>2. QED
          BY <2>2, <4>2, <5>1 DEF Fits, Absent
      <4>3. QED
        BY <4>1, <4>2
    <3>7. QED
      BY <2>2, <3>6, FullTypes DEF AtRest
  <2>3. QED
    BY <2>1, <2>2 DEF Init
<1>3. QED
  BY <1>1, <1>2, MigratorAssumption DEF Calm, Init


LEMMA CalmStep ==
  ASSUME NamesApart, Typed, Control, Naming, Calm, [Next]_vars
  PROVE  Calm'
<1>1. CASE disturbed'
  BY <1>1 DEF Calm
<1>2. CASE ~ disturbed'
  <2>1. ASSUME NEW p \in Procs, NEW d \in Definitions, Start(p, d) PROVE Calm'
    BY <1>2, <2>1, StartCalm
  <2>2. ASSUME NEW p \in Procs, Step(p) PROVE Calm'
    BY <1>2, <2>2, LookCalm, CreateTableCalm, LoadCalm, TakeKeyCalm, ExecuteCalm,
       FinishCalm, SavingCalm, WriteCalm, RefusedCalm DEF Step
  <2>3. ASSUME NEW p \in Procs, StatementFails(p) \/ Crash(p) PROVE FALSE
    BY <1>2, <2>3 DEF StatementFails, Crash
  <2>4. CASE UNCHANGED vars
    <3>1. /\ UNCHANGED <<engine, pending, file, kept, query, cur, keys, want, changed, final,
                         queried, pc, starts, asked, disturbed>>
          /\ \A p \in Procs : Busy(p)' <=> Busy(p)
      BY <2>4 DEF vars, dbVars, fileVars, loopVars, ghostVars, Busy
    <3>2. AtRest => AtRest'
      BY <3>1, AtRestFrame
    <3>3. ASSUME NEW p \in Procs, InLoop(p) PROVE InLoop(p)'
      <4>1. Saved(cur[p]) => Saved(cur[p])'
        BY <3>1 DEF Saved
      <4>2. QED
        BY <3>1, <3>3, <4>1, LoopFrame DEF Naming, InLoop, CommitOnAlter
    <3>4. ASSUME NEW p \in Procs, InStep(p) PROVE InStep(p)'
      BY <3>1, <3>2, <3>3, <3>4 DEF InStep
    <3>5. \A f \in Fields : Agrees(f, file.fields, asked) => Agrees(f, file.fields, asked)'
      BY <3>1 DEF Agrees, KeepsColumns
    <3>6. Settled' => Settled
      BY <3>1 DEF Settled
    <3>7. QED
      BY <3>1, <3>2, <3>4, <3>5, <3>6 DEF Calm
  <2>5. QED
    BY <2>1, <2>2, <2>3, <2>4 DEF Next
<1>3. QED
  BY <1>1, <1>2

LEMMA CalmConverges ==
  ASSUME NamesApart, Typed, Control, Naming, Calm
  PROVE  UndisturbedConverges
<1> SUFFICES ASSUME ~ disturbed, Settled, starts > 0
             PROVE  /\ file.state = "full" /\ TableMatches(asked)
                    /\ \A f \in DOMAIN asked :
                         f \in DOMAIN file.fields /\ file.fields[f] = asked[f]
                    /\ ~ KeepsColumns => DOMAIN file.fields = DOMAIN asked
  BY DEF Calm, UndisturbedConverges
<1> DEFINE d == file.fields
<1>1. /\ file.state = "full" /\ \A f \in Fields : Agrees(f, d, asked)
      /\ \A f \in Fields : Fits(f, d)
  BY DEF Calm, AtRest
<1>2. pending = columns
  BY DEF Typed, Control, Flow, Settled, Busy, Working, Resting
<1>3. DOMAIN d \subseteq Fields /\ DOMAIN asked \subseteq Fields /\ Declared(d)
  BY DEF Typed, IsFields, Naming
<1> HIDE DEF d
<1>4. \A f \in DOMAIN asked : f \in DOMAIN d /\ d[f] = asked[f]
  BY <1>1, <1>3 DEF Agrees
<1>5. ~ KeepsColumns => \A f \in DOMAIN d : f \in DOMAIN asked
  BY <1>1, <1>3 DEF Agrees
<1>6. ASSUME NEW f \in DOMAIN asked
      PROVE  FitsAs(f, asked[f].rname, asked[f].sql)
  BY <1>1, <1>3, <1>4 DEF Fits
<1>7. ASSUME ~ KeepsColumns, NEW n \in DOMAIN columns
      PROVE  \E f \in DOMAIN asked : n = asked[f].rname
  <2> PICK f \in Fields : n \in NamesOf(f)
    BY <1>7 DEF Naming, Owned
  <2>1. f \in DOMAIN d
    BY <1>1, <1>2, <1>7 DEF Fits, Absent, Only
  <2>2. f \in DOMAIN asked
    BY <1>5, <1>7, <2>1
  <2>3. Only(f, {asked[f].rname})
    BY <1>6, <1>7, <2>2 DEF FitsAs
  <2>4. n = asked[f].rname
    BY <1>2, <1>7, <2>3 DEF Only
  <2>5. QED
    BY <2>2, <2>4
<1>8. TableMatches(asked)
  <2>1. ASSUME NEW f \in DOMAIN asked
        PROVE  /\ asked[f].rname \in DOMAIN columns
               /\ f \in kept => columns[asked[f].rname].data = f
               /\ ~ KeepsColumns /\ asked[f].sql \notin Frozen =>
                    columns[asked[f].rname].sql = asked[f].sql
    BY <1>2, <1>6 DEF FitsAs, Good
  <2>2. ~ KeepsColumns => DOMAIN columns = {asked[f].rname : f \in DOMAIN asked}
    BY <1>7, <2>1
  <2>3. QED
    BY <2>1, <2>2 DEF TableMatches
<1>9. ~ KeepsColumns => DOMAIN d = DOMAIN asked
  BY <1>4, <1>5
<1>10. QED
  BY <1>1, <1>4, <1>8, <1>9 DEF d

\* Migrations that nothing disturbs, one after the other, are refused no
\* statement and leave the table and its snapshot as the last one asked, if no
\* definition gives a field the column name of another field.
THEOREM UndisturbedMigrationsConverge ==
  ASSUME NamesApart
  PROVE  Spec => []UndisturbedConverges
<1> DEFINE I == Typed /\ Control /\ Naming /\ Calm
<1>1. Init => I
  BY ControlInit, NamingInit, CalmInit
<1>2. I /\ [Next]_vars => I'
  BY ControlStep, NamingStep, CalmStep
<1>3. I => UndisturbedConverges
  BY CalmConverges
<1> HIDE DEF I
<1>4. QED
  BY <1>1, <1>2, <1>3, PTL DEF Spec

=============================================================================
