---------------------------- MODULE AnswersProofs ----------------------------
(***************************************************************************)
(* Proofs about what a call is answered with, for every value of the       *)
(* constants: the rows of a set.                                           *)
(***************************************************************************)
EXTENDS Selects, SequenceTheorems, FiniteSetTheorems, WellFoundedInduction, TLAPS

\* A set of naturals has a least.
LEMMA Least ==
  ASSUME NEW S \in SUBSET Nat, S # {}
  PROVE  \E m \in S : \A n \in S : m <= n
<1> DEFINE R == OpToRel(<, Nat)
<1>1. IsWellFoundedOn(R, Nat)
  BY NatLessThanWellFounded
<1>2. \A k, m \in Nat : k < m => <<k, m>> \in R
  BY DEF OpToRel
<1> HIDE DEF R
<1>3. PICK m \in S : \A n \in S : ~ (<<n, m>> \in R)
  BY <1>1, WFMin
<1>4. ASSUME NEW n \in S PROVE m <= n
  <2>1. m \in Nat /\ n \in Nat /\ ~ (n < m)
    BY <1>2, <1>3
  <2> QED
    BY <2>1
<1> QED
  BY <1>3, <1>4

\* A bounded set of naturals has a greatest.
LEMMA Greatest ==
  ASSUME NEW D \in SUBSET Nat, D # {}, NEW N \in Nat, \A i \in D : i <= N
  PROVE  Max(D) \in D /\ \A i \in D : i <= Max(D)
<1> DEFINE U == {n \in Nat : \A i \in D : i <= n}
<1>1. U \in SUBSET Nat /\ U # {}
  OBVIOUS
<1>2. PICK m \in U : \A n \in U : m <= n
  BY <1>1, Least
<1>3. m \in D
  <2>1. SUFFICES ASSUME m \notin D PROVE FALSE
    OBVIOUS
  <2>2. PICK i \in D : TRUE
    OBVIOUS
  <2>3. m \in Nat /\ \A k \in D : k \in Nat /\ k <= m /\ k # m
    BY <2>1
  <2>4. m - 1 \in Nat
    BY <2>2, <2>3
  <2>5. \A k \in D : k <= m - 1
    BY <2>3, <2>4
  <2>6. m - 1 \in U
    BY <2>4, <2>5
  <2> QED
    BY <1>2, <2>3, <2>6
<1>4. \A y \in D : m >= y
  BY <1>2
<1>5. Max(D) = CHOOSE x \in D : \A y \in D : x >= y
  BY DEF Max
<1>6. Max(D) \in D /\ \A y \in D : Max(D) >= y
  BY <1>3, <1>4, <1>5
<1> QED
  BY <1>6

----------------------------------------------------------------------------
(* The rows of a set                                                       *)

\* What is joined on conditions has places from one on.
Placed(s) == \E N \in Nat : DOMAIN s.joins \subseteq 1 .. N
LastPlace(s) == Max({0} \cup DOMAIN s.joins)

LEMMA LastOfPlaces ==
  ASSUME NEW s, Placed(s)
  PROVE  /\ LastPlace(s) \in Nat
         /\ \A i \in DOMAIN s.joins : i \in 1 .. LastPlace(s)
<1>1. PICK N \in Nat : DOMAIN s.joins \subseteq 1 .. N
  BY DEF Placed
<1> DEFINE D == {0} \cup DOMAIN s.joins
<1>2. D \in SUBSET Nat /\ D # {} /\ \A i \in D : i <= N
  BY <1>1
<1>3. Max(D) \in D /\ \A i \in D : i <= Max(D)
  <2> HIDE DEF D
  <2> QED
    BY <1>2, Greatest
<1> QED
  BY <1>1, <1>2, <1>3 DEF LastPlace

\* The rows after each join are those before it, joined by it.
LEMMA JoiningStep ==
  ASSUME NEW among, NEW s, NEW outer, NEW scope, Placed(s)
  PROVE  LET rows == Joining(among, s, outer, scope)
         IN  /\ rows[0] = StartRows(s, outer)
             /\ \A n \in 1 .. LastPlace(s) :
                  rows[n] = IF n \in DOMAIN s.joins THEN JoinedBy(among, s.joins[n], rows[n - 1], scope)
                            ELSE rows[n - 1]
<1> DEFINE Next(n, v) == IF n \in DOMAIN s.joins THEN JoinedBy(among, s.joins[n], v, scope) ELSE v
           At(g, n) == CASE n = 0 -> StartRows(s, outer)
                         [] n # 0 /\ n \in DOMAIN s.joins -> JoinedBy(among, s.joins[n], g[n - 1], scope)
                         [] OTHER -> g[n - 1]
           Upto(m) == \E g : g = [n \in 0 .. m |-> At(g, n)]
           Missing == {m \in Nat : ~ Upto(m)}
<1>1. \A g, n : At(g, n) = IF n = 0 THEN StartRows(s, outer) ELSE Next(n, g[n - 1])
  OBVIOUS
<1> HIDE DEF At, Next
<1>2. Missing = {}
  <2>1. SUFFICES ASSUME Missing # {} PROVE FALSE
    OBVIOUS
  <2>2. Missing \in SUBSET Nat
    OBVIOUS
  <2>3. PICK m \in Missing : \A n \in Missing : m <= n
    <3> HIDE DEF Missing
    <3> QED
      BY <2>1, <2>2, Least
  <2>4. m \in Nat /\ ~ Upto(m)
    OBVIOUS
  <2>5. CASE m = 0
    <3> DEFINE g == [n \in 0 .. 0 |-> StartRows(s, outer)]
    <3>1. g = [n \in 0 .. 0 |-> At(g, n)]
      <4>1. \A n \in 0 .. 0 : At(g, n) = StartRows(s, outer)
        BY <1>1
      <4> QED
        BY <4>1
    <3> QED
      BY <2>4, <2>5, <3>1
  <2>6. CASE m # 0
    <3>1. m - 1 \in Nat /\ m - 1 \notin Missing
      BY <2>3, <2>4, <2>6
    <3>2. PICK g : g = [n \in 0 .. m - 1 |-> At(g, n)]
      BY <3>1
    <3> DEFINE h == [n \in 0 .. m |-> IF n < m THEN g[n] ELSE Next(m, g[m - 1])]
    <3>3. ASSUME NEW n \in 0 .. m PROVE h[n] = At(h, n)
      <4>1. CASE n = 0
        <5>1. 0 \in 0 .. m - 1 /\ 0 < m
          BY <2>4, <2>6
        <5>2. h[0] = g[0] /\ g[0] = At(g, 0)
          BY <3>2, <5>1
        <5> QED
          BY <1>1, <4>1, <5>2
      <4>2. CASE n # 0
        <5>1. n - 1 \in 0 .. m - 1 /\ n - 1 < m /\ n - 1 \in 0 .. m
          BY <2>4, <4>2
        <5>2. h[n - 1] = g[n - 1]
          BY <5>1
        <5>3. h[n] = Next(n, g[n - 1])
          <6>1. CASE n < m
            <7>1. n \in 0 .. m - 1 /\ h[n] = g[n]
              BY <2>4, <6>1
            <7> QED
              BY <1>1, <3>2, <4>2, <7>1
          <6>2. CASE ~ (n < m)
            <7>1. n = m /\ h[n] = Next(m, g[m - 1])
              BY <2>4, <6>2
            <7> QED
              BY <7>1
          <6> QED
            BY <6>1, <6>2
        <5> QED
          BY <1>1, <4>2, <5>2, <5>3
      <4> QED
        BY <4>1, <4>2
    <3>4. h = [n \in 0 .. m |-> At(h, n)]
      <4> DEFINE k == [n \in 0 .. m |-> At(h, n)]
      <4>1. \A n \in 0 .. m : h[n] = k[n]
        BY <3>3
      <4>2. DOMAIN h = 0 .. m /\ DOMAIN k = 0 .. m
        OBVIOUS
      <4>3. h = [n \in 0 .. m |-> h[n]] /\ k = [n \in 0 .. m |-> k[n]]
        OBVIOUS
      <4> HIDE DEF h, k
      <4> QED
        BY <4>1, <4>3 DEF k
    <3> QED
      BY <2>4, <3>4
  <2> QED
    BY <2>5, <2>6
<1>3. LastPlace(s) \in Nat
  BY LastOfPlaces
<1>4. Upto(LastPlace(s))
  BY <1>2, <1>3
<1> DEFINE rows == Joining(among, s, outer, scope)
<1>5. rows = [n \in 0 .. LastPlace(s) |-> At(rows, n)]
  <2>1. rows = CHOOSE g : g = [n \in 0 .. LastPlace(s) |-> At(g, n)]
    BY DEF Joining, LastPlace, At
  <2> HIDE DEF rows
  <2> QED
    BY <1>4, <2>1
<1> HIDE DEF rows
<1>6. rows[0] = StartRows(s, outer)
  BY <1>1, <1>3, <1>5
<1>7. ASSUME NEW n \in 1 .. LastPlace(s) PROVE rows[n] = Next(n, rows[n - 1])
  <2>1. n \in 0 .. LastPlace(s) /\ n # 0
    BY <1>3
  <2> QED
    BY <1>1, <1>5, <2>1
<1> QED
  BY <1>6, <1>7 DEF rows, Next

\* What a row has in a table that was joined, as the filter of that table asks.
Kept(j, e) == Mine(j.t) \in j.on => e[j.t] = Null \/ e[j.t].mine
OnceEach(s) == \A i, k \in DOMAIN s.joins : s.joins[i].t = s.joins[k].t => i = k

LEMMA FilterHolds ==
  ASSUME NEW among, NEW t, NEW e, NEW scope, HoldsIn(among, Mine(t), e, scope)
  PROVE  e[t].mine
<1>1. Mine(t).op = "mine" /\ Mine(t).t = t
  BY DEF Mine
<1>2. IsMet(among, Mine(t), e, scope)
  BY DEF HoldsIn
<1> QED
  BY <1>1, <1>2 DEF IsMet

\* What a join makes of a row.
Adds(j, env, e) ==
    /\ Kept(j, e)
    /\ \A t \in DOMAIN env \ {j.t} : e[t] = env[t]
    /\ DOMAIN e = DOMAIN env \cup {j.t}

\* A join keeps the filter of its own table and leaves the other tables.
LEMMA JoinedRow ==
  ASSUME NEW among, NEW j, NEW env, NEW scope,
         NEW e \in WithJoined(j, env, Meeting(among, j, env, scope))
  PROVE  Adds(j, env, e)
<1>1. CASE e = With(env, j.t, Null)
  <2>1. e[j.t] = Null /\ DOMAIN e = DOMAIN env \cup {j.t}
    BY <1>1 DEF With
  <2>2. \A t \in DOMAIN env \ {j.t} : e[t] = env[t]
    BY <1>1 DEF With
  <2> QED
    BY <2>1, <2>2 DEF Adds, Kept
<1>2. CASE \E r \in Meeting(among, j, env, scope) : e = With(env, j.t, r)
  <2>1. PICK r \in Meeting(among, j, env, scope) : e = With(env, j.t, r)
    BY <1>2
  <2>2. e[j.t] = r /\ DOMAIN e = DOMAIN env \cup {j.t}
    BY <2>1 DEF With
  <2>3. \A t \in DOMAIN env \ {j.t} : e[t] = env[t]
    BY <2>1 DEF With
  <2>4. AllHold(among, j.on, e, scope)
    BY <2>1 DEF Meeting
  <2>5. Mine(j.t) \in j.on => e[j.t].mine
    BY <2>4, FilterHolds DEF AllHold
  <2> QED
    BY <2>2, <2>3, <2>5 DEF Adds, Kept
<1> QED
  BY <1>1, <1>2 DEF WithJoined

LEMMA JoinedByRow ==
  ASSUME NEW among, NEW j, NEW envs, NEW scope, NEW e \in JoinedBy(among, j, envs, scope)
  PROVE  \E env \in envs : Adds(j, env, e)
<1>1. PICK env \in envs : e \in WithJoined(j, env, Meeting(among, j, env, scope))
  BY DEF JoinedBy
<1>2. Adds(j, env, e)
  BY <1>1, JoinedRow
<1> QED
  BY <1>2

\* So every row keeps the filters of all that was joined on conditions.
LEMMA JoinsKeepFilters ==
  ASSUME NEW among, NEW s, NEW outer, NEW scope, Placed(s), OnceEach(s),
         NEW e \in RowsIn(among, s, outer, scope), NEW i \in DOMAIN s.joins
  PROVE  Kept(s.joins[i], e)
<1> DEFINE rows == Joining(among, s, outer, scope)
           N == LastPlace(s)
           Good(n) == \A f \in rows[n] : \A k \in DOMAIN s.joins :
                         k <= n => s.joins[k].t \in DOMAIN f /\ Kept(s.joins[k], f)
           Bad == {n \in 0 .. N : ~ Good(n)}
<1>1. N \in Nat /\ \A k \in DOMAIN s.joins : k \in 1 .. N
  BY LastOfPlaces
<1>2. \A n \in 1 .. N : rows[n] = IF n \in DOMAIN s.joins THEN JoinedBy(among, s.joins[n], rows[n - 1], scope)
                                  ELSE rows[n - 1]
  BY JoiningStep
<1> HIDE DEF rows, N
<1>3. Good(0)
  BY <1>1
<1>4. ASSUME NEW n \in 1 .. N, Good(n - 1) PROVE Good(n)
  <2>1. CASE n \notin DOMAIN s.joins
    <3>1. rows[n] = rows[n - 1]
      BY <1>2, <2>1
    <3>2. \A k \in DOMAIN s.joins : k <= n => k <= n - 1
      BY <1>1, <2>1
    <3> QED
      BY <1>4, <3>1, <3>2
  <2>2. CASE n \in DOMAIN s.joins
    <3>1. rows[n] = JoinedBy(among, s.joins[n], rows[n - 1], scope)
      BY <1>2, <2>2
    <3>2. SUFFICES ASSUME NEW f \in rows[n], NEW k \in DOMAIN s.joins, k <= n
                   PROVE  s.joins[k].t \in DOMAIN f /\ Kept(s.joins[k], f)
      OBVIOUS
    <3>3. PICK env \in rows[n - 1] : Adds(s.joins[n], env, f)
      BY <3>1, JoinedByRow
    <3>4. /\ Kept(s.joins[n], f) /\ DOMAIN f = DOMAIN env \cup {s.joins[n].t}
          /\ \A t \in DOMAIN env \ {s.joins[n].t} : f[t] = env[t]
      BY <3>3 DEF Adds
    <3>5. CASE k = n
      BY <3>4, <3>5
    <3>6. CASE k # n
      <4>1. k <= n - 1
        BY <1>1, <3>2, <3>6
      <4>2. s.joins[k].t \in DOMAIN env /\ Kept(s.joins[k], env)
        BY <1>4, <3>3, <4>1
      <4>3. s.joins[k].t # s.joins[n].t
        BY <2>2, <3>6 DEF OnceEach
      <4>4. f[s.joins[k].t] = env[s.joins[k].t]
        BY <3>4, <4>2, <4>3
      <4> QED
        BY <3>4, <4>2, <4>4 DEF Kept
    <3> QED
      BY <3>5, <3>6
  <2> QED
    BY <2>1, <2>2
<1>5. Bad = {}
  <2>1. SUFFICES ASSUME Bad # {} PROVE FALSE
    OBVIOUS
  <2>2. Bad \in SUBSET Nat
    BY <1>1
  <2>3. PICK m \in Bad : \A n \in Bad : m <= n
    <3> HIDE DEF Bad
    <3> QED
      BY <2>1, <2>2, Least
  <2>4. m \in 1 .. N /\ ~ Good(m)
    <3>1. m \in 0 .. N /\ ~ Good(m)
      OBVIOUS
    <3> HIDE DEF Good
    <3> QED
      BY <1>1, <1>3, <3>1
  <2>5. m - 1 \in 0 .. N /\ m - 1 \notin Bad
    <3> HIDE DEF Bad
    <3> QED
      BY <1>1, <2>2, <2>3, <2>4
  <2>6. Good(m - 1)
    <3> HIDE DEF Good
    <3> QED
      BY <2>5
  <2> HIDE DEF Good, Bad
  <2> QED
    BY <1>4, <2>4, <2>6
<1>6. e \in rows[N]
  BY DEF RowsIn, rows, N, LastPlace
<1>7. Good(N)
  <2> HIDE DEF Good
  <2> QED
    BY <1>1, <1>5
<1> QED
  BY <1>1, <1>6, <1>7

----------------------------------------------------------------------------
(* The statement                                                           *)

LEMMA StatementFields ==
  \A fields, crossed, plain, joins, where1, order :
     LET s == Statement(fields, crossed, plain, joins, where1, order)
     IN  /\ s.crossed = crossed /\ s.joins = joins /\ s.where = where1
         /\ s.fields = fields /\ s.plain = plain /\ s.order = order
BY DEF Statement

\* A statement has the filters of the set, and the joins of the request.
LEMMA StatementOf ==
  ASSUME NEW q, NEW fields, NEW join, NEW left
  PROVE  LET s == SelectOf(q, fields, join, left)
         IN  \/ s = NoTables
             \/ s.where = Filter(q) /\ s.joins = OnAll(join, left)
             \/ s.where = Filter(q) /\ s.joins = <<>> /\ join \o left = <<>>
<1> DEFINE Good(s) == \/ s = NoTables
                      \/ s.where = Filter(q) /\ s.joins = OnAll(join, left)
                      \/ s.where = Filter(q) /\ s.joins = <<>> /\ join \o left = <<>>
<1>1. \A selected, names, pool, plain : Good(From(q, join, left, selected, names, pool, plain))
  BY StatementFields DEF From
<1>2. \A selected, names : join \o left = <<>> => Good(OfItsTables(q, selected, names))
  BY StatementFields DEF OfItsTables
<1> HIDE DEF Good
<1>3. Good(set_to_select(q, fields, join, left))
  BY <1>1, <1>2 DEF set_to_select, AstNamed, AstSelect, AstFrom
<1>4. Good(_select_wcols(q, fields, join, left))
  BY <1>1, <1>2 DEF _select_wcols, OlderNamed, OlderSelect, OlderFrom
<1>5. Good(SelectOf(q, fields, join, left))
  BY <1>3, <1>4 DEF SelectOf
<1> QED
  BY <1>5 DEF Good

\* One of no tables fails.
LEMMA NoTablesFails == Fails(NoTables)
<1>1. Compiled(NoTables, {}).crossed = {}
  BY DEF Compiled, NoTables, Statement
<1> QED
  BY <1>1 DEF Fails, FailsIn

LEMMA SetIsFiltered ==
  ASSUME NEW q, ~ q.ignore, NEW t \in tables(q.atoms), dalname[t] \in Filtered
  PROVE  Mine(t) \in Filter(q)
<1>1. q.atoms # {}
  BY DEF tables
<1>2. use_common_filters(q)
  BY <1>1 DEF use_common_filters
<1> QED
  BY <1>2 DEF Filter, common_filter

LEMMA WhereKeepsFilters ==
  ASSUME NEW q, NEW s, s.where = Filter(q), NEW scope, NEW e \in RowsOf(s, Top, scope),
         ~ q.ignore, NEW t \in tables(q.atoms), dalname[t] \in Filtered
  PROVE  e[t].mine
<1>1. AllHold(SelectedIn, Filter(q), e, scope)
  BY DEF RowsOf, RowsIn
<1> QED
  BY <1>1, SetIsFiltered, FilterHolds DEF AllHold

LEMMA JoinedFields ==
  \A kind, j : /\ _join_from_on(kind, j).t = j.t
               /\ _join_from_on(kind, j).on = common_filter(j.on, {j.t})
BY DEF _join_from_on, Joined

\* Requests of joins are sequences, and a table is joined once.
LEMMA JoinedInPlaces ==
  ASSUME NEW join \in Joins, NEW left \in Joins, Apart(join, left),
         NEW s, s.joins = OnAll(join, left) \/ s.joins = <<>>
  PROVE  /\ Placed(s) /\ OnceEach(s)
         /\ s.joins = OnAll(join, left) =>
              \A i \in OnPlaces(join \o left) :
                 i \in DOMAIN s.joins /\ s.joins[i].t = (join \o left)[i].t
                 /\ s.joins[i].on = common_filter((join \o left)[i].on, {(join \o left)[i].t})
<1> DEFINE all == join \o left
           R == UNION {Range(joined) : joined \in Joins}
<1>1. join \in Seq(R) /\ left \in Seq(R)
  BY JoinsAssumption
<1>2. all \in Seq(R)
  BY <1>1
<1>3. DOMAIN all = 1 .. Len(all) /\ Len(all) \in Nat
  BY <1>2
<1>4. OnPlaces(all) \subseteq DOMAIN all
  BY DEF OnPlaces
<1>5. CASE s.joins = <<>>
  <2>1. DOMAIN s.joins = {}
    BY <1>5
  <2>2. Placed(s) /\ OnceEach(s)
    BY <1>3, <2>1 DEF Placed, OnceEach
  <2>3. s.joins = OnAll(join, left) => OnPlaces(all) = {}
    BY <2>1 DEF OnAll
  <2> QED
    BY <2>2, <2>3
<1>6. CASE s.joins = OnAll(join, left)
  <2>1. DOMAIN s.joins = OnPlaces(all)
    BY <1>6 DEF OnAll
  <2>2. \A i \in OnPlaces(all) : s.joins[i] = _join_from_on(Kind(join, i), all[i])
    BY <1>6 DEF OnAll
  <2>3. \A i \in OnPlaces(all) : s.joins[i].t = all[i].t /\ s.joins[i].on = common_filter(all[i].on, {all[i].t})
    <3>1. ASSUME NEW i \in OnPlaces(all)
          PROVE  s.joins[i].t = all[i].t /\ s.joins[i].on = common_filter(all[i].on, {all[i].t})
      <4> DEFINE kind == Kind(join, i)
                 j == all[i]
      <4>1. s.joins[i] = _join_from_on(kind, j)
        BY <2>2
      <4> HIDE DEF kind, j
      <4>2. s.joins[i].t = j.t /\ s.joins[i].on = common_filter(j.on, {j.t})
        BY <4>1, JoinedFields
      <4> QED
        BY <4>2 DEF j
    <3> QED
      BY <3>1
  <2>4. \A i, k \in DOMAIN all : all[i].t = all[k].t => i = k
    BY DEF Apart
  <2> HIDE DEF all
  <2>5. Placed(s)
    BY <1>3, <1>4, <2>1 DEF Placed
  <2>6. OnceEach(s)
    BY <1>4, <2>1, <2>3, <2>4 DEF OnceEach
  <2> QED
    BY <2>1, <2>3, <2>5, <2>6 DEF all
<1> QED
  BY <1>5, <1>6

LEMMA SelectIsFiltered ==
  ASSUME NEW q, NEW fields, NEW join \in Joins, NEW left \in Joins, Apart(join, left),
         ~ select(q, fields, join, left).error,
         NEW e \in select(q, fields, join, left).value.rows, NEW t, dalname[t] \in Filtered,
         t \in (IF q.ignore THEN {} ELSE tables(q.atoms)) \cup OnTables(join \o left)
  PROVE  e[t] = Null \/ e[t].mine
<1> DEFINE s == SelectOf(q, fields, join, left)
<1>1. ~ Fails(s) /\ e \in RowsOf(s, Top, AllNames(s))
  BY DEF select, Returned, Err, Ok
<1>2. s # NoTables
  BY <1>1, NoTablesFails
<1>3. \/ s.where = Filter(q) /\ s.joins = OnAll(join, left)
      \/ s.where = Filter(q) /\ s.joins = <<>> /\ join \o left = <<>>
  BY <1>2, StatementOf
<1> HIDE DEF s
<1>4. CASE ~ q.ignore /\ t \in tables(q.atoms)
  BY <1>1, <1>3, <1>4, WhereKeepsFilters
<1>5. CASE t \in OnTables(join \o left)
  <2>1. PICK i \in OnPlaces(join \o left) : t = (join \o left)[i].t
    BY <1>5 DEF OnTables
  <2>2. i \in DOMAIN (join \o left)
    BY DEF OnPlaces
  <2>3. s.joins = OnAll(join, left)
    <3>1. CASE join \o left = <<>>
      BY <2>2, <3>1
    <3> QED
      BY <1>3, <3>1
  <2>4. Placed(s) /\ OnceEach(s) /\ i \in DOMAIN s.joins /\ s.joins[i].t = t
        /\ s.joins[i].on = common_filter((join \o left)[i].on, {t})
    <3>1. Placed(s) /\ OnceEach(s)
      BY <2>3, JoinedInPlaces
    <3>2. \A k \in OnPlaces(join \o left) :
             k \in DOMAIN s.joins /\ s.joins[k].t = (join \o left)[k].t
             /\ s.joins[k].on = common_filter((join \o left)[k].on, {(join \o left)[k].t})
      BY <2>3, JoinedInPlaces
    <3> QED
      BY <2>1, <3>1, <3>2
  <2>5. Mine(t) \in s.joins[i].on
    BY <2>4 DEF common_filter
  <2>6. Kept(s.joins[i], e)
    BY <1>1, <2>4, JoinsKeepFilters DEF RowsOf
  <2> QED
    BY <2>4, <2>5, <2>6 DEF Kept
<1> QED
  BY <1>4, <1>5

LEMMA DirectIsFiltered ==
  ASSUME NEW q, NEW e, NEW t \in tables(q.atoms), ~ q.ignore, dalname[t] \in Filtered,
         \/ ~ count(q).error /\ e \in count(q).value
         \/ ~ set_to_update(q).error /\ e \in set_to_update(q).value
  PROVE  e[t].mine
<1>1. ~ Direct(q, Filter(q)).error /\ e \in Direct(q, Filter(q)).value
  BY DEF count, set_to_update, Err
<1> DEFINE s == Statement(tables(q.atoms), tables(q.atoms), {}, <<>>, Filter(q), {})
<1>2. e \in RowsOf(s, Top, OwnNames(q))
  BY <1>1 DEF Direct, Err, Ok
<1>3. s.where = Filter(q)
  BY StatementFields
<1> HIDE DEF s
<1> QED
  BY <1>2, <1>3, WhereKeepsFilters

----------------------------------------------------------------------------
(* Both paths, pages, and what fails                                       *)

Selected(q, fields, joined) == expand_all(fields, Scope(q, joined))
Named(q, fields, joined) == merge_tablemaps(tables(q.atoms), Selected(q, fields, joined))

LEMMA JoinsAreSequences ==
  ASSUME NEW join \in Joins, NEW left \in Joins
  PROVE  /\ join \o <<>> = join /\ <<>> \o left = left
         /\ Len(join) \in Nat /\ Len(left) \in Nat
         /\ DOMAIN join = 1 .. Len(join) /\ DOMAIN left = 1 .. Len(left)
         /\ DOMAIN (join \o left) = 1 .. (Len(join) + Len(left))
         /\ \A i \in DOMAIN join : (join \o left)[i] = join[i]
         /\ \A i \in DOMAIN left : (join \o left)[Len(join) + i] = left[i]
         /\ join # <<>> => join \o left # <<>>
         /\ left # <<>> => join \o left # <<>>
<1> DEFINE R == UNION {Range(joined) : joined \in Joins}
<1>1. join \in Seq(R) /\ left \in Seq(R)
  BY JoinsAssumption
<1> HIDE DEF R
<1> QED
  BY <1>1

\* What is selected of a statement is among what it is ordered by.
LEMMA OrderSettles ==
  ASSUME NEW q, NEW fields, NEW join, NEW left
  PROVE  SelectOf(q, fields, join, left).fields \subseteq SelectOf(q, fields, join, left).order
<1> DEFINE Good(s) == s.fields \subseteq s.order
<1>1. \A selected, names, pool, plain :
         selected \subseteq names => Good(From(q, join, left, selected, names, pool, plain))
  BY StatementFields DEF From, NoTables, _default_orderby
<1>2. \A selected, names : selected \subseteq names => Good(OfItsTables(q, selected, names))
  BY StatementFields DEF OfItsTables, _default_orderby
<1>3. \A names, more : more \subseteq merge_tablemaps(names, more)
  BY DEF merge_tablemaps
<1> HIDE DEF Good
<1>4. Good(set_to_select(q, fields, join, left))
  BY <1>1, <1>2, <1>3 DEF set_to_select, AstNamed, AstSelect, AstFrom
<1>5. Good(_select_wcols(q, fields, join, left))
  BY <1>1, <1>2, <1>3 DEF _select_wcols, OlderNamed, OlderSelect, OlderFrom
<1>6. Good(SelectOf(q, fields, join, left))
  BY <1>4, <1>5 DEF SelectOf
<1> QED
  BY <1>6 DEF Good

\* With joins of one kind, each on a condition, both paths make the same statement.
LEMMA SamePaths ==
  ASSUME NEW q, NEW fields, NEW join \in Joins, NEW left \in Joins,
         join = <<>> \/ left = <<>>, OnPlaces(join \o left) = DOMAIN (join \o left)
  PROVE  _select_wcols(q, fields, join, left) = SelectOf(q, fields, join, left)
<1>1. SelectOf(q, fields, join, left) = set_to_select(q, fields, join, left)
  BY DEF SelectOf, OlderPath
<1>2. ASSUME NEW selected, NEW names
      PROVE  AstSelect(q, join, left, selected, names) = OlderSelect(q, join, left, selected, names)
  <2>1. CASE join \o left = <<>>
    BY <2>1 DEF AstSelect, OlderSelect
  <2>2. CASE join \o left # <<>>
    <3> DEFINE b == _build_joins_for_select(names, join \o left)
               i == _build_joins_for_select(names, join)
               l == _build_joins_for_select(names, left)
    <3>1. b.join_tables = {} /\ l.join_tables = {}
      <4>1. \A joined : OnPlaces(joined) = DOMAIN joined =>
                _build_joins_for_select(names, joined).join_tables = {}
        BY DEF _build_joins_for_select
      <4>2. left = <<>> \/ join \o left = left
        BY JoinsAreSequences
      <4>3. OnPlaces(left) = DOMAIN left
        <5>1. OnPlaces(<<>>) = DOMAIN <<>>
          BY DEF OnPlaces
        <5> QED
          BY <4>2, <5>1
      <4> QED
        BY <4>1, <4>3
    <3>2. b.excluded \cup b.merge = Crossed(names, join, left, i, l)
      <4>1. CASE left = <<>>
        <5>1. join \o left = join
          BY <4>1, JoinsAreSequences
        <5> QED
          BY <4>1, <5>1 DEF Crossed
      <4>2. CASE left # <<>> /\ join = <<>>
        <5>1. join \o left = left
          BY <4>2, JoinsAreSequences
        <5> HIDE DEF b, i, l
        <5>2. Crossed(names, join, left, i, l) = l.excluded \cup l.merge
          BY <4>2 DEF Crossed
        <5> QED
          BY <5>1, <5>2 DEF b, l
      <4> QED
        BY <4>1, <4>2
    <3>3. AstSelect(q, join, left, selected, names) = AstFrom(q, join, left, selected, names, b)
      BY <2>2 DEF AstSelect
    <3>4. OlderSelect(q, join, left, selected, names) = OlderFrom(q, join, left, selected, names, i, l)
      BY <2>2 DEF OlderSelect
    <3> HIDE DEF b, i, l
    <3> QED
      BY <3>1, <3>2, <3>3, <3>4 DEF AstFrom, OlderFrom
  <2> QED
    BY <2>1, <2>2
<1> QED
  BY <1>1, <1>2 DEF set_to_select, AstNamed, _select_wcols, OlderNamed

\* Nothing is around a statement that is no subselect.
LEMMA CompiledAlone ==
  ASSUME NEW fields, NEW crossed, NEW plain, NEW joins, NEW where1, NEW order
  PROVE  LET c == Compiled(Statement(fields, crossed, plain, joins, where1, order), {})
         IN  /\ c.crossed = crossed /\ c.plain = plain
             /\ DOMAIN c.joins = DOMAIN joins
             /\ \A i \in DOMAIN joins : c.joins[i] = joins[i]
BY DEF Compiled, Statement

LEMMA FilterNames ==
  ASSUME NEW atoms, NEW names
  PROVE  /\ tables(common_filter(atoms, names)) \subseteq tables(atoms) \cup names
         /\ HasSubselect(common_filter(atoms, names)) => HasSubselect(atoms)
<1>1. \A t : Mine(t).op = "mine" /\ Mine(t).t = t
  BY DEF Mine
<1>2. \A a \in common_filter(atoms, names) : a \in atoms \/ \E t \in names : a = Mine(t)
  BY DEF common_filter
<1>3. \A a : tables({a}) = IF a.op = "refers" THEN {a.t, a.u} ELSE {a.t}
  BY DEF tables
<1>4. ASSUME NEW u \in tables(common_filter(atoms, names))
      PROVE  u \in tables(atoms) \cup names
  <2>1. PICK a \in common_filter(atoms, names) : u \in (IF a.op = "refers" THEN {a.t, a.u} ELSE {a.t})
    BY DEF tables
  <2>2. CASE a \in atoms
    BY <2>1, <2>2 DEF tables
  <2>3. CASE \E t \in names : a = Mine(t)
    <3>1. PICK t \in names : a = Mine(t)
      BY <2>3
    <3>2. a.op = "mine" /\ a.t = t
      BY <1>1, <3>1
    <3> QED
      BY <2>1, <3>2
  <2> QED
    BY <1>2, <2>2, <2>3
<1>5. HasSubselect(common_filter(atoms, names)) => HasSubselect(atoms)
  <2>1. SUFFICES ASSUME NEW a \in common_filter(atoms, names), a.op = "in" PROVE a \in atoms
    BY DEF HasSubselect
  <2>2. ~ \E t \in names : a = Mine(t)
    BY <1>1, <2>1
  <2> QED
    BY <1>2, <2>2
<1> QED
  BY <1>4, <1>5

LEMMA FilterOfSet ==
  ASSUME NEW q
  PROVE  tables(Filter(q)) \subseteq tables(q.atoms) /\ (HasSubselect(Filter(q)) => HasSubselect(q.atoms))
BY FilterNames DEF Filter

LEMMA NoSubselectFails ==
  ASSUME NEW fails, NEW atoms, NEW scope, NEW here, ~ HasSubselect(atoms)
  PROVE  ~ SubFails(fails, atoms, scope, here)
BY DEF SubFails, HasSubselect

\* What a request joins, and a request of both kinds.
Takes(joined) == {joined[i].t : i \in DOMAIN joined}
OnNames(joined) == UNION {tables(joined[i].on) : i \in OnPlaces(joined)}

LEMMA TakesBoth ==
  ASSUME NEW join \in Joins, NEW left \in Joins
  PROVE  /\ Takes(join \o left) = Takes(join) \cup Takes(left)
         /\ OnTables(join \o left) = OnTables(join) \cup OnTables(left)
         /\ OnNames(join \o left) = OnNames(join) \cup OnNames(left)
<1> DEFINE all == join \o left
           m == Len(join)
           n == Len(left)
<1>1. /\ m \in Nat /\ n \in Nat /\ DOMAIN join = 1 .. m /\ DOMAIN left = 1 .. n
      /\ DOMAIN all = 1 .. m + n
      /\ \A i \in 1 .. m : all[i] = join[i]
      /\ \A i \in 1 .. n : all[m + i] = left[i]
  BY JoinsAreSequences
<1> HIDE DEF all, m, n
<1>2. \A i \in DOMAIN all : \/ i \in DOMAIN join /\ all[i] = join[i]
                            \/ i - m \in DOMAIN left /\ all[i] = left[i - m]
  <2>1. ASSUME NEW i \in DOMAIN all, i \notin DOMAIN join
        PROVE  i - m \in DOMAIN left /\ all[i] = left[i - m]
    <3>1. i - m \in 1 .. n /\ m + (i - m) = i
      BY <1>1, <2>1
    <3> QED
      BY <1>1, <3>1
  <2> QED
    BY <1>1, <2>1
<1>3. \A i \in DOMAIN join : i \in DOMAIN all /\ all[i] = join[i]
  BY <1>1
<1>4. \A i \in DOMAIN left : m + i \in DOMAIN all /\ all[m + i] = left[i]
  BY <1>1
<1>5. Takes(all) = Takes(join) \cup Takes(left)
  BY <1>2, <1>3, <1>4 DEF Takes
<1>6. /\ \A i \in OnPlaces(all) : \/ i \in OnPlaces(join) /\ all[i] = join[i]
                                  \/ i - m \in OnPlaces(left) /\ all[i] = left[i - m]
      /\ \A i \in OnPlaces(join) : i \in OnPlaces(all) /\ all[i] = join[i]
      /\ \A i \in OnPlaces(left) : m + i \in OnPlaces(all) /\ all[m + i] = left[i]
  BY <1>2, <1>3, <1>4 DEF OnPlaces
<1>7. OnTables(all) = OnTables(join) \cup OnTables(left)
  BY <1>6 DEF OnTables
<1>8. OnNames(all) = OnNames(join) \cup OnNames(left)
  BY <1>6 DEF OnNames
<1> QED
  BY <1>5, <1>7, <1>8 DEF all

\* What is joined, by the tables of a request.
LEMMA BuiltJoins ==
  ASSUME NEW names, NEW joined
  PROVE  LET b == _build_joins_for_select(names, joined)
         IN  /\ b.on_tables = OnTables(joined) /\ b.merge = OnNames(joined) \ OnTables(joined)
             /\ b.join_tables \cup b.on_tables = Takes(joined)
             /\ b.important = Takes(joined) \cup b.merge
             /\ b.excluded = names \ b.important
             /\ OnPlaces(joined) = DOMAIN joined => b.join_tables = {}
BY DEF _build_joins_for_select, OnTables, OnNames, Takes, OnPlaces

\* A statement that has a table of the set which nothing joins.
Whole(s, q, join, left) ==
    LET known == s.crossed \cup {j.t : j \in s.plain} \cup OnTables(join \o left)
    IN  /\ s.crossed # {} /\ OnNames(join \o left) \subseteq s.crossed \cup OnTables(join \o left)
        /\ tables(q.atoms) \subseteq known /\ s.where = Filter(q)
        /\ s.joins = OnAll(join, left) \/ (s.joins = <<>> /\ join \o left = <<>>)
        /\ \E fields, plain, order : s = Statement(fields, s.crossed, plain, s.joins, s.where, order)

LEMMA WholeFrom ==
  ASSUME NEW q, NEW join, NEW left, NEW selected, NEW names, NEW pool, NEW plain, NEW t0 \in pool,
         OnNames(join \o left) \subseteq pool \cup OnTables(join \o left),
         tables(q.atoms) \subseteq pool \cup plain \cup OnTables(join \o left)
  PROVE  Whole(From(q, join, left, selected, names, pool, plain), q, join, left)
<1> DEFINE kind == IF left = <<>> THEN "inner" ELSE "left"
           taken == {Joined(kind, t, {}) : t \in plain}
           s == Statement(selected, pool, taken, OnAll(join, left), Filter(q), _default_orderby(names))
<1>1. From(q, join, left, selected, names, pool, plain) = s
  BY DEF From
<1>2. plain = {j.t : j \in taken}
  <2>1. \A t : Joined(kind, t, {}).t = t
    BY DEF Joined
  <2> HIDE DEF kind
  <2> QED
    BY <2>1
<1> HIDE DEF taken
<1>3. s.crossed = pool /\ s.plain = taken /\ s.joins = OnAll(join, left) /\ s.where = Filter(q)
  BY StatementFields
<1>4. \E fields, p, order : s = Statement(fields, s.crossed, p, s.joins, s.where, order)
  BY <1>3
<1> HIDE DEF s
<1> QED
  BY <1>1, <1>2, <1>3, <1>4 DEF Whole

LEMMA WholeSelect ==
  ASSUME NEW q, NEW fields, NEW join \in Joins, NEW left \in Joins, Apart(join, left),
         NEW t0 \in tables(q.atoms), t0 \notin Takes(join \o left)
  PROVE  Whole(SelectOf(q, fields, join, left), q, join, left)
<1> DEFINE all == join \o left
           selected == Selected(q, fields, all)
           names == Named(q, fields, all)
<1>1. tables(q.atoms) \subseteq names
  BY DEF Named, merge_tablemaps
<1>2. OnTables(all) \subseteq Takes(all)
  BY DEF OnTables, Takes, OnPlaces
<1>3. CASE all = <<>>
  <2> DEFINE s == OfItsTables(q, selected, names)
  <2>1. SelectOf(q, fields, join, left) = s
    <3>1. ~ OlderPath(join, left)
      BY <1>3, JoinsAreSequences DEF OlderPath
    <3> QED
      BY <1>3, <3>1 DEF SelectOf, set_to_select, AstNamed, AstSelect, Named, Selected
  <2>2. /\ s.crossed = names /\ s.joins = <<>> /\ s.where = Filter(q)
        /\ s = Statement(selected, names, {}, <<>>, Filter(q), _default_orderby(names))
    BY StatementFields DEF OfItsTables
  <2>3. OnNames(all) = {}
    <3>1. OnPlaces(<<>>) = {}
      BY DEF OnPlaces
    <3> QED
      BY <1>3, <3>1 DEF OnNames
  <2> HIDE DEF s, names, selected
  <2> QED
    BY <1>1, <1>3, <2>1, <2>2, <2>3 DEF Whole
<1>4. CASE all # <<>> /\ ~ OlderPath(join, left)
  <2> DEFINE b == _build_joins_for_select(names, all)
             pool == b.excluded \cup b.merge
  <2>1. SelectOf(q, fields, join, left) = From(q, join, left, selected, names, pool, b.join_tables)
    BY <1>4 DEF SelectOf, set_to_select, AstNamed, AstSelect, AstFrom, Named, Selected
  <2>2. /\ b.on_tables = OnTables(all) /\ b.merge = OnNames(all) \ OnTables(all)
        /\ b.join_tables \cup b.on_tables = Takes(all)
        /\ b.important = Takes(all) \cup b.merge /\ b.excluded = names \ b.important
    BY BuiltJoins
  <2> HIDE DEF names, selected, all, b
  <2>3. t0 \in pool
    BY <1>1, <2>2 DEF all
  <2>4. OnNames(all) \subseteq pool \cup OnTables(all)
    BY <2>2
  <2>5. tables(q.atoms) \subseteq pool \cup b.join_tables \cup OnTables(all)
    BY <1>1, <2>2
  <2> HIDE DEF pool
  <2> QED
    BY <2>1, <2>3, <2>4, <2>5, WholeFrom DEF all
<1>5. CASE OlderPath(join, left)
  <2> DEFINE i == _build_joins_for_select(names, join)
             l == _build_joins_for_select(names, left)
             pool == (i.important \cup l.important \cup names) \ (i.on_tables \cup l.on_tables)
  <2>1. SelectOf(q, fields, join, left) = From(q, join, left, selected, names, pool, l.join_tables)
    <3>1. join # <<>> /\ left # <<>>
      BY <1>5 DEF OlderPath
    <3>2. join \o left # <<>>
      BY <3>1, JoinsAreSequences
    <3>3. Crossed(names, join, left, i, l) = pool
      BY <3>1 DEF Crossed
    <3> HIDE DEF pool, i, l
    <3> QED
      BY <1>5, <3>2, <3>3 DEF SelectOf, _select_wcols, OlderNamed, OlderSelect, OlderFrom, Named, Selected, i, l
  <2>2. /\ i.on_tables = OnTables(join) /\ i.merge = OnNames(join) \ OnTables(join)
        /\ i.important = Takes(join) \cup i.merge
        /\ l.on_tables = OnTables(left) /\ l.merge = OnNames(left) \ OnTables(left)
        /\ l.important = Takes(left) \cup l.merge
    BY BuiltJoins
  <2>3. /\ Takes(all) = Takes(join) \cup Takes(left) /\ OnTables(all) = OnTables(join) \cup OnTables(left)
        /\ OnNames(all) = OnNames(join) \cup OnNames(left)
    BY TakesBoth
  <2> HIDE DEF names, selected, all, i, l
  <2>4. t0 \in pool
    BY <1>1, <1>2, <2>2, <2>3 DEF all
  <2>5. OnNames(all) \subseteq pool \cup OnTables(all)
    BY <2>2, <2>3
  <2>6. tables(q.atoms) \subseteq pool \cup l.join_tables \cup OnTables(all)
    BY <1>1, <2>2, <2>3
  <2> HIDE DEF pool
  <2> QED
    BY <2>1, <2>4, <2>5, <2>6, WholeFrom DEF all
<1> QED
  BY <1>3, <1>4, <1>5

\* Requests without subselects.
Flat(q, joined) == ~ HasSubselect(q.atoms) /\ \A i \in DOMAIN joined : ~ HasSubselect(joined[i].on)
NoneTooEarly(joined) == ~ \E i, j \in DOMAIN joined : i < j /\ joined[j].t \in tables(joined[i].on)

LEMMA JoinsInPlaces ==
  ASSUME NEW join, NEW left
  PROVE  LET joins == OnAll(join, left)
             all == join \o left
         IN  /\ DOMAIN joins = OnPlaces(all)
             /\ \A k \in OnPlaces(all) :
                   joins[k].t = all[k].t /\ joins[k].on = common_filter(all[k].on, {all[k].t})
<1> DEFINE all == join \o left
           joins == OnAll(join, left)
<1>1. DOMAIN joins = OnPlaces(all)
  BY DEF OnAll
<1>2. ASSUME NEW k \in OnPlaces(all)
      PROVE  joins[k].t = all[k].t /\ joins[k].on = common_filter(all[k].on, {all[k].t})
  <2> DEFINE kind == Kind(join, k)
             j == all[k]
  <2>1. joins[k] = _join_from_on(kind, j)
    BY DEF OnAll
  <2> HIDE DEF kind, j, joins
  <2>2. joins[k].t = j.t /\ joins[k].on = common_filter(j.on, {j.t})
    BY <2>1, JoinedFields
  <2> QED
    BY <2>2 DEF j
<1> HIDE DEF all, joins
<1> QED
  BY <1>1, <1>2 DEF all, joins

LEMMA WholeRuns ==
  ASSUME NEW q, NEW fields, NEW join \in Joins, NEW left \in Joins, Apart(join, left),
         Flat(q, join \o left), NoneTooEarly(join \o left),
         NEW t0 \in tables(q.atoms), t0 \notin Takes(join \o left)
  PROVE  ~ Fails(SelectOf(q, fields, join, left))
<1> DEFINE all == join \o left
           s == SelectOf(q, fields, join, left)
           c == Compiled(s, {})
           before(i) == {c.joins[k].t : k \in {n \in DOMAIN c.joins : n <= i}}
<1>1. Whole(s, q, join, left)
  BY WholeSelect
<1>2. c.crossed = s.crossed /\ c.plain = s.plain /\ DOMAIN c.joins = DOMAIN s.joins
      /\ \A i \in DOMAIN s.joins : c.joins[i] = s.joins[i]
  <2>1. PICK fields1, plain, order : s = Statement(fields1, s.crossed, plain, s.joins, s.where, order)
    BY <1>1 DEF Whole
  <2> HIDE DEF s
  <2>2. s.plain = plain
    BY <2>1, StatementFields
  <2>3. /\ c.crossed = s.crossed /\ c.plain = plain /\ DOMAIN c.joins = DOMAIN s.joins
        /\ \A i \in DOMAIN s.joins : c.joins[i] = s.joins[i]
    BY <2>1, CompiledAlone
  <2> QED
    BY <2>2, <2>3
<1> HIDE DEF s, c, before
<1>3. DOMAIN s.joins = OnPlaces(all)
      /\ \A i \in OnPlaces(all) : s.joins[i].t = all[i].t /\ s.joins[i].on = common_filter(all[i].on, {all[i].t})
  <2>1. s.joins = OnAll(join, left)
        \/ (s.joins = <<>> /\ all = <<>>)
    BY <1>1 DEF Whole
  <2>2. CASE s.joins = OnAll(join, left)
    <3> DEFINE joins == OnAll(join, left)
    <3>1. /\ DOMAIN joins = OnPlaces(all)
          /\ \A k \in OnPlaces(all) :
                joins[k].t = all[k].t /\ joins[k].on = common_filter(all[k].on, {all[k].t})
      BY JoinsInPlaces
    <3> HIDE DEF all, joins
    <3>2. s.joins = joins
      BY <2>2 DEF joins
    <3> QED
      BY <3>1, <3>2
  <2>3. CASE s.joins = <<>> /\ all = <<>>
    <3>1. OnPlaces(<<>>) = {} /\ DOMAIN <<>> = {}
      BY DEF OnPlaces
    <3> HIDE DEF all
    <3> QED
      BY <2>3, <3>1
  <2> QED
    BY <2>1, <2>2, <2>3
<1>4. OnPlaces(all) \subseteq DOMAIN all /\ DOMAIN all \subseteq Nat
  BY JoinsAreSequences DEF OnPlaces
<1>5. OnTables(all) = {s.joins[i].t : i \in DOMAIN s.joins}
  BY <1>3 DEF OnTables
<1>6. /\ s.crossed # {} /\ OnNames(all) \subseteq s.crossed \cup OnTables(all)
      /\ tables(q.atoms) \subseteq s.crossed \cup {j.t : j \in s.plain} \cup OnTables(all)
      /\ s.where = Filter(q)
  BY <1>1 DEF Whole
<1>7. ~ HasSubselect(q.atoms) /\ \A i \in DOMAIN all : ~ HasSubselect(all[i].on)
  BY DEF Flat
<1>8. \A i, k \in DOMAIN all : i < k => all[k].t \notin tables(all[i].on)
  BY DEF NoneTooEarly
<1> HIDE DEF all
<1> USE DEF before
<1>9. c.crossed # {}
  BY <1>2, <1>6
<1>10. ASSUME NEW i \in DOMAIN c.joins
       PROVE  tables(c.joins[i].on) \subseteq c.crossed \cup {j.t : j \in c.plain} \cup before(i)
  <2>1. i \in OnPlaces(all) /\ i \in DOMAIN all /\ i \in Nat
    BY <1>2, <1>3, <1>4
  <2>2. c.joins[i].t = all[i].t /\ c.joins[i].on = common_filter(all[i].on, {all[i].t})
    BY <1>2, <1>3, <2>1
  <2>3. SUFFICES ASSUME NEW u \in tables(c.joins[i].on), u \notin c.crossed PROVE u \in before(i)
    OBVIOUS
  <2>4. CASE u = all[i].t
    <3>1. i \in {n \in DOMAIN c.joins : n <= i}
      BY <2>1
    <3> QED
      BY <2>2, <2>4, <3>1
  <2>5. CASE u \in tables(all[i].on)
    <3>1. u \in OnNames(all)
      BY <2>1, <2>5 DEF OnNames
    <3>2. PICK k \in DOMAIN s.joins : u = s.joins[k].t
      BY <1>2, <1>5, <1>6, <2>3, <3>1
    <3>3. k \in DOMAIN all /\ k \in Nat /\ u = all[k].t /\ k \in DOMAIN c.joins /\ u = c.joins[k].t
      BY <1>2, <1>3, <1>4, <3>2
    <3>4. ~ (i < k)
      BY <1>8, <2>1, <2>5, <3>3
    <3>5. k \in {n \in DOMAIN c.joins : n <= i}
      BY <2>1, <3>3, <3>4
    <3> QED
      BY <3>3, <3>5
  <2>6. u = all[i].t \/ u \in tables(all[i].on)
    BY <2>2, <2>3, FilterNames
  <2> QED
    BY <2>4, <2>5, <2>6
<1>11. AllNames(c) = s.crossed \cup {j.t : j \in s.plain} \cup OnTables(all)
  BY <1>2, <1>5 DEF AllNames
<1>12. tables(s.where) \subseteq AllNames(c)
  BY <1>6, <1>11, FilterOfSet
<1>13. ~ HasSubselect(s.where)
  BY <1>6, <1>7, FilterOfSet
<1>14. \A i \in DOMAIN s.joins : ~ HasSubselect(s.joins[i].on)
  <2> SUFFICES ASSUME NEW i \in DOMAIN s.joins PROVE ~ HasSubselect(s.joins[i].on)
    OBVIOUS
  <2>1. i \in DOMAIN all /\ s.joins[i].on = common_filter(all[i].on, {all[i].t})
    BY <1>3, <1>4
  <2> QED
    BY <1>7, <2>1, FilterNames
<1> HIDE DEF before
<1>15. \A i : before(i) = JoinedNames(c, i)
  BY DEF JoinedNames, before
<1>16. ~ FailsIn(SubselectFails, s, {}, {})
  <2> DEFINE known(i) == {} \cup c.crossed \cup {j.t : j \in c.plain} \cup JoinedNames(c, i)
             aroundAll == {} \cup AllNames(c)
             inner == {} \cup AllNames(s)
  <2>1. FailsIn(SubselectFails, s, {}, {}) =
           (\/ c.crossed = {}
            \/ \E i \in DOMAIN c.joins : ~(tables(c.joins[i].on) \subseteq known(i))
            \/ ~(tables(s.where) \subseteq aroundAll)
            \/ \E i \in DOMAIN s.joins : SubFails(SubselectFails, s.joins[i].on, inner, known(i))
            \/ SubFails(SubselectFails, s.where, inner, aroundAll))
    BY DEF FailsIn, c
  <2>2. \A i \in DOMAIN c.joins : tables(c.joins[i].on) \subseteq known(i)
    BY <1>10, <1>15
  <2>3. tables(s.where) \subseteq aroundAll
    BY <1>12
  <2> HIDE DEF known, aroundAll, inner
  <2>4. \A i \in DOMAIN s.joins : ~ SubFails(SubselectFails, s.joins[i].on, inner, known(i))
    BY <1>14, NoSubselectFails
  <2>5. ~ SubFails(SubselectFails, s.where, inner, aroundAll)
    BY <1>13, NoSubselectFails
  <2> QED
    BY <1>9, <2>1, <2>2, <2>3, <2>4, <2>5
<1> QED
  BY <1>16 DEF Fails, s

----------------------------------------------------------------------------
(* Recursion over the subselects in subselects                                *)

Below(sub) == SubsOf(sub.set.atoms)
Part(f, sub, X, Y) == [p \in Below(sub) \X X \X Y |-> f[p]]
TypedStep(X, Y, V, step) ==
    \A sub \in Subselects : \A x \in X, y \in Y : \A g \in [Below(sub) \X X \X Y -> V] : step[<<sub, x, y, g>>] \in V
Solves(f, D, X, Y, V, step) ==
    /\ f \in [D \X X \X Y -> V]
    /\ \A sub \in D : \A x \in X, y \in Y : f[<<sub, x, y>>] = step[<<sub, x, y, Part(f, sub, X, Y)>>]

\* A solution of the subselects D is one of another, too, whose own are in D.
LEMMA SolvedOneMore ==
  ASSUME NEW X, NEW Y, NEW V, NEW step, TypedStep(X, Y, V, step),
         NEW D \in SUBSET Subselects, Closed(D), NEW f, Solves(f, D, X, Y, V, step),
         NEW one \in Subselects \ D, Below(one) \subseteq D
  PROVE  \E g : Solves(g, D \cup {one}, X, Y, V, step)
<1> DEFINE last(x, y) == step[<<one, x, y, Part(f, one, X, Y)>>]
           g == [p \in (D \cup {one}) \X X \X Y |-> IF p[1] = one THEN last(p[2], p[3]) ELSE f[p]]
<1>1. ASSUME NEW sub \in D \cup {one} PROVE Below(sub) \subseteq D
  BY DEF Closed, Below
<1>2. ASSUME NEW sub \in D \cup {one} PROVE Part(g, sub, X, Y) = Part(f, sub, X, Y)
  <2>1. \A p \in Below(sub) \X X \X Y : g[p] = f[p]
    BY <1>1
  <2> HIDE DEF g
  <2> QED
    BY <2>1 DEF Part
<1>3. Part(f, one, X, Y) \in [Below(one) \X X \X Y -> V]
  <2>1. \A p \in Below(one) \X X \X Y : f[p] \in V
    BY DEF Solves
  <2> QED
    BY <2>1 DEF Part
<1>4. \A x \in X, y \in Y : last(x, y) \in V
  BY <1>3 DEF TypedStep
<1>5. g \in [(D \cup {one}) \X X \X Y -> V]
  <2>1. ASSUME NEW p \in (D \cup {one}) \X X \X Y
        PROVE  (IF p[1] = one THEN last(p[2], p[3]) ELSE f[p]) \in V
    <3>1. p[2] \in X /\ p[3] \in Y /\ (p[1] # one => p \in D \X X \X Y)
      OBVIOUS
    <3> HIDE DEF last
    <3> QED
      BY <1>4, <3>1 DEF Solves
  <2> HIDE DEF last
  <2> QED
    BY <2>1
<1>6. ASSUME NEW sub \in D \cup {one}, NEW x \in X, NEW y \in Y
      PROVE  g[<<sub, x, y>>] = step[<<sub, x, y, Part(g, sub, X, Y)>>]
  <2>1. g[<<sub, x, y>>] = IF sub = one THEN last(x, y) ELSE f[<<sub, x, y>>]
    OBVIOUS
  <2>2. sub # one => f[<<sub, x, y>>] = step[<<sub, x, y, Part(f, sub, X, Y)>>]
    BY DEF Solves
  <2> HIDE DEF g
  <2> QED
    BY <1>2, <2>1, <2>2
<1>7. Solves(g, D \cup {one}, X, Y, V, step)
  <2> HIDE DEF g
  <2> QED
    BY <1>5, <1>6 DEF Solves
<1> QED
  BY <1>7

\* What is defined of a subselect by those in it is defined of all.
LEMMA Solved ==
  ASSUME NEW X, NEW Y, NEW V, NEW step, TypedStep(X, Y, V, step)
  PROVE  \E f : Solves(f, Subselects, X, Y, V, step)
<1> DEFINE Can(D) == Closed(D) /\ \E f : Solves(f, D, X, Y, V, step)
           Those == {D \in SUBSET Subselects : Can(D)}
           Sizes == {Cardinality(D) : D \in Those}
           N == Cardinality(Subselects)
<1>1. /\ N \in Nat
      /\ \A D \in SUBSET Subselects : IsFiniteSet(D) /\ Cardinality(D) \in Nat /\ Cardinality(D) <= N
  BY SubselectsAssumption, FS_Subset, FS_CardinalityType
<1>2. {} \in Those
  <2> DEFINE f == [p \in {} \X X \X Y |-> p]
  <2>1. f \in [{} \X X \X Y -> V]
    OBVIOUS
  <2> HIDE DEF f
  <2>2. Solves(f, {}, X, Y, V, step)
    BY <2>1 DEF Solves
  <2> QED
    BY <2>2 DEF Closed
<1>3. Sizes \in SUBSET Nat /\ Sizes # {} /\ \A n \in Sizes : n <= N
  <2> HIDE DEF Can, N
  <2> QED
    BY <1>1, <1>2
<1>4. PICK D \in Those : \A E \in Those : Cardinality(E) <= Cardinality(D)
  <2>1. Max(Sizes) \in Sizes /\ \A n \in Sizes : n <= Max(Sizes)
    <3> HIDE DEF Sizes, N
    <3> QED
      BY <1>1, <1>3, Greatest
  <2> HIDE DEF Those
  <2> QED
    BY <2>1
<1>5. PICK f : Solves(f, D, X, Y, V, step)
  OBVIOUS
<1>6. CASE D # Subselects
  <2>1. Subselects \ D \in (SUBSET Subselects) \ {{}}
    BY <1>6
  <2>2. PICK one \in Subselects \ D : Below(one) \cap (Subselects \ D) = {}
    BY <2>1, SubselectsAssumption DEF Below
  <2>3. Below(one) \subseteq D
    BY <2>2, SubselectsAssumption DEF Closed, Below
  <2>4. \E g : Solves(g, D \cup {one}, X, Y, V, step)
    BY <1>5, <2>2, <2>3, SolvedOneMore
  <2>5. D \cup {one} \in Those
    <3>1. Closed(D \cup {one})
      BY <2>3 DEF Closed, Below
    <3> QED
      BY <2>4, <3>1
  <2>6. Cardinality(D \cup {one}) = Cardinality(D) + 1
    BY <1>1, FS_AddElement
  <2> HIDE DEF Those
  <2>7. Cardinality(D \cup {one}) <= Cardinality(D)
    BY <1>4, <2>5
  <2>8. Cardinality(D) \in Nat
    BY <1>1 DEF Those
  <2> QED
    BY <2>6, <2>7, <2>8
<1> QED
  BY <1>5, <1>6

----------------------------------------------------------------------------
(* What a subselect returns                                                   *)

\* A statement without joins returns the rows of its FROM that meet its conditions.
LEMMA RowsUnjoined ==
  ASSUME NEW among, NEW s, DOMAIN s.joins = {}, NEW outer, NEW scope
  PROVE  RowsIn(among, s, outer, scope) = {e \in StartRows(s, outer) : AllHold(among, s.where, e, scope)}
<1>1. Placed(s)
  BY DEF Placed
<1>2. LastPlace(s) = 0
  <2>1. LastPlace(s) = Max({0})
    BY DEF LastPlace
  <2>2. Max({0}) \in {0}
    <3> DEFINE D == {0}
    <3>1. D \in SUBSET Nat /\ D # {} /\ 0 \in Nat /\ \A i \in D : i <= 0
      OBVIOUS
    <3> HIDE DEF D
    <3>2. Max(D) \in D
      BY <3>1, Greatest
    <3> QED
      BY <3>2 DEF D
  <2> QED
    BY <2>1, <2>2
<1>3. Joining(among, s, outer, scope)[0] = StartRows(s, outer)
  BY <1>1, JoiningStep
<1> QED
  BY <1>2, <1>3 DEF RowsIn, LastPlace

\* A subselect has a FROM of the names it uses, but for those in scope around it.
LEMMA SubselectIs ==
  ASSUME NEW sub
  PROVE  LET s == SubselectOf(sub)
         IN  /\ s = Statement({sub.of}, NamesOf(sub), {}, <<>>, Filter(sub.set), NamesOf(sub))
             /\ s.crossed = NamesOf(sub) /\ s.plain = {} /\ s.joins = <<>> /\ s.where = Filter(sub.set)
             /\ AllNames(s) = NamesOf(sub)
<1> DEFINE s == SubselectOf(sub)
           names == NamesOf(sub)
<1>1. <<>> \o <<>> = <<>> /\ Len(<<>>) = 0
  OBVIOUS
<1>2. expand_all({sub.of}, Scope(sub.set, <<>>)) = {sub.of} /\ merge_tablemaps(tables(sub.set.atoms), {sub.of}) = names
  BY DEF expand_all, merge_tablemaps, NamesOf
<1>3. s = Statement({sub.of}, names, {}, <<>>, Filter(sub.set), names)
  BY <1>1, <1>2 DEF SubselectOf, SelectOf, OlderPath, set_to_select, AstNamed, AstSelect, OfItsTables, _default_orderby
<1> HIDE DEF s, names
<1>4. s.crossed = names /\ s.plain = {} /\ s.joins = <<>> /\ s.where = Filter(sub.set)
  BY <1>3, StatementFields
<1>5. AllNames(s) = names
  BY <1>4 DEF AllNames
<1> QED
  BY <1>3, <1>4, <1>5 DEF s, names

Own(sub, scope) == NamesOf(sub) \ scope
CompiledOf(sub, scope) == Compiled(SubselectOf(sub), scope)

LEMMA CompiledSubselect ==
  ASSUME NEW sub, NEW scope
  PROVE  LET c == CompiledOf(sub, scope)
         IN  /\ c.crossed = Own(sub, scope) /\ c.plain = {} /\ DOMAIN c.joins = {} /\ c.where = Filter(sub.set)
             /\ AllNames(c) = Own(sub, scope)
<1> DEFINE s == SubselectOf(sub)
           c == CompiledOf(sub, scope)
           joins == [i \in {n \in DOMAIN s.joins : s.joins[n].t \notin scope} |-> s.joins[i]]
<1>1. /\ s = Statement({sub.of}, NamesOf(sub), {}, <<>>, Filter(sub.set), NamesOf(sub))
      /\ s.crossed = NamesOf(sub) /\ s.plain = {} /\ s.joins = <<>> /\ s.where = Filter(sub.set)
  BY SubselectIs
<1>2. c.crossed = s.crossed \ scope /\ c.plain = {j \in s.plain : j.t \notin scope} /\ c.joins = joins /\ c.where = s.where
  <2> HIDE DEF s
  <2> QED
    BY <1>1 DEF CompiledOf, Compiled, Statement, s
<1>3. DOMAIN joins = {}
  BY <1>1
<1> HIDE DEF s, joins
<1>4. c.crossed = Own(sub, scope) /\ c.plain = {} /\ DOMAIN c.joins = {} /\ c.where = Filter(sub.set)
  BY <1>1, <1>2, <1>3 DEF Own
<1> HIDE DEF c
<1>5. AllNames(c) = Own(sub, scope)
  BY <1>4 DEF AllNames
<1> QED
  BY <1>4, <1>5 DEF c

\* Its rows are those of the statement around it, with a row of each table of its own.
RowAround(e, env, own) ==
    \E f \in [own -> SomeRows1] :
       /\ \A t \in own : f[t] \in Contents[dalname[t]]
       /\ e = [x \in DOMAIN env \cup own |-> IF x \in own THEN f[x] ELSE env[x]]

LEMMA StartAround ==
  ASSUME NEW sub, NEW env, NEW scope, NEW e
  PROVE  e \in StartRows(CompiledOf(sub, scope), env) <=> RowAround(e, env, Own(sub, scope))
<1> DEFINE c == CompiledOf(sub, scope)
           own == c.crossed \cup {j.t : j \in c.plain}
           Row(f) == [x \in DOMAIN env \cup own |-> IF x \in own THEN f[x] ELSE env[x]]
           Starts == {g \in [own -> SomeRows1] : \A t \in own : g[t] \in StartOf(c, t)}
<1>1. StartRows(c, env) = {Row(f) : f \in Starts}
  BY DEF StartRows
<1>2. c.crossed = Own(sub, scope) /\ c.plain = {}
  BY CompiledSubselect
<1> HIDE DEF c
<1>3. own = Own(sub, scope)
  <2>1. {j.t : j \in c.plain} = {}
    BY <1>2
  <2> QED
    BY <1>2, <2>1
<1>4. \A t : StartOf(c, t) = Contents[dalname[t]]
  BY <1>2 DEF StartOf
<1>5. \A f : f \in Starts <=> f \in [own -> SomeRows1] /\ \A t \in own : f[t] \in Contents[dalname[t]]
  BY <1>4
<1> HIDE DEF own, Starts
<1>6. RowAround(e, env, own) <=> \E f \in Starts : e = Row(f)
  BY <1>5 DEF RowAround
<1> HIDE DEF Row
<1> QED
  BY <1>1, <1>3, <1>6 DEF c

LEMMA AroundIsEnv ==
  ASSUME NEW env \in Envs, NEW own \in SUBSET TableNames1, NEW e, RowAround(e, env, own)
  PROVE  e \in Envs /\ DOMAIN e = DOMAIN env \cup own
<1>1. PICK S \in SUBSET TableNames1 : env \in [S -> SomeRows1]
  BY DEF Envs
<1>2. PICK f \in [own -> SomeRows1] : e = [x \in DOMAIN env \cup own |-> IF x \in own THEN f[x] ELSE env[x]]
  BY DEF RowAround
<1>3. S \cup own \in SUBSET TableNames1 /\ e \in [S \cup own -> SomeRows1]
  BY <1>1, <1>2
<1> QED
  BY <1>1, <1>2, <1>3 DEF Envs

LEMMA HoldsAlike ==
  ASSUME NEW one, NEW two, NEW atoms, NEW e, NEW f, NEW here, NEW there,
         \A t \in tables(atoms) : e[t] = f[t],
         \A sub \in SubsOf(atoms) : one[<<sub, e, here>>] = two[<<sub, f, there>>]
  PROVE  AllHold(one, atoms, e, here) <=> AllHold(two, atoms, f, there)
<1>1. ASSUME NEW a \in atoms PROVE HoldsIn(one, a, e, here) <=> HoldsIn(two, a, f, there)
  <2>1. e[a.t] = f[a.t]
    BY DEF tables
  <2>2. a.op = "refers" => e[a.u] = f[a.u]
    BY DEF tables
  <2>3. a.op = "in" => one[<<a.sub, e, here>>] = two[<<a.sub, f, there>>]
    BY DEF SubsOf
  <2> QED
    BY <2>1, <2>2, <2>3 DEF HoldsIn, IsMet
<1> QED
  BY <1>1 DEF AllHold

LEMMA FilterSubs ==
  ASSUME NEW q
  PROVE  SubsOf(Filter(q)) = SubsOf(q.atoms) /\ tables(Filter(q)) = tables(q.atoms)
<1>1. \A t : Mine(t).op = "mine"
  BY DEF Mine
<1>2. \A a \in Filter(q) : a.op = "in" => a \in q.atoms
  BY <1>1 DEF Filter, common_filter
<1>3. q.atoms \subseteq Filter(q)
  BY DEF Filter, common_filter
<1>4. tables(q.atoms) \subseteq tables(Filter(q))
  BY <1>3 DEF tables
<1> QED
  BY <1>2, <1>3, <1>4, FilterOfSet DEF SubsOf

LEMMA ReturnedRows ==
  ASSUME NEW among, NEW sub, NEW env, NEW scope
  PROVE  ReturnedIn(among, sub, env, scope)
           = {e[sub.of].ref : e \in {r \in StartRows(CompiledOf(sub, scope), env) :
                                        AllHold(among, Filter(sub.set), r, scope \cup NamesOf(sub))}}
<1>1. AllNames(SubselectOf(sub)) = NamesOf(sub)
  BY SubselectIs
<1>2. DOMAIN CompiledOf(sub, scope).joins = {} /\ CompiledOf(sub, scope).where = Filter(sub.set)
  BY CompiledSubselect
<1>3. RowsIn(among, CompiledOf(sub, scope), env, scope \cup NamesOf(sub))
        = {r \in StartRows(CompiledOf(sub, scope), env) : AllHold(among, Filter(sub.set), r, scope \cup NamesOf(sub))}
  BY <1>2, RowsUnjoined
<1> QED
  BY <1>1, <1>3 DEF ReturnedIn, CompiledOf

\* It depends on those in it only.
LEMMA ReturnedAlike ==
  ASSUME NEW one, NEW two, NEW sub \in Subselects, NEW env \in Envs, NEW scope \in SUBSET TableNames1,
         \A b \in Below(sub) : \A e \in Envs : \A S \in SUBSET TableNames1 : one[<<b, e, S>>] = two[<<b, e, S>>]
  PROVE  ReturnedIn(one, sub, env, scope) = ReturnedIn(two, sub, env, scope)
<1>1. NamesOf(sub) \subseteq TableNames1
  BY NamesAssumption DEF TableNames1
<1>2. ASSUME NEW e \in StartRows(CompiledOf(sub, scope), env)
      PROVE  AllHold(one, Filter(sub.set), e, scope \cup NamesOf(sub)) <=> AllHold(two, Filter(sub.set), e, scope \cup NamesOf(sub))
  <2>1. e \in Envs
    BY <1>1, StartAround, AroundIsEnv DEF Own
  <2>2. scope \cup NamesOf(sub) \in SUBSET TableNames1
    BY <1>1
  <2>3. \A b \in SubsOf(Filter(sub.set)) : one[<<b, e, scope \cup NamesOf(sub)>>] = two[<<b, e, scope \cup NamesOf(sub)>>]
    BY <2>1, <2>2, FilterSubs DEF Below
  <2> QED
    BY <2>3, HoldsAlike
<1> QED
  BY <1>2, ReturnedRows

Scopes == SUBSET TableNames1

\* What SelectedIn tells of a subselect is what it returns, SelectedIn telling of those in it.
LEMMA SelectedUnfolds ==
  /\ \A sub \in Subselects, env \in Envs, scope \in Scopes :
        SelectedIn[<<sub, env, scope>>] = ReturnedIn(SelectedIn, sub, env, scope)
<1> DEFINE D == Subselects \X Envs \X Scopes
           Starts == UNION {StartRows(CompiledOf(p[1], p[3]), p[2]) : p \in D}
           Refs == {p[2][p[1].of].ref : p \in Subselects \X Starts}
           V == SUBSET Refs
           Gs == UNION {[Below(sub) \X Envs \X Scopes -> V] : sub \in Subselects}
           step == [p \in Subselects \X Envs \X Scopes \X Gs |-> ReturnedIn(p[4], p[1], p[2], p[3])]
<1>1. ASSUME NEW among, NEW sub \in Subselects, NEW env \in Envs, NEW scope \in Scopes
      PROVE  ReturnedIn(among, sub, env, scope) \in V
  <2>1. ASSUME NEW e \in StartRows(CompiledOf(sub, scope), env) PROVE e[sub.of].ref \in Refs
    <3>1. <<sub, env, scope>> \in D
      OBVIOUS
    <3>2. e \in Starts
      BY <3>1
    <3> HIDE DEF Starts
    <3>3. <<sub, e>> \in Subselects \X Starts
      BY <3>2
    <3> QED
      BY <3>3
  <2> HIDE DEF Refs
  <2> QED
    BY <2>1, ReturnedRows
<1> HIDE DEF V
<1>2. ASSUME NEW sub \in Subselects, NEW env \in Envs, NEW scope \in Scopes, NEW g \in [Below(sub) \X Envs \X Scopes -> V]
      PROVE  step[<<sub, env, scope, g>>] = ReturnedIn(g, sub, env, scope)
  <2>1. g \in Gs
    OBVIOUS
  <2> HIDE DEF Gs
  <2>2. <<sub, env, scope, g>> \in Subselects \X Envs \X Scopes \X Gs
    BY <2>1
  <2> QED
    BY <2>2
<1> HIDE DEF step
<1>3. TypedStep(Envs, Scopes, V, step)
  <2> SUFFICES ASSUME NEW sub \in Subselects, NEW env \in Envs, NEW scope \in Scopes,
                      NEW g \in [Below(sub) \X Envs \X Scopes -> V]
               PROVE  step[<<sub, env, scope, g>>] \in V
    BY DEF TypedStep
  <2>1. step[<<sub, env, scope, g>>] = ReturnedIn(g, sub, env, scope)
    BY <1>2
  <2>2. ReturnedIn(g, sub, env, scope) \in V
    BY <1>1
  <2> QED
    BY <2>1, <2>2
<1>4. PICK f : Solves(f, Subselects, Envs, Scopes, V, step)
  BY <1>3, Solved
<1>5. ASSUME NEW sub \in Subselects, NEW env \in Envs, NEW scope \in Scopes
      PROVE  f[<<sub, env, scope>>] = ReturnedIn(f, sub, env, scope)
  <2> DEFINE g == Part(f, sub, Envs, Scopes)
  <2>1. \A p \in Below(sub) \X Envs \X Scopes : g[p] = f[p] /\ p \in Subselects \X Envs \X Scopes
    BY SubselectsAssumption DEF Part, Closed, Below
  <2>2. g \in [Below(sub) \X Envs \X Scopes -> V]
    BY <1>4, <2>1 DEF Solves, Part
  <2>3. f[<<sub, env, scope>>] = ReturnedIn(g, sub, env, scope)
    BY <1>2, <1>4, <2>2 DEF Solves
  <2>4. \A b \in Below(sub) : \A e \in Envs : \A S \in Scopes : g[<<b, e, S>>] = f[<<b, e, S>>]
    BY <2>1
  <2> HIDE DEF g
  <2>5. ReturnedIn(g, sub, env, scope) = ReturnedIn(f, sub, env, scope)
    BY <2>4, ReturnedAlike DEF Scopes
  <2> QED
    BY <2>3, <2>5
<1>6. f = [p \in D |-> ReturnedIn(f, p[1], p[2], p[3])]
  <2>1. ASSUME NEW p \in D PROVE f[p] = ReturnedIn(f, p[1], p[2], p[3])
    <3>1. p = <<p[1], p[2], p[3]>> /\ p[1] \in Subselects /\ p[2] \in Envs /\ p[3] \in Scopes
      OBVIOUS
    <3> QED
      BY <1>5, <3>1
  <2>2. f = [p \in D |-> f[p]]
    BY <1>4 DEF Solves
  <2> HIDE DEF D
  <2> QED
    BY <2>1, <2>2
<1>7. SelectedIn = CHOOSE g : g = [p \in D |-> ReturnedIn(g, p[1], p[2], p[3])]
  BY DEF SelectedIn, Scopes
<1>8. SelectedIn = [p \in D |-> ReturnedIn(SelectedIn, p[1], p[2], p[3])]
  <2> HIDE DEF D
  <2> QED
    BY <1>6, <1>7
<1> QED
  BY <1>8

\* A condition fails if a subselect of it does.
LEMMA SubFailsOf ==
  ASSUME NEW fails, NEW atoms, NEW scope, NEW here
  PROVE  SubFails(fails, atoms, scope, here) <=> \E b \in SubsOf(atoms) : fails[<<b, scope, here>>]
<1>1. \A b : b \in SubsOf(atoms) <=> \E a \in atoms : a.op = "in" /\ b = a.sub
  BY DEF SubsOf
<1>2. ASSUME SubFails(fails, atoms, scope, here) PROVE \E b \in SubsOf(atoms) : fails[<<b, scope, here>>]
  <2>1. PICK a \in atoms : a.op = "in" /\ fails[<<a.sub, scope, here>>]
    BY <1>2 DEF SubFails
  <2>2. a.sub \in SubsOf(atoms)
    BY <1>1, <2>1
  <2> QED
    BY <2>1, <2>2
<1>3. ASSUME NEW b \in SubsOf(atoms), fails[<<b, scope, here>>] PROVE SubFails(fails, atoms, scope, here)
  <2>1. PICK a \in atoms : a.op = "in" /\ b = a.sub
    BY <1>1
  <2>2. fails[<<a.sub, scope, here>>]
    BY <1>3, <2>1
  <2> QED
    BY <2>1, <2>2 DEF SubFails
<1> QED
  BY <1>2, <1>3

\* A subselect fails without a table of its own, if one it names is neither that nor
\* around it, or if one in it fails.
LEMMA FailsIf ==
  ASSUME NEW fails, NEW sub, NEW scope, NEW here
  PROVE  LET own == Own(sub, scope)
         IN  SubselectFailsIn(fails, sub, scope, here) <=>
               \/ own = {}
               \/ ~ (NamesOf(sub) \subseteq here \cup own)
               \/ \E b \in Below(sub) : fails[<<b, scope \cup NamesOf(sub), here \cup own>>]
<1> DEFINE s == SubselectOf(sub)
           c == CompiledOf(sub, scope)
           own == Own(sub, scope)
           inner == scope \cup NamesOf(sub)
<1>1. /\ s = Statement({sub.of}, NamesOf(sub), {}, <<>>, Filter(sub.set), NamesOf(sub))
      /\ s.joins = <<>> /\ s.where = Filter(sub.set) /\ AllNames(s) = NamesOf(sub)
  BY SubselectIs
<1>2. c.crossed = own /\ c.plain = {} /\ DOMAIN c.joins = {} /\ AllNames(c) = own
  BY CompiledSubselect
<1>3. c = Compiled(s, scope)
  BY DEF CompiledOf
<1> HIDE DEF s, c, own
<1>4. s.fields = {sub.of}
  BY <1>1, StatementFields
<1>5. tables(s.where) \cup s.fields = NamesOf(sub)
  BY <1>1, <1>4, FilterSubs DEF NamesOf
<1>6. SubFails(fails, s.where, inner, here \cup own) <=> \E b \in Below(sub) : fails[<<b, inner, here \cup own>>]
  <2>1. Below(sub) = SubsOf(s.where)
    BY <1>1, FilterSubs DEF Below
  <2> HIDE DEF inner
  <2> QED
    BY <2>1, SubFailsOf
<1>7. DOMAIN s.joins = {}
  BY <1>1
<1>8. FailsIn(fails, s, scope, here) <=>
         own = {} \/ ~ (tables(s.where) \subseteq here \cup own) \/ SubFails(fails, s.where, inner, here \cup own)
  BY <1>1, <1>2, <1>7, <1>3 DEF FailsIn
<1>9. SubselectFailsIn(fails, sub, scope, here) <=>
         FailsIn(fails, s, scope, here) \/ ~ (s.fields \subseteq here \cup own)
  BY <1>2, <1>3 DEF SubselectFailsIn, s
<1> QED
  BY <1>5, <1>6, <1>8, <1>9 DEF own

\* That, too, depends on those in it only.
LEMMA FailsAsIn ==
  ASSUME NEW one, NEW two, NEW sub \in Subselects, NEW scope \in Scopes, NEW here \in Scopes,
         \A b \in Below(sub) : \A S \in Scopes, T \in Scopes : one[<<b, S, T>>] = two[<<b, S, T>>]
  PROVE  SubselectFailsIn(one, sub, scope, here) <=> SubselectFailsIn(two, sub, scope, here)
<1> DEFINE own == Own(sub, scope)
           inner == scope \cup NamesOf(sub)
           all == here \cup own
<1>1. inner \in Scopes /\ all \in Scopes
  BY NamesAssumption DEF Scopes, TableNames1, Own
<1> HIDE DEF inner, all
<1>2. \A b \in Below(sub) : one[<<b, inner, all>>] = two[<<b, inner, all>>]
  BY <1>1
<1>3. (\E b \in Below(sub) : one[<<b, inner, all>>]) <=> (\E b \in Below(sub) : two[<<b, inner, all>>])
  BY <1>2
<1> QED
  BY <1>3, FailsIf DEF inner, all

LEMMA FailsUnfolds ==
  \A sub \in Subselects, scope \in Scopes, here \in Scopes :
     SubselectFails[<<sub, scope, here>>] = SubselectFailsIn(SubselectFails, sub, scope, here)
<1> DEFINE D == Subselects \X Scopes \X Scopes
           Gs == UNION {[Below(sub) \X Scopes \X Scopes -> BOOLEAN] : sub \in Subselects}
           step == [p \in Subselects \X Scopes \X Scopes \X Gs |-> SubselectFailsIn(p[4], p[1], p[2], p[3])]
<1>1. ASSUME NEW fails, NEW sub \in Subselects, NEW scope \in Scopes, NEW here \in Scopes
      PROVE  SubselectFailsIn(fails, sub, scope, here) \in BOOLEAN
  BY DEF SubselectFailsIn
<1>2. ASSUME NEW sub \in Subselects, NEW scope \in Scopes, NEW here \in Scopes, NEW g \in [Below(sub) \X Scopes \X Scopes -> BOOLEAN]
      PROVE  step[<<sub, scope, here, g>>] = SubselectFailsIn(g, sub, scope, here)
  <2>1. g \in Gs
    OBVIOUS
  <2> HIDE DEF Gs
  <2>2. <<sub, scope, here, g>> \in Subselects \X Scopes \X Scopes \X Gs
    BY <2>1
  <2> QED
    BY <2>2
<1> HIDE DEF step
<1>3. TypedStep(Scopes, Scopes, BOOLEAN, step)
  <2> SUFFICES ASSUME NEW sub \in Subselects, NEW scope \in Scopes, NEW here \in Scopes,
                      NEW g \in [Below(sub) \X Scopes \X Scopes -> BOOLEAN]
               PROVE  step[<<sub, scope, here, g>>] \in BOOLEAN
    BY DEF TypedStep
  <2>1. step[<<sub, scope, here, g>>] = SubselectFailsIn(g, sub, scope, here)
    BY <1>2
  <2>2. SubselectFailsIn(g, sub, scope, here) \in BOOLEAN
    BY <1>1
  <2> QED
    BY <2>1, <2>2
<1>4. PICK f : Solves(f, Subselects, Scopes, Scopes, BOOLEAN, step)
  BY <1>3, Solved
<1>5. ASSUME NEW sub \in Subselects, NEW scope \in Scopes, NEW here \in Scopes
      PROVE  f[<<sub, scope, here>>] = SubselectFailsIn(f, sub, scope, here)
  <2> DEFINE g == Part(f, sub, Scopes, Scopes)
  <2>1. \A p \in Below(sub) \X Scopes \X Scopes : g[p] = f[p] /\ p \in Subselects \X Scopes \X Scopes
    BY SubselectsAssumption DEF Part, Closed, Below
  <2>2. g \in [Below(sub) \X Scopes \X Scopes -> BOOLEAN]
    BY <1>4, <2>1 DEF Solves, Part
  <2>3. f[<<sub, scope, here>>] = SubselectFailsIn(g, sub, scope, here)
    <3>1. f[<<sub, scope, here>>] = step[<<sub, scope, here, g>>]
      BY <1>4 DEF Solves
    <3> HIDE DEF g
    <3> QED
      BY <1>2, <2>2, <3>1
  <2>4. \A b \in Below(sub) : \A S \in Scopes, T \in Scopes : g[<<b, S, T>>] = f[<<b, S, T>>]
    BY <2>1
  <2> HIDE DEF g
  <2>5. SubselectFailsIn(g, sub, scope, here) <=> SubselectFailsIn(f, sub, scope, here)
    BY <2>4, FailsAsIn
  <2>6. SubselectFailsIn(g, sub, scope, here) = SubselectFailsIn(f, sub, scope, here)
    BY <1>1, <2>5
  <2> QED
    BY <2>3, <2>6
<1>6. f = [p \in D |-> SubselectFailsIn(f, p[1], p[2], p[3])]
  <2>1. ASSUME NEW p \in D PROVE f[p] = SubselectFailsIn(f, p[1], p[2], p[3])
    <3>1. p = <<p[1], p[2], p[3]>> /\ p[1] \in Subselects /\ p[2] \in Scopes /\ p[3] \in Scopes
      OBVIOUS
    <3> QED
      BY <1>5, <3>1
  <2>2. f = [p \in D |-> f[p]]
    BY <1>4 DEF Solves
  <2> HIDE DEF D
  <2> QED
    BY <2>1, <2>2
<1>7. SubselectFails = CHOOSE g : g = [p \in D |-> SubselectFailsIn(g, p[1], p[2], p[3])]
  BY DEF SubselectFails, Scopes
<1>8. SubselectFails = [p \in D |-> SubselectFailsIn(SubselectFails, p[1], p[2], p[3])]
  <2> HIDE DEF D
  <2> QED
    BY <1>6, <1>7
<1> QED
  BY <1>8

----------------------------------------------------------------------------
(* The names used in a subselect and in those in it                           *)

NamesWithin(sub) == NamesOf(sub) \cup NamedInSubselects(sub.set.atoms)

\* What no subselect violates unless one in it does, none violates.
LEMMA Founded ==
  ASSUME NEW Bad \in SUBSET Subselects, \A sub \in Subselects : Below(sub) \cap Bad = {} => sub \notin Bad
  PROVE  Bad = {}
<1> SUFFICES ASSUME Bad # {} PROVE FALSE
  OBVIOUS
<1>1. Bad \in (SUBSET Subselects) \ {{}}
  OBVIOUS
<1>2. PICK sub \in Bad : SubsOf(sub.set.atoms) \cap Bad = {}
  BY <1>1, SubselectsAssumption
<1> QED
  BY <1>2 DEF Below

\* The subselects of a set's atoms are those it names and theirs.
LEMMA SubselectsWithin ==
  ASSUME NEW atoms, SubsOf(atoms) \subseteq Subselects
  PROVE  \A x : x \in SubselectsIn(atoms) <=>
                  x \in SubsOf(atoms) \/ \E b \in SubsOf(atoms) : x \in SubselectsIn(b.set.atoms)
<1> DEFINE all == {x \in Subselects : x \in SubsOf(atoms) \/ \E b \in SubsOf(atoms) : x \in SubselectsIn(b.set.atoms)}
<1>1. ASSUME NEW b \in Subselects
      PROVE  \A x \in SubselectsIn(b.set.atoms) : x \in Subselects /\ SubsOf(x.set.atoms) \subseteq SubselectsIn(b.set.atoms)
  BY SubselectsAssumption DEF SubselectsIn, Closed
<1>2. ASSUME NEW b \in Subselects PROVE SubsOf(b.set.atoms) \subseteq SubselectsIn(b.set.atoms)
  BY SubselectsAssumption DEF SubselectsIn, Closed
<1>3. Closed(all) /\ SubsOf(atoms) \subseteq all /\ all \subseteq Subselects
  <2>1. ASSUME NEW x \in all PROVE SubsOf(x.set.atoms) \subseteq all
    <3>1. CASE x \in SubsOf(atoms)
      <4>1. \A y \in SubsOf(x.set.atoms) : y \in Subselects /\ y \in SubselectsIn(x.set.atoms)
        BY <1>2, SubselectsAssumption DEF Closed
      <4> QED
        BY <3>1, <4>1
    <3>2. CASE x \notin SubsOf(atoms)
      <4>1. PICK b \in SubsOf(atoms) : x \in SubselectsIn(b.set.atoms)
        BY <3>2
      <4>2. \A y \in SubsOf(x.set.atoms) : y \in Subselects /\ y \in SubselectsIn(b.set.atoms)
        BY <1>1, <4>1, SubselectsAssumption DEF Closed
      <4> QED
        BY <4>2
    <3> QED
      BY <3>1, <3>2
  <2> QED
    BY <2>1 DEF Closed
<1>4. \A x \in SubselectsIn(atoms) : x \in all
  <2> HIDE DEF all
  <2> QED
    BY <1>3 DEF SubselectsIn
<1>5. ASSUME NEW b \in SubsOf(atoms) PROVE b \in SubselectsIn(atoms) /\ SubselectsIn(b.set.atoms) \subseteq SubselectsIn(atoms)
  BY DEF SubselectsIn, Closed
<1> QED
  BY <1>4, <1>5

LEMMA NamesAreWithin ==
  ASSUME NEW atoms, SubsOf(atoms) \subseteq Subselects
  PROVE  \A t : t \in NamedInSubselects(atoms) <=> \E b \in SubsOf(atoms) : t \in NamesWithin(b)
<1>1. \A t : t \in NamedInSubselects(atoms) <=> \E x \in SubselectsIn(atoms) : t \in NamesOf(x)
  BY DEF NamedInSubselects
<1>2. \A b, t : t \in NamesWithin(b) <=> t \in NamesOf(b) \/ \E x \in SubselectsIn(b.set.atoms) : t \in NamesOf(x)
  BY DEF NamesWithin, NamedInSubselects
<1> QED
  BY <1>1, <1>2, SubselectsWithin

\* Those used in a subselect are its own and those used in the ones in it.
LEMMA NamesBelow ==
  ASSUME NEW sub \in Subselects
  PROVE  /\ Below(sub) \subseteq Subselects
         /\ \A t : t \in NamesWithin(sub) <=> t \in NamesOf(sub) \/ \E b \in Below(sub) : t \in NamesWithin(b)
         /\ NamesOf(sub) \subseteq TableNames1
<1>1. SubsOf(sub.set.atoms) \subseteq Subselects
  BY SubselectsAssumption DEF Closed
<1>2. NamesOf(sub) \subseteq TableNames1
  BY NamesAssumption DEF TableNames1
<1>3. \A t : t \in NamesWithin(sub) <=> t \in NamesOf(sub) \/ t \in NamedInSubselects(sub.set.atoms)
  BY DEF NamesWithin
<1> QED
  BY <1>1, <1>2, <1>3, NamesAreWithin DEF Below

LEMMA FailsWhen ==
  ASSUME NEW sub \in Subselects, NEW scope \in Scopes, NEW here \in Scopes
  PROVE  SubselectFails[<<sub, scope, here>>] <=>
           \/ Own(sub, scope) = {}
           \/ ~ (NamesOf(sub) \subseteq here \cup Own(sub, scope))
           \/ \E b \in Below(sub) : SubselectFails[<<b, scope \cup NamesOf(sub), here \cup Own(sub, scope)>>]
BY FailsUnfolds, FailsIf

LEMMA InnerScopes ==
  ASSUME NEW sub \in Subselects, NEW scope \in Scopes, NEW here \in Scopes
  PROVE  scope \cup NamesOf(sub) \in Scopes /\ here \cup Own(sub, scope) \in Scopes
BY NamesBelow DEF Scopes, Own

\* A subselect that does not fail has around it all it uses of its scope.
LEMMA KnownWithin ==
  \A sub \in Subselects : \A scope \in Scopes, here \in Scopes :
     ~ SubselectFails[<<sub, scope, here>>] => NamesWithin(sub) \cap scope \subseteq here
<1> DEFINE Known(sub, scope, here) == ~ SubselectFails[<<sub, scope, here>>] => NamesWithin(sub) \cap scope \subseteq here
           Bad == {sub \in Subselects : ~ \A scope \in Scopes, here \in Scopes : Known(sub, scope, here)}
<1>1. ASSUME NEW sub \in Subselects, Below(sub) \cap Bad = {}, NEW scope \in Scopes, NEW here \in Scopes,
             ~ SubselectFails[<<sub, scope, here>>]
      PROVE  NamesWithin(sub) \cap scope \subseteq here
  <2> DEFINE inner == scope \cup NamesOf(sub)
             all == here \cup Own(sub, scope)
  <2>1. NamesOf(sub) \subseteq all /\ \A b \in Below(sub) : ~ SubselectFails[<<b, inner, all>>]
    BY <1>1, FailsWhen
  <2>2. inner \in Scopes /\ all \in Scopes
    BY InnerScopes
  <2>3. \A b \in Below(sub) : NamesWithin(b) \cap inner \subseteq all
    <3> HIDE DEF inner, all
    <3> QED
      BY <1>1, <2>1, <2>2, NamesBelow
  <2> QED
    BY <2>1, <2>3, NamesBelow DEF Own
<1>2. Bad \in SUBSET Subselects /\ \A sub \in Subselects : Below(sub) \cap Bad = {} => sub \notin Bad
  BY <1>1
<1>3. Bad = {}
  <2> HIDE DEF Bad
  <2> QED
    BY <1>2, Founded
<1> QED
  BY <1>3

\* Whether a subselect fails depends on the names it uses only.
LEMMA FailsAgree ==
  \A sub \in Subselects : \A scope \in Scopes, also \in Scopes, here \in Scopes, there \in Scopes :
     scope \cap NamesWithin(sub) = also \cap NamesWithin(sub) /\ here \cap NamesWithin(sub) = there \cap NamesWithin(sub)
     => (SubselectFails[<<sub, scope, here>>] <=> SubselectFails[<<sub, also, there>>])
<1> DEFINE Alike(sub, S, T) == S \cap NamesWithin(sub) = T \cap NamesWithin(sub)
           Same(sub, scope, also, here, there) ==
              Alike(sub, scope, also) /\ Alike(sub, here, there)
              => (SubselectFails[<<sub, scope, here>>] <=> SubselectFails[<<sub, also, there>>])
           Bad == {sub \in Subselects : ~ \A scope \in Scopes, also \in Scopes, here \in Scopes, there \in Scopes :
                                             Same(sub, scope, also, here, there)}
<1>1. ASSUME NEW sub \in Subselects, Below(sub) \cap Bad = {}, NEW scope \in Scopes, NEW also \in Scopes,
             NEW here \in Scopes, NEW there \in Scopes, Alike(sub, scope, also), Alike(sub, here, there)
      PROVE  SubselectFails[<<sub, scope, here>>] <=> SubselectFails[<<sub, also, there>>]
  <2> DEFINE inner == scope \cup NamesOf(sub)
             inner2 == also \cup NamesOf(sub)
             own == Own(sub, scope)
             all == here \cup own
             all2 == there \cup own
  <2>1. own = Own(sub, also)
    BY <1>1, NamesBelow DEF Own
  <2>2. NamesOf(sub) \subseteq all <=> NamesOf(sub) \subseteq all2
    BY <1>1, NamesBelow
  <2>3. inner \in Scopes /\ inner2 \in Scopes /\ all \in Scopes /\ all2 \in Scopes
    BY InnerScopes, <2>1
  <2>4. \A b \in Below(sub) : Alike(b, inner, inner2) /\ Alike(b, all, all2)
    BY <1>1, NamesBelow
  <2>5. SubselectFails[<<sub, scope, here>>] <=> own = {} \/ ~ (NamesOf(sub) \subseteq all) \/ \E b \in Below(sub) : SubselectFails[<<b, inner, all>>]
    BY FailsWhen
  <2>6. SubselectFails[<<sub, also, there>>] <=> own = {} \/ ~ (NamesOf(sub) \subseteq all2) \/ \E b \in Below(sub) : SubselectFails[<<b, inner2, all2>>]
    BY FailsWhen, <2>1
  <2> HIDE DEF inner, inner2, own, all, all2
  <2>7. \A b \in Below(sub) : Same(b, inner, inner2, all, all2)
    BY <1>1, <2>3, NamesBelow
  <2>8. \A b \in Below(sub) : SubselectFails[<<b, inner, all>>] <=> SubselectFails[<<b, inner2, all2>>]
    BY <2>4, <2>7
  <2> QED
    BY <2>2, <2>5, <2>6, <2>8
<1>2. Bad \in SUBSET Subselects /\ \A sub \in Subselects : Below(sub) \cap Bad = {} => sub \notin Bad
  BY <1>1
<1>3. Bad = {}
  <2> HIDE DEF Bad
  <2> QED
    BY <1>2, Founded
<1> QED
  BY <1>3

\* What a subselect returns depends on the rows of the names it uses of its scope only.
Around(sub, scope, also, env, env2) ==
    /\ scope \cap NamesWithin(sub) = also \cap NamesWithin(sub)
    /\ \A t \in scope \cap NamesWithin(sub) : t \in DOMAIN env /\ t \in DOMAIN env2 /\ env[t] = env2[t]

LEMMA RowsAround ==
  ASSUME NEW sub \in Subselects, NEW scope \in Scopes, NEW also \in Scopes, NEW env \in Envs, NEW env2 \in Envs,
         NamesOf(sub) \subseteq DOMAIN env \cup Own(sub, scope), Around(sub, scope, also, env, env2),
         NEW e, RowAround(e, env, Own(sub, scope))
  PROVE  \E e2 \in Envs : /\ RowAround(e2, env2, Own(sub, also)) /\ \A t \in NamesOf(sub) : e[t] = e2[t]
                          /\ \A b \in Below(sub) : Around(b, scope \cup NamesOf(sub), also \cup NamesOf(sub), e, e2)
<1> DEFINE own == Own(sub, scope)
<1>1. own = Own(sub, also)
  BY NamesBelow DEF Own, Around
<1>2. PICK f \in [own -> SomeRows1] :
        (\A t \in own : f[t] \in Contents[dalname[t]]) /\ e = [x \in DOMAIN env \cup own |-> IF x \in own THEN f[x] ELSE env[x]]
  BY DEF RowAround
<1> DEFINE e2 == [x \in DOMAIN env2 \cup own |-> IF x \in own THEN f[x] ELSE env2[x]]
<1>3. RowAround(e2, env2, own)
  BY <1>2 DEF RowAround
<1>4. e2 \in Envs
  BY <1>3, AroundIsEnv, NamesBelow DEF Own
<1>5. ASSUME NEW t \in NamesWithin(sub), t \in scope \cup own PROVE t \in DOMAIN e /\ t \in DOMAIN e2 /\ e[t] = e2[t]
  BY <1>2, <1>5 DEF Around
<1>6. \A t \in NamesOf(sub) : e[t] = e2[t]
  BY <1>5, NamesBelow DEF Own
<1> HIDE DEF e2
<1>7. ASSUME NEW b \in Below(sub) PROVE Around(b, scope \cup NamesOf(sub), also \cup NamesOf(sub), e, e2)
  BY <1>5, NamesBelow DEF Around, Own
<1> QED
  BY <1>1, <1>3, <1>4, <1>6, <1>7

LEMMA SelectedAgree ==
  \A sub \in Subselects : \A scope \in Scopes, also \in Scopes : \A env \in Envs, env2 \in Envs :
     Around(sub, scope, also, env, env2) => SelectedIn[<<sub, env, scope>>] = SelectedIn[<<sub, env2, also>>]
<1> DEFINE Same(sub, scope, also, env, env2) ==
              Around(sub, scope, also, env, env2) => SelectedIn[<<sub, env, scope>>] = SelectedIn[<<sub, env2, also>>]
           Bad == {sub \in Subselects : ~ \A scope \in Scopes, also \in Scopes : \A env \in Envs, env2 \in Envs :
                                             Same(sub, scope, also, env, env2)}
<1>1. ASSUME NEW sub \in Subselects, Below(sub) \cap Bad = {}, NEW scope \in Scopes, NEW also \in Scopes,
             NEW env \in Envs, NEW env2 \in Envs, Around(sub, scope, also, env, env2)
      PROVE  SelectedIn[<<sub, env, scope>>] \subseteq SelectedIn[<<sub, env2, also>>]
  <2> DEFINE inner == scope \cup NamesOf(sub)
             inner2 == also \cup NamesOf(sub)
  <2>1. inner \in Scopes /\ inner2 \in Scopes
    BY InnerScopes
  <2>2. ASSUME NEW r \in SelectedIn[<<sub, env, scope>>] PROVE r \in SelectedIn[<<sub, env2, also>>]
    <3>1. r \in ReturnedIn(SelectedIn, sub, env, scope)
      BY <2>2, SelectedUnfolds
    <3>2. PICK e \in StartRows(CompiledOf(sub, scope), env) : AllHold(SelectedIn, Filter(sub.set), e, inner) /\ r = e[sub.of].ref
      BY <3>1, ReturnedRows
    <3>3. RowAround(e, env, Own(sub, scope))
      BY StartAround
    <3>4. e \in Envs
      BY <3>3, AroundIsEnv, NamesBelow DEF Own
    <3>5. PICK e2 \in Envs : /\ RowAround(e2, env2, Own(sub, also)) /\ \A t \in NamesOf(sub) : e[t] = e2[t]
                             /\ \A b \in Below(sub) : Around(b, inner, inner2, e, e2)
      <4>1. NamesOf(sub) \subseteq DOMAIN env \cup Own(sub, scope)
        BY <1>1, NamesBelow DEF Around, Own
      <4> QED
        BY <1>1, <3>3, <4>1, RowsAround
    <3> HIDE DEF inner, inner2
    <3>6. \A b \in Below(sub) : Same(b, inner, inner2, e, e2)
      BY <1>1, <2>1, <3>4, NamesBelow
    <3>7. \A b \in Below(sub) : SelectedIn[<<b, e, inner>>] = SelectedIn[<<b, e2, inner2>>]
      BY <3>5, <3>6
    <3>8. AllHold(SelectedIn, Filter(sub.set), e2, inner2)
      <4>1. \A t \in tables(Filter(sub.set)) : e[t] = e2[t]
        BY <3>5, FilterSubs DEF NamesOf
      <4>2. \A b \in SubsOf(Filter(sub.set)) : SelectedIn[<<b, e, inner>>] = SelectedIn[<<b, e2, inner2>>]
        BY <3>7, FilterSubs DEF Below
      <4> QED
        BY <3>2, <4>1, <4>2, HoldsAlike
    <3>9. e2 \in StartRows(CompiledOf(sub, also), env2)
      BY <3>5, StartAround
    <3>10. r = e2[sub.of].ref
      BY <3>2, <3>5 DEF NamesOf
    <3>11. r \in ReturnedIn(SelectedIn, sub, env2, also)
      BY <3>8, <3>9, <3>10, ReturnedRows DEF inner2
    <3> QED
      BY <3>11, SelectedUnfolds
  <2> QED
    BY <2>2
<1>2. ASSUME NEW sub \in Subselects, Below(sub) \cap Bad = {}, NEW scope \in Scopes, NEW also \in Scopes,
             NEW env \in Envs, NEW env2 \in Envs, Around(sub, scope, also, env, env2)
      PROVE  SelectedIn[<<sub, env, scope>>] = SelectedIn[<<sub, env2, also>>]
  <2>1. Around(sub, also, scope, env2, env)
    BY <1>2 DEF Around
  <2> HIDE DEF Bad
  <2>2. SelectedIn[<<sub, env, scope>>] \subseteq SelectedIn[<<sub, env2, also>>]
    BY <1>1, <1>2
  <2>3. SelectedIn[<<sub, env2, also>>] \subseteq SelectedIn[<<sub, env, scope>>]
    BY <1>1, <1>2, <2>1
  <2> QED
    BY <2>2, <2>3
<1>3. Bad \in SUBSET Subselects /\ \A sub \in Subselects : Below(sub) \cap Bad = {} => sub \notin Bad
  BY <1>2
<1>4. Bad = {}
  <2> HIDE DEF Bad
  <2> QED
    BY <1>3, Founded
<1> QED
  BY <1>4

----------------------------------------------------------------------------
(* The rows of a set *)

\* FROM without tables joined by themselves has a row of each of its tables.
RowOfEach(e, names) ==
    \E f \in [names -> SomeRows1] :
       (\A t \in names : f[t] \in Contents[dalname[t]]) /\ e = [x \in names |-> f[x]]

LEMMA StartOfPlain ==
  ASSUME NEW s, s.plain = {}, NEW e
  PROVE  e \in StartRows(s, Top) <=> RowOfEach(e, s.crossed)
<1> DEFINE own == s.crossed \cup {j.t : j \in s.plain}
           Row(f) == [x \in DOMAIN Top \cup own |-> IF x \in own THEN f[x] ELSE Top[x]]
           Starts == {g \in [own -> SomeRows1] : \A t \in own : g[t] \in StartOf(s, t)}
<1>1. StartRows(s, Top) = {Row(f) : f \in Starts}
  BY DEF StartRows
<1>2. own = s.crossed
  <2>1. {j.t : j \in s.plain} = {}
    OBVIOUS
  <2> QED
    BY <2>1
<1>3. DOMAIN Top \cup own = own
  BY DEF Top
<1>4. \A t : StartOf(s, t) = Contents[dalname[t]]
  BY DEF StartOf
<1>5. \A f : Row(f) = [x \in own |-> f[x]]
  BY <1>3
<1>6. \A f : f \in Starts <=> f \in [own -> SomeRows1] /\ \A t \in own : f[t] \in Contents[dalname[t]]
  BY <1>4
<1> HIDE DEF own, Row, Starts
<1>7. e \in StartRows(s, Top) <=> \E f \in Starts : e = Row(f)
  BY <1>1
<1>8. e \in StartRows(s, Top) <=> RowOfEach(e, own)
  BY <1>5, <1>6, <1>7 DEF RowOfEach
<1> QED
  BY <1>2, <1>8

\* The statement of a set alone.
LEMMA AloneOf ==
  ASSUME NEW q
  PROVE  LET s == SelectOf(q, {}, <<>>, <<>>)
         IN  /\ s.crossed = tables(q.atoms) /\ s.plain = {} /\ s.joins = <<>> /\ s.where = Filter(q)
             /\ s = Statement(tables(q.atoms), tables(q.atoms), {}, <<>>, Filter(q), tables(q.atoms))
<1> DEFINE names == tables(q.atoms)
           s == SelectOf(q, {}, <<>>, <<>>)
<1>1. <<>> \o <<>> = <<>> /\ Len(<<>>) = 0
  OBVIOUS
<1>2. Scope(q, <<>>) = names /\ expand_all({}, names) = names /\ merge_tablemaps(names, names) = names
  BY DEF Scope, expand_all, merge_tablemaps
<1>3. s = OfItsTables(q, names, names)
  BY <1>1, <1>2 DEF SelectOf, OlderPath, set_to_select, AstNamed, AstSelect
<1>4. s = Statement(names, names, {}, <<>>, Filter(q), names)
  BY <1>3 DEF OfItsTables, _default_orderby
<1> HIDE DEF names, s
<1>5. s.crossed = names /\ s.plain = {} /\ s.joins = <<>> /\ s.where = Filter(q)
  BY <1>4, StatementFields
<1> QED
  BY <1>4, <1>5 DEF names, s

LEMMA JoinedEnv ==
  ASSUME NEW among, NEW j, j.t \in TableNames1, NEW envs, envs \subseteq Envs, NEW scope,
         NEW e \in JoinedBy(among, j, envs, scope)
  PROVE  e \in Envs
<1>1. PICK env \in envs : e \in WithJoined(j, env, Meeting(among, j, env, scope))
  BY DEF JoinedBy
<1>2. PICK S \in SUBSET TableNames1 : env \in [S -> SomeRows1]
  BY <1>1 DEF Envs
<1>3. ASSUME NEW r \in SomeRows1 PROVE With(env, j.t, r) \in Envs
  <2>1. With(env, j.t, r) \in [S \cup {j.t} -> SomeRows1]
    BY <1>2, <1>3 DEF With
  <2> QED
    BY <2>1 DEF Envs
<1>4. Contents[dalname[j.t]] \subseteq SomeRows1 /\ Null \in SomeRows1
  BY NamesAssumption DEF TableNames1, SomeRows1, Range
<1>5. e = With(env, j.t, Null) \/ \E r \in Meeting(among, j, env, scope) : e = With(env, j.t, r)
  BY <1>1 DEF WithJoined
<1> HIDE DEF Null
<1> QED
  BY <1>3, <1>4, <1>5 DEF Meeting

LEMMA RowIsEnv ==
  ASSUME NEW names \in Scopes, NEW e, RowOfEach(e, names)
  PROVE  e \in Envs /\ DOMAIN e = names
<1>1. PICK f \in [names -> SomeRows1] : e = [x \in names |-> f[x]]
  BY DEF RowOfEach
<1>2. e \in [names -> SomeRows1]
  BY <1>1
<1> QED
  BY <1>2 DEF Envs, Scopes

\* The rows of a statement are rows of tables.
LEMMA RowsAreEnvs ==
  ASSUME NEW among, NEW s, Placed(s), NEW scope, s.plain = {}, s.crossed \subseteq TableNames1,
         \A i \in DOMAIN s.joins : s.joins[i].t \in TableNames1
  PROVE  Joining(among, s, Top, scope)[LastPlace(s)] \subseteq Envs
<1> DEFINE rows == Joining(among, s, Top, scope)
           N == LastPlace(s)
           Bad == {n \in 0 .. N : ~ (rows[n] \subseteq Envs)}
<1>1. N \in Nat
  BY LastOfPlaces
<1>2. /\ rows[0] = StartRows(s, Top)
      /\ \A n \in 1 .. N : rows[n] = IF n \in DOMAIN s.joins THEN JoinedBy(among, s.joins[n], rows[n - 1], scope)
                                     ELSE rows[n - 1]
  BY JoiningStep
<1>3. ASSUME NEW e \in StartRows(s, Top) PROVE e \in Envs
  BY StartOfPlain, RowIsEnv DEF Scopes
<1> HIDE DEF rows, N
<1>4. ASSUME NEW n \in 1 .. N, rows[n - 1] \subseteq Envs PROVE rows[n] \subseteq Envs
  BY <1>2, <1>4, JoinedEnv
<1>5. Bad = {}
  <2>1. SUFFICES ASSUME Bad # {} PROVE FALSE
    OBVIOUS
  <2>2. Bad \in SUBSET Nat
    BY <1>1
  <2>3. PICK m \in Bad : \A n \in Bad : m <= n
    <3> HIDE DEF Bad
    <3> QED
      BY <2>1, <2>2, Least
  <2>4. m \in 0 .. N /\ ~ (rows[m] \subseteq Envs)
    OBVIOUS
  <2>5. m \in 1 .. N
    BY <1>1, <1>2, <1>3, <2>4
  <2>6. m - 1 \in 0 .. N /\ m - 1 \notin Bad
    <3> HIDE DEF Bad
    <3> QED
      BY <1>1, <2>2, <2>3, <2>5
  <2> QED
    BY <1>4, <2>4, <2>5, <2>6
<1> QED
  BY <1>1, <1>5 DEF rows, N

\* Of the names a set uses, those of its subselects.
LEMMA NamesOfSets ==
  ASSUME NEW q \in Sets
  PROVE  /\ tables(q.atoms) \in Scopes /\ SubsOf(q.atoms) \subseteq Subselects
         /\ SubsOf(Filter(q)) = SubsOf(q.atoms) /\ tables(Filter(q)) = tables(q.atoms)
         /\ \A b \in SubsOf(q.atoms) : NamesWithin(b) \subseteq NamedInSubselects(q.atoms)
<1>1. tables(q.atoms) \in Scopes
  BY NamesAssumption DEF Scopes, TableNames1
<1>2. SubsOf(q.atoms) \subseteq Subselects
  BY SubselectsAssumption
<1> QED
  BY <1>1, <1>2, FilterSubs, NamesAreWithin

\* A set alone runs if it has a table and its subselects run.
LEMMA AloneRuns ==
  ASSUME NEW q \in Sets, tables(q.atoms) # {},
         \A b \in SubsOf(q.atoms) : ~ SubselectFails[<<b, tables(q.atoms), tables(q.atoms)>>]
  PROVE  ~ Fails(SelectOf(q, {}, <<>>, <<>>))
<1> DEFINE names == tables(q.atoms)
           s == SelectOf(q, {}, <<>>, <<>>)
           c == Compiled(s, {})
           known(i) == {} \cup c.crossed \cup {j.t : j \in c.plain} \cup JoinedNames(c, i)
           all == {} \cup AllNames(c)
           inner == {} \cup AllNames(s)
<1>1. /\ s.crossed = names /\ s.plain = {} /\ s.joins = <<>> /\ s.where = Filter(q)
      /\ s = Statement(names, names, {}, <<>>, Filter(q), names)
  BY AloneOf
<1>2. c.crossed = names /\ c.plain = {} /\ DOMAIN c.joins = {}
  <2> HIDE DEF s, names
  <2> QED
    BY <1>1, CompiledAlone
<1>3. DOMAIN s.joins = {}
  BY <1>1
<1>4. Fails(s) <=>
        (\/ c.crossed = {}
         \/ \E i \in DOMAIN c.joins : ~(tables(c.joins[i].on) \subseteq known(i))
         \/ ~(tables(s.where) \subseteq all)
         \/ \E i \in DOMAIN s.joins : SubFails(SubselectFails, s.joins[i].on, inner, known(i))
         \/ SubFails(SubselectFails, s.where, inner, all))
  BY DEF Fails, FailsIn
<1> HIDE DEF s, c, names
<1>5. all = names /\ inner = names
  BY <1>1, <1>2, <1>3 DEF AllNames
<1> HIDE DEF known, all, inner
<1>6. tables(s.where) \subseteq all
  BY <1>1, <1>5, NamesOfSets DEF names
<1>7. ~ SubFails(SubselectFails, s.where, inner, all)
  <2>1. \A b \in SubsOf(Filter(q)) : ~ SubselectFails[<<b, names, names>>]
    BY NamesOfSets DEF names
  <2> QED
    BY <1>1, <1>5, <2>1, SubFailsOf
<1> QED
  BY <1>2, <1>3, <1>4, <1>6, <1>7 DEF s, names

\* Its rows, in the scope of other names, of which its subselects use the same.
LEMMA AloneRows ==
  ASSUME NEW q \in Sets, NEW scope \in Scopes, NEW e \in Envs, tables(q.atoms) \subseteq DOMAIN e,
         \A b \in SubsOf(q.atoms) : scope \cap NamesWithin(b) = tables(q.atoms) \cap NamesWithin(b),
         NEW f \in Envs, tables(q.atoms) \subseteq DOMAIN f, \A t \in tables(q.atoms) : e[t] = f[t]
  PROVE  AllHold(SelectedIn, Filter(q), e, scope) <=> AllHold(SelectedIn, Filter(q), f, tables(q.atoms))
<1> DEFINE names == tables(q.atoms)
<1>1. ASSUME NEW b \in SubsOf(q.atoms) PROVE SelectedIn[<<b, e, scope>>] = SelectedIn[<<b, f, names>>]
  <2>1. Around(b, scope, names, e, f)
    BY DEF Around
  <2>2. b \in Subselects /\ names \in Scopes
    BY NamesOfSets
  <2> QED
    BY <2>1, <2>2, SelectedAgree
<1> QED
  BY <1>1, NamesOfSets, HoldsAlike

\* So a count, and an update, is of the rows a select returns, unless a subselect calls a table
\* of the set by an alias.
LEMMA CountedAsSelected ==
  ASSUME NEW q \in Sets, ~ Direct(q, Filter(q)).error, ~ select(q, {}, <<>>, <<>>).error,
         NamedInSubselects(q.atoms) \cap tables(q.atoms) \subseteq OwnNames(q)
  PROVE  Direct(q, Filter(q)).value = select(q, {}, <<>>, <<>>).value.rows
<1> DEFINE names == tables(q.atoms)
           s == SelectOf(q, {}, <<>>, <<>>)
           d == Statement(names, names, {}, <<>>, Filter(q), {})
<1>1. select(q, {}, <<>>, <<>>).value.rows = RowsOf(s, Top, AllNames(s))
  BY DEF select, Returned, Err, Ok
<1>2. Direct(q, Filter(q)).value = RowsOf(d, Top, OwnNames(q)) /\ ~ SubFails(SubselectFails, Filter(q), OwnNames(q), names)
  BY DEF Direct, Err, Ok
<1>3. s.crossed = names /\ s.plain = {} /\ s.joins = <<>> /\ s.where = Filter(q)
  BY AloneOf
<1>4. d.crossed = names /\ d.plain = {} /\ d.joins = <<>> /\ d.where = Filter(q)
  BY StatementFields
<1>5. names \in Scopes /\ SubsOf(q.atoms) \subseteq Subselects /\ SubsOf(Filter(q)) = SubsOf(q.atoms)
  BY NamesOfSets
<1>6. OwnNames(q) \in Scopes
  BY <1>5, NamesAssumption DEF OwnNames, Scopes, TableNames1
<1> HIDE DEF s, d
<1>7. ASSUME NEW b \in SubsOf(q.atoms) PROVE OwnNames(q) \cap NamesWithin(b) = names \cap NamesWithin(b)
  <2>1. ~ SubselectFails[<<b, OwnNames(q), names>>]
    BY <1>2, <1>5, SubFailsOf
  <2>2. NamesWithin(b) \cap OwnNames(q) \subseteq names
    BY <1>5, <1>6, <2>1, KnownWithin
  <2>3. NamesWithin(b) \subseteq NamedInSubselects(q.atoms)
    BY NamesOfSets
  <2> QED
    BY <2>2, <2>3
<1>8. AllNames(s) = names
  <2>1. DOMAIN s.joins = {} /\ {j.t : j \in s.plain} = {}
    BY <1>3
  <2> QED
    BY <1>3, <2>1 DEF AllNames
<1>9. ASSUME NEW e, RowOfEach(e, names)
      PROVE  AllHold(SelectedIn, Filter(q), e, OwnNames(q)) <=> AllHold(SelectedIn, Filter(q), e, names)
  <2>1. e \in Envs /\ DOMAIN e = names
    BY <1>5, <1>9, RowIsEnv
  <2> QED
    BY <1>6, <1>7, <2>1, AloneRows
<1>10. RowsOf(s, Top, AllNames(s)) = {e \in StartRows(s, Top) : AllHold(SelectedIn, Filter(q), e, names)}
  <2>1. DOMAIN s.joins = {}
    BY <1>3
  <2> QED
    BY <1>3, <1>8, <2>1, RowsUnjoined DEF RowsOf
<1>11. RowsOf(d, Top, OwnNames(q)) = {e \in StartRows(d, Top) : AllHold(SelectedIn, Filter(q), e, OwnNames(q))}
  <2>1. DOMAIN d.joins = {}
    BY <1>4
  <2> QED
    BY <1>4, <2>1, RowsUnjoined DEF RowsOf
<1>12. /\ \A e : e \in StartRows(s, Top) <=> RowOfEach(e, names)
       /\ \A e : e \in StartRows(d, Top) <=> RowOfEach(e, names)
  BY <1>3, <1>4, StartOfPlain
<1>13. RowsOf(d, Top, OwnNames(q)) = RowsOf(s, Top, AllNames(s))
  BY <1>9, <1>10, <1>11, <1>12
<1> QED
  BY <1>1, <1>2, <1>13

\* Left joins on conditions, of tables that the set does not name.
Anchored(q, fields, left) ==
    /\ OnTables(left) \cap tables(q.atoms) = {} /\ fields \subseteq tables(q.atoms)
    /\ \A i \in DOMAIN left : left[i].on # {} /\ tables(left[i].on) \subseteq tables(q.atoms) \cup OnTables(left)

\* FROM has just the tables of the set then.
LeftOf(s, anchors) ==
    /\ s.crossed = anchors /\ s.plain = {} /\ Placed(s)
    /\ \A i \in DOMAIN s.joins : s.joins[i].kind = "left" /\ s.joins[i].t \notin anchors

\* All it joins are tables of the left joins.
LeftNames(s, left) ==
    /\ \A i \in DOMAIN s.joins : s.joins[i].t \in OnTables(left)
    /\ \E fields, order : s = Statement(fields, s.crossed, s.plain, s.joins, s.where, order)

\* The subselects of a statement that runs do so, too.
LEMMA WhereRuns ==
  ASSUME NEW s, ~ Fails(s), \E fields, order : s = Statement(fields, s.crossed, s.plain, s.joins, s.where, order)
  PROVE  ~ SubFails(SubselectFails, s.where, AllNames(s), AllNames(s))
<1> DEFINE c == Compiled(s, {})
<1>1. c.crossed = s.crossed /\ c.plain = s.plain /\ DOMAIN c.joins = DOMAIN s.joins
      /\ \A i \in DOMAIN s.joins : c.joins[i] = s.joins[i]
  <2>1. PICK fields, order : s = Statement(fields, s.crossed, s.plain, s.joins, s.where, order)
    OBVIOUS
  <2> QED
    BY <2>1, CompiledAlone
<1>2. ~ SubFails(SubselectFails, s.where, {} \cup AllNames(s), {} \cup AllNames(c))
  BY DEF Fails, FailsIn
<1> HIDE DEF c
<1>3. AllNames(c) = AllNames(s)
  BY <1>1 DEF AllNames
<1>4. {} \cup AllNames(s) = AllNames(s)
  OBVIOUS
<1> QED
  BY <1>2, <1>3, <1>4

LEMMA EmptyFails ==
  ASSUME NEW fields, NEW plain, NEW joins, NEW where1, NEW order
  PROVE  Fails(Statement(fields, {}, plain, joins, where1, order))
<1>1. Compiled(Statement(fields, {}, plain, joins, where1, order), {}).crossed = {}
  BY CompiledAlone
<1> QED
  BY <1>1 DEF Fails, FailsIn

LEMMA LeftJoins ==
  ASSUME NEW left \in Joins, <<>> \in Joins
  PROVE  LET joins == OnAll(<<>>, left)
         IN  /\ \E N \in Nat : DOMAIN joins \subseteq 1 .. N
             /\ \A i \in DOMAIN joins : joins[i].kind = "left" /\ joins[i].t \in OnTables(left)
<1> DEFINE joins == OnAll(<<>>, left)
<1>1. <<>> \o left = left /\ Len(left) \in Nat /\ DOMAIN left = 1 .. Len(left)
  BY JoinsAreSequences
<1>2. DOMAIN joins = OnPlaces(left) /\ OnPlaces(left) \subseteq DOMAIN left
  BY <1>1 DEF OnAll, OnPlaces
<1>3. ASSUME NEW i \in DOMAIN joins
      PROVE  joins[i].kind = "left" /\ joins[i].t \in OnTables(left)
  <2> DEFINE kind == Kind(<<>>, i)
             j == left[i]
  <2>1. joins[i] = _join_from_on(kind, j)
    BY <1>1, <1>2 DEF OnAll
  <2>2. kind = "left"
    BY <1>1, <1>2 DEF Kind
  <2>3. j.t \in OnTables(left)
    BY <1>2 DEF OnTables
  <2> HIDE DEF kind, j, joins
  <2>4. joins[i].kind = kind /\ joins[i].t = j.t
    BY <2>1 DEF _join_from_on, Joined
  <2> QED
    BY <2>2, <2>3, <2>4
<1>4. \E N \in Nat : DOMAIN joins \subseteq 1 .. N
  BY <1>1, <1>2
<1> HIDE DEF joins
<1> QED
  BY <1>3, <1>4 DEF joins

LEMMA LeftStatement ==
  ASSUME NEW q, NEW fields, NEW left \in Joins, <<>> \in Joins, Anchored(q, fields, left),
         ~ Fails(SelectOf(q, fields, <<>>, left))
  PROVE  LET s == SelectOf(q, fields, <<>>, left)
         IN  LeftOf(s, tables(q.atoms)) /\ LeftNames(s, left) /\ s.where = Filter(q) /\ tables(q.atoms) # {}
<1> DEFINE anchors == tables(q.atoms)
           selected == Selected(q, fields, left)
           names == Named(q, fields, left)
           s == SelectOf(q, fields, <<>>, left)
<1>1. <<>> \o left = left /\ Len(left) \in Nat /\ DOMAIN left = 1 .. Len(left) /\ ~ OlderPath(<<>>, left)
  BY JoinsAreSequences DEF OlderPath
<1>2. OnNames(left) \subseteq anchors \cup OnTables(left)
  BY DEF Anchored, OnNames, OnPlaces
<1>3. anchors \subseteq names /\ names \subseteq anchors \cup OnTables(left)
  <2>1. Scope(q, left) \subseteq anchors \cup OnTables(left)
    <3>1. CASE Len(left) = 1
      <4>1. 1 \in DOMAIN left
        BY <1>1, <3>1
      <4>2. tables(left[1].on) \subseteq anchors \cup OnTables(left)
        BY <4>1 DEF Anchored
      <4> QED
        BY <3>1, <4>2 DEF Scope, merge_tablemaps
    <3>2. CASE Len(left) # 1
      BY <3>2 DEF Scope
    <3> QED
      BY <3>1, <3>2
  <2>2. fields \subseteq anchors
    BY DEF Anchored
  <2> QED
    BY <2>1, <2>2 DEF Named, Selected, expand_all, merge_tablemaps
<1>4. OnPlaces(left) = DOMAIN left
  BY DEF Anchored, OnPlaces
<1>5. OnTables(left) \cap anchors = {}
  BY DEF Anchored
<1>6. CASE left = <<>>
  <2>1. s = OfItsTables(q, selected, names)
    BY <1>1, <1>6 DEF SelectOf, set_to_select, AstNamed, AstSelect, Named, Selected
  <2>2. /\ s.crossed = names /\ s.joins = <<>> /\ s.where = Filter(q) /\ s.plain = {}
        /\ s = Statement(selected, names, {}, <<>>, Filter(q), _default_orderby(names))
    BY <2>1, StatementFields DEF OfItsTables
  <2>3. OnTables(left) = {}
    BY <1>4, <1>6 DEF OnTables
  <2> HIDE DEF s, names, selected, anchors
  <2>4. names = anchors
    BY <1>3, <2>3
  <2>5. anchors # {}
    BY <2>2, <2>4, EmptyFails DEF s
  <2>6. DOMAIN s.joins = {}
    BY <2>2
  <2>7. LeftOf(s, anchors) /\ LeftNames(s, left)
    BY <2>2, <2>4, <2>6 DEF LeftOf, LeftNames, Placed
  <2> QED
    BY <2>2, <2>5, <2>7 DEF s, anchors
<1>7. CASE left # <<>>
  <2> DEFINE b == _build_joins_for_select(names, left)
             pool == b.excluded \cup b.merge
             joins == OnAll(<<>>, left)
  <2>1. s = From(q, <<>>, left, selected, names, pool, b.join_tables)
    BY <1>1, <1>7 DEF SelectOf, set_to_select, AstNamed, AstSelect, AstFrom, Named, Selected
  <2>2. /\ b.on_tables = OnTables(left) /\ b.merge = OnNames(left) \ OnTables(left)
        /\ b.join_tables \cup b.on_tables = Takes(left)
        /\ b.important = Takes(left) \cup b.merge /\ b.excluded = names \ b.important
        /\ b.join_tables = {}
    BY <1>4, BuiltJoins
  <2>3. /\ \E N \in Nat : DOMAIN joins \subseteq 1 .. N
        /\ \A i \in DOMAIN joins : joins[i].kind = "left" /\ joins[i].t \in OnTables(left)
    BY LeftJoins
  <2> HIDE DEF names, selected, b, anchors, joins, s
  <2>4. pool = anchors
    BY <1>2, <1>3, <1>5, <2>2
  <2> HIDE DEF pool
  <2>5. anchors # {}
    <3>1. SUFFICES ASSUME anchors = {} PROVE FALSE
      OBVIOUS
    <3>2. s = NoTables
      BY <2>1, <2>4, <3>1 DEF From
    <3> QED
      BY <3>2, NoTablesFails DEF s
  <2>6. s = Statement(selected, anchors, {}, joins, Filter(q), _default_orderby(names))
    <3>1. {Joined(IF left = <<>> THEN "inner" ELSE "left", t, {}) : t \in b.join_tables} = {}
      BY <2>2
    <3> QED
      BY <2>1, <2>4, <2>5, <3>1 DEF From, joins
  <2>7. s.crossed = anchors /\ s.plain = {} /\ s.joins = joins /\ s.where = Filter(q)
    BY <2>6, StatementFields
  <2>8. LeftOf(s, anchors) /\ LeftNames(s, left)
    BY <1>5, <2>3, <2>6, <2>7 DEF LeftOf, LeftNames, Placed
  <2> QED
    BY <2>5, <2>7, <2>8 DEF s, anchors
<1> QED
  BY <1>6, <1>7

Here(e, anchors) == [t \in anchors |-> e[t]]

LEMMA RowIsHere ==
  ASSUME NEW anchors, NEW e, RowOfEach(e, anchors)
  PROVE  DOMAIN e = anchors /\ Here(e, anchors) = e
<1>1. PICK f \in [anchors -> SomeRows1] : e = [x \in anchors |-> f[x]]
  BY DEF RowOfEach
<1>2. DOMAIN e = anchors /\ \A t \in anchors : e[t] = f[t]
  BY <1>1
<1>3. Here(e, anchors) = [x \in anchors |-> f[x]]
  BY <1>2 DEF Here
<1> QED
  BY <1>1, <1>2, <1>3

\* A left join extends each row, and leaves it as it is in the anchors.
LEMMA LeftExtends ==
  ASSUME NEW among, NEW j, j.kind = "left", NEW envs, NEW scope, NEW env \in envs
  PROVE  \E e \in JoinedBy(among, j, envs, scope) : Adds(j, env, e)
<1> DEFINE matching == Meeting(among, j, env, scope)
           made == WithJoined(j, env, matching)
<1>1. made \subseteq JoinedBy(among, j, envs, scope)
  BY DEF JoinedBy
<1>2. made # {}
  <2>1. CASE matching = {}
    <3>1. made = {With(env, j.t, Null)}
      BY <2>1 DEF WithJoined
    <3> HIDE DEF made
    <3> QED
      BY <3>1
  <2>2. CASE matching # {}
    <3>1. made = {With(env, j.t, r) : r \in matching}
      BY <2>2 DEF WithJoined
    <3> HIDE DEF made, matching
    <3> QED
      BY <2>2, <3>1
  <2> QED
    BY <2>1, <2>2
<1>3. PICK e \in made : TRUE
  BY <1>2
<1>4. Adds(j, env, e)
  BY <1>3, JoinedRow
<1> HIDE DEF made, matching
<1> QED
  BY <1>1, <1>3, <1>4

LEMMA AddsElsewhere ==
  ASSUME NEW anchors, NEW j, j.t \notin anchors, NEW env, anchors \subseteq DOMAIN env, NEW e, Adds(j, env, e)
  PROVE  anchors \subseteq DOMAIN e /\ Here(e, anchors) = Here(env, anchors)
<1>1. \A t \in anchors : e[t] = env[t]
  BY DEF Adds
<1>2. anchors \subseteq DOMAIN e
  BY DEF Adds
<1> QED
  BY <1>1, <1>2 DEF Here

\* So left joins keep the rows of the anchors, and make no other.
KeepsRows(rows, starts, anchors) ==
    /\ \A e \in rows : anchors \subseteq DOMAIN e /\ Here(e, anchors) \in starts
    /\ \A e \in starts : \E f \in rows : Here(f, anchors) = e

LEMMA LeftJoinsKeep ==
  ASSUME NEW among, NEW s, NEW anchors, LeftOf(s, anchors), NEW scope
  PROVE  KeepsRows(Joining(among, s, Top, scope)[LastPlace(s)], StartRows(s, Top), anchors)
<1> DEFINE rows == Joining(among, s, Top, scope)
           starts == StartRows(s, Top)
           N == LastPlace(s)
           Good(n) == /\ \A e \in rows[n] : anchors \subseteq DOMAIN e /\ Here(e, anchors) \in starts
                      /\ \A e \in starts : \E f \in rows[n] : Here(f, anchors) = e
           Bad == {n \in 0 .. N : ~ Good(n)}
<1>1. s.crossed = anchors /\ s.plain = {} /\ Placed(s)
      /\ \A i \in DOMAIN s.joins : s.joins[i].kind = "left" /\ s.joins[i].t \notin anchors
  BY DEF LeftOf
<1>2. N \in Nat
  BY <1>1, LastOfPlaces
<1>3. /\ rows[0] = starts
      /\ \A n \in 1 .. N : rows[n] = IF n \in DOMAIN s.joins THEN JoinedBy(among, s.joins[n], rows[n - 1], scope)
                                     ELSE rows[n - 1]
  BY <1>1, JoiningStep
<1>4. \A e \in starts : DOMAIN e = anchors /\ Here(e, anchors) = e
  BY <1>1, StartOfPlain, RowIsHere
<1> HIDE DEF rows, N, starts
<1>5. Good(0)
  BY <1>3, <1>4
<1>6. ASSUME NEW n \in 1 .. N, Good(n - 1) PROVE Good(n)
  <2>1. CASE n \notin DOMAIN s.joins
    <3>1. rows[n] = rows[n - 1]
      BY <1>3, <2>1
    <3> QED
      BY <1>6, <3>1
  <2>2. CASE n \in DOMAIN s.joins
    <3> DEFINE j == s.joins[n]
    <3>1. rows[n] = JoinedBy(among, j, rows[n - 1], scope) /\ j.kind = "left" /\ j.t \notin anchors
      BY <1>1, <1>3, <2>2
    <3> HIDE DEF j
    <3>2. ASSUME NEW e \in rows[n]
          PROVE  anchors \subseteq DOMAIN e /\ Here(e, anchors) \in starts
      <4>1. PICK env \in rows[n - 1] : Adds(j, env, e)
        BY <3>1, <3>2, JoinedByRow
      <4>2. anchors \subseteq DOMAIN env /\ Here(env, anchors) \in starts
        BY <1>6, <4>1
      <4> QED
        BY <3>1, <4>1, <4>2, AddsElsewhere
    <3>3. ASSUME NEW e \in starts
          PROVE  \E f \in rows[n] : Here(f, anchors) = e
      <4>1. PICK env \in rows[n - 1] : Here(env, anchors) = e
        BY <1>6, <3>3
      <4>2. PICK f \in JoinedBy(among, j, rows[n - 1], scope) : Adds(j, env, f)
        BY <3>1, <4>1, LeftExtends
      <4>3. anchors \subseteq DOMAIN env
        BY <1>6, <4>1
      <4>4. Here(f, anchors) = Here(env, anchors)
        BY <3>1, <4>2, <4>3, AddsElsewhere
      <4> QED
        BY <3>1, <4>1, <4>2, <4>4
    <3> QED
      BY <3>2, <3>3
  <2> QED
    BY <2>1, <2>2
<1>7. Bad = {}
  <2>1. SUFFICES ASSUME Bad # {} PROVE FALSE
    OBVIOUS
  <2>2. Bad \in SUBSET Nat
    BY <1>2
  <2>3. PICK m \in Bad : \A n \in Bad : m <= n
    <3> HIDE DEF Bad
    <3> QED
      BY <2>1, <2>2, Least
  <2>4. m \in 1 .. N /\ ~ Good(m)
    <3>1. m \in 0 .. N /\ ~ Good(m)
      OBVIOUS
    <3> HIDE DEF Good
    <3> QED
      BY <1>2, <1>5, <3>1
  <2>5. m - 1 \in 0 .. N /\ m - 1 \notin Bad
    <3> HIDE DEF Bad
    <3> QED
      BY <1>2, <2>2, <2>3, <2>4
  <2>6. Good(m - 1)
    <3> HIDE DEF Good
    <3> QED
      BY <2>5
  <2> HIDE DEF Good, Bad
  <2> QED
    BY <1>6, <2>4, <2>6
<1>8. Good(N)
  <2> HIDE DEF Good
  <2> QED
    BY <1>2, <1>7
<1> QED
  BY <1>8 DEF KeepsRows, rows, starts, N

\* A set keeps its rows in a select with left joins of tables its subselects do not use.
LEMMA LeftKeeps ==
  ASSUME NEW q \in Sets, NEW fields, NEW left \in Joins, <<>> \in Joins,
         Anchored(q, fields, left), NamedInSubselects(q.atoms) \cap OnTables(left) = {},
         ~ select(q, fields, <<>>, left).error
  PROVE  LET anchors == tables(q.atoms)
         IN  {Here(e, anchors) : e \in select(q, fields, <<>>, left).value.rows}
               = {Here(e, anchors) : e \in select(q, {}, <<>>, <<>>).value.rows}
<1> DEFINE anchors == tables(q.atoms)
           s == SelectOf(q, fields, <<>>, left)
           a == SelectOf(q, {}, <<>>, <<>>)
           last == Joining(SelectedIn, s, Top, AllNames(s))[LastPlace(s)]
           Kept0(e) == AllHold(SelectedIn, Filter(q), e, anchors)
<1>1. ~ Fails(s) /\ select(q, fields, <<>>, left).value.rows = RowsOf(s, Top, AllNames(s))
  BY DEF select, Returned, Err, Ok
<1>2. LeftOf(s, anchors) /\ LeftNames(s, left) /\ s.where = Filter(q) /\ anchors # {}
  BY <1>1, LeftStatement
<1>3. a.crossed = anchors /\ a.plain = {} /\ a.joins = <<>> /\ a.where = Filter(q)
  BY AloneOf
<1>4. anchors \in Scopes /\ SubsOf(q.atoms) \subseteq Subselects /\ SubsOf(Filter(q)) = SubsOf(q.atoms)
  BY NamesOfSets
<1>5. \A e : e \in RowsOf(s, Top, AllNames(s))
               <=> e \in last /\ AllHold(SelectedIn, Filter(q), e, AllNames(s))
  BY <1>2 DEF RowsOf, RowsIn, LastPlace
<1>6. /\ \A e \in last : anchors \subseteq DOMAIN e /\ Here(e, anchors) \in StartRows(s, Top)
      /\ \A e \in StartRows(s, Top) : \E f \in last : Here(f, anchors) = e
  <2>1. LeftOf(s, anchors)
    BY <1>2
  <2>2. KeepsRows(last, StartRows(s, Top), anchors)
    BY <2>1, LeftJoinsKeep
  <2> HIDE DEF s, anchors, last
  <2> QED
    BY <2>2 DEF KeepsRows
<1>7. /\ \A e : e \in StartRows(s, Top) <=> RowOfEach(e, anchors)
      /\ \A e : e \in StartRows(a, Top) <=> RowOfEach(e, anchors)
  BY <1>2, <1>3, StartOfPlain DEF LeftOf
<1>8. \A e \in StartRows(a, Top) : Here(e, anchors) = e
  BY <1>7, RowIsHere
<1> HIDE DEF s, a
<1>9. AllNames(s) \in Scopes /\ \A b \in SubsOf(q.atoms) : AllNames(s) \cap NamesWithin(b) = anchors \cap NamesWithin(b)
  <2>1. AllNames(s) = anchors \cup {s.joins[i].t : i \in DOMAIN s.joins}
    <3>1. {j.t : j \in s.plain} = {}
      BY <1>2 DEF LeftOf
    <3> QED
      BY <1>2, <3>1 DEF AllNames, LeftOf
  <2>2. \A i \in DOMAIN s.joins : s.joins[i].t \in OnTables(left)
    BY <1>2 DEF LeftNames
  <2>3. OnTables(left) \subseteq TableNames1
    BY NamesAssumption DEF OnTables, OnPlaces, TableNames1
  <2>4. \A b \in SubsOf(q.atoms) : NamesWithin(b) \subseteq NamedInSubselects(q.atoms)
    BY NamesOfSets
  <2> QED
    BY <1>4, <2>1, <2>2, <2>3, <2>4 DEF Scopes
<1>10. select(q, {}, <<>>, <<>>).value.rows = RowsOf(a, Top, anchors)
  <2>1. ~ SubFails(SubselectFails, s.where, AllNames(s), AllNames(s))
    BY <1>1, <1>2, WhereRuns DEF LeftNames
  <2>2. \A b \in SubsOf(q.atoms) : ~ SubselectFails[<<b, AllNames(s), AllNames(s)>>]
    BY <1>2, <1>4, <2>1, SubFailsOf
  <2>3. \A b \in SubsOf(q.atoms) : ~ SubselectFails[<<b, anchors, anchors>>]
    BY <1>4, <1>9, <2>2, FailsAgree
  <2>4. ~ Fails(a)
    BY <1>2, <2>3, AloneRuns DEF a
  <2>5. AllNames(a) = anchors
    <3>1. DOMAIN a.joins = {} /\ {j.t : j \in a.plain} = {}
      BY <1>3
    <3> QED
      BY <1>3, <3>1 DEF AllNames
  <2>6. ~ OlderPath(<<>>, <<>>)
    BY DEF OlderPath
  <2>7. select(q, {}, <<>>, <<>>) = Ok([rows |-> RowsOf(a, Top, AllNames(a)), statement |-> a])
    BY <2>4, <2>6 DEF select, Returned, a
  <2> QED
    BY <2>5, <2>7 DEF Ok
<1>11. RowsOf(a, Top, anchors) = {e \in StartRows(a, Top) : Kept0(e)}
  <2>1. DOMAIN a.joins = {}
    BY <1>3
  <2> QED
    BY <1>3, <2>1, RowsUnjoined DEF RowsOf
<1>12. last \subseteq Envs
  <2>1. \A i \in DOMAIN s.joins : s.joins[i].t \in TableNames1
    BY <1>9 DEF Scopes, AllNames
  <2> QED
    BY <1>2, <1>4, <2>1, RowsAreEnvs DEF LeftOf, Scopes
<1>13. \A e \in last : AllHold(SelectedIn, Filter(q), e, AllNames(s)) <=> Kept0(Here(e, anchors))
  <2> SUFFICES ASSUME NEW e \in last
               PROVE  AllHold(SelectedIn, Filter(q), e, AllNames(s)) <=> Kept0(Here(e, anchors))
    OBVIOUS
  <2> DEFINE f == Here(e, anchors)
  <2>1. e \in Envs /\ anchors \subseteq DOMAIN e
    BY <1>6, <1>12
  <2>2. f \in Envs /\ DOMAIN f = anchors
    BY <1>4, <1>6, <1>7, RowIsEnv
  <2>3. \A t \in anchors : e[t] = f[t]
    BY DEF Here
  <2> HIDE DEF f, last
  <2> QED
    BY <1>9, <2>1, <2>2, <2>3, AloneRows DEF f
<1> HIDE DEF anchors, last, Kept0
<1>14. {Here(e, anchors) : e \in RowsOf(s, Top, AllNames(s))} = RowsOf(a, Top, anchors)
  <2>1. ASSUME NEW e \in RowsOf(s, Top, AllNames(s))
        PROVE  Here(e, anchors) \in RowsOf(a, Top, anchors)
    BY <1>5, <1>6, <1>7, <1>11, <1>13, <2>1
  <2>2. ASSUME NEW e \in RowsOf(a, Top, anchors)
        PROVE  \E f \in RowsOf(s, Top, AllNames(s)) : Here(f, anchors) = e
    <3>1. e \in StartRows(s, Top) /\ Kept0(e)
      BY <1>7, <1>11, <2>2
    <3>2. PICK f \in last : Here(f, anchors) = e
      BY <1>6, <3>1
    <3> QED
      BY <1>5, <1>13, <3>1, <3>2
  <2> QED
    BY <2>1, <2>2
<1>15. {Here(e, anchors) : e \in RowsOf(a, Top, anchors)} = RowsOf(a, Top, anchors)
  BY <1>8, <1>11
<1> QED
  BY <1>1, <1>10, <1>14, <1>15 DEF s, anchors

----------------------------------------------------------------------------
(* The calls                                                               *)

\* What was answered is what the call returns.
SelectsAnswered ==
    /\ asked.of = "select" =>
         \E q \in Sets, fields \in FieldLists, join, left \in Joins :
            /\ Apart(join, left) /\ asked.x = [q |-> q, fields |-> fields, join |-> join, left |-> left]
            /\ answer = select(q, fields, join, left)
    /\ asked.of \in {"count", "update"} =>
         \E q \in Sets : /\ asked.x = [q |-> q]
                         /\ answer = (IF asked.of = "count" THEN count(q) ELSE set_to_update(q))

LEMMA SelectsAsked ==
  ASSUME SelectsAnswered, [Waiting /\ (SelectRows \/ CountOrUpdate)]_calls
  PROVE  SelectsAnswered'
<1>1. CASE SelectRows
  <2>1. PICK q \in Sets, fields \in FieldLists, join \in Joins, left \in Joins :
           /\ Apart(join, left)
           /\ asked' = [of |-> "select", x |-> [q |-> q, fields |-> fields, join |-> join, left |-> left]]
           /\ answer' = select(q, fields, join, left)
    BY <1>1 DEF SelectRows, Ask
  <2> QED
    BY <2>1 DEF SelectsAnswered
<1>2. CASE CountOrUpdate
  <2>1. PICK q \in Sets, of \in {"count", "update"} :
           /\ asked' = [of |-> of, x |-> [q |-> q]]
           /\ answer' = IF of = "count" THEN count(q) ELSE set_to_update(q)
    BY <1>2 DEF CountOrUpdate, Ask
  <2> QED
    BY <2>1 DEF SelectsAnswered
<1>3. CASE UNCHANGED calls
  BY <1>3 DEF SelectsAnswered, calls
<1> QED
  BY <1>1, <1>2, <1>3

LEMMA AnswersFiltered == SelectsAnswered => EveryTableIsFiltered
<1> SUFFICES ASSUME SelectsAnswered, Answered PROVE EveryTableIsFiltered
  BY DEF EveryTableIsFiltered
<1>1. CASE asked.of = "select"
  <2>1. PICK q \in Sets, fields \in FieldLists, join \in Joins, left \in Joins :
            /\ Apart(join, left) /\ asked.x = [q |-> q, fields |-> fields, join |-> join, left |-> left]
            /\ answer = select(q, fields, join, left)
    BY <1>1 DEF SelectsAnswered
  <2>2. asked.x.q = q /\ asked.x.join = join /\ asked.x.left = left
    BY <2>1
  <2>3. RowsAnswered = select(q, fields, join, left).value.rows /\ ~ select(q, fields, join, left).error
    BY <1>1, <2>1 DEF RowsAnswered, Answered
  <2>4. ASSUME NEW e \in RowsAnswered, NEW t, dalname[t] \in Filtered,
               t \in (IF q.ignore THEN {} ELSE tables(q.atoms)) \cup OnTables(join \o left)
        PROVE  e[t] = Null \/ e[t].mine
    <3>1. e \in select(q, fields, join, left).value.rows
      BY <2>3, <2>4
    <3> QED
      BY <2>1, <2>3, <2>4, <3>1, SelectIsFiltered
  <2> QED
    BY <1>1, <2>2, <2>4 DEF EveryTableIsFiltered
<1>2. CASE asked.of \in {"count", "update"}
  <2>1. PICK q \in Sets : /\ asked.x = [q |-> q]
                          /\ answer = (IF asked.of = "count" THEN count(q) ELSE set_to_update(q))
    BY <1>2 DEF SelectsAnswered
  <2>2. asked.x.q = q /\ RowsAnswered = answer.value /\ ~ answer.error /\ asked.of # "select"
    BY <1>2, <2>1 DEF RowsAnswered, Answered
  <2>3. ASSUME NEW e \in answer.value, NEW t \in tables(q.atoms), ~ q.ignore, dalname[t] \in Filtered
        PROVE  e[t].mine
    BY <2>1, <2>2, <2>3, DirectIsFiltered
  <2> QED
    BY <2>2, <2>3 DEF EveryTableIsFiltered
<1> QED
  BY <1>1, <1>2 DEF Answered

\* No row that another tenant's common filter hides is selected, counted or touched, along
\* either path to SQL, whatever is joined, inner or left, and whatever its subselects return:
\* for any tables, filters, contents, sets and joins (common_filter, _join_from_on).
THEOREM RowsOfOthersAreHidden == SelectsSpec => []EveryTableIsFiltered
<1>1. Idle => SelectsAnswered
  BY DEF Idle, SelectsAnswered
<1>2. SelectsAnswered /\ [Waiting /\ (SelectRows \/ CountOrUpdate)]_calls => SelectsAnswered'
  BY SelectsAsked
<1> QED
  BY <1>1, <1>2, AnswersFiltered, PTL DEF SelectsSpec

\* What the calls were asked, and were answered with.
Select(q, fields, join, left) ==
    /\ asked.of = "select" /\ asked.x = [q |-> q, fields |-> fields, join |-> join, left |-> left]
    /\ answer = select(q, fields, join, left) /\ Apart(join, left)
Count(q) ==
    /\ asked.of \in {"count", "update"} /\ asked.x = [q |-> q]
    /\ answer = (IF asked.of = "count" THEN count(q) ELSE set_to_update(q))

LEMMA SelectAgrees ==
  ASSUME NEW q \in Sets, NEW fields, NEW join \in Joins, NEW left \in Joins, Select(q, fields, join, left)
  PROVE  SelectsAgree /\ SubselectsAgree
<1> DEFINE s == SelectOf(q, fields, join, left)
           all == join \o left
           older == _select_wcols(q, fields, join, left)
<1>1. /\ asked.of = "select" /\ asked.x.q = q /\ asked.x.fields = fields
      /\ asked.x.join = join /\ asked.x.left = left /\ Apart(join, left)
      /\ answer = select(q, fields, join, left)
  BY DEF Select
<1>2. ~ answer.error =>
         answer.value.rows = RowsOf(s, Top, AllNames(s)) /\ answer.value.statement = s
  BY <1>1 DEF select, Returned, Err, Ok
<1>3. answer.error => Fails(s) \/ HasSubselect(q.atoms)
  BY <1>1 DEF select, Returned, Err, Ok
<1>4. RowsAnswered = answer.value.rows /\ (Answered => ~ answer.error)
  BY <1>1 DEF RowsAnswered, Answered
<1> HIDE DEF s
<1>5. PathsAgree
  <2>1. SUFFICES ASSUME ~ answer.error, join = <<>> \/ left = <<>>, OnPlaces(all) = DOMAIN all
                 PROVE  Fails(older) \/ RowsOf(older, Top, AllNames(older)) = RowsAnswered
    <3> HIDE DEF all, older
    <3> QED
      BY <1>1, <1>4 DEF PathsAgree, all, older
  <2>2. older = s
    BY <2>1, SamePaths DEF s
  <2> HIDE DEF older
  <2> QED
    BY <1>2, <1>4, <2>1, <2>2
<1>6. PagesAreStable
  <2>1. s.fields \subseteq s.order
    BY OrderSettles DEF s
  <2> QED
    BY <1>2, <1>4, <2>1 DEF PagesAreStable
<1>7. Runs
  <2>1. SUFFICES ASSUME answer.error, Flat(q, all), NoneTooEarly(all), ~ (tables(q.atoms) \subseteq Takes(all))
                 PROVE  FALSE
    <3> HIDE DEF all
    <3> QED
      BY <1>1 DEF Runs, Flat, NoneTooEarly, Takes, all
  <2>2. PICK t0 \in tables(q.atoms) : t0 \notin Takes(all)
    BY <2>1
  <2>3. ~ Fails(s)
    BY <1>1, <2>1, <2>2, WholeRuns DEF s
  <2> QED
    BY <1>3, <2>1, <2>3 DEF Flat
<1>8. LeftKeepsAnchors
  <2>1. SUFFICES ASSUME ~ answer.error, join = <<>>, Anchored(q, fields, left),
                        NamedInSubselects(q.atoms) \cap OnTables(left) = {}
                 PROVE  {Here(e, tables(q.atoms)) : e \in RowsAnswered}
                          = {Here(e, tables(q.atoms)) : e \in select(q, {}, <<>>, <<>>).value.rows}
    BY <1>1, <1>4 DEF LeftKeepsAnchors, Anchored, Here
  <2>2. <<>> \in Joins /\ answer = select(q, fields, <<>>, left)
    BY <1>1, <2>1
  <2> QED
    BY <1>4, <2>1, <2>2, LeftKeeps
<1>9. CountAndUpdateAsSelected
  BY <1>1 DEF CountAndUpdateAsSelected
<1> QED
  BY <1>5, <1>6, <1>7, <1>8, <1>9 DEF SelectsAgree, SubselectsAgree

LEMMA CountAgrees ==
  ASSUME NEW q \in Sets, Count(q)
  PROVE  SelectsAgree /\ SubselectsAgree
<1>1. /\ asked.of \in {"count", "update"} /\ asked.of # "select" /\ asked.x.q = q
      /\ answer = (IF asked.of = "count" THEN count(q) ELSE set_to_update(q))
  BY DEF Count
<1>2. ~ answer.error => answer = Direct(q, Filter(q))
  BY <1>1 DEF count, set_to_update, Err
<1>3. ~ HasSubselect(q.atoms) => ~ Direct(q, Filter(q)).error
  <2>1. ~ HasSubselect(q.atoms) => ~ HasSubselect(Filter(q))
    BY FilterOfSet
  <2> QED
    BY <2>1, NoSubselectFails DEF Direct, Ok
<1>4. Runs
  <2>1. CASE asked.of = "count"
    BY <1>1, <1>3, <2>1 DEF Runs, count
  <2>2. CASE asked.of = "update"
    BY <1>1, <1>3, <2>2 DEF Runs, set_to_update
  <2> QED
    BY <1>1, <2>1, <2>2
<1>5. NamedInSubselects(q.atoms) \cap tables(q.atoms) \subseteq OwnNames(q) => CountAndUpdateAsSelected
  <2>1. SUFFICES ASSUME NamedInSubselects(q.atoms) \cap tables(q.atoms) \subseteq OwnNames(q),
                        Answered, ~ select(q, {}, <<>>, <<>>).error
                 PROVE  RowsAnswered = select(q, {}, <<>>, <<>>).value.rows
    BY <1>1 DEF CountAndUpdateAsSelected
  <2>2. RowsAnswered = answer.value /\ answer = Direct(q, Filter(q)) /\ ~ answer.error
    BY <1>1, <1>2, <2>1 DEF RowsAnswered, Answered
  <2> QED
    BY <2>1, <2>2, CountedAsSelected
<1>6. ~ HasSubselect(q.atoms) => NamedInSubselects(q.atoms) = {}
  <2>1. ~ HasSubselect(q.atoms) => SubsOf(q.atoms) = {}
    BY DEF HasSubselect, SubsOf
  <2> QED
    BY <2>1, NamesAreWithin
<1>7. PathsAgree /\ PagesAreStable /\ LeftKeepsAnchors
  BY <1>1 DEF PathsAgree, PagesAreStable, LeftKeepsAnchors
<1> QED
  BY <1>1, <1>4, <1>5, <1>6, <1>7 DEF SelectsAgree, SubselectsAgree, AskedWithSubselect

LEMMA AnswersAgree == SelectsAnswered => SelectsAgree /\ SubselectsAgree
<1> SUFFICES ASSUME SelectsAnswered PROVE SelectsAgree /\ SubselectsAgree
  OBVIOUS
<1>1. CASE asked.of = "select"
  <2>1. PICK q \in Sets, fields \in FieldLists, join \in Joins, left \in Joins :
            /\ Apart(join, left) /\ asked.x = [q |-> q, fields |-> fields, join |-> join, left |-> left]
            /\ answer = select(q, fields, join, left)
    BY <1>1 DEF SelectsAnswered
  <2>2. Select(q, fields, join, left)
    BY <1>1, <2>1 DEF Select
  <2> QED
    BY <2>2, SelectAgrees
<1>2. CASE asked.of \in {"count", "update"}
  <2>1. PICK q \in Sets : /\ asked.x = [q |-> q]
                          /\ answer = (IF asked.of = "count" THEN count(q) ELSE set_to_update(q))
    BY <1>2 DEF SelectsAnswered
  <2>2. Count(q)
    BY <1>2, <2>1 DEF Count
  <2> QED
    BY <2>2, CountAgrees
<1>3. CASE asked.of \notin {"select", "count", "update"}
  BY <1>3 DEF SelectsAgree, SubselectsAgree, AskedWithSubselect, PathsAgree, PagesAreStable, Runs, LeftKeepsAnchors, CountAndUpdateAsSelected
<1> QED
  BY <1>1, <1>2, <1>3

\* Both paths to SQL select the same rows; what is selected settles in the order a page is made in;
\* a statement fails for one of the reasons Runs lists only; and without subselects a left join
\* loses no row of the set, and count and update mean just the rows of its select: for any tables,
\* aliases, filters, contents, sets and joins (set_to_select, _select_wcols, count, set_to_update).
THEOREM SelectsAgreeByEitherPath == SelectsSpec => []SelectsAgree
<1>1. Idle => SelectsAnswered
  BY DEF Idle, SelectsAnswered
<1>2. SelectsAnswered /\ [Waiting /\ (SelectRows \/ CountOrUpdate)]_calls => SelectsAnswered'
  BY SelectsAsked
<1> QED
  BY <1>1, <1>2, AnswersAgree, PTL DEF SelectsSpec

\* With subselects, too, at any depth, a left join loses no row of the set, unless they use what it
\* joins, and count and update mean just the rows of its select, unless they call a table of the
\* set by an alias: for any tables, aliases, filters, contents, sets, subselects and joins
\* (_select_wcols, Select's FROM and outer scope, count, set_to_update).
THEOREM SubselectsAgreeToo == SelectsSpec => []SubselectsAgree
<1>1. Idle => SelectsAnswered
  BY DEF Idle, SelectsAnswered
<1>2. SelectsAnswered /\ [Waiting /\ (SelectRows \/ CountOrUpdate)]_calls => SelectsAnswered'
  BY SelectsAsked
<1> QED
  BY <1>1, <1>2, AnswersAgree, PTL DEF SelectsSpec
=============================================================================
