----------------------------- MODULE KeptProofs -----------------------------
(***************************************************************************)
(* Proofs that what was kept is found, for every value of the constants: a *)
(* DAL instance in the list of its name, a value in its column, a record   *)
(* through the shortcuts of any table, a file of the database for any      *)
(* users and contents; and all of these calls in whatever order they come. *)
(***************************************************************************)
EXTENDS KeptCalls, SequenceTheorems, FiniteSetTheorems, WellFoundedInduction, TLAPS

----------------------------------------------------------------------------
(* The instances of DAL a thread has: whatever is made, unpickled and       *)
(* closed, in any order, the lists by db_uid hold the open ones.            *)

\* The calls of one thread, one after the other.
InstancesSpec == Idle /\ [][StartInstances \/ UseInstances]_calls

----------------------------------------------------------------------------
(* The inductive invariant                                                 *)

States    == {"blank", "open", "failed", "closed"}
Outcomes  == {"", "no attempt was made", "failure to connect", "no adapter", "not in list"}
Instances == [uid : DbUids, state : States, adapter : BOOLEAN]
Records   == [groups : [DbUids -> Seq(Nat)], zombies : [DbUids -> Nat],
              made : Seq(Instances), got : Nat, raised : Outcomes]

\* Instance db was made for database u.
IsOf(r, db, u) == db \in DOMAIN r.made /\ r.made[db].uid = u

\* What is listed was made for that database, and not closed since.
ListedAreConnected(r) ==
  \A u \in DbUids : \A i \in DOMAIN r.groups[u] :
    IsOf(r, r.groups[u][i], u) /\ r.made[r.groups[u][i]].state \in {"open", "failed"}

ListedOnce(r) == \A u \in DbUids : IsInjective(r.groups[u])

\* What is open is listed, and has an adapter that close can use.
OpenAreListed(r) ==
  \A db \in DOMAIN r.made : r.made[db].state = "open" =>
    r.made[db].adapter /\ \E i \in DOMAIN r.groups[r.made[db].uid] : r.groups[r.made[db].uid][i] = db

\* Who waits to be connected is blank, so it is in no list.
WaitingAreBlank(r) ==
  \A u \in DbUids : r.zombies[u] # 0 => IsOf(r, r.zombies[u], u) /\ r.made[r.zombies[u]].state = "blank"

Good(r) == /\ r \in Records /\ ListedAreConnected(r) /\ ListedOnce(r)
           /\ OpenAreListed(r) /\ WaitingAreBlank(r)

----------------------------------------------------------------------------
(* Sequences                                                               *)

\* Appending to a list what is not in it.
LEMMA AppendOnce ==
  ASSUME NEW S, NEW s \in Seq(S), NEW e \in S
  PROVE  /\ Append(s, e) \in Seq(S) /\ Len(Append(s, e)) = Len(s) + 1
         /\ DOMAIN Append(s, e) = 1 .. Len(s) + 1
         /\ \A i \in 1 .. Len(s) : Append(s, e)[i] = s[i]
         /\ Append(s, e)[Len(s) + 1] = e
         /\ IsInjective(s) /\ (\A i \in DOMAIN s : s[i] # e) => IsInjective(Append(s, e))
<1>1. Len(s) \in Nat /\ DOMAIN s = 1 .. Len(s)
  BY LenProperties
<1>2. /\ Append(s, e) \in Seq(S) /\ Len(Append(s, e)) = Len(s) + 1
      /\ \A i \in 1 .. Len(s) : Append(s, e)[i] = s[i]
      /\ Append(s, e)[Len(s) + 1] = e
  BY <1>1, AppendProperties
<1>3. DOMAIN Append(s, e) = 1 .. Len(s) + 1
  BY <1>2, LenProperties
<1> QED
  BY <1>1, <1>2, <1>3 DEF IsInjective

\* RemoveFirst takes what is in a list once out of it.
LEMMA RemoveOnce ==
  ASSUME NEW S, NEW s \in Seq(S), IsInjective(s), NEW k \in DOMAIN s
  PROVE  /\ RemoveFirst(s, s[k]) \in Seq(S) /\ IsInjective(RemoveFirst(s, s[k]))
         /\ \A i \in DOMAIN RemoveFirst(s, s[k]) :
              \E j \in DOMAIN s : j # k /\ RemoveFirst(s, s[k])[i] = s[j]
         /\ \A j \in DOMAIN s : j # k =>
              \E i \in DOMAIN RemoveFirst(s, s[k]) : RemoveFirst(s, s[k])[i] = s[j]
<1> DEFINE I == {i \in 1 .. Len(s) : s[i] = s[k]}
           a == SubSeq(s, 1, k - 1)
           b == SubSeq(s, k + 1, Len(s))
           t == a \o b
<1>1. Len(s) \in Nat /\ DOMAIN s = 1 .. Len(s) /\ k \in 1 .. Len(s)
      /\ \A i \in 1 .. Len(s) : s[i] \in S
  BY LenProperties, ElementOfSeq
<1>2. I = {k}
  BY <1>1 DEF IsInjective
<1>3. Min(I) = k
  BY <1>1, <1>2 DEF Min
<1>4. RemoveFirst(s, s[k]) = t
  BY <1>1, <1>2, <1>3 DEF RemoveFirst, RemoveAt, SelectInSeq
<1>5. /\ a \in Seq(S) /\ Len(a) = k - 1 /\ \A i \in 1 .. k - 1 : a[i] = s[i]
  <2>1. \A i \in 1 .. k - 1 : s[i] \in S
    BY <1>1
  <2> QED
    BY <1>1, <2>1, SubSeqProperties
<1>6. /\ b \in Seq(S) /\ Len(b) = Len(s) - k /\ \A i \in 1 .. Len(s) - k : b[i] = s[i + k]
  <2>1. \A i \in k + 1 .. Len(s) : s[i] \in S
    BY <1>1
  <2>2. /\ b \in Seq(S) /\ Len(b) = IF k + 1 <= Len(s) THEN Len(s) - (k + 1) + 1 ELSE 0
        /\ \A i \in 1 .. Len(s) - (k + 1) + 1 : b[i] = s[k + 1 + i - 1]
    BY <1>1, <2>1, SubSeqProperties
  <2> HIDE DEF b
  <2>3. Len(b) = Len(s) - k
    BY <1>1, <2>2
  <2>4. ASSUME NEW i \in 1 .. Len(s) - k PROVE b[i] = s[i + k]
    <3>1. i \in 1 .. Len(s) - (k + 1) + 1 /\ k + 1 + i - 1 = i + k
      BY <1>1
    <3> QED
      BY <2>2, <3>1
  <2> QED
    BY <2>2, <2>3, <2>4
<1> HIDE DEF a, b
<1>7. /\ t \in Seq(S) /\ Len(t) = Len(s) - 1
      /\ \A i \in 1 .. Len(s) - 1 : t[i] = IF i < k THEN s[i] ELSE s[i + 1]
  <2>1. /\ t \in Seq(S) /\ Len(t) = Len(a) + Len(b)
        /\ \A i \in 1 .. Len(a) + Len(b) : t[i] = IF i <= Len(a) THEN a[i] ELSE b[i - Len(a)]
    BY <1>5, <1>6, ConcatProperties
  <2>2. Len(t) = Len(s) - 1
    BY <1>1, <1>5, <1>6, <2>1
  <2>3. ASSUME NEW i \in 1 .. Len(s) - 1 PROVE t[i] = IF i < k THEN s[i] ELSE s[i + 1]
    <3>1. CASE i < k
      BY <1>1, <1>5, <1>6, <2>1, <3>1
    <3>2. CASE ~ (i < k)
      <4>1. t[i] = b[i - (k - 1)] /\ i - (k - 1) \in 1 .. Len(s) - k
        BY <1>1, <1>5, <1>6, <2>1, <3>2
      <4>2. b[i - (k - 1)] = s[i - (k - 1) + k] /\ i - (k - 1) + k = i + 1
        BY <1>1, <1>6, <4>1
      <4> QED
        BY <3>2, <4>1, <4>2
    <3> QED
      BY <3>1, <3>2
  <2> QED
    BY <2>1, <2>2, <2>3
<1> HIDE DEF t
<1>8. DOMAIN t = 1 .. Len(s) - 1
  BY <1>7, LenProperties
<1>9. IsInjective(t)
  BY <1>1, <1>7, <1>8 DEF IsInjective
<1>10. ASSUME NEW i \in DOMAIN t PROVE \E j \in DOMAIN s : j # k /\ t[i] = s[j]
  <2>1. CASE i < k
    BY <1>1, <1>7, <1>8, <2>1
  <2>2. CASE ~ (i < k)
    <3>1. i + 1 \in DOMAIN s /\ i + 1 # k /\ t[i] = s[i + 1]
      BY <1>1, <1>7, <1>8, <2>2
    <3> QED
      BY <3>1
  <2> QED
    BY <2>1, <2>2
<1>11. ASSUME NEW j \in DOMAIN s, j # k PROVE \E i \in DOMAIN t : t[i] = s[j]
  <2>1. CASE j < k
    BY <1>1, <1>7, <1>8, <2>1
  <2>2. CASE ~ (j < k)
    <3>1. j - 1 \in DOMAIN t /\ t[j - 1] = s[j - 1 + 1] /\ j - 1 + 1 = j
      BY <1>1, <1>7, <1>8, <1>11, <2>2
    <3> QED
      BY <3>1
  <2> QED
    BY <2>1, <2>2
<1> QED
  BY <1>4, <1>7, <1>9, <1>10, <1>11

----------------------------------------------------------------------------
(* The calls                                                               *)

\* In n the database uid has been given the instance n.got, the one that waited
\* for it or a new one, and this is listed last; the rest is as in r.
Gave(r, uid, n) ==
  /\ n.got \in DOMAIN n.made /\ n.made[n.got].uid = uid
  /\ DOMAIN r.made \subseteq DOMAIN n.made
  /\ \A e \in DOMAIN n.made : e = n.got \/ (e \in DOMAIN r.made /\ n.made[e] = r.made[e])
  /\ n.got \in DOMAIN r.made => r.made[n.got].state = "blank" /\ r.made[n.got].uid = uid
  /\ r.zombies[uid] # 0 => n.got = r.zombies[uid]
  /\ n.zombies[uid] = 0 /\ n.groups[uid] = Append(r.groups[uid], n.got)
  /\ \A u \in DbUids : u # uid => n.groups[u] = r.groups[u] /\ n.zombies[u] = r.zombies[u]

LEMMA NewFacts ==
  ASSUME NEW r, Good(r), NEW uid \in DbUids
  PROVE  __new__(r, uid) \in Records /\ Gave(r, uid, __new__(r, uid))
<1> DEFINE n == __new__(r, uid)
           d == IF r.zombies[uid] # 0 THEN r.zombies[uid] ELSE Len(r.made) + 1
           m == IF r.zombies[uid] # 0 THEN r.made ELSE Append(r.made, Instance(uid))
           g == [r.groups EXCEPT ![uid] = Append(@, d)]
           z == [r.zombies EXCEPT ![uid] = 0]
<1>1. r \in Records /\ r.made \in Seq(Instances) /\ r.groups \in [DbUids -> Seq(Nat)]
      /\ r.zombies \in [DbUids -> Nat]
  BY DEF Good, Records
<1>2. Len(r.made) \in Nat /\ DOMAIN r.made = 1 .. Len(r.made)
  BY <1>1, LenProperties
<1>3. Instance(uid) \in Instances /\ Instance(uid).uid = uid
  BY DEF Instance, Instances, States
<1>4. d \in Nat
  BY <1>1, <1>2
<1>5. /\ m \in Seq(Instances) /\ d \in DOMAIN m /\ m[d].uid = uid
      /\ DOMAIN r.made \subseteq DOMAIN m
      /\ \A e \in DOMAIN m : e = d \/ (e \in DOMAIN r.made /\ m[e] = r.made[e])
      /\ d \in DOMAIN r.made => r.made[d].state = "blank" /\ r.made[d].uid = uid
  <2>1. CASE r.zombies[uid] # 0
    BY <1>1, <2>1 DEF Good, WaitingAreBlank, IsOf
  <2>2. CASE r.zombies[uid] = 0
    <3>1. /\ m \in Seq(Instances) /\ DOMAIN m = 1 .. Len(r.made) + 1
          /\ \A i \in 1 .. Len(r.made) : m[i] = r.made[i]
          /\ m[Len(r.made) + 1] = Instance(uid)
      BY <1>1, <1>3, <2>2, AppendOnce
    <3>2. d = Len(r.made) + 1
      BY <2>2
    <3> HIDE DEF m, d
    <3>3. d \in DOMAIN m /\ m[d] = Instance(uid) /\ d \notin DOMAIN r.made
      BY <1>2, <3>1, <3>2
    <3>4. ASSUME NEW e \in DOMAIN m, e # d PROVE e \in DOMAIN r.made /\ m[e] = r.made[e]
      <4>1. e \in 1 .. Len(r.made)
        BY <1>2, <3>1, <3>2, <3>4
      <4> QED
        BY <1>2, <3>1, <4>1
    <3>5. DOMAIN r.made \subseteq DOMAIN m
      BY <1>2, <3>1
    <3>6. m[d].uid = uid
      BY <1>3, <3>3
    <3>7. \A e \in DOMAIN m : e = d \/ (e \in DOMAIN r.made /\ m[e] = r.made[e])
      BY <3>4
    <3>8. d \notin DOMAIN r.made
      BY <3>3
    <3> QED
      BY <3>1, <3>3, <3>5, <3>6, <3>7, <3>8
  <2> QED
    BY <2>1, <2>2
<1>6. g \in [DbUids -> Seq(Nat)] /\ g[uid] = Append(r.groups[uid], d)
      /\ \A u \in DbUids : u # uid => g[u] = r.groups[u]
  <2>1. Append(r.groups[uid], d) \in Seq(Nat)
    BY <1>1, <1>4, AppendOnce
  <2> QED
    BY <1>1, <2>1
<1>7. z \in [DbUids -> Nat] /\ z[uid] = 0 /\ \A u \in DbUids : u # uid => z[u] = r.zombies[u]
  BY <1>1
<1>8. n = [r EXCEPT !.made = m, !.zombies = z, !.groups = g, !.got = d, !.raised = ""]
  BY DEF __new__
<1>9. r.zombies[uid] # 0 => d = r.zombies[uid]
  OBVIOUS
<1> HIDE DEF n, m, z, g, d
<1>10. n \in Records
  BY <1>1, <1>4, <1>5, <1>6, <1>7, <1>8 DEF Records, Outcomes
<1>11. n.made = m /\ n.zombies = z /\ n.groups = g /\ n.got = d /\ n.raised = ""
  BY <1>1, <1>8 DEF Records
<1>12. /\ n.got \in DOMAIN n.made /\ n.made[n.got].uid = uid
       /\ DOMAIN r.made \subseteq DOMAIN n.made
       /\ \A e \in DOMAIN n.made : e = n.got \/ (e \in DOMAIN r.made /\ n.made[e] = r.made[e])
       /\ n.got \in DOMAIN r.made => r.made[n.got].state = "blank" /\ r.made[n.got].uid = uid
  BY <1>5, <1>11
<1>13. /\ n.groups[uid] = Append(r.groups[uid], n.got) /\ n.zombies[uid] = 0
       /\ \A u \in DbUids : u # uid => n.groups[u] = r.groups[u] /\ n.zombies[u] = r.zombies[u]
  BY <1>6, <1>7, <1>11
<1> QED
  BY <1>9, <1>10, <1>11, <1>12, <1>13 DEF n, Gave

\* __init__ leaves the instance open, with an adapter, or failed.
LEMMA InitFacts ==
  ASSUME NEW n \in Records, n.got \in DOMAIN n.made, NEW attempts, NEW uris, NEW up,
         NEW adapter \in BOOLEAN
  PROVE  LET i == __init__(n, attempts, uris, up, adapter)
         IN  /\ i \in Records /\ i.groups = n.groups /\ i.zombies = n.zombies
             /\ DOMAIN i.made = DOMAIN n.made
             /\ \A e \in DOMAIN n.made : e # n.got => i.made[e] = n.made[e]
             /\ i.made[n.got].uid = n.made[n.got].uid
             /\ \/ i.made[n.got].state = "open" /\ i.made[n.got].adapter
                \/ i.made[n.got].state = "failed"
<1> DEFINE i == __init__(n, attempts, uris, up, adapter)
           d == n.got
           new(s, a) == [[n.made[d] EXCEPT !.state = s] EXCEPT !.adapter = a]
           m(s, a) == [n.made EXCEPT ![d] = new(s, a)]
<1>1. n.made \in Seq(Instances) /\ d \in 1 .. Len(n.made) /\ n.made[d] \in Instances
      /\ DOMAIN n.made = 1 .. Len(n.made)
  <2>1. n.made \in Seq(Instances)
    BY DEF Records
  <2> QED
    BY <2>1, LenProperties, ElementOfSeq
<1>2. ASSUME NEW s \in States, NEW a \in BOOLEAN
      PROVE  /\ m(s, a) \in Seq(Instances) /\ DOMAIN m(s, a) = DOMAIN n.made
             /\ \A e \in DOMAIN n.made : e # d => m(s, a)[e] = n.made[e]
             /\ m(s, a)[d].uid = n.made[d].uid /\ m(s, a)[d].state = s /\ m(s, a)[d].adapter = a
  <2>1. /\ new(s, a) \in Instances /\ new(s, a).uid = n.made[d].uid
        /\ new(s, a).state = s /\ new(s, a).adapter = a
    BY <1>1 DEF Instances
  <2> HIDE DEF new
  <2>2. /\ m(s, a) \in Seq(Instances) /\ DOMAIN m(s, a) = DOMAIN n.made
        /\ \A e \in DOMAIN n.made : m(s, a)[e] = IF e = d THEN new(s, a) ELSE n.made[e]
    BY <1>1, <2>1, ExceptSeq
  <2> QED
    BY <1>1, <2>1, <2>2
<1>3. CASE up <= Tries(attempts, uris)
  <2> DEFINE w == m("open", TRUE)
  <2>1. i = [n EXCEPT !.made = w]
    BY <1>3 DEF __init__
  <2>2. /\ w \in Seq(Instances) /\ DOMAIN w = DOMAIN n.made
        /\ \A e \in DOMAIN n.made : e # d => w[e] = n.made[e]
        /\ w[d].uid = n.made[d].uid /\ w[d].state = "open" /\ w[d].adapter = TRUE
    BY <1>2 DEF States
  <2> HIDE DEF w, i
  <2>3. i \in Records /\ i.made = w /\ i.groups = n.groups /\ i.zombies = n.zombies
    BY <2>1, <2>2 DEF Records
  <2>4. i.made[d].state = "open" /\ i.made[d].adapter
    BY <2>2, <2>3
  <2> QED
    BY <2>2, <2>3, <2>4 DEF i
<1>4. CASE ~ (up <= Tries(attempts, uris))
  <2> DEFINE error == IF Tries(attempts, uris) = 0 THEN "no attempt was made" ELSE "failure to connect"
             w == m("failed", adapter)
  <2>1. i = [[n EXCEPT !.made = w] EXCEPT !.raised = error, !.got = 0]
    BY <1>4 DEF __init__, Raising
  <2>2. /\ w \in Seq(Instances) /\ DOMAIN w = DOMAIN n.made
        /\ \A e \in DOMAIN n.made : e # d => w[e] = n.made[e]
        /\ w[d].uid = n.made[d].uid /\ w[d].state = "failed"
    BY <1>2 DEF States
  <2>3. error \in Outcomes
    BY DEF Outcomes
  <2> HIDE DEF w, i, error
  <2>4. i \in Records /\ i.made = w /\ i.groups = n.groups /\ i.zombies = n.zombies
    BY <2>1, <2>2, <2>3 DEF Records
  <2>5. i.made[d].state = "failed"
    BY <2>2, <2>4
  <2> QED
    BY <2>2, <2>4, <2>5 DEF i
<1> QED
  BY <1>3, <1>4

\* A new instance, connected or not, is listed last; one that waited is this one.
LEMMA ConnectGood ==
  ASSUME NEW r, Good(r), NEW uid \in DbUids, NEW attempts, NEW uris, NEW up,
         NEW adapter \in BOOLEAN
  PROVE  LET i == __init__(__new__(r, uid), attempts, uris, up, adapter)
         IN  /\ Good(i)
             /\ r.zombies[uid] # 0 => r.zombies[uid] \in Range(i.groups[uid]) /\ i.zombies[uid] = 0
<1> DEFINE n == __new__(r, uid)
           i == __init__(n, attempts, uris, up, adapter)
           d == n.got
<1> HIDE DEF n
<1>0. n \in Records /\ Gave(r, uid, n)
  BY NewFacts DEF n
<1>1. /\ n \in Records /\ d \in DOMAIN n.made /\ n.made[d].uid = uid
      /\ DOMAIN r.made \subseteq DOMAIN n.made
      /\ \A e \in DOMAIN n.made : e = d \/ (e \in DOMAIN r.made /\ n.made[e] = r.made[e])
      /\ d \in DOMAIN r.made => r.made[d].state = "blank" /\ r.made[d].uid = uid
      /\ r.zombies[uid] # 0 => d = r.zombies[uid]
      /\ n.zombies[uid] = 0 /\ n.groups[uid] = Append(r.groups[uid], d)
      /\ \A u \in DbUids : u # uid => n.groups[u] = r.groups[u] /\ n.zombies[u] = r.zombies[u]
  BY <1>0 DEF Gave
<1>2. /\ i \in Records /\ i.groups = n.groups /\ i.zombies = n.zombies
      /\ DOMAIN i.made = DOMAIN n.made
      /\ \A e \in DOMAIN n.made : e # d => i.made[e] = n.made[e]
      /\ i.made[d].uid = uid
      /\ \/ i.made[d].state = "open" /\ i.made[d].adapter
         \/ i.made[d].state = "failed"
  BY <1>1, InitFacts
<1> HIDE DEF i, d
<1>3. r.groups[uid] \in Seq(Nat) /\ d \in Nat /\ r.groups \in [DbUids -> Seq(Nat)]
  <2>1. r.groups \in [DbUids -> Seq(Nat)]
    BY DEF Good, Records
  <2>2. n.got \in Nat
    BY <1>1 DEF Records
  <2> QED
    BY <2>1, <2>2 DEF d
<1>4. \A k \in DOMAIN r.groups[uid] : r.groups[uid][k] # d
  BY <1>1 DEF Good, ListedAreConnected, IsOf
<1> DEFINE a == Append(r.groups[uid], d)
           l == Len(r.groups[uid])
<1>5. /\ l \in Nat /\ DOMAIN r.groups[uid] = 1 .. l /\ DOMAIN a = 1 .. l + 1
      /\ \A k \in 1 .. l : a[k] = r.groups[uid][k]
      /\ a[l + 1] = d
  BY <1>3, LenProperties, AppendOnce
<1>6. IsInjective(a)
  BY <1>3, <1>4, AppendOnce DEF Good, ListedOnce
<1>7. i.groups[uid] = a /\ \A u \in DbUids : u # uid => i.groups[u] = r.groups[u]
  BY <1>1, <1>2
<1> HIDE DEF a, l
<1>8. \A e \in DOMAIN r.made : e # d => e \in DOMAIN i.made /\ i.made[e] = r.made[e]
  BY <1>1, <1>2
<1>9. ListedAreConnected(i)
  <2> SUFFICES ASSUME NEW u \in DbUids, NEW k \in DOMAIN i.groups[u]
               PROVE  IsOf(i, i.groups[u][k], u) /\ i.made[i.groups[u][k]].state \in {"open", "failed"}
    BY DEF ListedAreConnected
  <2>1. ASSUME NEW j \in DOMAIN r.groups[u], i.groups[u][k] = r.groups[u][j]
        PROVE  IsOf(i, i.groups[u][k], u) /\ i.made[i.groups[u][k]].state \in {"open", "failed"}
    <3>1. IsOf(r, r.groups[u][j], u) /\ r.made[r.groups[u][j]].state \in {"open", "failed"}
      BY DEF Good, ListedAreConnected
    <3>2. r.groups[u][j] # d
      BY <1>1, <3>1 DEF IsOf
    <3> QED
      BY <1>8, <2>1, <3>1, <3>2 DEF IsOf
  <2>2. CASE u # uid
    BY <1>7, <2>1, <2>2
  <2>3. CASE u = uid /\ k \in 1 .. l
    BY <1>5, <1>7, <2>1, <2>3
  <2>4. CASE u = uid /\ k = l + 1
    <3>1. i.groups[u][k] = d
      BY <1>5, <1>7, <2>4
    <3>2. d \in DOMAIN i.made
      BY <1>1, <1>2
    <3> QED
      BY <1>2, <2>4, <3>1, <3>2 DEF IsOf
  <2>5. u = uid => k \in 1 .. l \/ k = l + 1
    BY <1>5, <1>7
  <2> QED
    BY <2>2, <2>3, <2>4, <2>5
<1>10. ListedOnce(i)
  BY <1>6, <1>7 DEF Good, ListedOnce
<1>11. OpenAreListed(i)
  <2> SUFFICES ASSUME NEW e \in DOMAIN i.made, i.made[e].state = "open"
               PROVE  i.made[e].adapter /\ \E k \in DOMAIN i.groups[i.made[e].uid] : i.groups[i.made[e].uid][k] = e
    BY DEF OpenAreListed
  <2>1. CASE e = d
    <3>1. l + 1 \in DOMAIN i.groups[uid] /\ i.groups[uid][l + 1] = d
      BY <1>5, <1>7
    <3>2. i.made[d].uid = uid /\ i.made[d].adapter
      BY <1>2, <2>1
    <3> QED
      BY <2>1, <3>1, <3>2
  <2>2. CASE e # d
    <3>1. e \in DOMAIN r.made /\ i.made[e] = r.made[e]
      BY <1>1, <1>2, <2>2
    <3>2. r.made[e].uid \in DbUids
      <4>1. r.made \in Seq(Instances)
        BY DEF Good, Records
      <4>2. r.made[e] \in Instances
        BY <3>1, <4>1, LenProperties
      <4> QED
        BY <4>2 DEF Instances
    <3>3. r.made[e].adapter
      BY <3>1 DEF Good, OpenAreListed
    <3>4. PICK k \in DOMAIN r.groups[r.made[e].uid] : r.groups[r.made[e].uid][k] = e
      BY <3>1 DEF Good, OpenAreListed
    <3>5. k \in DOMAIN i.groups[r.made[e].uid] /\ i.groups[r.made[e].uid][k] = e
      <4>1. CASE r.made[e].uid = uid
        BY <1>5, <1>7, <3>4, <4>1
      <4>2. CASE r.made[e].uid # uid
        BY <1>7, <3>2, <3>4, <4>2
      <4> QED
        BY <4>1, <4>2
    <3> QED
      BY <3>1, <3>3, <3>5
  <2> QED
    BY <2>1, <2>2
<1>12. WaitingAreBlank(i)
  <2> SUFFICES ASSUME NEW u \in DbUids, i.zombies[u] # 0
               PROVE  IsOf(i, i.zombies[u], u) /\ i.made[i.zombies[u]].state = "blank"
    BY DEF WaitingAreBlank
  <2>1. u # uid /\ i.zombies[u] = r.zombies[u]
    BY <1>1, <1>2
  <2>2. IsOf(r, r.zombies[u], u) /\ r.made[r.zombies[u]].state = "blank"
    BY <2>1 DEF Good, WaitingAreBlank
  <2>3. r.zombies[u] # d
    BY <1>1, <2>1, <2>2 DEF IsOf
  <2> QED
    BY <1>8, <2>1, <2>2, <2>3 DEF IsOf
<1>13. r.zombies[uid] # 0 => r.zombies[uid] \in Range(i.groups[uid]) /\ i.zombies[uid] = 0
  <2>1. d \in Range(i.groups[uid])
    BY <1>5, <1>7 DEF Range
  <2> QED
    BY <1>1, <1>2, <2>1
<1> QED
  BY <1>2, <1>9, <1>10, <1>11, <1>12, <1>13 DEF Good, i, n

\* DAL_unpickler returns the latest of the database, or the one that waits for
\* it, made now if there is none.
LEMMA UnpickleGood ==
  ASSUME NEW r, Good(r), NEW uid \in DbUids
  PROVE  LET n == DAL_unpickler(r, uid)
         IN  /\ Good(n)
             /\ n.groups[uid] # <<>> => n.got = Last(n.groups[uid])
<1> DEFINE n == DAL_unpickler(r, uid)
<1>1. r \in Records /\ r.made \in Seq(Instances) /\ r.groups[uid] \in Seq(Nat)
      /\ r.zombies \in [DbUids -> Nat]
  BY DEF Good, Records
<1>2. ASSUME n \in Records, n.made = r.made, n.groups = r.groups, n.zombies = r.zombies
      PROVE  Good(n)
  BY <1>2 DEF Good, ListedAreConnected, ListedOnce, OpenAreListed, WaitingAreBlank, IsOf
<1>3. CASE r.groups[uid] # <<>>
  <2> DEFINE e == Last(r.groups[uid])
  <2>1. e \in Nat
    <3>1. Len(r.groups[uid]) \in 1 .. Len(r.groups[uid])
      BY <1>1, <1>3, EmptySeq
    <3> QED
      BY <1>1, <3>1, ElementOfSeq DEF Last
  <2>2. n = [r EXCEPT !.got = e, !.raised = ""]
    BY <1>3 DEF DAL_unpickler
  <2> HIDE DEF e, n
  <2>3. /\ n \in Records /\ n.made = r.made /\ n.groups = r.groups /\ n.zombies = r.zombies
        /\ n.got = e
    BY <1>1, <2>1, <2>2 DEF Records, Outcomes
  <2> QED
    BY <1>2, <2>3 DEF e, n
<1>4. CASE r.groups[uid] = <<>> /\ r.zombies[uid] # 0
  <2>1. n = [r EXCEPT !.got = r.zombies[uid], !.raised = ""]
    BY <1>4 DEF DAL_unpickler
  <2> HIDE DEF n
  <2>2. n \in Records /\ n.made = r.made /\ n.groups = r.groups /\ n.zombies = r.zombies
    BY <1>1, <2>1 DEF Records, Outcomes
  <2> QED
    BY <1>2, <1>4, <2>2 DEF n
<1>5. CASE r.groups[uid] = <<>> /\ r.zombies[uid] = 0
  <2> DEFINE d == Len(r.made) + 1
             m == Append(r.made, Instance(uid))
             z == [r.zombies EXCEPT ![uid] = d]
  <2>1. n = [r EXCEPT !.made = m, !.zombies = z, !.got = d, !.raised = ""]
    BY <1>5 DEF DAL_unpickler
  <2>2. Instance(uid) \in Instances /\ Instance(uid).uid = uid /\ Instance(uid).state = "blank"
    BY DEF Instance, Instances, States
  <2>3. /\ m \in Seq(Instances) /\ DOMAIN m = 1 .. Len(r.made) + 1
        /\ \A e \in 1 .. Len(r.made) : m[e] = r.made[e]
        /\ m[Len(r.made) + 1] = Instance(uid)
        /\ DOMAIN r.made = 1 .. Len(r.made) /\ Len(r.made) \in Nat
    BY <1>1, <2>2, AppendOnce, LenProperties
  <2>4. z \in [DbUids -> Nat] /\ z[uid] = d /\ \A u \in DbUids : u # uid => z[u] = r.zombies[u]
    BY <1>1, <2>3
  <2> HIDE DEF m, z, n
  <2>5. d \in Nat /\ d \in DOMAIN m /\ m[d] = Instance(uid) /\ d \notin DOMAIN r.made
    BY <2>3
  <2>6. \A e \in DOMAIN r.made : e \in DOMAIN m /\ m[e] = r.made[e] /\ e # d
    BY <2>3
  <2>7. \A e \in DOMAIN m : e # d => e \in DOMAIN r.made
    BY <2>3
  <2> HIDE DEF d
  <2>8. n \in Records
    BY <1>1, <2>1, <2>3, <2>4, <2>5 DEF Records, Outcomes
  <2>9. n.made = m /\ n.groups = r.groups /\ n.zombies = z
    BY <1>1, <2>1 DEF Records
  <2>10. ListedAreConnected(n)
    BY <2>6, <2>9 DEF Good, ListedAreConnected, IsOf
  <2>11. OpenAreListed(n)
    <3> SUFFICES ASSUME NEW e \in DOMAIN m, m[e].state = "open"
                 PROVE  m[e].adapter /\ \E k \in DOMAIN r.groups[m[e].uid] : r.groups[m[e].uid][k] = e
      BY <2>9 DEF OpenAreListed
    <3>1. e # d
      BY <2>2, <2>5
    <3>2. e \in DOMAIN r.made /\ m[e] = r.made[e]
      BY <2>6, <2>7, <3>1
    <3> QED
      BY <3>2 DEF Good, OpenAreListed
  <2>12. WaitingAreBlank(n)
    BY <2>2, <2>4, <2>5, <2>6, <2>9 DEF Good, WaitingAreBlank, IsOf
  <2> QED
    BY <1>5, <2>8, <2>9, <2>10, <2>11, <2>12 DEF Good, ListedOnce, n
<1> QED
  BY <1>3, <1>4, <1>5

LEMMA InListed ==
  ASSUME NEW r, NEW db
  PROVE  db \in Listed1(r) <=>
           \E u \in DbUids : \E i \in DOMAIN r.groups[u] : r.groups[u][i] = db
BY DEF Listed1, Range

\* got and raised are not what Good is about.
LEMMA SameGood ==
  ASSUME NEW r, Good(r), NEW n \in Records, n.made = r.made, n.groups = r.groups,
         n.zombies = r.zombies
  PROVE  Good(n)
<1>1. ListedAreConnected(n)
  BY DEF Good, ListedAreConnected, IsOf
<1>2. ListedOnce(n)
  BY DEF Good, ListedOnce
<1>3. OpenAreListed(n)
  BY DEF Good, OpenAreListed
<1>4. WaitingAreBlank(n)
  BY DEF Good, WaitingAreBlank, IsOf
<1> QED
  BY <1>1, <1>2, <1>3, <1>4 DEF Good

\* Closed, an instance is out of its list, and just this one.
Parted(r, c) ==
  Cardinality(Listed1(r) \ Listed1(c)) = (IF c.raised = "" /\ c.got \in Listed1(r) THEN 1 ELSE 0)

LEMMA CloseGood ==
  ASSUME NEW r, Good(r), NEW db \in DOMAIN r.made, r.made[db].state # "blank"
  PROVE  Good(close(r, db)) /\ Parted(r, close(r, db))
<1> DEFINE uid == r.made[db].uid
           m == [r.made EXCEPT ![db] = [r.made[db] EXCEPT !.state = "closed"]]
           closed == [r EXCEPT !.made = m, !.got = db, !.raised = ""]
           c == close(r, db)
<1>1. /\ r \in Records /\ r.made \in Seq(Instances) /\ r.groups \in [DbUids -> Seq(Nat)]
      /\ r.zombies \in [DbUids -> Nat]
  BY DEF Good, Records
<1>2. db \in 1 .. Len(r.made) /\ DOMAIN r.made = 1 .. Len(r.made) /\ r.made[db] \in Instances
      /\ Len(r.made) \in Nat
  BY <1>1, LenProperties, ElementOfSeq
<1>3. uid \in DbUids /\ db \in Nat
  BY <1>2 DEF Instances
<1> HIDE DEF uid
<1>4. /\ m \in Seq(Instances) /\ DOMAIN m = DOMAIN r.made
      /\ \A e \in DOMAIN r.made : e # db => m[e] = r.made[e]
      /\ m[db].state = "closed"
  <2> DEFINE x == [r.made[db] EXCEPT !.state = "closed"]
  <2>1. x \in Instances /\ x.state = "closed"
    BY <1>2 DEF Instances, States
  <2> HIDE DEF x
  <2>2. /\ m \in Seq(Instances) /\ Len(m) = Len(r.made)
        /\ \A e \in 1 .. Len(r.made) : m[e] = IF e = db THEN x ELSE r.made[e]
    BY <1>1, <1>2, <2>1, ExceptSeq DEF x
  <2>3. DOMAIN m = DOMAIN r.made
    BY <1>2, <2>2, LenProperties
  <2> QED
    BY <1>2, <2>1, <2>2, <2>3
<1>5. closed = [[r EXCEPT !.made[db].state = "closed"] EXCEPT !.got = db, !.raised = ""]
  OBVIOUS
<1> HIDE DEF m
<1>6. /\ closed \in Records /\ closed.made = m /\ closed.groups = r.groups
      /\ closed.zombies = r.zombies /\ closed.got = db /\ closed.raised = ""
  BY <1>1, <1>3, <1>4 DEF Records, Outcomes
<1>7. \A e : IsFiniteSet({}) /\ Cardinality({}) = 0 /\ Cardinality({e}) = 1
  BY FS_EmptySet, FS_Singleton
\* Whatever is listed in c was, and stays what it was but for db.
<1>8. ASSUME NEW g \in [DbUids -> Seq(Nat)], NEW n \in Records,
             n.made = m, n.zombies = r.zombies, n.groups = g,
             \A u \in DbUids : IsInjective(g[u]),
             \A u \in DbUids : \A i \in DOMAIN g[u] :
               g[u][i] # db /\ \E j \in DOMAIN r.groups[u] : g[u][i] = r.groups[u][j],
             \A u \in DbUids : \A j \in DOMAIN r.groups[u] :
               r.groups[u][j] # db => \E i \in DOMAIN g[u] : g[u][i] = r.groups[u][j]
      PROVE  Good(n)
  <2>1. ListedAreConnected(n)
    BY <1>4, <1>8 DEF Good, ListedAreConnected, IsOf
  <2>2. ListedOnce(n)
    BY <1>8 DEF ListedOnce
  <2>3. OpenAreListed(n)
    <3> SUFFICES ASSUME NEW e \in DOMAIN m, m[e].state = "open"
                 PROVE  m[e].adapter /\ \E k \in DOMAIN g[m[e].uid] : g[m[e].uid][k] = e
      BY <1>8 DEF OpenAreListed
    <3>1. e # db /\ e \in DOMAIN r.made /\ m[e] = r.made[e]
      BY <1>4
    <3>2. r.made[e].uid \in DbUids
      <4>1. r.made[e] \in Instances
        BY <1>1, <1>2, <3>1, ElementOfSeq
      <4> QED
        BY <4>1 DEF Instances
    <3>3. r.made[e].adapter
      BY <3>1 DEF Good, OpenAreListed
    <3>4. PICK j \in DOMAIN r.groups[r.made[e].uid] : r.groups[r.made[e].uid][j] = e
      BY <3>1 DEF Good, OpenAreListed
    <3>5. \E i \in DOMAIN g[r.made[e].uid] : g[r.made[e].uid][i] = e
      BY <1>8, <3>1, <3>2, <3>4
    <3> QED
      BY <3>1, <3>3, <3>5
  <2>4. WaitingAreBlank(n)
    <3> SUFFICES ASSUME NEW u \in DbUids, r.zombies[u] # 0
                 PROVE  IsOf(n, r.zombies[u], u) /\ n.made[r.zombies[u]].state = "blank"
      BY <1>8 DEF WaitingAreBlank
    <3>1. /\ r.zombies[u] \in DOMAIN r.made /\ r.made[r.zombies[u]].uid = u
          /\ r.made[r.zombies[u]].state = "blank"
      BY DEF Good, WaitingAreBlank, IsOf
    <3>2. r.zombies[u] # db
      BY <3>1
    <3> QED
      BY <1>4, <1>8, <3>1, <3>2 DEF IsOf
  <2> QED
    BY <1>8, <2>1, <2>2, <2>3, <2>4 DEF Good
<1>9. \A u \in DbUids : \A i \in DOMAIN r.groups[u] : r.groups[u][i] = db => u = uid
  BY DEF Good, ListedAreConnected, IsOf, uid
<1>10. ASSUME db \notin Range(r.groups[uid])
       PROVE  db \notin Listed1(r)
  BY <1>9, <1>10, InListed DEF Range
<1>11. ASSUME NEW n \in Records, n.made = m, n.zombies = r.zombies, n.groups = r.groups,
              db \notin Range(r.groups[uid])
       PROVE  Good(n)
  <2>1. \A u \in DbUids : \A i \in DOMAIN r.groups[u] : r.groups[u][i] # db
    BY <1>9, <1>11 DEF Range
  <2>2. \A u \in DbUids : IsInjective(r.groups[u])
    BY DEF Good, ListedOnce
  <2> QED
    BY <1>1, <1>8, <1>11, <2>1, <2>2
<1>12. ASSUME NEW n, n.groups = r.groups, n.raised = "" => n.got \notin Listed1(r)
       PROVE  Parted(r, n)
  <2>1. Listed1(n) = Listed1(r)
    BY <1>12 DEF Listed1
  <2>2. Listed1(r) \ Listed1(n) = {}
    BY <2>1
  <2> QED
    BY <1>7, <1>12, <2>2 DEF Parted
<1>13. CASE ~ r.made[db].adapter
  <2>1. c = [r EXCEPT !.raised = "no adapter", !.got = 0]
    BY <1>13 DEF close, Raising
  <2> HIDE DEF c
  <2>2. /\ c \in Records /\ c.made = r.made /\ c.groups = r.groups /\ c.zombies = r.zombies
        /\ c.raised = "no adapter"
    BY <1>1, <2>1 DEF Records, Outcomes
  <2>3. Good(c)
    BY <2>2, SameGood
  <2>4. Parted(r, c)
    BY <1>12, <2>2
  <2> QED
    BY <2>3, <2>4 DEF c
<1>14. CASE r.made[db].adapter /\ r.groups[uid] = <<>>
  <2>1. c = closed
    BY <1>5, <1>14 DEF close, uid
  <2>2. db \notin Range(r.groups[uid])
    BY <1>14 DEF Range
  <2> HIDE DEF c, closed
  <2>3. Good(c)
    BY <1>6, <1>11, <2>1, <2>2
  <2>4. Parted(r, c)
    BY <1>6, <1>10, <1>12, <2>1, <2>2
  <2> QED
    BY <2>3, <2>4 DEF c
<1>15. CASE r.made[db].adapter /\ r.groups[uid] # <<>> /\ db \notin Range(r.groups[uid])
  <2>1. c = [closed EXCEPT !.raised = "not in list", !.got = 0]
    BY <1>5, <1>15 DEF close, Raising, uid
  <2> HIDE DEF c, closed
  <2>2. /\ c \in Records /\ c.made = m /\ c.groups = r.groups /\ c.zombies = r.zombies
        /\ c.raised = "not in list"
    BY <1>6, <2>1 DEF Records, Outcomes
  <2>3. Good(c)
    BY <1>11, <1>15, <2>2
  <2>4. Parted(r, c)
    BY <1>12, <2>2
  <2> QED
    BY <2>3, <2>4 DEF c
<1>16. CASE r.made[db].adapter /\ db \in Range(r.groups[uid])
  <2> DEFINE g == [r.groups EXCEPT ![uid] = RemoveFirst(@, db)]
  <2>1. r.groups[uid] # <<>>
    BY <1>16 DEF Range
  <2>2. c = [closed EXCEPT !.groups = [r.groups EXCEPT ![uid] = RemoveFirst(@, db)]]
    BY <1>5, <1>6, <1>16, <2>1 DEF close, uid
  <2>3. PICK k \in DOMAIN r.groups[uid] : r.groups[uid][k] = db
    BY <1>16 DEF Range
  <2>4. r.groups[uid] \in Seq(Nat) /\ IsInjective(r.groups[uid])
    BY <1>1, <1>3 DEF Good, ListedOnce
  <2> DEFINE l == RemoveFirst(r.groups[uid], db)
  <2>5. /\ l \in Seq(Nat) /\ IsInjective(l)
        /\ \A i \in DOMAIN l : \E j \in DOMAIN r.groups[uid] : j # k /\ l[i] = r.groups[uid][j]
        /\ \A j \in DOMAIN r.groups[uid] : j # k => \E i \in DOMAIN l : l[i] = r.groups[uid][j]
    BY <2>3, <2>4, RemoveOnce
  <2> HIDE DEF l
  <2>6. g \in [DbUids -> Seq(Nat)] /\ g[uid] = l /\ \A u \in DbUids : u # uid => g[u] = r.groups[u]
    BY <1>1, <1>3, <2>5 DEF l
  <2> HIDE DEF g, c, closed
  <2>7. /\ c \in Records /\ c.made = m /\ c.groups = g /\ c.zombies = r.zombies
        /\ c.raised = "" /\ c.got = db
    BY <1>6, <2>2, <2>6 DEF Records, g
  <2>8. \A u \in DbUids : IsInjective(g[u])
    BY <2>5, <2>6 DEF Good, ListedOnce
  <2>9. ASSUME NEW u \in DbUids, NEW i \in DOMAIN g[u]
        PROVE  g[u][i] # db /\ \E j \in DOMAIN r.groups[u] : g[u][i] = r.groups[u][j]
    <3>1. CASE u = uid
      <4>1. PICK j \in DOMAIN r.groups[uid] : j # k /\ l[i] = r.groups[uid][j]
        BY <2>5, <2>6, <3>1
      <4>2. r.groups[uid][j] # db
        BY <2>3, <2>4, <4>1 DEF IsInjective
      <4> QED
        BY <2>6, <3>1, <4>1, <4>2
    <3>2. CASE u # uid
      BY <1>9, <2>6, <3>2
    <3> QED
      BY <3>1, <3>2
  <2>10. ASSUME NEW u \in DbUids, NEW j \in DOMAIN r.groups[u], r.groups[u][j] # db
         PROVE  \E i \in DOMAIN g[u] : g[u][i] = r.groups[u][j]
    <3>1. CASE u = uid
      BY <2>3, <2>5, <2>6, <2>10, <3>1
    <3>2. CASE u # uid
      BY <2>6, <3>2
    <3> QED
      BY <3>1, <3>2
  <2>11. Good(c)
    BY <1>8, <2>6, <2>7, <2>8, <2>9, <2>10
  <2>12. db \in Listed1(r)
    BY <1>3, <2>3, InListed
  <2>13. ASSUME NEW e PROVE e \in Listed1(r) \ Listed1(c) <=> e = db
    <3>1. e \in Listed1(r) <=> \E u \in DbUids : \E i \in DOMAIN r.groups[u] : r.groups[u][i] = e
      BY InListed
    <3>2. e \in Listed1(c) <=> \E u \in DbUids : \E i \in DOMAIN c.groups[u] : c.groups[u][i] = e
      BY InListed
    <3>3. e \in Listed1(c) <=> \E u \in DbUids : \E i \in DOMAIN g[u] : g[u][i] = e
      BY <2>7, <3>2
    <3>4. e = db => e \notin Listed1(c)
      BY <2>9, <3>3
    <3>5. e # db /\ e \in Listed1(r) => e \in Listed1(c)
      BY <2>10, <3>1, <3>3
    <3> QED
      BY <2>12, <3>4, <3>5
  <2>14. Listed1(r) \ Listed1(c) = {db}
    BY <2>13
  <2>15. Parted(r, c)
    BY <1>7, <2>7, <2>12, <2>14 DEF Parted
  <2> QED
    BY <2>11, <2>15 DEF c
<1> QED
  BY <1>13, <1>14, <1>15, <1>16

\* get_instances changes nothing, whether it raises or not.
LEMMA GetGood ==
  ASSUME NEW r, Good(r)
  PROVE  Good(get_instances(r))
<1> DEFINE n == get_instances(r)
<1>1. r \in Records
  BY DEF Good
<1>2. \/ n = [[r EXCEPT !.raised = "no adapter"] EXCEPT !.got = 0]
      \/ n = [[r EXCEPT !.raised = ""] EXCEPT !.got = 0]
  BY DEF get_instances, Raising
<1> HIDE DEF n
<1>3. n \in Records
  <2>1. CASE n = [[r EXCEPT !.raised = "no adapter"] EXCEPT !.got = 0]
    BY <1>1, <2>1 DEF Records, Outcomes
  <2>2. CASE n = [[r EXCEPT !.raised = ""] EXCEPT !.got = 0]
    BY <1>1, <2>2 DEF Records, Outcomes
  <2> QED
    BY <1>2, <2>1, <2>2
<1>4. n.made = r.made /\ n.groups = r.groups /\ n.zombies = r.zombies
  BY <1>1, <1>2 DEF Records
<1>5. Good(n)
  BY <1>3, <1>4, SameGood
<1> QED
  BY <1>5 DEF n

\* close_all_instances closes what is listed; as all that is open is, and has
\* an adapter, nothing stays open.
LEMMA CloseAllGood ==
  ASSUME NEW r, Good(r)
  PROVE  Good(close_all_instances(r))
<1> DEFINE n == close_all_instances(r)
           m == [db \in DOMAIN r.made |->
                   IF db \in Listed1(r) /\ r.made[db].adapter
                   THEN [r.made[db] EXCEPT !.state = "closed"] ELSE r.made[db]]
           g == [u \in DbUids |-> <<>>]
           z == [u \in DbUids |-> 0]
<1>1. r \in Records /\ r.made \in Seq(Instances)
  BY DEF Good, Records
<1>2. DOMAIN r.made = 1 .. Len(r.made) /\ Len(r.made) \in Nat
      /\ \A e \in 1 .. Len(r.made) : r.made[e] \in Instances
  BY <1>1, LenProperties, ElementOfSeq
<1>3. \A e \in 1 .. Len(r.made) : m[e] \in Instances
  BY <1>2 DEF Instances, States
<1>4. m \in Seq(Instances) /\ DOMAIN m = DOMAIN r.made
  <2>1. m \in [1 .. Len(r.made) -> Instances]
    BY <1>2, <1>3
  <2> HIDE DEF m
  <2>2. m \in Seq(Instances)
    BY <1>2, <2>1
  <2> QED
    BY <1>2, <2>1, <2>2
<1>5. \A e \in DOMAIN m : m[e].state # "open"
  <2> SUFFICES ASSUME NEW e \in DOMAIN r.made, m[e].state = "open" PROVE FALSE
    BY <1>4
  <2>1. ~ (e \in Listed1(r) /\ r.made[e].adapter)
    <3>1. [r.made[e] EXCEPT !.state = "closed"].state = "closed"
      BY <1>2 DEF Instances
    <3> QED
      BY <3>1
  <2>2. r.made[e].state = "open"
    BY <2>1
  <2>3. r.made[e].adapter
    BY <2>2 DEF Good, OpenAreListed
  <2>4. PICK i \in DOMAIN r.groups[r.made[e].uid] : r.groups[r.made[e].uid][i] = e
    BY <2>2 DEF Good, OpenAreListed
  <2>5. r.made[e].uid \in DbUids
    BY <1>2 DEF Instances
  <2>6. e \in Listed1(r)
    BY <2>4, <2>5, InListed
  <2> QED
    BY <2>1, <2>3, <2>6
<1>6. g \in [DbUids -> Seq(Nat)] /\ z \in [DbUids -> Nat] /\ IsInjective(<<>>)
  BY DEF IsInjective
<1>7. n = [r EXCEPT !.made = m, !.groups = g, !.zombies = z, !.raised = "", !.got = 0]
  BY DEF close_all_instances
<1> HIDE DEF n, m
<1>8. n \in Records /\ n.made = m /\ n.groups = g /\ n.zombies = z
  BY <1>1, <1>4, <1>6, <1>7 DEF Records, Outcomes
<1>9. Good(n)
  BY <1>5, <1>6, <1>8
     DEF Good, ListedAreConnected, ListedOnce, OpenAreListed, WaitingAreBlank
<1> QED
  BY <1>9 DEF n

----------------------------------------------------------------------------
(* Every call keeps them                                                   *)

\* What x asked of r has become of the instances in n.
Answered(x, n) ==
  /\ x.op = "unpickle" /\ n.groups[x.uid] # <<>> => n.got = Last(n.groups[x.uid])
  /\ x.op = "DAL" /\ x.zombies[x.uid] # 0 =>
       x.zombies[x.uid] \in Range(n.groups[x.uid]) /\ n.zombies[x.uid] = 0
  /\ x.op = "close" =>
       Cardinality(x.before \ Listed1(n)) = (IF n.raised = "" /\ n.got \in x.before THEN 1 ELSE 0)

InstancesInv == asked.of = "instances" => Good(answer) /\ Answered(asked.x, answer)

LEMMA NoneAreGood == Good(NoInstances)
<1> DEFINE n == NoInstances
<1>1. <<>> \in Seq(Nat) /\ <<>> \in Seq(Instances) /\ DOMAIN <<>> = {} /\ IsInjective(<<>>)
  BY EmptySeq DEF IsInjective
<1>2. n \in Records
  BY <1>1 DEF NoInstances, Records, Outcomes
<1>3. n.made = <<>> /\ \A u \in DbUids : n.groups[u] = <<>> /\ n.zombies[u] = 0
  BY DEF NoInstances
<1> HIDE DEF n
<1>4. ListedAreConnected(n) /\ ListedOnce(n)
  BY <1>1, <1>3 DEF ListedAreConnected, ListedOnce
<1>5. OpenAreListed(n) /\ WaitingAreBlank(n)
  BY <1>1, <1>3 DEF OpenAreListed, WaitingAreBlank
<1> QED
  BY <1>2, <1>4, <1>5 DEF Good, n

\* A call on what is good, whose answer is as its lemma says, keeps the invariant.
LEMMA AskedInv ==
  ASSUME NEW op, NEW uid, NEW n, Good(n), Step1(op, uid, n),
         Answered([op |-> op, uid |-> uid, before |-> Listed1(answer), zombies |-> answer.zombies], n)
  PROVE  InstancesInv'
<1> DEFINE x == [op |-> op, uid |-> uid, before |-> Listed1(answer), zombies |-> answer.zombies]
<1>1. asked' = [of |-> "instances", x |-> x] /\ answer' = n
  BY DEF Step1, Ask
<1>2. Good(n) /\ Answered(x, n)
  OBVIOUS
<1> HIDE DEF x
<1>3. asked'.x = x
  BY <1>1
<1>4. Good(answer') /\ Answered(asked'.x, answer')
  BY <1>1, <1>2, <1>3
<1> QED
  BY <1>4 DEF InstancesInv

LEMMA InstancesStep ==
  ASSUME InstancesInv, StartInstances \/ UseInstances
  PROVE  InstancesInv'
<1>1. CASE StartInstances
  <2> DEFINE x == [op |-> "start", uid |-> "", before |-> {}, zombies |-> [u \in DbUids |-> 0]]
  <2>2. asked' = [of |-> "instances", x |-> x] /\ answer' = NoInstances
    BY <1>1 DEF StartInstances, Ask
  <2>3. x.op = "start"
    OBVIOUS
  <2> HIDE DEF x
  <2>4. Answered(x, NoInstances)
    BY <2>3 DEF Answered
  <2>5. asked'.x = x
    BY <2>2
  <2>6. Good(answer') /\ Answered(asked'.x, answer')
    BY <2>2, <2>4, <2>5, NoneAreGood
  <2> QED
    BY <2>6 DEF InstancesInv
<1>2. CASE UseInstances
  <2>1. Good(answer)
    BY <1>2 DEF UseInstances, InstancesInv
  <2>2. ASSUME NEW uid \in DbUids, NEW attempts \in Attempts, NEW uris \in Uris, NEW up,
               NEW adapter \in BOOLEAN,
               Step1("DAL", uid, __init__(__new__(answer, uid), attempts, uris, up, adapter))
        PROVE  InstancesInv'
    <3> DEFINE n == __init__(__new__(answer, uid), attempts, uris, up, adapter)
    <3>1. /\ Good(n)
          /\ answer.zombies[uid] # 0 => answer.zombies[uid] \in Range(n.groups[uid]) /\ n.zombies[uid] = 0
      BY <2>1, ConnectGood
    <3>2. Step1("DAL", uid, n)
      BY <2>2
    <3> HIDE DEF n
    <3>3. Answered([op |-> "DAL", uid |-> uid, before |-> Listed1(answer), zombies |-> answer.zombies], n)
      BY <3>1 DEF Answered
    <3> QED
      BY <3>1, <3>2, <3>3, AskedInv
  <2>3. ASSUME NEW uid \in DbUids, Step1("unpickle", uid, DAL_unpickler(answer, uid))
        PROVE  InstancesInv'
    <3> DEFINE n == DAL_unpickler(answer, uid)
    <3>1. Good(n) /\ (n.groups[uid] # <<>> => n.got = Last(n.groups[uid]))
      BY <2>1, UnpickleGood
    <3>2. Step1("unpickle", uid, n)
      BY <2>3
    <3> HIDE DEF n
    <3>3. Answered([op |-> "unpickle", uid |-> uid, before |-> Listed1(answer), zombies |-> answer.zombies], n)
      BY <3>1 DEF Answered
    <3> QED
      BY <3>1, <3>2, <3>3, AskedInv
  <2>4. ASSUME NEW db \in DOMAIN answer.made, answer.made[db].state # "blank",
               Step1("close", answer.made[db].uid, close(answer, db))
        PROVE  InstancesInv'
    <3> DEFINE n == close(answer, db)
               uid == answer.made[db].uid
    <3>1. Good(n) /\ Parted(answer, n)
      BY <2>1, <2>4, CloseGood
    <3>2. Step1("close", uid, n)
      BY <2>4
    <3> HIDE DEF n, uid
    <3>3. Answered([op |-> "close", uid |-> uid, before |-> Listed1(answer), zombies |-> answer.zombies], n)
      BY <3>1 DEF Answered, Parted
    <3> QED
      BY <3>1, <3>2, <3>3, AskedInv
  <2>5. ASSUME Step1("get_instances", "", get_instances(answer))
        PROVE  InstancesInv'
    <3> DEFINE n == get_instances(answer)
    <3>1. Good(n)
      BY <2>1, GetGood
    <3>2. Step1("get_instances", "", n)
      BY <2>5
    <3> HIDE DEF n
    <3>3. Answered([op |-> "get_instances", uid |-> "", before |-> Listed1(answer), zombies |-> answer.zombies], n)
      BY DEF Answered
    <3> QED
      BY <3>1, <3>2, <3>3, AskedInv
  <2>6. ASSUME Step1("close_all_instances", "", close_all_instances(answer))
        PROVE  InstancesInv'
    <3> DEFINE n == close_all_instances(answer)
    <3>1. Good(n)
      BY <2>1, CloseAllGood
    <3>2. Step1("close_all_instances", "", n)
      BY <2>6
    <3> HIDE DEF n
    <3>3. Answered([op |-> "close_all_instances", uid |-> "", before |-> Listed1(answer),
                    zombies |-> answer.zombies], n)
      BY DEF Answered
    <3> QED
      BY <3>1, <3>2, <3>3, AskedInv
  <2> QED
    BY <1>2, <2>2, <2>3, <2>4, <2>5, <2>6 DEF UseInstances
<1> QED
  BY <1>1, <1>2

LEMMA InstancesInduction == InstancesSpec => []InstancesInv
<1>1. Idle => InstancesInv
  BY DEF Idle, InstancesInv
<1>2. InstancesInv /\ [StartInstances \/ UseInstances]_calls => InstancesInv'
  <2>1. InstancesInv /\ UNCHANGED calls => InstancesInv'
    BY DEF InstancesInv, calls
  <2> QED
    BY <2>1, InstancesStep
<1> QED
  BY <1>1, <1>2, PTL DEF InstancesSpec

LEMMA OpenOnesListed == InstancesInv => OpenOnesAreListed
<1> SUFFICES ASSUME Good(answer)
             PROVE  /\ \A u \in DbUids : IsInjective(answer.groups[u]) /\ \A db \in Range(answer.groups[u]) : answer.made[db].uid = u
                    /\ \A db \in DOMAIN answer.made : answer.made[db].state = "open" => db \in Listed1(answer)
                    /\ \A db \in Listed1(answer) : answer.made[db].state \in {"open", "failed"}
  BY DEF InstancesInv, OpenOnesAreListed
<1>1. ASSUME NEW u \in DbUids, NEW db \in Range(answer.groups[u])
      PROVE  answer.made[db].uid = u
  BY <1>1 DEF Range, Good, ListedAreConnected, IsOf
<1>2. ASSUME NEW u \in DbUids PROVE IsInjective(answer.groups[u])
  BY <1>2 DEF Good, ListedOnce
<1>3. ASSUME NEW db \in DOMAIN answer.made, answer.made[db].state = "open"
      PROVE  db \in Listed1(answer)
  <2>1. answer.made \in Seq(Instances)
    BY DEF Good, Records
  <2>2. answer.made[db] \in Instances
    BY <1>3, <2>1, LenProperties, ElementOfSeq
  <2>3. answer.made[db].uid \in DbUids
    BY <2>2 DEF Instances
  <2>4. PICK i \in DOMAIN answer.groups[answer.made[db].uid] : answer.groups[answer.made[db].uid][i] = db
    BY <1>3 DEF Good, OpenAreListed
  <2> QED
    BY <2>3, <2>4, InListed
<1>4. ASSUME NEW db \in Listed1(answer) PROVE answer.made[db].state \in {"open", "failed"}
  <2>1. PICK u \in DbUids : \E i \in DOMAIN answer.groups[u] : answer.groups[u][i] = db
    BY <1>4, InListed
  <2> QED
    BY <2>1 DEF Good, ListedAreConnected
<1> QED
  BY <1>1, <1>2, <1>3, <1>4

LEMMA UnpickledConnected == InstancesInv => UnpickledIsConnected
<1> SUFFICES ASSUME asked.of = "instances", Good(answer), Answered(asked.x, answer)
             PROVE  UnpickledIsConnected
  BY DEF InstancesInv, UnpickledIsConnected
<1>1. \A u \in DbUids : answer.zombies[u] = 0 \/ answer.made[answer.zombies[u]].state = "blank"
  BY DEF Good, WaitingAreBlank
<1> QED
  BY <1>1 DEF Answered, UnpickledIsConnected

LEMMA OthersOpen == InstancesInv => OthersStayOpen
BY DEF InstancesInv, Answered, OthersStayOpen

----------------------------------------------------------------------------
(* The theorems                                                            *)

\* Whatever an application makes, unpickles and closes, the list of a database
\* holds its open instances, each once (DAL.__new__, __init__, close and
\* close_all_instances): close_all_instances and get_instances miss none of them.
THEOREM OpenInstancesAreListed == InstancesSpec => []OpenOnesAreListed
BY OpenOnesListed, InstancesInduction, PTL

\* A pickled instance comes back as the one its database has now, or as the one
\* that its next DAL(...) connects (DAL_unpickler, __new__): no thread holds two.
THEOREM UnpickledInstancesConnect == InstancesSpec => []UnpickledIsConnected
BY UnpickledConnected, InstancesInduction, PTL

\* close takes the instance it is called on off its list and no other; called
\* again it takes none (close of connection.py and of DAL).
THEOREM ClosesOneAtMost == InstancesSpec => []OthersStayOpen
BY OthersOpen, InstancesInduction, PTL

----------------------------------------------------------------------------
(* A value bound or written out                                            *)

LEMMA Constructed ==
  /\ \A v : Ok(v).value = v /\ ~ Ok(v).error
  /\ Err.error
  /\ \A n : Num(n).k = "int" /\ Float(n).k = "float" /\ Str(n).k = "text"
  /\ \A d, t, us : Stamp(d, t, us).k = "stamp"
BY DEF Ok, Err, Num, Float, Str, Stamp

\* ToInt gives an integer, which it gives back.
LEMMA ToIntTwice ==
  ASSUME NEW v, ~ ToInt(v).error
  PROVE  ToInt(ToInt(v).value) = ToInt(v) /\ ToInt(v).value.k # "float"
<1>1. ASSUME NEW w, w.k = "int" PROVE ToInt(w) = Ok(w) /\ ToInt(ToInt(w).value) = ToInt(w) /\ ToInt(w).value.k # "float"
  <2>1. ToInt(w) = Ok(w)
    BY <1>1 DEF ToInt, Numeral
  <2> QED
    BY <1>1, <2>1, Constructed
<1>2. ASSUME NEW n, ToInt(v) = Ok(Num(n))
      PROVE  ToInt(ToInt(v).value) = ToInt(v) /\ ToInt(v).value.k # "float"
  <2>1. ToInt(Num(n)) = Ok(Num(n)) /\ ToInt(v).value = Num(n) /\ Num(n).k = "int"
    BY <1>1, <1>2, Constructed
  <2> QED
    BY <1>2, <2>1
<1>3. CASE v.k = "int"
  BY <1>1, <1>3
<1>4. CASE v.k = "bool"
  <2>1. ToInt(v) = Ok(Num(IF v.b THEN 1 ELSE 0))
    BY <1>4 DEF ToInt, Numeral
  <2> QED
    BY <1>2, <2>1
<1>5. CASE v.k = "float"
  <2>1. ToInt(v) = Ok(Num(v.half \div 2))
    BY <1>5 DEF ToInt, Numeral
  <2> QED
    BY <1>2, <2>1
<1>6. CASE Numeral(v)
  <2>1. v.k = "text"
    BY <1>6 DEF Numeral
  <2>2. ToInt(v) = Ok(Num(NumeralOf(v)))
    BY <1>6, <2>1 DEF ToInt
  <2> QED
    BY <1>2, <2>2
<1>7. CASE v.k # "int" /\ v.k # "bool" /\ v.k # "float" /\ ~ Numeral(v)
  <2>1. ToInt(v) = Err
    BY <1>7 DEF ToInt
  <2> QED
    BY <2>1, Constructed
<1> QED
  BY <1>3, <1>4, <1>5, <1>6, <1>7

LEMMA ToFloatTwice ==
  ASSUME NEW v, ~ ToFloat(v).error
  PROVE  /\ ToFloat(ToFloat(v).value) = ToFloat(v) /\ ToFloat(v).value.k = "float"
         /\ v.k = "float" => ToFloat(v).value = v
<1>1. \A w : w.k = "float" => ToFloat(w) = Ok(w)
  BY DEF ToFloat
<1>2. CASE v.k = "float"
  BY <1>1, <1>2, Constructed
<1>3. CASE v.k # "float"
  <2>1. ToFloat(v) = Ok(Float(2 * ToInt(v).value.n))
    BY <1>3 DEF ToFloat
  <2> DEFINE w == Float(2 * ToInt(v).value.n)
  <2>2. w.k = "float"
    BY Constructed
  <2>3. ToFloat(v) = Ok(w)
    BY <2>1
  <2> HIDE DEF w
  <2>4. ToFloat(w) = Ok(w) /\ ToFloat(v).value = w
    BY <1>1, <2>2, <2>3, Constructed
  <2> QED
    BY <1>3, <2>2, <2>3, <2>4
<1> QED
  BY <1>2, <1>3

\* The bound value of each type, and what is written out of it.
LEMMA BindOrWrite ==
  ASSUME NEW w, NEW type, w # None, w # Str("")
  PROVE  LET b == _adapt_for_bind(w, type)
             r == represent(w, type)
         IN  /\ type \in {"string", "text", "password", "date", "time", "datetime"} => b = Ok(StrOf(w)) /\ r = Ok(StrOf(w))
             /\ type \in {"id", "reference"} => b = ToInt(w) /\ r = ToInt(w)
             /\ type = "boolean" => b = r
             /\ type = "integer" => b = Ok(w) /\ r = ToInt(w)
             /\ type = "double" => b = Ok(w) /\ r = ToFloat(w)
<1>1. ~ Nulled(w, type)
  BY DEF Nulled
<1>2. CASE type \in {"string", "text", "password"}
  BY <1>1, <1>2 DEF _adapt_for_bind, represent
<1>3. CASE type \in {"date", "time", "datetime"}
  BY <1>1, <1>3 DEF _adapt_for_bind, represent
<1>4. CASE type \in {"id", "reference"}
  BY <1>1, <1>4 DEF _adapt_for_bind, represent
<1>5. CASE type = "boolean"
  BY <1>1, <1>5 DEF _adapt_for_bind, represent, BoundTruth
<1>6. CASE type = "integer"
  BY <1>1, <1>6 DEF _adapt_for_bind, represent
<1>7. CASE type = "double"
  BY <1>1, <1>7 DEF _adapt_for_bind, represent
<1> QED
  BY <1>2, <1>3, <1>4, <1>5, <1>6, <1>7

\* filter_in leaves all but dates and times as they are.
LEMMA Filtered ==
  ASSUME NEW v, NEW type
  PROVE  /\ type \notin {"date", "time", "datetime"} => filter_in(v, type) = Ok(v)
         /\ type \in {"date", "time", "datetime"} /\ ~ filter_in(v, type).error =>
              filter_in(v, type).value = None \/ filter_in(v, type).value.k = "stamp"
<1>1. type \notin {"date", "time", "datetime"} => filter_in(v, type) = Ok(v)
  BY DEF filter_in
<1>2. ASSUME type \in {"date", "time", "datetime"}, Empty(v) PROVE filter_in(v, type) = Ok(None)
  BY <1>2 DEF filter_in
<1>3. ASSUME type \in {"date", "time", "datetime"}, ~ Empty(v)
      PROVE  filter_in(v, type) = Err \/ \E d, t, us : filter_in(v, type) = Ok(Stamp(d, t, us))
  <2>1. CASE type = "date"
    BY <1>3, <2>1 DEF filter_in
  <2>2. CASE type = "time"
    BY <1>3, <2>2 DEF filter_in
  <2>3. CASE type = "datetime"
    BY <1>3, <2>3 DEF filter_in
  <2> QED
    BY <1>3, <2>1, <2>2, <2>3
<1>4. type \in {"date", "time", "datetime"} /\ ~ filter_in(v, type).error =>
        filter_in(v, type).value = None \/ filter_in(v, type).value.k = "stamp"
  <2>1. CASE type \in {"date", "time", "datetime"} /\ Empty(v)
    BY <1>2, <2>1, Constructed
  <2>2. CASE type \in {"date", "time", "datetime"} /\ ~ Empty(v)
    BY <1>3, <2>2, Constructed
  <2> QED
    BY <2>1, <2>2
<1> QED
  BY <1>1, <1>4

LEMMA BoundAsLiteral ==
  ASSUME NEW v, NEW type, ~ Stored(v, type, FALSE).error, v # Str(""),
         ~ (v.k = "float" /\ type = "integer")
  PROVE  Stored(v, type, TRUE) = Stored(v, type, FALSE)
<1> DEFINE in == filter_in(v, type)
           w == in.value
           b == _adapt_for_bind(w, type)
           r == represent(w, type)
<1>1. CASE in.error \/ w = None \/ type \notin Parameterizable
  BY <1>1 DEF Stored
<1>2. CASE ~ in.error /\ w # None /\ type \in Parameterizable
  <2>1. /\ Stored(v, type, TRUE) = IF b.error THEN Err ELSE Ok(Affinity(b.value, type))
        /\ Stored(v, type, FALSE) = IF r.error THEN Err ELSE Ok(Affinity(r.value, type))
    BY <1>2 DEF Stored
  <2>2. type \notin {"date", "time", "datetime"} => w = v
    <3>1. type \notin {"date", "time", "datetime"} => in = Ok(v)
      BY Filtered
    <3> HIDE DEF in
    <3> QED
      BY <3>1, Constructed
  <2>3. type \in {"date", "time", "datetime"} => w.k = "stamp"
    BY <1>2, Filtered
  <2>4. w # Str("")
    BY <2>2, <2>3, Constructed
  <2>5. ~ r.error
    BY <2>1, Constructed
  <2>6. /\ type \in {"string", "text", "password", "date", "time", "datetime", "id", "reference", "boolean"} => b = r
        /\ type = "integer" => b = Ok(w) /\ r = ToInt(w)
        /\ type = "double" => b = Ok(w) /\ r = ToFloat(w)
    BY <1>2, <2>4, BindOrWrite
  <2> HIDE DEF w, in, b, r
  <2>7. CASE b = r
    <3>1. b.value = r.value /\ ~ b.error
      BY <2>5, <2>7
    <3> QED
      BY <2>1, <2>5, <3>1
  <2>8. CASE type = "integer"
    <3>1. b.value = w /\ ~ b.error /\ r = ToInt(w) /\ w = v
      BY <2>2, <2>6, <2>8, Constructed
    <3>2. ToInt(r.value) = r /\ r.value.k # "float"
      BY <2>5, <3>1, ToIntTwice
    <3>3. Affinity(r.value, type) = r.value
      BY <2>5, <2>8, <3>2 DEF Affinity
    <3>4. Affinity(w, type) = r.value
      BY <2>5, <2>8, <3>1 DEF Affinity
    <3> QED
      BY <2>1, <2>5, <3>1, <3>3, <3>4
  <2>9. CASE type = "double"
    <3>1. b.value = w /\ ~ b.error /\ r = ToFloat(w)
      BY <2>6, <2>9, Constructed
    <3>2. ToFloat(r.value) = r /\ (w.k = "float" => r.value = w)
      BY <2>5, <3>1, ToFloatTwice
    <3>3. Affinity(r.value, type) = r.value
      BY <2>5, <2>9, <3>2 DEF Affinity
    <3>4. Affinity(w, type) = r.value
      BY <2>5, <2>9, <3>1, <3>2 DEF Affinity
    <3> QED
      BY <2>1, <2>5, <3>1, <3>3, <3>4
  <2> QED
    BY <1>2, <2>6, <2>7, <2>8, <2>9 DEF Parameterizable
<1> QED
  BY <1>1, <1>2

----------------------------------------------------------------------------
(* Shortcuts of a table                                                    *)

LEMMA AtMostOne ==
  ASSUME NEW S, \A a, b \in S : a = b
  PROVE  IsFiniteSet(S) /\ Cardinality(S) <= 1 /\ (Cardinality(S) = 0 => S = {})
<1>1. CASE S = {}
  BY <1>1, FS_EmptySet
<1>2. CASE S # {}
  <2>1. PICK a \in S : S = {a}
    BY <1>2
  <2>2. IsFiniteSet({a}) /\ Cardinality({a}) = 1
    BY FS_Singleton
  <2> QED
    BY <1>2, <2>1, <2>2
<1> QED
  BY <1>1, <1>2

\* The call has written, added or taken one record, or raised and done nothing.
OneWritten(table, o) ==
  \/ /\ ~ o.raised /\ Cardinality(table \ o.table) <= 1 /\ Cardinality(o.table \ table) <= 1
     /\ o.wrote = 0 => (table \ o.table) \cup (o.table \ table) = {}
  \/ o.raised /\ (table \ o.table) \cup (o.table \ table) = {}

LEMMA NoneIsWritten ==
  ASSUME NEW table
  PROVE  OneWritten(table, Raises(table)) /\ OneWritten(table, Came(table, 0))
<1>1. Cardinality(table \ table) <= 1 /\ table \ table = {}
  BY FS_EmptySet
<1> QED
  BY <1>1 DEF OneWritten, Raises, Came

LEMMA InsertOne ==
  ASSUME NEW shape, NEW table, NEW values
  PROVE  OneWritten(table, insert1(shape, table, values))
<1> DEFINE r == NewRow(shape, table, values)
<1>1. CASE insert1(shape, table, values) = Raises(table)
  BY <1>1, NoneIsWritten
<1>2. CASE insert1(shape, table, values) = Came(table \cup {r}, 1)
  <2> HIDE DEF r
  <2>1. Cardinality(table \ (table \cup {r})) <= 1
    BY AtMostOne
  <2>2. Cardinality((table \cup {r}) \ table) <= 1
    BY AtMostOne
  <2> DEFINE o == Came(table \cup {r}, 1)
  <2>3. ~ o.raised /\ o.table = table \cup {r} /\ o.wrote = 1
    BY DEF Came
  <2> HIDE DEF o
  <2>4. OneWritten(table, o)
    BY <2>1, <2>2, <2>3 DEF OneWritten
  <2> QED
    BY <1>2, <2>4 DEF o, r
<1> QED
  BY <1>1, <1>2 DEF insert1

LEMMA UpdateOne ==
  ASSUME NEW shape, NEW table, NEW rows \in SUBSET table, NEW values, \A a, b \in rows : a = b
  PROVE  OneWritten(table, update1(shape, table, rows, values))
<1> DEFINE after == Written1(table, rows, values)
<1>1. CASE update1(shape, table, rows, values) = Raises(table)
  BY <1>1, NoneIsWritten
<1>2. CASE update1(shape, table, rows, values) = Came(after, Cardinality(rows))
  <2>1. \A a \in table \ after : a \in rows
    BY DEF Written1
  <2>2. \A a \in after \ table : \E r \in rows : a = Over1(r, values)
    BY DEF Written1
  <2>3. rows = {} => after = table
    BY DEF Written1
  <2> HIDE DEF after
  <2>4. Cardinality(table \ after) <= 1
    BY <2>1, AtMostOne
  <2>5. Cardinality(after \ table) <= 1
    <3>1. \A a, b \in after \ table : a = b
      BY <2>2
    <3> QED
      BY <3>1, AtMostOne
  <2>6. Cardinality(rows) = 0 => rows = {}
    BY AtMostOne
  <2> DEFINE o == Came(after, Cardinality(rows))
  <2>7. ~ o.raised /\ o.table = after /\ o.wrote = Cardinality(rows)
    BY DEF Came
  <2> HIDE DEF o
  <2>8. o.wrote = 0 => (table \ o.table) \cup (o.table \ table) = {}
    BY <2>3, <2>6, <2>7
  <2>9. OneWritten(table, o)
    BY <2>4, <2>5, <2>7, <2>8 DEF OneWritten
  <2> QED
    BY <1>2, <2>9 DEF o
<1> QED
  BY <1>1, <1>2 DEF update1

\* In a table with ids one record has an id, in others one has all of a key.
LEMMA OneHasTheKey ==
  ASSUME NEW shape \in Shapes, NEW table \in TablesOf(shape), NEW values, shape.keys \subseteq DOMAIN values
  PROVE  Having(table, values) \in SUBSET table /\ \A a, b \in Having(table, values) : a = b
<1>1. ASSUME NEW a \in Having(table, values), NEW b \in Having(table, values) PROVE a = b
  <2>1. a \in table /\ b \in table
    BY DEF Having
  <2>2. \A f \in DOMAIN values : a[f] = values[f] /\ b[f] = values[f]
    BY DEF Having, Agrees
  <2> QED
    BY <2>1, <2>2, KeysAssumption
<1> QED
  BY <1>1 DEF Having

LEMMA OneHasTheId ==
  ASSUME NEW shape \in Shapes, NEW table \in TablesOf(shape), ~ Keyed(shape), NEW i
  PROVE  Having(table, [id |-> i]) \in SUBSET table /\ \A a, b \in Having(table, [id |-> i]) : a = b
<1>1. shape.keys \subseteq DOMAIN [id |-> i]
  BY KeysAssumption
<1> QED
  BY <1>1, OneHasTheKey

LEMMA SetItemOne ==
  ASSUME NEW shape \in Shapes, NEW table \in TablesOf(shape), NEW key \in KeysOf(shape), NEW values
  PROVE  OneWritten(table, __setitem__(shape, table, key, values))
<1>1. CASE key.by = "none"
  <2>1. __setitem__(shape, table, key, values) = insert1(shape, table, WithoutId(values))
    BY <1>1 DEF __setitem__
  <2> QED
    BY <2>1, InsertOne
<1>2. CASE key.by = "id"
  <2> DEFINE o == update1(shape, table, Having(table, key.values), WithoutId(values))
  <2>1. __setitem__(shape, table, key, values) = IF o.wrote = 0 THEN Raises(table) ELSE o
    BY <1>2 DEF __setitem__
  <2>2. OneWritten(table, o)
    <3>1. shape.keys \subseteq DOMAIN key.values
      BY <1>2, KeysAssumption
    <3>2. Having(table, key.values) \in SUBSET table /\ \A a, b \in Having(table, key.values) : a = b
      BY <3>1, OneHasTheKey
    <3> QED
      BY <3>2, UpdateOne
  <2> QED
    BY <2>1, <2>2, NoneIsWritten
<1>3. CASE key.by # "none" /\ key.by # "id"
  <2>1. \/ __setitem__(shape, table, key, values) = insert1(shape, table, Beside(key.values, WithoutId(values)))
        \/ __setitem__(shape, table, key, values) = Raises(table)
    BY <1>3 DEF __setitem__
  <2> QED
    BY <2>1, InsertOne, NoneIsWritten
<1> QED
  BY <1>1, <1>2, <1>3

\* Of a keyed table all that have the given part of a key are deleted.
LEMMA DeleteOne ==
  ASSUME NEW shape \in Shapes, NEW table \in TablesOf(shape), NEW key \in KeysOf(shape)
  PROVE  \/ OneWritten(table, __delitem__(shape, table, key))
         \/ Keyed(shape) /\ DOMAIN key.values # shape.keys
<1> DEFINE rows == Having(table, key.values)
<1>1. CASE __delitem__(shape, table, key) = Raises(table)
  BY <1>1, NoneIsWritten
<1>2. ASSUME __delitem__(shape, table, key) = Came(table \ rows, Cardinality(rows)), rows # {},
             key.by \in {"id", "dict"}, DOMAIN key.values \subseteq shape.keys,
             key.by = "dict" => Keyed(shape), ~ (Keyed(shape) /\ DOMAIN key.values # shape.keys)
      PROVE  OneWritten(table, __delitem__(shape, table, key))
  <2>1. shape.keys \subseteq DOMAIN key.values
    BY <1>2, KeysAssumption
  <2>2. rows \in SUBSET table /\ \A a, b \in rows : a = b
    BY <2>1, OneHasTheKey
  <2>3. IsFiniteSet(rows) /\ Cardinality(rows) <= 1 /\ (Cardinality(rows) = 0 => rows = {})
    BY <2>2, AtMostOne
  <2> HIDE DEF rows
  <2> DEFINE o == Came(table \ rows, Cardinality(rows))
  <2>4. ~ o.raised /\ o.table = table \ rows /\ o.wrote = Cardinality(rows)
    BY DEF Came
  <2>5. table \ (table \ rows) = rows /\ (table \ rows) \ table = {}
    BY <2>2
  <2>6. Cardinality((table \ rows) \ table) <= 1
    BY <2>5, FS_EmptySet
  <2>7. Cardinality(rows) # 0
    BY <1>2, <2>3
  <2> HIDE DEF o
  <2>8. OneWritten(table, o)
    BY <2>3, <2>4, <2>5, <2>6, <2>7 DEF OneWritten
  <2> QED
    BY <1>2, <2>8 DEF o
<1> QED
  BY <1>1, <1>2 DEF __delitem__

LEMMA UpdateOrInsertOne ==
  ASSUME NEW shape \in Shapes, NEW table \in TablesOf(shape), NEW key, NEW values,
         NEW o \in update_or_insert(shape, table, key, values)
  PROVE  OneWritten(table, o)
<1>1. PICK r \in (IF key.by = "none" THEN LookedUp1(table, NoKey, values) ELSE Sought(table, key)) :
        o = IF r = Nobody THEN insert1(shape, table, values)
            ELSE IF Keyed(shape) THEN Raises(table)
            ELSE update1(shape, table, Having(table, [id |-> r[1].id]), WithoutId(IF DOMAIN values = {} THEN r[1] ELSE values))
  BY DEF update_or_insert
<1>2. CASE r = Nobody
  BY <1>1, <1>2, InsertOne
<1>3. CASE r # Nobody /\ Keyed(shape)
  BY <1>1, <1>3, NoneIsWritten
<1>4. CASE r # Nobody /\ ~ Keyed(shape)
  <2> DEFINE i == r[1].id
             v == WithoutId(IF DOMAIN values = {} THEN r[1] ELSE values)
  <2>1. o = update1(shape, table, Having(table, [id |-> i]), v)
    BY <1>1, <1>4
  <2> HIDE DEF i, v
  <2>2. Having(table, [id |-> i]) \in SUBSET table /\ \A a, b \in Having(table, [id |-> i]) : a = b
    BY <1>4, OneHasTheId
  <2> QED
    BY <2>1, <2>2, UpdateOne
<1> QED
  BY <1>2, <1>3, <1>4

LEMMA ValidateOne ==
  ASSUME NEW shape \in Shapes, NEW table \in TablesOf(shape), ~ Keyed(shape), NEW given, NEW values,
         NEW o \in validate_and_update_or_insert(shape, table, given, values)
  PROVE  OneWritten(table, o)
<1> DEFINE own == [f \in DOMAIN values \cap shape.keys |-> values[f]]
           key == IF given.by # "none" THEN given ELSE Key("dict", own)
<1>1. CASE o = Raises(table)
  BY <1>1, NoneIsWritten
<1>2. CASE o # Raises(table)
  <2>1. o \in UNION {IF r = Nobody THEN {validate_and_insert1(shape, table, values)}
                     ELSE validate_and_update1(shape, table, key, values) : r \in Sought(table, key)}
    BY <1>2 DEF validate_and_update_or_insert
  <2> HIDE DEF key
  <2>2. o = validate_and_insert1(shape, table, values) \/ o \in validate_and_update1(shape, table, key, values)
    BY <2>1
  <2>3. CASE o = validate_and_insert1(shape, table, values)
    BY <2>3, InsertOne, NoneIsWritten DEF validate_and_insert1
  <2>4. CASE o \in validate_and_update1(shape, table, key, values)
    <3>1. PICK r \in Sought(table, key) :
            o = LET rows == IF Keyed(shape) THEN Having(table, key.values) ELSE Having(table, [id |-> r[1].id])
                    u == update1(shape, table, rows, values)
                IN IF r = Nobody \/ Errors(shape, values, FALSE) # {}
                   THEN IF r # Nobody /\ Keyed(shape) THEN Raises(table) ELSE Came(table, 0)
                   ELSE IF Keyed(shape) THEN Raises(u.table) ELSE u
      BY <2>4 DEF validate_and_update1
    <3> DEFINE i == r[1].id
    <3>2. o = Came(table, 0) \/ o = update1(shape, table, Having(table, [id |-> i]), values)
      BY <3>1
    <3> HIDE DEF i
    <3>3. Having(table, [id |-> i]) \in SUBSET table /\ \A a, b \in Having(table, [id |-> i]) : a = b
      BY OneHasTheId
    <3>4. OneWritten(table, update1(shape, table, Having(table, [id |-> i]), values))
      BY <3>3, UpdateOne
    <3> QED
      BY <3>2, <3>4, NoneIsWritten
  <2> QED
    BY <2>2, <2>3, <2>4
<1> QED
  BY <1>1, <1>2

\* What was said is in the table after a call that says it wrote one record, and
\* a record that the key found beforehand is not joined by another.
SaidIsThere(table, key, said, o) ==
  ~ o.raised /\ o.wrote = 1 =>
     /\ \E r \in o.table : \A f \in DOMAIN said : f # "id" => r[f] = said[f]
     /\ key.by \in {"id", "dict", "query"} /\ Having(table, key.values) # {} => Cardinality(o.table) = Cardinality(table)

LEMMA NothingSaid ==
  ASSUME NEW table, NEW t, NEW key, NEW said
  PROVE  SaidIsThere(table, key, said, Raises(t)) /\ SaidIsThere(table, key, said, Came(t, 0))
BY DEF SaidIsThere, Raises, Came

\* An inserted record has the values it was given.
LEMMA InsertedIsThere ==
  ASSUME NEW shape, NEW table, NEW values, DOMAIN values \subseteq shape.fields, NEW key, NEW said,
         \A f \in DOMAIN said : f # "id" => f \in DOMAIN values /\ values[f] = said[f],
         ~ (key.by \in {"id", "dict", "query"} /\ Having(table, key.values) # {})
  PROVE  SaidIsThere(table, key, said, insert1(shape, table, values))
<1> DEFINE r == NewRow(shape, table, values)
<1>1. CASE insert1(shape, table, values) = Raises(table)
  BY <1>1, NothingSaid
<1>2. CASE insert1(shape, table, values) = Came(table \cup {r}, 1)
  <2>1. \A f \in DOMAIN values : r[f] = values[f]
    BY DEF NewRow
  <2> HIDE DEF r
  <2>2. \A f \in DOMAIN said : f # "id" => r[f] = said[f]
    BY <2>1
  <2> DEFINE o == Came(table \cup {r}, 1)
  <2>3. r \in o.table
    BY DEF Came
  <2> HIDE DEF o
  <2>4. SaidIsThere(table, key, said, o)
    BY <2>2, <2>3 DEF SaidIsThere
  <2> QED
    BY <1>2, <2>4 DEF o
<1> QED
  BY <1>1, <1>2 DEF insert1

\* Where one record is updated and the keys stay as many, so do the records.
LEMMA AsManyRecords ==
  ASSUME NEW table, IsFiniteSet(table), NEW r \in table, NEW values, NEW shape,
         ~ (Cardinality(KeysIn(shape, Written1(table, {r}, values))) < Cardinality(table))
  PROVE  Cardinality(Written1(table, {r}, values)) = Cardinality(table)
<1> DEFINE after == Written1(table, {r}, values)
           images == KeysIn(shape, after)
<1>1. after = (table \ {r}) \cup {Over1(r, values)}
  BY DEF Written1
<1>2. IsFiniteSet(table \ {r}) /\ Cardinality(table \ {r}) = Cardinality(table) - 1
  BY FS_RemoveElement
<1>3. /\ IsFiniteSet((table \ {r}) \cup {Over1(r, values)})
      /\ \/ Cardinality((table \ {r}) \cup {Over1(r, values)}) = Cardinality(table \ {r})
         \/ Cardinality((table \ {r}) \cup {Over1(r, values)}) = Cardinality(table \ {r}) + 1
  BY <1>2, FS_AddElement
<1>4. IsFiniteSet(after) /\ (Cardinality(after) = Cardinality(table) - 1 \/ Cardinality(after) = Cardinality(table) - 1 + 1)
  BY <1>1, <1>2, <1>3
<1>5. Cardinality(table) \in Nat /\ Cardinality(after) \in Nat
  BY <1>4, FS_CardinalityType
<1> DEFINE key == [q \in after |-> [f \in shape.keys |-> q[f]]]
<1>6. IsFiniteSet(images) /\ Cardinality(images) <= Cardinality(after)
  <2>1. key \in [after -> images]
    BY DEF KeysIn
  <2>2. \A i \in images : \E q \in after : key[q] = i
    BY DEF KeysIn
  <2>3. key \in Surjection(after, images)
    <3> HIDE DEF key, images, after
    <3> QED
      BY <2>1, <2>2, Zenon DEF Surjection
  <2> HIDE DEF key, images, after
  <2>4. Surjection(after, images) # {}
    BY <2>3
  <2> QED
    BY <1>4, <2>4, FS_Surjection DEF ExistsSurjection
<1>7. Cardinality(images) \in Nat
  BY <1>6, FS_CardinalityType
<1>8. ~ (Cardinality(images) < Cardinality(table))
  OBVIOUS
<1> HIDE DEF after, images
<1>9. Cardinality(after) = Cardinality(table)
  BY <1>4, <1>5, <1>6, <1>7, <1>8
<1> QED
  BY <1>9 DEF after

\* The one record that is updated has the values it was given.
LEMMA UpdatedIsThere ==
  ASSUME NEW shape \in Shapes, NEW table \in TablesOf(shape), NEW rows \in SUBSET table, \A a, b \in rows : a = b,
         NEW values, DOMAIN values \subseteq shape.fields, NEW key, NEW said,
         \A f \in DOMAIN said : f # "id" => f \in DOMAIN values /\ values[f] = said[f]
  PROVE  SaidIsThere(table, key, said, update1(shape, table, rows, values))
<1> DEFINE after == Written1(table, rows, values)
<1>1. CASE update1(shape, table, rows, values) = Raises(table)
  BY <1>1, NothingSaid
<1>2. CASE update1(shape, table, rows, values) # Raises(table)
  <2>1. /\ update1(shape, table, rows, values) = Came(after, Cardinality(rows))
        /\ ~ (Cardinality(KeysIn(shape, after)) < Cardinality(table))
    BY <1>2 DEF update1
  <2> DEFINE o == Came(after, Cardinality(rows))
  <2>2. o.table = after /\ o.wrote = Cardinality(rows)
    BY DEF Came
  <2>3. CASE Cardinality(rows) = 1
    <3>1. rows # {}
      BY <2>3, FS_EmptySet
    <3>2. PICK r \in rows : rows = {r}
      BY <3>1
    <3>3. r \in table /\ DOMAIN r = shape.fields /\ IsFiniteSet(table)
      BY <3>2, FieldsAssumption
    <3>4. \A f \in DOMAIN values : Over1(r, values)[f] = values[f]
      BY <3>3 DEF Over1
    <3>5. Over1(r, values) \in after
      BY <3>2 DEF Written1
    <3>6. ~ (Cardinality(KeysIn(shape, Written1(table, {r}, values))) < Cardinality(table))
      BY <2>1, <3>2
    <3>7. Cardinality(Written1(table, {r}, values)) = Cardinality(table)
      BY <3>3, <3>6, AsManyRecords
    <3>8. Cardinality(after) = Cardinality(table)
      BY <3>2, <3>7
    <3> HIDE DEF after, o
    <3>9. \A f \in DOMAIN said : f # "id" => Over1(r, values)[f] = said[f]
      BY <3>4
    <3> QED
      BY <2>1, <2>2, <3>5, <3>8, <3>9 DEF SaidIsThere, o
  <2>4. CASE Cardinality(rows) # 1
    <3> HIDE DEF after, o
    <3>1. SaidIsThere(table, key, said, o)
      BY <2>2, <2>4 DEF SaidIsThere
    <3> QED
      BY <2>1, <3>1 DEF o
  <2> QED
    BY <2>3, <2>4
<1> QED
  BY <1>1, <1>2

\* Values without an id are the values, but for the id.
LEMMA ButTheId ==
  ASSUME NEW values
  PROVE  /\ DOMAIN WithoutId(values) = DOMAIN values \ {"id"}
         /\ \A f \in DOMAIN values : f # "id" => f \in DOMAIN WithoutId(values) /\ WithoutId(values)[f] = values[f]
BY DEF WithoutId

LEMMA SetItemIsThere ==
  ASSUME NEW shape \in Shapes, NEW table \in TablesOf(shape), NEW key \in KeysOf(shape), key.by \notin {"word", "query"},
         NEW values \in WrittenOf(shape)
  PROVE  SaidIsThere(table, key, IF key.by = "dict" THEN Beside(key.values, values) ELSE values, __setitem__(shape, table, key, values))
<1> DEFINE w == WithoutId(values)
           said == IF key.by = "dict" THEN Beside(key.values, values) ELSE values
<1>0. /\ DOMAIN w = DOMAIN values \ {"id"} /\ DOMAIN w \subseteq shape.fields
      /\ \A f \in DOMAIN values : f # "id" => f \in DOMAIN w /\ w[f] = values[f]
  <2>1. DOMAIN values \subseteq shape.fields
    BY FieldsAssumption
  <2>2. /\ DOMAIN w = DOMAIN values \ {"id"}
        /\ \A f \in DOMAIN values : f # "id" => f \in DOMAIN w /\ w[f] = values[f]
    BY ButTheId
  <2> HIDE DEF w
  <2> QED
    BY <2>1, <2>2
<1> HIDE DEF w
<1>1. CASE key.by = "none"
  <2>1. __setitem__(shape, table, key, values) = insert1(shape, table, w)
    BY <1>1 DEF __setitem__, w
  <2>2. SaidIsThere(table, key, values, insert1(shape, table, w))
    BY <1>0, <1>1, InsertedIsThere
  <2> QED
    BY <1>1, <2>1, <2>2
<1>2. CASE key.by = "id"
  <2> DEFINE o == update1(shape, table, Having(table, key.values), w)
  <2>1. __setitem__(shape, table, key, values) = IF o.wrote = 0 THEN Raises(table) ELSE o
    BY <1>2 DEF __setitem__, w
  <2>2. SaidIsThere(table, key, values, o)
    <3>1. shape.keys \subseteq DOMAIN key.values
      BY <1>2, KeysAssumption
    <3>2. Having(table, key.values) \in SUBSET table /\ \A a, b \in Having(table, key.values) : a = b
      BY <3>1, OneHasTheKey
    <3> QED
      BY <1>0, <3>2, UpdatedIsThere
  <2> HIDE DEF o
  <2>3. SaidIsThere(table, key, values, __setitem__(shape, table, key, values))
    BY <2>1, <2>2, NothingSaid
  <2> QED
    BY <1>2, <2>3
<1>3. CASE key.by # "none" /\ key.by # "id"
  <2> DEFINE all == Beside(key.values, w)
  <2>1. CASE __setitem__(shape, table, key, values) = Raises(table)
    BY <2>1, NothingSaid
  <2>2. ASSUME __setitem__(shape, table, key, values) = insert1(shape, table, all), DOMAIN key.values = shape.keys, key.by = "dict"
        PROVE  SaidIsThere(table, key, said, __setitem__(shape, table, key, values))
    <3>1. DOMAIN all = DOMAIN key.values \cup DOMAIN w /\ \A f \in DOMAIN all : all[f] = IF f \in DOMAIN key.values THEN key.values[f] ELSE w[f]
      BY DEF Beside
    <3>2. said = Beside(key.values, values)
      BY <2>2
    <3>3. DOMAIN said = DOMAIN key.values \cup DOMAIN values
          /\ \A f \in DOMAIN said : said[f] = IF f \in DOMAIN key.values THEN key.values[f] ELSE values[f]
      BY <3>2 DEF Beside
    <3> HIDE DEF all, said
    <3>4. DOMAIN all \subseteq shape.fields
      BY <1>0, <2>2, <3>1, FieldsAssumption
    <3>5. \A f \in DOMAIN said : f # "id" => f \in DOMAIN all /\ all[f] = said[f]
      BY <1>0, <3>1, <3>3
    <3>6. CASE Having(table, key.values) = {}
      BY <2>2, <3>4, <3>5, <3>6, InsertedIsThere
    <3>7. CASE Having(table, key.values) # {}
      <4>1. PICK q \in table : \A f \in shape.keys : q[f] = key.values[f]
        BY <2>2, <3>7 DEF Having, Agrees
      <4>2. \A f \in shape.keys : NewRow(shape, table, all)[f] = key.values[f]
        BY <2>2, <3>1, FieldsAssumption DEF NewRow
      <4>3. Clashes(shape, table, NewRow(shape, table, all))
        BY <4>1, <4>2 DEF Clashes
      <4>4. insert1(shape, table, all) = Raises(table)
        BY <4>3 DEF insert1
      <4> QED
        BY <2>2, <4>4, NothingSaid
    <3> QED
      BY <3>6, <3>7
  <2>3. \/ __setitem__(shape, table, key, values) = Raises(table)
        \/ /\ __setitem__(shape, table, key, values) = insert1(shape, table, all)
           /\ DOMAIN key.values = shape.keys
    BY <1>3 DEF __setitem__, w
  <2>4. key.by = "dict"
    BY <1>3, KeysAssumption
  <2> QED
    BY <2>1, <2>2, <2>3, <2>4
<1> QED
  BY <1>1, <1>2, <1>3

LEMMA FoundIsSomebody ==
  ASSUME NEW S, S # {}, NEW r \in Somebody(S)
  PROVE  r # Nobody /\ r[1] \in S /\ r = <<r[1]>>
BY DEF Somebody, Nobody

\* A key that a record has is found.
LEMMA KeyIsFound ==
  ASSUME NEW shape \in Shapes, NEW table \in TablesOf(shape), NEW key \in KeysOf(shape),
         key.by \in {"id", "dict", "query"}, Having(table, key.values) # {},
         NEW r \in Sought(table, key)
  PROVE  r # Nobody
<1>1. CASE key.by = "dict"
  <2>1. Sought(table, key) = Somebody(Having(table, key.values))
    BY <1>1, KeysAssumption DEF Sought, LookedUp1, NoKey
  <2> QED
    BY <2>1, FoundIsSomebody
<1>2. CASE key.by # "dict"
  <2>1. PICK q \in Somebody(Having(table, key.values)) : r = IF q = Nobody \/ Agrees(q[1], <<>>) THEN q ELSE Nobody
    BY <1>2 DEF Sought, LookedUp1
  <2>2. Agrees(q[1], <<>>)
    BY DEF Agrees
  <2>3. r = q
    BY <2>1, <2>2
  <2> QED
    BY <2>3, FoundIsSomebody
<1> QED
  BY <1>1, <1>2

LEMMA UpdateOrInsertIsThere ==
  ASSUME NEW shape \in Shapes, NEW table \in TablesOf(shape), NEW key \in KeysOf(shape), NEW values \in WrittenOf(shape),
         NEW o \in update_or_insert(shape, table, key, values)
  PROVE  SaidIsThere(table, key, values, o)
<1>0. DOMAIN values \subseteq shape.fields
  BY FieldsAssumption
<1>1. PICK r \in (IF key.by = "none" THEN LookedUp1(table, NoKey, values) ELSE Sought(table, key)) :
        o = IF r = Nobody THEN insert1(shape, table, values)
            ELSE IF Keyed(shape) THEN Raises(table)
            ELSE update1(shape, table, Having(table, [id |-> r[1].id]), WithoutId(IF DOMAIN values = {} THEN r[1] ELSE values))
  BY DEF update_or_insert
<1>2. CASE r = Nobody
  <2>1. ~ (key.by \in {"id", "dict", "query"} /\ Having(table, key.values) # {})
    BY <1>1, <1>2, KeyIsFound
  <2>2. SaidIsThere(table, key, values, insert1(shape, table, values))
    BY <1>0, <2>1, InsertedIsThere
  <2> QED
    BY <1>1, <1>2, <2>2
<1>3. CASE r # Nobody /\ Keyed(shape)
  BY <1>1, <1>3, NothingSaid
<1>4. CASE r # Nobody /\ ~ Keyed(shape)
  <2> DEFINE i == r[1].id
             w == WithoutId(values)
             own == WithoutId(r[1])
  <2>1. \/ DOMAIN values = {} /\ o = update1(shape, table, Having(table, [id |-> i]), own)
        \/ o = update1(shape, table, Having(table, [id |-> i]), w)
    BY <1>1, <1>4
  <2>2. /\ DOMAIN w = DOMAIN values \ {"id"}
        /\ \A f \in DOMAIN values : f # "id" => f \in DOMAIN w /\ w[f] = values[f]
    BY ButTheId
  <2>3. DOMAIN own \subseteq shape.fields
    <3>1. r \in LookedUp1(table, NoKey, values) \/ r \in Sought(table, key)
      BY <1>1
    <3>2. \/ r \in Somebody(Having(table, values)) \/ r \in Somebody(Having(table, key.values))
      BY <1>4, <3>1 DEF Sought, LookedUp1, NoKey
    <3>3. r[1] \in table
      BY <1>4, <3>2 DEF Somebody, Nobody, Having
    <3>4. DOMAIN r[1] = shape.fields
      BY <3>3, FieldsAssumption
    <3> QED
      BY <3>4 DEF WithoutId
  <2> HIDE DEF i, w, own
  <2>4. Having(table, [id |-> i]) \in SUBSET table /\ \A a, b \in Having(table, [id |-> i]) : a = b
    BY <1>4, OneHasTheId
  <2>5. CASE DOMAIN values = {} /\ o = update1(shape, table, Having(table, [id |-> i]), own)
    <3>1. \A f \in DOMAIN values : f # "id" => f \in DOMAIN own /\ own[f] = values[f]
      BY <2>5
    <3>2. SaidIsThere(table, key, values, update1(shape, table, Having(table, [id |-> i]), own))
      BY <2>3, <2>4, <3>1, UpdatedIsThere
    <3> QED
      BY <2>5, <3>2
  <2>6. CASE o = update1(shape, table, Having(table, [id |-> i]), w)
    <3>1. DOMAIN w \subseteq shape.fields
      BY <1>0, <2>2
    <3>2. SaidIsThere(table, key, values, update1(shape, table, Having(table, [id |-> i]), w))
      BY <2>2, <2>4, <3>1, UpdatedIsThere
    <3> QED
      BY <2>6, <3>2
  <2> QED
    BY <2>1, <2>5, <2>6
<1> QED
  BY <1>2, <1>3, <1>4

LEMMA ValidateIsThere ==
  ASSUME NEW shape \in Shapes, NEW table \in TablesOf(shape), NEW given \in KeysOf(shape), NEW values \in WrittenOf(shape),
         NEW o \in validate_and_update_or_insert(shape, table, given, values)
  PROVE  SaidIsThere(table, given, values, o)
<1> DEFINE own == [f \in DOMAIN values \cap shape.keys |-> values[f]]
           key == IF given.by # "none" THEN given ELSE Key("dict", own)
<1>0. DOMAIN values \subseteq shape.fields
  BY FieldsAssumption
<1>1. CASE o = Raises(table)
  BY <1>1, NothingSaid
<1>2. CASE o # Raises(table)
  <2>1. PICK r \in Sought(table, key) :
          o \in IF r = Nobody THEN {validate_and_insert1(shape, table, values)}
                ELSE validate_and_update1(shape, table, key, values)
    BY <1>2 DEF validate_and_update_or_insert
  <2>2. given.by # "none" => key = given
    OBVIOUS
  <2> HIDE DEF key
  <2>3. CASE r = Nobody
    <3>1. ~ (given.by \in {"id", "dict", "query"} /\ Having(table, given.values) # {})
      BY <2>1, <2>2, <2>3, KeyIsFound
    <3>2. SaidIsThere(table, given, values, insert1(shape, table, values))
      BY <1>0, <3>1, InsertedIsThere
    <3>3. o = Came(table, 0) \/ o = insert1(shape, table, values)
      BY <2>1, <2>3 DEF validate_and_insert1
    <3> QED
      BY <3>2, <3>3, NothingSaid
  <2>4. CASE r # Nobody
    <3>0. o \in validate_and_update1(shape, table, key, values)
      BY <2>1, <2>4
    <3>1. PICK q \in Sought(table, key) :
            o = LET rows == IF Keyed(shape) THEN Having(table, key.values) ELSE Having(table, [id |-> q[1].id])
                    u == update1(shape, table, rows, values)
                IN IF q = Nobody \/ Errors(shape, values, FALSE) # {}
                   THEN IF q # Nobody /\ Keyed(shape) THEN Raises(table) ELSE Came(table, 0)
                   ELSE IF Keyed(shape) THEN Raises(u.table) ELSE u
      BY <3>0 DEF validate_and_update1
    <3> DEFINE i == q[1].id
    <3>2. \/ \E t : o = Raises(t)
          \/ o = Came(table, 0)
          \/ ~ Keyed(shape) /\ o = update1(shape, table, Having(table, [id |-> i]), values)
      BY <3>1
    <3> HIDE DEF i
    <3>3. CASE \E t : o = Raises(t)
      BY <3>3, NothingSaid
    <3>4. CASE o = Came(table, 0)
      BY <3>4, NothingSaid
    <3>5. CASE ~ Keyed(shape) /\ o = update1(shape, table, Having(table, [id |-> i]), values)
      <4>1. Having(table, [id |-> i]) \in SUBSET table /\ \A a, b \in Having(table, [id |-> i]) : a = b
        BY <3>5, OneHasTheId
      <4>2. SaidIsThere(table, given, values, update1(shape, table, Having(table, [id |-> i]), values))
        BY <1>0, <4>1, UpdatedIsThere
      <4> QED
        BY <3>5, <4>2
    <3> QED
      BY <3>2, <3>3, <3>4, <3>5
  <2> QED
    BY <2>3, <2>4
<1> QED
  BY <1>1, <1>2

\* What is found agrees with all that was asked of it.
FoundAgrees(table, key, values, r) ==
  LET agreeing == {q \in Having(table, key.values) : Agrees(q, values)}
  IN IF r # Nobody THEN r[1] \in agreeing
     ELSE agreeing = {} \/ key.by \in {"word", "dict", "query"} \/ (key.by = "none" /\ DOMAIN values = {})

LEMMA LookupAgrees ==
  ASSUME NEW shape \in Shapes, NEW table \in TablesOf(shape), NEW key \in KeysOf(shape), NEW values,
         NEW r \in LookedUp1(table, key, values)
  PROVE  FoundAgrees(table, key, values, r)
<1>1. CASE key.by = "none"
  <2>1. key = NoKey
    BY <1>1, KeysAssumption
  <2>2. Having(table, key.values) = table
    BY <2>1 DEF NoKey, Having, Agrees
  <2>3. CASE DOMAIN values = {}
    <3>1. r = Nobody
      BY <1>1, <2>3 DEF LookedUp1
    <3> QED
      BY <1>1, <2>3, <3>1 DEF FoundAgrees
  <2>4. CASE DOMAIN values # {}
    <3>1. r \in Somebody(Having(table, values))
      BY <1>1, <2>4 DEF LookedUp1
    <3>2. CASE Having(table, values) = {}
      <4>1. r = Nobody
        BY <3>1, <3>2 DEF Somebody
      <4>2. {q \in Having(table, key.values) : Agrees(q, values)} = {}
        BY <2>2, <3>2 DEF Having
      <4> QED
        BY <4>1, <4>2 DEF FoundAgrees
    <3>3. CASE Having(table, values) # {}
      <4>1. r # Nobody /\ r[1] \in Having(table, values)
        BY <3>1, <3>3, FoundIsSomebody
      <4>2. r[1] \in Having(table, key.values) /\ Agrees(r[1], values)
        BY <2>2, <4>1 DEF Having
      <4> QED
        BY <4>1, <4>2 DEF FoundAgrees
    <3> QED
      BY <3>2, <3>3
  <2> QED
    BY <2>3, <2>4
<1>2. CASE key.by \in {"word", "dict"}
  <2>1. r = Nobody
    BY <1>2 DEF LookedUp1
  <2> QED
    BY <1>2, <2>1 DEF FoundAgrees
<1>3. CASE key.by \in {"id", "query"}
  <2> DEFINE S == Having(table, key.values)
  <2>1. PICK q \in Somebody(S) : r = IF q = Nobody \/ Agrees(q[1], values) THEN q ELSE Nobody
    BY <1>3 DEF LookedUp1
  <2>2. CASE S = {}
    <3>1. r = Nobody
      BY <2>1, <2>2 DEF Somebody
    <3> QED
      BY <2>2, <3>1 DEF FoundAgrees
  <2>3. CASE S # {}
    <3>1. q # Nobody /\ q[1] \in S
      BY <2>3, FoundIsSomebody
    <3>2. CASE Agrees(q[1], values)
      <4>1. r # Nobody /\ r[1] \in S /\ Agrees(r[1], values)
        BY <2>1, <3>1, <3>2
      <4> QED
        BY <4>1 DEF FoundAgrees
    <3>3. CASE ~ Agrees(q[1], values) /\ key.by = "id"
      <4>1. r = Nobody
        BY <2>1, <3>1, <3>3
      <4>2. \A a, b \in S : a = b
        <5>1. shape.keys \subseteq DOMAIN key.values
          BY <3>3, KeysAssumption
        <5> QED
          BY <5>1, OneHasTheKey
      <4>3. {p \in S : Agrees(p, values)} = {}
        BY <3>1, <3>3, <4>2
      <4> QED
        BY <4>1, <4>3 DEF FoundAgrees
    <3>4. CASE ~ Agrees(q[1], values) /\ key.by = "query"
      <4>1. r = Nobody
        BY <2>1, <3>1, <3>4
      <4> QED
        BY <3>4, <4>1 DEF FoundAgrees
    <3> QED
      BY <1>3, <3>2, <3>3, <3>4
  <2> QED
    BY <2>2, <2>3
<1> QED
  BY <1>1, <1>2, <1>3, KeysAssumption

\* The next state says so, if what the shortcut was asked and came to does.
LEMMA ShortcutCame ==
  ASSUME NEW op, NEW shape, NEW table, NEW key, NEW values, NEW o,
         Ask("shortcut", [op |-> op, shape |-> shape, table |-> table, key |-> key, values |-> values], o),
         \/ OneWritten(table, o)
         \/ Keyed(shape) /\ op = "validate_and_update_or_insert"
         \/ Keyed(shape) /\ op = "__delitem__" /\ DOMAIN key.values # shape.keys,
         op = "__delitem__" \/
         SaidIsThere(table, key, IF op = "__setitem__" /\ key.by = "dict" THEN Beside(key.values, values) ELSE values, o)
  PROVE  OneRecordIsWritten' /\ WrittenIsThere' /\ LookupsAgree' /\ asked'.of \in {"lookup", "shortcut"}
<1> DEFINE x == [op |-> op, shape |-> shape, table |-> table, key |-> key, values |-> values]
<1>1. asked' = [of |-> "shortcut", x |-> x] /\ answer' = o
  BY DEF Ask
<1>2. asked'.x = x /\ asked'.of = "shortcut"
  BY <1>1
<1>3. x.op = op /\ x.shape = shape /\ x.table = table /\ x.key = key /\ x.values = values
  OBVIOUS
<1> HIDE DEF x
<1>4. asked'.x.op = op /\ asked'.x.shape = shape /\ asked'.x.table = table /\ asked'.x.key = key /\ asked'.x.values = values
  BY <1>2, <1>3
<1>5. OneRecordIsWritten'
  BY <1>1, <1>4 DEF OneRecordIsWritten, OneWritten, Changed
<1>6. WrittenIsThere'
  <2>1. CASE op = "__delitem__"
    BY <1>4, <2>1 DEF WrittenIsThere, Asked
  <2>2. CASE op # "__delitem__"
    BY <1>1, <1>4, <2>2 DEF WrittenIsThere, SaidIsThere
  <2> QED
    BY <2>1, <2>2
<1>7. LookupsAgree'
  BY <1>2 DEF LookupsAgree
<1> QED
  BY <1>2, <1>5, <1>6, <1>7

LEMMA ShortcutsDoAsAsked ==
  ASSUME Shortcut
  PROVE  OneRecordIsWritten' /\ WrittenIsThere' /\ LookupsAgree' /\ asked'.of \in {"lookup", "shortcut"}
<1> DEFINE x(op, shape, table, key, values) == [op |-> op, shape |-> shape, table |-> table, key |-> key, values |-> values]
           Called(shape, table, key) ==
         \/ \E v \in Demands(shape) : \E r \in LookedUp1(table, key, v) :
               Ask("lookup", x("__call__", shape, table, key, v), [found |-> r])
         \/ key.by \notin {"word", "query"} /\ \E v \in WrittenOf(shape) :
               Ask("shortcut", x("__setitem__", shape, table, key, v), __setitem__(shape, table, key, v))
         \/ key.by # "none" /\ Ask("shortcut", x("__delitem__", shape, table, key, <<>>), __delitem__(shape, table, key))
         \/ \E v \in WrittenOf(shape) : \E o \in update_or_insert(shape, table, key, v) :
               Ask("shortcut", x("update_or_insert", shape, table, key, v), o)
         \/ \E v \in WrittenOf(shape) : \E o \in validate_and_update_or_insert(shape, table, key, v) :
               Ask("shortcut", x("validate_and_update_or_insert", shape, table, key, v), o)
<1>0. PICK shape \in Shapes : \E table \in TablesOf(shape), key \in KeysOf(shape) : Called(shape, table, key)
  BY DEF Shortcut
<1>1. PICK table \in TablesOf(shape), key \in KeysOf(shape) : Called(shape, table, key)
  BY <1>0
<1>2. ASSUME NEW v, NEW r \in LookedUp1(table, key, v), Ask("lookup", x("__call__", shape, table, key, v), [found |-> r])
      PROVE  OneRecordIsWritten' /\ WrittenIsThere' /\ LookupsAgree' /\ asked'.of \in {"lookup", "shortcut"}
  <2>1. asked'.of = "lookup" /\ asked'.x = x("__call__", shape, table, key, v) /\ answer'.found = r
    BY <1>2 DEF Ask
  <2>2. asked'.x.table = table /\ asked'.x.key = key /\ asked'.x.values = v
    BY <2>1
  <2>3. FoundAgrees(table, key, v, r)
    BY <1>2, LookupAgrees
  <2>4. LookupsAgree'
    BY <2>1, <2>2, <2>3 DEF LookupsAgree, FoundAgrees
  <2> QED
    BY <2>1, <2>4 DEF OneRecordIsWritten, WrittenIsThere, Asked
<1>3. ASSUME NEW v \in WrittenOf(shape), key.by \notin {"word", "query"},
             Ask("shortcut", x("__setitem__", shape, table, key, v), __setitem__(shape, table, key, v))
      PROVE  OneRecordIsWritten' /\ WrittenIsThere' /\ LookupsAgree' /\ asked'.of \in {"lookup", "shortcut"}
  <2>1. OneWritten(table, __setitem__(shape, table, key, v))
    BY SetItemOne
  <2>2. SaidIsThere(table, key, IF key.by = "dict" THEN Beside(key.values, v) ELSE v, __setitem__(shape, table, key, v))
    BY <1>3, SetItemIsThere
  <2> QED
    BY <1>3, <2>1, <2>2, ShortcutCame
<1>4. ASSUME Ask("shortcut", x("__delitem__", shape, table, key, <<>>), __delitem__(shape, table, key))
      PROVE  OneRecordIsWritten' /\ WrittenIsThere' /\ LookupsAgree' /\ asked'.of \in {"lookup", "shortcut"}
  <2>1. \/ OneWritten(table, __delitem__(shape, table, key))
        \/ Keyed(shape) /\ DOMAIN key.values # shape.keys
    BY DeleteOne
  <2> QED
    BY <1>4, <2>1, ShortcutCame
<1>5. ASSUME NEW v \in WrittenOf(shape), NEW o \in update_or_insert(shape, table, key, v),
             Ask("shortcut", x("update_or_insert", shape, table, key, v), o)
      PROVE  OneRecordIsWritten' /\ WrittenIsThere' /\ LookupsAgree' /\ asked'.of \in {"lookup", "shortcut"}
  <2>1. OneWritten(table, o)
    BY UpdateOrInsertOne
  <2>2. SaidIsThere(table, key, v, o)
    BY UpdateOrInsertIsThere
  <2> QED
    BY <1>5, <2>1, <2>2, ShortcutCame
<1>6. ASSUME NEW v \in WrittenOf(shape), NEW o \in validate_and_update_or_insert(shape, table, key, v),
             Ask("shortcut", x("validate_and_update_or_insert", shape, table, key, v), o)
      PROVE  OneRecordIsWritten' /\ WrittenIsThere' /\ LookupsAgree' /\ asked'.of \in {"lookup", "shortcut"}
  <2>1. OneWritten(table, o) \/ Keyed(shape)
    BY ValidateOne
  <2>2. SaidIsThere(table, key, v, o)
    BY ValidateIsThere
  <2> QED
    BY <1>6, <2>1, <2>2, ShortcutCame
<1> QED
  BY <1>1, <1>2, <1>3, <1>4, <1>5, <1>6

----------------------------------------------------------------------------
(* Numbers and texts                                                       *)

Texts1 == Seq(Int)

\* t begins with s, position by position.
Begins(s, t) == Len(s) <= Len(t) /\ \A i \in 1 .. Len(s) : s[i] = t[i]

\* A set of naturals has a least.
LEMMA LeastOfNaturals ==
  ASSUME NEW S \in SUBSET Nat, S # {}
  PROVE  Min(S) \in S /\ \A n \in S : Min(S) <= n
<1> DEFINE R == OpToRel(<, Nat)
<1>1. IsWellFoundedOn(R, Nat)
  BY NatLessThanWellFounded
<1>2. \A k, m \in Nat : k < m => <<k, m>> \in R
  BY DEF OpToRel
<1> HIDE DEF R
<1>3. PICK m \in S : \A n \in S : ~ (<<n, m>> \in R)
  BY <1>1, WFMin
<1>4. ASSUME NEW n \in S PROVE m <= n
  <2>1. m \in Nat /\ n \in Nat
    OBVIOUS
  <2>2. ~ (n < m)
    BY <1>2, <1>3, <2>1
  <2> QED
    BY <2>1, <2>2
<1> QED
  BY <1>3, <1>4 DEF Min

LEMMA TextFacts ==
  ASSUME NEW t \in Texts1
  PROVE  /\ Len(t) \in Nat /\ DOMAIN t = 1 .. Len(t)
         /\ \A i \in 1 .. Len(t) : t[i] \in Int
BY LenProperties, ElementOfSeq DEF Texts1

LEMMA SlicesOfTexts ==
  ASSUME NEW t \in Texts1, NEW m \in Nat, NEW n \in Nat, m <= n, n <= Len(t)
  PROVE  /\ SubSeq(t, m + 1, n) \in Texts1 /\ Len(SubSeq(t, m + 1, n)) = n - m
         /\ \A i \in 1 .. n - m : SubSeq(t, m + 1, n)[i] = t[m + i]
<1> DEFINE w == SubSeq(t, m + 1, n)
<1>1. \A i \in m + 1 .. n : t[i] \in Int
  BY TextFacts
<1>2. /\ w \in Texts1 /\ Len(w) = IF m + 1 <= n THEN n - (m + 1) + 1 ELSE 0
      /\ \A i \in 1 .. n - (m + 1) + 1 : w[i] = t[m + 1 + i - 1]
  BY <1>1, SubSeqProperties DEF Texts1
<1> HIDE DEF w
<1>3. Len(w) = n - m
  BY <1>2
<1>4. ASSUME NEW i \in 1 .. n - m PROVE w[i] = t[m + i]
  <2>1. i \in 1 .. n - (m + 1) + 1 /\ m + 1 + i - 1 = m + i
    OBVIOUS
  <2> QED
    BY <1>2, <2>1
<1> QED
  BY <1>2, <1>3, <1>4 DEF w

LEMMA ConcatTexts ==
  ASSUME NEW s \in Texts1, NEW t \in Texts1
  PROVE  /\ s \o t \in Texts1 /\ Len(s \o t) = Len(s) + Len(t)
         /\ \A i \in 1 .. Len(s) : (s \o t)[i] = s[i]
         /\ \A i \in 1 .. Len(t) : (s \o t)[Len(s) + i] = t[i]
<1> DEFINE w == s \o t
<1>1. Len(s) \in Nat /\ Len(t) \in Nat
  BY TextFacts
<1>2. /\ w \in Texts1 /\ Len(w) = Len(s) + Len(t)
      /\ \A i \in 1 .. Len(s) + Len(t) : w[i] = IF i <= Len(s) THEN s[i] ELSE t[i - Len(s)]
  BY ConcatProperties DEF Texts1
<1> HIDE DEF w
<1>3. ASSUME NEW i \in 1 .. Len(s) PROVE w[i] = s[i]
  BY <1>1, <1>2
<1>4. ASSUME NEW i \in 1 .. Len(t) PROVE w[Len(s) + i] = t[i]
  <2>1. Len(s) + i \in 1 .. Len(s) + Len(t) /\ ~ (Len(s) + i <= Len(s)) /\ Len(s) + i - Len(s) = i
    BY <1>1
  <2> QED
    BY <1>2, <2>1
<1> QED
  BY <1>2, <1>3, <1>4 DEF w

LEMMA BeginningIsSlice ==
  ASSUME NEW s \in Texts1, NEW t \in Texts1, Begins(s, t)
  PROVE  /\ s = SubSeq(t, 1, Len(s)) /\ IsPrefix(s, t)
         /\ t = s \o SubSeq(t, Len(s) + 1, Len(t))
<1>1. Len(s) \in Nat /\ Len(t) \in Nat /\ Len(s) <= Len(t)
  BY TextFacts DEF Begins
<1> DEFINE w == SubSeq(t, 1, Len(s))
           v == SubSeq(t, Len(s) + 1, Len(t))
<1>2. /\ w \in Texts1 /\ Len(w) = Len(s) /\ \A i \in 1 .. Len(s) : w[i] = t[i]
  <2>1. \A i \in 1 .. Len(s) : t[i] \in Int
    BY <1>1, TextFacts
  <2>2. /\ w \in Texts1 /\ Len(w) = IF 1 <= Len(s) THEN Len(s) - 1 + 1 ELSE 0
        /\ \A i \in 1 .. Len(s) - 1 + 1 : w[i] = t[1 + i - 1]
    BY <1>1, <2>1, SubSeqProperties DEF Texts1
  <2> HIDE DEF w
  <2>3. \A i \in 1 .. Len(s) : i \in 1 .. Len(s) - 1 + 1 /\ 1 + i - 1 = i
    BY <1>1
  <2> QED
    BY <1>1, <2>2, <2>3
<1> HIDE DEF w
<1>3. s = w
  BY <1>2, SeqEqual DEF Begins, Texts1
<1>4. IsPrefix(s, t)
  <2>1. SubSeq(s, 1, Len(s)) = s
    BY SubSeqFull DEF Texts1
  <2> QED
    BY <1>1, <1>3, <2>1 DEF IsPrefix, w
<1>5. /\ v \in Texts1 /\ Len(v) = Len(t) - Len(s) /\ \A i \in 1 .. Len(t) - Len(s) : v[i] = t[Len(s) + i]
  BY <1>1, SlicesOfTexts
<1> HIDE DEF v
<1> DEFINE c == s \o v
<1>6. /\ c \in Texts1 /\ Len(c) = Len(t)
      /\ \A i \in 1 .. Len(s) : c[i] = s[i]
      /\ \A i \in 1 .. Len(v) : c[Len(s) + i] = v[i]
  BY <1>1, <1>5, ConcatTexts
<1> HIDE DEF c
<1>7. ASSUME NEW i \in 1 .. Len(t) PROVE t[i] = c[i]
  <2>1. CASE i <= Len(s)
    BY <1>1, <1>6, <2>1 DEF Begins
  <2>2. CASE ~ (i <= Len(s))
    <3>1. i - Len(s) \in 1 .. Len(t) - Len(s) /\ Len(s) + (i - Len(s)) = i
      BY <1>1, <2>2
    <3> QED
      BY <1>5, <1>6, <3>1
  <2> QED
    BY <2>1, <2>2
<1>8. t = c
  BY <1>6, <1>7, SeqEqual DEF Texts1
<1> QED
  BY <1>3, <1>4, <1>8 DEF w, c, v

----------------------------------------------------------------------------
(* The inductive invariant                                                 *)

Handles == [open : {TRUE}, mode : Modes, data : Texts1, p : Nat, held : Texts1,
            got : Texts1, since : Nat]
Files1 == [row : Texts1, disk : Texts1, handles : [Users -> Handles \cup {NotOpen}], closed : Nat]

\* What is there for whoever opens the file in this mode.
Found(f, mode) == IF mode \in Reading /\ exists(f) THEN Opened1(f) ELSE <<>>

\* An open file has read the first p of its data, which begins with what was
\* found; and that is still what is there, while no other has closed.
HandleGood(f, h) ==
  /\ h.p <= Len(h.data) /\ Len(h.got) = h.p /\ Begins(h.got, h.data)
  /\ Begins(h.held, h.data)
  /\ h.since <= f.closed
  /\ h.since = f.closed => h.held = Found(f, h.mode)

FileGood(f) == f \in Files1 /\ \A u \in Users : f.handles[u].open => HandleGood(f, f.handles[u])

\* A line that was read ends with its newline or where the content does.
LineEnds(h) == h.open /\ h.p < Len(h.data) => h.data[h.p] = Newline

\* Who closes leaves what was there and what it wrote behind.
ClosesWell(before, user, f) ==
  LET h == before.handles[user]
  IN h.since = before.closed =>
       f.row = Found(before, h.mode) \o SubSeq(h.data, Len(h.held) + 1, Len(h.data))

FileInv ==
  asked.of = "file" =>
    /\ FileGood(answer)
    /\ asked.x.op = "readline" /\ asked.x.user \in Users => LineEnds(answer.handles[asked.x.user])
    /\ asked.x.op = "close" => ClosesWell(asked.x.before, asked.x.user, answer)

----------------------------------------------------------------------------
(* The operations on an open file                                          *)

LEMMA OpenIsHandle ==
  ASSUME NEW f \in Files1, NEW u \in Users, f.handles[u].open
  PROVE  f.handles[u] \in Handles
BY DEF Files1, NotOpen

\* Reading on to upto.
LEMMA TookGood ==
  ASSUME NEW f, NEW h \in Handles, HandleGood(f, h), NEW upto \in Nat,
         h.p <= upto, upto <= Len(h.data)
  PROVE  /\ Took(h, upto) \in Handles /\ HandleGood(f, Took(h, upto))
         /\ Took(h, upto).p = upto /\ Took(h, upto).data = h.data
<1> DEFINE n == Took(h, upto)
           w == SubSeq(h.data, h.p + 1, upto)
           g == h.got \o w
<1>1. h.data \in Texts1 /\ h.got \in Texts1 /\ h.p \in Nat
  BY DEF Handles
<1>2. Len(h.data) \in Nat /\ Len(h.got) = h.p
  BY <1>1, TextFacts DEF HandleGood
<1>3. /\ w \in Texts1 /\ Len(w) = upto - h.p /\ \A i \in 1 .. upto - h.p : w[i] = h.data[h.p + i]
  BY <1>1, <1>2, SlicesOfTexts
<1>4. n = [[h EXCEPT !.p = upto] EXCEPT !.got = g]
  BY <1>1 DEF Took, Handles
<1> HIDE DEF w, n
<1>5. /\ g \in Texts1 /\ Len(g) = Len(h.got) + Len(w)
      /\ \A i \in 1 .. Len(h.got) : g[i] = h.got[i]
      /\ \A i \in 1 .. Len(w) : g[Len(h.got) + i] = w[i]
  BY <1>1, <1>3, ConcatTexts
<1> HIDE DEF g
<1>6. Len(g) = upto
  BY <1>1, <1>2, <1>3, <1>5
<1>7. Begins(g, h.data)
  <2> SUFFICES ASSUME NEW i \in 1 .. upto PROVE g[i] = h.data[i]
    BY <1>6 DEF Begins
  <2>1. CASE i <= h.p
    BY <1>1, <1>2, <1>5, <2>1 DEF HandleGood, Begins
  <2>2. CASE ~ (i <= h.p)
    <3>1. i - h.p \in 1 .. upto - h.p /\ h.p + (i - h.p) = i
      BY <1>1, <2>2
    <3>2. w[i - h.p] = h.data[i]
      BY <1>3, <3>1
    <3>3. i - h.p \in 1 .. Len(w) /\ Len(h.got) + (i - h.p) = i
      BY <1>2, <1>3, <3>1
    <3>4. g[Len(h.got) + (i - h.p)] = w[i - h.p]
      BY <1>5, <3>3
    <3> QED
      BY <3>2, <3>3, <3>4
  <2> QED
    BY <2>1, <2>2
<1>8. /\ n \in Handles /\ n.p = upto /\ n.data = h.data /\ n.got = g /\ n.held = h.held
      /\ n.since = h.since /\ n.mode = h.mode
  BY <1>4, <1>5 DEF Handles
<1>9. HandleGood(f, n)
  BY <1>6, <1>7, <1>8 DEF HandleGood
<1> QED
  BY <1>8, <1>9 DEF n

LEMMA ReadGood ==
  ASSUME NEW f, NEW h \in Handles, HandleGood(f, h), NEW bytes \in Nat
  PROVE  read(h, bytes) \in Handles /\ HandleGood(f, read(h, bytes))
<1> DEFINE S == {h.p + bytes, Len(h.data)}
<1>1. h.data \in Texts1 /\ h.p \in Nat /\ Len(h.data) \in Nat /\ h.p <= Len(h.data)
  BY TextFacts DEF Handles, HandleGood
<1>2. S \in SUBSET Nat /\ S # {}
  BY <1>1
<1>3. Min(S) \in S /\ \A n \in S : Min(S) <= n
  BY <1>2, LeastOfNaturals
<1>4. Min(S) \in Nat /\ h.p <= Min(S) /\ Min(S) <= Len(h.data)
  BY <1>1, <1>3
<1>5. read(h, bytes) = Took(h, Min(S))
  BY DEF read
<1> HIDE DEF S
<1> QED
  BY <1>4, <1>5, TookGood

LEMMA ReadlineGood ==
  ASSUME NEW f, NEW h \in Handles, HandleGood(f, h)
  PROVE  readline(h) \in Handles /\ HandleGood(f, readline(h)) /\ LineEnds(readline(h))
<1> DEFINE ends == {i \in h.p + 1 .. Len(h.data) : h.data[i] = Newline}
           upto == IF ends = {} THEN Len(h.data) ELSE Min(ends)
<1>1. h.data \in Texts1 /\ h.p \in Nat /\ Len(h.data) \in Nat /\ h.p <= Len(h.data)
  BY TextFacts DEF Handles, HandleGood
<1>2. /\ upto \in Nat /\ h.p <= upto /\ upto <= Len(h.data)
      /\ upto < Len(h.data) => h.data[upto] = Newline
  <2>1. CASE ends = {}
    BY <1>1, <2>1
  <2>2. CASE ends # {}
    <3>1. ends \in SUBSET Nat
      BY <1>1
    <3>2. Min(ends) \in ends
      BY <2>2, <3>1, LeastOfNaturals
    <3>3. upto \in h.p + 1 .. Len(h.data) /\ h.data[upto] = Newline
      BY <2>2, <3>2
    <3> QED
      BY <1>1, <3>3
  <2> QED
    BY <2>1, <2>2
<1>3. readline(h) = Took(h, upto)
  BY DEF readline
<1> HIDE DEF upto
<1>4. /\ Took(h, upto) \in Handles /\ HandleGood(f, Took(h, upto))
      /\ Took(h, upto).p = upto /\ Took(h, upto).data = h.data
  BY <1>2, TookGood
<1> QED
  BY <1>2, <1>3, <1>4 DEF LineEnds

\* What is written comes behind, so that nothing read or found is changed.
LEMMA WriteGood ==
  ASSUME NEW f, NEW h \in Handles, HandleGood(f, h), NEW data \in Texts1
  PROVE  write(h, data) \in Handles /\ HandleGood(f, write(h, data))
<1> DEFINE d == h.data \o data
           n == write(h, data)
<1>1. h.data \in Texts1 /\ h.got \in Texts1 /\ h.held \in Texts1 /\ h.p \in Nat
  BY DEF Handles
<1>2. Len(h.data) \in Nat /\ Len(data) \in Nat /\ Len(h.got) \in Nat /\ Len(h.held) \in Nat
  BY <1>1, TextFacts
<1>3. n = [h EXCEPT !.data = d]
  BY DEF write
<1>4. /\ d \in Texts1 /\ Len(d) = Len(h.data) + Len(data)
      /\ \A i \in 1 .. Len(h.data) : d[i] = h.data[i]
  BY <1>1, ConcatTexts
<1> HIDE DEF d, n
<1>5. /\ n \in Handles /\ n.data = d /\ n.p = h.p /\ n.got = h.got /\ n.held = h.held
      /\ n.since = h.since /\ n.mode = h.mode
  BY <1>3, <1>4 DEF Handles
<1>6. ASSUME NEW s, Len(s) \in Nat, Begins(s, h.data) PROVE Begins(s, d)
  BY <1>2, <1>4, <1>6 DEF Begins
<1>7. HandleGood(f, n)
  BY <1>1, <1>2, <1>4, <1>5, <1>6 DEF HandleGood
<1> QED
  BY <1>5, <1>7 DEF n

----------------------------------------------------------------------------
(* The file with one of its handles changed                                *)

LEMMA HandleChanged ==
  ASSUME NEW f, FileGood(f), NEW user \in Users, NEW h \in Handles, HandleGood(f, h)
  PROVE  /\ FileGood([f EXCEPT !.handles[user] = h])
         /\ [f EXCEPT !.handles[user] = h].handles[user] = h
<1> DEFINE k == [f.handles EXCEPT ![user] = h]
           n == [f EXCEPT !.handles[user] = h]
<1>1. f \in Files1 /\ f.handles \in [Users -> Handles \cup {NotOpen}]
  BY DEF FileGood, Files1
<1>2. n = [f EXCEPT !.handles = k]
  BY <1>1
<1>3. /\ k \in [Users -> Handles \cup {NotOpen}] /\ k[user] = h
      /\ \A u \in Users : u # user => k[u] = f.handles[u]
  BY <1>1
<1> HIDE DEF k, n
<1>4. /\ n \in Files1 /\ n.handles = k /\ n.row = f.row /\ n.disk = f.disk /\ n.closed = f.closed
  BY <1>1, <1>2, <1>3 DEF Files1
<1>5. \A mode : Found(n, mode) = Found(f, mode)
  BY <1>4 DEF Found, exists, Opened1
<1>6. \A x : HandleGood(f, x) => HandleGood(n, x)
  BY <1>4, <1>5 DEF HandleGood
<1>7. ASSUME NEW u \in Users, n.handles[u].open PROVE HandleGood(n, n.handles[u])
  <2>1. CASE u = user
    BY <1>3, <1>4, <1>6, <2>1
  <2>2. CASE u # user
    <3>1. n.handles[u] = f.handles[u]
      BY <1>3, <1>4, <2>2
    <3> QED
      BY <1>6, <1>7, <3>1 DEF FileGood
  <2> QED
    BY <2>1, <2>2
<1> QED
  BY <1>3, <1>4, <1>7 DEF FileGood, n

LEMMA OpenGood ==
  ASSUME NEW f, FileGood(f), NEW user \in Users, NEW mode \in Modes
  PROVE  FileGood(Open(f, user, mode))
<1> DEFINE content == Found(f, mode)
           h == Handle(mode, content, f.closed)
<1>1. f \in Files1 /\ f.closed \in Nat
  BY DEF FileGood, Files1
<1>2. <<>> \in Texts1 /\ Len(<<>>) = 0
  BY EmptySeq DEF Texts1
<1>3. content \in Texts1
  BY <1>1, <1>2 DEF Found, Opened1, Files1
<1>4. Open(f, user, mode) = [f EXCEPT !.handles[user] = h]
  BY DEF Open, Found
<1> HIDE DEF content
<1>5. h \in Handles
  BY <1>1, <1>2, <1>3 DEF Handle, Handles
<1>6. Len(content) \in Nat /\ Begins(content, content) /\ Begins(<<>>, content)
  BY <1>2, <1>3, TextFacts DEF Begins
<1>7. HandleGood(f, h)
  BY <1>1, <1>2, <1>6 DEF HandleGood, Handle, content
<1> QED
  BY <1>4, <1>5, <1>7, HandleChanged

\* Who closes writes the row; whoever else has the file open knows of one more
\* who closed.
LEMMA CloseConnectionGood ==
  ASSUME NEW f, FileGood(f), NEW user \in Users, f.handles[user].open
  PROVE  FileGood(close_connection(f, user)) /\ ClosesWell(f, user, close_connection(f, user))
<1> DEFINE n == close_connection(f, user)
           h == f.handles[user]
           k == [f.handles EXCEPT ![user] = NotOpen]
<1>1. f \in Files1 /\ f.handles \in [Users -> Handles \cup {NotOpen}] /\ f.closed \in Nat
  BY DEF FileGood, Files1
<1>2. h \in Handles /\ HandleGood(f, h)
  BY <1>1, OpenIsHandle DEF FileGood
<1>3. h.data \in Texts1 /\ h.held \in Texts1
  BY <1>2 DEF Handles
<1>4. n = [[[f EXCEPT !.row = h.data] EXCEPT !.handles = k] EXCEPT !.closed = f.closed + 1]
  BY <1>1 DEF close_connection, Files1
<1>5. /\ k \in [Users -> Handles \cup {NotOpen}] /\ ~ k[user].open
      /\ \A u \in Users : u # user => k[u] = f.handles[u]
  BY <1>1 DEF NotOpen
<1> HIDE DEF k, n, h
<1>6. n \in Files1 /\ n.handles = k /\ n.row = h.data /\ n.closed = f.closed + 1
  <2> DEFINE c == f.closed + 1
             d == h.data
  <2>1. c \in Nat /\ d \in Texts1
    BY <1>1, <1>3
  <2>2. n = [[[f EXCEPT !.row = d] EXCEPT !.handles = k] EXCEPT !.closed = c]
    BY <1>4
  <2> HIDE DEF c, d
  <2>3. n = [row |-> d, disk |-> f.disk, handles |-> k, closed |-> c]
    BY <1>1, <2>2 DEF Files1
  <2>4. f.disk \in Texts1
    BY <1>1 DEF Files1
  <2> QED
    BY <1>5, <2>1, <2>3, <2>4 DEF Files1, c, d
<1>7. ASSUME NEW u \in Users, n.handles[u].open PROVE HandleGood(n, n.handles[u])
  <2>1. u # user /\ n.handles[u] = f.handles[u]
    BY <1>5, <1>6, <1>7
  <2>2. HandleGood(f, f.handles[u]) /\ f.handles[u] \in Handles
    BY <1>1, <1>7, <2>1, OpenIsHandle DEF FileGood
  <2>3. f.handles[u].since \in Nat /\ f.handles[u].since <= f.closed
    BY <2>2 DEF HandleGood, Handles
  <2>4. f.handles[u].since <= n.closed /\ f.handles[u].since # n.closed
    BY <1>1, <1>6, <2>3
  <2> QED
    BY <2>1, <2>2, <2>4 DEF HandleGood
<1>8. h.data = h.held \o SubSeq(h.data, Len(h.held) + 1, Len(h.data))
  BY <1>2, <1>3, BeginningIsSlice DEF HandleGood
<1>9. ClosesWell(f, user, n)
  BY <1>2, <1>6, <1>8 DEF ClosesWell, HandleGood, h
<1> QED
  BY <1>6, <1>7, <1>9 DEF FileGood, n

\* A call whose answer is as its lemma says keeps the invariant.
LEMMA FileStepInv ==
  ASSUME NEW user \in Users, NEW op, NEW f, FileGood(f), FileStep(user, op, f),
         op = "readline" => LineEnds(f.handles[user]),
         op = "close" => ClosesWell(answer, user, f)
  PROVE  FileInv'
<1> DEFINE x == [op |-> op, user |-> user, before |-> IF op = "close" THEN answer ELSE Err]
<1>1. asked' = [of |-> "file", x |-> x] /\ answer' = f
  BY DEF FileStep, Ask
<1>2. x.op = op /\ x.user = user /\ (op = "close" => x.before = answer)
  OBVIOUS
<1> HIDE DEF x
<1>3. asked'.x = x
  BY <1>1
<1>4. FileGood(answer')
  BY <1>1
<1>5. asked'.x.op = "readline" => LineEnds(answer'.handles[asked'.x.user])
  BY <1>1, <1>2, <1>3
<1>6. asked'.x.op = "close" => ClosesWell(asked'.x.before, asked'.x.user, answer')
  BY <1>1, <1>2, <1>3
<1> QED
  BY <1>4, <1>5, <1>6 DEF FileInv

LEMMA FileStepped ==
  ASSUME FileInv, FileCreated \/ FileUsed
  PROVE  FileInv'
<1>1. CASE FileCreated
  <2>1. PICK row \in Rows1, disk \in Disks :
          Ask("file", [op |-> "create"], [row |-> row, disk |-> disk, handles |-> [u \in Users |-> NotOpen], closed |-> 0])
    BY <1>1 DEF FileCreated
  <2> DEFINE f == [row |-> row, disk |-> disk, handles |-> [u \in Users |-> NotOpen], closed |-> 0]
  <2>2. asked'.x.op = "create" /\ answer' = f
    BY <2>1 DEF Ask
  <2>3. row \in Texts1 /\ disk \in Texts1
    BY ContentsAssumption DEF Texts1
  <2>4. f \in Files1 /\ \A u \in Users : ~ f.handles[u].open
    BY <2>3 DEF Files1, NotOpen
  <2> HIDE DEF f
  <2>5. FileGood(f)
    BY <2>4 DEF FileGood
  <2> QED
    BY <2>2, <2>5 DEF FileInv
<1>2. CASE FileUsed
  <2>1. FileGood(answer)
    BY <1>2 DEF FileUsed, FileInv
  <2>2. PICK user \in Users :
          \/ \E mode \in Modes : FileStep(user, "open", Open(answer, user, mode))
          \/ /\ answer.handles[user].open
             /\ \/ \E n \in {1, Len(answer.handles[user].data)} :
                      FileStep(user, "read", [answer EXCEPT !.handles[user] = read(answer.handles[user], n)])
                \/ FileStep(user, "readline", [answer EXCEPT !.handles[user] = readline(answer.handles[user])])
                \/ \E b \in Bytes :
                      FileStep(user, "write", [answer EXCEPT !.handles[user] = write(answer.handles[user], <<b>>)])
                \/ FileStep(user, "close", close_connection(answer, user))
    BY <1>2 DEF FileUsed
  <2> DEFINE h == answer.handles[user]
  <2>3. ASSUME NEW mode \in Modes, FileStep(user, "open", Open(answer, user, mode))
        PROVE  FileInv'
    BY <2>1, <2>3, OpenGood, FileStepInv
  <2>4. CASE h.open
    <3>1. h \in Handles /\ HandleGood(answer, h)
      BY <2>1, <2>4, OpenIsHandle DEF FileGood
    <3>2. Len(h.data) \in Nat
      BY <3>1, TextFacts DEF Handles
    <3> HIDE DEF h
    <3>3. ASSUME NEW n \in Nat, FileStep(user, "read", [answer EXCEPT !.handles[user] = read(h, n)])
          PROVE  FileInv'
      <4>1. read(h, n) \in Handles /\ HandleGood(answer, read(h, n))
        BY <3>1, ReadGood
      <4>2. FileGood([answer EXCEPT !.handles[user] = read(h, n)])
        BY <2>1, <4>1, HandleChanged
      <4> QED
        BY <3>3, <4>2, FileStepInv
    <3>4. ASSUME FileStep(user, "readline", [answer EXCEPT !.handles[user] = readline(h)])
          PROVE  FileInv'
      <4>1. readline(h) \in Handles /\ HandleGood(answer, readline(h)) /\ LineEnds(readline(h))
        BY <3>1, ReadlineGood
      <4>2. /\ FileGood([answer EXCEPT !.handles[user] = readline(h)])
            /\ [answer EXCEPT !.handles[user] = readline(h)].handles[user] = readline(h)
        BY <2>1, <4>1, HandleChanged
      <4> QED
        BY <3>4, <4>1, <4>2, FileStepInv
    <3>5. ASSUME NEW b \in Bytes, FileStep(user, "write", [answer EXCEPT !.handles[user] = write(h, <<b>>)])
          PROVE  FileInv'
      <4>1. <<b>> \in Texts1
        BY ContentsAssumption DEF Texts1
      <4>2. write(h, <<b>>) \in Handles /\ HandleGood(answer, write(h, <<b>>))
        BY <3>1, <4>1, WriteGood
      <4>3. FileGood([answer EXCEPT !.handles[user] = write(h, <<b>>)])
        BY <2>1, <4>2, HandleChanged
      <4> QED
        BY <3>5, <4>3, FileStepInv
    <3>6. ASSUME FileStep(user, "close", close_connection(answer, user))
          PROVE  FileInv'
      <4>1. FileGood(close_connection(answer, user)) /\ ClosesWell(answer, user, close_connection(answer, user))
        BY <2>1, <2>4, CloseConnectionGood DEF h
      <4> QED
        BY <3>6, <4>1, FileStepInv
    <3> QED
      BY <2>2, <2>3, <3>2, <3>3, <3>4, <3>5, <3>6 DEF h
  <2> QED
    BY <2>2, <2>3, <2>4
<1> QED
  BY <1>1, <1>2

LEMMA PartsOfTheFile == FileInv => PartsMakeTheFile
<1> SUFFICES ASSUME FileInv, asked.of = "file", NEW u \in Users, answer.handles[u].open
             PROVE  LET h == answer.handles[u]
                    IN /\ h.got = SubSeq(h.data, 1, h.p) /\ IsPrefix(h.held, h.data)
                       /\ asked.x.op = "readline" /\ asked.x.user = u /\ h.p < Len(h.data) => h.data[h.p] = Newline
  BY DEF PartsMakeTheFile
<1> DEFINE h == answer.handles[u]
<1>1. h \in Handles /\ HandleGood(answer, h)
  BY OpenIsHandle DEF FileInv, FileGood
<1>2. asked.x.op = "readline" /\ asked.x.user = u => LineEnds(h)
  BY DEF FileInv
<1>3. h.open
  OBVIOUS
<1> HIDE DEF h
<1>4. h.got \in Texts1 /\ h.data \in Texts1 /\ h.held \in Texts1
  BY <1>1 DEF Handles
<1>5. h.got = SubSeq(h.data, 1, Len(h.got)) /\ Len(h.got) = h.p
  BY <1>1, <1>4, BeginningIsSlice DEF HandleGood
<1>6. IsPrefix(h.held, h.data)
  BY <1>1, <1>4, BeginningIsSlice DEF HandleGood
<1>7. asked.x.op = "readline" /\ asked.x.user = u /\ h.p < Len(h.data) => h.data[h.p] = Newline
  BY <1>2, <1>3 DEF LineEnds
<1> QED
  BY <1>5, <1>6, <1>7 DEF h

LEMMA ClosedKept == FileInv => ClosedIsKept
BY DEF FileInv, ClosesWell, Found, ClosedIsKept

----------------------------------------------------------------------------
(* All calls together                                                      *)

KeptInv == InstancesInv /\ FileInv /\ OneRecordIsWritten /\ WrittenIsThere /\ LookupsAgree

\* A call of one kind leaves nothing to show of the others.
LEMMA OthersSayNothing ==
  /\ asked'.of # "instances" => InstancesInv'
  /\ asked'.of # "file" => FileInv'
  /\ asked'.of # "shortcut" => OneRecordIsWritten' /\ WrittenIsThere'
  /\ asked'.of # "lookup" => LookupsAgree'
BY DEF InstancesInv, FileInv, OneRecordIsWritten, WrittenIsThere, LookupsAgree, Asked

LEMMA AskedFor ==
  /\ StartInstances \/ UseInstances => asked'.of = "instances"
  /\ StoreValue => asked'.of = "store"
  /\ Shortcut => asked'.of \in {"lookup", "shortcut"}
  /\ FileCreated \/ FileUsed => asked'.of = "file"
<1>1. \A of, x, y : Ask(of, x, y) => asked'.of = of
  BY DEF Ask
<1>2. StartInstances => asked'.of = "instances"
  BY <1>1 DEF StartInstances
<1>3. \A op, uid, r : Step1(op, uid, r) => asked'.of = "instances"
  BY <1>1 DEF Step1
<1>4. UseInstances => asked'.of = "instances"
  BY <1>3 DEF UseInstances
<1>5. StoreValue => asked'.of = "store"
  BY <1>1 DEF StoreValue
<1>6. Shortcut => asked'.of \in {"lookup", "shortcut"}
  BY ShortcutsDoAsAsked
<1>7. \A user, op, f : FileStep(user, op, f) => asked'.of = "file"
  BY <1>1 DEF FileStep
<1>8. FileCreated => asked'.of = "file"
  BY <1>1 DEF FileCreated
<1>9. FileUsed => asked'.of = "file"
  BY <1>7 DEF FileUsed
<1> QED
  BY <1>2, <1>4, <1>5, <1>6, <1>8, <1>9

LEMMA KeptInduction == KeptSpec => []KeptInv
<1>1. Idle => KeptInv
  BY DEF Idle, KeptInv, InstancesInv, FileInv, OneRecordIsWritten, WrittenIsThere, LookupsAgree, Asked
<1>2. ASSUME KeptInv, [Keep]_calls
      PROVE  KeptInv'
  <2>1. CASE StartInstances \/ UseInstances
    <3>1. InstancesInv'
      BY <1>2, <2>1, InstancesStep DEF KeptInv
    <3> QED
      BY <2>1, <3>1, AskedFor, OthersSayNothing DEF KeptInv
  <2>2. CASE StoreValue
    BY <2>2, AskedFor, OthersSayNothing DEF KeptInv
  <2>3. CASE Shortcut
    <3>1. OneRecordIsWritten' /\ WrittenIsThere' /\ LookupsAgree'
      BY <2>3, ShortcutsDoAsAsked
    <3> QED
      BY <2>3, <3>1, AskedFor, OthersSayNothing DEF KeptInv
  <2>4. CASE FileCreated \/ FileUsed
    <3>1. FileInv'
      BY <1>2, <2>4, FileStepped DEF KeptInv
    <3> QED
      BY <2>4, <3>1, AskedFor, OthersSayNothing DEF KeptInv
  <2>5. CASE UNCHANGED calls
    BY <1>2, <2>5 DEF KeptInv, InstancesInv, FileInv, OneRecordIsWritten, WrittenIsThere, LookupsAgree, Asked, Changed, calls
  <2> QED
    BY <1>2, <2>1, <2>2, <2>3, <2>4, <2>5 DEF Keep
<1> QED
  BY <1>1, <1>2, PTL DEF KeptSpec

----------------------------------------------------------------------------
(* The theorems                                                            *)

\* Whatever is stored in a column of whatever type, a bound parameter puts into
\* it what the literal would (_adapt_for_bind, SQLRepresenter).
THEOREM BoundIsLiteral == KeptSpec => []SameEitherWay
<1>1. SameEitherWay
  BY BoundAsLiteral DEF SameEitherWay
<1> QED
  BY <1>1, PTL

\* One record at most is written, added or taken by a call that uses a table as
\* a dictionary or inserts or updates, and none by one that raises, but for the
\* calls on part of a key (Table.__setitem__, __delitem__, update_or_insert,
\* validate_and_update_or_insert).
THEOREM OneRecordPerCall == KeptSpec => []OneRecordIsWritten
<1>1. KeptInv => OneRecordIsWritten
  BY DEF KeptInv
<1> QED
  BY <1>1, KeptInduction, PTL

\* After such a call the record has what was written, and one that the key found
\* beforehand is not joined by another.
THEOREM WrittenOnce == KeptSpec => []WrittenIsThere
<1>1. KeptInv => WrittenIsThere
  BY DEF KeptInv
<1> QED
  BY <1>1, KeptInduction, PTL

\* A record that is looked up agrees with all that was asked, and none is found
\* only if none agrees, but with a query (Table.__call__).
THEOREM LookedUpAgrees == KeptSpec => []LookupsAgree
<1>1. KeptInv => LookupsAgree
  BY DEF KeptInv
<1> QED
  BY <1>1, KeptInduction, PTL

\* Whatever several users open, read, write and close, in whatever order, the
\* parts each has read make up the beginning of its content, which goes on with
\* what it wrote (read, readline and write of DatabaseStoredFile).
THEOREM PartsAreTheFile == KeptSpec => []PartsMakeTheFile
<1>1. KeptInv => PartsMakeTheFile
  BY PartsOfTheFile DEF KeptInv
<1> QED
  BY <1>1, KeptInduction, PTL

\* What one writes is there when it has closed, behind what was there, unless
\* another has closed in between (close_connection of DatabaseStoredFile).
THEOREM WhatIsClosedIsKept == KeptSpec => []ClosedIsKept
<1>1. KeptInv => ClosedIsKept
  BY ClosedKept DEF KeptInv
<1> QED
  BY <1>1, KeptInduction, PTL

\* All that the run `queries` asks of these calls: instances, values, records and
\* files are found as they were kept.
THEOREM KeptAreFound == KeptSpec => []KeptIsFound
<1>1. KeptInv => OpenOnesAreListed /\ UnpickledIsConnected /\ OthersStayOpen
  BY OpenOnesListed, UnpickledConnected, OthersOpen DEF KeptInv
<1>2. SameEitherWay
  BY BoundAsLiteral DEF SameEitherWay
<1>3. KeptInv => PartsMakeTheFile /\ ClosedIsKept
  BY PartsOfTheFile, ClosedKept DEF KeptInv
<1>4. KeptInv => LookupsAgree /\ OneRecordIsWritten /\ WrittenIsThere
  BY DEF KeptInv
<1>5. KeptInv => KeptIsFound
  BY <1>1, <1>2, <1>3, <1>4 DEF KeptIsFound
<1> QED
  BY <1>5, KeptInduction, PTL
=============================================================================
