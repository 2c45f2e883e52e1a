--------------------------- MODULE ValidatorsProofs ---------------------------
(* Proofs that what a validator accepts is what was asked for, that passwords *)
(* are told and times of forms read back, for every value of the constants:   *)
(* any addresses and ranges, names and sizes of files, values, rows and       *)
(* records referred to, passwords, keys and requirements, moments and zones.  *)
EXTENDS Validators, SequenceTheorems, FiniteSetTheorems, WellFoundedInduction, TLAPS

\* A set of naturals has a least.
LEMMA Least ==
  ASSUME NEW S \in SUBSET Nat, S # {}
  PROVE  \E m \in S : \A n \in S : m <= n
<1> DEFINE R == OpToRel(<, Nat)
<1>1. IsWellFoundedOn(R, Nat)
  BY NatLessThanWellFounded
<1>2. \A k, m \in Nat : k < m => <<k, m>> \in R
  BY DEF OpToRel
<1> HIDE DEF R
<1>3. PICK m \in S : \A n \in S : ~ (<<n, m>> \in R)
  BY <1>1, WFMin
<1>4. ASSUME NEW n \in S PROVE m <= n
  <2>1. m \in Nat /\ n \in Nat /\ ~ (n < m)
    BY <1>2, <1>3
  <2> QED
    BY <2>1
<1> QED
  BY <1>3, <1>4

\* A bounded set of naturals has a greatest.
LEMMA Greatest ==
  ASSUME NEW D \in SUBSET Nat, D # {}, NEW N \in Nat, \A i \in D : i <= N
  PROVE  Max(D) \in D /\ \A i \in D : i <= Max(D)
<1> DEFINE U == {n \in Nat : \A i \in D : i <= n}
<1>1. U \in SUBSET Nat /\ U # {}
  OBVIOUS
<1>2. PICK m \in U : \A n \in U : m <= n
  BY <1>1, Least
<1>3. m \in D
  <2>1. SUFFICES ASSUME m \notin D PROVE FALSE
    OBVIOUS
  <2>2. PICK i \in D : TRUE
    OBVIOUS
  <2>3. m \in Nat /\ \A k \in D : k \in Nat /\ k <= m /\ k # m
    BY <2>1
  <2>4. m - 1 \in Nat
    BY <2>2, <2>3
  <2>5. \A k \in D : k <= m - 1
    BY <2>3, <2>4
  <2>6. m - 1 \in U
    BY <2>4, <2>5
  <2> QED
    BY <1>2, <2>3, <2>6
<1>4. \A y \in D : m >= y
  BY <1>2
<1>5. Max(D) = CHOOSE x \in D : \A y \in D : x >= y
  BY DEF Max
<1>6. Max(D) \in D /\ \A y \in D : Max(D) >= y
  BY <1>3, <1>4, <1>5
<1> QED
  BY <1>6

LEMMA Outcomes == Err.error = TRUE /\ \A v : Ok(v).error = FALSE /\ Ok(v).value = v
BY DEF Err, Ok

-------------------------------------------------------------------------------
(* Addresses                                                                  *)

\* A number with one more digit. The digit tells only between equal numbers.
Put(x, p) == Base * x + p

LEMMA Digit ==
  ASSUME NEW x \in Int, NEW y \in Int, NEW p \in 0 .. Base - 1, NEW q \in 0 .. Base - 1
  PROVE  /\ Put(x, p) \in Int /\ Put(y, q) \in Int
         /\ Put(x, p) < Put(y, q) <=> x < y \/ (x = y /\ p < q)
         /\ Put(x, p) = Put(y, q) <=> x = y /\ p = q
<1> DEFINE B == Base
           bx == B * x
           by == B * y
<1>1. B \in Int /\ p \in Int /\ q \in Int /\ 0 <= p /\ p < B /\ 0 <= q /\ q < B
  BY AddressesAssumption
<1>2. Put(x, p) = bx + p /\ Put(y, q) = by + q
  BY DEF Put
<1>3. bx \in Int /\ by \in Int
  BY <1>1
<1>4. (x < y => bx + B <= by) /\ (y < x => by + B <= bx) /\ (x = y => bx = by)
  BY <1>1
<1> HIDE DEF B, bx, by
<1>5. CASE x < y
  BY <1>1, <1>2, <1>3, <1>4, <1>5
<1>6. CASE y < x
  BY <1>1, <1>2, <1>3, <1>4, <1>6
<1>7. CASE x = y
  BY <1>1, <1>2, <1>3, <1>4, <1>7
<1> QED
  BY <1>5, <1>6, <1>7

LEMMA DigitTells ==
  ASSUME NEW x, NEW y, NEW p, NEW q, x \in Int, y \in Int, p \in 0 .. Base - 1, q \in 0 .. Base - 1
  PROVE  /\ Put(x, p) \in Int /\ Put(y, q) \in Int
         /\ Put(x, p) < Put(y, q) <=> x < y \/ (x = y /\ p < q)
         /\ Put(x, p) = Put(y, q) <=> x = y /\ p = q
BY Digit

LEMMA FourOctets ==
  ASSUME NEW a, IsV4(a)
  PROVE  /\ DOMAIN a = 1 .. 4 /\ a = [i \in 1 .. 4 |-> a[i]]
         /\ \A i \in 1 .. 4 : a[i] \in 0 .. Base - 1 /\ a[i] \in Int
<1>1. a \in Seq(0 .. Base - 1) /\ Len(a) = 4
  BY DEF IsV4
<1>2. a \in [1 .. 4 -> 0 .. Base - 1]
  BY <1>1, LenProperties
<1> QED
  BY <1>2, AddressesAssumption

\* Numbers are in the order of the octets, from the first.
LEMMA NumbersInOrder ==
  ASSUME NEW a, NEW b, IsV4(a), IsV4(b)
  PROVE  /\ numbers(a) <= numbers(b) <=> Before(a, b)
         /\ numbers(a) \in Int
<1> DEFINE two(s) == Put(s[1], s[2])
           three(s) == Put(two(s), s[3])
           four(s) == Put(three(s), s[4])
<1>2. /\ \A i \in 1 .. 4 : a[i] \in 0 .. Base - 1 /\ a[i] \in Int /\ b[i] \in 0 .. Base - 1 /\ b[i] \in Int
      /\ a = [i \in 1 .. 4 |-> a[i]] /\ b = [i \in 1 .. 4 |-> b[i]]
  BY FourOctets
<1>0. /\ a[1] \in Int /\ a[2] \in Int /\ a[3] \in Int /\ a[4] \in Int
      /\ b[1] \in Int /\ b[2] \in Int /\ b[3] \in Int /\ b[4] \in Int
      /\ a[2] \in 0 .. Base - 1 /\ a[3] \in 0 .. Base - 1 /\ a[4] \in 0 .. Base - 1
      /\ b[2] \in 0 .. Base - 1 /\ b[3] \in 0 .. Base - 1 /\ b[4] \in 0 .. Base - 1
      /\ Base \in Int
  BY <1>2, AddressesAssumption
<1>3. ASSUME NEW s, s[1] \in Int, s[2] \in Int, s[3] \in Int, s[4] \in Int
      PROVE  numbers(s) = four(s)
  <2> DEFINE B == Base
             B1 == B * s[1]
             B2 == B * s[2]
             B3 == B * s[3]
  <2>1. B \in Int
    BY AddressesAssumption
  <2>2. numbers(s) = B * B * B * s[1] + B * B * s[2] + B * s[3] + s[4]
    BY DEF numbers
  <2>3. four(s) = B * (B * (B * s[1] + s[2]) + s[3]) + s[4]
    BY DEF Put
  <2> HIDE DEF B, four
  <2>4. B * (B * (B * s[1] + s[2]) + s[3]) = B * (B * (B * s[1] + s[2])) + B * s[3]
    BY <1>3, <2>1
  <2>5. B * (B * s[1] + s[2]) = B * B * s[1] + B * s[2]
    BY <1>3, <2>1
  <2>6. B * (B * B * s[1] + B * s[2]) = B * B * B * s[1] + B * B * s[2]
    BY <1>3, <2>1
  <2> QED
    BY <1>3, <2>1, <2>2, <2>3, <2>4, <2>5, <2>6
<1>4. /\ two(a) \in Int /\ two(b) \in Int
      /\ two(a) < two(b) <=> a[1] < b[1] \/ (a[1] = b[1] /\ a[2] < b[2])
      /\ two(a) = two(b) <=> a[1] = b[1] /\ a[2] = b[2]
  BY <1>0, DigitTells
<1> HIDE DEF two
<1>5. /\ three(a) \in Int /\ three(b) \in Int
      /\ three(a) < three(b) <=> two(a) < two(b) \/ (two(a) = two(b) /\ a[3] < b[3])
      /\ three(a) = three(b) <=> two(a) = two(b) /\ a[3] = b[3]
  BY <1>0, <1>4, DigitTells
<1> HIDE DEF three
<1>6. /\ four(a) \in Int /\ four(b) \in Int
      /\ four(a) < four(b) <=> three(a) < three(b) \/ (three(a) = three(b) /\ a[4] < b[4])
      /\ four(a) = four(b) <=> three(a) = three(b) /\ a[4] = b[4]
  BY <1>0, <1>5, DigitTells
<1> HIDE DEF four
<1> DEFINE Same(n) == \A j \in 1 .. n : a[j] = b[j]
<1>7. /\ Same(0) /\ (Same(1) <=> a[1] = b[1]) /\ (Same(2) <=> a[1] = b[1] /\ a[2] = b[2])
      /\ Same(3) <=> a[1] = b[1] /\ a[2] = b[2] /\ a[3] = b[3]
      /\ a = b <=> a[1] = b[1] /\ a[2] = b[2] /\ a[3] = b[3] /\ a[4] = b[4]
  <2>1. a = b <=> \A i \in 1 .. 4 : a[i] = b[i]
    BY <1>2
  <2>2. 1 .. 0 = {} /\ 1 .. 1 = {1} /\ 1 .. 2 = {1, 2} /\ 1 .. 3 = {1, 2, 3} /\ 1 .. 4 = {1, 2, 3, 4}
    OBVIOUS
  <2> QED
    BY <2>1, <2>2
<1>8. Before(a, b) <=> a = b \/ \E i \in 1 .. 4 : a[i] < b[i] /\ Same(i - 1)
  BY DEF Before
<1> HIDE DEF Same
<1>9. (\E i \in 1 .. 4 : a[i] < b[i] /\ Same(i - 1)) <=>
        \/ a[1] < b[1] \/ (a[2] < b[2] /\ Same(1)) \/ (a[3] < b[3] /\ Same(2)) \/ (a[4] < b[4] /\ Same(3))
  <2>1. 1 - 1 = 0 /\ 2 - 1 = 1 /\ 3 - 1 = 2 /\ 4 - 1 = 3
    OBVIOUS
  <2>2. ASSUME NEW i \in 1 .. 4, a[i] < b[i] /\ Same(i - 1)
        PROVE  a[1] < b[1] \/ (a[2] < b[2] /\ Same(1)) \/ (a[3] < b[3] /\ Same(2)) \/ (a[4] < b[4] /\ Same(3))
    <3>1. i = 1 \/ i = 2 \/ i = 3 \/ i = 4
      OBVIOUS
    <3> QED
      BY <2>1, <2>2, <3>1
  <2>3. a[1] < b[1] => a[1] < b[1] /\ Same(1 - 1)
    BY <1>7, <2>1
  <2>4. 1 \in 1 .. 4 /\ 2 \in 1 .. 4 /\ 3 \in 1 .. 4 /\ 4 \in 1 .. 4
    OBVIOUS
  <2> QED
    BY <2>1, <2>2, <2>3, <2>4
<1>10. four(a) <= four(b) <=> Before(a, b)
  BY <1>4, <1>5, <1>6, <1>7, <1>8, <1>9
<1> QED
  BY <1>2, <1>3, <1>6, <1>10

\* What was asked of an address, and what the answer was.
AddressAnswered ==
    asked.of = "ip" =>
       \E a \in Addresses : \E f : f.ranges \in IpRanges /\ asked.x = [a |-> a, f |-> f] /\ answer = IS_IPADDRESS(a, f)

LEMMA FamilyTold == AddressAnswered => FamilyTells
<1> SUFFICES ASSUME AddressAnswered, asked.of = "ip" PROVE FamilyTells
  BY DEF FamilyTells
<1>0. PICK a \in Addresses : \E f : asked.x = [a |-> a, f |-> f] /\ answer = IS_IPADDRESS(a, f)
  BY DEF AddressAnswered
<1>1. PICK f : asked.x = [a |-> a, f |-> f] /\ answer = IS_IPADDRESS(a, f)
  BY <1>0
<1>2. asked.x.a = a /\ asked.x.f = f
  BY <1>1
<1>3. Len(a) = 4 \/ Len(a) = 8
  BY AddressesAssumption DEF IsV4
<1> DEFINE four == IS_IPV4(a, f)
           six == IS_IPV6(a, f)
<1>4. answer = LET v4 == TRUE \in f.is_ipv4 \/ FALSE \in f.is_ipv6
                   v6 == TRUE \in f.is_ipv6 \/ FALSE \in f.is_ipv4
               IN CASE v4 /\ Len(a) = 8 -> Err
                    [] v6 /\ Len(a) = 4 -> Err
                    [] OTHER -> IF Len(a) = 4 THEN four ELSE six
  BY <1>1 DEF IS_IPADDRESS
<1>5. CASE Len(a) = 4
  <2>1. ~ answer.error <=> ~ four.error /\ FALSE \notin f.is_ipv4 /\ TRUE \notin f.is_ipv6
    <3> HIDE DEF four, six
    <3>1. CASE TRUE \in f.is_ipv6 \/ FALSE \in f.is_ipv4
      <4>1. answer = Err
        BY <1>4, <1>5, <3>1
      <4> QED
        BY <3>1, <4>1, Outcomes
    <3>2. CASE ~ (TRUE \in f.is_ipv6 \/ FALSE \in f.is_ipv4)
      <4>1. answer = four
        BY <1>4, <1>5, <3>2
      <4> QED
        BY <3>2, <4>1
    <3> QED
      BY <3>1, <3>2
  <2> QED
    BY <1>2, <1>5, <2>1 DEF FamilyTells
<1>6. CASE Len(a) = 8
  <2>1. ~ answer.error <=> ~ six.error /\ FALSE \notin f.is_ipv6 /\ TRUE \notin f.is_ipv4
    <3> HIDE DEF four, six
    <3>1. CASE TRUE \in f.is_ipv4 \/ FALSE \in f.is_ipv6
      <4>1. answer = Err
        BY <1>4, <1>6, <3>1
      <4> QED
        BY <3>1, <4>1, Outcomes
    <3>2. CASE ~ (TRUE \in f.is_ipv4 \/ FALSE \in f.is_ipv6)
      <4>1. answer = six
        BY <1>4, <1>6, <3>2
      <4> QED
        BY <3>2, <4>1
    <3> QED
      BY <3>1, <3>2
  <2>2. Len(asked.x.a) # 4
    BY <1>2, <1>6
  <2> QED
    BY <1>2, <2>1, <2>2 DEF FamilyTells
<1> QED
  BY <1>3, <1>5, <1>6

LEMMA RangesTold == AddressAnswered => RangesTell
<1> SUFFICES ASSUME AddressAnswered, asked.of = "ip", Len(asked.x.a) = 4, ~ answer.error
             PROVE  \E r \in Range(asked.x.f.ranges) :
                       asked.x.f.invert # (Before(r[1], asked.x.a) /\ Before(asked.x.a, r[2]))
  BY DEF RangesTell
<1>0. PICK a \in Addresses : \E f : /\ f.ranges \in IpRanges /\ asked.x = [a |-> a, f |-> f]
                                     /\ answer = IS_IPADDRESS(a, f)
  BY DEF AddressAnswered
<1>1. PICK f : f.ranges \in IpRanges /\ asked.x = [a |-> a, f |-> f] /\ answer = IS_IPADDRESS(a, f)
  BY <1>0
<1>2. asked.x.a = a /\ asked.x.f = f /\ Len(a) = 4
  BY <1>1
<1>3. ~ IS_IPV4(a, f).error
  BY <1>1, <1>2, Outcomes DEF IS_IPADDRESS
<1>4. \E r \in Range(f.ranges) : f.invert # InRange(numbers(a), r)
  BY <1>3, Outcomes DEF IS_IPV4
<1>5. PICK r \in Range(f.ranges) : f.invert # InRange(numbers(a), r)
  BY <1>4
<1>6. IsV4(a) /\ IsV4(r[1]) /\ IsV4(r[2])
  BY <1>1, <1>2, AddressesAssumption
<1>7. InRange(numbers(a), r) = (Before(r[1], a) /\ Before(a, r[2]))
  BY <1>6, NumbersInOrder DEF InRange
<1> QED
  BY <1>2, <1>5, <1>7

-------------------------------------------------------------------------------
(* Files                                                                      *)

FileAnswered ==
    asked.of = "file" =>
       \E n \in FileNames, lastdot \in BOOLEAN, case \in 0..2, upload \in BOOLEAN, e \in {{}, {<<"a">>}} :
          LET f == [filename |-> {}, extension |-> e, lastdot |-> lastdot, case |-> case]
          IN  /\ asked.x = [n |-> n, f |-> f]
              /\ answer = IF upload THEN IS_UPLOAD_FILENAME(n, f) ELSE IS_FILE(n, f)

LEMMA CasedName ==
  ASSUME NEW name \in FileNames, NEW case
  PROVE  /\ Len(name) \in Nat /\ DOMAIN name = 1 .. Len(name)
         /\ DOMAIN Cased(name, case) = 1 .. Len(name) /\ Len(Cased(name, case)) = Len(name)
         /\ \A i \in 1 .. Len(name) : (Cased(name, case)[i] = "." => name[i] = ".")
         /\ \A i \in 1 .. Len(name) : (case = 2 => Cased(name, case)[i] # "a")
<1>1. name \in Seq(UNION {Range(n) : n \in FileNames})
  BY FilesAssumption
<1>2. Len(name) \in Nat /\ DOMAIN name = 1 .. Len(name)
  BY <1>1
<1> DEFINE c == Cased(name, case)
<1>3. DOMAIN c = 1 .. Len(name)
  BY <1>2 DEF Cased
<1>4. c \in Seq({c[i] : i \in 1 .. Len(name)})
  <2>1. c = [i \in 1 .. Len(name) |-> c[i]]
    BY <1>2 DEF Cased
  <2> HIDE DEF c
  <2>2. c \in [1 .. Len(name) -> {c[i] : i \in 1 .. Len(name)}]
    BY <2>1
  <2> QED
    BY <1>2, <2>2
<1>5. Len(c) = Len(name)
  <2> HIDE DEF c
  <2> QED
    BY <1>2, <1>3, <1>4
<1>6. ASSUME NEW i \in 1 .. Len(name) PROVE (c[i] = "." => name[i] = ".") /\ (case = 2 => c[i] # "a")
  <2>1. c[i] = CASE case = 1 /\ name[i] = "A" -> "a" [] case = 2 /\ name[i] = "a" -> "A" [] OTHER -> name[i]
    BY <1>2, <1>6 DEF Cased
  <2> HIDE DEF c
  <2>2. CASE case = 1 /\ name[i] = "A"
    BY <2>1, <2>2
  <2>3. CASE case = 2 /\ name[i] = "a"
    BY <2>1, <2>3
  <2>4. CASE ~ (case = 1 /\ name[i] = "A") /\ ~ (case = 2 /\ name[i] = "a")
    BY <2>1, <2>4
  <2> QED
    BY <2>2, <2>3, <2>4
<1> QED
  BY <1>2, <1>3, <1>5, <1>6

\* What follows the dot, if anything, is in the name.
LEMMA SplitAtDot ==
  ASSUME NEW c, NEW N \in Nat, DOMAIN c = 1 .. N, Len(c) = N, NEW lastdot,
         NEW d, d = Split(c, lastdot)[2], Len(d) >= 1
  PROVE  /\ \E i \in 1 .. N : c[i] = "."
         /\ \E i \in 1 .. N : d[1] = c[i]
<1> DEFINE dots == {i \in DOMAIN c : c[i] = "."}
           dot == CASE dots = {} -> Len(c) + 1 [] dots # {} /\ lastdot -> Max(dots) [] OTHER -> Min(dots)
<1>1. d = SubSeq(c, dot + 1, Len(c))
  BY DEF Split
<1>2. dots \in SUBSET Nat /\ \A i \in dots : i \in 1 .. N /\ c[i] = "." /\ i <= N
  OBVIOUS
<1>3. dot = IF dots = {} THEN N + 1 ELSE IF lastdot THEN Max(dots) ELSE Min(dots)
  OBVIOUS
<1> HIDE DEF dots, dot
<1>4. dots # {} => dot \in dots
  <2>1. ASSUME dots # {} PROVE Max(dots) \in dots
    BY <1>2, <2>1, Greatest
  <2>2. ASSUME dots # {} PROVE Min(dots) \in dots
    <3>1. \E m \in dots : \A n \in dots : m <= n
      BY <1>2, <2>2, Least
    <3> QED
      BY <3>1 DEF Min
  <2> QED
    BY <1>3, <2>1, <2>2
<1>5. dot \in Nat
  BY <1>2, <1>3, <1>4
<1>6. dot + 1 <= N
  <2>1. SUFFICES ASSUME N < dot + 1 PROVE FALSE
    BY <1>5
  <2>2. d = <<>>
    BY <1>1, <1>5, <2>1, SubSeqEmpty
  <2> QED
    BY <2>2
<1>7. dots # {}
  BY <1>3, <1>6
<1>8. d[1] = c[dot + 1] /\ dot + 1 \in 1 .. N
  <2>1. \A i \in (dot + 1) .. N : c[i] \in {c[k] : k \in 1 .. N}
    BY <1>5
  <2>2. \A i \in 1 .. N - (dot + 1) + 1 : SubSeq(c, dot + 1, N)[i] = c[(dot + 1) + i - 1]
    BY <1>5, <2>1, SubSeqProperties
  <2>3. 1 \in 1 .. N - (dot + 1) + 1 /\ (dot + 1) + 1 - 1 = dot + 1
    BY <1>5, <1>6
  <2> QED
    BY <1>1, <1>5, <1>6, <2>2, <2>3
<1> QED
  BY <1>2, <1>4, <1>7, <1>8

LEMMA FilesTold == FileAnswered => FilesHaveExtensions
<1> SUFFICES ASSUME FileAnswered, asked.of = "file", ~ answer.error, asked.x.f.extension # {}
             PROVE  /\ "." \in Range(asked.x.n) /\ ~ IS_UPLOAD_FILENAME(asked.x.n, asked.x.f).error
                    /\ asked.x.f.case # 2
  BY DEF FilesHaveExtensions
<1>1. PICK n \in FileNames, lastdot \in BOOLEAN, case \in 0..2, upload \in BOOLEAN, e \in {{}, {<<"a">>}} :
          LET f == [filename |-> {}, extension |-> e, lastdot |-> lastdot, case |-> case]
          IN  /\ asked.x = [n |-> n, f |-> f]
              /\ answer = IF upload THEN IS_UPLOAD_FILENAME(n, f) ELSE IS_FILE(n, f)
  BY DEF FileAnswered
<1> DEFINE f == [filename |-> {}, extension |-> e, lastdot |-> lastdot, case |-> case]
           c == Cased(n, case)
           d == Split(c, lastdot)[2]
<1>2. asked.x.n = n /\ asked.x.f = f /\ f.extension = e /\ f.case = case /\ f.filename = {} /\ f.lastdot = lastdot
  BY <1>1
<1>3. e = {<<"a">>}
  BY <1>2
<1>4. ~ IS_UPLOAD_FILENAME(n, f).error <=> IsPrefix(<<"a">>, d)
  <2>1. \A S : (\E s \in {<<"a">>} : IsPrefix(s, S)) <=> IsPrefix(<<"a">>, S)
    OBVIOUS
  <2> QED
    BY <1>2, <1>3, <2>1, Outcomes DEF IS_UPLOAD_FILENAME
<1>5. ~ IS_FILE(n, f).error <=> d = <<"a">>
  BY <1>2, <1>3, Outcomes DEF IS_FILE
<1>6. IsPrefix(<<"a">>, d)
  <2>1. IsPrefix(<<"a">>, <<"a">>)
    BY DEF IsPrefix
  <2> QED
    BY <1>1, <1>4, <1>5, <2>1
<1>7. Len(d) >= 1 /\ d[1] = "a"
  BY <1>6 DEF IsPrefix
<1>8. /\ \E i \in 1 .. Len(n) : c[i] = "."
      /\ \E i \in 1 .. Len(n) : d[1] = c[i]
  BY <1>7, CasedName, SplitAtDot
<1>9. "." \in Range(n)
  <2>1. PICK i \in 1 .. Len(n) : c[i] = "."
    BY <1>8
  <2>2. DOMAIN n = 1 .. Len(n) /\ \A k \in 1 .. Len(n) : c[k] = "." => n[k] = "."
    BY CasedName
  <2>3. n[i] = "." /\ i \in DOMAIN n
    <3> HIDE DEF c
    <3> QED
      BY <2>1, <2>2
  <2> QED
    BY <2>3 DEF Range
<1>10. case # 2
  BY <1>7, <1>8, CasedName
<1> QED
  BY <1>2, <1>4, <1>6, <1>9, <1>10

ImageAnswered ==
    asked.of = "image" =>
       \E e \in Headers \cup {"jpg", "exe"}, h \in Headers, s \in SizesOfImages, r \in {<<-1, -1>>, <<2, 1>>} :
          LET file == [extension |-> e, header |-> h, size |-> s]
              f == [extensions |-> {"png", "jpeg"}, minsize |-> <<0, 0>>, maxsize |-> <<3, 3>>, aspectratio |-> r]
          IN  asked.x = [file |-> file, f |-> f] /\ answer = IS_IMAGE(file, f)

LEMMA ImagesTold == ImageAnswered => ImagesAreWhatTheyClaim
<1> SUFFICES ASSUME ImageAnswered, asked.of = "image", ~ answer.error
             PROVE  ImagesAreWhatTheyClaim
  BY DEF ImagesAreWhatTheyClaim
<1>1. PICK e \in Headers \cup {"jpg", "exe"}, h \in Headers, s \in SizesOfImages, r \in {<<-1, -1>>, <<2, 1>>} :
          LET file == [extension |-> e, header |-> h, size |-> s]
              f == [extensions |-> {"png", "jpeg"}, minsize |-> <<0, 0>>, maxsize |-> <<3, 3>>, aspectratio |-> r]
          IN  asked.x = [file |-> file, f |-> f] /\ answer = IS_IMAGE(file, f)
  BY DEF ImageAnswered
<1> DEFINE file == [extension |-> e, header |-> h, size |-> s]
           f == [extensions |-> {"png", "jpeg"}, minsize |-> <<0, 0>>, maxsize |-> <<3, 3>>, aspectratio |-> r]
           extension == IF file.extension = "jpg" THEN "jpeg" ELSE file.extension
           size == SizeOf(extension, file)
<1>2. asked.x.file = file /\ asked.x.f = f
  BY <1>1
<1>3. /\ extension \in f.extensions
      /\ \A i \in 1..2 : f.minsize[i] <= size[i] /\ size[i] <= f.maxsize[i]
      /\ f.aspectratio # <<-1, -1>> => size[2] * f.aspectratio[1] = f.aspectratio[2] * size[1]
  BY <1>1, Outcomes DEF IS_IMAGE
<1>4. file.header = extension
  <2>1. size[1] >= 0
    BY <1>3
  <2> QED
    BY <2>1 DEF SizeOf
<1>5. s[1] \in Int /\ s[2] \in Int
  BY FilesAssumption
<1>6. r = <<2, 1>> => file.size[1] = 2 * file.size[2]
  <2>1. size = s
    BY <1>4 DEF SizeOf
  <2>2. r = <<2, 1>> => s[2] * 2 = 1 * s[1]
    BY <1>3, <2>1
  <2> QED
    BY <1>5, <2>2
<1> QED
  BY <1>2, <1>3, <1>4, <1>6 DEF ImagesAreWhatTheyClaim

-------------------------------------------------------------------------------
(* Validators in validators                                                   *)

Wraps == {"IS_EMPTY_OR", "ANY_OF", "IS_LIST_OF", "IS_IN_DB"}

\* One that wraps none is asked alike at any depth.
LEMMA AtAnyDepth ==
  ASSUME NEW f, f.is \notin Wraps, NEW v, NEW id
  PROVE  /\ Validate(f, v, id) = Unwrapped(f, v, id)
         /\ Inside(f, v, id) = Unwrapped(f, v, id)
         /\ Innermost(f, v, id) = Unwrapped(f, v, id)
<1>1. f.is # "IS_EMPTY_OR" /\ f.is # "ANY_OF" /\ f.is # "IS_LIST_OF" /\ f.is # "IS_IN_DB"
  BY DEF Wraps
<1>2. Validate(f, v, id) = Unwrapped(f, v, id)
  BY <1>1 DEF Validate, Wrapping
<1>3. Inside(f, v, id) = Unwrapped(f, v, id)
  BY <1>1 DEF Inside, Wrapping
<1>4. Innermost(f, v, id) = Unwrapped(f, v, id)
  BY <1>1 DEF Innermost, Wrapping
<1> QED
  BY <1>2, <1>3, <1>4

LEMMA ChainsOf ==
  /\ \A v, id : /\ Chained(<<>>, v, id) = Ok(v) /\ Chain(Inside, <<>>, v, id) = Ok(v)
                /\ Chain(Innermost, <<>>, v, id) = Ok(v) /\ Chain(Unwrapped, <<>>, v, id) = Ok(v)
  /\ \A f, v, id : /\ Chained(<<f>>, v, id) = Validate(f, v, id)
                   /\ Chain(Inside, <<f>>, v, id) = Inside(f, v, id)
                   /\ Chain(Innermost, <<f>>, v, id) = Innermost(f, v, id)
  /\ \A f, g, v, id :
        LET r == Validate(f, v, id)
        IN  Chained(<<f, g>>, v, id) = IF r.error THEN r ELSE Validate(g, r.value, id)
  /\ \A f, g, h, v, id :
        LET r == Chained(<<f, g>>, v, id)
        IN  Chained(<<f, g, h>>, v, id) = IF r.error THEN r ELSE Validate(h, r.value, id)
<1>1. \A v, id : /\ Chained(<<>>, v, id) = Ok(v) /\ Chain(Inside, <<>>, v, id) = Ok(v)
                 /\ Chain(Innermost, <<>>, v, id) = Ok(v) /\ Chain(Unwrapped, <<>>, v, id) = Ok(v)
  BY DEF Chained, Chain
<1>2. \A f, v, id : /\ Chained(<<f>>, v, id) = Validate(f, v, id)
                    /\ Chain(Inside, <<f>>, v, id) = Inside(f, v, id)
                    /\ Chain(Innermost, <<f>>, v, id) = Innermost(f, v, id)
  BY DEF Chained, Chain
<1>3. \A f, g, v, id :
         LET r == Validate(f, v, id)
         IN  Chained(<<f, g>>, v, id) = IF r.error THEN r ELSE Validate(g, r.value, id)
  BY DEF Chained, Chain, Then
<1>4. \A f, g, h, v, id :
         LET r == Chained(<<f, g>>, v, id)
         IN  Chained(<<f, g, h>>, v, id) = IF r.error THEN r ELSE Validate(h, r.value, id)
  BY DEF Chained, Chain, Then
<1> QED
  BY <1>1, <1>2, <1>3, <1>4

\* What the wrapped ones make of each item, and of what is found.
Items(Inner(_, _, _), f, v, id) == [i \in DOMAIN ItemsOf(v) |-> Chain(Inner, f.other, ItemsOf(v)[i], id)]
FoundThen(Inner(_, _, _), f, v, id) ==
    IF InDb(f, v).error THEN InDb(f, v) ELSE Chain(Inner, f.and, InDb(f, v).value, id)

LEMMA WrappersOf ==
  ASSUME NEW v, NEW id
  PROVE  /\ \A f : f.is = "IS_EMPTY_OR" => Validate(f, v, id) = EmptyOrOther(f, v, Chain(Inside, f.other, v, id))
         /\ \A f : f.is = "IS_LIST_OF" =>
                     /\ Validate(f, v, id) = ListOf(f, v, Items(Inside, f, v, id))
                     /\ Inside(f, v, id) = ListOf(f, v, Items(Innermost, f, v, id))
         /\ \A f : f.is = "IS_IN_DB" =>
                     /\ Validate(f, v, id) = FoundThen(Inside, f, v, id)
                     /\ Inside(f, v, id) = FoundThen(Innermost, f, v, id)
                     /\ Innermost(f, v, id) = FoundThen(Unwrapped, f, v, id)
<1>1. \A f : f.is = "IS_EMPTY_OR" => Validate(f, v, id) = EmptyOrOther(f, v, Chain(Inside, f.other, v, id))
  BY DEF Validate, Wrapping, Items, FoundThen
<1>2. \A f : f.is = "IS_LIST_OF" => Validate(f, v, id) = ListOf(f, v, Items(Inside, f, v, id))
  BY DEF Validate, Wrapping, Items, FoundThen
<1>3. \A f : f.is = "IS_LIST_OF" => Inside(f, v, id) = ListOf(f, v, Items(Innermost, f, v, id))
  BY DEF Inside, Wrapping, Items, FoundThen
<1>4. \A f : f.is = "IS_IN_DB" => Validate(f, v, id) = FoundThen(Inside, f, v, id)
  BY DEF Validate, Wrapping, Items, FoundThen
<1>5. \A f : f.is = "IS_IN_DB" => Inside(f, v, id) = FoundThen(Innermost, f, v, id)
  BY DEF Inside, Wrapping, Items, FoundThen
<1>6. \A f : f.is = "IS_IN_DB" => Innermost(f, v, id) = FoundThen(Unwrapped, f, v, id)
  BY DEF Innermost, Wrapping, Items, FoundThen
<1> QED
  BY <1>1, <1>2, <1>3, <1>4, <1>5, <1>6

-------------------------------------------------------------------------------
(* What the validators of a field let through                                 *)

LEMMA Built ==
  /\ \A s : Text(s).k = "text" /\ Text(s).s = s
  /\ \A kind, n : Number(kind, n).k = kind /\ Number(kind, n).n = n
  /\ Nothing.k = "None"
  /\ \A class : Plain(class).is = class
  /\ \A class, min, max :
        Bounded(class, min, max).is = class /\ Bounded(class, min, max).min = min /\ Bounded(class, min, max).max = max
  /\ \A fs, null :
        EmptyOr(fs, null).is = "IS_EMPTY_OR" /\ EmptyOr(fs, null).other = fs /\ EmptyOr(fs, null).null = null
BY DEF Text, Number, Nothing, Plain, Bounded, EmptyOr

\* Numbers and their texts.
LEMMA NumberBack ==
  /\ \A s \in Numerals : NumberOf(s) \in DOMAIN NumberText /\ NumberText[NumberOf(s)] = s
  /\ \A n \in DOMAIN NumberText : NumberText[n] \in Numerals /\ NumberOf(NumberText[n]) = n
<1>1. ASSUME NEW s \in Numerals PROVE NumberOf(s) \in DOMAIN NumberText /\ NumberText[NumberOf(s)] = s
  <2>1. \E n \in DOMAIN NumberText : NumberText[n] = s
    BY DEF Numerals, Range
  <2> QED
    BY <2>1 DEF NumberOf
<1>2. ASSUME NEW n \in DOMAIN NumberText PROVE NumberText[n] \in Numerals /\ NumberOf(NumberText[n]) = n
  <2>1. NumberText[n] \in Numerals
    BY DEF Numerals, Range
  <2>2. NumberOf(NumberText[n]) \in DOMAIN NumberText /\ NumberText[NumberOf(NumberText[n])] = NumberText[n]
    BY <1>1, <2>1
  <2> QED
    BY <2>1, <2>2, NumbersAssumption
<1> QED
  BY <1>1, <1>2

\* A number or a moment is not nothing.
Solid(v) == v.k \in Numbers \cup Moments1

LEMMA SolidIsNotEmpty == \A v : Solid(v) => v # Nothing /\ ~ is_empty(v)
<1> SUFFICES ASSUME NEW v, Solid(v) PROVE v # Nothing /\ ~ is_empty(v)
  OBVIOUS
<1>1. v.k # "None" /\ v.k # "text" /\ v.k # "list"
  BY DEF Solid, Numbers, Moments1
<1>2. v # Nothing
  BY <1>1, Built
<1> QED
  BY <1>1, <1>2 DEF is_empty, IsText

RangeClasses == {"IS_INT_IN_RANGE", "IS_FLOAT_IN_RANGE", "IS_DECIMAL_IN_RANGE"}

LEMMA ToNumberGives ==
  ASSUME NEW v, NEW kind, NEW min, NEW max, ~ ToNumber(v, kind, min, max).error
  PROVE  \E n : /\ ToNumber(v, kind, min, max).value = Number(kind, n)
                /\ v.k = "text" => v.s \in Numerals /\ n = NumberOf(v.s)
<1> DEFINE n == IF v.k = "text" THEN NumberOf(v.s) ELSE v.n
<1>1. ToNumber(v, kind, min, max) = Ok(Number(kind, n)) /\ (IsText(v, Numerals) \/ v.k \in Numbers)
  BY Outcomes DEF ToNumber
<1>2. v.k = "text" => v.s \in Numerals
  BY <1>1 DEF IsText, Numbers
<1>3. ToNumber(v, kind, min, max).value = Number(kind, n)
  BY <1>1, Outcomes
<1> QED
  BY <1>2, <1>3

LEMMA RangeGives ==
  ASSUME NEW f, f.is \in RangeClasses, NEW v, NEW id, ~ Unwrapped(f, v, id).error
  PROVE  \E kind \in Numbers : \E n : /\ Unwrapped(f, v, id).value = Number(kind, n)
                                      /\ v.k = "text" => v.s \in Numerals /\ n = NumberOf(v.s)
<1>1. CASE f.is = "IS_INT_IN_RANGE"
  <2>1. Unwrapped(f, v, id) = IS_INT_IN_RANGE(v, f.min, f.max)
    BY <1>1 DEF Unwrapped
  <2>2. Unwrapped(f, v, id) = ToNumber(v, "int", f.min, f.max - 1)
    BY <2>1, Outcomes DEF IS_INT_IN_RANGE
  <2>3. "int" \in Numbers
    BY DEF Numbers
  <2> QED
    BY <2>2, <2>3, ToNumberGives
<1>2. CASE f.is = "IS_FLOAT_IN_RANGE"
  <2>1. Unwrapped(f, v, id) = ToNumber(v, "float", f.min, f.max)
    BY <1>2 DEF Unwrapped, IS_FLOAT_IN_RANGE
  <2>2. "float" \in Numbers
    BY DEF Numbers
  <2> QED
    BY <2>1, <2>2, ToNumberGives
<1>3. CASE f.is = "IS_DECIMAL_IN_RANGE"
  <2>1. Unwrapped(f, v, id) = ToNumber(v, IF v.k = "Decimal" THEN v.k ELSE "Decimal", f.min, f.max)
    BY <1>3 DEF Unwrapped, IS_DECIMAL_IN_RANGE
  <2>2. Unwrapped(f, v, id) = ToNumber(v, "Decimal", f.min, f.max) /\ "Decimal" \in Numbers
    BY <2>1 DEF Numbers
  <2> QED
    BY <2>2, ToNumberGives
<1> QED
  BY <1>1, <1>2, <1>3 DEF RangeClasses

LEMMA WhenGives ==
  ASSUME NEW f, f.is = "when", f.kind \in Moments1, NEW v, NEW id, ~ Unwrapped(f, v, id).error
  PROVE  /\ Unwrapped(f, v, id).value.k \in Moments1
         /\ v.k = "text" => v.s = f.kind /\ Unwrapped(f, v, id).value = [k |-> f.kind, s |-> f.kind, more |-> FALSE]
<1>1. Unwrapped(f, v, id) = When(v, f.kind)
  BY DEF Unwrapped
<1>2. f.kind # "text" /\ "datetime" \in Moments1
  BY DEF Moments1
<1>3. \/ v.k \in Moments1 /\ v.k # "text" /\ When(v, f.kind) = Ok(v)
      \/ v.s = f.kind /\ When(v, f.kind) = Ok([k |-> f.kind, s |-> f.kind, more |-> FALSE])
  BY <1>1, <1>2, Outcomes DEF When, IsWhen
<1> QED
  BY <1>1, <1>3, Outcomes

\* Whoever has the text is the record itself.
LEMMA NotInDbGives ==
  ASSUME NEW v, NEW id, ~ IS_NOT_IN_DB(v, id).error
  PROVE  /\ IS_NOT_IN_DB(v, id).value = Text(Str(v))
         /\ Str(v) \notin {"", " "}
         /\ \A r \in TableRows : r.text = Str(v) => r.id = id
<1> DEFINE found == {r \in TableRows : r.text = Str(v)}
           first == CHOOSE r \in found : \A q \in found : r.id <= q.id
<1>1. Str(v) \notin {"", " "} /\ (found # {} => first.id = id) /\ IS_NOT_IN_DB(v, id) = Ok(Text(Str(v)))
  BY Outcomes DEF IS_NOT_IN_DB
<1>2. ASSUME NEW r \in TableRows, r.text = Str(v) PROVE r.id = id
  <2>1. r \in found /\ \A q \in found : q = r
    BY <1>2, RowsAssumption
  <2>2. r.id <= r.id
    BY RowsAssumption
  <2>3. first = r
    <3> HIDE DEF found
    <3> QED
      BY <2>1, <2>2
  <2> QED
    BY <1>1, <2>1, <2>3
<1> QED
  BY <1>1, <1>2, Outcomes

LEMMA StrIs ==
  ASSUME NEW v
  PROVE  /\ v.k = "text" => Str(v) = v.s
         /\ v.k \in Numbers => Str(v) = NumberText[v.n]
         /\ v.k \in Moments1 /\ ~ v.more => Str(v) = v.s
<1>1. v.k \in Numbers => v.k # "text" /\ v.k # "None"
  BY DEF Numbers
<1>2. v.k \in Moments1 => v.k # "text" /\ v.k # "None" /\ v.k \notin Numbers
  BY DEF Moments1, Numbers
<1> QED
  BY <1>1, <1>2 DEF Str

LEMMA StrOf ==
  /\ \A s : Str(Text(s)) = s
  /\ \A kind \in Numbers : \A n : Str(Number(kind, n)) = NumberText[n]
<1>1. ASSUME NEW s PROVE Str(Text(s)) = s
  <2>1. Text(s).k = "text" /\ Text(s).s = s
    BY Built
  <2> QED
    BY <2>1, StrIs
<1>2. ASSUME NEW kind \in Numbers, NEW n PROVE Str(Number(kind, n)) = NumberText[n]
  <2>1. Number(kind, n).k \in Numbers /\ Number(kind, n).n = n
    BY Built
  <2> QED
    BY <2>1, StrIs
<1> QED
  BY <1>1, <1>2

LEMMA InDbGives ==
  ASSUME NEW v, ~ IS_IN_DB(v).error
  PROVE  \E n \in Referenced : IS_IN_DB(v) = Ok(Number("int", n))
<1> DEFINE n == IF v.k = "text" THEN NumberOf(v.s) ELSE v.n
<1>1. n \in Referenced /\ IS_IN_DB(v) = Ok(Number("int", n))
  BY Outcomes DEF IS_IN_DB
<1> QED
  BY <1>1

\* A reference is a record's id, or where it is unique the text of one, in no other row.
Referring(and) == [is |-> "IS_IN_DB", multiple |-> FALSE, and |-> and]
Unique == <<Plain("IS_NOT_IN_DB")>>

LEMMA ReferringGives ==
  ASSUME NEW v, NEW id, NEW r
  PROVE  /\ ~ r.error /\ r \in {Validate(Referring(<<>>), v, id), Inside(Referring(<<>>), v, id), Innermost(Referring(<<>>), v, id)}
               => \E n \in Referenced : r = Ok(Number("int", n))
         /\ ~ r.error /\ r \in {Validate(Referring(Unique), v, id), Inside(Referring(Unique), v, id)}
               => \E n \in Referenced : r = IS_NOT_IN_DB(Number("int", n), id)
<1> DEFINE one == IS_IN_DB(v)
<1>1. \A and : Referring(and).is = "IS_IN_DB" /\ Referring(and).multiple = FALSE /\ Referring(and).and = and
  BY DEF Referring
<1>2. \A and : /\ Validate(Referring(and), v, id) = IF one.error THEN one ELSE Chain(Inside, and, one.value, id)
               /\ Inside(Referring(and), v, id) = IF one.error THEN one ELSE Chain(Innermost, and, one.value, id)
               /\ Innermost(Referring(and), v, id) = IF one.error THEN one ELSE Chain(Unwrapped, and, one.value, id)
  <2> SUFFICES ASSUME NEW and
               PROVE  /\ Validate(Referring(and), v, id) = IF one.error THEN one ELSE Chain(Inside, and, one.value, id)
                      /\ Inside(Referring(and), v, id) = IF one.error THEN one ELSE Chain(Innermost, and, one.value, id)
                      /\ Innermost(Referring(and), v, id) = IF one.error THEN one ELSE Chain(Unwrapped, and, one.value, id)
    OBVIOUS
  <2> DEFINE f == Referring(and)
  <2>1. f.is = "IS_IN_DB" /\ f.multiple = FALSE /\ f.and = and
    BY <1>1
  <2> HIDE DEF f
  <2>2. FoundThen(Inside, f, v, id) = IF one.error THEN one ELSE Chain(Inside, and, one.value, id)
    BY <2>1 DEF InDb, FoundThen
  <2>3. FoundThen(Innermost, f, v, id) = IF one.error THEN one ELSE Chain(Innermost, and, one.value, id)
    BY <2>1 DEF InDb, FoundThen
  <2>4. FoundThen(Unwrapped, f, v, id) = IF one.error THEN one ELSE Chain(Unwrapped, and, one.value, id)
    BY <2>1 DEF InDb, FoundThen
  <2>5. Validate(f, v, id) = FoundThen(Inside, f, v, id) /\ Inside(f, v, id) = FoundThen(Innermost, f, v, id)
    BY <2>1, WrappersOf
  <2>6. Innermost(f, v, id) = FoundThen(Unwrapped, f, v, id)
    BY <2>1, WrappersOf
  <2> QED
    BY <2>2, <2>3, <2>4, <2>5, <2>6 DEF f
<1>3. \A w : /\ Chain(Inside, Unique, w, id) = IS_NOT_IN_DB(w, id)
             /\ Chain(Innermost, Unique, w, id) = IS_NOT_IN_DB(w, id)
  <2>1. \A w : Unwrapped(Plain("IS_NOT_IN_DB"), w, id) = IS_NOT_IN_DB(w, id)
    BY Built DEF Unwrapped
  <2>2. Plain("IS_NOT_IN_DB").is \notin Wraps
    BY Built DEF Wraps
  <2>3. \A w : /\ Inside(Plain("IS_NOT_IN_DB"), w, id) = IS_NOT_IN_DB(w, id)
               /\ Innermost(Plain("IS_NOT_IN_DB"), w, id) = IS_NOT_IN_DB(w, id)
    BY <2>1, <2>2, AtAnyDepth
  <2>4. \A w : /\ Chain(Inside, Unique, w, id) = Inside(Plain("IS_NOT_IN_DB"), w, id)
               /\ Chain(Innermost, Unique, w, id) = Innermost(Plain("IS_NOT_IN_DB"), w, id)
    BY ChainsOf DEF Unique
  <2> QED
    BY <2>3, <2>4
<1>4. ~ one.error => \E n \in Referenced : one = Ok(Number("int", n)) /\ one.value = Number("int", n)
  BY InDbGives, Outcomes
<1> HIDE DEF one
<1>5. ASSUME ~ r.error, r \in {Validate(Referring(<<>>), v, id), Inside(Referring(<<>>), v, id), Innermost(Referring(<<>>), v, id)}
      PROVE  \E n \in Referenced : r = Ok(Number("int", n))
  <2>1. ~ one.error /\ r = Ok(one.value)
    BY <1>2, <1>5, ChainsOf
  <2> QED
    BY <1>4, <2>1
<1>6. ASSUME ~ r.error, r \in {Validate(Referring(Unique), v, id), Inside(Referring(Unique), v, id)}
      PROVE  \E n \in Referenced : r = IS_NOT_IN_DB(Number("int", n), id)
  <2>1. ~ one.error /\ r = IS_NOT_IN_DB(one.value, id)
    BY <1>2, <1>3, <1>6
  <2> QED
    BY <1>4, <2>1
<1> QED
  BY <1>5, <1>6

-------------------------------------------------------------------------------
(* The chains a field gets                                                    *)

Ranged == {"integer", "double", "decimal"}
Spelled == {"string", "text", "password"}
Several(and) == [is |-> "IS_IN_DB", multiple |-> TRUE, and |-> and]
Options(field) == [is |-> "IS_IN_SET", theset |-> field.options, multiple |-> FALSE]
Length5 == [is |-> "IS_LENGTH", max |-> 5]
AtTime(type) == [is |-> "when", kind |-> type]
IfUnique(field) == IF field.unique THEN Unique ELSE <<>>

LEMMA Joined2 ==
  /\ \A a, b : <<a>> \o <<b>> = <<a, b>>
  /\ \A a, b, c : <<a>> \o <<b, c>> = <<a, b, c>>
  /\ \A a : <<a>> \o <<>> = <<a>> /\ <<>> \o <<a>> = <<a>>
  /\ <<>> \o <<>> = <<>>
<1>1. ASSUME NEW a, NEW b PROVE <<a>> \o <<b>> = <<a, b>>
  <2> DEFINE S == {a, b}
             s == <<a>>
             t == <<b>>
             u == <<a, b>>
  <2>1. s \in Seq(S) /\ t \in Seq(S) /\ u \in Seq(S) /\ Len(s) = 1 /\ Len(t) = 1 /\ Len(u) = 2
    OBVIOUS
  <2>2. s \o t \in Seq(S) /\ Len(s \o t) = 2 /\ \A i \in 1 .. 2 : (s \o t)[i] = IF i <= 1 THEN s[i] ELSE t[i - 1]
    <3> HIDE DEF s, t, u, S
    <3>1. s \o t \in Seq(S) /\ Len(s \o t) = Len(s) + Len(t)
      BY <2>1, ConcatProperties
    <3>2. \A i \in 1 .. Len(s) + Len(t) : (s \o t)[i] = IF i <= Len(s) THEN s[i] ELSE t[i - Len(s)]
      BY <2>1, ConcatProperties
    <3> QED
      BY <2>1, <3>1, <3>2
  <2>3. \A i \in 1 .. 2 : (IF i <= 1 THEN s[i] ELSE t[i - 1]) = u[i]
    OBVIOUS
  <2>4. s \o t = u
    <3> HIDE DEF s, t, u, S
    <3> QED
      BY <2>1, <2>2, <2>3, SeqEqual
  <2> QED
    BY <2>4
<1>2. ASSUME NEW a, NEW b, NEW c PROVE <<a>> \o <<b, c>> = <<a, b, c>>
  <2> DEFINE S == {a, b, c}
             s == <<a>>
             t == <<b, c>>
             u == <<a, b, c>>
  <2>1. s \in Seq(S) /\ t \in Seq(S) /\ u \in Seq(S) /\ Len(s) = 1 /\ Len(t) = 2 /\ Len(u) = 3
    OBVIOUS
  <2>2. s \o t \in Seq(S) /\ Len(s \o t) = 3 /\ \A i \in 1 .. 3 : (s \o t)[i] = IF i <= 1 THEN s[i] ELSE t[i - 1]
    <3> HIDE DEF s, t, u, S
    <3>1. s \o t \in Seq(S) /\ Len(s \o t) = Len(s) + Len(t)
      BY <2>1, ConcatProperties
    <3>2. \A i \in 1 .. Len(s) + Len(t) : (s \o t)[i] = IF i <= Len(s) THEN s[i] ELSE t[i - Len(s)]
      BY <2>1, ConcatProperties
    <3> QED
      BY <2>1, <3>1, <3>2
  <2>3. \A i \in 1 .. 3 : (IF i <= 1 THEN s[i] ELSE t[i - 1]) = u[i]
    OBVIOUS
  <2>4. s \o t = u
    <3> HIDE DEF s, t, u, S
    <3> QED
      BY <2>1, <2>2, <2>3, SeqEqual
  <2> QED
    BY <2>4
<1>3. ASSUME NEW a PROVE <<a>> \o <<>> = <<a>> /\ <<>> \o <<a>> = <<a>>
  OBVIOUS
<1>4. <<>> \o <<>> = <<>>
  OBVIOUS
<1> QED
  BY <1>1, <1>2, <1>3, <1>4

LEMMA TypeChains ==
  ASSUME NEW type
  PROVE  /\ type \in Ranged => \E f : TypeValidators(type) = <<f>> /\ f.is \in RangeClasses
         /\ type \in Moments1 => TypeValidators(type) = <<AtTime(type)>>
         /\ type \in Spelled => TypeValidators(type) = <<Length5>>
         /\ type \notin Ranged \cup Moments1 \cup Spelled \cup {"json"} => TypeValidators(type) = <<>>
<1>1. ASSUME type \in Ranged PROVE \E f : TypeValidators(type) = <<f>> /\ f.is \in RangeClasses
  <2>1. \/ type = "double" /\ TypeValidators(type) = <<Bounded("IS_FLOAT_IN_RANGE", 0, 7)>>
        \/ type = "integer" /\ TypeValidators(type) = <<Bounded("IS_INT_IN_RANGE", 0, 7)>>
        \/ type = "decimal" /\ TypeValidators(type) = <<Bounded("IS_DECIMAL_IN_RANGE", 0, 7)>>
    BY <1>1 DEF Ranged, TypeValidators
  <2> QED
    BY <2>1, Built DEF RangeClasses
<1>2. type \in Moments1 => TypeValidators(type) = <<AtTime(type)>>
  BY DEF Moments1, TypeValidators, AtTime
<1>3. type \in Spelled => TypeValidators(type) = <<Length5>>
  BY DEF Spelled, TypeValidators, Length5
<1>4. type \notin Ranged \cup Moments1 \cup Spelled \cup {"json"} => TypeValidators(type) = <<>>
  BY DEF Ranged, Moments1, Spelled, TypeValidators
<1> QED
  BY <1>1, <1>2, <1>3, <1>4

LEMMA TableChains ==
  ASSUME NEW field
  PROVE  /\ field.type = "reference" =>
              default_validators(field) = IF field.notnull THEN <<Referring(IfUnique(field))>>
                                          ELSE <<EmptyOr(<<Referring(IfUnique(field))>>, Nothing)>>
         /\ field.type = "list:reference" =>
              default_validators(field) = IF field.notnull THEN <<Several(IfUnique(field))>>
                                          ELSE <<EmptyOr(<<Several(IfUnique(field))>>, Nothing)>>
         /\ field.type \notin References /\ field.options # <<>> => default_validators(field) = <<Options(field)>>
         /\ /\ field.type \notin References /\ field.options = <<>> /\ (field.notnull \/ field.unique)
            /\ field.type \notin {"boolean", "password", "string", "text", "upload"}
            => default_validators(field) = <<Plain("IS_NOT_EMPTY")>> \o (IfUnique(field) \o TypeValidators(field.type))
         /\ /\ field.options = <<>> /\ field.unique
            /\ field.type \in {"boolean", "password", "string", "text", "upload"}
            => default_validators(field) = Unique \o TypeValidators(field.type)
<1> DEFINE is_list == field.type = "list:reference"
           ref == [is |-> "IS_IN_DB", multiple |-> is_list, and |-> IfUnique(field)]
           typed == IF field.options # <<>> THEN <<Options(field)>> ELSE TypeValidators(field.type)
           checked == IfUnique(field) \o typed
           null == IF field.type = "password" THEN Text("") ELSE Nothing
<1>1. default_validators(field) =
        CASE field.type \in References ->
               IF field.notnull THEN <<ref>> ELSE <<EmptyOr(<<ref>>, Nothing)>>
          [] field.type \notin References /\ field.options # <<>> -> typed
          [] field.type \notin References /\ field.options = <<>> /\ (field.notnull \/ field.unique)
               /\ field.type \notin {"boolean", "password", "string", "text", "upload"} ->
               <<Plain("IS_NOT_EMPTY")>> \o checked
          [] field.type \notin References /\ field.options = <<>> /\ ~field.notnull /\ ~field.unique /\ checked # <<>> ->
               <<EmptyOr(<<checked[1]>>, null)>>
          [] OTHER -> checked
  BY DEF default_validators, References, IfUnique, Unique, Options
<1>2. field.type = "reference" => ref = Referring(IfUnique(field))
  BY DEF Referring
<1>3. field.type = "list:reference" => ref = Several(IfUnique(field))
  BY DEF Several
<1>7. ASSUME field.options = <<>> PROVE checked = IfUnique(field) \o TypeValidators(field.type)
  BY <1>7
<1>0. field.type \in References => default_validators(field) = IF field.notnull THEN <<ref>> ELSE <<EmptyOr(<<ref>>, Nothing)>>
  <2> DEFINE referring == IF field.notnull THEN <<ref>> ELSE <<EmptyOr(<<ref>>, Nothing)>>
             empty == <<Plain("IS_NOT_EMPTY")>> \o checked
             others == <<EmptyOr(<<checked[1]>>, null)>>
  <2> HIDE DEF checked, typed, null
  <2>1. default_validators(field) =
          CASE field.type \in References -> referring
            [] field.type \notin References /\ field.options # <<>> -> typed
            [] field.type \notin References /\ field.options = <<>> /\ (field.notnull \/ field.unique)
                 /\ field.type \notin {"boolean", "password", "string", "text", "upload"} -> empty
            [] field.type \notin References /\ field.options = <<>> /\ ~field.notnull /\ ~field.unique /\ checked # <<>> -> others
            [] OTHER -> checked
    BY <1>1
  <2> HIDE DEF referring, empty, others
  <2>2. field.type \in References => default_validators(field) = referring
    BY <2>1
  <2> QED
    BY <2>2 DEF referring
<1> HIDE DEF ref, is_list
<1>4. field.type = "reference" =>
        default_validators(field) = IF field.notnull THEN <<Referring(IfUnique(field))>>
                                    ELSE <<EmptyOr(<<Referring(IfUnique(field))>>, Nothing)>>
  BY <1>0, <1>2 DEF References
<1>5. field.type = "list:reference" =>
        default_validators(field) = IF field.notnull THEN <<Several(IfUnique(field))>>
                                    ELSE <<EmptyOr(<<Several(IfUnique(field))>>, Nothing)>>
  BY <1>0, <1>3 DEF References
<1>6. field.type \notin References /\ field.options # <<>> => default_validators(field) = <<Options(field)>>
  BY <1>1
<1> HIDE DEF checked, typed, null
<1>8. ASSUME field.type \notin References, field.options = <<>>, field.notnull \/ field.unique,
             field.type \notin {"boolean", "password", "string", "text", "upload"}
      PROVE  default_validators(field) = <<Plain("IS_NOT_EMPTY")>> \o (IfUnique(field) \o TypeValidators(field.type))
  BY <1>1, <1>7, <1>8
<1>9. ASSUME field.options = <<>>, field.unique, field.type \in {"boolean", "password", "string", "text", "upload"}
      PROVE  default_validators(field) = Unique \o TypeValidators(field.type)
  <2>1. field.type \notin References
    BY <1>9 DEF References
  <2>2. default_validators(field) = checked
    BY <1>1, <1>9, <2>1
  <2> QED
    BY <1>7, <1>9, <2>2 DEF IfUnique
<1> QED
  BY <1>4, <1>5, <1>6, <1>8, <1>9

LEMMA FieldChains ==
  ASSUME NEW field
  PROVE  /\ get_default_validator(field) = IF field.notnull THEN <<ByType(field)>> ELSE <<EmptyOr(<<ByType(field)>>, Nothing)>>
         /\ field.type = "reference" => ByType(field) = Referring(<<>>)
         /\ field.type = "list:reference" =>
              ByType(field) = [is |-> "IS_LIST_OF", other |-> <<Referring(<<>>)>>, minimum |-> 0, maximum |-> 9]
         /\ field.type \in Ranged => ByType(field).is \in RangeClasses
         /\ field.type \in Moments1 => ByType(field) = AtTime(field.type)
<1>1. get_default_validator(field) = IF field.notnull THEN <<ByType(field)>> ELSE <<EmptyOr(<<ByType(field)>>, Nothing)>>
  BY DEF get_default_validator
<1>2. field.type = "reference" => ByType(field) = Referring(<<>>)
  BY DEF ByType, Referring
<1>3. field.type = "list:reference" =>
        ByType(field) = [is |-> "IS_LIST_OF", other |-> <<Referring(<<>>)>>, minimum |-> 0, maximum |-> 9]
  BY DEF ByType, Referring
<1>4. field.type \in Ranged => ByType(field).is \in RangeClasses
  <2>1. field.type = "integer" => ByType(field) = Bounded("IS_INT_IN_RANGE", 0, 10)
    BY DEF ByType
  <2>2. field.type \in {"double", "decimal"} => ByType(field) = Bounded("IS_FLOAT_IN_RANGE", 0, 9)
    BY DEF ByType
  <2> QED
    BY <2>1, <2>2, Built DEF Ranged, RangeClasses
<1>5. field.type \in Moments1 => ByType(field) = AtTime(field.type)
  BY DEF ByType, Moments1, AtTime
<1> QED
  BY <1>1, <1>2, <1>3, <1>4, <1>5

-------------------------------------------------------------------------------
(* A value that must not be null                                              *)

\* A chain of one or two others ends with the last one's answer.
LEMMA LastOfTwo ==
  ASSUME NEW f, NEW g, NEW v, NEW id, ~ Chained(<<f, g>>, v, id).error
  PROVE  /\ ~ Validate(f, v, id).error
         /\ Chained(<<f, g>>, v, id) = Validate(g, Validate(f, v, id).value, id)
<1> DEFINE r == Validate(f, v, id)
<1>1. Chained(<<f, g>>, v, id) = IF r.error THEN r ELSE Validate(g, r.value, id)
  BY ChainsOf
<1> QED
  BY <1>1

LEMMA LastOfThree ==
  ASSUME NEW f, NEW g, NEW h, NEW v, NEW id, ~ Chained(<<f, g, h>>, v, id).error
  PROVE  /\ ~ Chained(<<f, g>>, v, id).error
         /\ Chained(<<f, g, h>>, v, id) = Validate(h, Chained(<<f, g>>, v, id).value, id)
<1> DEFINE r == Chained(<<f, g>>, v, id)
<1>1. Chained(<<f, g, h>>, v, id) = IF r.error THEN r ELSE Validate(h, r.value, id)
  BY ChainsOf
<1> QED
  BY <1>1

\* What a range or IS_DATE, IS_TIME, IS_DATETIME accepts is a number or a moment.
Measures(f) == f.is \in RangeClasses \/ (f.is = "when" /\ f.kind \in Moments1)

LEMMA MeasuredIsSolid ==
  ASSUME NEW f, Measures(f), NEW v, NEW id, ~ Validate(f, v, id).error
  PROVE  Solid(Validate(f, v, id).value)
<1>1. f.is \notin Wraps
  BY DEF Measures, RangeClasses, Wraps
<1>2. Validate(f, v, id) = Unwrapped(f, v, id)
  BY <1>1, AtAnyDepth
<1>3. CASE f.is \in RangeClasses
  <2>1. PICK kind \in Numbers : \E n : Unwrapped(f, v, id).value = Number(kind, n)
    BY <1>2, <1>3, RangeGives
  <2> QED
    BY <1>2, <2>1, Built DEF Solid
<1>4. CASE f.is = "when" /\ f.kind \in Moments1
  BY <1>2, <1>4, WhenGives DEF Solid
<1> QED
  BY <1>3, <1>4 DEF Measures

LEMMA TypeMeasures ==
  ASSUME NEW type \in Ranged \cup Moments1
  PROVE  \E f : TypeValidators(type) = <<f>> /\ Measures(f)
<1>1. CASE type \in Ranged
  BY <1>1, TypeChains DEF Measures
<1>2. CASE type \in Moments1
  <2>1. TypeValidators(type) = <<AtTime(type)>>
    BY <1>2, TypeChains
  <2>2. AtTime(type).is = "when" /\ AtTime(type).kind = type
    BY DEF AtTime
  <2> QED
    BY <1>2, <2>1, <2>2 DEF Measures
<1> QED
  BY <1>1, <1>2

LEMMA NumberIsSolid == \A n : Solid(Number("int", n))
<1>1. "int" \in Numbers
  BY DEF Numbers
<1> QED
  BY <1>1, Built DEF Solid

\* A text that IS_NOT_IN_DB lets pass is none of the empty ones.
LEMMA FilledText == \A s : s \notin {"", " "} => Text(s) # Nothing /\ ~ is_empty(Text(s))
<1> SUFFICES ASSUME NEW s, s \notin {"", " "} PROVE Text(s) # Nothing /\ ~ is_empty(Text(s))
  OBVIOUS
<1>1. Text(s).k = "text" /\ Text(s).s = s /\ Nothing.k = "None"
  BY Built
<1>2. Text(s) # Nothing
  BY <1>1
<1> QED
  BY <1>1, <1>2 DEF is_empty, IsText

LEMMA OptionIsNotEmpty ==
  ASSUME NEW v, NEW id, NEW field, field.options = <<"5", "7">>, ~ Chained(<<Options(field)>>, v, id).error
  PROVE  LET a == Chained(<<Options(field)>>, v, id) IN a.value # Nothing /\ ~ is_empty(a.value)
<1> DEFINE f == Options(field)
<1>1. f.is = "IS_IN_SET" /\ f.theset = <<"5", "7">> /\ f.multiple = FALSE
  BY DEF Options
<1>2. Options(field).is \notin Wraps
  BY <1>1 DEF Wraps
<1>3. Chained(<<f>>, v, id) = Unwrapped(f, v, id)
  BY <1>2, AtAnyDepth, ChainsOf
<1>4. Unwrapped(f, v, id) = InSet(v, <<"5", "7">>, FALSE)
  <2> HIDE DEF f
  <2> QED
    BY <1>1 DEF Unwrapped
<1>5. Chained(<<f>>, v, id) = InSet(v, <<"5", "7">>, FALSE)
  BY <1>3, <1>4
<1> HIDE DEF f
<1>6. InSet(v, <<"5", "7">>, FALSE) =
        IF <<"5", "7">> # <<>> /\ \E i \in DOMAIN <<v>> : Str(<<v>>[i]) \notin Range(<<"5", "7">>) THEN Err ELSE Ok(v)
  BY DEF InSet
<1>7. Range(<<"5", "7">>) = {"5", "7"} /\ DOMAIN <<v>> = {1} /\ <<v>>[1] = v /\ <<"5", "7">> # <<>>
  BY DEF Range
<1>8. Str(v) \in {"5", "7"} /\ Chained(<<f>>, v, id) = Ok(v)
  <2>1. ~ InSet(v, <<"5", "7">>, FALSE).error
    BY <1>5 DEF f
  <2> QED
    BY <1>5, <1>6, <1>7, <2>1, Outcomes
<1>9. v # Nothing /\ ~ is_empty(v)
  <2>1. Str(v) # "None" /\ Str(v) # "list" /\ Str(v) # "" /\ Str(v) # " "
    BY <1>8
  <2>2. v.k = "text" => Str(v) = v.s
    BY StrIs
  <2>3. v.k = "list" => Str(v) = "list"
    BY DEF Str, Numbers, Moments1
  <2>4. v.k = "None" => Str(v) = "None"
    BY DEF Str, Numbers, Moments1
  <2>5. v # Nothing /\ v.k # "list" /\ (v.k = "text" => v.s # "" /\ v.s # " ")
    BY <2>1, <2>2, <2>3, <2>4, Built
  <2> QED
    BY <2>5 DEF is_empty, IsText
<1> QED
  BY <1>8, <1>9, Outcomes DEF f

NotNullTypes == {"integer", "double", "decimal", "date", "time", "datetime", "reference"}

\* What a field of a number, a moment or a reference accepts is not null.
LEMMA NotNullAccepted ==
  ASSUME NEW which \in Chains, NEW field \in Fields, field.notnull, field.type \in NotNullTypes,
         NEW v, NEW id, ~ Chained(ChainOf(which, field), v, id).error
  PROVE  LET a == Chained(ChainOf(which, field), v, id) IN a.value # Nothing /\ ~ is_empty(a.value)
<1> DEFINE a == Chained(ChainOf(which, field), v, id)
           Full == a.value # Nothing /\ ~ is_empty(a.value)
<1>0. field.type \in Ranged \cup Moments1 \/ field.type = "reference"
  BY DEF NotNullTypes, Ranged, Moments1
<1>s. Solid(a.value) => Full
  BY SolidIsNotEmpty
<1>1. CASE which = "field"
  <2>1. ChainOf(which, field) = <<ByType(field)>>
    BY <1>1, FieldChains DEF ChainOf
  <2>2. a = Validate(ByType(field), v, id)
    BY <2>1, ChainsOf
  <2>3. CASE field.type \in Ranged \cup Moments1
    <3>1. Measures(ByType(field))
      <4>1. CASE field.type \in Ranged
        BY <4>1, FieldChains DEF Measures
      <4>2. CASE field.type \in Moments1
        <5>1. ByType(field) = AtTime(field.type)
          BY <4>2, FieldChains
        <5>2. AtTime(field.type).is = "when" /\ AtTime(field.type).kind = field.type
          BY DEF AtTime
        <5> QED
          BY <4>2, <5>1, <5>2 DEF Measures
      <4> QED
        BY <2>3, <4>1, <4>2
    <3> QED
      BY <1>s, <2>2, <3>1, MeasuredIsSolid
  <2>4. CASE field.type = "reference"
    <3>1. a = Validate(Referring(<<>>), v, id)
      BY <2>2, <2>4, FieldChains
    <3>2. PICK n \in Referenced : a = Ok(Number("int", n))
      BY <3>1, ReferringGives
    <3>3. Solid(a.value)
      BY <3>2, NumberIsSolid, Outcomes
    <3> QED
      BY <1>s, <3>3
  <2> QED
    BY <1>0, <2>3, <2>4
<1>2. CASE which = "table"
  <2>1. a = Chained(default_validators(field), v, id)
    BY <1>2 DEF ChainOf
  <2>2. CASE field.type = "reference"
    <3>0. default_validators(field) = <<Referring(IfUnique(field))>>
      BY <2>2, TableChains
    <3>1. a = Validate(Referring(IfUnique(field)), v, id)
      BY <2>1, <3>0, ChainsOf
    <3>2. CASE ~ field.unique
      <4>1. a = Validate(Referring(<<>>), v, id)
        BY <3>1, <3>2 DEF IfUnique
      <4>2. PICK n \in Referenced : a = Ok(Number("int", n))
        BY <4>1, ReferringGives
      <4>3. Solid(a.value)
        BY <4>2, NumberIsSolid, Outcomes
      <4> QED
        BY <1>s, <4>3
    <3>3. CASE field.unique
      <4>1. a = Validate(Referring(Unique), v, id)
        BY <3>1, <3>3 DEF IfUnique
      <4>2. PICK n \in Referenced : a = IS_NOT_IN_DB(Number("int", n), id)
        BY <4>1, ReferringGives
      <4>3. a.value = Text(Str(Number("int", n))) /\ Str(Number("int", n)) \notin {"", " "}
        BY <4>2, NotInDbGives
      <4> QED
        BY <4>3, FilledText
    <3> QED
      BY <3>2, <3>3
  <2>3. CASE field.type \in Ranged \cup Moments1 /\ field.options # <<>>
    <3>1. field.options = <<"5", "7">>
      BY <2>3 DEF Fields
    <3>2. field.type \notin References
      BY <2>3 DEF Ranged, Moments1, References
    <3>3. a = Chained(<<Options(field)>>, v, id)
      BY <2>1, <2>3, <3>2, TableChains
    <3> QED
      BY <3>1, <3>3, OptionIsNotEmpty
  <2>4. CASE field.type \in Ranged \cup Moments1 /\ field.options = <<>>
    <3>1. field.type \notin References /\ field.type \notin {"boolean", "password", "string", "text", "upload"}
      BY <2>4 DEF Ranged, Moments1, References
    <3>2. PICK f : TypeValidators(field.type) = <<f>> /\ Measures(f)
      BY <2>4, TypeMeasures
    <3>3. default_validators(field) = <<Plain("IS_NOT_EMPTY")>> \o (IfUnique(field) \o <<f>>)
      BY <2>4, <3>1, <3>2, TableChains
    <3>4. CASE ~ field.unique
      <4>1. IfUnique(field) \o <<f>> = <<f>>
        BY <3>4, Joined2 DEF IfUnique
      <4>2. default_validators(field) = <<Plain("IS_NOT_EMPTY"), f>>
        BY <3>3, <4>1, Joined2
      <4>3. a = Chained(<<Plain("IS_NOT_EMPTY"), f>>, v, id)
        BY <2>1, <4>2
      <4> QED
        BY <1>s, <3>2, <4>3, LastOfTwo, MeasuredIsSolid
    <3>5. CASE field.unique
      <4>1. IfUnique(field) \o <<f>> = <<Plain("IS_NOT_IN_DB"), f>>
        BY <3>5, Joined2 DEF IfUnique, Unique
      <4>2. default_validators(field) = <<Plain("IS_NOT_EMPTY"), Plain("IS_NOT_IN_DB"), f>>
        BY <3>3, <4>1, Joined2
      <4>3. a = Chained(<<Plain("IS_NOT_EMPTY"), Plain("IS_NOT_IN_DB"), f>>, v, id)
        BY <2>1, <4>2
      <4>4. ~ a.error
        OBVIOUS
      <4> HIDE DEF a
      <4> DEFINE w == Chained(<<Plain("IS_NOT_EMPTY"), Plain("IS_NOT_IN_DB")>>, v, id).value
      <4>5. a = Validate(f, w, id)
        BY <4>3, <4>4, LastOfThree
      <4> HIDE DEF w
      <4>6. Solid(a.value)
        BY <3>2, <4>4, <4>5, MeasuredIsSolid
      <4>7. Full
        BY <1>s, <4>6
      <4> QED
        BY <4>7 DEF a
    <3> QED
      BY <3>4, <3>5
  <2> QED
    BY <1>0, <2>2, <2>3, <2>4
<1> QED
  BY <1>1, <1>2 DEF Chains

-------------------------------------------------------------------------------
(* A value of a unique field                                                  *)

\* The validators of a type keep a text as a text, or make of it a value whose text it is.
LEMMA TypeKeepsText ==
  ASSUME NEW type, type # "json", NEW s, NEW id, ~ Chained(TypeValidators(type), Text(s), id).error
  PROVE  LET a == Chained(TypeValidators(type), Text(s), id) IN Str(a.value) = s
<1> DEFINE a == Chained(TypeValidators(type), Text(s), id)
<1>0. Text(s).k = "text" /\ Text(s).s = s
  BY Built
<1>1. CASE type \in Ranged
  <2>1. PICK f : TypeValidators(type) = <<f>> /\ f.is \in RangeClasses
    BY <1>1, TypeChains
  <2>2. f.is \notin Wraps
    BY <2>1 DEF RangeClasses, Wraps
  <2>3. a = Unwrapped(f, Text(s), id)
    BY <2>1, <2>2, AtAnyDepth, ChainsOf
  <2>4. PICK kind \in Numbers : \E n : /\ a.value = Number(kind, n)
                                       /\ s \in Numerals /\ n = NumberOf(s)
    BY <1>0, <2>1, <2>3, RangeGives
  <2>5. Str(a.value) = NumberText[NumberOf(s)] /\ s \in Numerals
    BY <2>4, StrOf
  <2> QED
    BY <2>5, NumberBack
<1>2. CASE type \in Moments1
  <2> DEFINE f == AtTime(type)
  <2>1. TypeValidators(type) = <<f>>
    BY <1>2, TypeChains
  <2>2. f.is = "when" /\ f.kind = type
    BY DEF AtTime
  <2> HIDE DEF f
  <2>3. f.is \notin Wraps
    BY <2>2 DEF Wraps
  <2>4. a = Unwrapped(f, Text(s), id)
    BY <2>1, <2>3, AtAnyDepth, ChainsOf
  <2>5. s = type /\ a.value = [k |-> type, s |-> type, more |-> FALSE]
    BY <1>0, <1>2, <2>2, <2>4, WhenGives
  <2>6. a.value.k \in Moments1 /\ ~ a.value.more /\ a.value.s = s
    BY <1>2, <2>5
  <2> QED
    BY <2>6, StrIs
<1>3. CASE type \in Spelled
  <2>1. TypeValidators(type) = <<Length5>>
    BY <1>3, TypeChains
  <2>2. Length5.is = "IS_LENGTH" /\ Length5.max = 5
    BY DEF Length5
  <2>3. Length5.is \notin Wraps
    BY <2>2 DEF Wraps
  <2>4. a = Unwrapped(Length5, Text(s), id)
    BY <2>1, <2>3, AtAnyDepth, ChainsOf
  <2>5. a = IS_LENGTH(Text(s), 5)
    BY <2>2, <2>4 DEF Unwrapped
  <2>6. a.value = Text(s)
    BY <1>0, <2>5, Outcomes DEF IS_LENGTH
  <2> QED
    BY <2>6, StrOf
<1>4. CASE type \notin Ranged \cup Moments1 \cup Spelled
  <2>1. TypeValidators(type) = <<>>
    BY <1>4, TypeChains
  <2>2. a.value = Text(s)
    BY <2>1, ChainsOf, Outcomes
  <2> QED
    BY <2>2, StrOf
<1> QED
  BY <1>1, <1>2, <1>3, <1>4

LEMMA NotInDbAsked ==
  ASSUME NEW v, NEW id
  PROVE  Validate(Plain("IS_NOT_IN_DB"), v, id) = IS_NOT_IN_DB(v, id)
<1> DEFINE f == Plain("IS_NOT_IN_DB")
<1>1. f.is = "IS_NOT_IN_DB"
  BY Built
<1> HIDE DEF f
<1>2. f.is \notin Wraps
  BY <1>1 DEF Wraps
<1>3. Validate(f, v, id) = Unwrapped(f, v, id)
  BY <1>2, AtAnyDepth
<1>4. Unwrapped(f, v, id) = IS_NOT_IN_DB(v, id)
  BY <1>1 DEF Unwrapped
<1> QED
  BY <1>3, <1>4 DEF f

\* None of the types has more than one validator of its own.
LEMMA TypeHasOne ==
  ASSUME NEW type
  PROVE  TypeValidators(type) = <<>> \/ \E f : TypeValidators(type) = <<f>>
BY TypeChains DEF TypeValidators

\* Uniqueness is tested before the type, on what IS_NOT_EMPTY lets pass where it is asked first.
LEMMA UniqueFirst ==
  ASSUME NEW type, NEW v, NEW id, NEW a, ~ a.error,
         \/ a = Chained(Unique \o TypeValidators(type), v, id)
         \/ a = Chained(<<Plain("IS_NOT_EMPTY")>> \o (Unique \o TypeValidators(type)), v, id)
  PROVE  \E w : /\ ~ IS_NOT_IN_DB(w, id).error
                /\ a = Chained(TypeValidators(type), Text(Str(w)), id)
<1> DEFINE u == Plain("IS_NOT_IN_DB")
           e == Plain("IS_NOT_EMPTY")
           T == TypeValidators(type)
<1>0. \A w : ~ IS_NOT_IN_DB(w, id).error => /\ Validate(u, w, id).value = Text(Str(w))
                                             /\ Validate(u, w, id) = Ok(Text(Str(w)))
  <2> SUFFICES ASSUME NEW w, ~ IS_NOT_IN_DB(w, id).error
               PROVE  IS_NOT_IN_DB(w, id).value = Text(Str(w)) /\ IS_NOT_IN_DB(w, id) = Ok(Text(Str(w)))
    BY NotInDbAsked
  <2> QED
    BY Outcomes DEF IS_NOT_IN_DB
<1>a. \A w : Validate(u, w, id) = IS_NOT_IN_DB(w, id)
  BY NotInDbAsked
<1> HIDE DEF u, e, T
<1>1. Unique = <<u>>
  BY DEF Unique, u
<1>2. CASE T = <<>>
  <2>1. Unique \o T = <<u>> /\ <<e>> \o (Unique \o T) = <<e, u>>
    BY <1>1, <1>2, Joined2
  <2>2. \E w : ~ Validate(u, w, id).error /\ a = Validate(u, w, id)
    <3>1. CASE a = Chained(<<u>>, v, id)
      <4>1. a = Validate(u, v, id)
        BY <3>1, ChainsOf
      <4> QED
        BY <4>1
    <3>2. CASE a = Chained(<<e, u>>, v, id)
      <4> DEFINE w == Validate(e, v, id).value
      <4>1. a = Validate(u, w, id)
        BY <3>2, LastOfTwo
      <4> HIDE DEF w
      <4> QED
        BY <4>1
    <3> QED
      BY <2>1, <3>1, <3>2 DEF T, e
  <2>3. PICK w : ~ Validate(u, w, id).error /\ a = Validate(u, w, id)
    BY <2>2
  <2>4. ~ IS_NOT_IN_DB(w, id).error /\ a = Ok(Text(Str(w)))
    BY <1>0, <1>a, <2>3
  <2>5. Chained(T, Text(Str(w)), id) = Ok(Text(Str(w)))
    BY <1>2, ChainsOf
  <2> QED
    BY <2>4, <2>5 DEF T
<1>3. ASSUME NEW f, T = <<f>> PROVE \E w : ~ IS_NOT_IN_DB(w, id).error /\ a = Chained(T, Text(Str(w)), id)
  <2>1. Unique \o T = <<u, f>> /\ <<e>> \o (Unique \o T) = <<e, u, f>>
    BY <1>1, <1>3, Joined2
  <2>2. \E w : ~ Validate(u, w, id).error /\ a = Validate(f, Validate(u, w, id).value, id)
    <3>1. CASE a = Chained(<<u, f>>, v, id)
      BY <3>1, LastOfTwo
    <3>2. CASE a = Chained(<<e, u, f>>, v, id)
      <4> DEFINE w == Validate(e, v, id).value
                 b == Chained(<<e, u>>, v, id)
      <4>1. ~ b.error /\ a = Validate(f, b.value, id)
        BY <3>2, LastOfThree
      <4>2. b = Validate(u, w, id)
        BY <4>1, LastOfTwo
      <4> HIDE DEF w, b
      <4> QED
        BY <4>1, <4>2
    <3> QED
      BY <2>1, <3>1, <3>2 DEF T, e
  <2>3. PICK w : ~ Validate(u, w, id).error /\ a = Validate(f, Validate(u, w, id).value, id)
    BY <2>2
  <2>4. ~ IS_NOT_IN_DB(w, id).error /\ a = Validate(f, Text(Str(w)), id)
    BY <1>0, <1>a, <2>3
  <2>5. Chained(T, Text(Str(w)), id) = Validate(f, Text(Str(w)), id)
    BY <1>3, ChainsOf
  <2> QED
    BY <2>4, <2>5
<1> QED
  BY <1>2, <1>3, TypeHasOne DEF T

\* With several ids there is no further test.
LEMMA SeveralUnique ==
  ASSUME NEW v, NEW id
  PROVE  Validate(Several(Unique), v, id).error /\ Inside(Several(Unique), v, id).error
<1> DEFINE f == Several(Unique)
<1>1. f.is = "IS_IN_DB" /\ f.multiple = TRUE /\ f.and = Unique /\ Unique # <<>>
  BY DEF Several, Unique
<1> HIDE DEF f
<1>2. Validate(f, v, id) = FoundThen(Inside, f, v, id) /\ Inside(f, v, id) = FoundThen(Innermost, f, v, id)
  BY <1>1, WrappersOf
<1>3. FoundThen(Inside, f, v, id) = Err
  BY <1>1, Outcomes DEF InDb, FoundThen
<1>4. FoundThen(Innermost, f, v, id) = Err
  BY <1>1, Outcomes DEF InDb, FoundThen
<1> QED
  BY <1>2, <1>3, <1>4, Outcomes DEF f

\* IS_EMPTY_OR answers for itself, or as the one it wraps.
LEMMA EmptyOrGives ==
  ASSUME NEW f, NEW null, NEW v, NEW id
  PROVE  LET a == Validate(EmptyOr(<<f>>, null), v, id) IN a = Ok(null) \/ a = Inside(f, v, id)
<1> DEFINE g == EmptyOr(<<f>>, null)
<1>1. g.is = "IS_EMPTY_OR" /\ g.other = <<f>> /\ g.null = null
  BY Built
<1> HIDE DEF g
<1>2. Validate(g, v, id) = EmptyOrOther(g, v, Chain(Inside, g.other, v, id))
  BY <1>1, WrappersOf
<1>3. EmptyOrOther(g, v, Chain(Inside, g.other, v, id)) = IF is_empty(v) THEN Ok(null) ELSE Chain(Inside, <<f>>, v, id)
  BY <1>1 DEF EmptyOrOther
<1>4. Chain(Inside, <<f>>, v, id) = Inside(f, v, id)
  BY ChainsOf
<1> QED
  BY <1>2, <1>3, <1>4 DEF g

\* What a unique field of a table accepts is in no row but the record's own.
LEMMA UniqueAccepted ==
  ASSUME NEW field \in Fields, field.unique, field.options = <<>>, field.type # "json", NEW v, NEW id,
         ~ Chained(default_validators(field), v, id).error,
         Chained(default_validators(field), v, id).value # Nothing
  PROVE  LET a == Chained(default_validators(field), v, id)
         IN  \A r \in TableRows : r.text = Str(a.value) => r.id = id
<1> DEFINE a == Chained(default_validators(field), v, id)
           Alone == \A r \in TableRows : r.text = Str(a.value) => r.id = id
<1>u. IfUnique(field) = Unique
  BY DEF IfUnique
<1>0. ~ a.error /\ a.value # Nothing
  OBVIOUS
<1>1. CASE field.type = "reference"
  <2>1. default_validators(field) = <<Referring(Unique)>> \/ default_validators(field) = <<EmptyOr(<<Referring(Unique)>>, Nothing)>>
    BY <1>1, <1>u, TableChains
  <2>2. a = Validate(Referring(Unique), v, id) \/ a = Inside(Referring(Unique), v, id)
    <3>1. CASE default_validators(field) = <<Referring(Unique)>>
      BY <3>1, ChainsOf
    <3>2. CASE default_validators(field) = <<EmptyOr(<<Referring(Unique)>>, Nothing)>>
      <4>1. a = Validate(EmptyOr(<<Referring(Unique)>>, Nothing), v, id)
        BY <3>2, ChainsOf
      <4>2. a = Ok(Nothing) \/ a = Inside(Referring(Unique), v, id)
        BY <4>1, EmptyOrGives
      <4> QED
        BY <1>0, <4>2, Outcomes
    <3> QED
      BY <2>1, <3>1, <3>2
  <2>3. PICK n \in Referenced : a = IS_NOT_IN_DB(Number("int", n), id)
    BY <1>0, <2>2, ReferringGives
  <2> DEFINE w == Number("int", n)
  <2> HIDE DEF a, w
  <2>4. ~ IS_NOT_IN_DB(w, id).error /\ a = IS_NOT_IN_DB(w, id)
    BY <1>0, <2>3 DEF w
  <2>5. a.value = Text(Str(w)) /\ \A r \in TableRows : r.text = Str(w) => r.id = id
    BY <2>4, NotInDbGives
  <2>6. Str(a.value) = Str(w)
    BY <2>5, StrOf
  <2>7. Alone
    BY <2>5, <2>6
  <2> QED
    BY <2>7 DEF a
<1>2. CASE field.type = "list:reference"
  <2>1. default_validators(field) = <<Several(Unique)>> \/ default_validators(field) = <<EmptyOr(<<Several(Unique)>>, Nothing)>>
    BY <1>2, <1>u, TableChains
  <2>2. CASE default_validators(field) = <<Several(Unique)>>
    <3>1. a = Validate(Several(Unique), v, id)
      BY <2>2, ChainsOf
    <3> QED
      BY <1>0, <3>1, SeveralUnique
  <2>3. CASE default_validators(field) = <<EmptyOr(<<Several(Unique)>>, Nothing)>>
    <3>1. a = Validate(EmptyOr(<<Several(Unique)>>, Nothing), v, id)
      BY <2>3, ChainsOf
    <3>2. a = Ok(Nothing) \/ a = Inside(Several(Unique), v, id)
      BY <3>1, EmptyOrGives
    <3> QED
      BY <1>0, <3>2, SeveralUnique, Outcomes
  <2> QED
    BY <2>1, <2>2, <2>3
<1>3. CASE field.type \notin References
  <2>1. \/ default_validators(field) = Unique \o TypeValidators(field.type)
        \/ default_validators(field) = <<Plain("IS_NOT_EMPTY")>> \o (Unique \o TypeValidators(field.type))
    BY <1>3, <1>u, TableChains
  <2> DEFINE type == field.type
  <2>0. \/ a = Chained(Unique \o TypeValidators(type), v, id)
        \/ a = Chained(<<Plain("IS_NOT_EMPTY")>> \o (Unique \o TypeValidators(type)), v, id)
    BY <2>1
  <2> HIDE DEF a, type
  <2>2. PICK w : /\ ~ IS_NOT_IN_DB(w, id).error
                 /\ a = Chained(TypeValidators(type), Text(Str(w)), id)
    BY <1>0, <2>0, UniqueFirst
  <2>3. Str(a.value) = Str(w)
    <3>1. type # "json"
      BY DEF type
    <3> QED
      BY <1>0, <2>2, <3>1, TypeKeepsText
  <2>4. \A r \in TableRows : r.text = Str(w) => r.id = id
    BY <2>2, NotInDbGives
  <2>5. Alone
    BY <2>3, <2>4
  <2> QED
    BY <2>5 DEF a
<1> QED
  BY <1>1, <1>2, <1>3 DEF References

-------------------------------------------------------------------------------
(* The ids of references                                                      *)

\* The id of a record referred to, or its text.
Refers(x) == x.k \in {"int", "text"} /\ (IF x.k = "int" THEN x.n ELSE NumberOf(x.s)) \in Referenced

LEMMA NumbersRefer == \A n \in Referenced : Refers(Number("int", n)) /\ Refers(Text(NumberText[n]))
<1> SUFFICES ASSUME NEW n \in Referenced PROVE Refers(Number("int", n)) /\ Refers(Text(NumberText[n]))
  OBVIOUS
<1>1. NumberOf(NumberText[n]) = n
  BY NumberBack, ReferencedAssumption
<1>2. Number("int", n).k = "int" /\ Number("int", n).n = n
  BY Built
<1>3. Text(NumberText[n]).k = "text" /\ Text(NumberText[n]).s = NumberText[n]
  BY Built
<1>4. Refers(Number("int", n))
  BY <1>2 DEF Refers
<1>5. Refers(Text(NumberText[n]))
  BY <1>1, <1>3 DEF Refers
<1> QED
  BY <1>4, <1>5

\* With or without the test of uniqueness a reference is one to a record.
LEMMA ReferringRefers ==
  ASSUME NEW field, NEW v, NEW id, NEW a, ~ a.error,
         \/ a \in {Validate(Referring(<<>>), v, id), Inside(Referring(<<>>), v, id)}
         \/ a \in {Validate(Referring(Unique), v, id), Inside(Referring(Unique), v, id)}
  PROVE  Refers(a.value) /\ a.value.k # "list"
<1>1. CASE a \in {Validate(Referring(<<>>), v, id), Inside(Referring(<<>>), v, id)}
  <2>1. PICK n \in Referenced : a = Ok(Number("int", n))
    BY <1>1, ReferringGives
  <2>2. a.value = Number("int", n)
    BY <2>1, Outcomes
  <2> QED
    BY <2>2, NumbersRefer, Built
<1>2. CASE a \in {Validate(Referring(Unique), v, id), Inside(Referring(Unique), v, id)}
  <2>1. PICK n \in Referenced : a = IS_NOT_IN_DB(Number("int", n), id)
    BY <1>2, ReferringGives
  <2> DEFINE w == Number("int", n)
  <2> HIDE DEF w
  <2>2. ~ IS_NOT_IN_DB(w, id).error /\ a = IS_NOT_IN_DB(w, id)
    BY <2>1 DEF w
  <2>3. a.value = Text(Str(w))
    BY <2>2, NotInDbGives
  <2>4. "int" \in Numbers
    BY DEF Numbers
  <2>5. Str(w) = NumberText[n]
    BY <2>4, StrOf DEF w
  <2> QED
    BY <2>3, <2>5, NumbersRefer, Built
<1> QED
  BY <1>1, <1>2

\* A list of references.
Refer(value) == value.k = "list" /\ \A x \in Range(value.items) : Refers(x)
ListOfReferring == [is |-> "IS_LIST_OF", other |-> <<Referring(<<>>)>>, minimum |-> 0, maximum |-> 9]

LEMMA NoneRefer == Refer([k |-> "list", items |-> <<>>])
BY DEF Refer, Range

LEMMA EachRefers ==
  ASSUME NEW D, NEW each, DOMAIN each = D, \A i \in D : Refers(each[i].value)
  PROVE  Refer([k |-> "list", items |-> [i \in D |-> each[i].value]])
<1> DEFINE items == [i \in D |-> each[i].value]
<1>1. \A x \in Range(items) : Refers(x)
  BY DEF Range
<1> HIDE DEF items
<1>2. [k |-> "list", items |-> items].k = "list" /\ [k |-> "list", items |-> items].items = items
  OBVIOUS
<1>3. Refer([k |-> "list", items |-> items])
  BY <1>1, <1>2 DEF Refer
<1> QED
  BY <1>3 DEF items

LEMMA ListRefers ==
  ASSUME NEW v, NEW id, NEW a, ~ a.error,
         a = Validate(ListOfReferring, v, id) \/ a = Inside(ListOfReferring, v, id)
  PROVE  Refer(a.value)
<1> DEFINE f == ListOfReferring
           ref == Referring(<<>>)
           items == ItemsOf(v)
           Listed(each) ==
             IF Falsy(v) THEN Ok([k |-> "list", items |-> <<>>])
             ELSE IF /\ v.k \in {"list", "text"} /\ items # <<>> /\ Len(items) \in f.minimum..f.maximum
                     /\ \A i \in DOMAIN each : ~each[i].error
             THEN Ok([k |-> "list", items |-> [i \in DOMAIN each |-> each[i].value]])
             ELSE Err
           outer == [i \in DOMAIN items |-> Chain(Inside, f.other, items[i], id)]
           inner == [i \in DOMAIN items |-> Chain(Innermost, f.other, items[i], id)]
<1>1. f.is = "IS_LIST_OF" /\ f.other = <<ref>>
  BY DEF ListOfReferring
<1>2. Validate(f, v, id) = Listed(outer)
  <2>1. Validate(f, v, id) = ListOf(f, v, Items(Inside, f, v, id))
    BY <1>1, WrappersOf
  <2>2. ListOf(f, v, Items(Inside, f, v, id)) = Listed(outer)
    BY DEF ListOf, Items
  <2> QED
    BY <2>1, <2>2
<1>3. Inside(f, v, id) = Listed(inner)
  <2>1. Inside(f, v, id) = ListOf(f, v, Items(Innermost, f, v, id))
    BY <1>1, WrappersOf
  <2>2. ListOf(f, v, Items(Innermost, f, v, id)) = Listed(inner)
    BY DEF ListOf, Items
  <2> QED
    BY <2>1, <2>2
<1> HIDE DEF items, f
<1>4. \A each : \/ Listed(each) \in {Ok([k |-> "list", items |-> <<>>]), Err}
                \/ /\ \A i \in DOMAIN each : ~each[i].error
                   /\ Listed(each) = Ok([k |-> "list", items |-> [i \in DOMAIN each |-> each[i].value]])
  OBVIOUS
<1> HIDE DEF Listed, ref
<1>5. \A each : DOMAIN each = DOMAIN items /\ (\A i \in DOMAIN items : ~each[i].error => Refers(each[i].value))
                /\ ~ Listed(each).error => Refer(Listed(each).value)
  <2> SUFFICES ASSUME NEW each, DOMAIN each = DOMAIN items, \A i \in DOMAIN items : ~each[i].error => Refers(each[i].value),
                      ~ Listed(each).error
               PROVE  Refer(Listed(each).value)
    OBVIOUS
  <2>1. CASE Listed(each) \in {Ok([k |-> "list", items |-> <<>>]), Err}
    <3>1. Listed(each).value = [k |-> "list", items |-> <<>>]
      BY <2>1, Outcomes
    <3> QED
      BY <3>1, NoneRefer
  <2>2. CASE /\ \A i \in DOMAIN each : ~each[i].error
             /\ Listed(each) = Ok([k |-> "list", items |-> [i \in DOMAIN each |-> each[i].value]])
    <3>1. \A i \in DOMAIN each : Refers(each[i].value)
      BY <2>2
    <3>2. Refer([k |-> "list", items |-> [i \in DOMAIN each |-> each[i].value]])
      BY <3>1, EachRefers
    <3>3. Listed(each).value = [k |-> "list", items |-> [i \in DOMAIN each |-> each[i].value]]
      BY <2>2, Outcomes
    <3> QED
      BY <3>2, <3>3
  <2> QED
    BY <1>4, <2>1, <2>2
<1>6. ASSUME NEW i \in DOMAIN items, ~ outer[i].error PROVE Refers(outer[i].value)
  <2>1. outer[i] = Inside(ref, items[i], id)
    BY <1>1, ChainsOf
  <2> HIDE DEF outer
  <2> QED
    BY <1>6, <2>1, ReferringRefers DEF ref
<1>7. ASSUME NEW i \in DOMAIN items, ~ inner[i].error PROVE Refers(inner[i].value)
  <2>1. inner[i] = Innermost(ref, items[i], id)
    BY <1>1, ChainsOf
  <2> HIDE DEF inner
  <2>2. PICK n \in Referenced : inner[i] = Ok(Number("int", n))
    BY <1>7, <2>1, ReferringGives DEF ref
  <2> QED
    BY <2>2, NumbersRefer, Outcomes
<1>8. DOMAIN outer = DOMAIN items /\ DOMAIN inner = DOMAIN items
  OBVIOUS
<1> HIDE DEF outer, inner
<1> QED
  BY <1>2, <1>3, <1>5, <1>6, <1>7, <1>8 DEF f

\* The id that a text or a number gives.
IdOf(x) == IF x.k = "text" THEN NumberOf(x.s) ELSE x.n

\* As many ids are found as were given: each of them is one of a record.
LEMMA CountedRefer ==
  ASSUME NEW s, s \in Seq(Range(s)), Cardinality({IdOf(x) : x \in Range(s)} \cap Referenced) = Len(s)
  PROVE  \A x \in Range(s) : IdOf(x) \in Referenced
<1> DEFINE ids == {IdOf(x) : x \in Range(s)}
           known == ids \cap Referenced
           f == [i \in 1 .. Len(s) |-> IdOf(s[i])]
<1>1. Len(s) \in Nat /\ DOMAIN s = 1 .. Len(s)
  OBVIOUS
<1>2. Range(s) = {s[i] : i \in 1 .. Len(s)}
  BY <1>1 DEF Range
<1>3. f \in Surjection(1 .. Len(s), ids)
  BY <1>2 DEF Surjection
<1>4. IsFiniteSet(1 .. Len(s)) /\ Cardinality(1 .. Len(s)) = Len(s)
  <2>1. \A n \in Nat : IsFiniteSet(1 .. n) /\ Cardinality(1 .. n) = n
    <3> SUFFICES ASSUME NEW n \in Nat PROVE IsFiniteSet(1 .. n) /\ Cardinality(1 .. n) = n
      OBVIOUS
    <3> DEFINE one == 1
    <3>1. one \in Int /\ n \in Int
      OBVIOUS
    <3> HIDE DEF one
    <3>2. IsFiniteSet(one .. n) /\ Cardinality(one .. n) = IF one > n THEN 0 ELSE n - one + 1
      BY <3>1, FS_Interval
    <3> QED
      BY <3>2 DEF one
  <2> QED
    BY <1>1, <2>1
<1> HIDE DEF f, ids
<1>5. IsFiniteSet(ids) /\ Cardinality(ids) <= Len(s)
  BY <1>3, <1>4, FS_Surjection
<1>6. Cardinality(known) = Len(s)
  BY DEF ids
<1>7. known \in SUBSET ids
  OBVIOUS
<1> HIDE DEF known
<1>8. Cardinality(known) <= Cardinality(ids) /\ (Cardinality(ids) = Cardinality(known) => ids = known)
  BY <1>5, <1>7, FS_Subset
<1>9. Cardinality(ids) \in Nat
  BY <1>5, FS_CardinalityType
<1>10. ids = known
  BY <1>1, <1>5, <1>6, <1>8, <1>9
<1> QED
  BY <1>10 DEF known, ids

LEMMA MultipleRefers ==
  ASSUME NEW v, Whole(v), v.k = "list" => v.items \in Seq(Range(v.items)), ~ IS_IN_DB_multiple(v).error
  PROVE  Refer(IS_IN_DB_multiple(v).value)
<1> DEFINE values == IF v.k = "list" THEN v.items ELSE IF Falsy(v) THEN <<>> ELSE <<v>>
           ids == {IdOf(x) : x \in Range(values)}
           given == [k |-> "list", items |-> values]
<1>1. values \in Seq(Range(values))
  <2>1. <<>> \in Seq(Range(<<>>))
    OBVIOUS
  <2>2. <<v>> \in Seq(Range(<<v>>))
    <3>1. v \in Range(<<v>>)
      BY DEF Range
    <3> QED
      BY <3>1
  <2> QED
    BY <2>1, <2>2
<1> HIDE DEF values
<1>2. IS_IN_DB_multiple(v) =
        IF \A x \in Range(values) : IsText(x, Numerals) \/ x.k = "int"
        THEN IF Cardinality(ids \cap Referenced) = Len(values) THEN Ok(given) ELSE Err
        ELSE Err
  BY DEF IS_IN_DB_multiple, values, IdOf
<1> HIDE DEF given, ids
<1>3. /\ \A x \in Range(values) : IsText(x, Numerals) \/ x.k = "int"
      /\ Cardinality(ids \cap Referenced) = Len(values)
      /\ IS_IN_DB_multiple(v) = Ok(given)
  BY <1>2, Outcomes
<1>4. \A x \in Range(values) : IdOf(x) \in Referenced
  <2>1. Cardinality({IdOf(x) : x \in Range(values)} \cap Referenced) = Len(values)
    BY <1>3 DEF ids
  <2> QED
    BY <1>1, <2>1, CountedRefer
<1>5. \A x \in Range(values) : Refers(x)
  BY <1>3, <1>4 DEF Refers, IsText, IdOf
<1>6. Refer(given)
  BY <1>5 DEF Refer, given
<1> QED
  BY <1>3, <1>6, Outcomes

LEMMA SeveralRefer ==
  ASSUME NEW v \in Values, NEW id, NEW a, ~ a.error,
         a = Validate(Several(<<>>), v, id) \/ a = Inside(Several(<<>>), v, id)
  PROVE  Refer(a.value)
<1> DEFINE f == Several(<<>>)
           r == IS_IN_DB_multiple(v)
<1>1. f.is = "IS_IN_DB" /\ f.multiple = TRUE /\ f.and = <<>>
  BY DEF Several
<1> HIDE DEF f
<1>2. Validate(f, v, id) = FoundThen(Inside, f, v, id) /\ Inside(f, v, id) = FoundThen(Innermost, f, v, id)
  BY <1>1, WrappersOf
<1> HIDE DEF r
<1>3. FoundThen(Inside, f, v, id) = IF r.error THEN r ELSE Chain(Inside, <<>>, r.value, id)
  BY <1>1 DEF InDb, FoundThen, r
<1>4. FoundThen(Innermost, f, v, id) = IF r.error THEN r ELSE Chain(Innermost, <<>>, r.value, id)
  BY <1>1 DEF InDb, FoundThen, r
<1>5. Chain(Inside, <<>>, r.value, id) = Ok(r.value) /\ Chain(Innermost, <<>>, r.value, id) = Ok(r.value)
  BY ChainsOf
<1>6. ~ r.error /\ a = Ok(r.value)
  BY <1>2, <1>3, <1>4, <1>5 DEF f
<1>7. Whole(v) /\ (v.k = "list" => v.items \in Seq(Range(v.items)))
  BY ValuesAssumption
<1>8. Refer(r.value)
  BY <1>6, <1>7, MultipleRefers DEF r
<1> QED
  BY <1>6, <1>8, Outcomes

\* What a field of references accepts are records referred to.
LEMMA ReferencesAccepted ==
  ASSUME NEW which \in Chains, NEW field, field.type \in References, NEW v \in Values, NEW id,
         ~ Chained(ChainOf(which, field), v, id).error,
         Chained(ChainOf(which, field), v, id).value # Nothing
  PROVE  LET value == Chained(ChainOf(which, field), v, id).value
         IN  Refer(value) \/ (Refers(value) /\ value.k # "list")
<1> DEFINE a == Chained(ChainOf(which, field), v, id)
           Reached == Refer(a.value) \/ (Refers(a.value) /\ a.value.k # "list")
<1>0. ~ a.error /\ a.value # Nothing
  OBVIOUS
<1>1. ASSUME NEW f, ChainOf(which, field) = <<f>> \/ ChainOf(which, field) = <<EmptyOr(<<f>>, Nothing)>>
      PROVE  a = Validate(f, v, id) \/ a = Inside(f, v, id)
  <2>1. CASE ChainOf(which, field) = <<f>>
    BY <2>1, ChainsOf
  <2>2. CASE ChainOf(which, field) = <<EmptyOr(<<f>>, Nothing)>>
    <3>1. a = Validate(EmptyOr(<<f>>, Nothing), v, id)
      BY <2>2, ChainsOf
    <3>2. a = Ok(Nothing) \/ a = Inside(f, v, id)
      BY <3>1, EmptyOrGives
    <3> QED
      BY <1>0, <3>2, Outcomes
  <2> QED
    BY <1>1, <2>1, <2>2
<1>2. CASE which = "field"
  <2>1. ChainOf(which, field) = <<ByType(field)>> \/ ChainOf(which, field) = <<EmptyOr(<<ByType(field)>>, Nothing)>>
    BY <1>2, FieldChains DEF ChainOf
  <2>2. a = Validate(ByType(field), v, id) \/ a = Inside(ByType(field), v, id)
    BY <1>1, <2>1
  <2>3. CASE field.type = "reference"
    <3>1. ByType(field) = Referring(<<>>)
      BY <2>3, FieldChains
    <3> HIDE DEF a
    <3>2. Refers(a.value) /\ a.value.k # "list"
      BY <1>0, <2>2, <3>1, ReferringRefers
    <3> QED
      BY <3>2 DEF a
  <2>4. CASE field.type = "list:reference"
    <3>1. ByType(field) = ListOfReferring
      BY <2>4, FieldChains DEF ListOfReferring
    <3> HIDE DEF a
    <3>2. Refer(a.value)
      BY <1>0, <2>2, <3>1, ListRefers
    <3> QED
      BY <3>2 DEF a
  <2> QED
    BY <2>3, <2>4 DEF References
<1>3. CASE which = "table"
  <2>0. ChainOf(which, field) = default_validators(field)
    BY <1>3 DEF ChainOf
  <2>1. CASE field.type = "reference"
    <3>1. \/ default_validators(field) = <<Referring(IfUnique(field))>>
          \/ default_validators(field) = <<EmptyOr(<<Referring(IfUnique(field))>>, Nothing)>>
      BY <2>1, TableChains
    <3>2. a = Validate(Referring(IfUnique(field)), v, id) \/ a = Inside(Referring(IfUnique(field)), v, id)
      BY <1>1, <2>0, <3>1
    <3>3. IfUnique(field) = <<>> \/ IfUnique(field) = Unique
      BY DEF IfUnique
    <3> HIDE DEF a
    <3>4. Refers(a.value) /\ a.value.k # "list"
      BY <1>0, <3>2, <3>3, ReferringRefers
    <3> QED
      BY <3>4 DEF a
  <2>2. CASE field.type = "list:reference"
    <3>1. \/ default_validators(field) = <<Several(IfUnique(field))>>
          \/ default_validators(field) = <<EmptyOr(<<Several(IfUnique(field))>>, Nothing)>>
      BY <2>2, TableChains
    <3>2. a = Validate(Several(IfUnique(field)), v, id) \/ a = Inside(Several(IfUnique(field)), v, id)
      BY <1>1, <2>0, <3>1
    <3>3. IfUnique(field) = <<>> \/ IfUnique(field) = Unique
      BY DEF IfUnique
    <3>4. IfUnique(field) = <<>>
      BY <1>0, <3>2, <3>3, SeveralUnique
    <3> HIDE DEF a
    <3>5. Refer(a.value)
      BY <1>0, <3>2, <3>4, SeveralRefer
    <3> QED
      BY <3>5 DEF a
  <2> QED
    BY <2>1, <2>2 DEF References
<1> QED
  BY <1>2, <1>3 DEF Chains

-------------------------------------------------------------------------------
(* A field's answer                                                           *)

FieldAnswered ==
  asked.of = "field" =>
    \E which \in Chains : \E f \in Fields : \E v \in Values : \E id \in {0} \cup {r.id : r \in TableRows} :
        /\ asked.x = [which |-> which, field |-> f, given |-> v, id |-> id]
        /\ answer = Chained(ChainOf(which, f), v, id)

LEMMA FieldsTold == FieldAnswered => NotNullMeansNotNull /\ UniqueAmongRows /\ ReferencesExist
<1> SUFFICES ASSUME FieldAnswered, asked.of = "field", ~ answer.error
             PROVE  NotNullMeansNotNull /\ UniqueAmongRows /\ ReferencesExist
  BY DEF NotNullMeansNotNull, UniqueAmongRows, ReferencesExist, Answered
<1>1. PICK which \in Chains, field \in Fields, v \in Values, id \in {0} \cup {r.id : r \in TableRows} :
        /\ asked.x = [which |-> which, field |-> field, given |-> v, id |-> id]
        /\ answer = Chained(ChainOf(which, field), v, id)
  BY DEF FieldAnswered
<1>2. asked.x.which = which /\ asked.x.field = field /\ asked.x.id = id
  BY <1>1
<1>3. answer = Chained(ChainOf(which, field), v, id) /\ ~ Chained(ChainOf(which, field), v, id).error
  BY <1>1
<1>4. NotNullMeansNotNull
  <2>1. SUFFICES ASSUME field.notnull, field.type \in NotNullTypes
                 PROVE  answer.value # Nothing /\ ~ is_empty(answer.value)
    BY <1>2 DEF NotNullMeansNotNull, NotNullTypes
  <2> QED
    BY <1>3, <2>1, NotNullAccepted
<1>5. UniqueAmongRows
  <2>1. SUFFICES ASSUME which = "table", field.unique, field.options = <<>>, field.type # "json", answer.value # Nothing
                 PROVE  \A r \in TableRows : r.text = Str(answer.value) => r.id = id
    BY <1>2 DEF UniqueAmongRows
  <2>2. answer = Chained(default_validators(field), v, id) /\ ~ Chained(default_validators(field), v, id).error
    BY <1>3, <2>1 DEF ChainOf
  <2> QED
    BY <2>1, <2>2, UniqueAccepted
<1>6. ReferencesExist
  <2>1. SUFFICES ASSUME field.type \in References, answer.value # Nothing
                 PROVE  \A x \in IF answer.value.k = "list" THEN Range(answer.value.items) ELSE {answer.value} : Refers(x)
    BY <1>2 DEF ReferencesExist, Refers
  <2>2. Refer(answer.value) \/ (Refers(answer.value) /\ answer.value.k # "list")
    BY <1>3, <2>1, ReferencesAccepted
  <2> QED
    BY <2>2 DEF Refer
<1> QED
  BY <1>4, <1>5, <1>6

-------------------------------------------------------------------------------
(* What is accepted is what was asked for                                     *)

AllAnswered == AddressAnswered /\ FileAnswered /\ ImageAnswered /\ FieldAnswered

LEMMA AnsweredIsAsked == AllAnswered => AcceptedAsAsked
BY FamilyTold, RangesTold, FilesTold, ImagesTold, FieldsTold DEF AllAnswered, AcceptedAsAsked

LEMMA AskedIs ==
  ASSUME NEW of, NEW x, NEW y, Ask(of, x, y)
  PROVE  asked'.of = of /\ asked'.x = x /\ answer' = y
BY DEF Ask

\* A call of another kind leaves nothing to say of the four.
LEMMA OthersAnswered ==
  ASSUME NEW of, of \notin {"ip", "file", "image", "field"}, asked'.of = of
  PROVE  AllAnswered'
BY DEF AllAnswered, AddressAnswered, FileAnswered, ImageAnswered, FieldAnswered

LEMMA TextsAsked == AskText => AllAnswered'
<1> SUFFICES ASSUME AskText PROVE AllAnswered'
  OBVIOUS
<1> DEFINE Kinds == {"list", "ints", "email", "slug", "clean", "strong", "login", "date", "datetime", "time"}
<1>1. \E of \in Kinds : \E x, y : Ask(of, x, y)
  BY DEF AskText, ShowList, ReadInts, ReadEmail, Slugify, Clean, SetPassword, LogIn, ShowDate, ShowDatetime, ReadTime
<1>2. PICK of \in Kinds : asked'.of = of
  BY <1>1, AskedIs
<1> QED
  BY <1>2, OthersAnswered

LEMMA AddressesAsked == AskAddress => AllAnswered'
<1> SUFFICES ASSUME AskAddress PROVE AllAnswered'
  OBVIOUS
<1>1. CASE ReadUrl
  <2>1. \E x, y : Ask("url", x, y)
    BY <1>1 DEF ReadUrl
  <2>2. asked'.of = "url"
    BY <2>1, AskedIs
  <2> QED
    BY <2>2, OthersAnswered
<1>2. CASE ReadAddress
  <2>1. PICK a \in Addresses : \E f : f.ranges \in IpRanges /\ Ask("ip", [a |-> a, f |-> f], IS_IPADDRESS(a, f))
    BY <1>2 DEF ReadAddress
  <2>2. PICK f : f.ranges \in IpRanges /\ Ask("ip", [a |-> a, f |-> f], IS_IPADDRESS(a, f))
    BY <2>1
  <2>3. asked'.of = "ip" /\ asked'.x = [a |-> a, f |-> f] /\ answer' = IS_IPADDRESS(a, f)
    BY <2>2, AskedIs
  <2>4. AddressAnswered'
    BY <2>2, <2>3 DEF AddressAnswered
  <2> QED
    BY <2>3, <2>4 DEF AllAnswered, FileAnswered, ImageAnswered, FieldAnswered
<1>3. CASE NameFile
  <2>1. PICK n \in FileNames, lastdot \in BOOLEAN, case \in 0..2, upload \in BOOLEAN, e \in {{}, {<<"a">>}} :
          LET f == [filename |-> {}, extension |-> e, lastdot |-> lastdot, case |-> case]
          IN  Ask("file", [n |-> n, f |-> f], IF upload THEN IS_UPLOAD_FILENAME(n, f) ELSE IS_FILE(n, f))
    BY <1>3 DEF NameFile
  <2> DEFINE f == [filename |-> {}, extension |-> e, lastdot |-> lastdot, case |-> case]
             y == IF upload THEN IS_UPLOAD_FILENAME(n, f) ELSE IS_FILE(n, f)
  <2>2. Ask("file", [n |-> n, f |-> f], y)
    BY <2>1
  <2>3. asked'.of = "file" /\ asked'.x = [n |-> n, f |-> f] /\ answer' = y
    <3> HIDE DEF f, y
    <3> QED
      BY <2>2, AskedIs
  <2>4. FileAnswered'
    BY <2>3 DEF FileAnswered
  <2> QED
    BY <2>3, <2>4 DEF AllAnswered, AddressAnswered, ImageAnswered, FieldAnswered
<1>4. CASE SendImage
  <2>1. PICK e \in Headers \cup {"jpg", "exe"}, h \in Headers, s \in SizesOfImages, r \in {<<-1, -1>>, <<2, 1>>} :
          LET file == [extension |-> e, header |-> h, size |-> s]
              f == [extensions |-> {"png", "jpeg"}, minsize |-> <<0, 0>>, maxsize |-> <<3, 3>>, aspectratio |-> r]
          IN  Ask("image", [file |-> file, f |-> f], IS_IMAGE(file, f))
    BY <1>4 DEF SendImage
  <2> DEFINE file == [extension |-> e, header |-> h, size |-> s]
             f == [extensions |-> {"png", "jpeg"}, minsize |-> <<0, 0>>, maxsize |-> <<3, 3>>, aspectratio |-> r]
  <2>2. Ask("image", [file |-> file, f |-> f], IS_IMAGE(file, f))
    BY <2>1
  <2>3. asked'.of = "image" /\ asked'.x = [file |-> file, f |-> f] /\ answer' = IS_IMAGE(file, f)
    <3> HIDE DEF f, file
    <3> QED
      BY <2>2, AskedIs
  <2>4. ImageAnswered'
    BY <2>3 DEF ImageAnswered
  <2> QED
    BY <2>3, <2>4 DEF AllAnswered, AddressAnswered, FileAnswered, FieldAnswered
<1> QED
  BY <1>1, <1>2, <1>3, <1>4 DEF AskAddress

LEMMA FieldsAsked == AskField => AllAnswered'
<1> SUFFICES ASSUME AskField PROVE AllAnswered'
  OBVIOUS
<1>1. CASE ValidateField
  <2>1. PICK which \in Chains, f \in Fields, v \in Values, id \in {0} \cup {r.id : r \in TableRows} :
          Ask("field", [which |-> which, field |-> f, given |-> v, id |-> id], Chained(ChainOf(which, f), v, id))
    BY <1>1 DEF ValidateField
  <2>2. /\ asked'.of = "field"
        /\ asked'.x = [which |-> which, field |-> f, given |-> v, id |-> id]
        /\ answer' = Chained(ChainOf(which, f), v, id)
    BY <2>1, AskedIs
  <2>3. FieldAnswered'
    BY <2>2 DEF FieldAnswered
  <2> QED
    BY <2>2, <2>3 DEF AllAnswered, AddressAnswered, FileAnswered, ImageAnswered
<1>2. CASE ValidateWrapped
  <2>1. \E x, y : Ask("wrapped", x, y)
    BY <1>2 DEF ValidateWrapped
  <2>2. asked'.of = "wrapped"
    BY <2>1, AskedIs
  <2> QED
    BY <2>2, OthersAnswered
<1> QED
  BY <1>1, <1>2 DEF AskField

(* Whatever is validated, by any of the calls, an answer without an error is  *)
(* what was asked for: an address of the family and the ranges, a file with   *)
(* an allowed extension, an image of the kind its header shows, a value that  *)
(* is not null where it must not be, in no other row where it must be unique, *)
(* of a record that exists where it refers to one.                            *)
THEOREM AcceptedIsAsked == Spec => []AcceptedAsAsked
<1>1. Init => AllAnswered
  BY DEF Init, Idle, AllAnswered, AddressAnswered, FileAnswered, ImageAnswered, FieldAnswered
<1>2. AllAnswered /\ [Next]_calls => AllAnswered'
  <2> SUFFICES ASSUME AllAnswered, [Next]_calls PROVE AllAnswered'
    OBVIOUS
  <2>1. CASE Next
    BY <2>1, TextsAsked, AddressesAsked, FieldsAsked DEF Next
  <2>2. CASE UNCHANGED calls
    <3>1. asked' = asked /\ answer' = answer
      BY <2>2 DEF calls
    <3>2. AddressAnswered'
      BY <3>1 DEF AllAnswered, AddressAnswered
    <3>3. FileAnswered'
      BY <3>1 DEF AllAnswered, FileAnswered
    <3>4. ImageAnswered'
      BY <3>1 DEF AllAnswered, ImageAnswered
    <3>5. FieldAnswered'
      BY <3>1 DEF AllAnswered, FieldAnswered
    <3> QED
      BY <3>2, <3>3, <3>4, <3>5 DEF AllAnswered
  <2> QED
    BY <2>1, <2>2
<1>3. AllAnswered => AcceptedAsAsked
  BY AnsweredIsAsked
<1> QED
  BY <1>1, <1>2, <1>3, PTL DEF Spec
-------------------------------------------------------------------------------
(* Recursion over the places of a text                                        *)

\* What holds at the beginning and is carried from place to place holds at all.
LEMMA AllPlaces ==
  ASSUME NEW N \in Nat, NEW S, 0 \in S, \A i \in 1 .. N : i - 1 \in S => i \in S
  PROVE  0 .. N \subseteq S
<1> DEFINE D == {i \in 0 .. N : i \notin S}
<1>1. SUFFICES ASSUME D # {} PROVE FALSE
  OBVIOUS
<1>2. D \in SUBSET Nat
  OBVIOUS
<1>3. PICK m \in D : \A n \in D : m <= n
  <2> HIDE DEF D
  <2> QED
    BY <1>1, <1>2, Least
<1>4. m \in 1 .. N /\ m - 1 \in 0 .. N /\ m - 1 \in S
  <2>1. m # 0 /\ m \in 0 .. N
    OBVIOUS
  <2>2. m - 1 \in 0 .. N /\ ~ (m <= m - 1)
    BY <2>1
  <2> QED
    BY <1>3, <2>1, <2>2
<1> QED
  BY <1>4

IsStep(N, V, step) == \A i \in 1 .. N : \A v \in V : step[<<i, v>>] \in V
Carries(g, N, V, base, step) ==
    g \in [0 .. N -> V] /\ g[0] = base /\ \A i \in 1 .. N : g[i] = step[<<i, g[i - 1]>>]

\* A value may be carried from place to place, if each step has an outcome.
LEMMA Carried ==
  ASSUME NEW N \in Nat, NEW V, NEW base \in V, NEW step, IsStep(N, V, step)
  PROVE  \E g : Carries(g, N, V, base, step)
<1> DEFINE Upto(m) == \E g \in [0 .. m -> V] : g[0] = base /\ \A i \in 1 .. m : g[i] = step[<<i, g[i - 1]>>]
           S == {m \in 0 .. N : Upto(m)}
<1>1. 0 \in S
  <2> DEFINE h == [i \in 0 .. 0 |-> base]
  <2>1. h \in [0 .. 0 -> V] /\ h[0] = base /\ \A i \in 1 .. 0 : h[i] = step[<<i, h[i - 1]>>]
    OBVIOUS
  <2>2. Upto(0)
    <3> HIDE DEF h
    <3> QED
      BY <2>1
  <2> QED
    BY <2>2
<1>2. ASSUME NEW m \in 1 .. N, m - 1 \in S PROVE m \in S
  <2>1. PICK g \in [0 .. m - 1 -> V] : g[0] = base /\ \A i \in 1 .. m - 1 : g[i] = step[<<i, g[i - 1]>>]
    BY <1>2
  <2> DEFINE last == step[<<m, g[m - 1]>>]
             h == [i \in 0 .. m |-> IF i < m THEN g[i] ELSE last]
  <2>2. last \in V
    <3>1. m - 1 \in 0 .. m - 1
      OBVIOUS
    <3>2. g[m - 1] \in V
      BY <3>1
    <3> QED
      BY <3>2 DEF IsStep
  <2>3. h \in [0 .. m -> V]
    <3>1. \A i \in 0 .. m : i < m => i \in 0 .. m - 1
      OBVIOUS
    <3> HIDE DEF last
    <3> QED
      BY <2>2, <3>1
  <2>4. h[0] = base
    BY <2>1
  <2>5. ASSUME NEW i \in 1 .. m PROVE h[i] = step[<<i, h[i - 1]>>]
    <3>1. i - 1 \in 0 .. m /\ i - 1 < m /\ h[i - 1] = g[i - 1]
      OBVIOUS
    <3>2. CASE i < m
      <4>1. i \in 1 .. m - 1 /\ h[i] = g[i]
        BY <3>2
      <4> QED
        BY <2>1, <3>1, <4>1
    <3>3. CASE ~ (i < m)
      <4>1. i = m /\ h[i] = last
        BY <3>3
      <4> QED
        BY <3>1, <4>1
    <3> QED
      BY <3>2, <3>3
  <2>6. \E f \in [0 .. m -> V] : f[0] = base /\ \A i \in 1 .. m : f[i] = step[<<i, f[i - 1]>>]
    <3> HIDE DEF h
    <3> QED
      BY <2>3, <2>4, <2>5
  <2> QED
    BY <2>6
<1>3. 0 .. N \subseteq S
  <2> HIDE DEF S
  <2> QED
    BY <1>1, <1>2, AllPlaces
<1>4. Upto(N)
  BY <1>3
<1> QED
  BY <1>4 DEF Carries

-------------------------------------------------------------------------------
(* The strength of passwords                                                  *)

\* A power is a product of that many factors.
LEMMA PowerIs ==
  ASSUME NEW b \in Nat, NEW n \in Nat
  PROVE  \E g \in [0 .. n -> Nat] : Power(b, n) = g[n] /\ g[0] = 1 /\ \A i \in 1 .. n : g[i] = b * g[i - 1]
<1> DEFINE step == [p \in (1 .. n) \X Nat |-> b * p[2]]
           At(f) == [i \in 0 .. n |-> IF i = 0 THEN 1 ELSE b * f[i - 1]]
           power == CHOOSE f : f = At(f)
<1>1. IsStep(n, Nat, step) /\ 1 \in Nat
  BY DEF IsStep
<1>2. PICK g \in [0 .. n -> Nat] : g[0] = 1 /\ \A i \in 1 .. n : g[i] = step[<<i, g[i - 1]>>]
  <2>1. \E g : Carries(g, n, Nat, 1, step)
    <3> HIDE DEF step
    <3> QED
      BY <1>1, Carried
  <2> QED
    BY <2>1 DEF Carries
<1>3. \A i \in 1 .. n : g[i] = b * g[i - 1]
  <2>1. \A i \in 1 .. n : i - 1 \in 0 .. n
    OBVIOUS
  <2>2. \A i \in 1 .. n : <<i, g[i - 1]>> \in (1 .. n) \X Nat
    BY <2>1
  <2> QED
    BY <1>2, <2>2
<1>4. g = At(g)
  <2>1. \A i \in 0 .. n : i # 0 => i \in 1 .. n
    OBVIOUS
  <2>2. \A i \in 0 .. n : g[i] = IF i = 0 THEN 1 ELSE b * g[i - 1]
    BY <1>2, <1>3, <2>1
  <2> QED
    BY <2>2
<1>5. power = At(power)
  BY <1>4
<1>6. Power(b, n) = power[n]
  BY DEF Power
<1> HIDE DEF power
<1>7. power[0] = 1 /\ \A i \in 1 .. n : power[i] = b * power[i - 1]
  <2>1. 0 \in 0 .. n /\ \A i \in 1 .. n : i \in 0 .. n /\ i # 0
    OBVIOUS
  <2>2. \A i \in 0 .. n : power[i] = IF i = 0 THEN 1 ELSE b * power[i - 1]
    BY <1>5
  <2> QED
    BY <2>1, <2>2
<1>8. \A i \in 0 .. n : power[i] \in Nat
  <2> DEFINE S == {i \in 0 .. n : power[i] \in Nat}
  <2>1. 0 \in S
    BY <1>7
  <2>2. \A i \in 1 .. n : i - 1 \in S => i \in S
    BY <1>7
  <2>3. 0 .. n \subseteq S
    <3> HIDE DEF S
    <3> QED
      BY <2>1, <2>2, AllPlaces
  <2> QED
    BY <2>3
<1>9. power \in [0 .. n -> Nat]
  <2>1. power = [i \in 0 .. n |-> power[i]]
    <3>1. DOMAIN power = 0 .. n
      BY <1>5
    <3> QED
      BY <1>5
  <2> QED
    BY <1>8, <2>1
<1> QED
  BY <1>6, <1>7, <1>9

\* The greater its factor the greater is a power.
LEMMA PowersInOrder ==
  ASSUME NEW b \in Nat, NEW c \in Nat, b <= c, NEW n \in Nat
  PROVE  Power(b, n) <= Power(c, n) /\ Power(b, n) \in Nat /\ Power(c, n) \in Nat
<1>1. PICK f \in [0 .. n -> Nat] : Power(b, n) = f[n] /\ f[0] = 1 /\ \A i \in 1 .. n : f[i] = b * f[i - 1]
  BY PowerIs
<1>2. PICK g \in [0 .. n -> Nat] : Power(c, n) = g[n] /\ g[0] = 1 /\ \A i \in 1 .. n : g[i] = c * g[i - 1]
  BY PowerIs
<1> DEFINE S == {i \in 0 .. n : f[i] <= g[i]}
<1>3. 0 \in S
  BY <1>1, <1>2
<1>4. ASSUME NEW i \in 1 .. n, i - 1 \in S PROVE i \in S
  <2>1. i - 1 \in 0 .. n /\ f[i - 1] \in Nat /\ g[i - 1] \in Nat /\ f[i - 1] <= g[i - 1]
    BY <1>4
  <2> DEFINE x == f[i - 1]
             y == g[i - 1]
  <2>2. x \in Nat /\ y \in Nat /\ x <= y
    BY <2>1
  <2> HIDE DEF x, y
  <2>3. b * x <= b * y /\ b * y <= c * y
    BY <2>2
  <2>4. b * x \in Nat /\ b * y \in Nat /\ c * y \in Nat
    BY <2>2
  <2>5. f[i] = b * x /\ g[i] = c * y
    BY <1>1, <1>2 DEF x, y
  <2> QED
    BY <2>3, <2>4, <2>5
<1>5. 0 .. n \subseteq S
  <2> HIDE DEF S
  <2> QED
    BY <1>3, <1>4, AllPlaces
<1>6. n \in 0 .. n
  OBVIOUS
<1> QED
  BY <1>1, <1>2, <1>5, <1>6

\* The more factors two has the greater is its power.
LEMMA PowersOfTwo ==
  ASSUME NEW m \in Nat, NEW n \in Nat, m <= n
  PROVE  Power(2, m) <= Power(2, n) /\ Power(2, m) \in Nat /\ Power(2, n) \in Nat
<1>0. \A k \in Nat : \E g \in [0 .. k -> Nat] : Power(2, k) = g[k] /\ g[0] = 1 /\ \A i \in 1 .. k : g[i] = 2 * g[i - 1]
  <2> DEFINE b == 2
  <2>1. b \in Nat
    OBVIOUS
  <2>2. \A k \in Nat : \E g \in [0 .. k -> Nat] : Power(b, k) = g[k] /\ g[0] = 1 /\ \A i \in 1 .. k : g[i] = b * g[i - 1]
    <3> HIDE DEF b
    <3> QED
      BY <2>1, PowerIs
  <2> QED
    BY <2>2
<1>1. PICK f \in [0 .. m -> Nat] : Power(2, m) = f[m] /\ f[0] = 1 /\ \A i \in 1 .. m : f[i] = 2 * f[i - 1]
  BY <1>0
<1>2. PICK g \in [0 .. n -> Nat] : Power(2, n) = g[n] /\ g[0] = 1 /\ \A i \in 1 .. n : g[i] = 2 * g[i - 1]
  BY <1>0
<1> DEFINE S == {i \in 0 .. n : IF i <= m THEN f[i] = g[i] ELSE f[m] <= g[i]}
<1>3. 0 \in S
  BY <1>1, <1>2
<1>4. ASSUME NEW i \in 1 .. n, i - 1 \in S PROVE i \in S
  <2>1. i - 1 \in 0 .. n /\ g[i - 1] \in Nat /\ g[i] = 2 * g[i - 1]
    BY <1>2
  <2>2. CASE i <= m
    <3>1. i \in 1 .. m /\ f[i] = 2 * f[i - 1] /\ f[i - 1] = g[i - 1]
      BY <1>1, <1>4, <2>2
    <3> QED
      BY <2>1, <2>2, <3>1
  <2>3. CASE i = m + 1
    <3>1. f[m] = g[i - 1]
      BY <1>4, <2>3
    <3> QED
      BY <2>1, <2>3, <3>1
  <2>4. CASE i > m + 1
    <3>1. f[m] <= g[i - 1] /\ m \in 0 .. m /\ f[m] \in Nat
      BY <1>4, <2>4
    <3> QED
      BY <2>1, <2>4, <3>1
  <2> QED
    BY <2>2, <2>3, <2>4
<1>5. 0 .. n \subseteq S
  <2> HIDE DEF S
  <2> QED
    BY <1>3, <1>4, AllPlaces
<1>6. n \in S /\ n \in 0 .. n /\ m \in 0 .. m
  BY <1>5
<1>7. f[m] <= g[n]
  BY <1>6
<1> QED
  BY <1>1, <1>2, <1>6, <1>7

Characters == UNION Range(CharSets)

\* Each letter is in one of the five sets.
LEMMA SetOfIs == ASSUME NEW c \in Characters PROVE SetOf(c) \in 1 .. 5
<1>1. DOMAIN CharSets = 1 .. 5
  BY DEF CharSets
<1>2. \E n \in 1 .. 5 : c \in CharSets[n]
  BY <1>1 DEF Characters, Range
<1> QED
  BY <1>1, <1>2 DEF SetOf

Credits == [seen : SUBSET (1 .. 5), other : SUBSET Characters, last : 0 .. 5, alphabet : Nat]

\* Credit is not taken back.
LEMMA CreditGrows ==
  ASSUME NEW s \in Credits, NEW c \in Characters
  PROVE  Credit(s, c) \in Credits /\ Credit(s, c).alphabet >= s.alphabet
<1> DEFINE n == SetOf(c)
           more == (IF n \notin s.seen THEN SetSize[n] ELSE IF c \notin s.other THEN 1 ELSE 0) + (IF n # s.last THEN 1 ELSE 0)
<1>1. n \in 1 .. 5
  BY SetOfIs
<1>2. SetSize[n] \in Nat
  <2>1. n = 1 \/ n = 2 \/ n = 3 \/ n = 4 \/ n = 5
    BY <1>1
  <2> QED
    BY <2>1 DEF SetSize
<1>3. s.seen \in SUBSET (1 .. 5) /\ s.other \in SUBSET Characters /\ s.last \in 0 .. 5 /\ s.alphabet \in Nat
  BY DEF Credits
<1> DEFINE seen == s.seen \cup {n}
           other == IF n \in s.seen THEN s.other \cup {c} ELSE s.other
           alphabet == s.alphabet + (IF n \notin s.seen THEN SetSize[n] ELSE IF c \notin s.other THEN 1 ELSE 0)
                                  + (IF n # s.last THEN 1 ELSE 0)
<1>4. Credit(s, c) = [seen |-> seen, other |-> other, last |-> n, alphabet |-> alphabet]
  BY DEF Credit
<1>5. alphabet \in Nat /\ alphabet >= s.alphabet
  <2> HIDE DEF n
  <2>1. CASE n \notin s.seen
    BY <1>2, <1>3, <2>1
  <2>2. CASE n \in s.seen
    BY <1>3, <2>2
  <2> QED
    BY <2>1, <2>2
<1>6. seen \in SUBSET (1 .. 5)
  BY <1>1, <1>3
<1>7. other \in SUBSET Characters
  BY <1>3
<1>8. n \in 0 .. 5
  BY <1>1
<1> HIDE DEF n, seen, other, alphabet
<1> QED
  BY <1>4, <1>5, <1>6, <1>7, <1>8 DEF Credits

\* The credit of a text is what its characters are credited with, one by one.
LEMMA EntropyIs ==
  ASSUME NEW t \in Seq(Characters)
  PROVE  \E g \in [0 .. Len(t) -> Credits] :
           /\ calc_entropy(t) = g[Len(t)].alphabet
           /\ g[0] = NoCredit /\ \A i \in 1 .. Len(t) : g[i] = Credit(g[i - 1], t[i])
<1> DEFINE n == Len(t)
           step == [p \in (1 .. n) \X Credits |-> Credit(p[2], t[p[1]])]
           At(f) == [i \in 0 .. n |-> IF i = 0 THEN NoCredit ELSE Credit(f[i - 1], t[i])]
           credit == CHOOSE f : f = At(f)
<1>1. n \in Nat /\ \A i \in 1 .. n : t[i] \in Characters
  OBVIOUS
<1>2. calc_entropy(t) = credit[n].alphabet
  BY DEF calc_entropy
<1> HIDE DEF n
<1>3. NoCredit \in Credits
  BY DEF NoCredit, Credits
<1>4. IsStep(n, Credits, step)
  <2>1. \A p \in (1 .. n) \X Credits : Credit(p[2], t[p[1]]) \in Credits
    <3>1. \A p \in (1 .. n) \X Credits : p[1] \in 1 .. n /\ p[2] \in Credits
      OBVIOUS
    <3> QED
      BY <1>1, <3>1, CreditGrows
  <2> QED
    BY <2>1 DEF IsStep
<1>5. PICK g \in [0 .. n -> Credits] : g[0] = NoCredit /\ \A i \in 1 .. n : g[i] = step[<<i, g[i - 1]>>]
  <2>1. \E g : Carries(g, n, Credits, NoCredit, step)
    <3> HIDE DEF step
    <3> QED
      BY <1>1, <1>3, <1>4, Carried
  <2> QED
    BY <2>1 DEF Carries
<1>6. \A i \in 1 .. n : g[i] = Credit(g[i - 1], t[i])
  <2>1. \A i \in 1 .. n : i - 1 \in 0 .. n
    BY <1>1
  <2>2. \A i \in 1 .. n : <<i, g[i - 1]>> \in (1 .. n) \X Credits
    BY <2>1
  <2> QED
    BY <1>5, <2>2
<1>7. g = At(g)
  <2>1. \A i \in 0 .. n : i # 0 => i \in 1 .. n
    BY <1>1
  <2>2. \A i \in 0 .. n : g[i] = IF i = 0 THEN NoCredit ELSE Credit(g[i - 1], t[i])
    BY <1>5, <1>6, <2>1
  <2> QED
    BY <2>2
<1>8. credit = At(credit)
  BY <1>7
<1> HIDE DEF credit
<1>9. credit[0] = NoCredit /\ \A i \in 1 .. n : credit[i] = Credit(credit[i - 1], t[i])
  <2>1. 0 \in 0 .. n /\ \A i \in 1 .. n : i \in 0 .. n /\ i # 0
    BY <1>1
  <2>2. \A i \in 0 .. n : credit[i] = IF i = 0 THEN NoCredit ELSE Credit(credit[i - 1], t[i])
    BY <1>8
  <2> QED
    BY <2>1, <2>2
<1>10. \A i \in 0 .. n : credit[i] \in Credits
  <2> DEFINE S == {i \in 0 .. n : credit[i] \in Credits}
  <2>1. 0 \in S
    BY <1>1, <1>3, <1>9
  <2>2. \A i \in 1 .. n : i - 1 \in S => i \in S
    BY <1>1, <1>9, CreditGrows
  <2>3. 0 .. n \subseteq S
    <3> HIDE DEF S
    <3> QED
      BY <1>1, <2>1, <2>2, AllPlaces
  <2> QED
    BY <2>3
<1>11. credit \in [0 .. n -> Credits]
  <2>1. credit = [i \in 0 .. n |-> credit[i]]
    <3>1. DOMAIN credit = 0 .. n
      BY <1>8
    <3> QED
      BY <1>8
  <2> QED
    BY <1>10, <2>1
<1> QED
  BY <1>2, <1>9, <1>11 DEF n

\* One more character is credited with none or more.
LEMMA EntropyOfMore ==
  ASSUME NEW t \in Seq(Characters), NEW c \in Characters
  PROVE  calc_entropy(t) \in Nat /\ calc_entropy(Append(t, c)) \in Nat /\ calc_entropy(t) <= calc_entropy(Append(t, c))
<1> DEFINE u == Append(t, c)
           n == Len(t)
<1>1. u \in Seq(Characters) /\ n \in Nat /\ Len(u) = n + 1 /\ u[n + 1] = c /\ \A i \in 1 .. n : u[i] = t[i]
  OBVIOUS
<1>2. PICK f \in [0 .. n -> Credits] :
        /\ calc_entropy(t) = f[n].alphabet
        /\ f[0] = NoCredit /\ \A i \in 1 .. n : f[i] = Credit(f[i - 1], t[i])
  BY EntropyIs
<1>3. PICK g \in [0 .. n + 1 -> Credits] :
        /\ calc_entropy(u) = g[n + 1].alphabet
        /\ g[0] = NoCredit /\ \A i \in 1 .. n + 1 : g[i] = Credit(g[i - 1], u[i])
  <2> HIDE DEF u
  <2>1. PICK g \in [0 .. Len(u) -> Credits] :
          /\ calc_entropy(u) = g[Len(u)].alphabet
          /\ g[0] = NoCredit /\ \A i \in 1 .. Len(u) : g[i] = Credit(g[i - 1], u[i])
    BY <1>1, EntropyIs
  <2> QED
    BY <1>1, <2>1
<1> HIDE DEF u, n
<1> DEFINE S == {i \in 0 .. n : f[i] = g[i]}
<1>4. 0 \in S
  BY <1>1, <1>2, <1>3
<1>5. ASSUME NEW i \in 1 .. n, i - 1 \in S PROVE i \in S
  <2>1. i \in 1 .. n + 1 /\ i \in 0 .. n /\ f[i - 1] = g[i - 1] /\ u[i] = t[i]
    BY <1>1, <1>5
  <2> QED
    BY <1>2, <1>3, <2>1
<1>6. 0 .. n \subseteq S
  <2> HIDE DEF S
  <2> QED
    BY <1>1, <1>4, <1>5, AllPlaces
<1>7. f[n] = g[n] /\ n \in 0 .. n /\ g[n] \in Credits
  <2>1. n \in 0 .. n /\ n \in 0 .. n + 1
    BY <1>1
  <2> QED
    BY <1>6, <2>1
<1>8. n + 1 \in 1 .. n + 1 /\ n + 1 - 1 = n
  BY <1>1
<1>9. g[n + 1] = Credit(g[n], c)
  BY <1>1, <1>3, <1>8
<1>10. g[n + 1] \in Credits /\ g[n + 1].alphabet >= g[n].alphabet
  BY <1>7, <1>9, CreditGrows
<1>11. g[n + 1].alphabet \in Nat /\ g[n].alphabet \in Nat
  BY <1>7, <1>10 DEF Credits
<1> QED
  BY <1>2, <1>3, <1>7, <1>10, <1>11 DEF u

\* A text longer by a character has as many bits, and a text has fewer, too.
LEMMA BitsOfMore ==
  ASSUME NEW t \in Seq(Characters), NEW c \in Characters, NEW bits \in Nat, HasEntropy(t, bits)
  PROVE  HasEntropy(Append(t, c), bits)
<1>1. CASE bits = 0
  BY <1>1 DEF HasEntropy
<1>2. CASE bits # 0
  <2>1. PICK n \in 1 .. Len(t) : Power(calc_entropy(t), n) >= Power(2, bits)
    BY <1>2 DEF HasEntropy
  <2>2. n \in 1 .. Len(Append(t, c)) /\ n \in Nat
    OBVIOUS
  <2>3. Power(calc_entropy(t), n) <= Power(calc_entropy(Append(t, c)), n)
    /\ Power(calc_entropy(t), n) \in Nat /\ Power(calc_entropy(Append(t, c)), n) \in Nat
    BY <2>2, EntropyOfMore, PowersInOrder
  <2>4. Power(2, bits) \in Nat
    BY PowersOfTwo
  <2>5. Power(calc_entropy(Append(t, c)), n) >= Power(2, bits)
    BY <2>1, <2>3, <2>4
  <2> QED
    BY <2>2, <2>5 DEF HasEntropy
<1> QED
  BY <1>1, <1>2

LEMMA BitsOfLess ==
  ASSUME NEW t \in Seq(Characters), NEW bits \in Nat, NEW fewer \in Nat, fewer <= bits, HasEntropy(t, bits)
  PROVE  HasEntropy(t, fewer)
<1>1. CASE fewer = 0
  BY <1>1 DEF HasEntropy
<1>2. CASE fewer # 0
  <2>1. PICK n \in 1 .. Len(t) : Power(calc_entropy(t), n) >= Power(2, bits)
    BY <1>2 DEF HasEntropy
  <2>2. Power(2, fewer) <= Power(2, bits) /\ Power(2, fewer) \in Nat /\ Power(2, bits) \in Nat
    BY PowersOfTwo
  <2>3. calc_entropy(t) \in Nat
    <3>1. PICK g \in [0 .. Len(t) -> Credits] : calc_entropy(t) = g[Len(t)].alphabet
      BY EntropyIs
    <3>2. g[Len(t)] \in Credits
      OBVIOUS
    <3> QED
      BY <3>1, <3>2 DEF Credits
  <2>4. Power(calc_entropy(t), n) \in Nat
    <3>1. n \in Nat
      OBVIOUS
    <3> QED
      BY <2>3, <3>1, PowersInOrder
  <2>5. Power(calc_entropy(t), n) >= Power(2, fewer)
    BY <2>1, <2>2, <2>4
  <2> QED
    BY <2>5 DEF HasEntropy
<1> QED
  BY <1>1, <1>2

\* Counted characters are a number.
LEMMA Counted ==
  ASSUME NEW t \in Seq(Characters), NEW S
  PROVE  InClass(t, S) \in Nat /\ Cardinality(ToSet(t) \cap S) \in Nat
<1>1. Len(t) \in Nat /\ DOMAIN t = 1 .. Len(t)
  OBVIOUS
<1>2. IsFiniteSet(1 .. Len(t))
  BY <1>1, FS_Interval
<1>3. IsFiniteSet({i \in DOMAIN t : t[i] \in S})
  BY <1>1, <1>2, FS_Subset
<1>4. IsFiniteSet(ToSet(t) \cap S)
  <2>1. ToSet(t) = {t[i] : i \in 1 .. Len(t)}
    BY <1>1 DEF ToSet
  <2>2. IsFiniteSet(ToSet(t))
    <3> DEFINE f == [i \in 1 .. Len(t) |-> t[i]]
    <3>1. f \in Surjection(1 .. Len(t), ToSet(t))
      BY <2>1 DEF Surjection
    <3> QED
      BY <1>2, <3>1, FS_Surjection
  <2> QED
    BY <2>2, FS_Subset
<1> QED
  BY <1>3, <1>4, FS_CardinalityType DEF InClass

\* As many of a kind as a requirement asks are as many as a lesser one asks.
LEMMA MeetsLess ==
  ASSUME NEW few \in SUBSET Nat, NEW many \in SUBSET Nat, NEW n \in Nat, Meets(many, n),
         \A k \in few : \E m \in many : k = m \/ (k > 0 /\ k <= m)
  PROVE  Meets(few, n)
<1>1. SUFFICES ASSUME NEW k \in few PROVE IF k = 0 THEN n = 0 ELSE n >= k
  BY DEF Meets
<1>2. PICK m \in many : k = m \/ (k > 0 /\ k <= m)
  OBVIOUS
<1>3. IF m = 0 THEN n = 0 ELSE n >= m
  BY DEF Meets
<1>4. k \in Nat /\ m \in Nat
  OBVIOUS
<1> QED
  BY <1>2, <1>3, <1>4

Requirements == [{"min", "max", "upper", "lower", "special", "number", "entropy"} -> SUBSET Nat]

\* What a strong password is accepted for.
Strong(t, need) ==
  /\ \A b \in need.entropy : HasEntropy(t, b)
  /\ \A k \in need.min : k > 0 => Len(t) >= k
  /\ \A k \in need.max : k > 0 => Len(t) <= k
  /\ Meets(need.special, Cardinality(ToSet(t) \cap {"!", "*", "-", "_", ":", ".", ","}))
  /\ ToSet(t) \cap {" ", "\""} = {}
  /\ Meets(need.upper, InClass(t, {"A"}))
  /\ Meets(need.lower, InClass(t, {"a", "b"}))
  /\ Meets(need.number, InClass(t, {"1"}))

LEMMA StrongIs ==
  ASSUME NEW t, NEW need
  PROVE  IS_STRONG(t, need) = IF (Stars(t) /\ Len(t) > 4) \/ Strong(t, need) THEN Ok(t) ELSE Err
BY DEF IS_STRONG, Strong

LEMMA StrongerMeetsLess ==
  ASSUME NEW t \in Seq(Characters), NEW few \in Requirements, NEW many \in Requirements,
         AsksNoMore(few, many), Strong(t, many)
  PROVE  Strong(t, few)
<1> DEFINE Kinds == {"min", "max", "upper", "lower", "special", "number", "entropy"}
<1>1. \A r \in Kinds : few[r] \in SUBSET Nat /\ many[r] \in SUBSET Nat
  BY DEF Requirements
<1>2. ASSUME NEW r \in Kinds, r # "max"
      PROVE  \A k \in few[r] : \E n \in many[r] : k = n \/ (k > 0 /\ k <= n)
  <2>1. DOMAIN few = Kinds
    BY DEF Requirements
  <2>2. \A k \in few[r] : \E n \in many[r] : k = n \/ (k > 0 /\ IF r = "max" THEN n \in 1 .. k ELSE k <= n)
    BY <2>1 DEF AsksNoMore
  <2> QED
    BY <1>2, <2>2
<1>3. \A k \in few["max"] : \E n \in many["max"] : k = n \/ (k > 0 /\ n \in 1 .. k)
  <2>1. DOMAIN few = Kinds /\ "max" \in Kinds
    BY DEF Requirements
  <2> QED
    BY <2>1 DEF AsksNoMore
<1>4. ASSUME NEW b \in few.entropy PROVE HasEntropy(t, b)
  <2>1. PICK n \in many["entropy"] : b = n \/ (b > 0 /\ b <= n)
    BY <1>2, <1>4
  <2>2. b \in Nat /\ n \in Nat
    BY <1>1, <1>4
  <2>3. HasEntropy(t, n)
    BY <2>1 DEF Strong
  <2>4. b <= n
    BY <2>1, <2>2
  <2> QED
    BY <2>2, <2>3, <2>4, BitsOfLess
<1>5. Len(t) \in Nat
  OBVIOUS
<1>6. ASSUME NEW k \in few.min, k > 0 PROVE Len(t) >= k
  <2>1. PICK n \in many["min"] : k = n \/ (k > 0 /\ k <= n)
    BY <1>2, <1>6
  <2>2. k \in Nat /\ n \in Nat
    BY <1>1, <1>6
  <2>3. n > 0 => Len(t) >= n
    BY <2>1 DEF Strong
  <2> QED
    BY <1>5, <1>6, <2>1, <2>2, <2>3
<1>7. ASSUME NEW k \in few.max, k > 0 PROVE Len(t) <= k
  <2>1. PICK n \in many["max"] : k = n \/ (k > 0 /\ n \in 1 .. k)
    BY <1>3, <1>7
  <2>2. k \in Nat /\ n \in Nat
    BY <1>1, <1>7
  <2>3. n > 0 => Len(t) <= n
    BY <2>1 DEF Strong
  <2> QED
    BY <1>5, <1>7, <2>1, <2>2, <2>3
<1>8. Meets(few.special, Cardinality(ToSet(t) \cap {"!", "*", "-", "_", ":", ".", ","}))
  <2>1. Meets(many["special"], Cardinality(ToSet(t) \cap {"!", "*", "-", "_", ":", ".", ","}))
    BY DEF Strong
  <2> QED
    BY <1>1, <1>2, <2>1, Counted, MeetsLess
<1>9. Meets(few.upper, InClass(t, {"A"}))
  <2>1. Meets(many["upper"], InClass(t, {"A"}))
    BY DEF Strong
  <2> QED
    BY <1>1, <1>2, <2>1, Counted, MeetsLess
<1>10. Meets(few.lower, InClass(t, {"a", "b"}))
  <2>1. Meets(many["lower"], InClass(t, {"a", "b"}))
    BY DEF Strong
  <2> QED
    BY <1>1, <1>2, <2>1, Counted, MeetsLess
<1>11. Meets(few.number, InClass(t, {"1"}))
  <2>1. Meets(many["number"], InClass(t, {"1"}))
    BY DEF Strong
  <2> QED
    BY <1>1, <1>2, <2>1, Counted, MeetsLess
<1>12. ToSet(t) \cap {" ", "\""} = {}
  BY DEF Strong
<1> QED
  BY <1>4, <1>6, <1>7, <1>8, <1>9, <1>10, <1>11, <1>12 DEF Strong

StrengthAnswered ==
    asked.of = "strong" =>
       \E t \in Passwords, need \in Needs : asked.x = [t |-> t, need |-> need] /\ answer = IS_STRONG(t, need)

LEMMA StrengthTold == StrengthAnswered => LessIsAccepted /\ EntropyGrows
<1> SUFFICES ASSUME StrengthAnswered, asked.of = "strong" PROVE LessIsAccepted /\ EntropyGrows
  BY DEF LessIsAccepted, EntropyGrows
<1>1. PICK t \in Passwords, need \in Needs : asked.x = [t |-> t, need |-> need] /\ answer = IS_STRONG(t, need)
  BY DEF StrengthAnswered
<1>2. t \in Seq(Characters) /\ Needs \subseteq Requirements
  BY PasswordsAssumption DEF Characters, Requirements
<1>3. asked.x.t = t /\ asked.x.need = need
  BY <1>1
<1>4. ASSUME ~ answer.error, NEW few \in Needs, AsksNoMore(few, need)
      PROVE  ~ IS_STRONG(t, few).error
  <2>1. (Stars(t) /\ Len(t) > 4) \/ Strong(t, need)
    BY <1>1, <1>4, StrongIs, Outcomes
  <2>2. (Stars(t) /\ Len(t) > 4) \/ Strong(t, few)
    BY <1>2, <1>4, <2>1, StrongerMeetsLess
  <2> QED
    BY <2>2, StrongIs, Outcomes
<1>5. ASSUME NEW c \in Characters, NEW b \in need.entropy, HasEntropy(t, b)
      PROVE  HasEntropy(Append(t, c), b)
  <2>1. b \in Nat
    BY <1>2 DEF Requirements
  <2> QED
    BY <1>2, <1>5, <2>1, BitsOfMore
<1>6. LessIsAccepted
  BY <1>3, <1>4 DEF LessIsAccepted
<1>7. EntropyGrows
  BY <1>3, <1>5 DEF EntropyGrows, Characters
<1> QED
  BY <1>6, <1>7

-------------------------------------------------------------------------------
(* Logging in                                                                 *)

\* What ends alike and is the same with its end is the same.
LEMMA SameBefore ==
  ASSUME NEW A, NEW B, NEW C, NEW p \in Seq(A), NEW q \in Seq(B), NEW s \in Seq(C), p \o s = q \o s
  PROVE  p = q
<1>1. Len(p) \in Nat /\ Len(q) \in Nat /\ Len(s) \in Nat
  OBVIOUS
<1>2. p \in Seq(A \cup B \cup C) /\ q \in Seq(A \cup B \cup C) /\ s \in Seq(A \cup B \cup C)
  <2>1. \A S, T, x : S \subseteq T /\ x \in Seq(S) => x \in Seq(T)
    OBVIOUS
  <2> QED
    BY <2>1
<1>3. Len(p \o s) = Len(p) + Len(s) /\ Len(q \o s) = Len(q) + Len(s)
  BY <1>2
<1>4. Len(p) = Len(q)
  BY <1>1, <1>3
<1>5. \A i \in 1 .. Len(p) : (p \o s)[i] = p[i] /\ (q \o s)[i] = q[i]
  BY <1>2, <1>4
<1>6. \A i \in 1 .. Len(p) : p[i] = q[i]
  BY <1>5
<1>7. p = [i \in 1 .. Len(p) |-> p[i]] /\ q = [i \in 1 .. Len(q) |-> q[i]]
  OBVIOUS
<1> QED
  BY <1>4, <1>6, <1>7

\* The keys the comparison takes are shorter where it takes others.
LEMMA SecondPartShorter ==
  ASSUME NEW key, NEW A, key.rest \in Seq(A), SecondPart(key) # key.rest
  PROVE  /\ key.alg # {} /\ key.rest # <<>>
         /\ SecondPart(key) \in Seq(A) /\ Len(SecondPart(key)) < Len(key.rest)
<1> DEFINE rest == key.rest
           C == {i \in DOMAIN rest : rest[i] = ":"}
<1>1. key.alg # {} /\ C # {}
  BY DEF SecondPart
<1>2. SecondPart(key) = SubSeq(rest, 1, Min(C) - 1)
  BY <1>1 DEF SecondPart
<1>3. Len(rest) \in Nat /\ C \in SUBSET (1 .. Len(rest))
  OBVIOUS
<1>4. Min(C) \in C
  <2>1. C \in SUBSET Nat
    BY <1>3
  <2>2. PICK m \in C : \A n \in C : m <= n
    <3> HIDE DEF C
    <3> QED
      BY <1>1, <2>1, Least
  <2>3. Min(C) = CHOOSE x \in C : \A y \in C : x <= y
    BY DEF Min
  <2> HIDE DEF C
  <2> QED
    BY <2>2, <2>3
<1>5. Min(C) \in 1 .. Len(rest)
  BY <1>3, <1>4
<1> DEFINE n == Min(C)
<1> HIDE DEF C, n
<1>6. SubSeq(rest, 1, n - 1) \in Seq(A) /\ Len(SubSeq(rest, 1, n - 1)) = n - 1
  <2>1. n \in 1 .. Len(rest)
    BY <1>5 DEF n
  <2> QED
    BY <1>3, <2>1
<1>7. n \in 1 .. Len(rest) /\ n - 1 < Len(rest)
  BY <1>3, <1>5 DEF n
<1>8. rest # <<>>
  BY <1>3, <1>7
<1> QED
  BY <1>1, <1>2, <1>6, <1>7, <1>8 DEF n

\* Which hash is made of a password.
LEMMA HashIs ==
  ASSUME NEW p, NEW key, NEW salt, NEW alg
  PROVE  /\ alg = "pbkdf2" => simple_hash(p, key, salt, alg) = <<alg, p, salt>>
         /\ alg # "pbkdf2" /\ key # <<>> => simple_hash(p, key, salt, alg) = <<alg, p, key \o salt>>
         /\ alg # "pbkdf2" /\ key = <<>> => simple_hash(p, key, salt, alg) = <<alg, p \o salt>>
<1>1. CASE alg = "pbkdf2"
  BY <1>1 DEF simple_hash
<1>2. CASE alg # "pbkdf2" /\ key # <<>>
  BY <1>2 DEF simple_hash
<1>3. CASE alg # "pbkdf2" /\ key = <<>>
  BY <1>3 DEF simple_hash
<1> QED
  BY <1>1, <1>2, <1>3

LEMMA SameHashes ==
  ASSUME NEW A, NEW B, NEW C, NEW p \in Seq(A), NEW q \in Seq(B), NEW key, NEW salt \in Seq(C), NEW alg
  PROVE  simple_hash(p, key, salt, alg) = simple_hash(q, key, salt, alg) <=> p = q
<1>1. SUFFICES ASSUME simple_hash(p, key, salt, alg) = simple_hash(q, key, salt, alg) PROVE p = q
  OBVIOUS
<1>2. CASE alg = "pbkdf2"
  <2>1. <<alg, p, salt>> = <<alg, q, salt>>
    BY <1>1, <1>2, HashIs
  <2> QED
    BY <2>1
<1>3. CASE alg # "pbkdf2" /\ key # <<>>
  <2> DEFINE k == key \o salt
  <2>1. <<alg, p, k>> = <<alg, q, k>>
    BY <1>1, <1>3, HashIs
  <2> HIDE DEF k
  <2> QED
    BY <2>1
<1>4. CASE alg # "pbkdf2" /\ key = <<>>
  <2> DEFINE x == p \o salt
             y == q \o salt
  <2>1. <<alg, x>> = <<alg, y>>
    <3>1. simple_hash(p, key, salt, alg) = <<alg, x>> /\ simple_hash(q, key, salt, alg) = <<alg, y>>
      <4> HIDE DEF x, y
      <4> QED
        BY <1>4, HashIs DEF x, y
    <3> HIDE DEF x, y
    <3> QED
      BY <1>1, <3>1
  <2>2. x = y
    <3> HIDE DEF x, y
    <3> QED
      BY <2>1
  <2> QED
    BY <2>2, SameBefore
<1> QED
  BY <1>2, <1>3, <1>4

\* A part of a key makes another hash, with any algorithm that looks at it.
LEMMA OtherHashes ==
  ASSUME NEW A, NEW C, NEW p, NEW q, NEW key \in Seq(A), NEW part \in Seq(A), Len(part) < Len(key),
         NEW salt \in Seq(C), NEW alg, alg # "pbkdf2"
  PROVE  simple_hash(p, key, salt, alg) # simple_hash(q, part, salt, alg)
<1>1. key # <<>>
  BY SMT
<1> DEFINE k == key \o salt
           l == part \o salt
           x == q \o salt
<1>2. Len(k) # Len(l)
  <2>1. \A S, T, v : S \subseteq T /\ v \in Seq(S) => v \in Seq(T)
    OBVIOUS
  <2>2. key \in Seq(A \cup C) /\ part \in Seq(A \cup C) /\ salt \in Seq(A \cup C)
    BY <2>1
  <2>3. Len(k) = Len(key) + Len(salt) /\ Len(l) = Len(part) + Len(salt)
    BY <2>2
  <2>4. Len(key) \in Nat /\ Len(part) \in Nat /\ Len(salt) \in Nat
    OBVIOUS
  <2> HIDE DEF k, l
  <2> QED
    BY <2>3, <2>4
<1>3. simple_hash(p, key, salt, alg) = <<alg, p, k>>
  BY <1>1, HashIs
<1>4. CASE part # <<>>
  <2>1. simple_hash(q, part, salt, alg) = <<alg, q, l>>
    BY <1>4, HashIs
  <2> HIDE DEF k, l
  <2> QED
    BY <1>2, <1>3, <2>1
<1>5. CASE part = <<>>
  <2>1. simple_hash(q, part, salt, alg) = <<alg, x>>
    BY <1>5, HashIs
  <2> HIDE DEF k, x
  <2>2. Len(<<alg, p, k>>) = 3 /\ Len(<<alg, x>>) = 2
    OBVIOUS
  <2> QED
    BY <1>3, <2>1, <2>2
<1> QED
  BY <1>4, <1>5

LoginAnswered ==
    asked.of = "login" =>
       \E c \in Crypts, p, q \in Typed :
          /\ asked.x = [crypt |-> c, p |-> p, q |-> q]
          /\ answer = IF CRYPT(p, c).error \/ CRYPT(p, c).value = None THEN Err
                      ELSE Ok(LazyEquals(c, q, Stored(c, p)))

\* The algorithm a password is stored with.
Alg(c) == IF c.key.alg # {} THEN CHOOSE a \in c.key.alg : TRUE ELSE c.digest_alg

LEMMA EqualsIf ==
  ASSUME NEW c, NEW p, NEW q
  PROVE  LazyEquals(c, q, Stored(c, p)) =
           (simple_hash(p, c.key.rest, c.salt, Alg(c)) = simple_hash(q, SecondPart(c.key), c.salt, Alg(c)))
<1> DEFINE h == simple_hash(p, c.key.rest, c.salt, Alg(c))
           g == simple_hash(q, SecondPart(c.key), c.salt, Alg(c))
           s == [alg |-> Alg(c), salt |-> c.salt, hash |-> h]
<1>1. Stored(c, p) = s
  BY DEF Stored, Alg
<1>2. s.alg = Alg(c) /\ s.salt = c.salt
  OBVIOUS
<1>3. LazyEquals(c, q, s) = (s = [s EXCEPT !.hash = simple_hash(q, SecondPart(c.key), s.salt, s.alg)])
  BY DEF LazyEquals
<1>4. LazyEquals(c, q, s) = (s = [s EXCEPT !.hash = g])
  BY <1>2, <1>3
<1>5. (s = [s EXCEPT !.hash = g]) = (h = g)
  <2> HIDE DEF h, g
  <2>1. [s EXCEPT !.hash = g].hash = g /\ s.hash = h
    OBVIOUS
  <2>2. h = g => s = [s EXCEPT !.hash = g]
    OBVIOUS
  <2> QED
    BY <2>1, <2>2
<1> HIDE DEF h, g, s
<1> QED
  BY <1>1, <1>4, <1>5 DEF h, g

\* What a form shows of a password passes for a strong one.
LEMMA SixStars == Stars(STARS) /\ Len(STARS) > 4
<1>1. Len(STARS) = 6 /\ DOMAIN STARS = 1 .. 6 /\ \A i \in 1 .. 6 : STARS[i] = "*"
  BY DEF STARS
<1>2. STARS # <<>>
  <2>1. DOMAIN <<>> = {}
    OBVIOUS
  <2>2. 1 \in DOMAIN STARS
    BY <1>1
  <2> QED
    BY <2>1, <2>2
<1>3. ToSet(STARS) = {"*"}
  <2>1. 1 \in 1 .. 6
    OBVIOUS
  <2> QED
    BY <1>1, <2>1 DEF ToSet
<1> QED
  BY <1>1, <1>2, <1>3 DEF Stars

LEMMA LoginTold == LoginAnswered => LogInTells /\ ShownPasswordIsKept
<1> SUFFICES ASSUME LoginAnswered, asked.of = "login", ~ answer.error PROVE LogInTells /\ ShownPasswordIsKept
  BY DEF LogInTells, ShownPasswordIsKept
<1>1. PICK c \in Crypts, p \in Typed, q \in Typed :
        /\ asked.x = [crypt |-> c, p |-> p, q |-> q]
        /\ answer = IF CRYPT(p, c).error \/ CRYPT(p, c).value = None THEN Err
                    ELSE Ok(LazyEquals(c, q, Stored(c, p)))
  BY DEF LoginAnswered
<1>2. asked.x.crypt = c /\ asked.x.p = p /\ asked.x.q = q
  BY <1>1
<1>3. answer.value = LazyEquals(c, q, Stored(c, p))
  BY <1>1, Outcomes
<1> DEFINE rest == c.key.rest
           part == SecondPart(c.key)
           A == Range(rest)
           C == Range(c.salt)
<1>4. p \in Seq(Range(p)) /\ q \in Seq(Range(q)) /\ rest \in Seq(A) /\ c.salt \in Seq(C)
  BY CryptsAssumption
<1>5. \A a \in c.key.alg : Alg(c) = a
  <2>1. ASSUME NEW a \in c.key.alg PROVE Alg(c) = a
    <3>1. Alg(c) = CHOOSE b \in c.key.alg : TRUE
      BY <2>1 DEF Alg
    <3>2. Alg(c) \in c.key.alg
      BY <2>1, <3>1
    <3> QED
      BY <2>1, <3>2, CryptsAssumption
  <2> QED
    BY <2>1
<1>0. /\ part = rest \/ "pbkdf2" \in c.key.alg => answer.value = (p = q)
      /\ ~ (part = rest \/ "pbkdf2" \in c.key.alg) => ~ answer.value
      => LogInTells
  <2> HIDE DEF part, rest
  <2> QED
    BY <1>2, Zenon DEF LogInTells, part, rest
<1>6. ShownPasswordIsKept
  <2>1. Stored(c, p) # None
    <3>1. "hash" \in DOMAIN Stored(c, p)
      BY DEF Stored
    <3>2. "hash" \notin DOMAIN None
      BY DEF None
    <3> QED
      BY <3>1, <3>2
  <2>2. PasswordText(Stored(c, p)) = STARS
    BY <2>1 DEF PasswordText
  <2>3. Stars(STARS) /\ Len(STARS) > 4
    BY SixStars
  <2>4. \A need : IS_STRONG(STARS, need) = Ok(STARS)
    BY <2>3, StrongIs
  <2>5. CRYPT(STARS, c) = Ok(None)
    BY DEF CRYPT
  <2>6. \A need : CRYPT(IS_STRONG(STARS, need).value, c) = Ok(None)
    BY <2>4, <2>5, Outcomes
  <2> QED
    BY <1>2, <2>2, <2>6 DEF ShownPasswordIsKept
<1>7. CASE part = rest
  <2>1. answer.value = (p = q)
    <3>1. answer.value = (simple_hash(p, rest, c.salt, Alg(c)) = simple_hash(q, rest, c.salt, Alg(c)))
      BY <1>3, <1>7, EqualsIf
    <3>2. simple_hash(p, rest, c.salt, Alg(c)) = simple_hash(q, rest, c.salt, Alg(c)) <=> p = q
      BY <1>4, SameHashes
    <3> HIDE DEF rest
    <3> QED
      BY <3>1, <3>2
  <2> QED
    BY <1>0, <1>7, <1>6, <2>1
<1>8. CASE part # rest /\ "pbkdf2" \in c.key.alg
  <2>1. Alg(c) = "pbkdf2"
    BY <1>5, <1>8
  <2> DEFINE h == simple_hash(p, rest, c.salt, Alg(c))
             g == simple_hash(q, part, c.salt, Alg(c))
  <2>2. h = <<"pbkdf2", p, c.salt>> /\ g = <<"pbkdf2", q, c.salt>>
    BY <2>1, HashIs
  <2>3. answer.value = (p = q)
    <3>1. answer.value = (h = g)
      BY <1>3, EqualsIf
    <3>2. h = g <=> p = q
      <4> HIDE DEF h, g
      <4> QED
        BY <2>2
    <3> HIDE DEF h, g
    <3> QED
      BY <3>1, <3>2
  <2> QED
    BY <1>0, <1>8, <1>6, <2>3
<1>9. CASE part # rest /\ "pbkdf2" \notin c.key.alg
  <2>1. /\ c.key.alg # {} /\ part \in Seq(A) /\ Len(part) < Len(rest)
    BY <1>4, <1>9, SecondPartShorter
  <2>2. Alg(c) # "pbkdf2"
    BY <1>5, <1>9, <2>1
  <2>3. simple_hash(p, rest, c.salt, Alg(c)) # simple_hash(q, part, c.salt, Alg(c))
    <3> HIDE DEF rest, part, A, C
    <3> QED
      BY <1>4, <2>1, <2>2, OtherHashes
  <2>4. ~ answer.value
    BY <1>3, <2>3, EqualsIf
  <2> QED
    BY <1>0, <1>9, <1>6, <2>4
<1> QED
  BY <1>7, <1>8, <1>9

-------------------------------------------------------------------------------
(* Dates and times                                                            *)

DateAnswered ==
    asked.of = "date" =>
       \E y \in Years, digits \in {2, 4} :
          asked.x = [year |-> y, digits |-> digits] /\ answer = Ok(IS_DATE(DateText([year |-> y], digits), digits))

DatetimeAnswered ==
    asked.of = "datetime" =>
       \E m \in Moments, z \in Zones : asked.x = [m |-> m, z |-> z] /\ answer = Ok(IS_DATETIME(DatetimeText(m, z), z))

TimeAnswered ==
    asked.of = "time" =>
       \E h \in 0 .. 24, m \in {0, 30, 60}, half \in {"none", "am", "pm"} :
          asked.x = [h |-> h, m |-> m, s |-> 0, half |-> half] /\ answer = IS_TIME(asked.x)

LEMMA DateTold == DateAnswered => DatesRoundTrip
<1> SUFFICES ASSUME DateAnswered, asked.of = "date" PROVE DatesRoundTrip
  BY DEF DatesRoundTrip
<1>1. PICK y \in Years, digits \in {2, 4} :
        asked.x = [year |-> y, digits |-> digits] /\ answer = Ok(IS_DATE(DateText([year |-> y], digits), digits))
  BY DEF DateAnswered
<1>2. asked.x.year = y /\ asked.x.digits = digits /\ y \in Int
  BY <1>1, TimesAssumption
<1> DEFINE back == YearOf(YearText(y, digits), digits)
<1>3. IS_DATE(DateText([year |-> y], digits), digits) = [year |-> back]
  <2> DEFINE shown == YearText(y, digits)
  <2>1. DateText([year |-> y], digits) = [year |-> shown]
    <3>1. DateText([year |-> y], digits) = [[year |-> y] EXCEPT !.year = YearText([year |-> y].year, digits)]
      BY DEF DateText
    <3>2. [year |-> y].year = y
      OBVIOUS
    <3> QED
      BY <3>1, <3>2
  <2> HIDE DEF shown
  <2>2. IS_DATE([year |-> shown], digits) = [[year |-> shown] EXCEPT !.year = YearOf([year |-> shown].year, digits)]
    BY DEF IS_DATE
  <2>3. [year |-> shown].year = shown
    OBVIOUS
  <2>4. IS_DATE([year |-> shown], digits) = [year |-> YearOf(shown, digits)]
    BY <2>2, <2>3
  <2> QED
    BY <2>1, <2>4 DEF shown
<1>4. answer = Ok([year |-> asked.x.year]) <=> back = y
  <2>1. answer = Ok([year |-> back])
    BY <1>1, <1>3
  <2>2. answer.value.year = back
    BY <2>1, Outcomes
  <2>3. Ok([year |-> y]).value.year = y
    BY Outcomes
  <2> HIDE DEF back
  <2> QED
    BY <1>2, <2>1, <2>2, <2>3
<1>5. back = y <=> (digits = 4 \/ y \in 1969 .. 2068)
  <2>1. CASE digits = 4
    BY <2>1 DEF YearOf, YearText
  <2>2. CASE digits = 2
    <3>1. back = IF y % 100 < 69 THEN 2000 + (y % 100) ELSE 1900 + (y % 100)
      BY <2>2 DEF YearOf, YearText
    <3>2. y % 100 \in 0 .. 99 /\ y = 100 * (y \div 100) + (y % 100) /\ y \div 100 \in Int
      BY <1>2
    <3> HIDE DEF back
    <3> QED
      BY <1>2, <2>2, <3>1, <3>2
  <2> QED
    BY <2>1, <2>2
<1> QED
  BY <1>2, <1>4, <1>5 DEF DatesRoundTrip

LEMMA DatetimeTold == DatetimeAnswered => DatetimeRoundTrip
<1> SUFFICES ASSUME DatetimeAnswered, asked.of = "datetime" PROVE DatetimeRoundTrip
  BY DEF DatetimeRoundTrip
<1>1. PICK m \in Moments, z \in Zones :
        asked.x = [m |-> m, z |-> z] /\ answer = Ok(IS_DATETIME(DatetimeText(m, z), z))
  BY DEF DatetimeAnswered
<1>2. asked.x.m = m /\ asked.x.z = z /\ m \in Int /\ z \in Int /\ m + z \in Int /\ YearLen \in Nat \ {0}
  BY <1>1, TimesAssumption
<1>3. \A a \in Int : a % YearLen = a - YearLen * (a \div YearLen) /\ a \div YearLen \in Int
  BY TimesAssumption
<1> DEFINE a == m \div YearLen
           b == (m + z) \div YearLen
           c == (m + z) % YearLen
<1>4. a \in Int
  BY <1>2, <1>3
<1>5. b \in Int /\ c = (m + z) - YearLen * b
  BY <1>2, <1>3
<1>6. IS_DATETIME(DatetimeText(m, z), z) = a * YearLen + c - z
  <2> HIDE DEF a, c
  <2>1. DatetimeText(m, z) = [year |-> a, hour |-> c]
    BY DEF DatetimeText, a, c
  <2> QED
    BY <2>1 DEF IS_DATETIME
<1>7. a * YearLen + c - z = m <=> a = b
  <2> HIDE DEF a, b, c
  <2>1. a * YearLen \in Int /\ YearLen * b \in Int
    BY <1>2, <1>4, <1>5
  <2>2. a * YearLen + c - z = m <=> a * YearLen = YearLen * b
    BY <1>2, <1>5, <2>1
  <2>3. a * YearLen = YearLen * b <=> a = b
    BY <1>2, <1>4, <1>5
  <2> QED
    BY <2>2, <2>3
<1>8. answer = Ok(m) <=> IS_DATETIME(DatetimeText(m, z), z) = m
  BY <1>1, Outcomes
<1> QED
  BY <1>2, <1>6, <1>7, <1>8 DEF DatetimeRoundTrip

\* The hour of the day, by the hour and the half it is read with.
HourOf(h, half) == IF half = "pm" /\ h < 12 THEN h + 12 ELSE IF half = "am" /\ h = 12 THEN 0 ELSE h

LEMMA TimeIs ==
  ASSUME NEW t, t.h \in 1 .. 12, t.half \in {"am", "pm"}
  PROVE  IS_TIME(t) = IF t.m \in 0 .. 59 /\ t.s \in 0 .. 59 THEN Ok([h |-> HourOf(t.h, t.half), m |-> t.m, s |-> t.s]) ELSE Err
<1> DEFINE hour == CASE t.half = "pm" /\ 0 < t.h /\ t.h < 12 -> t.h + 12
                     [] t.half = "am" /\ t.h = 12 -> 0
                     [] OTHER -> t.h
<1>1. hour = HourOf(t.h, t.half)
  <2>1. CASE t.half = "pm" /\ t.h < 12
    BY <2>1 DEF HourOf
  <2>2. CASE t.half = "am" /\ t.h = 12
    BY <2>2 DEF HourOf
  <2>3. CASE ~ (t.half = "pm" /\ t.h < 12) /\ ~ (t.half = "am" /\ t.h = 12)
    BY <2>3 DEF HourOf
  <2> QED
    BY <2>1, <2>2, <2>3
<1>2. HourOf(t.h, t.half) \in 0 .. 23
  BY DEF HourOf
<1>3. IS_TIME(t) = IF hour \in 0 .. 23 /\ t.m \in 0 .. 59 /\ t.s \in 0 .. 59 THEN Ok([h |-> hour, m |-> t.m, s |-> t.s]) ELSE Err
  BY DEF IS_TIME
<1> HIDE DEF hour
<1> QED
  BY <1>1, <1>2, <1>3

Halves == {"am", "pm"}
Clock == 1 .. 12
AtHour(h, m, half) == [h |-> h, m |-> m, s |-> 0, half |-> half]

\* No two of the hours of the clock are the same hour of the day.
LEMMA HourOnce ==
  ASSUME NEW h \in Clock, NEW half \in Halves, NEW k \in Clock, NEW which \in Halves,
         NEW m, ~ IS_TIME(AtHour(h, m, half)).error
  PROVE  /\ IS_TIME(AtHour(h, m, half)).value.h \in 0 .. 23
         /\ IS_TIME(AtHour(k, m, which)) = IS_TIME(AtHour(h, m, half)) => k = h /\ which = half
<1> DEFINE t == AtHour(h, m, half)
           u == AtHour(k, m, which)
<1>1. t.h = h /\ t.half = half /\ t.m = m /\ t.s = 0
  BY DEF AtHour
<1>2. u.h = k /\ u.half = which /\ u.m = m /\ u.s = 0
  BY DEF AtHour
<1>3. ~ IS_TIME(t).error
  OBVIOUS
<1> HIDE DEF t, u
<1>4. 0 \in 0 .. 59
  OBVIOUS
<1>5. IS_TIME(t) = IF m \in 0 .. 59 THEN Ok([h |-> HourOf(h, half), m |-> m, s |-> 0]) ELSE Err
  <2>1. t.h \in 1 .. 12 /\ t.half \in {"am", "pm"}
    BY <1>1 DEF Clock, Halves
  <2>2. IS_TIME(t) = IF t.m \in 0 .. 59 /\ t.s \in 0 .. 59 THEN Ok([h |-> HourOf(t.h, t.half), m |-> t.m, s |-> t.s]) ELSE Err
    BY <2>1, TimeIs
  <2> QED
    BY <1>1, <1>4, <2>2
<1>6. IS_TIME(u) = IF m \in 0 .. 59 THEN Ok([h |-> HourOf(k, which), m |-> m, s |-> 0]) ELSE Err
  <2>1. u.h \in 1 .. 12 /\ u.half \in {"am", "pm"}
    BY <1>2 DEF Clock, Halves
  <2>2. IS_TIME(u) = IF u.m \in 0 .. 59 /\ u.s \in 0 .. 59 THEN Ok([h |-> HourOf(u.h, u.half), m |-> u.m, s |-> u.s]) ELSE Err
    BY <2>1, TimeIs
  <2> QED
    BY <1>2, <1>4, <2>2
<1>7. m \in 0 .. 59
  BY <1>3, <1>5, Outcomes
<1>8. IS_TIME(t).value.h = HourOf(h, half) /\ IS_TIME(u).value.h = HourOf(k, which)
  <2> DEFINE x == [h |-> HourOf(h, half), m |-> m, s |-> 0]
             y == [h |-> HourOf(k, which), m |-> m, s |-> 0]
  <2>1. x.h = HourOf(h, half) /\ y.h = HourOf(k, which)
    OBVIOUS
  <2>2. IS_TIME(t) = Ok(x) /\ IS_TIME(u) = Ok(y)
    BY <1>5, <1>6, <1>7
  <2> HIDE DEF x, y
  <2>3. IS_TIME(t).value = x /\ IS_TIME(u).value = y
    BY <2>2, Outcomes
  <2> QED
    BY <2>1, <2>3
<1>9. HourOf(h, half) \in 0 .. 23 /\ (HourOf(k, which) = HourOf(h, half) => k = h /\ which = half)
  BY DEF HourOf, Clock, Halves
<1> QED
  BY <1>8, <1>9 DEF t, u

LEMMA TimeTold == TimeAnswered => HoursNamedOnce
<1>1. SUFFICES ASSUME TimeAnswered, asked.of = "time", ~ answer.error, asked.x.half # "none", asked.x.h \in 1 .. 12
               PROVE  HoursNamedOnce
  BY DEF HoursNamedOnce
<1>2. PICK h \in 0 .. 24, m \in {0, 30, 60}, half \in {"none", "am", "pm"} :
        asked.x = [h |-> h, m |-> m, s |-> 0, half |-> half] /\ answer = IS_TIME(asked.x)
  BY <1>1 DEF TimeAnswered
<1>3. asked.x.h = h /\ asked.x.half = half
  BY <1>2
<1>4. h \in 1 .. 12 /\ half \in {"am", "pm"} /\ answer = IS_TIME(asked.x)
  BY <1>1, <1>2, <1>3
<1>5. ASSUME NEW k \in 1 .. 12, NEW which \in {"am", "pm"}
      PROVE  /\ answer.value.h \in 0 .. 23
             /\ IS_TIME([h |-> k, m |-> asked.x.m, s |-> asked.x.s, half |-> which]) = answer => k = h /\ which = half
  <2> DEFINE t == asked.x
             u == [h |-> k, m |-> asked.x.m, s |-> asked.x.s, half |-> which]
  <2>1. t = AtHour(h, m, half) /\ u = AtHour(k, m, which)
    BY <1>2 DEF AtHour
  <2>2. ~ IS_TIME(t).error /\ answer = IS_TIME(t)
    BY <1>1, <1>4
  <2> HIDE DEF t, u
  <2>3. ~ IS_TIME(AtHour(h, m, half)).error /\ h \in Clock /\ half \in Halves /\ k \in Clock /\ which \in Halves
    BY <1>4, <1>5, <2>1, <2>2 DEF Clock, Halves
  <2>4. /\ IS_TIME(AtHour(h, m, half)).value.h \in 0 .. 23
        /\ IS_TIME(AtHour(k, m, which)) = IS_TIME(AtHour(h, m, half)) => k = h /\ which = half
    BY <2>3, HourOnce
  <2> QED
    BY <2>1, <2>2, <2>4 DEF u
<1>6. answer.value.h \in 0 .. 23
  BY <1>4, <1>5, Zenon
<1> QED
  BY <1>3, <1>5, <1>6, Zenon DEF HoursNamedOnce

-------------------------------------------------------------------------------
(* Passwords and times of forms                                               *)

TextsAnswered == StrengthAnswered /\ LoginAnswered /\ DateAnswered /\ DatetimeAnswered /\ TimeAnswered

LEMMA OtherTexts ==
  ASSUME NEW of, of \notin {"strong", "login", "date", "datetime", "time"}, asked'.of = of
  PROVE  TextsAnswered'
BY DEF TextsAnswered, StrengthAnswered, LoginAnswered, DateAnswered, DatetimeAnswered, TimeAnswered

LEMMA TextsTexts == AskText => TextsAnswered'
<1> SUFFICES ASSUME AskText PROVE TextsAnswered'
  OBVIOUS
<1> DEFINE Kinds == {"list", "ints", "email", "slug", "clean"}
<1>1. CASE ShowList \/ ReadInts \/ ReadEmail \/ Slugify \/ Clean
  <2>1. \E of \in Kinds : \E x, y : Ask(of, x, y)
    BY <1>1 DEF ShowList, ReadInts, ReadEmail, Slugify, Clean
  <2>2. PICK of \in Kinds : asked'.of = of
    BY <2>1, AskedIs
  <2> QED
    BY <2>2, OtherTexts
<1>2. CASE SetPassword
  <2>1. PICK t \in Passwords, need \in Needs : Ask("strong", [t |-> t, need |-> need], IS_STRONG(t, need))
    BY <1>2 DEF SetPassword
  <2>2. asked'.of = "strong" /\ asked'.x = [t |-> t, need |-> need] /\ answer' = IS_STRONG(t, need)
    BY <2>1, AskedIs
  <2>3. StrengthAnswered'
    BY <2>2 DEF StrengthAnswered
  <2> QED
    BY <2>2, <2>3 DEF TextsAnswered, LoginAnswered, DateAnswered, DatetimeAnswered, TimeAnswered
<1>3. CASE LogIn
  <2> DEFINE y(c, p, q) == IF CRYPT(p, c).error \/ CRYPT(p, c).value = None THEN Err
                           ELSE Ok(LazyEquals(c, q, Stored(c, p)))
  <2>1. PICK c \in Crypts, p \in Typed, q \in Typed : Ask("login", [crypt |-> c, p |-> p, q |-> q], y(c, p, q))
    BY <1>3 DEF LogIn
  <2>2. asked'.of = "login" /\ asked'.x = [crypt |-> c, p |-> p, q |-> q] /\ answer' = y(c, p, q)
    <3> HIDE DEF y
    <3> QED
      BY <2>1, AskedIs
  <2>3. LoginAnswered'
    BY <2>2 DEF LoginAnswered
  <2> QED
    BY <2>2, <2>3 DEF TextsAnswered, StrengthAnswered, DateAnswered, DatetimeAnswered, TimeAnswered
<1>4. CASE ShowDate
  <2> DEFINE back(y, digits) == Ok(IS_DATE(DateText([year |-> y], digits), digits))
  <2>1. PICK y \in Years, digits \in {2, 4} : Ask("date", [year |-> y, digits |-> digits], back(y, digits))
    BY <1>4 DEF ShowDate
  <2>2. asked'.of = "date" /\ asked'.x = [year |-> y, digits |-> digits] /\ answer' = back(y, digits)
    <3> HIDE DEF back
    <3> QED
      BY <2>1, AskedIs
  <2>3. DateAnswered'
    BY <2>2 DEF DateAnswered
  <2> QED
    BY <2>2, <2>3 DEF TextsAnswered, StrengthAnswered, LoginAnswered, DatetimeAnswered, TimeAnswered
<1>5. CASE ShowDatetime
  <2>1. PICK m \in Moments, z \in Zones : Ask("datetime", [m |-> m, z |-> z], Ok(IS_DATETIME(DatetimeText(m, z), z)))
    BY <1>5 DEF ShowDatetime
  <2>2. asked'.of = "datetime" /\ asked'.x = [m |-> m, z |-> z] /\ answer' = Ok(IS_DATETIME(DatetimeText(m, z), z))
    BY <2>1, AskedIs
  <2>3. DatetimeAnswered'
    BY <2>2 DEF DatetimeAnswered
  <2> QED
    BY <2>2, <2>3 DEF TextsAnswered, StrengthAnswered, LoginAnswered, DateAnswered, TimeAnswered
<1>6. CASE ReadTime
  <2> DEFINE t(h, m, half) == [h |-> h, m |-> m, s |-> 0, half |-> half]
  <2>1. PICK h \in 0 .. 24, m \in {0, 30, 60}, half \in {"none", "am", "pm"} :
          Ask("time", t(h, m, half), IS_TIME(t(h, m, half)))
    BY <1>6 DEF ReadTime
  <2>2. asked'.of = "time" /\ asked'.x = t(h, m, half) /\ answer' = IS_TIME(t(h, m, half))
    <3> HIDE DEF t
    <3> QED
      BY <2>1, AskedIs
  <2>3. TimeAnswered'
    BY <2>2, Zenon DEF TimeAnswered
  <2> QED
    BY <2>2, <2>3 DEF TextsAnswered, StrengthAnswered, LoginAnswered, DateAnswered, DatetimeAnswered
<1> QED
  BY <1>1, <1>2, <1>3, <1>4, <1>5, <1>6 DEF AskText

LEMMA NoTexts == AskAddress \/ AskField => TextsAnswered'
<1> SUFFICES ASSUME AskAddress \/ AskField PROVE TextsAnswered'
  OBVIOUS
<1> DEFINE Kinds == {"url", "ip", "file", "image", "field", "wrapped"}
<1>1. \E of \in Kinds : \E x, y : Ask(of, x, y)
  <2>1. AskAddress => \E of \in Kinds : \E x, y : Ask(of, x, y)
    BY DEF AskAddress, ReadUrl, ReadAddress, NameFile, SendImage
  <2>2. AskField => \E of \in Kinds : \E x, y : Ask(of, x, y)
    BY DEF AskField, ValidateField, ValidateWrapped
  <2> QED
    BY <2>1, <2>2
<1>2. PICK of \in Kinds : asked'.of = of
  BY <1>1, AskedIs
<1> QED
  BY <1>2, OtherTexts

LEMMA TextsStayAnswered == Spec => []TextsAnswered
<1>1. Init => TextsAnswered
  BY DEF Init, Idle, TextsAnswered, StrengthAnswered, LoginAnswered, DateAnswered, DatetimeAnswered, TimeAnswered
<1>2. TextsAnswered /\ [Next]_calls => TextsAnswered'
  <2> SUFFICES ASSUME TextsAnswered, [Next]_calls PROVE TextsAnswered'
    OBVIOUS
  <2>1. CASE Next
    BY <2>1, TextsTexts, NoTexts DEF Next
  <2>2. CASE UNCHANGED calls
    <3>1. asked' = asked /\ answer' = answer
      BY <2>2 DEF calls
    <3>2. StrengthAnswered'
      BY <3>1 DEF TextsAnswered, StrengthAnswered
    <3>3. LoginAnswered'
      BY <3>1 DEF TextsAnswered, LoginAnswered
    <3>4. DateAnswered'
      BY <3>1 DEF TextsAnswered, DateAnswered
    <3>5. DatetimeAnswered'
      BY <3>1 DEF TextsAnswered, DatetimeAnswered
    <3>6. TimeAnswered'
      BY <3>1 DEF TextsAnswered, TimeAnswered
    <3> QED
      BY <3>2, <3>3, <3>4, <3>5, <3>6 DEF TextsAnswered
  <2> QED
    BY <2>1, <2>2
<1> QED
  BY <1>1, <1>2, PTL DEF Spec

(* Of any password typed at a log-in, the stored one is told, but where the   *)
(* comparison takes another key than the hash; showing it in a form keeps it; *)
(* a password that is strong enough is so for any who ask no more, and with   *)
(* one more character.                                                        *)
THEOREM PasswordsAreTold == Spec => []PasswordsTell
<1>1. TextsAnswered => PasswordsTell
  BY StrengthTold, LoginTold DEF TextsAnswered, PasswordsTell
<1> QED
  BY <1>1, TextsStayAnswered, PTL

(* Any date, moment or hour of the day comes back from a form as it was shown *)
(* there, but for two-digit years of other centuries and moments that are in  *)
(* another year in the zone of the form.                                      *)
THEOREM TimesAreReadBack == Spec => []ShownIsReadBack
<1>1. TextsAnswered => ShownIsReadBack
  BY DateTold, DatetimeTold, TimeTold DEF TextsAnswered, ShownIsReadBack
<1> QED
  BY <1>1, TextsStayAnswered, PTL
===============================================================================
