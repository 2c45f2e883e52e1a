---------------------------- MODULE TextValidators ----------------------------
(* The validators of texts of validators.py, from what a form submits to the  *)
(* cleaned value or an error, and their formatters back to the form. A        *)
(* text is a sequence of characters, one for each class a validator tells     *)
(* apart: "a" and "b" are lower-case letters, "A" upper-case, "1" a digit,    *)
(* "e" a letter outside ASCII, the others stand for themselves.               *)
EXTENDS Calls

CONSTANTS Lists,        \* lists of texts shown in a form as one line
          Texts,        \* texts to clean
          Mails,        \* texts to take for an e-mail
          Passwords,    \* texts to take for a password
          Typed,        \* passwords to set and to log in with
          Needs,        \* requirements of IS_STRONG
          Crypts,       \* configurations of CRYPT
          MaxLen,       \* longest slug
          Years, Moments, YearLen, Zones

None == [kind |-> "None"]

-------------------------------------------------------------------------------
(* Lists in one line of text.                                                 *)

IsBlank(c) == c = " "
Strip(t) ==
    LET kept == {i \in DOMAIN t : ~IsBlank(t[i])}
    IN IF kept = {} THEN <<>> ELSE SubSeq(t, Min(kept), Max(kept))

quote_token(t) ==
    IF ToSet(t) \cap {",", ";", " ", "\""} = {} THEN t
    ELSE <<"\"">> \o FlattenSeq([i \in DOMAIN t |-> IF t[i] = "\"" THEN <<"\\", "\"">> ELSE <<t[i]>>])
         \o <<"\"">>

(* One character: in quotes all but the closing quote is kept, outside them   *)
(* a separator ends the token and an empty token is dropped.                  *)
Ended(s) == [s EXCEPT !.tokens = IF Strip(s.token) = <<>> THEN @ ELSE Append(@, Strip(s.token)),
                      !.token = <<>>]
ReadChar(s, c) ==
    CASE s.quoted /\ s.escaped -> [s EXCEPT !.token = Append(@, c), !.escaped = FALSE]
      [] s.quoted /\ ~s.escaped /\ c = "\\" -> [s EXCEPT !.escaped = TRUE]
      [] ~s.escaped /\ c = "\"" -> [s EXCEPT !.quoted = ~@]
      [] ~s.quoted /\ c \in {",", ";", " ", ":"} -> Ended(s)
      [] OTHER -> [s EXCEPT !.token = Append(@, c)]
parse_tokens(line) ==
    Ended(FoldLeft(ReadChar, [tokens |-> <<>>, token |-> <<>>, quoted |-> FALSE, escaped |-> FALSE],
                   line)).tokens

IS_LIST_OF_STRINGS(text) == Ok(parse_tokens(text))
Joined(items) == FlattenSeq([i \in DOMAIN items |-> IF i = 1 THEN items[i] ELSE <<",", " ">> \o items[i]])
ListText(list) == Joined([i \in DOMAIN list |-> quote_token(list[i])])
Every(Test(_), r) == IF r.error \/ \A i \in DOMAIN r.value : Test(r.value[i]) THEN r ELSE Err
IsDigits(t) == t # <<>> /\ ToSet(t) = {"1"}
IS_LIST_OF_INTS(text) == Every(IsDigits, IS_LIST_OF_STRINGS(text))

(* The name: legal characters, dots inside and single. The domain: labels     *)
(* that begin and end with a letter or digit, the last of two letters.        *)
NameOk(b) ==
    /\ b # <<>> /\ ToSet(b) \subseteq {"a", "b", "A", "1", "-", "_", "*", "!", "."}
    /\ b[1] # "." /\ Last(b) # "."
    /\ \A i \in 1..(Len(b) - 1) : ~(b[i] = "." /\ b[i + 1] = ".")
Letters == {"a", "b", "A", "e"}
DomainOk(d) ==
    \/ d = <<"localhost">>
    \/ \E dot \in {i \in DOMAIN d : d[i] = "."} :
          /\ Len(d) - dot >= 2 /\ \A i \in (dot + 1)..Len(d) : d[i] \in {"a", "b", "A"}
          /\ d[1] \in Letters \cup {"1"}
          /\ \A i \in 1..dot :
                \/ d[i] \in Letters \cup {"1", "-", "_"}
                \/ d[i] = "." /\ {d[i - 1], d[i + 1]} \subseteq Letters \cup {"1"}
IS_EMAIL(t) ==
    LET at == {i \in DOMAIN t : t[i] = "@"}
        last == Max(at)
    IN IF at # {} /\ NameOk(SubSeq(t, 1, last - 1)) /\ DomainOk(SubSeq(t, last + 1, Len(t)))
       THEN Ok(t) ELSE Err
IS_LIST_OF_EMAILS(text) == Every(LAMBDA t : ~IS_EMAIL(t).error, IS_LIST_OF_STRINGS(text))

-------------------------------------------------------------------------------
(* Texts that are cleaned.                                                    *)

LowerChar(c) == IF c = "A" THEN "a" ELSE c
IS_LOWER(t) == Ok([i \in DOMAIN t |-> LowerChar(t[i])])
IS_UPPER(t) == Ok([i \in DOMAIN t |-> IF t[i] \in {"a", "b"} THEN "A" ELSE t[i]])
CLEANUP(t) == Ok(SelectSeq(Strip(t), LAMBDA c : c # "e"))
IS_ALPHANUMERIC(t) == IF ToSet(t) \subseteq Letters \cup {"1", "_"} THEN Ok(t) ELSE Err

(* A run of the characters of S becomes one hyphen when it is longer than     *)
(* least, and else stays.                                                     *)
Collapse(t, S, least) ==
    FlattenSeq([i \in DOMAIN t |->
        LET from == Min({j \in 1..i : \A k \in j..i : t[k] \in S})
            to == Max({j \in i..Len(t) : \A k \in i..j : t[k] \in S})
        IN IF t[i] \notin S \/ to - from < least THEN <<t[i]>>
           ELSE IF i = from THEN <<"-">> ELSE <<>>])
TrimHyphens(t) ==
    LET kept == {i \in DOMAIN t : t[i] # "-"}
    IN IF kept = {} THEN <<>> ELSE SubSeq(t, Min(kept), Max(kept))
urlify(t, maxlen, keep_underscores) ==
    LET low == [i \in DOMAIN t |-> LowerChar(t[i])]
        spaced == Collapse(low, IF keep_underscores THEN {" "} ELSE {" ", "_"}, 0)
        legal == SelectSeq(spaced, LAMBDA c : c \in {"a", "b", "1", "-"} \cup
                                                    (IF keep_underscores THEN {"_"} ELSE {}))
        slug == TrimHyphens(Collapse(legal, {"-", "_"}, 1))
    IN SubSeq(slug, 1, Min({maxlen, Len(slug)}))
IS_SLUG(t, maxlen, check, keep_underscores) ==
    IF check /\ t # urlify(t, maxlen, keep_underscores) THEN Err
    ELSE Ok(urlify(t, maxlen, keep_underscores))

(* IS_MATCH of a prefix of the text: with extract it is the value.            *)
IS_MATCH(t, len, extract) ==
    IF len = 0 THEN Err ELSE Ok(IF extract THEN SubSeq(t, 1, len) ELSE t)
LettersAhead(t) == Max({n \in 0..Len(t) : \A i \in 1..n : t[i] \in Letters})
CleanedBy(f, t) ==
    CASE f = "lower" -> IS_LOWER(t)
      [] f = "upper" -> IS_UPPER(t)
      [] f = "cleanup" -> CLEANUP(t)
      [] f = "match" -> IS_MATCH(t, LettersAhead(t), TRUE)
      [] f = "alphanumeric" -> IS_ALPHANUMERIC(t)

-------------------------------------------------------------------------------
(* Passwords. A hash is the term of what goes into it.                        *)

InClass(t, S) == Cardinality({i \in DOMAIN t : t[i] \in S})
CharSets == << {"a", "b"}, {"A"}, {"1"}, {"!", "*", " "}, {"-", "_", "\"", ":"} >>
SetSize == <<26, 26, 10, 11, 22>>
(* Letters of the five sets, not the rest of the bytes.                       *)
ASSUME PasswordsAssumption ==
    /\ \A t \in Passwords : t \in Seq(UNION Range(CharSets))
    /\ Needs \subseteq [{"min", "max", "upper", "lower", "special", "number", "entropy"} -> SUBSET Nat]
SetOf(c) == CHOOSE n \in DOMAIN CharSets : c \in CharSets[n]

(* The size of the alphabet a text is credited with: a set when first met,    *)
(* then one for each new character, and one for each change of set.           *)
Credit(s, c) ==
    LET n == SetOf(c)
    IN [seen |-> s.seen \cup {n},
        other |-> IF n \in s.seen THEN s.other \cup {c} ELSE s.other,
        last |-> n,
        alphabet |-> s.alphabet + (IF n \notin s.seen THEN SetSize[n]
                                   ELSE IF c \notin s.other THEN 1 ELSE 0)
                                + (IF n # s.last THEN 1 ELSE 0)]
NoCredit == [seen |-> {}, other |-> {}, last |-> 0, alphabet |-> 0]
calc_entropy(t) ==
    LET credit[i \in 0..Len(t)] == IF i = 0 THEN NoCredit ELSE Credit(credit[i - 1], t[i])
    IN credit[Len(t)].alphabet
Power(b, n) == LET power[i \in 0..n] == IF i = 0 THEN 1 ELSE b * power[i - 1] IN power[n]
HasEntropy(t, bits) == bits = 0 \/ \E n \in 1..Len(t) : Power(calc_entropy(t), n) >= Power(2, bits)

Stars(t) == t # <<>> /\ ToSet(t) = {"*"}
(* A requirement of n characters: 0 forbids them, none is none. *)
Meets(need, n) == \A k \in need : IF k = 0 THEN n = 0 ELSE n >= k
IS_STRONG(t, need) ==
    LET specials == Cardinality(ToSet(t) \cap {"!", "*", "-", "_", ":", ".", ","})
    IN IF \/ Stars(t) /\ Len(t) > 4
          \/ /\ \A b \in need.entropy : HasEntropy(t, b)
             /\ \A k \in need.min : k > 0 => Len(t) >= k
             /\ \A k \in need.max : k > 0 => Len(t) <= k
             /\ Meets(need.special, specials)
             /\ ToSet(t) \cap {" ", "\""} = {}
             /\ Meets(need.upper, InClass(t, {"A"}))
             /\ Meets(need.lower, InClass(t, {"a", "b"}))
             /\ Meets(need.number, InClass(t, {"1"}))
       THEN Ok(t) ELSE Err

AsksNoMore(few, many) ==
    \A r \in DOMAIN few : \A k \in few[r] :
       \E n \in many[r] : k = n \/ (k > 0 /\ IF r = "max" THEN n \in 1..k ELSE k <= n)

(* A key "alg:key" is [alg, rest], the parts after the first colon. pbkdf2    *)
(* leaves the key out, a hash with a key is an hmac over key + salt.          *)
simple_hash(text, key, salt, alg) ==
    CASE alg = "pbkdf2" -> <<alg, text, salt>>
      [] alg # "pbkdf2" /\ key # <<>> -> <<alg, text, key \o salt>>
      [] OTHER -> <<alg, text \o salt>>
ASSUME CryptsAssumption ==
    /\ \A t \in Typed : t \in Seq(Range(t))
    /\ \A c \in Crypts :
          /\ c.salt \in Seq(Range(c.salt)) /\ c.key.rest \in Seq(Range(c.key.rest))
          /\ \A a, b \in c.key.alg : a = b
\* Mutant: the algorithm in the key is recorded but not used.
StoredOtherAlg(crypt, password) ==
    LET alg == IF crypt.key.alg # {} THEN CHOOSE a \in crypt.key.alg : TRUE ELSE crypt.digest_alg
    IN [alg |-> alg, salt |-> crypt.salt,
        hash |-> simple_hash(password, crypt.key.rest, crypt.salt, crypt.digest_alg)]
Stored(crypt, password) ==
    LET alg == IF crypt.key.alg # {} THEN CHOOSE a \in crypt.key.alg : TRUE ELSE crypt.digest_alg
    IN [alg |-> alg, salt |-> crypt.salt,
        hash |-> simple_hash(password, crypt.key.rest, crypt.salt, alg)]
SecondPart(key) ==
    IF key.alg # {} /\ \E i \in DOMAIN key.rest : key.rest[i] = ":"
    THEN SubSeq(key.rest, 1, Min({i \in DOMAIN key.rest : key.rest[i] = ":"}) - 1)
    ELSE key.rest
LazyEquals(crypt, password, stored) ==
    stored = [stored EXCEPT !.hash = simple_hash(password, SecondPart(crypt.key), stored.salt, stored.alg)]
STARS == <<"*", "*", "*", "*", "*", "*">>
CRYPT(t, crypt) ==
    IF t = STARS THEN Ok(None)
    ELSE IF t = <<>> \/ Min({Len(t), crypt.max_length}) < crypt.min_length THEN Err
    ELSE Ok([kind |-> "LazyCrypt", password |-> t])
PasswordText(stored) == IF stored = None THEN <<>> ELSE STARS

-------------------------------------------------------------------------------
(* Dates and times.                                                           *)

ASSUME TimesAssumption == Years \cup Moments \cup Zones \subseteq Int /\ YearLen \in Nat \ {0}

(* A year in a text has four digits or, with %y, two, read back as 1969-2068. *)
YearText(y, digits) == IF digits = 4 THEN y ELSE y % 100
YearOf(n, digits) == IF digits = 4 THEN n ELSE IF n < 69 THEN 2000 + n ELSE 1900 + n
IS_DATE(text, digits) == [text EXCEPT !.year = YearOf(@, digits)]
DateText(d, digits) == [d EXCEPT !.year = YearText(@, digits)]

(* A moment counts hours; the formatter takes its year before it moves it to  *)
(* the time zone.                                                             *)
DatetimeText(moment, zone) ==
    [year |-> moment \div YearLen, hour |-> (moment + zone) % YearLen]
IS_DATETIME(text, zone) == text.year * YearLen + text.hour - zone

\* Mutant: twelve in the night is twelve at noon.
IS_TIMENoon(t) ==
    LET h == IF t.half = "pm" /\ 0 < t.h /\ t.h < 12 THEN t.h + 12 ELSE t.h
    IN IF h \in 0..23 /\ t.m \in 0..59 /\ t.s \in 0..59 THEN Ok([h |-> h, m |-> t.m, s |-> t.s]) ELSE Err
IS_TIME(t) ==
    LET h == CASE t.half = "pm" /\ 0 < t.h /\ t.h < 12 -> t.h + 12
               [] t.half = "am" /\ t.h = 12 -> 0
               [] OTHER -> t.h
    IN IF h \in 0..23 /\ t.m \in 0..59 /\ t.s \in 0..59 THEN Ok([h |-> h, m |-> t.m, s |-> t.s]) ELSE Err

-------------------------------------------------------------------------------
ShowList == \E l \in Lists : Ask("list", l, IS_LIST_OF_STRINGS(ListText(l)))
ReadInts == \E l \in Lists : Ask("ints", l, IS_LIST_OF_INTS(ListText(l)))
ReadEmail == \E t \in Mails : Ask("email", t, IS_EMAIL(t))
Slugify ==
    \E t \in Texts, max \in 0..MaxLen, keep \in BOOLEAN :
       Ask("slug", [t |-> t, max |-> max, keep |-> keep], IS_SLUG(t, max, FALSE, keep))
Clean ==
    \E t \in Texts, f \in {"lower", "upper", "cleanup", "match", "alphanumeric"} :
       Ask("clean", [t |-> t, f |-> f], CleanedBy(f, t))
SetPassword == \E t \in Passwords, need \in Needs : Ask("strong", [t |-> t, need |-> need], IS_STRONG(t, need))
LogIn ==
    \E c \in Crypts, p, q \in Typed :
       Ask("login", [crypt |-> c, p |-> p, q |-> q],
           IF CRYPT(p, c).error \/ CRYPT(p, c).value = None THEN Err
           ELSE Ok(LazyEquals(c, q, Stored(c, p))))
ShowDate ==
    \E y \in Years, digits \in {2, 4} :
       Ask("date", [year |-> y, digits |-> digits], Ok(IS_DATE(DateText([year |-> y], digits), digits)))
ShowDatetime ==
    \E m \in Moments, z \in Zones : Ask("datetime", [m |-> m, z |-> z], Ok(IS_DATETIME(DatetimeText(m, z), z)))
ReadTime ==
    \E h \in 0..24, m \in {0, 30, 60}, half \in {"none", "am", "pm"} :
       Ask("time", [h |-> h, m |-> m, s |-> 0, half |-> half], IS_TIME([h |-> h, m |-> m, s |-> 0, half |-> half]))

AskText ==
    \/ ShowList \/ ReadInts \/ ReadEmail \/ Slugify \/ Clean
    \/ SetPassword \/ LogIn \/ ShowDate \/ ShowDatetime \/ ReadTime

-------------------------------------------------------------------------------
(* A token comes back when a colon in it is quoted, a backslash is not, and   *)
(* nothing is stripped.                                                       *)
Survives(t) ==
    /\ t # <<>> /\ Strip(t) = t
    /\ (":" \in ToSet(t)) => quote_token(t) # t
    /\ ("\\" \in ToSet(t)) => quote_token(t) = t

(* formatter and validate of IS_LIST_OF_STRINGS are inverse on the lists      *)
(* whose tokens survive quote_token and parse_tokens, and on no other.        *)
ListsRoundTrip ==
    asked.of = "list" => ((answer = Ok(asked.x)) <=> \A i \in DOMAIN asked.x : Survives(asked.x[i]))

(* An address IS_EMAIL accepts is one token of IS_LIST_OF_EMAILS: the list    *)
(* that holds it is shown and read back with it.                              *)
EmailsSurvive ==
    asked.of = "email" /\ ~answer.error =>
       IS_LIST_OF_EMAILS(ListText(<<asked.x>>)) = Ok(<<asked.x>>)

(* A slug is its own slug, unless the cut at maxlen left a hyphen at its end; *)
(* IS_SLUG(check=True) accepts just those.                                    *)
SlugsSettle ==
    asked.of = "slug" =>
       LET s == answer.value
       IN /\ ~IS_SLUG(s, asked.x.max, TRUE, asked.x.keep).error <=> (s = <<>> \/ Last(s) # "-")
          /\ s # <<>> /\ Last(s) = "-" => Len(s) = asked.x.max

(* A cleaned text stays as it is when a form is submitted with it again;      *)
(* CLEANUP strips before it removes, so its text may take a second time.      *)
CleaningSettles ==
    asked.of = "clean" /\ ~answer.error =>
       LET again == CleanedBy(asked.x.f, answer.value)
       IN /\ ~again.error /\ CleanedBy(asked.x.f, again.value) = again
          /\ again # answer => asked.x.f = "cleanup" /\ "e" \in ToSet(asked.x.t)

(* A password that meets the requirements of IS_STRONG meets any that ask no  *)
(* more.                                                                      *)
LessIsAccepted ==
    asked.of = "strong" /\ ~answer.error =>
       \A need \in Needs : AsksNoMore(need, asked.x.need) => ~IS_STRONG(asked.x.t, need).error

(* One more character never lowers the entropy of a password.                 *)
EntropyGrows ==
    asked.of = "strong" =>
       \A c \in UNION Range(CharSets), b \in asked.x.need.entropy :
          HasEntropy(asked.x.t, b) => HasEntropy(Append(asked.x.t, c), b)

(* A password compares equal to the stored hash if and only if it is the one  *)
(* that was hashed, unless the key has a second colon, which only the         *)
(* comparison drops, and the algorithm uses the key.                          *)
LogInTells ==
    asked.of = "login" /\ ~answer.error =>
       LET c == asked.x.crypt
       IN IF SecondPart(c.key) = c.key.rest \/ "pbkdf2" \in c.key.alg
          THEN answer.value = (asked.x.p = asked.x.q) ELSE ~answer.value

(* A form that shows the stored password and is submitted unchanged leaves    *)
(* the password as it is, whatever IS_STRONG requires.                        *)
ShownPasswordIsKept ==
    asked.of = "login" /\ ~answer.error =>
       LET shown == PasswordText(Stored(asked.x.crypt, asked.x.p))
       IN \A need \in Needs : CRYPT(IS_STRONG(shown, need).value, asked.x.crypt) = Ok(None)

(* A date is shown and read back as the same date: any with four digits of    *)
(* the year, those from 1969 to 2068 with two.                                *)
DatesRoundTrip ==
    asked.of = "date" =>
       ((answer = Ok([year |-> asked.x.year])) <=> (asked.x.digits = 4 \/ asked.x.year \in 1969..2068))

(* A moment is shown in a time zone and read back as the same moment if and   *)
(* only if it is in the same year there.                                      *)
DatetimeRoundTrip ==
    asked.of = "datetime" =>
       (answer = Ok(asked.x.m) <=> asked.x.m \div YearLen = (asked.x.m + asked.x.z) \div YearLen)

(* The twelve-hour clock names every hour of the day once.                    *)
HoursNamedOnce ==
    asked.of = "time" /\ ~answer.error /\ asked.x.half # "none" /\ asked.x.h \in 1..12 =>
       /\ answer.value.h \in 0..23
       /\ \A h \in 1..12, half \in {"am", "pm"} :
             IS_TIME([h |-> h, m |-> asked.x.m, s |-> asked.x.s, half |-> half]) = answer => h = asked.x.h /\ half = asked.x.half
==============================================================================
