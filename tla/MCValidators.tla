---------------------------- MODULE MCValidators -----------------------------
(* The validators over bounded inputs.                                        *)
EXTENDS Validators, TLC

SomeTokens == BoundedSeq({"a", ",", " ", "\"", ":", "\\"}, 3)
SomeLists == {<<t>> : t \in SomeTokens} \cup [1..2 -> BoundedSeq({"a", ",", ":", "1"}, 2)]
SomeTexts == BoundedSeq({"a", "A", "e", "-", "_", " "}, 4)
SomeMails == [1..6 -> {"a", "@", ".", ",", ":"}] \cup [1..5 -> {"a", "@", ".", "1", "e"}]
SomePasswords == BoundedSeq({"a", "A", "1", "*", "!"}, 3) \cup {[i \in 1..6 |-> "*"]}
SomeTyped == BoundedSeq({"a", "*"}, 2) \cup {[i \in 1..6 |-> "*"]}
Need(special, number, entropy) ==
    [min |-> {2}, max |-> {}, upper |-> {}, lower |-> {1},
     special |-> special, number |-> number, entropy |-> entropy]
SomeNeeds == {Need(s, n, e) : s \in {{}, {0}, {1}, {2}}, n \in {{}, {0}, {1}, {2}}, e \in {{}, {8}, {14}}}
Key(alg, rest) == [alg |-> alg, rest |-> rest]
SomeCrypts ==
    [key : {Key({}, <<>>), Key({}, <<"k">>), Key({"md5"}, <<"k">>), Key({"md5"}, <<"k", ":", "l">>),
            Key({"pbkdf2"}, <<"k", ":", "l">>)},
     digest_alg : {"md5", "pbkdf2"}, salt : {<<>>, <<"s">>}, min_length : {0, 2}, max_length : {1024}]
SomeYears == {1899, 1968, 1969, 2000, 2068, 2069}
Hours == 0..17
AllZones == {-1, 0, 2}

SomeUrls ==
    [scheme : {"", "http", "ftp", "mailto", "abc.com"}, slashes : BOOLEAN,
     first : {"", "80", "abc.com", "abc.com:80", "1.2.3.4", "bad", "idn.com"},
     rest : {"", "/p", "/a:b", "/wide", "/latin"}]
SomeModes ==
    [mode : {"generic"}, allowed : {all_url_schemes, {"", "ftp"}, {"mailto", "http"}}, prepend : {"", "http", "ftp"}] \cup
    [mode : {"http"}, allowed : {http_schemes, {"http"}}, prepend : {"", "http"}]
LegalModes == {m \in SomeModes : m.prepend \in m.allowed}
LegalUrls ==
    {u \in SomeUrls : IF u.slashes THEN u.scheme # "" /\ u.first # "80" ELSE u.first # "abc.com:80"}
SomeAddresses == {<<1, 1, 1, 1>>, <<0, 3, 2, 1>>, <<2, 0, 0, 3>>, <<3, 3, 3, 3>>,
                  <<1, 0, 0, 0, 0, 0, 0, 0>>, <<3, 0, 0, 0, 0, 0, 0, 0>>, <<0, 1, 0, 0, 0, 0, 0, 0>>}
All4 == <<<<0, 0, 0, 0>>, <<3, 3, 3, 3>>>>
SomeRanges == {<<All4>>, << <<<<0, 3, 2, 0>>, <<1, 1, 0, 3>>>>, <<<<2, 0, 0, 3>>, <<3, 0, 0, 0>>>> >>}
Loopback == <<1, 3, 0, 1>>
PrivateRanges == {<<<<2, 0, 0, 0>>, <<2, 3, 3, 3>>>>}
AutomaticRange == <<<<3, 1, 0, 0>>, <<3, 1, 3, 3>>>>
SomeNames == BoundedSeq({"a", "A", "."}, 3)
SomeHeaders == {"png", "jpeg", "gif"}
SomeSizes == {<<2, 1>>, <<1, 2>>, <<4, 2>>, <<0, 0>>}

Digits == [n \in {0, 5, 7} |-> ToString(n)]
AllFieldTypes == {"string", "text", "password", "json", "double", "integer", "decimal", "date", "time",
                  "datetime", "boolean", "upload", "reference", "list:reference"}
List(items) == [k |-> "list", items |-> items]
Moment(kind, more) == [k |-> kind, s |-> kind, more |-> more]
SomeScalars == {Nothing} \cup {Text(s) : s \in {"", " ", "0", "5", "7", "null", "date", "time", "datetime", "toolong"}}
               \cup {Number(k, n) : k \in {"int", "float", "Decimal"}, n \in {0, 5, 7}}
               \cup {Moment(k, FALSE) : k \in {"date", "time"}} \cup {Moment("datetime", m) : m \in BOOLEAN}
SomeValues == SomeScalars \cup {Text("\"abc\"")}
              \cup {List(s) : s \in BoundedSeq({Text("5"), Text("x"), Number("int", 5), Number("int", 7)}, 2)}
SomeRows == {[id |-> 1, text |-> "5"], [id |-> 2, text |-> "date"], [id |-> 3, text |-> "datetime"]}
SomeIds == {0, 5}
Small == Bounded("IS_INT_IN_RANGE", 0, 6)
SomeWrapped ==
    {[is |-> "IS_LIST_OF", other |-> <<[is |-> "ANY_OF", subs |-> <<Small, EmptyOr(<<in>>, n)>>]>>, minimum |-> m, maximum |-> 2] :
        in \in {[is |-> "IS_IN_SET", theset |-> <<"x">>, multiple |-> FALSE], Plain("IS_NOT_EMPTY")},
        n \in {Nothing, Text("")}, m \in {0, 2}}
    \cup {[is |-> "IS_IN_SET", theset |-> s, multiple |-> m] : s \in {<<>>, <<"5", "x">>}, m \in BOOLEAN}
    \cup {[is |-> "IS_EQUAL_TO", expression |-> Text("5")], [is |-> "IS_EXPR", holds |-> {Text("5"), Nothing}]}
===============================================================================
