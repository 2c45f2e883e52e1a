----------------------------- MODULE Definitions -----------------------------
(* Tables are defined in any order, at once or when they are first used, and  *)
(* defined anew; references find their tables, tables the references to them. *)
(* base.py, and what objects.py does while a table is made.                   *)
EXTENDS Calls, Functions

CONSTANTS
    SomeDefinitions,  \* table names to what they may be defined as: the references of their fields
    Aliases,
    MaxDefinitions    \* bound on the calls made one after another

(* A reference [to |-> a table, list |-> is it a list of them, field |-> may  *)
(* it name a field of the table, which only keyed tables allow].              *)
TableNames == DOMAIN SomeDefinitions
Less(f, x) == Restrict(f, DOMAIN f \ {x})
Put(f, x, v) == [y \in DOMAIN f \cup {x} |-> IF y = x THEN v ELSE f[y]]
NoNames == <<>>    \* the function with no name in its domain

(* db.tables; _LAZY_TABLES; the attributes of db that are tables, numbers of  *)
(* made; every table made, [name, fields, by: _referenced_by, byList:         *)
(* _referenced_by_list]; fields by <<table, index>>: those whose table is not *)
(* defined yet, and the table the referent of each belongs to; the aliases of *)
(* this transaction; what the last call raised; whether a table could not be  *)
(* made, one was defined anew, an alias took the name of another table.       *)
Registry(isLazy) ==
    [lazy_tables |-> isLazy, tables |-> {}, lazy |-> NoNames, attr |-> NoNames, made |-> <<>>, pending |-> NoNames,
     referent |-> NoNames, aliased |-> NoNames, raised |-> "", failed |-> FALSE, redefined |-> FALSE, hidden |-> FALSE, calls |-> 0]

Raise(r, error) == [r EXCEPT !.raised = error]
Caught(r) == [r EXCEPT !.raised = ""]
Failing(r) == r.raised # ""
Then(r, op(_)) == IF Failing(r) THEN r ELSE op(r)
Each(r, s, op(_, _)) == FoldLeft(LAMBDA acc, x : Then(acc, LAMBDA q : op(q, x)), r, s)

(* What db[key] returns of the registry as __getattr__ leaves it.             *)
Known(r, key) == key \in DOMAIN r.attr \cup DOMAIN r.aliased
Got(r, key) == IF key \in DOMAIN r.aliased THEN r.aliased[key] ELSE r.attr[key]

Referenced(r, T, field, to) == 
    [r EXCEPT !.made[to] = IF r.made[T].fields[field].list THEN [@ EXCEPT !.byList = Append(@, <<T, field>>)]
                                                          ELSE [@ EXCEPT !.by = Append(@, <<T, field>>)],
              !.referent = Put(@, <<T, field>>, to)]

\* Mutant: the references that waited are read, not taken.
StillWaiting(pending, t) == pending
NoLonger(pending, t) == Less(pending, t)

(* The referees that waited for the table T are entered before they are       *)
(* looked at, and are not waiting any more when one of them raises.           *)
Referees(r, T) ==
    LET t == r.made[T].name
    IN IF t \notin DOMAIN r.pending THEN r
       ELSE Each([r EXCEPT !.pending = NoLonger(@, t)], r.pending[t],
                 LAMBDA q, f : LET known == Referenced(q, f[1], f[2], T)
                               IN IF q.made[f[1]].fields[f[2]].field THEN Raise([known EXCEPT !.referent = q.referent], "syntax") ELSE known)

RECURSIVE __getattr__(_, _)
RECURSIVE lazy_define_table(_, _, _)

(* A lazy table is made when it is first asked for, and forgotten as lazy     *)
(* before it is made.                                                         *)
__getattr__(r, key) ==
    IF r.lazy_tables /\ key \in DOMAIN r.lazy THEN lazy_define_table([r EXCEPT !.lazy = Less(@, key)], key, r.lazy[key])
    ELSE IF Known(r, key) THEN r ELSE Raise(r, "attribute")

(* Binding a field gives it the validator of its type: for a reference the    *)
(* table has to be got, or it is the one being made.                          *)
Bind(r, name, ref) ==
    IF ref.to \notin r.tables THEN r
    ELSE LET got == __getattr__(r, ref.to)
         IN IF got.raised = "attribute" /\ ref.to = name THEN Caught(got) ELSE got

_create_references(r, T) ==
    LET fields == r.made[T].fields
        reference(q, i) ==
            LET ref == fields[i]  got == __getattr__(q, ref.to)
            IN IF ref.to \notin q.tables
               THEN [q EXCEPT !.pending = Put(@, ref.to, (IF ref.to \in DOMAIN @ THEN @[ref.to] ELSE <<>>) \o <<<<T, i>>>>)]
               ELSE IF Failing(got) THEN got
               ELSE IF ref.field THEN Raise(got, "syntax")
               ELSE Referenced(got, T, i, Got(got, ref.to))
    IN Then(Each(r, [i \in DOMAIN fields |-> i], reference), LAMBDA q : Referees(q, T))

(* A table that cannot be made leaves what was done of it.                    *)
lazy_define_table(r, name, fields) ==
    LET bound == Each(r, fields, LAMBDA q, ref : Bind(q, name, ref))
        made == [bound EXCEPT !.made = Append(@, [name |-> name, fields |-> fields, by |-> <<>>, byList |-> <<>>]),
                              !.attr = Put(@, name, Len(bound.made) + 1)]
        result == IF Failing(bound) THEN bound ELSE _create_references(made, Len(made.made))
    IN [result EXCEPT !.failed = @ \/ Failing(result)]

define_table(r, name, fields, redefine) ==
    LET free == IF name \in r.tables THEN [r EXCEPT !.attr = Less(@, name)] ELSE r
        defined == IF r.lazy_tables
                   THEN IF name \notin DOMAIN r.lazy \/ redefine THEN [free EXCEPT !.lazy = Put(@, name, fields)] ELSE free
                   ELSE lazy_define_table(free, name, fields)
    IN IF IF name \in r.tables THEN ~redefine ELSE Known(r, name) THEN Raise(r, "syntax")
       ELSE IF Failing(defined) THEN defined
       ELSE [defined EXCEPT !.tables = @ \cup {name}, !.redefined = @ \/ name \in r.tables]

(* db.t.with_alias: an alias of the same table is kept, a table that has its  *)
(* name is hidden until the transaction ends. Cloned fields are bound anew.   *)
Dotted(r, key) == IF key \in DOMAIN r.attr THEN r ELSE __getattr__(r, key)
DottedTable(r, key) == IF key \in DOMAIN r.attr THEN r.attr[key] ELSE Got(r, key)
with_alias(r, name, alias) ==
    LET self == Dotted(r, name)
        T == DottedTable(self, name)
        known == __getattr__(self, alias)
        same == ~Failing(known) /\ known.made[Got(known, alias)].name = self.made[T].name
        bound == Each(Caught(known), self.made[T].fields, LAMBDA q, ref : Bind(q, alias, ref))
    IN IF Failing(self) THEN self
       ELSE IF same \/ known.raised = "syntax" THEN known
       ELSE IF Failing(bound) THEN bound
       ELSE [bound EXCEPT !.aliased = Put(@, alias, T), !.hidden = @ \/ alias \in bound.tables]

commit(r) == [r EXCEPT !.aliased = NoNames]

-------------------------------------------------------------------------------
Registering == asked.of = "register"
Call(x, after(_)) ==
    /\ Registering /\ answer.calls < MaxDefinitions
    /\ Ask("register", x, [after(Caught(answer)) EXCEPT !.calls = answer.calls + 1])

Connect == Waiting /\ \E isLazy \in BOOLEAN : Ask("register", <<>>, Registry(isLazy))
DefineTable == \E t \in TableNames : \E fields \in SomeDefinitions[t], redefine \in BOOLEAN :
                  Call(<<t, fields, redefine>>, LAMBDA r : define_table(r, t, fields, redefine))
UseTable == \E t \in TableNames : Call(<<t>>, LAMBDA r : __getattr__(r, t))
AliasTable == \E t \in TableNames, alias \in Aliases : Call(<<t, alias>>, LAMBDA r : with_alias(r, t, alias))
CommitAliases == Call(<<>>, commit)

-------------------------------------------------------------------------------
(* In whatever order tables are defined and first used, each knows just the   *)
(* fields that refer to it, once each, and nothing waits for a table that is  *)
(* there. (Defined anew it knows only those that came after; a definition     *)
(* that raised may have been entered; an alias that has the name of another   *)
(* table is taken for it, and its table gets the references.)                 *)
MadeFields(r) == UNION {{<<T, i>> : i \in DOMAIN r.made[T].fields} : T \in Range(r.attr)}
ReferencesKnown ==
    Registering /\ ~answer.failed =>
        /\ DOMAIN answer.pending \cap DOMAIN answer.attr = {}
        /\ \A t \in DOMAIN answer.attr :
             LET table == answer.made[answer.attr[t]]  all == table.by \o table.byList
                 refer == {f \in MadeFields(answer) : answer.made[f[1]].fields[f[2]].to = t}
             IN /\ IsInjective(all)
                /\ ~answer.redefined /\ ~answer.hidden =>
                       /\ Range(all) = refer
                       /\ \A f \in refer : answer.referent[f] = answer.attr[t]

(* A table that was defined can be used: unless lazy tables yet to be made    *)
(* refer to each other, or a definition raised.                               *)
LazyPaths(r) == {p \in (DOMAIN r.lazy) \X (DOMAIN r.lazy) : p[1] # p[2] /\ \E i \in DOMAIN r.lazy[p[1]] : r.lazy[p[1]][i].to = p[2]}
Circular(r) == LET paths == LazyPaths(r) IN \E p, q \in paths : p[2] = q[1] /\ (p[1] = q[2] \/ <<q[2], p[1]>> \in paths)
NamesFields(r) == \E fields \in Range(r.lazy) \cup {r.made[T].fields : T \in DOMAIN r.made} : \E i \in DOMAIN fields : fields[i].field
DefinedIsUsable ==
    Registering /\ ~answer.failed /\ ~Circular(answer) /\ ~NamesFields(answer) =>
        \A t \in answer.tables : LET got == __getattr__(Caught(answer), t)
                                IN ~Failing(got) /\ (t \in DOMAIN got.aliased \/ got.made[Got(got, t)].name = t)

(* db[t] is db.t, unless t has been made an alias of another table since the  *)
(* last commit; and to use a table twice is to use it once.                   *)
SameByEitherName ==
    Registering => \A t \in DOMAIN answer.attr : /\ t \notin DOMAIN answer.aliased => Got(__getattr__(Caught(answer), t), t) = DottedTable(Dotted(Caught(answer), t), t)
                                                /\ __getattr__(Caught(answer), t).made = answer.made
===============================================================================
