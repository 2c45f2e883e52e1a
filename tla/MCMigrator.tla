----------------------------- MODULE MCMigrator -----------------------------
(***************************************************************************)
(* Instances of Migrator: three versions of a table that between them      *)
(* rename, retype, freeze, add and drop fields, and two that differ by the *)
(* fields before and after one that stays.                                 *)
(***************************************************************************)
EXTENDS Migrator, TLC

Column(n, t) == [rname |-> n, sql |-> t]
Tmps   == "a" :> "a_tmp" @@ "b" :> "b_tmp" @@ "c" :> "c_tmp"
Order  == <<"a", "b", "c">>

Version1 == "a" :> Column("a1", "text") @@ "b" :> Column("b1", "text")
Version2 == "a" :> Column("a2", "text") @@ "b" :> Column("b1", "int")
Version3 == "a" :> Column("a1", "int")  @@ "b" :> Column("b1", "double")
              @@ "c" :> Column("c1", "text")
Versions == {Version1, Version2, Version3}

Narrow == "b" :> Column("b1", "text")
Wide   == Version1 @@ "c" :> Column("c1", "text")
NarrowAndWide == {Narrow, Wide}

\* What the theorems about Migrator assume besides.
ASSUME NamesApart /\ "mysql" \notin Overlap
=============================================================================
