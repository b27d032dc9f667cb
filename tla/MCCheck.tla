------------------------------ MODULE MCCheck ------------------------------
(* Instances of Check: every kind of declaration, clause and front-end outcome. *)
EXTENDS Check, Catalogue

\* Parameter b stays, without a field, as the one a rule speaks of and an
\* intent lacks.
CheckField == {"a.x", "a.y"}
CheckPath  == CheckField \cup {"n"}
CheckOwner == [p \in CheckPath |-> MCOwner[p]]
CheckExpr  == ExprOver(CheckPath)
CheckRel   == RelOver(CheckPath)
CheckReads  == [e \in CheckExpr |-> MCReads[e]]
CheckPrimed == [e \in CheckExpr |-> MCPrimed[e]]
CheckEncodable == CheckExpr \ {"broken"}   \* broken applies a function nobody declared

AParams == {"a", "n"}

Intents1Simple == Intent("I", AParams, Inferred, <<Ens("setX1")>>)

Intents1 == {
    Intent("I", AParams, Inferred, <<Req("xIs0"), Ens("setX1"), Inv("xLeY")>>),
    Intent("I", AParams, Inferred, <<Req("xIs0"), Ens("setX1"), Ens("setY1"), Inv("xLeY")>>),
    Intent("I", AParams, Inferred, <<Rej("xIs1"), Ens("setX0"), Inv("xLeY")>>),
    Intent("I", AParams, Inferred, <<Rej("xIs0"), Rej("yIs0"), Ens("setX1"), Inv("yIs0")>>),
    Intent("I", AParams, Inferred, <<Req("xIs0"), Ens("setX1"), Inv("xMono")>>),
    Intent("I", AParams, Inferred, <<Rej("nIs1"), Ens("setXN"), Inv("xMono"), Inv("nMono")>>),
    Intent("I", AParams, Modifies({"a.x"}), <<Ens("setX1"), Inv("yIs0")>>),
    Intent("I", AParams, Modifies({"a.y"}), <<Ens("setX1")>>),
    Intent("I", AParams, Wildcard, <<Ens("setX1"), Inv("yIs0")>>),
    Intent("I", AParams, Inferred, <<Ens("setX1"), Ens("setX0")>>),
    Intent("I", AParams, Inferred, <<Req("broken"), Ens("setX1"), Inv("xIs1")>>),
    Intent("I", {"a", "b"}, Inferred, <<Ens("setX0"), Ens("setY1"), Inv("xIs0")>>),
    Intent("I", AParams, Inferred, <<Ens("setX1"), Inv("xGrows")>>),
    Intent("I", AParams, Inferred, <<Rej("nIs1")>>)}

Files1 ==
    {File(<<i>>, {}, examples) : i \in Intents1, examples \in {<<>>, <<Example("I", {"xIs0", "setX1"})>>}}
    \cup {File(<<i>>, {Rule({"a"}, "xLeY"), Rule({"a", "b"}, "xIs0")}, <<>>) : i \in Intents1}
    \cup {File(<<Intents1Simple>>, {Rule({"a"}, "broken")}, <<>>)}

Legacy == AsIs(Intent("L", AParams, Inferred, <<Req("xIs1"), Ens("setX0"), Inv("xMono")>>))
Twin   == Intent("L", AParams, Inferred, <<Ens("setX0"), Inv("xIs1")>>)
Good   == Intent("G", AParams, Inferred, <<Req("yIs0"), Ens("setX1"), Inv("xMono")>>)

\* An @asis intent whose reject branch is contradictory.
LegacyRejecting ==
    AsIs(Intent("L", AParams, Inferred, <<Rej("xIs1"), Ens("setX0"), Inv("xIs1")>>))

\* A copy of n that n = 1 guards: each clause allows the result 0, both do not.
Copy == Intent("C", AParams, Inferred, <<Rej("nIs1"), Ens("setXN")>>)

\* A faultless intent whose claim, its primes removed, says that x exceeds itself.
Grow == Intent("W", AParams, Inferred, <<Req("xIs0"), Ens("setX1"), Inv("xGrows")>>)

Files2 == {
    File(<<Grow>>, {}, <<>>),
    File(<<LegacyRejecting, Good>>, {}, <<>>),
    File(<<Copy>>, {}, <<Example("C", {"setX0"})>>),
    [File(<<Twin>>, {}, <<>>) EXCEPT !.structure = "soft"],
    File(<<Legacy, Good, Theorem("T", "true", FALSE)>>, {}, <<Example("G", {"xIs1"}), Example("G", {"setX0"})>>),
    File(<<Good, Theorem("T", "false", FALSE), Theorem("U", "false", TRUE)>>, {}, <<>>),
    File(<<Legacy, Twin>>, {}, <<>>),
    File(<<Good>>, {}, <<Example("G", {"setY1"})>>),
    File(<<Good>>, {}, <<Example("Absent", {})>>),
    [File(<<Good>>, {}, <<>>) EXCEPT !.structure = "soft"],
    [File(<<Good>>, {}, <<>>) EXCEPT !.structure = "hard"],
    [File(<<Good>>, {}, <<>>) EXCEPT !.typeErrors = TRUE],
    [File(<<Good>>, {}, <<>>) EXCEPT !.parses = FALSE]}

MCPrograms == Files1 \cup Files2

LegacyPrograms == {File(<<LegacyRejecting, Good>>, {}, <<>>)}
SmallPrograms == {File(<<i>>, {}, <<>>) : i \in Intents1}

=============================================================================
