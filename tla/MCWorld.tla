------------------------------ MODULE MCWorld ------------------------------
(* Instances of World: pairs of intents that share an entity or do not.     *)
EXTENDS World, Catalogue

WorldExpr == MCExpr
WorldRel == RelOver(MCPath)
WorldEncodable == MCExpr \ {"broken"}

A == {"a", "n"}
AB == {"a", "b", "n"}

Callable == <<
    Intent("SetX",   A,  Inferred, <<Req("yIs0"), Ens("setXN"), Inv("xMono")>>),
    Intent("Raise",  A,  Inferred, <<Ens("setX1"), Inv("xMono")>>),
    Intent("Both",   A,  Inferred, <<Ens("setX1"), Ens("setY1"), Inv("xLeY")>>),
    Intent("CopyUp", A,  Inferred, <<Ens("setYX"), Inv("xLeY")>>),
    Intent("Lower",  A,  Inferred, <<Rej("yIs0"), Ens("setX0"), Inv("xLeY")>>),
    Intent("Free",   A,  Wildcard, <<Ens("setX0")>>),
    Intent("Reset",  AB, Inferred, <<Rej("xIs0"), Ens("setB0")>>),
    Intent("ClearB", {"b"}, Inferred, <<Rej("bIs0"), Ens("setB0")>>),
    Intent("Jump",   A,  Inferred, <<Ens("setX1"), Inv("xGrows")>>)>>

MCPrograms ==
    {File(<<Callable[n[1]], Callable[n[2]]>>, safety, <<>>) :
        n \in {m \in (DOMAIN Callable) \X (DOMAIN Callable) : m[1] < m[2]},
        safety \in {{}, {Rule({"a"}, "xLeY"), Rule({"b"}, "bIs0")},
                    {Rule({"a", "b"}, "xEqB")}, {Rule({"a"}, "xMono")}}}

=============================================================================
