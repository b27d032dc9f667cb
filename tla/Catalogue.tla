----------------------------- MODULE Catalogue -----------------------------
(***************************************************************************)
(* Small instances for TLC: two struct-typed parameters a (fields x, y) and *)
(* b (field x), one scalar parameter n, two values, and clauses chosen so   *)
(* that every outcome of the verifier occurs.                               *)
(***************************************************************************)
EXTENDS Naturals, Sequences

MCParam == {"a", "b", "n"}
MCField == {"a.x", "a.y", "b.x"}
MCPath  == MCField \cup {"n"}
MCOwner == [p \in MCPath |-> IF p = "b.x" THEN "b" ELSE IF p = "n" THEN "n" ELSE "a"]
MCValue == 0..1

\* For each expression: the paths it reads, the paths it primes.
Mentions ==
    [true    |-> <<{}, {}>>,              false   |-> <<{}, {}>>,
     xIs1    |-> <<{"a.x"}, {}>>,         xIs0    |-> <<{"a.x"}, {}>>,
     yIs0    |-> <<{"a.y"}, {}>>,         xLeY    |-> <<{"a.x", "a.y"}, {}>>,
     xEqB    |-> <<{"a.x", "b.x"}, {}>>,  bIs0    |-> <<{"b.x"}, {}>>,
     nIs1    |-> <<{"n"}, {}>>,
     setX1   |-> <<{}, {"a.x"}>>,         setX0   |-> <<{}, {"a.x"}>>,
     setY1   |-> <<{}, {"a.y"}>>,         setB0   |-> <<{}, {"b.x"}>>,
     setXN   |-> <<{"n"}, {"a.x"}>>,      setYX   |-> <<{"a.x"}, {"a.y"}>>,
     xMono   |-> <<{"a.x"}, {"a.x"}>>,    xGrows  |-> <<{"a.x"}, {"a.x"}>>,
     nMono   |-> <<{"n"}, {"n"}>>,
     broken  |-> <<{"a.x"}, {}>>]

MCExpr == DOMAIN Mentions
MCReads  == [e \in MCExpr |-> Mentions[e][1]]
MCPrimed == [e \in MCExpr |-> Mentions[e][2]]

Meaning(e, s, t) ==
    CASE e = "true"   -> TRUE                     [] e = "false"  -> FALSE
      [] e = "xIs1"   -> s["a.x"] = 1             [] e = "xIs0"   -> s["a.x"] = 0
      [] e = "yIs0"   -> s["a.y"] = 0             [] e = "xLeY"   -> s["a.x"] <= s["a.y"]
      [] e = "xEqB"   -> s["a.x"] = s["b.x"]      [] e = "bIs0"   -> s["b.x"] = 0
      [] e = "nIs1"   -> s["n"] = 1
      [] e = "setX1"  -> t["a.x"] = 1             [] e = "setX0"  -> t["a.x"] = 0
      [] e = "setY1"  -> t["a.y"] = 1             [] e = "setB0"  -> t["b.x"] = 0
      [] e = "setXN"  -> t["a.x"] = s["n"]        [] e = "setYX"  -> t["a.y"] = s["a.x"]
      [] e = "xMono"  -> t["a.x"] >= s["a.x"]     [] e = "xGrows" -> t["a.x"] > s["a.x"]
      [] e = "nMono"  -> t["n"] >= s["n"]
      [] e = "broken" -> s["a.x"] = 1

\* The relations over a set P of paths, for the expressions that mention only these.
ExprOver(P) == {e \in MCExpr : MCReads[e] \cup MCPrimed[e] \subseteq P}
RelOver(P) ==
    LET Valuations == [P -> MCValue] IN
    [e \in ExprOver(P) |-> {v \in Valuations \X Valuations : Meaning(e, v[1], v[2])}]

-----------------------------------------------------------------------------
(* Building blocks of programs. *)

Req(e)  == [kind |-> "require",   expr |-> e, reject |-> FALSE]
Rej(e)  == [kind |-> "require",   expr |-> e, reject |-> TRUE]
Ens(e)  == [kind |-> "ensure",    expr |-> e, reject |-> FALSE]
Inv(e)  == [kind |-> "invariant", expr |-> e, reject |-> FALSE]

Inferred == [spec |-> "inferred", paths |-> {}]
Wildcard == [spec |-> "wildcard", paths |-> {}]
Modifies(paths) == [spec |-> "paths", paths |-> paths]

Intent(name, params, modifies, clauses) ==
    [decl |-> "intent", name |-> name, asis |-> FALSE, params |-> params,
     clauses |-> clauses, modifies |-> modifies]
AsIs(intent) == [intent EXCEPT !.asis = TRUE]
Theorem(name, body, structQuantifier) ==
    [decl |-> "theorem", name |-> name, body |-> body, structQuantifier |-> structQuantifier]
Rule(params, e) == [params |-> params, expr |-> e]
Example(intent, bindings) == [intent |-> intent, bindings |-> bindings]

File(decls, safety, examples) ==
    [parses |-> TRUE, typeErrors |-> FALSE, structure |-> "clean",
     decls |-> decls, safety |-> safety, examples |-> examples]

=============================================================================
