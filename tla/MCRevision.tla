----------------------------- MODULE MCRevision -----------------------------
(* Pairs of files for Revision: two revisions of one intent, files of several  *)
(* declarations, and files that do not parse or declare one thing twice.       *)
EXTENDS Revision

C == INSTANCE Catalogue

MCParam == {"a", "n"}
MCField == {"a.x", "a.y"}
MCPath == MCField \cup {"n"}
MCOwner == [p \in MCPath |-> C!MCOwner[p]]
MCValue == C!MCValue
MCExpr == {"xIs1", "yIs0", "setX1", "setYX", "xLeY", "xMono"}
MCRel == [e \in MCExpr |-> C!RelOver(MCPath)[e]]
MCReads == [e \in MCExpr |-> C!MCReads[e]]
MCPrimed == [e \in MCExpr |-> C!MCPrimed[e]]
MCWord == {"a.x", "a.y", "1", "0"}
MCOccurs == [xIs1 |-> {"a.x", "1"}, yIs0 |-> {"a.y", "0"}, setX1 |-> {"a.x", "1"},
             setYX |-> {"a.x", "a.y"}, xLeY |-> {"a.x", "a.y"}, xMono |-> {"a.x"}]

IntentOf(name, modifies, requires, ensures, invariants) ==
    [decl |-> "intent", name |-> name, params |-> {"a"}, modifies |-> modifies,
     requires |-> requires, ensures |-> ensures, invariants |-> invariants]
SafetyOf(name, invariants) == [decl |-> "safety", name |-> name, invariants |-> invariants]
GoalOf(name, realizedBy) == [decl |-> "goal", name |-> name, realizedBy |-> realizedBy, body |-> <<"why">>]
CoverageOf(name, dimensions) == [decl |-> "coverage", name |-> name, dimensions |-> dimensions]
OtherOf(kind, body) == [decl |-> kind, name |-> "Shape", body |-> <<body>>]
SourceOf(decls) == [parses |-> TRUE, decls |-> decls]

\* Two revisions of one intent.
Versions ==
    {IntentOf("Move", modifies, requires, ensures, invariants) :
        modifies \in {C!Inferred, C!Modifies({"a.x"})},
        requires \in {<<>>, <<"xIs1">>, <<"yIs0">>, <<"xIs1", "yIs0">>, <<"yIs0", "xIs1">>},
        ensures \in {<<>>, <<"setX1">>, <<"setYX">>, <<"setX1", "setYX">>, <<"xMono", "setX1">>},
        invariants \in {<<>>, <<"xLeY">>}}
MCVersions == {<<SourceOf(<<o>>), SourceOf(<<n>>)>> : o, n \in Versions}

\* Files in which a goal and two coverages depend on an intent and a safety.
Pay(requires) == IntentOf("Pay", C!Inferred, requires, <<"setX1">>, <<>>)
Rest ==
    {<<GoalOf("trust", <<"Pay", "Order">>), CoverageOf("fields", <<<<"a.x", "a.y">>, <<"1", "0">>>>)>>,
     <<CoverageOf("none", <<>>), GoalOf("trust", <<"Order">>), OtherOf("type", "x")>>,
     <<OtherOf("function", "x"), GoalOf("trust", <<"Late">>), CoverageOf("fields", <<<<"a.y">>>>)>>}
Parts ==
    {<<Pay(<<"yIs0">>)>>, <<Pay(<<>>)>>, <<>>,
     <<Pay(<<>>), Pay(<<"yIs0">>)>>,
     <<Pay(<<"yIs0">>), SafetyOf("Order", <<"xLeY">>)>>,
     <<SafetyOf("Order", <<"xMono">>), [decl |-> "theorem", name |-> "Late", body |-> "yIs0"]>>}
MCFiles == {<<SourceOf(p \o r), SourceOf(q \o t)>> : p, q \in Parts, r, t \in Rest}

MCRevisions ==
    MCVersions \cup MCFiles
    \cup {<<SourceOf(<<>>), [parses |-> FALSE, decls |-> <<>>]>>,
          <<[parses |-> FALSE, decls |-> <<>>], SourceOf(<<>>)>>}

=============================================================================
