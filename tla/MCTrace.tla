------------------------------ MODULE MCTrace ------------------------------
(* Documents and sources for Trace: every document of up to three lines.     *)
EXTENDS Trace

Fid(domain, kind, number) == <<"F", domain, kind, number>>
Refund == Fid("RF", "BEH", "001")
Retry == Fid("RF", "SUS", "001")
Ledger == Fid("refund.eu", "BEH", "002")      \* legal in a document, never found in a comment
Bogus == Fid("RF", "BOGUS", "1")
TooLong == <<"F", "RF", "BEH", "001", "2">>

MCPart == {"F", "RF", "refund.eu", "BEH", "SUS", "BOGUS", "001", "002", "1", "2"}
MCDigits == {"001", "002", "1", "2"}
MCPlain == MCPart \ {"refund.eu"}
MCText == {"draft", "confirmed", "deferred", "approved"}

Opening(id) == [key |-> "fact_id", value |-> id]
Status(t) == [key |-> "status", value |-> t]

Lines == {Opening(id) : id \in {Refund, Retry, Ledger, Bogus}} \cup {Status(t) : t \in MCText}
         \cup {[key |-> "other"]}
Pair == {Opening(Refund), Opening(Bogus), Status("draft"), Status("confirmed")}

SeqsUpTo(S, n) == UNION {[1..m -> S] : m \in 0..n}

\* All short documents, the longer ones of two ids and two statuses, and whole
\* entries one after the other.
MCDocuments ==
    SeqsUpTo(Lines, 3) \cup [1..4 -> Pair]
    \cup {<<Opening(i), Status(s), Opening(j), Status(t), Opening(k), Status("confirmed")>> :
            i, j, k \in {Refund, Retry, Bogus}, s, t \in {"draft", "confirmed"}}

MCSources == {<<>>, <<{Refund, TooLong}>>, <<{Refund}, {Retry, Ledger}>>}

=============================================================================
