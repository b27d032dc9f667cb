------------------------------ MODULE MCEntity ------------------------------
(***************************************************************************)
(* Every file made of some operations of the shop, and its entities; and    *)
(* files whose operations have no frame.                                    *)
(***************************************************************************)
EXTENDS Entity, Shop

MCFiles == ShopFiles({"place", "pay", "send", "settle", "recall", "cancel", "rush", "reopen"})
           \cup {[n \in {"reset", "pay", "send"} |-> Shop[n]],
                 [n \in {"place", "pay", "sweep"} |-> Shop[n]]}

\* Files that no one would call defective.
MCDefects == {[n \in {"pay", "split"} |-> Shop[n]],
              [n \in {"place", "pay", "send", "audit", "reopen"} |-> Shop[n]]}

=============================================================================
