-------------------------------- MODULE Shop --------------------------------
(***************************************************************************)
(* A small file to derive machines from: an order and its copy, which share *)
(* a lifecycle, and the payment, which has one of its own.                  *)
(***************************************************************************)
EXTENDS Naturals, FiniteSets

ShopEnum == {"Order", "Payment"}
ShopVariantsOf == [Order   |-> {"New", "Paid", "Sent", "Done"},
                   Payment |-> {"Open", "Settled"}]
ShopPath == {"order", "copy", "pay"}
ShopEnumOf == [order |-> "Order", copy |-> "Order", pay |-> "Payment"]

All(eqs) == [join |-> "all", eqs |-> eqs]
Any(eqs) == [join |-> "any", eqs |-> eqs]
Other    == All({})
Sets(eqs) == [guarded |-> FALSE, ante |-> Other, cons |-> All(eqs)]
If(ante, cons) == [guarded |-> TRUE, ante |-> ante, cons |-> cons]
Op(requires, ensures) == [requires |-> requires, ensures |-> ensures,
                          modifies |-> [spec |-> "inferred", paths |-> {}]]
Modifying(paths, op) == [op EXCEPT !.modifies = [spec |-> "paths", paths |-> paths]]
Unframed(op) == [op EXCEPT !.modifies = [spec |-> "wildcard", paths |-> {}]]

Order(v) == <<"order", v>>
Pay(v)   == <<"pay", v>>

Shop == [
    place  |-> Op({}, {Sets({Order("New"), Pay("Open")})}),
    pay    |-> Op({All({Order("New")}), Other}, {Sets({Order("Paid")}), Sets({Pay("Settled")})}),
    send   |-> Op({Any({Order("Paid"), Order("Sent")})}, {Sets({Order("Sent")})}),
    settle |-> Op({}, {If(All({Order("Paid")}), All({Order("Done")})),
                       If(All({Order("Sent")}), All({Order("Done")})),
                       If(All({Order("New")}),  All({Order("New")})),
                       If(All({Order("Done")}), All({Order("Done")}))}),
    recall |-> Op({All({Order("Sent")})}, {Sets({Order("Paid")})}),
    cancel |-> Modifying({"order", "pay"},
                  Op({All({Order("New"), Pay("Settled")})}, {Sets({Order("Done"), Pay("Open")})})),
    reopen |-> Op({All({Order("Done")})}, {Sets({Order("New")})}),
    \* the source of the case is a state of the other lifecycle
    rush   |-> Op({}, {If(All({Pay("Settled")}), All({Order("Sent")}))}),
    \* the next state is one of two, and the code does not look into ||
    audit  |-> Op({All({Order("Sent")})},
                  {[guarded |-> FALSE, ante |-> Other, cons |-> Any({Order("Done"), Order("Paid")})]}),
    \* a creation in disguise: its condition is a flag
    import |-> Op({Other}, {If(Other, All({Order("Done")}))}),
    \* with `modifies *`, one decides where everything goes, one does not
    reset  |-> Unframed(Op({}, {Sets({Order("New"), <<"copy", "New">>, Pay("Open")})})),
    sweep  |-> Unframed(Op({All({Order("Done")})}, {Sets({Order("Sent")})})),
    \* two orders go two ways
    split  |-> Op({All({Order("Paid")})}, {Sets({Order("Done"), <<"copy", "Sent">>})})]

ShopFiles(names) == {[n \in chosen |-> Shop[n]] : chosen \in SUBSET names}

=============================================================================
