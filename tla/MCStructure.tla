---------------------------- MODULE MCStructure ----------------------------
(***************************************************************************)
(* Every file made of some operations of the shop.                          *)
(***************************************************************************)
EXTENDS Structure, Shop

MCFiles == ShopFiles({"place", "pay", "send", "settle", "recall", "cancel", "import", "split"})
MCLifecycles == <<"Order", "Payment">>

=============================================================================
