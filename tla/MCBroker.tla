------------------------------ MODULE MCBroker ------------------------------
(***************************************************************************)
(* Instances of Broker for TLC.  The requests are two promotions, and an   *)
(* operation that is not in the catalog; all have the same ID.             *)
(***************************************************************************)
EXTENDS Broker

MCCatalog == [promote |-> {"write"}]

Promote(n) == [id |-> "i1", operation |-> "promote", typed |-> TRUE, number |-> n]
Unknown    == [id |-> "i1", operation |-> "shell", typed |-> TRUE, number |-> 1]

Rule(operations, decision, authorities) ==
  [principals |-> {"*"}, operations |-> operations, decision |-> decision,
   authorities |-> authorities]

(* Approval for promotion, everything else denied; and a rule that grants  *)
(* too little authority in front of a general one.                         *)
Asking  == <<Rule({"promote"}, "require_approval", {"write"})>>
Lacking == <<Rule({"promote"}, "allow", {"read"}), Rule({"*"}, "allow", {"read", "write"})>>

MCRequests   == {Promote(1), Unknown}
MCPromotions == {Promote(1), Promote(2)}
MCPolicies   == {Asking, Lacking}
=============================================================================
