---------------------------- MODULE MCSharedFile ----------------------------
(***************************************************************************)
(* The demonstrations of STUDY-104, 105 and 111, each process of which may *)
(* die once or several times.  Quantities are in units of twenty; phase 2  *)
(* runs two of its three rounds.  The seller's model accepts one bid or    *)
(* both, one buyer twice, one that does not exist, more than there is or a *)
(* negative quantity, counters, rejects, or answers nothing.               *)
(***************************************************************************)
EXTENDS IsolatedAgents, SupplyChain

MCFigure == [f \in {"q4_revenue", "growth_rate", "competitor_revenue"} |->
  CASE f = "q4_revenue" -> 7 [] f = "growth_rate" -> 3 [] OTHER -> 4]

MCBuyer == <<"alpha", "beta">>
ByBuyer(a, b) == [x \in {"alpha", "beta"} |-> IF x = "alpha" THEN a ELSE b]
MCMarkets ==
  {[supply |-> 5, min_price |-> 2, demand |-> ByBuyer(3, 4), max_price |-> ByBuyer(3, 2)],
   [supply |-> 3, min_price |-> 1, demand |-> ByBuyer(2, 3), max_price |-> ByBuyer(1, 2)],
   [supply |-> 2, min_price |-> 2, demand |-> ByBuyer(3, 1), max_price |-> ByBuyer(1, 3)]}

Decides(action, buyer, quantity, price) ==
  [action |-> action, buyer |-> buyer, quantity |-> quantity, price |-> price]

MCAddressee == {"alpha", "beta", "gamma"}
MCAnswers ==
  {<<Decides("ACCEPT", "alpha", 1, 2)>>,
   <<Decides("ACCEPT", "beta", 2, 1)>>,
   <<Decides("ACCEPT", "alpha", 1, 3), Decides("ACCEPT", "beta", 3, 2)>>,
   <<Decides("ACCEPT", "alpha", 2, 1), Decides("ACCEPT", "alpha", 2, 1)>>,
   <<Decides("ACCEPT", "gamma", 1, 0)>>,
   <<Decides("ACCEPT", "beta", 9, 1)>>,
   <<Decides("ACCEPT", "beta", -2, 3), Decides("REJECT", "alpha", 1, 1)>>,
   <<Decides("REJECT", "beta", 1, 1), Decides("COUNTER", "alpha", 3, 4)>>}

noTrade == market = CHOOSE m \in Markets : TRUE
noResult == result = <<>>

Init ==
  \/ IsolatedInit /\ noTrade
  \/ SupplyChainInit /\ noResult

vars == <<sharedVars, result, market>>

Next ==
  \/ SharedNext /\ UNCHANGED <<result, market>>
  \/ IsolatedNext /\ UNCHANGED market
  \/ SupplyChainNext /\ UNCHANGED result

Spec == Init /\ [][Next]_vars
=============================================================================
