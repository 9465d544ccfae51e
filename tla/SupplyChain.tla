---------------------------- MODULE SupplyChain ----------------------------
(***************************************************************************)
(* STUDY-105 and STUDY-111: a seller and two buyers, each a process with   *)
(* private data.  In phase 1 they post supply and demand and an optimizer  *)
(* allocates; in phase 2 buyers bid and the seller answers, round by       *)
(* round, as a language model decides.  Quantities and prices are whole    *)
(* numbers, whatever ones a model answers; answers that make the process   *)
(* that reads them raise are among its deaths.  Left out: a quantity that  *)
(* is no number, which ends every later process that adds it up.           *)
(***************************************************************************)
EXTENDS SharedFile

CONSTANTS
  Buyer,         \* the buyers, in the order in which they run
  Markets,       \* the private data: supply, min_price, demand, max_price
  Quantity,      \* the quantities and prices that a buyer's model may answer
  Price,
  Addressee,     \* the names that the seller's model may answer to
  Answers,       \* the lists of decisions that it may answer
  MaxRounds

VARIABLE market          \* the parties' private data; constant

Buyers == ToSet(Buyer)

ASSUME BuyerAssumption ==
  /\ Buyer = <<Head(Buyer), Last(Buyer)>> /\ Head(Buyer) # Last(Buyer)
  /\ {"seller", "optimizer"} \cap Buyers = {}
ASSUME MarketsAssumption ==
  \A m \in Markets :
    /\ m.supply \in Nat /\ m.min_price \in Nat
    /\ m.demand \in [Buyers -> Nat \ {0}] /\ m.max_price \in [Buyers -> Nat]

Decision == [action : {"ACCEPT", "COUNTER", "REJECT"},
             buyer : Addressee, quantity : Int, price : Int]

ASSUME AnswersAssumption ==
  Quantity \subseteq Int /\ Price \subseteq Int /\ Answers \subseteq Seq(Decision)

Node(kind, who, quantity, price, round) ==
  [node_type |-> kind, who |-> who, quantity |-> quantity, price |-> price,
   round |-> round]

TradeNode ==
  [node_type : {"supply", "demand", "allocation", "bid", "accept", "counter"},
   who : Buyers \cup {"seller"} \cup Addressee, quantity : Int, price : Int, round : Nat]
\* One edge stands for the two that lead through the allocation.
TradeEdge == [source : {"seller"}, target : Buyers]

ASSUME TradesAssumption == Absent \notin Graph(TradeNode, TradeEdge)

Get(nodes, kind) == Kept(nodes, {n \in ToSet(nodes) : n.node_type = kind})
Total(nodes) ==
  LET total[i \in 0..Len(nodes)] == IF i = 0 THEN 0 ELSE total[i - 1] + nodes[i].quantity
  IN  total[Len(nodes)]
Least(x, y) == IF x <= y THEN x ELSE y

SupplyNode == Node("supply", "seller", market.supply, market.min_price, 0)

SupplyChainInit ==
  /\ \/ SharedInit("phase1", Process("seller", 0), Absent)
     \/ SharedInit("phase2", Process("seller", 0), Absent)
  /\ market \in Markets

\* party_seller.py, and seller_llm.py in round 0.
PostSupply ==
  /\ pc = "work" /\ running = Process("seller", 0)
  /\ Adds(<<SupplyNode>>, <<>>)
  /\ UNCHANGED market

-----------------------------------------------------------------------------
(* Phase 1.                                                                *)

PostDemand ==
  /\ pc = "work" /\ running.role \in Buyers /\ scenario = "phase1"
  /\ LET b == running.role
     IN  Adds(<<Node("demand", b, market.demand[b], market.max_price[b], 0)>>, <<>>)
  /\ UNCHANGED market

\* optimize_allocation: the demands by falling price, each as far as supply goes.
ByFallingPrice(demands) ==
  LET sorted[i \in 0..Len(demands)] ==
        IF i = 0 THEN <<>>
        ELSE LET before == sorted[i - 1]
                 dearer == {d \in ToSet(before) : d.price >= demands[i].price}
             IN  Kept(before, dearer) \o <<demands[i]>> \o Kept(before, ToSet(before) \ dearer)
  IN  sorted[Len(demands)]

Allocate(supplies, demands) ==
  LET done[i \in 0..Len(demands)] ==
        IF i = 0 THEN <<>>
        ELSE LET d == demands[i]
                 left == Total(supplies) - Total(done[i - 1])
             IN  IF left <= 0 \/ d.price < supplies[1].price THEN done[i - 1]
                 ELSE Append(done[i - 1], Node("allocation", d.who, Least(d.quantity, left),
                                               supplies[1].price, 0))
  IN  done[Len(demands)]

Mut_OptimizeInArrivalOrder(supplies, demands) == Allocate(supplies, demands)
OptimizeAllocation(supplies, demands) == Allocate(supplies, ByFallingPrice(demands))

\* Without a supply or a demand the optimizer exits before it saves.
Optimizer ==
  /\ pc = "work" /\ running.role = "optimizer"
  /\ LET supplies == Get(memory.nodes, "supply")
         demands == Get(memory.nodes, "demand")
     IN  IF supplies = <<>> \/ demands = <<>>
         THEN pc' = "exit" /\ UNCHANGED <<scenario, running, memory, file, saved, outcome>>
         ELSE LET allocations == OptimizeAllocation(supplies, demands)
              IN  Adds(allocations,
                       [i \in DOMAIN allocations |->
                          [source |-> "seller", target |-> allocations[i].who]])
  /\ UNCHANGED market

Phase1Continues ==
  /\ scenario = "phase1" /\ pc = "exit"
  /\ CASE running.role = "seller" -> Runs(Process(Head(Buyer), 0))
       [] running.role = Head(Buyer) -> Runs(Process(Last(Buyer), 0))
       [] running.role = Last(Buyer) -> Runs(Process("optimizer", 0))
       [] OTHER -> Finishes(IF Readable THEN "ended" ELSE "raised")
  /\ UNCHANGED market

-----------------------------------------------------------------------------
(* Phase 2.                                                                *)

Secured(nodes, b) ==
  Total(Kept(nodes, {n \in ToSet(nodes) : n.node_type = "accept" /\ n.who = b}))
Need(nodes, b) == market.demand[b] - Secured(nodes, b)
Available(nodes) == Total(Get(nodes, "supply")) - Total(Get(nodes, "accept"))

\* decide_bid: what the model answers, or all that is to be had if its answer is
\* unreadable, is cut down to the need, the supply and the highest price.  Nothing
\* is bid when that leaves no quantity.
Mut_BidIgnoresAccepted(b, round) ==
  LET most == Least(Need(memory.nodes, b), Total(Get(memory.nodes, "supply")))
  IN  \E quantity \in Quantity \cup {most}, price \in Price :
        LET q == Least(quantity, most)
        IN  Adds(IF q <= 0 THEN <<>>
                 ELSE <<Node("bid", b, q, Least(price, market.max_price[b]), round)>>, <<>>)

DecideBid(b, round) ==
  LET most == Least(Need(memory.nodes, b), Available(memory.nodes))
  IN  \E quantity \in Quantity \cup {most}, price \in Price :
        LET q == Least(quantity, most)
        IN  Adds(IF q <= 0 THEN <<>>
                 ELSE <<Node("bid", b, q, Least(price, market.max_price[b]), round)>>, <<>>)

BuyerBids ==
  /\ pc = "work" /\ running.role \in Buyers /\ scenario = "phase2"
  /\ DecideBid(running.role, running.round)
  /\ UNCHANGED market

\* The decisions turned into nodes, in their order.  Nothing is checked: one buyer
\* may be answered twice, or one who did not bid, with any quantity and price.
Responses(answer, round) ==
  LET given == Kept(answer, {d \in ToSet(answer) : d.action # "REJECT"})
  IN  [i \in DOMAIN given |->
         Node(IF given[i].action = "ACCEPT" THEN "accept" ELSE "counter",
              given[i].buyer, given[i].quantity, given[i].price, round)]

\* analyze_bids_and_respond; an unreadable answer counts as an empty list.
SellerResponds ==
  /\ pc = "work" /\ running.role = "seller" /\ running.round > 0
  /\ IF \E n \in ToSet(memory.nodes) : n.node_type = "bid" /\ n.round = running.round
       THEN \E answer \in Answers \cup {<<>>} : Adds(Responses(answer, running.round), <<>>)
       ELSE Adds(<<>>, <<>>)
  /\ UNCHANGED market

\* check_negotiation_complete, after each round; the summary at the end divides
\* by the supply.
Complete == Available(file.nodes) <= 0

RoundEnds ==
  IF ~Readable THEN Finishes("raised")
  ELSE IF ~Complete /\ running.round < MaxRounds
  THEN Runs(Process(Head(Buyer), running.round + 1))
  ELSE Finishes(IF Total(Get(file.nodes, "supply")) = 0 THEN "raised" ELSE "ended")

Phase2Continues ==
  /\ scenario = "phase2" /\ pc = "exit"
  /\ \/ running.role = "seller" /\ running.round = 0 /\ Runs(Process(Head(Buyer), 1))
     \/ running.role = Head(Buyer) /\ Runs(Process(Last(Buyer), running.round))
     \/ running.role = Last(Buyer) /\ Runs(Process("seller", running.round))
     \/ running.role = "seller" /\ running.round > 0 /\ RoundEnds
  /\ UNCHANGED market

SupplyChainNext ==
  \/ PostSupply \/ PostDemand \/ Optimizer \/ Phase1Continues
  \/ BuyerBids \/ SellerResponds \/ Phase2Continues

SupplyChainSpec ==
  /\ SupplyChainInit
  /\ [][(SharedNext /\ UNCHANGED market) \/ SupplyChainNext]_<<sharedVars, market>>

-----------------------------------------------------------------------------
(* Properties.                                                             *)

\* No allocation of phase 1 exceeds the demand, the supply or the price limits,
\* and one who pays less gets nothing before who pays more has everything.
AllocationsSound(nodes) ==
  LET given == Get(nodes, "allocation")
  IN  /\ Total(given) <= market.supply
      /\ \A i \in DOMAIN given :
           /\ given[i].quantity \in 1..market.demand[given[i].who]
           /\ given[i].price \in market.min_price..market.max_price[given[i].who]
           /\ \A b \in Buyers :
                /\ market.max_price[b] > market.max_price[given[i].who]
                /\ \E j \in DOMAIN nodes : nodes[j].node_type = "demand" /\ nodes[j].who = b
                => \E j \in DOMAIN given :
                     given[j].who = b /\ given[j].quantity = market.demand[b]

\* No bid of phase 2 exceeds what its buyer still needed and what was still to be
\* had when it was made, and no buyer bids twice in a round.
BidsSound(nodes) ==
  \A i \in DOMAIN nodes :
    nodes[i].node_type = "bid" =>
      LET before == SubSeq(nodes, 1, i - 1)
      IN  /\ nodes[i].quantity <= Need(before, nodes[i].who)
          /\ nodes[i].quantity <= Available(before)
          /\ nodes[i].price <= market.max_price[nodes[i].who]
          /\ \A j \in DOMAIN before :
               ~(/\ before[j].node_type = "bid" /\ before[j].who = nodes[i].who
                 /\ before[j].round = nodes[i].round)

\* Whatever whole numbers the models answer, in lists of decisions of any length
\* about anybody, and whichever processes die, the graph that the parties leave
\* holds only such allocations and bids (optimizer.py:29-93, buyer_llm.py:199-205).
TradesWithinLimits ==
  scenario # "isolated" => AllocationsSound(saved.nodes) /\ BidsSound(saved.nodes)
=============================================================================
