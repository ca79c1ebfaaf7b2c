------------------------------ MODULE MCClubs -------------------------------
(***************************************************************************)
(* What a club sells (tickets and the store), the markets that are offered *)
(* (proposals, catalogue, watchlists), the fantasy squads, the newsroom    *)
(* and the results desk, checked in one run: every behaviour is about one  *)
(* of them. The store is checked twice: carts of two products under one    *)
(* key, and stock of one product under two keys. Requests are the          *)
(* concurrent requests of each.                                            *)
(***************************************************************************)
EXTENDS TLC, Sequences, Sums

CONSTANTS
    Purchases, Users, Editors, Requests, Quantities, Capacities, Prices,
    NoCapacity, NoPurchase, StartFunds, MaxEdits, Staff, Funds, MaxOrders,
    None, CartKeys, StockKeys,
    Questions      \* of the markets that are proposed

VARIABLES
    part,      \* the component this behaviour is about
    product, orders, funds, charged, pc, copies, scans, admitted, edits,
    overwritten,
    products, ordersOfCart, available, payments, refunded, calls,
    overwrittenOfCart, reused,
    proposalsOfProposed, markets, reviewing, holding, callsOfProposed,
    editsOfProposed,
    market, groups, price, amount, issued, editing, stale, editsOfCatalogue,
    turns,
    visible, watchlist, recent, callsOfInterest, turnsOfInterest, viewed,
    priceOfSquad, unavailable, squad, budget, state, transfers,
    closedOfSquad, request, overlappedOfSquad, changesOfSquad,
    news, callsOfNews, made, overlappedOfNews, rejected,
    fixture, score, review, nowOfResults, callsOfResults, madeOfResults,
    seen

(* Two players of one club and two of another, the last of them dear.      *)
ClubOfPlayer == [p \in 1..4 |-> IF p <= 2 THEN 1 ELSE 2]
PriceOfPlayer == [p \in 1..4 |-> IF p = 4 THEN 2 ELSE 1]

Gate == INSTANCE Tickets WITH
        Scanners <- Requests
Cart == INSTANCE Store WITH
        orders <- ordersOfCart, overwritten <- overwrittenOfCart,
        Buyers <- Requests, Products <- {1, 2}, Keys <- CartKeys,
        MaxStock <- 1
Stock == INSTANCE Store WITH
        orders <- ordersOfCart, overwritten <- overwrittenOfCart,
        Buyers <- Requests, Products <- {1}, Keys <- StockKeys,
        MaxStock <- 2
Proposed == INSTANCE MarketProposals WITH
        proposals <- proposalsOfProposed, calls <- callsOfProposed,
        edits <- editsOfProposed, Events <- {"event"},
        MaxProposals <- 2, MaxMarkets <- 2, MaxEdits <- 2
Catalogue == INSTANCE MarketCatalogue WITH
        edits <- editsOfCatalogue, Editors <- {"editor"}, Events <- {1, 2},
        Groups <- {"group"}, Prices <- {1, 2}, Amounts <- {0, 1},
        MaxEdits <- 2, MaxTurns <- 6
Interest == INSTANCE MarketInterest WITH
        calls <- callsOfInterest, turns <- turnsOfInterest,
        Markets <- {"market"}, MaxViews <- 3, MaxTurns <- 1
Squad == INSTANCE FantasyTeams WITH
        price <- priceOfSquad, closed <- closedOfSquad,
        overlapped <- overlappedOfSquad, changes <- changesOfSquad,
        Players <- 1..4, Prices <- {1, 2}, Club <- ClubOfPlayer,
        InitialBudget <- 5, MaxPerClub <- 2, FreeTransfers <- 1,
        TransferPenalty <- 4, Gameweeks <- {1},
        InitialPrice <- PriceOfPlayer, InitialSquad <- <<1, 2, 3>>,
        MaxTransfers <- 2, MaxChanges <- 1
News == INSTANCE NewsDesk WITH
        calls <- callsOfNews, overlapped <- overlappedOfNews,
        Articles <- {1, 2}, MAX_TRENDING <- 1, MaxCalls <- 4
Results == INSTANCE FixtureDesk WITH
        now <- nowOfResults, calls <- callsOfResults, made <- madeOfResults,
        Staff <- Editors, Open <- {"SCHEDULED", "LIVE"}, Scores <- {1},
        MaxTime <- 2, MaxCalls <- 4

(* Every other component stands still, its variables at Off.               *)
Off == "off"
GateOff ==
    product = Off /\ orders = Off /\ funds = Off /\ charged = Off /\
    pc = Off /\ copies = Off /\ scans = Off /\ admitted = Off /\
    edits = Off /\ overwritten = Off
CartOff ==
    products = Off /\ ordersOfCart = Off /\ available = Off /\
    payments = Off /\ refunded = Off /\ calls = Off /\
    overwrittenOfCart = Off /\ reused = Off
ProposedOff ==
    proposalsOfProposed = Off /\ markets = Off /\ reviewing = Off /\
    holding = Off /\ callsOfProposed = Off /\ editsOfProposed = Off
CatalogueOff ==
    market = Off /\ groups = Off /\ price = Off /\ amount = Off /\
    issued = Off /\ editing = Off /\ stale = Off /\
    editsOfCatalogue = Off /\ turns = Off
InterestOff ==
    visible = Off /\ watchlist = Off /\ recent = Off /\
    callsOfInterest = Off /\ turnsOfInterest = Off /\ viewed = Off
SquadOff ==
    priceOfSquad = Off /\ unavailable = Off /\ squad = Off /\
    budget = Off /\ state = Off /\ transfers = Off /\ closedOfSquad = Off /\
    request = Off /\ overlappedOfSquad = Off /\ changesOfSquad = Off
NewsOff ==
    news = Off /\ callsOfNews = Off /\ made = Off /\
    overlappedOfNews = Off /\ rejected = Off
ResultsOff ==
    fixture = Off /\ score = Off /\ review = Off /\ nowOfResults = Off /\
    callsOfResults = Off /\ madeOfResults = Off /\ seen = Off

gateVars == <<product, orders, funds, charged, pc, copies, scans, admitted,
              edits, overwritten>>
cartVars == <<products, ordersOfCart, available, payments, refunded, calls,
              overwrittenOfCart, reused>>
proposedVars == <<proposalsOfProposed, markets, reviewing, holding,
                  callsOfProposed, editsOfProposed>>
catalogueVars == <<market, groups, price, amount, issued, editing, stale,
                   editsOfCatalogue, turns>>
interestVars == <<visible, watchlist, recent, callsOfInterest,
                  turnsOfInterest, viewed>>
squadVars == <<priceOfSquad, unavailable, squad, budget, state, transfers,
               closedOfSquad, request, overlappedOfSquad, changesOfSquad>>
newsVars == <<news, callsOfNews, made, overlappedOfNews, rejected>>
resultsVars == <<fixture, score, review, nowOfResults, callsOfResults,
                 madeOfResults, seen>>
vars == <<part, gateVars, cartVars, proposedVars, catalogueVars, interestVars,
         squadVars, newsVars, resultsVars>>

Init ==
    \/ part = "Gate" /\ Gate!Init /\ CartOff /\ ProposedOff /\ CatalogueOff /\
       InterestOff /\ SquadOff /\ NewsOff /\ ResultsOff
    \/ part = "Cart" /\ Cart!Init /\ GateOff /\ ProposedOff /\ CatalogueOff /\
       InterestOff /\ SquadOff /\ NewsOff /\ ResultsOff
    \/ part = "Stock" /\ Stock!Init /\ GateOff /\ ProposedOff /\
       CatalogueOff /\ InterestOff /\ SquadOff /\ NewsOff /\ ResultsOff
    \/ part = "Proposed" /\ Proposed!Init /\ GateOff /\ CartOff /\
       CatalogueOff /\ InterestOff /\ SquadOff /\ NewsOff /\ ResultsOff
    \/ part = "Catalogue" /\ Catalogue!Init /\ GateOff /\ CartOff /\
       ProposedOff /\ InterestOff /\ SquadOff /\ NewsOff /\ ResultsOff
    \/ part = "Interest" /\ Interest!Init /\ GateOff /\ CartOff /\
       ProposedOff /\ CatalogueOff /\ SquadOff /\ NewsOff /\ ResultsOff
    \/ part = "Squad" /\ Squad!Init /\ GateOff /\ CartOff /\ ProposedOff /\
       CatalogueOff /\ InterestOff /\ NewsOff /\ ResultsOff
    \/ part = "News" /\ News!Init /\ GateOff /\ CartOff /\ ProposedOff /\
       CatalogueOff /\ InterestOff /\ SquadOff /\ ResultsOff
    \/ part = "Results" /\ Results!Init /\ GateOff /\ CartOff /\ ProposedOff /\
       CatalogueOff /\ InterestOff /\ SquadOff /\ NewsOff

GateStep ==
    /\ part = "Gate" /\ Gate!Next
    /\ UNCHANGED <<part, cartVars, proposedVars, catalogueVars, interestVars,
                   squadVars, newsVars, resultsVars>>
CartStep ==
    /\ part = "Cart" /\ Cart!Next
    /\ UNCHANGED <<part, gateVars, proposedVars, catalogueVars, interestVars,
                   squadVars, newsVars, resultsVars>>
StockStep ==
    /\ part = "Stock" /\ Stock!Next
    /\ UNCHANGED <<part, gateVars, proposedVars, catalogueVars, interestVars,
                   squadVars, newsVars, resultsVars>>
ProposedStep ==
    /\ part = "Proposed" /\ Proposed!Next
    /\ UNCHANGED <<part, gateVars, cartVars, catalogueVars, interestVars,
                   squadVars, newsVars, resultsVars>>
CatalogueStep ==
    /\ part = "Catalogue" /\ Catalogue!Next
    /\ UNCHANGED <<part, gateVars, cartVars, proposedVars, interestVars,
                   squadVars, newsVars, resultsVars>>
InterestStep ==
    /\ part = "Interest" /\ Interest!Next
    /\ UNCHANGED <<part, gateVars, cartVars, proposedVars, catalogueVars,
                   squadVars, newsVars, resultsVars>>
SquadStep ==
    /\ part = "Squad" /\ Squad!Next
    /\ UNCHANGED <<part, gateVars, cartVars, proposedVars, catalogueVars,
                   interestVars, newsVars, resultsVars>>
NewsStep ==
    /\ part = "News" /\ News!Next
    /\ UNCHANGED <<part, gateVars, cartVars, proposedVars, catalogueVars,
                   interestVars, squadVars, resultsVars>>
ResultsStep ==
    /\ part = "Results" /\ Results!Next
    /\ UNCHANGED <<part, gateVars, cartVars, proposedVars, catalogueVars,
                   interestVars, squadVars, newsVars>>

Next ==
    GateStep \/ CartStep \/ StockStep \/ ProposedStep \/ CatalogueStep \/
    InterestStep \/ SquadStep \/ NewsStep \/ ResultsStep

Spec == Init /\ [][Next]_vars

Symmetry == Permutations(Purchases) \cup Permutations(Users)
            \cup Permutations(Editors) \cup Permutations(Requests)

ASSUME TicketsAssumed == Gate!TicketsAssumption
ASSUME PurchasesAssumption == IsFiniteSet(Purchases)
ASSUME ShopAssumption == IsFiniteSet(CartKeys) /\ IsFiniteSet(StockKeys) /\ Funds \in Nat

ASSUME NoneAssumption ==
    /\ None \notin Int /\ None \notin Requests /\ None \notin Editors
    /\ None \notin Results!Reviews /\ None \notin News!News
    /\ None \notin {"save", "approve", "create", "submit", "decide", "feature",
                    "trend", "reject", "edit"}

-----------------------------------------------------------------------------
(* The values of each component's variables.                              *)
TypeOK ==
    /\ part = "Gate" => Gate!TypeOK
    /\ part = "Cart" => Cart!TypeOK
    /\ part = "Stock" => Stock!TypeOK
    /\ part = "Proposed" => Proposed!TypeOK
    /\ part = "Catalogue" => Catalogue!TypeOK
    /\ part = "Interest" => Interest!TypeOK
    /\ part = "Squad" => Squad!TypeOK
    /\ part = "News" => News!TypeOK
    /\ part = "Results" => Results!TypeOK

(* Tickets: the count of sold tickets is that of the paid ones until a     *)
(* PATCH writes back an old one, and within the capacity; every ticket is  *)
(* paid for.                                                               *)
TicketsSound == 
    /\ part = "Gate" => Gate!SoldCountsTickets
    /\ part = "Gate" => Gate!TicketsAreBacked

(* Store: the reserved stock is what the open orders hold until a PATCH    *)
(* overwrites it; orders are paid once, unless their key was used for two  *)
(* carts, and refunded when cancelled.                                     *)
StoreSound == 
    /\ part = "Cart" => Cart!ReservedBacksOrders
    /\ part = "Stock" => Stock!ReservedBacksOrders
    /\ part = "Cart" => Cart!OrdersArePaid
    /\ part = "Stock" => Stock!OrdersArePaid

(* One live market for a key among those of proposals that were not        *)
(* revived, and a flag on one of two proposals saved one after the other; a*)
(* market says what was approved unless a stale edit was saved; views are  *)
(* counted.                                                                *)
CatalogueHolds == 
    /\ part = "Proposed" => Proposed!OneMarketPerKey
    /\ part = "Proposed" => Proposed!TwinsAreFlagged
    /\ part = "Catalogue" => Catalogue!ReviewedAsApproved
    /\ part = "Interest" => Interest!ViewsAreCounted

(* The points of transfers are those of the history; a squad stays legal   *)
(* and the editorial slots keep their rules unless requests overlapped; a  *)
(* result names a reviewer exactly if its last save was a decision.        *)
GameHolds == 
    /\ part = "Squad" => Squad!PenaltiesAgree
    /\ part = "Squad" => Squad!SquadStaysLegal
    /\ part = "News" => News!CurationHolds
    /\ part = "Results" => Results!ReviewNamesReviewer

-----------------------------------------------------------------------------
(* Tickets. What an order has sold, and the sums the properties speak of.  *)
Sold(o, p) == o[p].status \in {"PAID", "FULFILLED"}
SoldOf(o) == {p \in Purchases : Sold(o, p)}
Tickets(o) == [p \in Purchases |-> o[p].quantity]
OrdersBy(o, u) == {p \in Purchases : o[p].user = u}

(* The recursions of the two sums are the one of SumOf.                    *)
TicketsIn(o, S) ==
    (CHOOSE g : g = [s \in SUBSET S |->
                        IF s = {} THEN 0
                        ELSE o[CHOOSE x \in s : TRUE].quantity
                             + g[s \ {CHOOSE x \in s : TRUE}]])[S]

LEMMA TicketsPaidIsTicketsIn ==
    /\ Gate!TicketsPaid = TicketsIn(orders, SoldOf(orders))
    /\ Gate!TicketsPaid' = TicketsIn(orders', SoldOf(orders'))
  BY DEF Gate!TicketsPaid, Gate!Ticketed, Gate!MapThenSumSet, Gate!MapThenFoldSet, TicketsIn,
         Sold, SoldOf

LEMMA TicketsInIsSum ==
    ASSUME NEW S, IsFiniteSet(S), S \subseteq Purchases, NEW o,
           \A p \in S : o[p].quantity \in Int
    PROVE  TicketsIn(o, S) = SumOf(Tickets(o), S)
  <1> DEFINE G == CHOOSE g : g = [s \in SUBSET S |->
                        IF s = {} THEN 0
                        ELSE o[CHOOSE x \in s : TRUE].quantity
                             + g[s \ {CHOOSE x \in s : TRUE}]]
  <1>0. PICK f : f = Tickets(o) OBVIOUS
  <1>1. \A p \in S : f[p] \in Int /\ f[p] = o[p].quantity BY <1>0 DEF Tickets
  <1>2. PICK g \in [SUBSET S -> Int] :
            (\A s \in SUBSET S : Solves(g, f, s)) /\ SumOf(f, S) = g[S]
    BY <1>1, SumIsSolution
  <1>3. g = [s \in SUBSET S |->
                        IF s = {} THEN 0
                        ELSE o[CHOOSE x \in s : TRUE].quantity
                             + g[s \ {CHOOSE x \in s : TRUE}]]
    BY <1>1, <1>2, SomeIsMember DEF Solves, Some
  <1>4. PICK h : /\ h = [s \in SUBSET S |->
                        IF s = {} THEN 0
                        ELSE o[CHOOSE x \in s : TRUE].quantity
                             + h[s \ {CHOOSE x \in s : TRUE}]]
                 /\ TicketsIn(o, S) = h[S]
    <2>1. G = [s \in SUBSET S |->
                        IF s = {} THEN 0
                        ELSE o[CHOOSE x \in s : TRUE].quantity
                             + G[s \ {CHOOSE x \in s : TRUE}]]
      BY <1>3, ZenonT(30)
    <2> QED BY <2>1, Zenon DEF TicketsIn
  <1>5. \A s \in SUBSET S : Solves(h, f, s) BY <1>1, <1>4, SomeIsMember DEF Solves, Some
  <1>6. SumOf(f, S) = h[S] BY <1>1, <1>5, SumOfSubset
  <1> QED BY <1>0, <1>4, <1>6

LEMMA ChargesAreSum ==
    \A S : Gate!MapThenSumSet(LAMBDA p : charged[p], S) = SumOf(charged, S)
  BY DEF Gate!MapThenSumSet, Gate!MapThenFoldSet, SumOf, Some

(* An order agrees with the step its purchase is at, and with the money    *)
(* that was charged for it.                                                *)
OrderSound(p) ==
    LET status == orders[p].status IN
    /\ pc[p] = "create" => status = "none"
    /\ pc[p] \in {"pay", "confirm"} => status = "PENDING"
    /\ pc[p] = "pay" => charged[p] = 0
    /\ pc[p] = "confirm" => charged[p] > 0 /\ charged[p] = orders[p].total
    /\ Sold(orders, p) => charged[p] > 0 /\ charged[p] = orders[p].total
    /\ status \in {"none", "CANCELLED"} => charged[p] = 0
    /\ admitted[p] > 0 => Sold(orders, p)

MoneyOfBuyers ==
    \A u \in Users : funds[u] + SumOf(charged, OrdersBy(orders, u)) = StartFunds

(* The count of a row or of a copy is one that the orders had.             *)
CountSound(row) ==
    row # Gate!NoProduct => row.sold <= SumOf(Tickets(orders), SoldOf(orders))

GateInv ==
    /\ Gate!TypeOK
    /\ \A p \in Purchases : OrderSound(p)
    /\ \A s \in Requests : scans[s] # NoPurchase => Sold(orders, scans[s])
    /\ MoneyOfBuyers
    /\ product = Gate!NoProduct => \A p \in Purchases : orders[p].status = "none"
    /\ CountSound(product)
    /\ \A e \in Editors : CountSound(copies[e])
    /\ product # Gate!NoProduct =>
          /\ product.capacity # NoCapacity => product.sold <= product.capacity
          /\ ~overwritten => product.sold = SumOf(Tickets(orders), SoldOf(orders))

LEMMA QuantitiesAreNatural ==
    ASSUME Gate!TypeOK
    PROVE  /\ \A p \in Purchases : orders[p] \in Gate!Orders
           /\ \A o \in Gate!Orders : o.quantity \in Nat /\ o.total \in Nat
           /\ \A p \in Purchases : orders[p].quantity \in Int
  <1>1. \A p \in Purchases : orders[p] \in Gate!Orders BY DEF Gate!TypeOK
  <1>2. Quantities \cup {0} \subseteq Nat BY TicketsAssumed DEF Gate!TicketsAssumption
  <1>3. \A o \in Gate!Orders : o.quantity \in Nat /\ o.total \in Nat BY <1>2 DEF Gate!Orders
  <1> QED BY <1>1, <1>3

LEMMA GateInvSays == GateInv => Gate!SoldCountsTickets /\ Gate!TicketsAreBacked
  <1> SUFFICES ASSUME GateInv PROVE Gate!SoldCountsTickets /\ Gate!TicketsAreBacked OBVIOUS
  <1>1. Gate!TicketsPaid = SumOf(Tickets(orders), SoldOf(orders))
    <2> DEFINE S == SoldOf(orders)
    <2>1. S \subseteq Purchases BY DEF SoldOf
    <2>2. \A p \in Purchases : orders[p].quantity \in Int BY QuantitiesAreNatural DEF GateInv
    <2> HIDE DEF S
    <2>3. IsFiniteSet(S) BY <2>1, PurchasesAssumption, FS_Subset
    <2>4. TicketsIn(orders, S) = SumOf(Tickets(orders), S) BY <2>1, <2>2, <2>3, TicketsInIsSum
    <2> QED BY <2>4, TicketsPaidIsTicketsIn DEF S
  <1>2. Gate!SoldCountsTickets BY <1>1 DEF GateInv, CountSound, Gate!SoldCountsTickets
  <1>3. \A p \in Purchases :
          /\ Gate!Ticketed(p) => charged[p] > 0 /\ charged[p] = orders[p].total
          /\ orders[p].status \in {"none", "CANCELLED"} => charged[p] = 0
          /\ admitted[p] > 0 => Gate!Ticketed(p)
    BY DEF GateInv, OrderSound, Sold, Gate!Ticketed
  <1>4. ASSUME NEW u \in Users
        PROVE  funds[u] + Gate!MapThenSumSet(LAMBDA p : charged[p],
                                   {p \in Purchases : orders[p].user = u}) = StartFunds
    BY ChargesAreSum DEF GateInv, MoneyOfBuyers, OrdersBy
  <1> QED BY <1>2, <1>3, <1>4 DEF Gate!TicketsAreBacked

LEMMA GateInit == Gate!Init => GateInv
  <1> SUFFICES ASSUME Gate!Init PROVE GateInv OBVIOUS
  <1>1. PICK s \in Gate!ProductStatuses, c \in Capacities, cost \in Prices :
            product = [status |-> s, capacity |-> c, sold |-> 0, price |-> cost]
    BY DEF Gate!Init
  <1>2. product \in Gate!Products /\ product.sold = 0 /\ product.capacity = c
        /\ product # Gate!NoProduct
    BY <1>1 DEF Gate!Products, Gate!NoProduct
  <1>3. \A p \in Purchases : orders[p] \in Gate!Orders /\ orders[p].status = "none"
    <2>1. \A u \in Users : Gate!NoOrder(u) \in Gate!Orders /\ Gate!NoOrder(u).status = "none"
      BY DEF Gate!NoOrder, Gate!Orders
    <2>2. orders \in [Purchases -> {Gate!NoOrder(u) : u \in Users}] BY DEF Gate!Init
    <2>3. \A p \in Purchases : \E u \in Users : orders[p] = Gate!NoOrder(u) BY <2>2
    <2> QED BY <2>1, <2>3
  <1>4. Gate!TypeOK
    <2>1. orders \in [Purchases -> Gate!Orders] BY <1>3 DEF Gate!Init
    <2>2. StartFunds \in Nat /\ 0 \in 0..MaxEdits BY TicketsAssumed DEF Gate!TicketsAssumption
    <2>3. funds \in [Users -> Nat] /\ charged \in [Purchases -> Nat]
          /\ admitted \in [Purchases -> Nat]
      BY <2>2 DEF Gate!Init
    <2>4. /\ pc \in [Purchases -> {"create", "pay", "confirm", "done", "refused", "stopped"}]
          /\ copies \in [Editors -> Gate!Products \cup {Gate!NoProduct}]
          /\ scans \in [Requests -> Purchases \cup {NoPurchase}]
          /\ edits \in 0..MaxEdits /\ overwritten \in BOOLEAN
      BY <2>2 DEF Gate!Init
    <2> QED BY <1>2, <2>1, <2>3, <2>4 DEF Gate!TypeOK
  <1>5. SoldOf(orders) = {} BY <1>3 DEF SoldOf, Sold
  <1>6. SumOf(Tickets(orders), SoldOf(orders)) = 0 BY <1>5, SumOfNothing
  <1>7. \A e \in Editors : copies[e] = Gate!NoProduct BY DEF Gate!Init
  <1>8. MoneyOfBuyers
    <2> SUFFICES ASSUME NEW u \in Users
                 PROVE  funds[u] + SumOf(charged, OrdersBy(orders, u)) = StartFunds
      BY DEF MoneyOfBuyers
    <2>1. IsFiniteSet(OrdersBy(orders, u)) /\ OrdersBy(orders, u) \subseteq Purchases
      BY PurchasesAssumption, FS_Subset DEF OrdersBy
    <2>2. \A p \in OrdersBy(orders, u) : charged[p] = 0 BY <2>1 DEF Gate!Init
    <2>3. PICK z \in Int : z = 0 OBVIOUS
    <2>4. SumOf(charged, OrdersBy(orders, u)) = z * Cardinality(OrdersBy(orders, u))
      BY <2>1, <2>2, <2>3, SumOfConstant
    <2>5. Cardinality(OrdersBy(orders, u)) \in Nat BY <2>1, FS_CardinalityType
    <2>6. SumOf(charged, OrdersBy(orders, u)) = 0 BY <2>3, <2>4, <2>5
    <2>7. funds[u] = StartFunds /\ StartFunds \in Nat
      BY TicketsAssumed DEF Gate!Init, Gate!TicketsAssumption
    <2> QED BY <2>6, <2>7
  <1>9. \A p \in Purchases : OrderSound(p) BY <1>3 DEF OrderSound, Sold, Gate!Init
  <1>10. product.capacity # NoCapacity => product.sold <= product.capacity
    BY <1>2, TicketsAssumed DEF Gate!TicketsAssumption
  <1>11. \A s2 \in Requests : scans[s2] = NoPurchase BY DEF Gate!Init
  <1> QED BY <1>2, <1>4, <1>6, <1>7, <1>8, <1>9, <1>10, <1>11 DEF GateInv, CountSound

(* Nothing is sold or unsold: the sum stays.                               *)
LEMMA SalesStay ==
    ASSUME Gate!TypeOK,
           \A p \in Purchases : /\ Sold(orders', p) <=> Sold(orders, p)
                                /\ Sold(orders, p) => orders'[p].quantity = orders[p].quantity
    PROVE  SumOf(Tickets(orders'), SoldOf(orders')) = SumOf(Tickets(orders), SoldOf(orders))
  <1>1. SoldOf(orders') = SoldOf(orders) BY DEF SoldOf
  <1>2. IsFiniteSet(SoldOf(orders)) /\ SoldOf(orders) \subseteq Purchases
    BY PurchasesAssumption, FS_Subset DEF SoldOf
  <1>3. PICK f, h : f = Tickets(orders) /\ h = Tickets(orders') OBVIOUS
  <1>4. \A p \in SoldOf(orders) : f[p] \in Int /\ h[p] = f[p]
    BY <1>2, <1>3, QuantitiesAreNatural DEF Tickets, SoldOf
  <1>5. SumOf(h, SoldOf(orders)) = SumOf(f, SoldOf(orders)) BY <1>2, <1>4, SumsAgree
  <1> QED BY <1>1, <1>3, <1>5

LEMMA MoneyStays ==
    ASSUME GateInv, UNCHANGED <<funds, charged>>,
           \A p \in Purchases : orders'[p].user = orders[p].user
    PROVE  MoneyOfBuyers'
  <1>1. \A u \in Users : OrdersBy(orders', u) = OrdersBy(orders, u) BY DEF OrdersBy
  <1>2. ASSUME NEW u \in Users
        PROVE  funds'[u] + SumOf(charged', OrdersBy(orders', u)) = StartFunds
    BY <1>1 DEF GateInv, MoneyOfBuyers
  <1> QED BY <1>2 DEF MoneyOfBuyers

(* What leaves the product and the copies alone, and sells nothing.        *)
LEMMA CountsStay ==
    ASSUME GateInv, UNCHANGED <<product, copies, overwritten>>,
           \A p \in Purchases : /\ Sold(orders', p) <=> Sold(orders, p)
                                /\ Sold(orders, p) => orders'[p].quantity = orders[p].quantity
    PROVE  /\ (CountSound(product))'
           /\ (\A e \in Editors : CountSound(copies[e]))'
           /\ (product # Gate!NoProduct =>
                 /\ product.capacity # NoCapacity => product.sold <= product.capacity
                 /\ ~overwritten => product.sold = SumOf(Tickets(orders), SoldOf(orders)))'
  BY SalesStay DEF GateInv, CountSound

(* An action of a purchase that sells nothing: the order of p changes and  *)
(* the others stay.                                                        *)
LEMMA OrderStepIsSafe ==
    ASSUME GateInv, NEW p \in Purchases, Gate!TypeOK', OrderSound(p)',
           UNCHANGED <<product, copies, scans, admitted, overwritten>>,
           \A j \in Purchases : j # p =>
               orders'[j] = orders[j] /\ pc'[j] = pc[j] /\ charged'[j] = charged[j],
           Sold(orders', p) <=> Sold(orders, p),
           Sold(orders, p) => orders'[p].quantity = orders[p].quantity,
           MoneyOfBuyers',
           product # Gate!NoProduct \/ orders'[p].status = "none"
    PROVE  GateInv'
  <1>1. \A j \in Purchases : /\ Sold(orders', j) <=> Sold(orders, j)
                             /\ Sold(orders, j) => orders'[j].quantity = orders[j].quantity
    BY DEF Sold
  <1>2. ASSUME NEW j \in Purchases PROVE OrderSound(j)' BY DEF GateInv, OrderSound, Sold
  <1>3. (\A s \in Requests : scans[s] # NoPurchase => Sold(orders, scans[s]))'
    BY <1>1 DEF GateInv, Gate!TypeOK, Sold
  <1>4. (product = Gate!NoProduct => \A j \in Purchases : orders[j].status = "none")' BY DEF GateInv
  <1>5. /\ (CountSound(product))'
        /\ (\A e \in Editors : CountSound(copies[e]))'
        /\ (product # Gate!NoProduct =>
                 /\ product.capacity # NoCapacity => product.sold <= product.capacity
                 /\ ~overwritten => product.sold = SumOf(Tickets(orders), SoldOf(orders)))'
    BY <1>1, CountsStay
  <1> QED BY <1>2, <1>3, <1>4, <1>5 DEF GateInv

LEMMA CreateOrderIsSafe ==
    ASSUME GateInv, NEW p \in Purchases, NEW q \in Quantities, Gate!CreateOrder(p, q)
    PROVE  GateInv'
  <1>0. /\ pc[p] = "create" /\ orders[p].status = "none" /\ charged[p] = 0 /\ ~Sold(orders, p)
        /\ orders[p] \in Gate!Orders /\ Gate!TypeOK
    BY QuantitiesAreNatural DEF Gate!CreateOrder, GateInv, OrderSound, Sold
  <1>1. UNCHANGED <<product, funds, charged, copies, scans, admitted, edits, overwritten>>
    BY DEF Gate!CreateOrder
  <1>2. CASE /\ product # Gate!NoProduct
             /\ orders' = [orders EXCEPT ![p] =
                   [@ EXCEPT !.status = "PENDING", !.quantity = q, !.total = product.price * q]]
             /\ pc' = [pc EXCEPT ![p] = "pay"]
    <2>1. product.price * q \in Nat
      BY <1>0, <1>2, TicketsAssumed DEF Gate!TypeOK, Gate!Products, Gate!TicketsAssumption
    <2> DEFINE o == [orders[p] EXCEPT !.status = "PENDING", !.quantity = q,
                                      !.total = product.price * q]
    <2>2. o \in Gate!Orders /\ o.status = "PENDING" /\ o.user = orders[p].user
      BY <1>0, <2>1 DEF Gate!Orders
    <2>3. orders' = [orders EXCEPT ![p] = o] BY <1>2
    <2> HIDE DEF o
    <2>4. Gate!TypeOK' BY <1>0, <1>1, <1>2, <2>2, <2>3 DEF Gate!TypeOK
    <2>5. /\ orders'[p] = o /\ pc'[p] = "pay"
          /\ \A j \in Purchases : j # p => orders'[j] = orders[j] /\ pc'[j] = pc[j]
      BY <1>0, <1>2, <2>3 DEF Gate!TypeOK
    <2>6. MoneyOfBuyers' BY <1>1, <2>2, <2>5, MoneyStays
    <2>7. ~Sold(orders', p) BY <2>2, <2>5 DEF Sold
    <2>8. OrderSound(p)' BY <1>0, <1>1, <2>2, <2>5, <2>7 DEF GateInv, OrderSound, Sold
    <2> QED BY <1>0, <1>1, <1>2, <2>4, <2>5, <2>6, <2>7, <2>8, OrderStepIsSafe
  <1>3. CASE pc' = [pc EXCEPT ![p] = "refused"] /\ UNCHANGED orders
    <2>1. Gate!TypeOK' BY <1>0, <1>1, <1>3 DEF Gate!TypeOK
    <2>2. pc'[p] = "refused" /\ \A j \in Purchases : j # p => pc'[j] = pc[j]
      BY <1>0, <1>3 DEF Gate!TypeOK
    <2>3. MoneyOfBuyers' BY <1>1, <1>3, MoneyStays
    <2>4. OrderSound(p)' BY <1>0, <1>1, <1>3, <2>2 DEF GateInv, OrderSound, Sold
    <2> QED BY <1>0, <1>1, <1>3, <2>1, <2>2, <2>3, <2>4, OrderStepIsSafe
  <1> QED BY <1>2, <1>3 DEF Gate!CreateOrder

LEMMA StopIsSafe ==
    ASSUME GateInv, NEW p \in Purchases, Gate!Stop(p)
    PROVE  GateInv'
  <1>1. /\ UNCHANGED <<product, orders, funds, charged, copies, scans, admitted, edits,
                       overwritten>>
        /\ pc' = [pc EXCEPT ![p] = "stopped"] /\ orders[p].status = "PENDING"
    BY DEF Gate!Stop, GateInv, OrderSound
  <1>2. Gate!TypeOK' BY <1>1 DEF GateInv, Gate!TypeOK
  <1>3. pc'[p] = "stopped" /\ \A j \in Purchases : j # p => pc'[j] = pc[j]
    BY <1>1 DEF GateInv, Gate!TypeOK
  <1>4. MoneyOfBuyers' BY <1>1, MoneyStays
  <1>5. OrderSound(p)' BY <1>1, <1>3 DEF GateInv, OrderSound, Sold
  <1>6. product # Gate!NoProduct BY <1>1 DEF GateInv
  <1> QED BY <1>1, <1>2, <1>3, <1>4, <1>5, <1>6, OrderStepIsSafe

(* The second transaction: the buyer's money becomes the order's charge.   *)
LEMMA PayMoney ==
    ASSUME GateInv, NEW p \in Purchases, charged[p] = 0, Gate!Payable(p),
           funds' = [funds EXCEPT ![orders[p].user] = @ - orders[p].total],
           charged' = [charged EXCEPT ![p] = orders[p].total],
           UNCHANGED orders
    PROVE  MoneyOfBuyers' /\ charged' \in [Purchases -> Nat] /\ funds' \in [Users -> Nat]
  <1>1. PICK t \in Nat : t = orders[p].total BY QuantitiesAreNatural DEF GateInv
  <1>2. PICK v \in Users : v = orders[p].user BY QuantitiesAreNatural DEF GateInv, Gate!Orders
  <1>3. funds[v] \in Nat /\ t <= funds[v] BY <1>1, <1>2 DEF GateInv, Gate!TypeOK, Gate!Payable
  <1>4. /\ funds'[v] = funds[v] - t
        /\ \A u \in Users : u # v => funds'[u] = funds[u]
        /\ charged'[p] = t
        /\ \A j \in Purchases : j # p => charged'[j] = charged[j]
    BY <1>1, <1>2 DEF GateInv, Gate!TypeOK
  <1>5. charged' \in [Purchases -> Nat] /\ funds' \in [Users -> Nat]
    BY <1>1, <1>2, <1>3 DEF GateInv, Gate!TypeOK
  <1>6. charged \in [Purchases -> Nat] BY DEF GateInv, Gate!TypeOK
  <1>7. ASSUME NEW u \in Users
        PROVE  funds'[u] + SumOf(charged', OrdersBy(orders', u)) = StartFunds
    <2> DEFINE S == OrdersBy(orders, u)
    <2>1. OrdersBy(orders', u) = S /\ IsFiniteSet(S) /\ S \subseteq Purchases
          /\ (p \in S <=> u = v)
      BY <1>2, PurchasesAssumption, FS_Subset DEF OrdersBy
    <2>2. funds[u] + SumOf(charged, S) = StartFunds BY DEF GateInv, MoneyOfBuyers
    <2> HIDE DEF S
    <2>3. PICK f, h : f = charged /\ h = charged' OBVIOUS
    <2>4. \A j \in S : f[j] \in Int /\ h[j] \in Int BY <1>5, <1>6, <2>1, <2>3
    <2>5. SumOf(f, S) \in Int BY <2>1, <2>4, SumIsInteger
    <2>6. CASE u = v
      <3>1. p \in S /\ \A j \in S \ {p} : h[j] = f[j] BY <1>4, <2>1, <2>3, <2>6
      <3>2. SumOf(h, S) = SumOf(f, S) + (h[p] - f[p]) BY <2>1, <2>4, <3>1, SumChanges
      <3>3. h[p] = t /\ f[p] = 0 BY <1>4, <2>3
      <3>4. SumOf(h, S) = SumOf(f, S) + t BY <1>1, <2>5, <3>2, <3>3
      <3> QED BY <1>1, <1>3, <1>4, <2>1, <2>2, <2>3, <2>5, <2>6, <3>4
    <2>7. CASE u # v
      <3>1. \A j \in S : f[j] \in Int /\ h[j] = f[j] BY <1>4, <2>1, <2>3, <2>4, <2>7
      <3>2. SumOf(h, S) = SumOf(f, S) BY <2>1, <3>1, SumsAgree
      <3> QED BY <1>4, <2>1, <2>2, <2>3, <2>7, <3>2
    <2> QED BY <2>6, <2>7
  <1> QED BY <1>5, <1>7 DEF MoneyOfBuyers

LEMMA PayIsSafe ==
    ASSUME GateInv, NEW p \in Purchases, Gate!Pay(p)
    PROVE  GateInv'
  <1>0. /\ pc[p] = "pay" /\ orders[p].status = "PENDING" /\ charged[p] = 0 /\ ~Sold(orders, p)
        /\ orders[p] \in Gate!Orders /\ Gate!TypeOK
    BY QuantitiesAreNatural DEF Gate!Pay, GateInv, OrderSound, Sold
  <1>1. UNCHANGED <<product, copies, scans, admitted, edits, overwritten>> BY DEF Gate!Pay
  <1>2. product # Gate!NoProduct BY <1>0 DEF GateInv
  <1>3. CASE /\ Gate!Payable(p)
             /\ funds' = [funds EXCEPT ![orders[p].user] = @ - orders[p].total]
             /\ charged' = [charged EXCEPT ![p] = orders[p].total]
             /\ pc' = [pc EXCEPT ![p] = "confirm"]
             /\ UNCHANGED orders
    <2>1. MoneyOfBuyers' /\ charged' \in [Purchases -> Nat] /\ funds' \in [Users -> Nat]
      BY <1>0, <1>3, PayMoney
    <2>2. /\ pc'[p] = "confirm" /\ charged'[p] = orders[p].total
          /\ \A j \in Purchases : j # p => pc'[j] = pc[j] /\ charged'[j] = charged[j]
      BY <1>0, <1>3 DEF Gate!TypeOK
    <2>3. orders[p].total > 0 BY <1>3 DEF Gate!Payable
    <2>4. Gate!TypeOK' BY <1>0, <1>1, <1>3, <2>1 DEF Gate!TypeOK
    <2>5. OrderSound(p)' BY <1>0, <1>1, <1>3, <2>2, <2>3 DEF GateInv, OrderSound, Sold
    <2> QED BY <1>0, <1>1, <1>2, <1>3, <2>1, <2>2, <2>4, <2>5, OrderStepIsSafe
  <1>4. CASE Gate!Decline(p)
    <2> DEFINE o == [orders[p] EXCEPT !.status = "CANCELLED"]
    <2>1. o \in Gate!Orders /\ o.status = "CANCELLED" /\ o.user = orders[p].user
      BY <1>0 DEF Gate!Orders
    <2>2. orders' = [orders EXCEPT ![p] = o] /\ pc' = [pc EXCEPT ![p] = "refused"]
          /\ UNCHANGED <<funds, charged>>
      BY <1>4 DEF Gate!Decline
    <2> HIDE DEF o
    <2>3. Gate!TypeOK' BY <1>0, <1>1, <2>1, <2>2 DEF Gate!TypeOK
    <2>4. /\ orders'[p] = o /\ pc'[p] = "refused"
          /\ \A j \in Purchases : j # p => orders'[j] = orders[j] /\ pc'[j] = pc[j]
      BY <1>0, <2>2 DEF Gate!TypeOK
    <2>5. MoneyOfBuyers' BY <2>1, <2>2, <2>4, MoneyStays
    <2>6. ~Sold(orders', p) BY <2>1, <2>4 DEF Sold
    <2>7. OrderSound(p)' BY <1>0, <1>1, <2>1, <2>2, <2>4, <2>6 DEF GateInv, OrderSound, Sold
    <2> QED BY <1>0, <1>1, <1>2, <2>2, <2>3, <2>4, <2>5, <2>6, <2>7, OrderStepIsSafe
  <1> QED BY <1>3, <1>4 DEF Gate!Pay

(* Products are records with other columns than the missing one.           *)
LEMMA ProductsAreRows ==
    \A row \in Gate!Products : /\ row # Gate!NoProduct
                               /\ row.sold \in Nat /\ row.capacity \in Capacities
  BY DEF Gate!Products, Gate!NoProduct

(* A paid order adds its tickets to the sum.                               *)
LEMMA SaleAdds ==
    ASSUME Gate!TypeOK, NEW p \in Purchases, ~Sold(orders, p), Sold(orders', p),
           orders'[p].quantity = orders[p].quantity,
           \A j \in Purchases : j # p => orders'[j] = orders[j]
    PROVE  /\ SumOf(Tickets(orders'), SoldOf(orders'))
                = SumOf(Tickets(orders), SoldOf(orders)) + orders[p].quantity
           /\ orders[p].quantity \in Nat
           /\ SumOf(Tickets(orders), SoldOf(orders)) \in Nat
  <1> DEFINE S == SoldOf(orders)
             T == SoldOf(orders')
  <1>1. T = S \cup {p} /\ p \notin S /\ S \subseteq Purchases /\ p \in T /\ T \ {p} = S
    BY DEF SoldOf, Sold
  <1>2. IsFiniteSet(S) /\ IsFiniteSet(T)
    <2>1. S \subseteq Purchases /\ T \subseteq Purchases BY DEF SoldOf
    <2> HIDE DEF S, T
    <2> QED BY <2>1, PurchasesAssumption, FS_Subset
  <1>3. PICK f, h : f = Tickets(orders) /\ h = Tickets(orders') OBVIOUS
  <1>4. \A j \in Purchases : f[j] \in Nat /\ h[j] = f[j] BY <1>3, QuantitiesAreNatural DEF Tickets
  <1> HIDE DEF S, T
  <1>5. SumOf(h, T) = h[p] + SumOf(h, T \ {p})
    <2>1. \A j \in T : h[j] \in Int BY <1>1, <1>4
    <2> QED BY <1>1, <1>2, <2>1, TakeOut
  <1>6. SumOf(h, S) = SumOf(f, S) /\ SumOf(f, S) \in Nat
    <2>1. \A j \in S : f[j] \in Int /\ h[j] = f[j] /\ f[j] \in Nat BY <1>1, <1>4
    <2> QED BY <1>2, <2>1, SumsAgree, SumIsNatural
  <1>7. h[p] = orders[p].quantity /\ h[p] \in Nat BY <1>3, <1>4 DEF Tickets
  <1>8. SumOf(h, T) = h[p] + SumOf(f, S) BY <1>1, <1>5, <1>6
  <1>9. h[p] + SumOf(f, S) = SumOf(f, S) + orders[p].quantity BY <1>6, <1>7
  <1>10. SumOf(h, T) = SumOf(f, S) + orders[p].quantity BY <1>8, <1>9
  <1> QED BY <1>3, <1>6, <1>7, <1>10 DEF S, T

LEMMA ConfirmIsSafe ==
    ASSUME GateInv, NEW p \in Purchases, Gate!Confirm(p)
    PROVE  GateInv'
  <1>0. /\ pc[p] = "confirm" /\ orders[p].status = "PENDING" /\ ~Sold(orders, p)
        /\ charged[p] > 0 /\ charged[p] = orders[p].total
        /\ orders[p] \in Gate!Orders /\ Gate!TypeOK
    BY QuantitiesAreNatural DEF Gate!Confirm, GateInv, OrderSound, Sold
  <1>1. UNCHANGED <<funds, charged, copies, scans, admitted, edits, overwritten>>
    BY DEF Gate!Confirm
  <1>2. product # Gate!NoProduct /\ product \in Gate!Products BY <1>0 DEF GateInv, Gate!TypeOK
  <1>3. CASE Gate!ConfirmRefused(p)
    <2>1. pc' = [pc EXCEPT ![p] = "refused"] /\ UNCHANGED <<product, orders>>
      BY <1>3 DEF Gate!ConfirmRefused
    <2>2. Gate!TypeOK' BY <1>0, <1>1, <2>1 DEF Gate!TypeOK
    <2>3. pc'[p] = "refused" /\ \A j \in Purchases : j # p => pc'[j] = pc[j]
      BY <1>0, <2>1 DEF Gate!TypeOK
    <2>4. MoneyOfBuyers' BY <1>1, <2>1, MoneyStays
    <2>5. OrderSound(p)' BY <1>0, <1>1, <2>1, <2>3 DEF GateInv, OrderSound, Sold
    <2> QED BY <1>0, <1>1, <1>2, <2>1, <2>2, <2>3, <2>4, <2>5, OrderStepIsSafe
  <1>4. CASE /\ Gate!SaveAccepted(Gate!Sell(orders[p].quantity).sold,
                                  Gate!Sell(orders[p].quantity).capacity)
             /\ product' = Gate!Sell(orders[p].quantity)
             /\ orders' = [orders EXCEPT ![p].status = "PAID"]
             /\ pc' = [pc EXCEPT ![p] = "done"]
    <2>1. PICK q \in Nat : q = orders[p].quantity BY QuantitiesAreNatural, <1>0
    <2>2. product' \in Gate!Products /\ product'.sold = product.sold + q
          /\ product'.capacity = product.capacity
      <3>1. product.sold + q \in Nat BY <1>2, <2>1, ProductsAreRows
      <3> QED BY <1>2, <1>4, <2>1, <3>1 DEF Gate!Sell, Gate!Products, Gate!ProductStatuses
    <2> DEFINE o == [orders[p] EXCEPT !.status = "PAID"]
    <2>3. /\ o \in Gate!Orders /\ o.status = "PAID" /\ o.user = orders[p].user
          /\ o.quantity = q /\ o.total = orders[p].total
      BY <1>0, <2>1 DEF Gate!Orders
    <2>4. orders' = [orders EXCEPT ![p] = o] BY <1>4
    <2> HIDE DEF o
    <2>5. Gate!TypeOK' BY <1>0, <1>1, <1>4, <2>2, <2>3, <2>4 DEF Gate!TypeOK
    <2>6. /\ orders'[p] = o /\ pc'[p] = "done"
          /\ \A j \in Purchases : j # p => orders'[j] = orders[j] /\ pc'[j] = pc[j]
      BY <1>0, <1>4, <2>4 DEF Gate!TypeOK
    <2>7. Sold(orders', p) /\ \A j \in Purchases : Sold(orders, j) => Sold(orders', j)
      BY <2>3, <2>6 DEF Sold
    <2> DEFINE n == SumOf(Tickets(orders), SoldOf(orders))
               m == SumOf(Tickets(orders'), SoldOf(orders'))
    <2>8. m = n + q /\ n \in Nat BY <1>0, <2>1, <2>3, <2>6, <2>7, SaleAdds
    <2>9. MoneyOfBuyers' BY <1>1, <2>3, <2>6, MoneyStays
    <2>10. ASSUME NEW j \in Purchases PROVE OrderSound(j)'
      <3>1. CASE j = p BY <1>0, <1>1, <2>3, <2>6, <2>7, <3>1 DEF GateInv, OrderSound, Sold
      <3>2. CASE j # p BY <1>1, <2>6, <3>2 DEF GateInv, OrderSound, Sold
      <3> QED BY <3>1, <3>2
    <2>11. (\A s \in Requests : scans[s] # NoPurchase => Sold(orders, scans[s]))'
      BY <1>0, <1>1, <2>7 DEF GateInv, Gate!TypeOK, Sold
    <2>12. \A e \in Editors : copies[e] \in Gate!Products \cup {Gate!NoProduct}
      BY <1>0 DEF Gate!TypeOK
    <2> HIDE DEF n, m
    <2>13. ASSUME NEW e \in Editors, copies[e] # Gate!NoProduct PROVE copies[e].sold <= m
      <3>1. copies[e].sold <= n /\ copies[e].sold \in Nat
        BY <2>12, <2>13, ProductsAreRows DEF GateInv, CountSound, n
      <3> QED BY <2>1, <2>8, <3>1
    <2>14. (\A e \in Editors : CountSound(copies[e]))' BY <1>1, <2>13 DEF CountSound, m
    <2>15. product.sold <= n /\ product.sold \in Nat /\ (~overwritten => product.sold = n)
      BY <1>2, ProductsAreRows DEF GateInv, CountSound, n
    <2>16. product'.sold <= m /\ (~overwritten' => product'.sold = m)
      BY <1>1, <2>1, <2>2, <2>8, <2>15
    <2>17. product'.capacity # NoCapacity => product'.sold <= product'.capacity
      BY <1>4 DEF Gate!SaveAccepted
    <2>18. product' # Gate!NoProduct BY <2>2, ProductsAreRows
    <2> QED BY <2>5, <2>9, <2>10, <2>11, <2>14, <2>16, <2>17, <2>18 DEF GateInv, CountSound, m
  <1> QED BY <1>3, <1>4 DEF Gate!Confirm

(* An edit ends: the orders, the money and the scans stay.                 *)
LEMMA EditIsSafe ==
    ASSUME GateInv, NEW e \in Editors, Gate!EditEnds(e),
           product' \in Gate!Products \cup {Gate!NoProduct}, overwritten' \in BOOLEAN,
           product' = Gate!NoProduct => \A p \in Purchases : orders[p].status = "none",
           CountSound(product'),
           product' # Gate!NoProduct =>
               /\ product'.capacity # NoCapacity => product'.sold <= product'.capacity
               /\ ~overwritten' => product'.sold = SumOf(Tickets(orders), SoldOf(orders))
    PROVE  GateInv'
  <1>1. /\ copies' = [copies EXCEPT ![e] = Gate!NoProduct]
        /\ UNCHANGED <<orders, funds, charged, pc, scans, admitted, edits>>
    BY DEF Gate!EditEnds
  <1>2. Gate!TypeOK' BY <1>1 DEF GateInv, Gate!TypeOK
  <1>3. (\A d \in Editors : CountSound(copies[d]))' BY <1>1 DEF GateInv, Gate!TypeOK, CountSound
  <1>4. (\A p \in Purchases : OrderSound(p))' BY <1>1 DEF GateInv, OrderSound, Sold
  <1>5. (\A s \in Requests : scans[s] # NoPurchase => Sold(orders, scans[s]))'
    BY <1>1 DEF GateInv, Sold
  <1>6. MoneyOfBuyers' BY <1>1, MoneyStays
  <1>7. (CountSound(product))' BY <1>1 DEF CountSound
  <1> QED BY <1>1, <1>2, <1>3, <1>4, <1>5, <1>6, <1>7 DEF GateInv

LEMMA EditorsAreSafe ==
    ASSUME GateInv, NEW e \in Editors,
           \/ Gate!PublishProduct(e) \/ Gate!DeleteProduct(e) \/ Gate!EditRefused(e)
           \/ \E s \in Gate!ProductStatuses, c \in Capacities, cost \in Prices :
                 Gate!Patch(e, s, c, cost)
    PROVE  GateInv'
  <1>0. /\ product \in Gate!Products \cup {Gate!NoProduct} /\ overwritten \in BOOLEAN
        /\ copies[e] \in Gate!Products \cup {Gate!NoProduct}
    BY DEF GateInv, Gate!TypeOK
  <1>1. CASE Gate!PublishProduct(e)
    <2>1. Gate!EditEnds(e) /\ overwritten' = overwritten BY <1>1 DEF Gate!PublishProduct
    <2>2. CASE product' = product BY <1>0, <2>1, <2>2, EditIsSafe DEF GateInv
    <2>3. CASE product # Gate!NoProduct /\ product' = [product EXCEPT !.status = "ACTIVE"]
      <3>1. /\ product' \in Gate!Products
            /\ product'.sold = product.sold /\ product'.capacity = product.capacity
        BY <1>0, <2>3 DEF Gate!Products, Gate!ProductStatuses
      <3>2. product' # Gate!NoProduct BY <3>1, ProductsAreRows
      <3>3. CountSound(product') BY <2>3, <3>1 DEF GateInv, CountSound
      <3> QED BY <1>0, <2>1, <2>3, <3>1, <3>2, <3>3, EditIsSafe DEF GateInv
    <2> QED BY <1>1, <2>2, <2>3 DEF Gate!PublishProduct
  <1>2. CASE Gate!DeleteProduct(e) BY <1>0, <1>2, EditIsSafe DEF Gate!DeleteProduct, CountSound
  <1>3. CASE Gate!EditRefused(e) BY <1>0, <1>3, EditIsSafe DEF Gate!EditRefused, GateInv
  <1>4. ASSUME NEW s \in Gate!ProductStatuses, NEW c \in Capacities, NEW cost \in Prices,
               Gate!Patch(e, s, c, cost)
        PROVE  GateInv'
    <2>1. /\ Gate!EditEnds(e) /\ copies[e] # Gate!NoProduct
          /\ Gate!SaveAccepted(copies[e].sold, c)
          /\ product' = [copies[e] EXCEPT !.status = s, !.capacity = c, !.price = cost]
          /\ overwritten' = IF product = Gate!NoProduct THEN overwritten
                            ELSE overwritten \/ product.sold # copies[e].sold
      BY <1>4 DEF Gate!Patch, Gate!EditEnds
    <2>2. /\ product' \in Gate!Products /\ product'.sold = copies[e].sold
          /\ product'.capacity = c
      BY <1>0, <2>1 DEF Gate!Products
    <2>3. product' # Gate!NoProduct /\ overwritten' \in BOOLEAN BY <1>0, <2>1, <2>2, ProductsAreRows
    <2>4. CountSound(product') BY <2>1, <2>2 DEF GateInv, CountSound
    <2>5. product'.capacity # NoCapacity => product'.sold <= product'.capacity
      BY <2>1, <2>2 DEF Gate!SaveAccepted
    <2>6. ASSUME ~overwritten'
          PROVE  product'.sold = SumOf(Tickets(orders), SoldOf(orders))
      <3>1. CASE product # Gate!NoProduct BY <2>1, <2>2, <2>6, <3>1 DEF GateInv
      <3>2. CASE product = Gate!NoProduct
        <4>1. SoldOf(orders) = {} BY <3>2 DEF GateInv, SoldOf, Sold
        <4>2. SumOf(Tickets(orders), SoldOf(orders)) = 0 BY <4>1, SumOfNothing
        <4>3. copies[e].sold <= 0 /\ copies[e].sold \in Nat
          BY <1>0, <2>1, <4>2, ProductsAreRows DEF GateInv, CountSound
        <4> QED BY <2>2, <4>2, <4>3
      <3> QED BY <3>1, <3>2
    <2> QED BY <2>1, <2>2, <2>3, <2>4, <2>5, <2>6, EditIsSafe
  <1> QED BY <1>1, <1>2, <1>3, <1>4

LEMMA ReadProductIsSafe ==
    ASSUME GateInv, NEW e \in Editors, Gate!ReadProduct(e)
    PROVE  GateInv'
  <1>1. /\ copies' = [copies EXCEPT ![e] = product] /\ edits < MaxEdits /\ edits' = edits + 1
        /\ UNCHANGED <<product, orders, funds, charged, pc, scans, admitted, overwritten>>
    BY DEF Gate!ReadProduct
  <1>2. Gate!TypeOK' BY <1>1, TicketsAssumed DEF GateInv, Gate!TypeOK, Gate!TicketsAssumption
  <1>3. (\A d \in Editors : CountSound(copies[d]))' BY <1>1 DEF GateInv, Gate!TypeOK, CountSound
  <1>4. (\A p \in Purchases : OrderSound(p))' BY <1>1 DEF GateInv, OrderSound, Sold
  <1>5. (\A s \in Requests : scans[s] # NoPurchase => Sold(orders, scans[s]))'
    BY <1>1 DEF GateInv, Sold
  <1>6. MoneyOfBuyers' BY <1>1, MoneyStays
  <1>7. (CountSound(product))' BY <1>1 DEF GateInv, CountSound
  <1> QED BY <1>1, <1>2, <1>3, <1>4, <1>5, <1>6, <1>7 DEF GateInv

(* The scanners: an order that was read as paid stays paid until it is     *)
(* checked in, by whichever scanner.                                       *)
LEMMA ScanReadIsSafe ==
    ASSUME GateInv, NEW s \in Requests, NEW p \in Purchases, Gate!ScanRead(s, p)
    PROVE  GateInv'
  <1>1. /\ scans' = [scans EXCEPT ![s] = p] /\ Sold(orders, p)
        /\ UNCHANGED <<product, orders, funds, charged, pc, copies, admitted, edits, overwritten>>
    BY DEF Gate!ScanRead, Gate!MayCheckIn, Sold
  <1>2. Gate!TypeOK' BY <1>1 DEF GateInv, Gate!TypeOK
  <1>3. (\A t \in Requests : scans[t] # NoPurchase => Sold(orders, scans[t]))'
    BY <1>1 DEF GateInv, Gate!TypeOK, Sold
  <1>4. (\A j \in Purchases : OrderSound(j))' BY <1>1 DEF GateInv, OrderSound, Sold
  <1>5. MoneyOfBuyers' BY <1>1, MoneyStays
  <1>6. (CountSound(product))' /\ (\A d \in Editors : CountSound(copies[d]))'
    BY <1>1 DEF GateInv, CountSound
  <1> QED BY <1>1, <1>2, <1>3, <1>4, <1>5, <1>6 DEF GateInv

LEMMA CheckInIsSafe ==
    ASSUME GateInv, NEW s \in Requests, Gate!CheckIn(s)
    PROVE  GateInv'
  <1>1. PICK p \in Purchases : p = scans[s] /\ Sold(orders, p)
    BY DEF Gate!CheckIn, GateInv, Gate!TypeOK
  <1>2. /\ orders' = [orders EXCEPT ![p].status = "FULFILLED", ![p].checkedIn = TRUE]
        /\ admitted' = [admitted EXCEPT ![p] = @ + 1]
        /\ scans' = [scans EXCEPT ![s] = NoPurchase]
        /\ UNCHANGED <<product, funds, charged, pc, copies, edits, overwritten>>
    BY <1>1 DEF Gate!CheckIn
  <1> DEFINE o == [[orders[p] EXCEPT !.status = "FULFILLED"] EXCEPT !.checkedIn = TRUE]
  <1>3. /\ o \in Gate!Orders /\ o.status = "FULFILLED" /\ o.user = orders[p].user
        /\ o.quantity = orders[p].quantity /\ o.total = orders[p].total
    BY DEF GateInv, Gate!TypeOK, Gate!Orders
  <1>4. orders' = [orders EXCEPT ![p] = o] BY <1>1, <1>2 DEF GateInv, Gate!TypeOK
  <1> HIDE DEF o
  <1>5. Gate!TypeOK'
    <2>1. admitted' \in [Purchases -> Nat] /\ scans' \in [Requests -> Purchases \cup {NoPurchase}]
      BY <1>2 DEF GateInv, Gate!TypeOK
    <2>2. orders' \in [Purchases -> Gate!Orders] BY <1>3, <1>4 DEF GateInv, Gate!TypeOK
    <2> QED BY <1>2, <2>1, <2>2 DEF GateInv, Gate!TypeOK
  <1>6. orders'[p] = o /\ \A j \in Purchases : j # p => orders'[j] = orders[j]
    BY <1>4 DEF GateInv, Gate!TypeOK
  <1>7. \A j \in Purchases : /\ Sold(orders', j) <=> Sold(orders, j)
                             /\ Sold(orders, j) => orders'[j].quantity = orders[j].quantity
    BY <1>1, <1>3, <1>6 DEF Sold
  <1>8. /\ (CountSound(product))'
        /\ (\A e \in Editors : CountSound(copies[e]))'
        /\ (product # Gate!NoProduct =>
              /\ product.capacity # NoCapacity => product.sold <= product.capacity
              /\ ~overwritten => product.sold = SumOf(Tickets(orders), SoldOf(orders)))'
    BY <1>2, <1>7, CountsStay
  <1>9. ASSUME NEW j \in Purchases PROVE OrderSound(j)'
    <2>1. CASE j = p BY <1>1, <1>2, <1>3, <1>6, <1>7, <2>1 DEF GateInv, OrderSound, Sold
    <2>2. CASE j # p
      <3>1. admitted'[j] = admitted[j] BY <1>2, <2>2 DEF GateInv, Gate!TypeOK
      <3>2. orders'[j] = orders[j] BY <1>6, <2>2
      <3>3. OrderSound(j) BY DEF GateInv
      <3> QED BY <1>2, <3>1, <3>2, <3>3 DEF OrderSound, Sold
    <2> QED BY <2>1, <2>2
  <1>10. (\A t \in Requests : scans[t] # NoPurchase => Sold(orders, scans[t]))'
    BY <1>2, <1>7 DEF GateInv, Gate!TypeOK, Sold
  <1>11. MoneyOfBuyers' BY <1>2, <1>3, <1>6, MoneyStays
  <1>12. product # Gate!NoProduct BY <1>1 DEF Sold, GateInv
  <1> QED BY <1>2, <1>5, <1>8, <1>9, <1>10, <1>11, <1>12 DEF GateInv

LEMMA GateStutter == GateInv /\ UNCHANGED gateVars => GateInv'
  <1> SUFFICES ASSUME GateInv, UNCHANGED gateVars PROVE GateInv' OBVIOUS
  <1>1. Gate!TypeOK' BY DEF gateVars, GateInv, Gate!TypeOK
  <1>2. (\A j \in Purchases : OrderSound(j))' BY DEF gateVars, GateInv, OrderSound, Sold
  <1>3. MoneyOfBuyers' BY MoneyStays DEF gateVars
  <1>4. (CountSound(product))' /\ (\A d \in Editors : CountSound(copies[d]))'
    BY DEF gateVars, GateInv, CountSound
  <1> QED BY <1>1, <1>2, <1>3, <1>4 DEF gateVars, GateInv, Sold

LEMMA GateNext == GateInv /\ Gate!Next => GateInv'
  <1> SUFFICES ASSUME GateInv, Gate!Next PROVE GateInv' OBVIOUS
  <1>1. ASSUME NEW p \in Purchases,
               \/ \E q \in Quantities : Gate!CreateOrder(p, q)
               \/ Gate!Pay(p) \/ Gate!Confirm(p) \/ Gate!Stop(p)
        PROVE  GateInv'
    BY <1>1, CreateOrderIsSafe, PayIsSafe, ConfirmIsSafe, StopIsSafe
  <1>2. ASSUME NEW e \in Editors,
               \/ Gate!ReadProduct(e) \/ Gate!PublishProduct(e) \/ Gate!DeleteProduct(e)
               \/ Gate!EditRefused(e)
               \/ \E s \in Gate!ProductStatuses, c \in Capacities, cost \in Prices :
                     Gate!Patch(e, s, c, cost)
        PROVE  GateInv'
    BY <1>2, ReadProductIsSafe, EditorsAreSafe
  <1>3. ASSUME NEW s \in Requests,
               Gate!CheckIn(s) \/ \E p \in Purchases : Gate!ScanRead(s, p)
        PROVE  GateInv'
    BY <1>3, CheckInIsSafe, ScanReadIsSafe
  <1> QED BY <1>1, <1>2, <1>3 DEF Gate!Next

-----------------------------------------------------------------------------
(* The store's own invariant, of both stores checked here.                 *)
LEMMA ShopsAssumed == Cart!StoreAssumption /\ Stock!StoreAssumption
  <1>1. IsFiniteSet({1}) /\ IsFiniteSet({1, 2})
    <2>1. IsFiniteSet({1}) BY FS_Singleton
    <2>2. IsFiniteSet({1} \cup {2}) BY <2>1, FS_AddElement
    <2>3. {1} \cup {2} = {1, 2} OBVIOUS
    <2> QED BY <2>1, <2>2, <2>3
  <1>2. {1} \subseteq Nat /\ {1, 2} \subseteq Nat /\ 1 \in Nat /\ 2 \in Nat OBVIOUS
  <1>3. \A S : IsFiniteSet(S) => Cart!IsFiniteSet(S) /\ Stock!IsFiniteSet(S)
    BY DEF IsFiniteSet, Cart!IsFiniteSet, Stock!IsFiniteSet
  <1>4. Cart!StoreAssumption BY <1>1, <1>2, <1>3, ShopAssumption DEF Cart!StoreAssumption
  <1>5. Stock!StoreAssumption BY <1>1, <1>2, <1>3, ShopAssumption DEF Stock!StoreAssumption
  <1> QED BY <1>4, <1>5

LEMMA CartKept ==
    /\ Cart!Init => Cart!StoreInv
    /\ Cart!StoreInv /\ (Cart!Next \/ UNCHANGED cartVars) => Cart!StoreInv'
    /\ Cart!StoreInv => Cart!ReservedBacksOrders /\ Cart!OrdersArePaid
  <1>1. Cart!Init => Cart!StoreInv BY ShopsAssumed, Cart!StoreInit
  <1>2. Cart!StoreInv /\ Cart!Next => Cart!StoreInv' BY ShopsAssumed, Cart!StoreNext
  <1>3. Cart!StoreInv /\ UNCHANGED cartVars => Cart!StoreInv'
    BY Cart!StoreStutter DEF cartVars, Cart!vars
  <1>4. Cart!StoreInv => Cart!ReservedBacksOrders /\ Cart!OrdersArePaid
    BY ShopsAssumed, Cart!StoreInvSays
  <1> QED BY <1>1, <1>2, <1>3, <1>4

LEMMA StockKept ==
    /\ Stock!Init => Stock!StoreInv
    /\ Stock!StoreInv /\ (Stock!Next \/ UNCHANGED cartVars) => Stock!StoreInv'
    /\ Stock!StoreInv => Stock!ReservedBacksOrders /\ Stock!OrdersArePaid
  <1>1. Stock!Init => Stock!StoreInv BY ShopsAssumed, Stock!StoreInit
  <1>2. Stock!StoreInv /\ Stock!Next => Stock!StoreInv' BY ShopsAssumed, Stock!StoreNext
  <1>3. Stock!StoreInv /\ UNCHANGED cartVars => Stock!StoreInv'
    BY Stock!StoreStutter DEF cartVars, Stock!vars
  <1>4. Stock!StoreInv => Stock!ReservedBacksOrders /\ Stock!OrdersArePaid
    BY ShopsAssumed, Stock!StoreInvSays
  <1> QED BY <1>1, <1>2, <1>3, <1>4

-----------------------------------------------------------------------------
(* Recent views: a request that has read the count holds the row of the    *)
(* user, so nobody else counts before it writes; a removal takes no lock,  *)
(* and what it leaves is no row.                                           *)
InterestCalls ==
    [pc : {"idle", "locked", "read", "missing", "committed", "answered", "error"},
     kind : Interest!Kinds \cup {None}, market : {"market", None}, seen : Int \cup {None}]
Holds(r) == callsOfInterest[r].pc \in {"locked", "read"}
HasRead(r) ==
    callsOfInterest[r].pc = "read" /\ callsOfInterest[r].kind = "view" =>
        recent[callsOfInterest[r].market] \in {None, callsOfInterest[r].seen}
InterestInv ==
    /\ visible \subseteq {"market"}
    /\ recent \in [{"market"} -> Int \cup {None}]
    /\ viewed \in [{"market"} -> Int]
    /\ callsOfInterest \in [Requests -> InterestCalls]
    /\ \A r, s \in Requests : Holds(r) /\ Holds(s) => r = s
    /\ \A r \in Requests : Holds(r) => callsOfInterest[r].market = "market"
    /\ \A r \in Requests : HasRead(r)
    /\ Interest!ViewsAreCounted

LEMMA InterestInit == Interest!Init => InterestInv
  BY DEF Interest!Init, Interest!Idle, InterestInv, InterestCalls, Holds, HasRead,
         Interest!ViewsAreCounted

(* What one request does: it takes the lock, reads, writes or answers.     *)
LEMMA RequestsCount ==
    ASSUME InterestInv, NEW r \in Requests,
           \/ \E kind \in Interest!Kinds, m \in {"market"} : Interest!Lock(r, kind, m)
           \/ Interest!Read(r) \/ Interest!Follow(r) \/ Interest!RecordView(r)
           \/ Interest!Answer(r) \/ Interest!Done(r)
    PROVE  InterestInv'
  <1> DEFINE c == callsOfInterest[r]
  <1>1. c \in InterestCalls /\ Holds(r) = (c.pc \in {"locked", "read"}) BY DEF InterestInv, Holds
  <1>2. ASSUME NEW d \in InterestCalls,
               callsOfInterest' = [callsOfInterest EXCEPT ![r] = d],
               d.pc \in {"locked", "read"} =>
                   /\ Holds(r) \/ \A q \in Requests : ~Holds(q)
                   /\ d.market = "market",
               UNCHANGED visible,
               recent' \in [{"market"} -> Int \cup {None}], viewed' \in [{"market"} -> Int],
               UNCHANGED recent \/ Holds(r),
               d.pc = "read" /\ d.kind = "view" => recent'[d.market] \in {None, d.seen},
               recent'["market"] # None => recent'["market"] = viewed'["market"]
        PROVE  InterestInv'
    <2>1. /\ callsOfInterest' \in [Requests -> InterestCalls] /\ callsOfInterest'[r] = d
          /\ \A q \in Requests \ {r} : callsOfInterest'[q] = callsOfInterest[q]
      BY <1>2 DEF InterestInv
    <2>2. \A q \in Requests \ {r} : Holds(q)' = Holds(q) BY <2>1 DEF Holds
    <2>3. Holds(r)' = (d.pc \in {"locked", "read"}) BY <2>1 DEF Holds
    <2>4. \A q, s \in Requests : Holds(q)' /\ Holds(s)' => q = s BY <1>2, <2>2, <2>3 DEF InterestInv
    <2>5. \A q \in Requests : Holds(q)' => callsOfInterest'[q].market = "market"
      BY <1>2, <2>1, <2>2, <2>3 DEF InterestInv
    <2>6. ASSUME NEW q \in Requests PROVE HasRead(q)'
      <3>1. CASE q = r BY <1>2, <2>1, <3>1 DEF HasRead
      <3>2. CASE q # r BY <1>2, <2>1, <3>2 DEF InterestInv, HasRead, Holds
      <3> QED BY <3>1, <3>2
    <2>7. Interest!ViewsAreCounted' BY <1>2 DEF Interest!ViewsAreCounted
    <2> QED BY <1>2, <2>1, <2>4, <2>5, <2>6, <2>7 DEF InterestInv
  <1>3. ASSUME NEW kind \in Interest!Kinds, NEW m \in {"market"}, Interest!Lock(r, kind, m)
        PROVE  InterestInv'
    <2> DEFINE d == [pc |-> "locked", kind |-> kind, market |-> m, seen |-> None]
    <2>1. d \in InterestCalls /\ d.pc = "locked" /\ d.market = "market" BY DEF InterestCalls
    <2>2. callsOfInterest' = [callsOfInterest EXCEPT ![r] = d] BY <1>3, Zenon DEF Interest!Lock
    <2> HIDE DEF d
    <2>3. UNCHANGED <<visible, recent, viewed>> /\ \A q \in Requests : ~Holds(q)
      BY <1>3 DEF Interest!Lock, Interest!UserFree, Holds
    <2> QED BY <1>2, <2>1, <2>2, <2>3 DEF InterestInv, Interest!ViewsAreCounted
  <1>4. CASE Interest!Read(r)
    <2> DEFINE d == IF c.market \in visible
                    THEN [c EXCEPT !.pc = "read", !.seen = Interest!Seen(c.kind, c.market)]
                    ELSE [c EXCEPT !.pc = "missing"]
    <2>1. callsOfInterest' = [callsOfInterest EXCEPT ![r] = d]
      BY <1>4 DEF Interest!Read, InterestInv
    <2>2. c.pc = "locked" /\ Holds(r) /\ c.market = "market"
          /\ UNCHANGED <<visible, recent, viewed>>
      BY <1>1, <1>4 DEF Interest!Read, InterestInv
    <2>3. Interest!Seen(c.kind, c.market) \in Int \cup {None}
          /\ (c.kind = "view" => Interest!Seen(c.kind, c.market) = recent["market"])
      BY <2>2 DEF Interest!Seen, InterestInv
    <2>4. d \in InterestCalls /\ d.market = "market"
          /\ d.pc \in {"read", "missing"}
          /\ (d.pc = "read" /\ d.kind = "view" => d.seen = recent["market"])
      BY <1>1, <2>2, <2>3 DEF InterestCalls
    <2> HIDE DEF c, d
    <2> QED BY <1>2, <2>1, <2>2, <2>4 DEF InterestInv, Interest!ViewsAreCounted
  <1>5. ASSUME NEW step \in {"committed", "answered", "error"},
               callsOfInterest' = [callsOfInterest EXCEPT ![r].pc = step],
               UNCHANGED <<visible, recent, viewed>>
        PROVE  InterestInv'
    <2> DEFINE d == [c EXCEPT !.pc = step]
    <2>1. d \in InterestCalls /\ d.pc = step BY <1>1 DEF InterestCalls
    <2>2. callsOfInterest' = [callsOfInterest EXCEPT ![r] = d] BY <1>5 DEF InterestInv
    <2> HIDE DEF c, d
    <2> QED BY <1>2, <1>5, <2>1, <2>2 DEF InterestInv, Interest!ViewsAreCounted
  <1>6. CASE Interest!Follow(r) BY <1>5, <1>6 DEF Interest!Follow
  <1>7. CASE Interest!Answer(r) BY <1>5, <1>7 DEF Interest!Answer
  <1>8. CASE Interest!Done(r)
    <2>1. Interest!Idle \in InterestCalls /\ Interest!Idle.pc = "idle"
      BY DEF InterestCalls, Interest!Idle
    <2>2. callsOfInterest' = [callsOfInterest EXCEPT ![r] = Interest!Idle]
          /\ UNCHANGED <<visible, recent, viewed>>
      BY <1>8 DEF Interest!Done
    <2> QED BY <1>2, <2>1, <2>2 DEF InterestInv, Interest!ViewsAreCounted
  <1>9. CASE Interest!RecordView(r)
    <2>1. c.pc = "read" /\ c.kind = "view" /\ Holds(r) /\ c.market = "market"
          /\ recent["market"] \in {None, c.seen} /\ UNCHANGED visible
      BY <1>1, <1>9 DEF Interest!RecordView, InterestInv, HasRead
    <2> DEFINE d == [c EXCEPT !.pc = "committed"]
    <2>2. d \in InterestCalls /\ d.pc = "committed" BY <1>1 DEF InterestCalls
    <2>3. ASSUME callsOfInterest' = [callsOfInterest EXCEPT ![r].pc = "committed"],
                 NEW n \in Int, NEW v \in Int, n = v,
                 recent' = [recent EXCEPT !["market"] = n],
                 viewed' = [viewed EXCEPT !["market"] = v]
          PROVE  InterestInv'
      <3>1. callsOfInterest' = [callsOfInterest EXCEPT ![r] = d] BY <2>3 DEF InterestInv
      <3>2. /\ recent' \in [{"market"} -> Int \cup {None}] /\ recent'["market"] = n
            /\ viewed' \in [{"market"} -> Int] /\ viewed'["market"] = v
        BY <2>3 DEF InterestInv
      <3> HIDE DEF c, d
      <3> QED BY <1>2, <2>1, <2>2, <2>3, <3>1, <3>2
    <2>4. CASE c.seen = None BY <1>9, <2>1, <2>3, <2>4 DEF Interest!RecordView
    <2>5. CASE c.seen # None /\ recent["market"] # None
      <3>1. c.seen \in Int /\ recent["market"] = c.seen /\ viewed["market"] = c.seen
        BY <1>1, <2>1, <2>5 DEF InterestCalls, InterestInv, Interest!ViewsAreCounted
      <3>2. /\ recent' = [recent EXCEPT !["market"] = c.seen + 1]
            /\ viewed' = [viewed EXCEPT !["market"] = viewed["market"] + 1]
            /\ callsOfInterest' = [callsOfInterest EXCEPT ![r].pc = "committed"]
        BY <1>9, <2>1, <2>5 DEF Interest!RecordView, InterestInv
      <3>3. PICK n \in Int : n = c.seen + 1 BY <3>1
      <3> QED BY <2>3, <3>1, <3>2, <3>3
    <2>6. CASE c.seen # None /\ recent["market"] = None
      <3>1. callsOfInterest' = [callsOfInterest EXCEPT ![r].pc = "error"]
            /\ UNCHANGED <<visible, recent, viewed>>
        BY <1>9, <2>1, <2>6 DEF Interest!RecordView
      <3> QED BY <1>5, <3>1
    <2> QED BY <2>4, <2>5, <2>6
  <1> QED BY <1>3, <1>4, <1>6, <1>7, <1>8, <1>9

LEMMA InterestNext == InterestInv /\ Interest!Next => InterestInv'
  <1> SUFFICES ASSUME InterestInv, Interest!Next PROVE InterestInv' OBVIOUS
  <1>1. ASSUME \/ \E m \in {"market"} : Interest!Unfollow(m) \/ Interest!Turn(m)
        PROVE  InterestInv'
    BY <1>1 DEF Interest!Unfollow, Interest!Turn, InterestInv, Holds, HasRead,
                Interest!ViewsAreCounted
  <1>2. ASSUME NEW S \in {{"market"}}, Interest!Forget(S) PROVE InterestInv'
    BY <1>2 DEF Interest!Forget, InterestInv, Holds, HasRead, Interest!ViewsAreCounted
  <1>3. Interest!Clear => InterestInv' BY <1>2 DEF Interest!Clear
  <1>4. \A m \in {"market"} : Interest!Remove(m) => InterestInv' BY <1>2 DEF Interest!Remove
  <1> QED BY <1>1, <1>3, <1>4, RequestsCount DEF Interest!Next

LEMMA InterestStutter == InterestInv /\ UNCHANGED interestVars => InterestInv'
  BY DEF InterestInv, interestVars, Holds, HasRead, Interest!ViewsAreCounted

-----------------------------------------------------------------------------
(* The catalogue: an edit that wrote over nothing has read a draft, as it  *)
(* still is, and the event of its group.                                   *)
EditsRead == [was : Catalogue!Market, groupEvent : {1, 2, None}, event : {1, 2}, content : 0..2]
CatalogueInv ==
    /\ Catalogue!TypeOK
    /\ editing \in [{"editor"} -> EditsRead \cup {None}]
    /\ issued \in Seq({1, 2} \X {0, 1})
    /\ \A e \in {"editor"} : editing[e] # None => Catalogue!Editable(editing[e].was.status)
    /\ Catalogue!ReviewedAsApproved

LEMMA CatalogueInit == Catalogue!Init => CatalogueInv
  <1> SUFFICES ASSUME Catalogue!Init PROVE CatalogueInv OBVIOUS
  <1>1. market \in Catalogue!Market /\ market.status = "DRAFT" /\ market.group = None
    BY DEF Catalogue!Init, Catalogue!Market, Catalogue!Statuses
  <1>2. groups \in [{"group"} -> [event : {1, 2} \cup {None}, status : Catalogue!GroupStatuses]]
    BY DEF Catalogue!Init, Catalogue!GroupStatuses
  <1>3. /\ price \in {1, 2} /\ amount \in {0, 1} /\ issued = <<>> /\ editing = [e \in {"editor"} |-> None]
        /\ stale = FALSE /\ editsOfCatalogue = 0 /\ turns = 0
    BY DEF Catalogue!Init
  <1>4. Catalogue!TypeOK
    <2>1. /\ \A i \in DOMAIN issued : issued[i] \in {1, 2} \X {0, 1}
          /\ \A e \in {"editor"} : editing[e] = None
      BY <1>3
    <2>2. stale \in BOOLEAN BY <1>3
    <2>3. editsOfCatalogue \in 0..2 /\ turns \in 0..6 BY <1>3
    <2>4. price \in {1, 2} /\ amount \in {0, 1} /\ market \in Catalogue!Market BY <1>1, <1>3
    <2> QED BY <1>2, <2>1, <2>2, <2>3, <2>4 DEF Catalogue!TypeOK
  <1>5. Catalogue!ReviewedAsApproved
    BY <1>1, <1>3 DEF Catalogue!GroupEvent, Catalogue!ReviewedAsApproved, Catalogue!Fits
  <1> QED BY <1>3, <1>4, <1>5 DEF CatalogueInv

(* An edit is read, and written as a whole.                                *)
LEMMA EditsFit ==
    ASSUME CatalogueInv, NEW e \in {"editor"},
           Catalogue!SaveEdit(e) \/ \E v \in {1, 2} : Catalogue!ReadForEdit(e, v)
    PROVE  CatalogueInv'
  <1> DEFINE x == editing[e]
  <1>1. CASE Catalogue!SaveEdit(e)
    <2>1. x \in EditsRead /\ x # None /\ Catalogue!Editable(x.was.status)
          /\ editing' = [editing EXCEPT ![e] = None]
          /\ UNCHANGED <<groups, price, issued, editsOfCatalogue, turns>>
      BY <1>1 DEF Catalogue!SaveEdit, CatalogueInv
    <2>2. editing' \in [{"editor"} -> EditsRead \cup {None}]
          /\ \A f \in {"editor"} : editing'[f] = None
      BY <2>1 DEF CatalogueInv
    <2>3. CASE Catalogue!Fits(x.event, x.groupEvent)
      <3> DEFINE new == [x.was EXCEPT !.content = x.content, !.event = x.event]
      <3>1. /\ market' = new /\ amount' \in {0, 1}
            /\ stale' = (stale \/ x.was # market \/ x.groupEvent # Catalogue!GroupEvent(market))
        BY <1>1, <2>3 DEF Catalogue!SaveEdit
      <3>2. /\ new \in Catalogue!Market /\ new.status = x.was.status
            /\ new.group = x.was.group /\ new.event = x.event
        BY <2>1 DEF EditsRead, Catalogue!Market
      <3> HIDE DEF x, new
      <3>3. ASSUME ~stale'
            PROVE  Catalogue!Fits(market.event, Catalogue!GroupEvent(market))'
        <4>1. x.groupEvent = Catalogue!GroupEvent(market) /\ x.was = market BY <3>1, <3>3
        <4>2. Catalogue!GroupEvent(market)' = Catalogue!GroupEvent(market)
          BY <2>1, <3>1, <3>2, <4>1 DEF Catalogue!GroupEvent
        <4> QED BY <2>3, <3>1, <3>2, <4>1, <4>2 DEF Catalogue!Fits
      <3>4. market'.status \notin {"APPROVED", "OPEN"} BY <2>1, <3>1, <3>2 DEF Catalogue!Editable
      <3>5. stale' \in BOOLEAN BY <3>1 DEF CatalogueInv, Catalogue!TypeOK
      <3> QED BY <2>1, <2>2, <3>1, <3>2, <3>3, <3>4, <3>5
           DEF CatalogueInv, Catalogue!TypeOK, Catalogue!ReviewedAsApproved
    <2>4. CASE ~Catalogue!Fits(x.event, x.groupEvent)
      <3>1. UNCHANGED <<market, stale, amount>> BY <1>1, <2>4 DEF Catalogue!SaveEdit
      <3> QED
        BY <2>1, <2>2, <3>1 DEF CatalogueInv, Catalogue!TypeOK,
           Catalogue!ReviewedAsApproved, Catalogue!Fits, Catalogue!GroupEvent
    <2> QED BY <2>3, <2>4
  <1>2. ASSUME NEW v \in {1, 2}, Catalogue!ReadForEdit(e, v) PROVE CatalogueInv'
    <2> DEFINE y == [was |-> market, groupEvent |-> Catalogue!GroupEvent(market), event |-> v,
                     content |-> editsOfCatalogue + 1]
    <2>1. /\ Catalogue!Editable(market.status) /\ editing' = [editing EXCEPT ![e] = y]
          /\ editsOfCatalogue < 2 /\ editsOfCatalogue' = editsOfCatalogue + 1
          /\ UNCHANGED <<market, groups, price, amount, issued, stale, turns>>
      BY <1>2 DEF Catalogue!ReadForEdit
    <2>2. Catalogue!GroupEvent(market) \in {1, 2, None}
      BY DEF CatalogueInv, Catalogue!TypeOK, Catalogue!Market, Catalogue!GroupEvent
    <2>3. editsOfCatalogue' \in 0..2 BY <2>1 DEF CatalogueInv, Catalogue!TypeOK
    <2>4. y \in EditsRead /\ y.was = market
      BY <2>1, <2>2, <2>3 DEF EditsRead, CatalogueInv, Catalogue!TypeOK
    <2> HIDE DEF y
    <2>5. editing' \in [{"editor"} -> EditsRead \cup {None}]
          /\ \A f \in {"editor"} : editing'[f] # None => editing'[f] = y
      BY <2>1, <2>4 DEF CatalogueInv
    <2>6. \A f \in {"editor"} : editing'[f] = None \/ editing'[f].was \in Catalogue!Market
      BY <2>4, <2>5 DEF CatalogueInv, Catalogue!TypeOK
    <2> QED
      BY <2>1, <2>3, <2>4, <2>5, <2>6 DEF CatalogueInv, Catalogue!TypeOK,
         Catalogue!ReviewedAsApproved, Catalogue!Fits, Catalogue!GroupEvent
  <1> QED BY <1>1, <1>2

(* A transition: what is approved is what the market says then.            *)
LEMMA MovesFit ==
    ASSUME CatalogueInv, NEW from, NEW to \in Catalogue!Statuses,
           NEW approved \in (0..2) \cup {None},
           to \in {"APPROVED", "OPEN"} /\ ~stale => approved = market.content,
           Catalogue!Moves(from, to, approved),
           issued' \in Seq({1, 2} \X {0, 1}), Len(issued') <= 1
    PROVE  CatalogueInv'
  <1>1. /\ market' = [market EXCEPT !.status = to, !.approved = approved]
        /\ turns < 6 /\ turns' = turns + 1
        /\ UNCHANGED <<groups, price, amount, editing, stale, editsOfCatalogue>>
    BY DEF Catalogue!Moves, Catalogue!Turn
  <1>2. /\ market' \in Catalogue!Market /\ market'.status = to /\ market'.approved = approved
        /\ market'.content = market.content /\ market'.event = market.event
        /\ market'.group = market.group
    BY <1>1 DEF CatalogueInv, Catalogue!TypeOK, Catalogue!Market
  <1>3. turns' \in 0..6 BY <1>1 DEF CatalogueInv, Catalogue!TypeOK
  <1>4. Catalogue!GroupEvent(market)' = Catalogue!GroupEvent(market)
    BY <1>1, <1>2 DEF Catalogue!GroupEvent
  <1>5. Catalogue!ReviewedAsApproved'
    BY <1>1, <1>2, <1>4 DEF CatalogueInv, Catalogue!ReviewedAsApproved, Catalogue!Fits
  <1>6. \A i \in DOMAIN issued' : issued'[i] \in {1, 2} \X {0, 1} OBVIOUS
  <1> QED BY <1>1, <1>2, <1>3, <1>5, <1>6 DEF CatalogueInv, Catalogue!TypeOK

LEMMA LifecycleFits ==
    ASSUME CatalogueInv,
           \/ Catalogue!Submit \/ Catalogue!Approve \/ Catalogue!Reject
           \/ Catalogue!RevertToDraft \/ Catalogue!Open
    PROVE  CatalogueInv'
  <1>1. /\ {"DRAFT", "REJECTED", "PENDING_APPROVAL", "APPROVED", "OPEN"} = Catalogue!Statuses
        /\ market.content \in 0..2 /\ market.approved \in (0..2) \cup {None}
        /\ issued \in Seq({1, 2} \X {0, 1}) /\ Len(issued) <= 1
    BY DEF Catalogue!Statuses, CatalogueInv, Catalogue!TypeOK, Catalogue!Market,
           Catalogue!ReviewedAsApproved
  <1>2. CASE Catalogue!Submit BY <1>1, <1>2, MovesFit DEF Catalogue!Submit
  <1>3. CASE Catalogue!Approve BY <1>1, <1>3, MovesFit DEF Catalogue!Approve
  <1>4. CASE Catalogue!Reject BY <1>1, <1>4, MovesFit DEF Catalogue!Reject
  <1>5. CASE Catalogue!RevertToDraft BY <1>1, <1>5, MovesFit DEF Catalogue!RevertToDraft
  <1>6. CASE Catalogue!Open
    <2>1. issued' \in Seq({1, 2} \X {0, 1}) /\ Len(issued') <= 1
      <3>1. CASE amount = 0 \/ issued # <<>>
        BY <1>1, <1>6, <3>1 DEF Catalogue!Open, Catalogue!Issued
      <3>2. CASE amount # 0 /\ issued = <<>>
        <4>1. issued' = <<<<price, amount>>>> BY <1>6, <3>2 DEF Catalogue!Open, Catalogue!Issued
        <4> QED BY <4>1 DEF CatalogueInv, Catalogue!TypeOK
      <3> QED BY <3>1, <3>2
    <2>2. Catalogue!Moves({"APPROVED"}, "OPEN", market.approved) BY <1>6 DEF Catalogue!Open
    <2>3. ~stale => market.approved = market.content
      BY <2>2 DEF Catalogue!Moves, CatalogueInv, Catalogue!ReviewedAsApproved
    <2> QED BY <1>1, <2>1, <2>2, <2>3, MovesFit
  <1> QED BY <1>2, <1>3, <1>4, <1>5, <1>6

(* The group: its event, its publication, and whether the market is in it. *)
LEMMA GroupsFit ==
    ASSUME CatalogueInv, NEW g \in {"group"},
           \/ Catalogue!Publish(g) \/ Catalogue!Archive(g) \/ Catalogue!AttachMarket(g)
           \/ Catalogue!DetachMarket(g) \/ \E v \in {1, 2} \cup {None} : Catalogue!UpdateGroup(g, v)
    PROVE  CatalogueInv'
  <1>1. turns < 6 /\ turns' = turns + 1 => turns' \in 0..6 BY DEF CatalogueInv, Catalogue!TypeOK
  <1>2. ASSUME NEW n \in Catalogue!GroupStatuses, NEW v \in {1, 2, None},
               groups' = [groups EXCEPT ![g] = [event |-> v, status |-> n]],
               v = groups[g].event \/ (market.group = g => v = market.event),
               turns' \in 0..6,
               UNCHANGED <<market, price, amount, issued, editing, stale, editsOfCatalogue>>
        PROVE  CatalogueInv'
    <2>1. /\ groups' \in [{"group"} -> [event : {1, 2} \cup {None}, status : Catalogue!GroupStatuses]]
          /\ groups'["group"].event = v
      BY <1>2 DEF CatalogueInv, Catalogue!TypeOK
    <2>2. market.group \in {"group", None} BY DEF CatalogueInv, Catalogue!TypeOK, Catalogue!Market
    <2>3. ~stale => Catalogue!Fits(market.event, Catalogue!GroupEvent(market))'
      BY <1>2, <2>1, <2>2 DEF CatalogueInv, Catalogue!ReviewedAsApproved, Catalogue!Fits,
         Catalogue!GroupEvent
    <2> QED BY <1>2, <2>1, <2>3 DEF CatalogueInv, Catalogue!TypeOK, Catalogue!ReviewedAsApproved
  <1>3. PICK old \in [event : {1, 2, None}, status : Catalogue!GroupStatuses] : old = groups[g]
    BY DEF CatalogueInv, Catalogue!TypeOK
  <1>4. ASSUME NEW m \in {"group", None}, Catalogue!Turn, Catalogue!SetGroup(m),
               m # None => groups[m].event = market.event
        PROVE  CatalogueInv'
    <2>1. /\ market' = [market EXCEPT !.group = m] /\ turns' \in 0..6
          /\ UNCHANGED <<groups, price, amount, issued, editing, stale, editsOfCatalogue>>
      BY <1>1, <1>4 DEF Catalogue!SetGroup, Catalogue!Turn
    <2>2. /\ market' \in Catalogue!Market /\ market'.group = m /\ market'.status = market.status
          /\ market'.event = market.event /\ market'.content = market.content
          /\ market'.approved = market.approved
      BY <2>1 DEF CatalogueInv, Catalogue!TypeOK, Catalogue!Market
    <2>3. Catalogue!Fits(market.event, Catalogue!GroupEvent(market))'
      BY <1>4, <2>1, <2>2 DEF Catalogue!Fits, Catalogue!GroupEvent
    <2> QED BY <2>1, <2>2, <2>3 DEF CatalogueInv, Catalogue!TypeOK, Catalogue!ReviewedAsApproved
  <1>5. CASE Catalogue!AttachMarket(g) BY <1>4, <1>5 DEF Catalogue!AttachMarket
  <1>6. CASE Catalogue!DetachMarket(g) BY <1>4, <1>6 DEF Catalogue!DetachMarket
  <1>7. ASSUME NEW from, NEW to \in Catalogue!GroupStatuses, Catalogue!MoveGroup(g, from, to)
        PROVE  CatalogueInv'
    <2>1. [old EXCEPT !.status = to] = [event |-> old.event, status |-> to]
          /\ groups' = [groups EXCEPT ![g] = [old EXCEPT !.status = to]]
      BY <1>3, <1>7 DEF Catalogue!MoveGroup, CatalogueInv, Catalogue!TypeOK
    <2>2. turns' \in 0..6
          /\ UNCHANGED <<market, price, amount, issued, editing, stale, editsOfCatalogue>>
      BY <1>1, <1>7 DEF Catalogue!MoveGroup, Catalogue!Turn
    <2>3. groups' = [groups EXCEPT ![g] = [event |-> old.event, status |-> to]] BY <2>1
    <2> QED BY <1>2, <1>3, <2>2, <2>3
  <1>8. ASSUME NEW v \in {1, 2} \cup {None}, Catalogue!UpdateGroup(g, v)
        PROVE  CatalogueInv'
    <2>1. [old EXCEPT !.event = v] = [event |-> v, status |-> old.status]
          /\ groups' = [groups EXCEPT ![g] = [old EXCEPT !.event = v]]
      BY <1>3, <1>8 DEF Catalogue!UpdateGroup, CatalogueInv, Catalogue!TypeOK
    <2>2. turns' \in 0..6 /\ (market.group = g => v = market.event)
          /\ UNCHANGED <<market, price, amount, issued, editing, stale, editsOfCatalogue>>
      BY <1>1, <1>8 DEF Catalogue!UpdateGroup, Catalogue!Turn, Catalogue!Attached
    <2>3. groups' = [groups EXCEPT ![g] = [event |-> v, status |-> old.status]] BY <2>1
    <2> QED BY <1>2, <1>3, <2>2, <2>3
  <1>9. CASE Catalogue!Publish(g) \/ Catalogue!Archive(g)
    BY <1>7, <1>9 DEF Catalogue!Publish, Catalogue!Archive, Catalogue!GroupStatuses
  <1> QED BY <1>5, <1>6, <1>8, <1>9

LEMMA CatalogueStutter == CatalogueInv /\ UNCHANGED catalogueVars => CatalogueInv'
  BY DEF CatalogueInv, catalogueVars, Catalogue!TypeOK, Catalogue!ReviewedAsApproved,
         Catalogue!Fits, Catalogue!GroupEvent

LEMMA CatalogueNext == CatalogueInv /\ Catalogue!Next => CatalogueInv'
  <1> SUFFICES ASSUME CatalogueInv, Catalogue!Next PROVE CatalogueInv' OBVIOUS
  <1>1. ASSUME NEW p \in {1, 2}, Catalogue!ConfigurePrice(p) PROVE CatalogueInv'
    BY <1>1 DEF Catalogue!ConfigurePrice, Catalogue!Turn, CatalogueInv, Catalogue!TypeOK,
       Catalogue!ReviewedAsApproved, Catalogue!Fits, Catalogue!GroupEvent
  <1> QED BY <1>1, EditsFit, LifecycleFits, GroupsFit DEF Catalogue!Next

-----------------------------------------------------------------------------
(* Proposals: an approval keeps the row of its proposal from the check to  *)
(* the market, and the event from the look at its markets; what a save has *)
(* found of the others is still so if no other save came between.          *)
ProposedCalls ==
    [op : {None, "save", "approve", "create"}, p : {None} \cup (1..2),
     seen : Proposed!Proposals \cup {None}, late : BOOLEAN]
Standing(row) == row.status \in {"SUBMITTED", "UNDER_REVIEW", "APPROVED"}
Competes(m) == m.state = "live" /\ m.proposal # None /\ ~m.revived

(* What a request that is under way relies on.                             *)
KeepsRow(r) ==
    LET c == callsOfProposed[r]
    IN  c.op \in {"approve", "create"} \/ (c.op = "save" /\ c.p # None) =>
            c.p \in DOMAIN proposalsOfProposed /\ reviewing[c.p] = r
Undecided(r) ==
    LET c == callsOfProposed[r]
    IN  c.op \in {"approve", "create"} =>
            proposalsOfProposed[c.p].status \in {"SUBMITTED", "UNDER_REVIEW"}
KeepsEvent(r) ==
    LET c == callsOfProposed[r]
    IN  c.op = "create" =>
            /\ holding["event"] = r
            /\ \A m \in DOMAIN markets : Competes(markets[m]) =>
                   markets[m].key # proposalsOfProposed[c.p].key
HasCompared(r) ==
    LET c == callsOfProposed[r]
    IN  c.op = "save" =>
            /\ c.seen \in Proposed!Proposals /\ c.seen.status = "SUBMITTED"
            /\ ~c.late => \A q \in DOMAIN proposalsOfProposed \ {c.p} :
                   Standing(proposalsOfProposed[q]) /\ proposalsOfProposed[q].key = c.seen.key
                       => c.seen.flag = "POSSIBLE_DUPLICATE"
IsInOrder(r) == KeepsRow(r) /\ Undecided(r) /\ KeepsEvent(r) /\ HasCompared(r)

ProposedInv ==
    /\ proposalsOfProposed \in Seq(Proposed!Proposals)
    /\ markets \in Seq(Proposed!Markets)
    /\ reviewing \in [1..2 -> Requests \cup {None}]
    /\ holding \in [{"event"} -> Requests \cup {None}]
    /\ callsOfProposed \in [Requests -> ProposedCalls]
    /\ \A r \in Requests : IsInOrder(r)
    /\ \A m, n \in DOMAIN markets :
           m # n /\ Competes(markets[m]) /\ Competes(markets[n])
               => markets[m].key # markets[n].key
    /\ Proposed!TwinsAreFlagged

LEMMA ProposedInvSays == ProposedInv => Proposed!OneMarketPerKey
  BY DEF ProposedInv, Proposed!OneMarketPerKey, Proposed!Conflicting, Competes

LEMMA ProposedInit == Proposed!Init => ProposedInv
  <1> SUFFICES ASSUME Proposed!Init PROVE ProposedInv OBVIOUS
  <1>1. Proposed!Idle \in ProposedCalls /\ Proposed!Idle.op = None
    BY DEF Proposed!Idle, ProposedCalls
  <1>2. \A r \in Requests : callsOfProposed[r] = Proposed!Idle BY DEF Proposed!Init
  <1>3. \A r \in Requests : IsInOrder(r) BY <1>1, <1>2, NoneAssumption
       DEF IsInOrder, KeepsRow, Undecided, KeepsEvent, HasCompared
  <1> QED BY <1>1, <1>3 DEF Proposed!Init, ProposedInv, Proposed!TwinsAreFlagged, Proposed!Ids

(* A request whose rows nobody else writes stays in order.                 *)
LEMMA OrderCarries ==
    ASSUME ProposedInv, NEW q \in Requests,
           \/ callsOfProposed'[q] = callsOfProposed[q]
           \/ callsOfProposed'[q] = [callsOfProposed[q] EXCEPT !.late = TRUE],
           \A p \in 1..2 : reviewing[p] = q => reviewing'[p] = q,
           holding["event"] = q => holding'["event"] = q,
           \A p \in DOMAIN proposalsOfProposed :
               /\ p \in DOMAIN proposalsOfProposed'
               /\ p \in 1..2 /\ reviewing[p] = q =>
                      proposalsOfProposed'[p] = proposalsOfProposed[p],
           holding["event"] = q => \A m \in DOMAIN markets' : Competes(markets'[m]) =>
               /\ m \in DOMAIN markets /\ Competes(markets[m])
               /\ markets'[m].key = markets[m].key,
           callsOfProposed'[q].late
               \/ \A p \in DOMAIN proposalsOfProposed' : Standing(proposalsOfProposed'[p]) =>
                      /\ p \in DOMAIN proposalsOfProposed /\ Standing(proposalsOfProposed[p])
                      /\ proposalsOfProposed'[p].key = proposalsOfProposed[p].key
    PROVE  IsInOrder(q)'
  <1>1. PICK c \in ProposedCalls : c = callsOfProposed[q] BY DEF ProposedInv
  <1>2. PICK d : d = callsOfProposed'[q] OBVIOUS
  <1>3. d.op = c.op /\ d.p = c.p /\ d.seen = c.seen /\ (d.late \/ d.late = c.late)
    BY <1>1, <1>2 DEF ProposedCalls
  <1>4. /\ KeepsRow(q) /\ Undecided(q) /\ KeepsEvent(q) /\ HasCompared(q)
        /\ c.p \in {None} \cup (1..2)
    BY <1>1 DEF ProposedInv, IsInOrder, ProposedCalls
  <1>5. KeepsRow(q)' BY <1>1, <1>2, <1>3, <1>4, NoneAssumption DEF KeepsRow, ProposedInv
  <1>6. c.op \in {"approve", "create"} =>
            proposalsOfProposed'[c.p] = proposalsOfProposed[c.p]
    BY <1>1, <1>4, NoneAssumption DEF KeepsRow, ProposedInv
  <1>7. Undecided(q)' BY <1>1, <1>2, <1>3, <1>4, <1>6 DEF Undecided
  <1>8. KeepsEvent(q)' BY <1>1, <1>2, <1>3, <1>4, <1>6 DEF KeepsEvent
  <1>9. HasCompared(q)' BY <1>1, <1>2, <1>3, <1>4 DEF HasCompared
  <1> QED BY <1>5, <1>7, <1>8, <1>9 DEF IsInOrder

(* A request is taken up, or takes its next step, and no row is written.   *)
LEMMA TakenUp ==
    ASSUME ProposedInv, NEW r \in Requests, NEW d \in ProposedCalls,
           callsOfProposed' = [callsOfProposed EXCEPT ![r] = d],
           UNCHANGED <<proposalsOfProposed, markets>>,
           reviewing' \in [1..2 -> Requests \cup {None}],
           holding' \in [{"event"} -> Requests \cup {None}],
           \A p \in 1..2 : reviewing[p] \in Requests \ {r} => reviewing'[p] = reviewing[p],
           holding["event"] \in Requests \ {r} => holding'["event"] = holding["event"],
           IsInOrder(r)'
    PROVE  ProposedInv'
  BY OrderCarries DEF ProposedInv, Proposed!TwinsAreFlagged, Proposed!Ids

(* What a save is going to write, with the flag found for it.              *)
LEMMA FlagsCompare ==
    ASSUME ProposedInv, NEW p \in {None} \cup (1..2), NEW k \in Proposed!Keys
    PROVE  /\ Proposed!FlagFor(k, p) \in {"CLEAR", "POSSIBLE_DUPLICATE"}
           /\ \A q \in DOMAIN proposalsOfProposed \ {p} :
                  Standing(proposalsOfProposed[q]) /\ proposalsOfProposed[q].key = k
                      => Proposed!FlagFor(k, p) = "POSSIBLE_DUPLICATE"
  BY DEF Proposed!FlagFor, Proposed!SameKey, Proposed!Ids, Proposed!Blocking, Standing

LEMMA RequestsLock ==
    ASSUME ProposedInv, NEW r \in Requests,
           \/ \E k \in Proposed!Keys : Proposed!Submit(r, k)
           \/ \E p \in 1..2, k \in Proposed!Keys : Proposed!Update(r, p, k)
           \/ \E p \in 1..2 : Proposed!Approve(r, p)
           \/ Proposed!LockAndCheck(r)
    PROVE  ProposedInv'
  <1> DEFINE c == callsOfProposed[r]
  <1>1. c \in ProposedCalls /\ IsInOrder(r) BY DEF ProposedInv
  <1>2. ASSUME NEW k \in Proposed!Keys, Proposed!Submit(r, k) PROVE ProposedInv'
    <2> DEFINE row == [Proposed!New(k) EXCEPT !.flag = Proposed!FlagFor(k, None)]
               d == [op |-> "save", p |-> None, late |-> FALSE, seen |-> row]
    <2>1. /\ row \in Proposed!Proposals /\ row.status = "SUBMITTED"
          /\ row.flag = Proposed!FlagFor(k, None) /\ row.key = k
      <3>1. Proposed!FlagFor(k, None) \in Proposed!Flags BY FlagsCompare DEF Proposed!Flags
      <3> QED BY <3>1 DEF Proposed!New, Proposed!Proposals, Proposed!Statuses, Proposed!Flags
    <2>2. /\ callsOfProposed' = [callsOfProposed EXCEPT ![r] = d]
          /\ UNCHANGED <<proposalsOfProposed, markets, reviewing, holding>>
      BY <1>2, Zenon DEF Proposed!Submit
    <2> HIDE DEF row
    <2>3. d \in ProposedCalls /\ d.op = "save" /\ d.p = None /\ d.seen = row
      BY <2>1 DEF ProposedCalls
    <2> HIDE DEF d
    <2>4. callsOfProposed'[r] = d BY <2>2 DEF ProposedInv
    <2>5. IsInOrder(r)' BY <2>1, <2>2, <2>3, <2>4, FlagsCompare, NoneAssumption
         DEF IsInOrder, KeepsRow, Undecided, KeepsEvent, HasCompared
    <2> QED BY <2>2, <2>3, <2>5, TakenUp DEF ProposedInv
  <1>3. ASSUME NEW p \in 1..2, NEW k \in Proposed!Keys, Proposed!Update(r, p, k)
        PROVE  ProposedInv'
    <2>1. PICK old \in Proposed!Proposals :
              old = proposalsOfProposed[p] /\ old.status = "SUBMITTED"
      <3>1. p \in DOMAIN proposalsOfProposed /\ proposalsOfProposed[p].status = "SUBMITTED"
        BY <1>3 DEF Proposed!Update, Proposed!Ids
      <3>2. proposalsOfProposed[p] \in Proposed!Proposals BY <3>1 DEF ProposedInv
      <3> QED BY <3>1, <3>2
    <2> DEFINE row == [old EXCEPT !.key = k, !.flag = Proposed!FlagFor(k, p), !.of = None]
               d == [op |-> "save", p |-> p, late |-> FALSE, seen |-> row]
    <2>2. /\ row \in Proposed!Proposals /\ row.status = "SUBMITTED"
          /\ row.flag = Proposed!FlagFor(k, p) /\ row.key = k
      BY <2>1, FlagsCompare DEF Proposed!Flags, Proposed!Proposals
    <2>3. /\ callsOfProposed' = [callsOfProposed EXCEPT ![r] = d]
          /\ UNCHANGED <<proposalsOfProposed, markets, holding>>
      BY <1>3, <2>1, Zenon DEF Proposed!Update
    <2>4. p \in DOMAIN proposalsOfProposed /\ reviewing[p] = None
          /\ reviewing' = [reviewing EXCEPT ![p] = r]
      BY <1>3 DEF Proposed!Update, Proposed!Ids
    <2> HIDE DEF row
    <2>5. d \in ProposedCalls /\ d.op = "save" /\ d.p = p /\ d.seen = row BY <2>2 DEF ProposedCalls
    <2> HIDE DEF d
    <2>6. callsOfProposed'[r] = d BY <2>3 DEF ProposedInv
    <2>7. /\ reviewing' \in [1..2 -> Requests \cup {None}] /\ reviewing'[p] = r
          /\ \A i \in 1..2 : reviewing[i] \in Requests \ {r} => reviewing'[i] = reviewing[i]
      BY <2>4, NoneAssumption DEF ProposedInv
    <2>8. IsInOrder(r)' BY <2>2, <2>3, <2>4, <2>5, <2>6, <2>7, FlagsCompare, NoneAssumption
         DEF IsInOrder, KeepsRow, Undecided, KeepsEvent, HasCompared
    <2> QED BY <2>3, <2>5, <2>7, <2>8, TakenUp DEF ProposedInv
  <1>4. ASSUME NEW p \in 1..2, Proposed!Approve(r, p) PROVE ProposedInv'
    <2> DEFINE d == [Proposed!Idle EXCEPT !.op = "approve", !.p = p]
    <2>1. /\ callsOfProposed' = [callsOfProposed EXCEPT ![r] = d]
          /\ UNCHANGED <<proposalsOfProposed, markets, holding>>
          /\ p \in DOMAIN proposalsOfProposed /\ reviewing[p] = None
          /\ proposalsOfProposed[p].status \in {"SUBMITTED", "UNDER_REVIEW"}
          /\ reviewing' = [reviewing EXCEPT ![p] = r]
      BY <1>4, Zenon DEF Proposed!Approve, Proposed!Reviewable, Proposed!Ids
    <2>2. d \in ProposedCalls /\ d.op = "approve" /\ d.p = p BY DEF ProposedCalls, Proposed!Idle
    <2> HIDE DEF d
    <2>3. callsOfProposed'[r] = d BY <2>1 DEF ProposedInv
    <2>4. /\ reviewing' \in [1..2 -> Requests \cup {None}] /\ reviewing'[p] = r
          /\ \A i \in 1..2 : reviewing[i] \in Requests \ {r} => reviewing'[i] = reviewing[i]
      BY <2>1, NoneAssumption DEF ProposedInv
    <2>5. IsInOrder(r)'
      BY <2>1, <2>2, <2>3, <2>4 DEF IsInOrder, KeepsRow, Undecided, KeepsEvent, HasCompared
    <2> QED BY <2>1, <2>2, <2>4, <2>5, TakenUp DEF ProposedInv
  <1>5. CASE Proposed!LockAndCheck(r)
    <2>1. /\ c.op = "approve" /\ c.p \in DOMAIN proposalsOfProposed /\ reviewing[c.p] = r
          /\ proposalsOfProposed[c.p].status \in {"SUBMITTED", "UNDER_REVIEW"}
          /\ UNCHANGED <<proposalsOfProposed, markets>>
      BY <1>1, <1>5 DEF Proposed!LockAndCheck, IsInOrder, KeepsRow, Undecided
    <2> DEFINE k == proposalsOfProposed[c.p].key
    <2>2. Proposed!EventOf(k) = "event"
      <3>1. proposalsOfProposed[c.p] \in Proposed!Proposals BY <2>1 DEF ProposedInv
      <3> QED BY <3>1 DEF Proposed!Proposals, Proposed!Keys, Proposed!EventOf
    <2>3. CASE Proposed!LiveMarkets(k) = {}
      <3> DEFINE d == [c EXCEPT !.op = "create"]
      <3>1. /\ holding' = [holding EXCEPT !["event"] = r] /\ holding["event"] = None
            /\ callsOfProposed' = [callsOfProposed EXCEPT ![r].op = "create"]
            /\ UNCHANGED reviewing
        BY <1>5, <2>2, <2>3 DEF Proposed!LockAndCheck, Proposed!EventFree
      <3>2. callsOfProposed' = [callsOfProposed EXCEPT ![r] = d] /\ callsOfProposed'[r] = d
        BY <3>1 DEF ProposedInv
      <3>3. d \in ProposedCalls /\ d.op = "create" /\ d.p = c.p BY <1>1 DEF ProposedCalls
      <3>4. \A m \in DOMAIN markets : Competes(markets[m]) => markets[m].key # k
        BY <2>3 DEF Proposed!LiveMarkets, Competes
      <3> HIDE DEF c, d
      <3>5. /\ holding' \in [{"event"} -> Requests \cup {None}] /\ holding'["event"] = r
            /\ holding["event"] \in Requests \ {r} => holding'["event"] = holding["event"]
        BY <3>1, NoneAssumption DEF ProposedInv
      <3>6. IsInOrder(r)' BY <2>1, <3>1, <3>2, <3>3, <3>4, <3>5
           DEF IsInOrder, KeepsRow, Undecided, KeepsEvent, HasCompared
      <3> QED BY <2>1, <3>1, <3>2, <3>3, <3>5, <3>6, TakenUp DEF ProposedInv
    <2>4. CASE Proposed!LiveMarkets(k) # {}
      <3>1. /\ callsOfProposed' = [callsOfProposed EXCEPT ![r] = Proposed!Idle]
            /\ reviewing' = Proposed!Free(r) /\ UNCHANGED holding
        BY <1>5, <2>4 DEF Proposed!LockAndCheck
      <3>2. Proposed!Idle \in ProposedCalls /\ Proposed!Idle.op = None
        BY DEF Proposed!Idle, ProposedCalls
      <3>3. callsOfProposed'[r] = Proposed!Idle BY <3>1 DEF ProposedInv
      <3>4. IsInOrder(r)' BY <3>2, <3>3, NoneAssumption
           DEF IsInOrder, KeepsRow, Undecided, KeepsEvent, HasCompared
      <3>5. /\ reviewing' \in [1..2 -> Requests \cup {None}]
            /\ \A i \in 1..2 : reviewing[i] \in Requests \ {r} => reviewing'[i] = reviewing[i]
        BY <3>1 DEF ProposedInv, Proposed!Free
      <3> QED BY <2>1, <3>1, <3>2, <3>4, <3>5, TakenUp DEF ProposedInv
    <2> QED BY <2>3, <2>4
  <1> QED BY <1>2, <1>3, <1>4, <1>5

(* The decisions of the staff: a proposal that stands keeps its key and    *)
(* its flag, and none that has fallen stands again.                        *)
LEMMA DecisionsKeepOrder ==
    ASSUME ProposedInv, NEW p \in 1..2, NEW row \in Proposed!Proposals,
           p \in DOMAIN proposalsOfProposed, reviewing[p] = None,
           proposalsOfProposed' = [proposalsOfProposed EXCEPT ![p] = row],
           row.key = proposalsOfProposed[p].key, row.alone = proposalsOfProposed[p].alone,
           Standing(row) => /\ Standing(proposalsOfProposed[p])
                            /\ row.flag = proposalsOfProposed[p].flag,
           UNCHANGED <<markets, reviewing, holding, callsOfProposed>>
    PROVE  ProposedInv'
  <1>1. /\ proposalsOfProposed' \in Seq(Proposed!Proposals)
        /\ DOMAIN proposalsOfProposed' = DOMAIN proposalsOfProposed
        /\ proposalsOfProposed'[p] = row
        /\ \A q \in DOMAIN proposalsOfProposed \ {p} :
               proposalsOfProposed'[q] = proposalsOfProposed[q]
    BY DEF ProposedInv
  <1>2. ASSUME NEW q \in Requests PROVE IsInOrder(q)' BY <1>1, NoneAssumption, OrderCarries
  <1>3. Proposed!TwinsAreFlagged'
    <2>1. \A q \in DOMAIN proposalsOfProposed' :
              proposalsOfProposed'[q].status \in Proposed!Statuses
      <3>1. \A q \in DOMAIN proposalsOfProposed' :
                proposalsOfProposed'[q] \in Proposed!Proposals
        BY <1>1
      <3> QED BY <3>1 DEF Proposed!Proposals
    <2>2. \A q \in DOMAIN proposalsOfProposed' :
              proposalsOfProposed'[q].status \notin {"REJECTED", "DUPLICATE", "WITHDRAWN"}
                  => Standing(proposalsOfProposed'[q])
      BY <2>1 DEF Standing, Proposed!Statuses
    <2>3. \A q \in DOMAIN proposalsOfProposed : Standing(proposalsOfProposed[q])
              => proposalsOfProposed[q].status \notin {"REJECTED", "DUPLICATE", "WITHDRAWN"}
      BY DEF Standing
    <2>4. \A q \in DOMAIN proposalsOfProposed :
              /\ proposalsOfProposed'[q].key = proposalsOfProposed[q].key
              /\ proposalsOfProposed'[q].alone = proposalsOfProposed[q].alone
              /\ Standing(proposalsOfProposed'[q]) =>
                     /\ Standing(proposalsOfProposed[q])
                     /\ proposalsOfProposed'[q].flag = proposalsOfProposed[q].flag
      BY <1>1
    <2>5. \A q \in DOMAIN proposalsOfProposed :
              proposalsOfProposed'[q].status \notin {"REJECTED", "DUPLICATE", "WITHDRAWN"} =>
                  /\ proposalsOfProposed[q].status \notin {"REJECTED", "DUPLICATE", "WITHDRAWN"}
                  /\ proposalsOfProposed'[q].flag = proposalsOfProposed[q].flag
      BY <1>1, <2>2, <2>3, <2>4
    <2>6. \A q \in DOMAIN proposalsOfProposed :
              /\ proposalsOfProposed'[q].key = proposalsOfProposed[q].key
              /\ proposalsOfProposed'[q].alone = proposalsOfProposed[q].alone
      BY <2>4
    <2>7. DOMAIN proposalsOfProposed' = DOMAIN proposalsOfProposed BY <1>1
    <2>8. ASSUME NEW i \in DOMAIN proposalsOfProposed,
                 NEW j \in DOMAIN proposalsOfProposed, i # j,
                 proposalsOfProposed'[i].key = proposalsOfProposed'[j].key,
                 proposalsOfProposed'[i].status \notin {"REJECTED", "DUPLICATE", "WITHDRAWN"},
                 proposalsOfProposed'[j].status \notin {"REJECTED", "DUPLICATE", "WITHDRAWN"},
                 proposalsOfProposed'[i].alone, proposalsOfProposed'[j].alone
          PROVE  "POSSIBLE_DUPLICATE" \in
                     {proposalsOfProposed'[i].flag, proposalsOfProposed'[j].flag}
      BY <2>5, <2>6, <2>8 DEF ProposedInv, Proposed!TwinsAreFlagged, Proposed!Ids
    <2>9. ASSUME NEW i \in DOMAIN proposalsOfProposed, NEW j \in DOMAIN proposalsOfProposed,
                 {proposalsOfProposed'[i].status, proposalsOfProposed'[j].status}
                     \cap {"REJECTED", "DUPLICATE", "WITHDRAWN"} = {}
          PROVE  /\ proposalsOfProposed'[i].status \notin {"REJECTED", "DUPLICATE", "WITHDRAWN"}
                 /\ proposalsOfProposed'[j].status \notin {"REJECTED", "DUPLICATE", "WITHDRAWN"}
      BY <2>9
    <2> QED BY <2>7, <2>8, <2>9 DEF Proposed!TwinsAreFlagged, Proposed!Ids
  <1> QED BY <1>1, <1>2, <1>3 DEF ProposedInv

LEMMA StaffDecides ==
    ASSUME ProposedInv, NEW p \in 1..2,
           \/ Proposed!Withdraw(p) \/ Proposed!StartReview(p) \/ Proposed!Reject(p)
           \/ \E q \in {None} \cup (1..2) : Proposed!MarkDuplicate(p, q)
    PROVE  ProposedInv'
  <1>1. p \in DOMAIN proposalsOfProposed /\ reviewing[p] = None
        /\ proposalsOfProposed[p].status \in {"SUBMITTED", "UNDER_REVIEW"}
        /\ UNCHANGED <<markets, reviewing, holding, callsOfProposed>>
    BY DEF Proposed!Withdraw, Proposed!StartReview, Proposed!Reject, Proposed!MarkDuplicate,
           Proposed!Reviewable, Proposed!Ids
  <1>2. PICK old \in Proposed!Proposals : old = proposalsOfProposed[p] BY <1>1 DEF ProposedInv
  <1>3. ASSUME NEW to \in Proposed!Statuses, Proposed!Become(p, to),
               to # "APPROVED"
        PROVE  ProposedInv'
    <2> DEFINE row == [old EXCEPT !.status = to]
    <2>1. /\ row \in Proposed!Proposals /\ row.status = to /\ row.key = old.key
          /\ row.alone = old.alone /\ row.flag = old.flag
      BY DEF Proposed!Proposals
    <2>2. proposalsOfProposed' = [proposalsOfProposed EXCEPT ![p] = row]
      BY <1>2, <1>3 DEF Proposed!Become
    <2> HIDE DEF row
    <2> QED BY <1>1, <1>2, <2>1, <2>2, DecisionsKeepOrder DEF Standing
  <1>4. ASSUME NEW q \in {None} \cup (1..2), Proposed!MarkDuplicate(p, q) PROVE ProposedInv'
    <2> DEFINE row == [old EXCEPT !.status = "DUPLICATE", !.of = q,
                                  !.flag = "CONFIRMED_DUPLICATE"]
    <2>1. /\ row \in Proposed!Proposals /\ row.status = "DUPLICATE" /\ row.key = old.key
          /\ row.alone = old.alone
      BY DEF Proposed!Proposals, Proposed!Statuses, Proposed!Flags
    <2>2. proposalsOfProposed' = [proposalsOfProposed EXCEPT ![p] = row]
      BY <1>2, <1>4 DEF Proposed!MarkDuplicate
    <2> HIDE DEF row
    <2> QED BY <1>1, <1>2, <2>1, <2>2, DecisionsKeepOrder DEF Standing
  <1>5. {"WITHDRAWN", "UNDER_REVIEW", "REJECTED"} \subseteq Proposed!Statuses
    BY DEF Proposed!Statuses
  <1> QED BY <1>3, <1>4, <1>5 DEF Proposed!Withdraw, Proposed!StartReview, Proposed!Reject

(* Markets without a proposal, and markets that leave or come back.        *)
LEMMA MarketsTurn ==
    ASSUME ProposedInv,
           \/ \E k \in Proposed!Keys : Proposed!CreateDirectly(k)
           \/ \E m \in 1..2 : \/ Proposed!Retire(m, "rejected")
                              \/ Proposed!Retire(m, "void") \/ Proposed!Resubmit(m)
    PROVE  ProposedInv'
  <1>1. UNCHANGED <<proposalsOfProposed, reviewing, holding, callsOfProposed>>
    BY DEF Proposed!CreateDirectly, Proposed!Retire, Proposed!Resubmit
  <1>2. ASSUME markets' \in Seq(Proposed!Markets),
               \A m \in DOMAIN markets' : Competes(markets'[m]) =>
                   /\ m \in DOMAIN markets /\ Competes(markets[m])
                   /\ markets'[m].key = markets[m].key
        PROVE  ProposedInv'
    BY <1>1, <1>2, OrderCarries DEF ProposedInv, Proposed!TwinsAreFlagged, Proposed!Ids
  <1>3. ASSUME NEW k \in Proposed!Keys, Proposed!CreateDirectly(k) PROVE ProposedInv'
    <2> DEFINE new == Proposed!NewMarket(k, None)
    <2>1. new \in Proposed!Markets /\ ~Competes(new)
      BY DEF Proposed!NewMarket, Proposed!Markets, Competes
    <2>2. markets' = Append(markets, new) BY <1>3 DEF Proposed!CreateDirectly
    <2> HIDE DEF new
    <2>3. markets' \in Seq(Proposed!Markets) BY <2>1, <2>2 DEF ProposedInv
    <2>4. \A m \in DOMAIN markets' :
              (m \in DOMAIN markets /\ markets'[m] = markets[m]) \/ markets'[m] = new
      BY <2>1, <2>2 DEF ProposedInv
    <2> QED BY <1>2, <2>1, <2>3, <2>4
  <1>4. ASSUME NEW m \in 1..2, NEW new \in Proposed!Markets, m \in DOMAIN markets,
               markets' = [markets EXCEPT ![m] = new], ~Competes(new)
        PROVE  ProposedInv'
    BY <1>2, <1>4 DEF ProposedInv
  <1>5. ASSUME NEW m \in 1..2, m \in DOMAIN markets PROVE markets[m] \in Proposed!Markets
    BY <1>5 DEF ProposedInv
  <1>6. ASSUME NEW m \in 1..2, NEW how \in {"rejected", "void"}, Proposed!Retire(m, how)
        PROVE  ProposedInv'
    <2>1. PICK old \in Proposed!Markets : old = markets[m] /\ m \in DOMAIN markets
      BY <1>5, <1>6 DEF Proposed!Retire
    <2> DEFINE new == [old EXCEPT !.state = how]
    <2>2. new \in Proposed!Markets /\ ~Competes(new) BY DEF Proposed!Markets, Competes
    <2>3. markets' = [markets EXCEPT ![m] = new] BY <1>6, <2>1 DEF Proposed!Retire
    <2> HIDE DEF new
    <2> QED BY <1>4, <2>1, <2>2, <2>3
  <1>7. ASSUME NEW m \in 1..2, Proposed!Resubmit(m) PROVE ProposedInv'
    <2>1. PICK old \in Proposed!Markets : old = markets[m] /\ m \in DOMAIN markets
      BY <1>5, <1>7 DEF Proposed!Resubmit
    <2> DEFINE new == [old EXCEPT !.state = "live", !.revived = TRUE]
    <2>2. new \in Proposed!Markets /\ ~Competes(new) BY DEF Proposed!Markets, Competes
    <2>3. markets' = [markets EXCEPT ![m] = new] BY <1>7, <2>1 DEF Proposed!Resubmit
    <2> HIDE DEF new
    <2> QED BY <1>4, <2>1, <2>2, <2>3
  <1> QED BY <1>3, <1>6, <1>7

(* A save commits: every other request has now missed a proposal.          *)
LEMMA SaveFlags ==
    ASSUME ProposedInv, NEW r \in Requests, Proposed!Save(r)
    PROVE  ProposedInv'
  <1> DEFINE old == callsOfProposed[r].seen
             row == [old EXCEPT !.alone = ~callsOfProposed[r].late]
             P == proposalsOfProposed
  <1>1. PICK c \in ProposedCalls : c = callsOfProposed[r] BY DEF ProposedInv
  <1>2. /\ c.op = "save" /\ reviewing' = Proposed!Free(r) /\ UNCHANGED <<markets, holding>>
        /\ callsOfProposed' = [q \in Requests |-> IF q = r THEN Proposed!Idle
                                   ELSE [callsOfProposed[q] EXCEPT !.late = TRUE]]
    BY <1>1 DEF Proposed!Save
  <1>3. /\ proposalsOfProposed' = IF c.p = None THEN Append(P, row) ELSE [P EXCEPT ![c.p] = row]
    BY <1>1, Zenon DEF Proposed!Save
  <1>4. KeepsRow(r) /\ HasCompared(r) BY DEF ProposedInv, IsInOrder
  <1>5. /\ row \in Proposed!Proposals /\ row.status = "SUBMITTED"
        /\ row.alone = ~c.late /\ row.key = c.seen.key /\ row.flag = c.seen.flag
    BY <1>1, <1>2, <1>4 DEF HasCompared, ProposedCalls, Proposed!Proposals
  <1> HIDE DEF row
  <1>6. /\ \A q \in Requests \ {r} :
               /\ callsOfProposed'[q] = [callsOfProposed[q] EXCEPT !.late = TRUE]
               /\ callsOfProposed'[q] \in ProposedCalls /\ callsOfProposed'[q].late
        /\ callsOfProposed'[r] = Proposed!Idle /\ Proposed!Idle \in ProposedCalls
        /\ Proposed!Idle.op = None
    BY <1>2 DEF ProposedInv, ProposedCalls, Proposed!Idle
  <1>7. callsOfProposed' \in [Requests -> ProposedCalls] BY <1>2, <1>6
  <1>8. /\ reviewing' \in [1..2 -> Requests \cup {None}]
        /\ \A i \in 1..2 : reviewing[i] \in Requests \ {r} => reviewing'[i] = reviewing[i]
    BY <1>2 DEF ProposedInv, Proposed!Free
  <1>9. PICK at \in Nat : /\ IF c.p = None THEN at = Len(P) + 1 ELSE at = c.p
                          /\ P' \in Seq(Proposed!Proposals)
                          /\ DOMAIN P' = DOMAIN P \cup {at} /\ P'[at] = row
                          /\ \A i \in DOMAIN P \ {at} : P'[i] = P[i]
                          /\ at \in DOMAIN P => reviewing[at] = r /\ at \in 1..2
    <2>1. CASE c.p = None BY <1>3, <1>5, <2>1 DEF ProposedInv
    <2>2. CASE c.p # None
      <3>1. c.p \in DOMAIN P /\ reviewing[c.p] = r /\ c.p \in 1..2
        BY <1>1, <1>2, <1>4, <2>2 DEF KeepsRow, ProposedCalls
      <3>2. P' = [P EXCEPT ![c.p] = row] /\ P \in Seq(Proposed!Proposals)
        BY <1>3, <2>2 DEF ProposedInv
      <3>3. P' \in Seq(Proposed!Proposals) /\ DOMAIN P' = DOMAIN P /\ P'[c.p] = row
            /\ \A i \in DOMAIN P \ {c.p} : P'[i] = P[i]
        BY <1>5, <3>1, <3>2
      <3>4. c.p \in Nat /\ DOMAIN P' = DOMAIN P \cup {c.p}
        <4> HIDE DEF P
        <4>1. c.p \in Nat BY <3>1
        <4>2. PICK D : D = DOMAIN P OBVIOUS
        <4>3. D = D \cup {c.p} BY <3>1, <4>2
        <4> QED BY <3>3, <4>1, <4>2, <4>3
      <3> HIDE DEF P
      <3> QED BY <2>2, <3>1, <3>3, <3>4
    <2> QED BY <2>1, <2>2
  <1> HIDE DEF P
  <1>10. ASSUME NEW q \in Requests PROVE IsInOrder(q)'
    <2>1. CASE q = r
      BY <1>6, <2>1, NoneAssumption DEF IsInOrder, KeepsRow, Undecided, KeepsEvent, HasCompared
    <2>2. CASE q # r
      <3>1. \A p \in DOMAIN proposalsOfProposed :
               /\ p \in DOMAIN proposalsOfProposed'
               /\ p \in 1..2 /\ reviewing[p] = q =>
                      proposalsOfProposed'[p] = proposalsOfProposed[p]
        BY <1>9, <2>2 DEF P
      <3>2. \A p \in 1..2 : reviewing[p] = q => reviewing'[p] = q BY <1>8, <2>2
      <3> QED BY <1>2, <1>6, <2>2, <3>1, <3>2, OrderCarries
    <2> QED BY <2>1, <2>2
  <1>11. Proposed!TwinsAreFlagged'
    <2>1. ASSUME ~c.late, NEW q \in DOMAIN P, q # at, Standing(P[q]), P[q].key = row.key
          PROVE  row.flag = "POSSIBLE_DUPLICATE"
      <3>1. q # c.p BY <1>9, <2>1, NoneAssumption DEF P, ProposedInv
      <3> QED BY <1>1, <1>2, <1>4, <1>5, <2>1, <3>1 DEF HasCompared, P
    <2>2. \A q \in DOMAIN P : P[q].status \in Proposed!Statuses
      <3>1. \A q \in DOMAIN P : P[q] \in Proposed!Proposals BY DEF ProposedInv, P
      <3> QED BY <3>1 DEF Proposed!Proposals
    <2>3. ASSUME NEW q \in DOMAIN P', q # at, P'[q].key = row.key, row.alone,
                 P'[q].status \notin {"REJECTED", "DUPLICATE", "WITHDRAWN"}
          PROVE  row.flag = "POSSIBLE_DUPLICATE"
      BY <1>5, <1>9, <2>1, <2>2, <2>3 DEF Proposed!Statuses, Standing
    <2>4. Proposed!TwinsAreFlagged BY DEF ProposedInv
    <2> QED BY <1>9, <2>3, <2>4 DEF Proposed!TwinsAreFlagged, Proposed!Ids, P
  <1> QED BY <1>2, <1>7, <1>8, <1>9, <1>10, <1>11 DEF ProposedInv, P

(* An approval creates its market: it held the event since it looked, so   *)
(* no other approval has created one with the key.                         *)
LEMMA CreationIsUnique ==
    ASSUME ProposedInv, NEW r \in Requests, Proposed!Create(r)
    PROVE  ProposedInv'
  <1> DEFINE P == proposalsOfProposed
  <1>1. PICK c \in ProposedCalls : c = callsOfProposed[r] BY DEF ProposedInv
  <1>2. /\ c.op = "create" /\ Len(markets) < 2 /\ reviewing' = Proposed!Free(r)
        /\ callsOfProposed' = [callsOfProposed EXCEPT ![r] = Proposed!Idle]
        /\ holding' = [e \in {"event"} |-> IF holding[e] = r THEN None ELSE holding[e]]
    BY <1>1 DEF Proposed!Create
  <1>3. /\ KeepsRow(r) /\ KeepsEvent(r) /\ Undecided(r)
        /\ c.p \in DOMAIN P /\ reviewing[c.p] = r /\ holding["event"] = r
        /\ P[c.p].status \in {"SUBMITTED", "UNDER_REVIEW"} /\ c.p \in 1..2
    BY <1>1, <1>2, NoneAssumption
       DEF ProposedInv, IsInOrder, KeepsRow, KeepsEvent, Undecided, ProposedCalls
  <1>4. PICK old \in Proposed!Proposals : old = P[c.p] BY <1>3 DEF ProposedInv
  <1> DEFINE new == Proposed!NewMarket(old.key, c.p)
             row == [old EXCEPT !.status = "APPROVED", !.market = Len(markets) + 1]
  <1>5. markets' = Append(markets, new) /\ P' = [P EXCEPT ![c.p] = row]
    BY <1>1, <1>3, <1>4 DEF Proposed!Create
  <1>6. /\ new \in Proposed!Markets /\ new.key = old.key
    BY <1>3, <1>4 DEF Proposed!NewMarket, Proposed!Markets, Proposed!Proposals
  <1>7. /\ row \in Proposed!Proposals /\ Standing(row) /\ row.key = old.key
        /\ row.flag = old.flag /\ row.alone = old.alone
    <2>1. Len(markets) + 1 \in 1..2 BY <1>2 DEF ProposedInv
    <2> QED BY <2>1 DEF Proposed!Proposals, Proposed!Statuses, Standing
  <1> HIDE DEF new, row
  <1>8. /\ P' \in Seq(Proposed!Proposals) /\ DOMAIN P' = DOMAIN P /\ P'[c.p] = row
        /\ \A i \in DOMAIN P \ {c.p} : P'[i] = P[i]
    BY <1>3, <1>5, <1>7 DEF ProposedInv
  <1>9. /\ markets' \in Seq(Proposed!Markets)
        /\ DOMAIN markets' = DOMAIN markets \cup {Len(markets) + 1}
        /\ markets'[Len(markets) + 1] = new
        /\ \A m \in DOMAIN markets : markets'[m] = markets[m] /\ m # Len(markets) + 1
    BY <1>5, <1>6 DEF ProposedInv
  <1>10. /\ reviewing' \in [1..2 -> Requests \cup {None}]
         /\ holding' \in [{"event"} -> Requests \cup {None}]
         /\ \A i \in 1..2 : reviewing[i] \in Requests \ {r} => reviewing'[i] = reviewing[i]
    BY <1>2 DEF ProposedInv, Proposed!Free
  <1>11. /\ callsOfProposed' \in [Requests -> ProposedCalls]
         /\ callsOfProposed'[r] = Proposed!Idle /\ Proposed!Idle.op = None
         /\ \A q \in Requests \ {r} : callsOfProposed'[q] = callsOfProposed[q]
    BY <1>2 DEF Proposed!Idle, ProposedCalls, ProposedInv
  <1>12. \A m \in DOMAIN markets : Competes(markets[m]) => markets[m].key # new.key
    BY <1>1, <1>2, <1>3, <1>4, <1>6 DEF KeepsEvent
  <1>13. \A m, n \in DOMAIN markets' :
             m # n /\ Competes(markets'[m]) /\ Competes(markets'[n])
                 => markets'[m].key # markets'[n].key
    BY <1>9, <1>12 DEF ProposedInv
  <1>14. \A i \in DOMAIN P' : Standing(P'[i]) =>
             i \in DOMAIN P /\ Standing(P[i]) /\ P'[i].key = P[i].key
    BY <1>3, <1>4, <1>7, <1>8 DEF Standing
  <1> HIDE DEF P
  <1>15. ASSUME NEW q \in Requests PROVE IsInOrder(q)'
    <2>1. CASE q = r BY <1>11, <2>1, NoneAssumption
         DEF IsInOrder, KeepsRow, Undecided, KeepsEvent, HasCompared
    <2>2. CASE q # r
      <3>1. \A p \in DOMAIN proposalsOfProposed :
               /\ p \in DOMAIN proposalsOfProposed'
               /\ p \in 1..2 /\ reviewing[p] = q =>
                      proposalsOfProposed'[p] = proposalsOfProposed[p]
        BY <1>3, <1>8, <2>2 DEF P
      <3>2. \A p \in 1..2 : reviewing[p] = q => reviewing'[p] = q BY <1>10, <2>2
      <3>3. holding["event"] # q BY <1>3, <2>2
      <3> QED BY <1>11, <1>14, <2>2, <3>1, <3>2, <3>3, OrderCarries DEF P
    <2> QED BY <2>1, <2>2
  <1>16. Proposed!TwinsAreFlagged'
    <2>1. \A i \in DOMAIN P : /\ P'[i].key = P[i].key /\ P'[i].flag = P[i].flag
                              /\ P'[i].alone = P[i].alone
                              /\ P'[i].status \notin {"REJECTED", "DUPLICATE", "WITHDRAWN"} =>
                                     P[i].status \notin {"REJECTED", "DUPLICATE", "WITHDRAWN"}
      BY <1>3, <1>4, <1>7, <1>8
    <2> QED BY <1>8, <2>1 DEF ProposedInv, Proposed!TwinsAreFlagged, Proposed!Ids, P
  <1> QED BY <1>8, <1>9, <1>10, <1>11, <1>13, <1>15, <1>16 DEF ProposedInv, P

LEMMA ProposedNext == ProposedInv /\ Proposed!Next => ProposedInv'
  <1> SUFFICES ASSUME ProposedInv, Proposed!Next PROVE ProposedInv' OBVIOUS
  <1> QED BY RequestsLock, StaffDecides, MarketsTurn, SaveFlags, CreationIsUnique DEF Proposed!Next

LEMMA ProposedStutter == ProposedInv /\ UNCHANGED proposedVars => ProposedInv'
  BY DEF ProposedInv, proposedVars, IsInOrder, KeepsRow, Undecided, KeepsEvent, HasCompared,
         Proposed!TwinsAreFlagged, Proposed!Ids

-----------------------------------------------------------------------------
(* The results desk: a request that decides is of one of the staff, its    *)
(* value is a decision, and the review it read is still a row.             *)
ResultsInv ==
    /\ review \in Results!Reviews \cup {None}
    /\ DOMAIN callsOfResults = Requests
    /\ \A r \in Requests :
           LET c == callsOfResults[r]
           IN  /\ c.op \in {"submit", "decide"} => c.actor \in Editors
               /\ c.op = "decide" => c.value \in Results!Decisions /\ review # None
    /\ Results!ReviewNamesReviewer

LEMMA ResultsInit == Results!Init => ResultsInv
  <1> SUFFICES ASSUME Results!Init PROVE ResultsInv OBVIOUS
  <1>1. Results!Idle.op = None /\ review = None
        /\ callsOfResults = [r \in Requests |-> Results!Idle]
    BY DEF Results!Init, Results!Idle
  <1>2. \A r \in Requests : callsOfResults[r].op = None BY <1>1
  <1>3. None \notin {"submit", "decide"} BY NoneAssumption
  <1> QED BY <1>1, <1>2, <1>3 DEF ResultsInv, Results!ReviewNamesReviewer

(* A request that starts, and one that ends with the review as it is.      *)
LEMMA RequestsReview ==
    ASSUME ResultsInv, NEW r \in Requests, NEW d,
           callsOfResults' = [callsOfResults EXCEPT ![r] = d],
           d.op \in {"submit", "decide"} => d.actor \in Editors,
           d.op = "decide" => d.value \in Results!Decisions /\ review' # None,
           \/ UNCHANGED review
           \/ /\ review' \in Results!Reviews /\ review' # None
              /\ review'.status = "PENDING" <=> review'.reviewed_by = None
    PROVE  ResultsInv'
  <1>1. /\ DOMAIN callsOfResults' = Requests /\ callsOfResults'[r] = d
        /\ \A q \in Requests \ {r} : callsOfResults'[q] = callsOfResults[q]
    BY DEF ResultsInv
  <1>2. review' \in Results!Reviews \cup {None} /\ (review # None => review' # None)
    BY DEF ResultsInv
  <1>3. ASSUME NEW q \in Requests
        PROVE  /\ callsOfResults'[q].op \in {"submit", "decide"}
                      => callsOfResults'[q].actor \in Editors
               /\ callsOfResults'[q].op = "decide"
                      => callsOfResults'[q].value \in Results!Decisions /\ review' # None
    BY <1>1, <1>2 DEF ResultsInv
  <1>4. Results!ReviewNamesReviewer' BY DEF ResultsInv, Results!ReviewNamesReviewer
  <1> QED BY <1>1, <1>2, <1>3, <1>4 DEF ResultsInv

LEMMA ResultsNext == ResultsInv /\ Results!Next => ResultsInv'
  <1> SUFFICES ASSUME ResultsInv, Results!Next PROVE ResultsInv' OBVIOUS
  <1>1. None \notin {"submit", "decide"} /\ None \notin Editors BY NoneAssumption
  <1>2. ASSUME NEW r \in Requests, NEW op, NEW actor, NEW v, Results!Begin(r, op, actor, v),
               op \in {"submit", "decide"} => actor \in Editors,
               op = "decide" => v \in Results!Decisions /\ review # None
        PROVE  ResultsInv'
    <2> DEFINE d == [op |-> op, actor |-> actor, value |-> v]
    <2>1. d.op = op /\ d.actor = actor /\ d.value = v OBVIOUS
    <2>2. callsOfResults' = [callsOfResults EXCEPT ![r] = d] /\ UNCHANGED review
      BY <1>2 DEF Results!Begin
    <2> HIDE DEF d
    <2> QED BY <1>2, <2>1, <2>2, RequestsReview
  <1>3. ASSUME NEW r \in Requests, Results!End(r),
               \/ UNCHANGED review
               \/ /\ review' \in Results!Reviews /\ review' # None
                  /\ review'.status = "PENDING" <=> review'.reviewed_by = None
        PROVE  ResultsInv'
    BY <1>1, <1>3, RequestsReview DEF Results!Idle, Results!End
  <1>4. CASE Results!Data
    BY <1>2, <1>4 DEF Results!Data, Results!SetStatus, Results!Reschedule, Results!UpdateScore,
                      Results!Complete
  <1>5. CASE Results!Reviewing BY <1>2, <1>5 DEF Results!Reviewing, Results!Submit, Results!Decide
  <1>6. CASE Results!Saving
    <2>1. PICK r \in Requests :
              \/ Results!SaveStatus(r) \/ Results!SaveTimes(r) \/ Results!SaveScore(r)
              \/ Results!SaveCompleted(r) \/ Results!SaveSubmission(r) \/ Results!SaveDecision(r)
      BY <1>6 DEF Results!Saving
    <2>2. CASE Results!SaveSubmission(r)
      <3>1. callsOfResults[r].actor \in Editors /\ Results!End(r)
            /\ review' = Results!Submitted(review, callsOfResults[r].actor)
        BY <2>2 DEF Results!SaveSubmission, Results!Running, ResultsInv
      <3>2. /\ review' \in Results!Reviews
            /\ review'.status = "PENDING" /\ review'.reviewed_by = None
        BY <3>1 DEF Results!Submitted, Results!Reviews
      <3>3. review' # None BY <3>2, NoneAssumption
      <3> QED BY <1>3, <3>1, <3>2, <3>3
    <2>3. CASE Results!SaveDecision(r)
      <3>1. /\ callsOfResults[r].actor \in Editors /\ Results!End(r) /\ review \in Results!Reviews
            /\ callsOfResults[r].value \in {"VERIFIED", "REJECTED"}
            /\ review' = [review EXCEPT !.status = callsOfResults[r].value,
                                        !.reviewed_by = callsOfResults[r].actor]
        BY <2>3 DEF Results!SaveDecision, Results!Running, Results!Decisions, ResultsInv
      <3>2. /\ review' \in Results!Reviews
            /\ review'.status # "PENDING" /\ review'.reviewed_by # None
        BY <1>1, <3>1 DEF Results!Reviews, Results!Decisions
      <3>3. review' # None BY <3>2, NoneAssumption
      <3> QED BY <1>3, <3>1, <3>2, <3>3
    <2>4. CASE \/ Results!SaveStatus(r) \/ Results!SaveTimes(r) \/ Results!SaveScore(r)
               \/ Results!SaveCompleted(r)
      BY <1>3, <2>4 DEF Results!SaveStatus, Results!SaveTimes, Results!SaveScore,
                        Results!SaveCompleted
    <2> QED BY <2>1, <2>2, <2>3, <2>4
  <1>7. CASE Results!Tick BY <1>7 DEF Results!Tick, ResultsInv, Results!ReviewNamesReviewer
  <1> QED BY <1>4, <1>5, <1>6, <1>7 DEF Results!Next

LEMMA ResultsStutter == ResultsInv /\ UNCHANGED resultsVars => ResultsInv'
  BY DEF ResultsInv, resultsVars, Results!ReviewNamesReviewer

-----------------------------------------------------------------------------
(* The newsroom: while requests follow each other, the one that runs has   *)
(* read the article as it is, and once its first statements are done, what *)
(* its save makes Top Story or Trending is the only one.                   *)
NewsCalls ==
    [op : {"approve", "feature", "trend", "reject", "edit", None},
     article : {1, 2, None}, was : BOOLEAN, save : News!News \cup {None},
     cleared : SUBSET {1, 2}, ready : BOOLEAN]
Exists(n) == news[n] # None
AloneOnTop ==
    \A m, n \in {1, 2} :
        Exists(m) /\ Exists(n) /\ news[m].is_featured /\ news[n].is_featured => m = n
AloneTrending ==
    \A m, n \in {1, 2} :
        Exists(m) /\ Exists(n) /\ news[m].is_trending /\ news[n].is_trending => m = n
ReadsArticle(r) ==
    LET c == callsOfNews[r]
    IN  c.op # None =>
            /\ c.article \in {1, 2} /\ Exists(c.article) /\ c.save # None
            /\ c.article \notin c.cleared /\ \A n \in c.cleared : Exists(n)
            /\ c.op \in {"trend", "reject", "edit"} => c.cleared = {}
FollowsRow(r) ==
    LET c == callsOfNews[r]
    IN  c.op # None =>
            /\ c.op \in {"approve", "trend"} => c.was = news[c.article].is_trending
            /\ c.op \in {"reject", "edit"} =>
                   /\ c.save.is_featured = news[c.article].is_featured
                   /\ c.save.is_trending = news[c.article].is_trending
FindsRoom(r) ==
    LET c == callsOfNews[r]
    IN  c.op # None /\ c.ready =>
            /\ c.op \in {"approve", "trend"} /\ c.save.is_trending =>
                   \A m \in {1, 2} \ {c.article} : Exists(m) => ~news[m].is_trending
            /\ c.op \in {"approve", "feature"} /\ c.save.is_featured =>
                   \A m \in {1, 2} \ {c.article} :
                       Exists(m) /\ news[m].is_featured => m \in c.cleared
NewsInv ==
    /\ news \in [{1, 2} -> News!News \cup {None}]
    /\ callsOfNews \in [Requests -> NewsCalls]
    /\ \A r \in Requests : ReadsArticle(r)
    /\ ~overlappedOfNews =>
           /\ \A q, r \in Requests :
                  callsOfNews[q].op # None /\ callsOfNews[r].op # None => q = r
           /\ \A r \in Requests : FollowsRow(r) /\ FindsRoom(r)
           /\ AloneOnTop /\ AloneTrending

LEMMA NewsCardinality == \A S : News!Cardinality(S) = Cardinality(S)
  BY DEF News!Cardinality, News!IsFiniteSet, Cardinality, IsFiniteSet

LEMMA NewsInvSays == NewsInv => News!CurationHolds
  <1> SUFFICES ASSUME NewsInv, ~overlappedOfNews
               PROVE  News!OneTopStory /\ News!TrendingWithinCapacity
    BY DEF News!CurationHolds
  <1>1. AloneOnTop /\ AloneTrending BY DEF NewsInv
  <1>2. News!OneTopStory
    <2> DEFINE S == {n \in News!Written : news[n].is_featured}
    <2>1. S \subseteq {1, 2} /\ \A m, n \in S : m = n BY <1>1 DEF AloneOnTop, News!Written, Exists
    <2>2. Cardinality(S) <= 1 BY <2>1, AtMostOne
    <2> QED BY <2>2, NewsCardinality DEF News!OneTopStory
  <1>3. News!TrendingWithinCapacity
    <2> DEFINE S == {n \in News!Written : news[n].is_trending}
    <2>1. S \subseteq {1, 2} /\ \A m, n \in S : m = n
      BY <1>1 DEF AloneTrending, News!Written, Exists
    <2>2. Cardinality(S) <= 1 BY <2>1, AtMostOne
    <2> QED BY <2>2, NewsCardinality DEF News!TrendingWithinCapacity
  <1> QED BY <1>2, <1>3

LEMMA NewsIdle == News!Idle \in NewsCalls /\ News!Idle.op = None
  BY DEF News!Idle, NewsCalls

LEMMA NewsInit == News!Init => NewsInv
  <1> SUFFICES ASSUME News!Init PROVE NewsInv OBVIOUS
  <1>1. /\ news = [n \in {1, 2} |-> None]
        /\ callsOfNews = [r \in Requests |-> News!Idle]
    BY DEF News!Init
  <1>2. callsOfNews \in [Requests -> NewsCalls]
        /\ \A r \in Requests : callsOfNews[r].op = None
    BY <1>1, NewsIdle
  <1>3. \A n \in {1, 2} : ~Exists(n) BY <1>1 DEF Exists
  <1> QED BY <1>1, <1>2, <1>3
      DEF NewsInv, ReadsArticle, FollowsRow, FindsRoom, AloneOnTop, AloneTrending

(* An article is written, not yet on any list.                             *)
LEMMA WritingCurates ==
    ASSUME NewsInv, NEW n \in {1, 2}, ~Exists(n), NEW row \in News!News,
           ~row.is_featured, ~row.is_trending, news' = [news EXCEPT ![n] = row],
           UNCHANGED <<callsOfNews, overlappedOfNews>>
    PROVE  NewsInv'
  <1>1. /\ news' \in [{1, 2} -> News!News \cup {None}] /\ news'[n] = row
        /\ \A m \in {1, 2} \ {n} : news'[m] = news[m]
    BY DEF NewsInv
  <1>2. \A m \in {1, 2} : Exists(m) => Exists(m)' /\ news'[m] = news[m] BY <1>1 DEF Exists
  <1>3. \A m \in {1, 2} : Exists(m)' /\ (news'[m].is_featured \/ news'[m].is_trending) =>
            Exists(m) /\ news'[m] = news[m]
    BY <1>1 DEF Exists
  <1>4. ASSUME NEW r \in Requests
        PROVE  /\ ReadsArticle(r)' /\ callsOfNews'[r] = callsOfNews[r]
               /\ ~overlappedOfNews => FollowsRow(r)' /\ FindsRoom(r)'
    <2>1. PICK c \in NewsCalls : c = callsOfNews[r] BY DEF NewsInv
    <2>2. ReadsArticle(r) /\ callsOfNews'[r] = c
          /\ (~overlappedOfNews => FollowsRow(r) /\ FindsRoom(r))
      BY <2>1 DEF NewsInv
    <2>3. c.cleared \subseteq {1, 2} BY DEF NewsCalls
    <2>4. ReadsArticle(r)' BY <1>2, <2>1, <2>2, <2>3 DEF ReadsArticle
    <2>5. ~overlappedOfNews => FollowsRow(r)' BY <1>2, <2>1, <2>2 DEF FollowsRow, ReadsArticle
    <2>6. ~overlappedOfNews => FindsRoom(r)' BY <1>3, <2>1, <2>2 DEF FindsRoom
    <2> QED BY <2>1, <2>2, <2>4, <2>5, <2>6
  <1>5. ~overlappedOfNews => AloneOnTop' /\ AloneTrending'
    BY <1>3 DEF NewsInv, AloneOnTop, AloneTrending
  <1> QED BY <1>1, <1>4, <1>5 DEF NewsInv

(* A request starts, or makes its first statements, or ends: the articles  *)
(* are as they were.                                                       *)
LEMMA RequestsCurate ==
    ASSUME NewsInv, NEW r \in Requests, NEW d \in NewsCalls,
           callsOfNews' = [callsOfNews EXCEPT ![r] = d], UNCHANGED news,
           ReadsArticle(r)',
           ~overlappedOfNews' =>
               /\ ~overlappedOfNews
               /\ d.op # None => \A q \in Requests \ {r} : callsOfNews[q].op = None
               /\ FollowsRow(r)' /\ FindsRoom(r)'
    PROVE  NewsInv'
  <1>1. /\ callsOfNews' \in [Requests -> NewsCalls] /\ callsOfNews'[r] = d
        /\ \A q \in Requests \ {r} : callsOfNews'[q] = callsOfNews[q]
    BY DEF NewsInv
  <1>2. ASSUME NEW q \in Requests
        PROVE  /\ ReadsArticle(q)'
               /\ ~overlappedOfNews' => FollowsRow(q)' /\ FindsRoom(q)'
    <2>1. CASE q = r BY <2>1
    <2>2. CASE q # r
      <3>1. /\ ReadsArticle(q) /\ callsOfNews'[q] = callsOfNews[q]
            /\ ~overlappedOfNews => FollowsRow(q) /\ FindsRoom(q)
        BY <1>1, <2>2 DEF NewsInv
      <3>2. ReadsArticle(q)' BY <3>1 DEF ReadsArticle, Exists
      <3>3. ~overlappedOfNews => FollowsRow(q)' /\ FindsRoom(q)'
        BY <3>1 DEF FollowsRow, FindsRoom, Exists
      <3> QED BY <3>2, <3>3
    <2> QED BY <2>1, <2>2
  <1>3. ~overlappedOfNews' => \A p, q \in Requests :
            callsOfNews'[p].op # None /\ callsOfNews'[q].op # None => p = q
    BY <1>1 DEF NewsInv
  <1>4. ~overlappedOfNews' => AloneOnTop' /\ AloneTrending'
    BY DEF NewsInv, AloneOnTop, AloneTrending, Exists
  <1>5. news' \in [{1, 2} -> News!News \cup {None}] BY DEF NewsInv
  <1> QED BY <1>1, <1>2, <1>3, <1>4, <1>5 DEF NewsInv


(* A view reads the article: nobody else runs, or the history says so.     *)
LEMMA ReadingCurates ==
    ASSUME NewsInv, NEW r \in Requests, NEW n \in News!Written,
           \/ \E top, trending \in BOOLEAN : News!approve(r, n, top, trending)
           \/ \E on \in BOOLEAN : News!set_featured(r, n, on) \/ News!set_trending(r, n, on)
           \/ News!reject(r, n) \/ News!update_story(r, n)
    PROVE  NewsInv'
  <1>1. n \in {1, 2} /\ Exists(n) /\ news[n] \in News!News BY DEF News!Written, NewsInv, Exists
  <1>2. ASSUME NEW op \in {"approve", "feature", "trend", "reject", "edit"},
               NEW save \in News!News, NEW ready \in BOOLEAN,
               News!Begin(r, op, n, save, ready), ready <=> op \in {"reject", "edit"},
               op \in {"reject", "edit"} =>
                   /\ save.is_featured = news[n].is_featured
                   /\ save.is_trending = news[n].is_trending
        PROVE  NewsInv'
    <2> DEFINE d == [op |-> op, article |-> n, save |-> save,
                     was |-> op \in {"approve", "trend"} /\ news[n].is_trending,
                     cleared |-> {}, ready |-> ready]
    <2>1. callsOfNews' = [callsOfNews EXCEPT ![r] = d] /\ UNCHANGED news
          /\ (~overlappedOfNews' => ~overlappedOfNews /\ News!Running = {})
      BY <1>2 DEF News!Begin
    <2>2. news[n].is_trending \in BOOLEAN BY <1>1 DEF News!News
    <2>3. d \in NewsCalls BY <1>1, <2>2 DEF NewsCalls
    <2>4. /\ d.op = op /\ d.article = n /\ d.save = save /\ d.ready = ready /\ d.cleared = {}
          /\ op \in {"approve", "trend"} => d.was = news[n].is_trending
      BY <2>2
    <2> HIDE DEF d
    <2>5. callsOfNews'[r] = d BY <2>1 DEF NewsInv
    <2>6. ReadsArticle(r)' BY <1>1, <1>2, <2>1, <2>4, <2>5, NoneAssumption DEF ReadsArticle, Exists
    <2>7. FollowsRow(r)' BY <1>2, <2>1, <2>4, <2>5 DEF FollowsRow
    <2>8. FindsRoom(r)' BY <1>2, <2>4, <2>5 DEF FindsRoom
    <2>9. ~overlappedOfNews' => \A q \in Requests \ {r} : callsOfNews[q].op = None
      BY <2>1 DEF News!Running
    <2> QED BY <2>1, <2>3, <2>6, <2>7, <2>8, <2>9, RequestsCurate
  <1>3. \A s \in News!Status, top, trending \in BOOLEAN :
            [status |-> s, is_featured |-> top, is_trending |-> trending] \in News!News
    BY DEF News!News
  <1>4. {"PUBLISHED", "REJECTED"} \subseteq News!Status BY DEF News!Status
  <1>5. CASE \E top, trending \in BOOLEAN : News!approve(r, n, top, trending)
    BY <1>2, <1>3, <1>4, <1>5 DEF News!approve
  <1>6. ASSUME NEW on \in BOOLEAN, News!set_featured(r, n, on) \/ News!set_trending(r, n, on)
        PROVE  NewsInv'
    <2>1. /\ [News!New("PUBLISHED") EXCEPT !.is_featured = on] \in News!News
          /\ [News!New("PUBLISHED") EXCEPT !.is_trending = on] \in News!News
      BY <1>4 DEF News!New, News!News
    <2> QED BY <1>2, <1>6, <2>1 DEF News!set_featured, News!set_trending
  <1>7. CASE News!reject(r, n)
    <2> DEFINE save == [news[n] EXCEPT !.status = "REJECTED"]
    <2>1. save \in News!News /\ save.is_featured = news[n].is_featured
          /\ save.is_trending = news[n].is_trending
      BY <1>1, <1>4 DEF News!News
    <2>2. News!Begin(r, "reject", n, save, TRUE) BY <1>7 DEF News!reject
    <2> HIDE DEF save
    <2> QED BY <1>2, <2>1, <2>2
  <1>8. CASE News!update_story(r, n) BY <1>1, <1>2, <1>8 DEF News!update_story
  <1> QED BY <1>5, <1>6, <1>7, <1>8

(* A request that ends without a save.                                     *)
LEMMA EndingCurates ==
    ASSUME NewsInv, NEW r \in Requests, News!End(r), UNCHANGED <<news, overlappedOfNews>>
    PROVE  NewsInv'
  <1>1. callsOfNews' = [callsOfNews EXCEPT ![r] = News!Idle] BY DEF News!End
  <1>2. callsOfNews'[r].op = None BY <1>1, NewsIdle DEF NewsInv
  <1>3. ReadsArticle(r)' /\ FollowsRow(r)' /\ FindsRoom(r)'
    BY <1>2 DEF ReadsArticle, FollowsRow, FindsRoom
  <1> QED BY <1>1, <1>3, NewsIdle, RequestsCurate

(* The capacity is checked, and the other Top Story cleared.               *)
LEMMA CheckingCurates ==
    ASSUME NewsInv, NEW r \in Requests, News!CheckAndClear(r)
    PROVE  NewsInv'
  <1> DEFINE clear == IF News!Clears(callsOfNews[r]) THEN News!Others(callsOfNews[r].article)
                      ELSE {}
  <1>1. PICK c \in NewsCalls : c = callsOfNews[r] BY DEF NewsInv
  <1>2. c.op # None /\ ~c.ready /\ UNCHANGED <<news, overlappedOfNews>> /\ ReadsArticle(r)
    BY <1>1 DEF News!CheckAndClear, News!Running, NewsInv
  <1>3. /\ clear \subseteq {1, 2} /\ c.article \notin clear
        /\ \A n \in clear : Exists(n)
    BY <1>1 DEF News!Others, News!Written, Exists
  <1>4. CASE c.op \in {"approve", "trend"} /\ ~News!Capacity(c.article, c.was, c.save)
    <2>1. News!End(r) BY <1>1, <1>4 DEF News!CheckAndClear
    <2> QED BY <1>2, <2>1, EndingCurates
  <1>5. CASE ~(c.op \in {"approve", "trend"} /\ ~News!Capacity(c.article, c.was, c.save))
    <2> DEFINE d == [c EXCEPT !.ready = TRUE, !.cleared = clear]
    <2>1. callsOfNews' = [callsOfNews EXCEPT ![r].ready = TRUE, ![r].cleared = clear]
      BY <1>1, <1>5 DEF News!CheckAndClear
    <2>2. callsOfNews' = [callsOfNews EXCEPT ![r] = d] BY <1>1, <2>1 DEF NewsInv
    <2>3. /\ d \in NewsCalls /\ d.op = c.op /\ d.article = c.article /\ d.save = c.save
          /\ d.was = c.was /\ d.ready = TRUE /\ d.cleared = clear
      BY <1>3 DEF NewsCalls
    <2> HIDE DEF d
    <2>4. callsOfNews'[r] = d BY <2>2 DEF NewsInv
    <2>5. c.op \in {"trend", "reject", "edit"} => clear = {} BY <1>1 DEF News!Clears
    <2>6. ReadsArticle(r)' BY <1>1, <1>2, <1>3, <2>3, <2>4, <2>5 DEF ReadsArticle, Exists
    <2>7. FollowsRow(r) => FollowsRow(r)' BY <1>1, <1>2, <2>3, <2>4 DEF FollowsRow
    <2>8. ASSUME FollowsRow(r), AloneTrending PROVE FindsRoom(r)'
      <3>1. /\ c.article \in {1, 2} /\ Exists(c.article)
            /\ c.op \in {"approve", "trend"} => c.was = news[c.article].is_trending
        BY <1>1, <1>2, <2>8 DEF ReadsArticle, FollowsRow
      <3>2. ASSUME c.op \in {"approve", "trend"}, c.save.is_trending,
                   NEW m \in {1, 2} \ {c.article}, Exists(m)
            PROVE  ~news[m].is_trending
        <4>1. CASE c.was BY <2>8, <3>1, <3>2, <4>1 DEF AloneTrending
        <4>2. CASE ~c.was
          <5>1. News!Cardinality(News!Trending(c.article)) < 1 BY <1>5, <3>2, <4>2 DEF News!Capacity
          <5>2. News!Trending(c.article) \subseteq {1, 2} BY DEF News!Trending, News!Written
          <5>3. IsFiniteSet({1, 2})
            <6>1. IsFiniteSet({1}) BY FS_Singleton
            <6>2. {1, 2} = {1} \cup {2} OBVIOUS
            <6> QED BY <6>1, <6>2, FS_AddElement
          <5>4. IsFiniteSet(News!Trending(c.article))
                /\ Cardinality(News!Trending(c.article)) \in Nat
            BY <5>2, <5>3, FS_Subset, FS_CardinalityType
          <5>5. Cardinality(News!Trending(c.article)) = 0 BY <5>1, <5>4, NewsCardinality
          <5>6. News!Trending(c.article) = {} BY <5>4, <5>5, FS_EmptySet
          <5>7. ASSUME news[m].is_trending PROVE FALSE
            BY <3>2, <5>6, <5>7 DEF News!Trending, News!Written, Exists
          <5> QED BY <5>7
        <4> QED BY <4>1, <4>2
      <3>3. ASSUME c.op \in {"approve", "feature"}, c.save.is_featured,
                   NEW m \in {1, 2} \ {c.article}, Exists(m), news[m].is_featured
            PROVE  m \in clear
        BY <1>1, <3>3 DEF News!Clears, News!Others, News!Written, Exists
      <3>4. UNCHANGED news BY <1>2
      <3> HIDE DEF clear
      <3> QED BY <2>3, <2>4, <3>2, <3>3, <3>4 DEF FindsRoom, Exists
    <2>9. ~overlappedOfNews' => /\ ~overlappedOfNews
                                /\ \A q \in Requests \ {r} : callsOfNews[q].op = None
                                /\ FollowsRow(r)' /\ FindsRoom(r)'
      <3>1. ~overlappedOfNews' => /\ ~overlappedOfNews /\ FollowsRow(r) /\ AloneTrending
                                  /\ \A q \in Requests \ {r} : callsOfNews[q].op = None
        BY <1>1, <1>2 DEF NewsInv
      <3> QED BY <2>7, <2>8, <3>1
    <2>10. UNCHANGED news BY <1>2
    <2> HIDE DEF clear
    <2> QED BY <2>2, <2>3, <2>6, <2>9, <2>10, RequestsCurate
  <1> QED BY <1>4, <1>5

(* The save: nothing is lost of what its first statements found.           *)
LEMMA SavingCurates ==
    ASSUME NewsInv, NEW r \in Requests, News!Save(r)
    PROVE  NewsInv'
  <1>1. PICK c \in NewsCalls : c = callsOfNews[r] BY DEF NewsInv
  <1> DEFINE a == c.article
             row == News!Saved(c)
  <1>2. /\ c.op # None /\ c.ready /\ ReadsArticle(r) /\ News!End(r)
        /\ UNCHANGED overlappedOfNews
        /\ ~overlappedOfNews => FollowsRow(r) /\ FindsRoom(r)
    BY <1>1 DEF News!Save, News!Running, NewsInv
  <1>3. /\ a \in {1, 2} /\ Exists(a) /\ c.save \in News!News
        /\ c.cleared \subseteq {1, 2} /\ a \notin c.cleared /\ \A n \in c.cleared : Exists(n)
        /\ news[a] \in News!News
    BY <1>1, <1>2 DEF ReadsArticle, NewsCalls, NewsInv, Exists
  <1>4. news' = [n \in {1, 2} |->
                    CASE n = a -> row
                      [] n \in c.cleared -> [news[n] EXCEPT !.is_featured = FALSE]
                      [] OTHER -> news[n]]
    BY <1>1 DEF News!Save
  <1>5. row \in News!News /\ row # None BY <1>3, NoneAssumption DEF News!Saved, News!News
  <1> HIDE DEF row, a
  <1>6. /\ news'[a] = row
        /\ \A n \in {1, 2} \ {a} :
               news'[n] = IF n \in c.cleared THEN [news[n] EXCEPT !.is_featured = FALSE]
                          ELSE news[n]
    BY <1>3, <1>4
  <1>7. ASSUME NEW n \in {1, 2} \ {a}
        PROVE  /\ news'[n] \in News!News \cup {None}
               /\ Exists(n)' <=> Exists(n)
               /\ Exists(n) => /\ news'[n].is_trending = news[n].is_trending
                               /\ news'[n].is_featured =>
                                      news[n].is_featured /\ n \notin c.cleared
    <2>1. CASE n \in c.cleared
      <3>1. news[n] \in News!News BY <1>3, <2>1 DEF NewsInv, Exists
      <3>2. news'[n] = [news[n] EXCEPT !.is_featured = FALSE] BY <1>6, <2>1
      <3>3. /\ news'[n] \in News!News /\ ~news'[n].is_featured
            /\ news'[n].is_trending = news[n].is_trending
        BY <3>1, <3>2 DEF News!News
      <3> QED BY <1>3, <2>1, <3>3, NoneAssumption DEF Exists
    <2>2. CASE n \notin c.cleared BY <1>6, <2>2 DEF NewsInv, Exists
    <2> QED BY <2>1, <2>2
  <1>8. news' \in [{1, 2} -> News!News \cup {None}]
    <2>1. DOMAIN news' = {1, 2} /\ news' = [n \in {1, 2} |-> news'[n]] BY <1>4
    <2>2. \A n \in {1, 2} : news'[n] \in News!News \cup {None} BY <1>5, <1>6, <1>7
    <2> QED BY <2>1, <2>2
  <1>9. /\ callsOfNews' \in [Requests -> NewsCalls] /\ callsOfNews'[r].op = None
        /\ \A q \in Requests \ {r} : callsOfNews'[q] = callsOfNews[q]
    BY <1>2, NewsIdle DEF News!End, NewsInv
  <1>10. \A n \in {1, 2} : Exists(n) => Exists(n)' BY <1>5, <1>6, <1>7 DEF Exists
  <1>11. ASSUME NEW q \in Requests PROVE ReadsArticle(q)'
    <2>1. CASE q = r BY <1>9, <2>1 DEF ReadsArticle
    <2>2. CASE q # r BY <1>9, <1>10, <2>2 DEF NewsInv, NewsCalls, ReadsArticle
    <2> QED BY <2>1, <2>2
  <1>12. ASSUME ~overlappedOfNews
         PROVE  /\ \A q \in Requests : callsOfNews'[q].op = None
                /\ AloneOnTop' /\ AloneTrending'
    <2>1. AloneOnTop /\ AloneTrending /\ FollowsRow(r) /\ FindsRoom(r)
          /\ \A q \in Requests \ {r} : callsOfNews[q].op = None
      BY <1>1, <1>2, <1>12 DEF NewsInv
    <2>2. \/ c.op \in {"approve", "feature", "trend"}
          \/ c.op \in {"reject", "edit"}
      BY <1>2 DEF NewsCalls
    <2>3. ASSUME row.is_trending, NEW m \in {1, 2} \ {a}, Exists(m)
          PROVE  ~news[m].is_trending
      <3>1. CASE news[a].is_trending BY <1>3, <2>1, <2>3, <3>1 DEF AloneTrending
      <3>2. CASE ~news[a].is_trending
        <4>1. c.op \in {"approve", "trend"} /\ c.save.is_trending
          BY <1>1, <1>2, <1>3, <2>1, <2>2, <2>3, <3>2
             DEF a, row, News!Saved, FollowsRow, News!News
        <4> QED BY <1>1, <1>2, <2>1, <2>3, <4>1 DEF FindsRoom, a
      <3> QED BY <3>1, <3>2
    <2>4. ASSUME row.is_featured, NEW m \in {1, 2} \ {a}, Exists(m), news[m].is_featured
          PROVE  m \in c.cleared
      <3>1. ~news[a].is_featured BY <1>3, <2>1, <2>4 DEF AloneOnTop
      <3>2. c.op \in {"approve", "feature"} /\ c.save.is_featured
        BY <1>1, <1>2, <1>3, <2>1, <2>2, <2>4, <3>1
           DEF a, row, News!Saved, FollowsRow, News!News
      <3> QED BY <1>1, <1>2, <2>1, <2>4, <3>2 DEF FindsRoom, a
    <2>5. AloneTrending'
      <3> SUFFICES ASSUME NEW m \in {1, 2}, NEW n \in {1, 2}, m # n, Exists(m)', Exists(n)',
                          news'[m].is_trending, news'[n].is_trending
                   PROVE  FALSE
        BY DEF AloneTrending
      <3>1. CASE m = a BY <1>6, <1>7, <2>3, <3>1
      <3>2. CASE n = a BY <1>6, <1>7, <2>3, <3>2
      <3>3. CASE m # a /\ n # a BY <1>7, <2>1, <3>3 DEF AloneTrending
      <3> QED BY <3>1, <3>2, <3>3
    <2>6. AloneOnTop'
      <3> SUFFICES ASSUME NEW m \in {1, 2}, NEW n \in {1, 2}, m # n, Exists(m)', Exists(n)',
                          news'[m].is_featured, news'[n].is_featured
                   PROVE  FALSE
        BY DEF AloneOnTop
      <3>1. CASE m = a BY <1>6, <1>7, <2>4, <3>1
      <3>2. CASE n = a BY <1>6, <1>7, <2>4, <3>2
      <3>3. CASE m # a /\ n # a BY <1>7, <2>1, <3>3 DEF AloneOnTop
      <3> QED BY <3>1, <3>2, <3>3
    <2>7. \A q \in Requests : callsOfNews'[q].op = None BY <1>9, <2>1
    <2> QED BY <2>5, <2>6, <2>7
  <1>13. overlappedOfNews' = overlappedOfNews BY <1>2
  <1>14. ASSUME ~overlappedOfNews, NEW q \in Requests PROVE FollowsRow(q)' /\ FindsRoom(q)'
    BY <1>12, <1>14 DEF FollowsRow, FindsRoom
  <1> QED BY <1>8, <1>9, <1>11, <1>12, <1>13, <1>14 DEF NewsInv

LEMMA NewsNext == NewsInv /\ News!Next => NewsInv'
  <1> SUFFICES ASSUME NewsInv, News!Next PROVE NewsInv' OBVIOUS
  <1>1. CASE News!Writing
    <2>1. PICK n \in {1, 2} : News!submit_for_review(n) \/ News!compose_and_publish(n)
      BY <1>1 DEF News!Writing
    <2>2. \A s \in News!Status : /\ News!New(s) \in News!News
                                 /\ ~News!New(s).is_featured /\ ~News!New(s).is_trending
      BY DEF News!New, News!News
    <2>3. PICK s \in News!Status : news' = [news EXCEPT ![n] = News!New(s)]
      BY <2>1 DEF News!submit_for_review, News!compose_and_publish, News!Status
    <2>4. ~Exists(n) /\ UNCHANGED <<callsOfNews, overlappedOfNews>>
      BY <2>1 DEF News!submit_for_review, News!compose_and_publish, News!Written, Exists
    <2> QED BY <2>2, <2>3, <2>4, WritingCurates
  <1>2. CASE News!Moderating BY <1>2, ReadingCurates DEF News!Moderating
  <1>3. CASE News!Work
    <2>1. ASSUME NEW r \in Requests, News!Deadlock(r) PROVE NewsInv'
      BY <2>1, EndingCurates DEF News!Deadlock
    <2> QED BY <1>3, <2>1, CheckingCurates, SavingCurates DEF News!Work
  <1> QED BY <1>1, <1>2, <1>3 DEF News!Next

LEMMA NewsStutter == NewsInv /\ UNCHANGED newsVars => NewsInv'
  BY DEF NewsInv, newsVars, ReadsArticle, FollowsRow, FindsRoom, AloneOnTop, AloneTrending, Exists

-----------------------------------------------------------------------------
(* The squad: while the requests of the owner follow each other, what one  *)
(* has read of the squad is what it writes over, so the place, the role    *)
(* and the budget it writes are those of the squad then.                   *)
SquadRequests ==
    [gameweek : {1}, slot : 1..3, player : 1..4, price : {1, 2}, role : Squad!Roles,
     budget : Int]
PlayersAre(chosen) ==
    /\ Squad!Cardinality(Squad!PlayersOf(chosen)) = Squad!Cardinality(Squad!Slots)
    /\ Squad!ClubQuota(Squad!PlayersOf(chosen))
StillFits(r) ==
    LET q == request[r]
    IN  q # None =>
            /\ q.role = squad[q.slot].role
            /\ q.budget = budget + squad[q.slot].price - q.price
            /\ PlayersAre([Squad!Chosen EXCEPT ![q.slot] = q.player])
SquadInv ==
    /\ priceOfSquad \in [1..4 -> {1, 2}]
    /\ squad \in [1..3 -> Squad!Selections] /\ budget \in Int
    /\ state \in [{1} -> [used : Nat, penalty : Nat]]
    /\ transfers \in [{1} -> [count : Nat, penalties : Nat]]
    /\ request \in [Requests -> SquadRequests \cup {None}]
    /\ Squad!PenaltiesAgree
    /\ ~overlappedOfSquad =>
           /\ PlayersAre(Squad!Chosen) /\ Squad!OneEach(Squad!Role)
           /\ budget = 5 - Squad!Paid
           /\ \A r \in Requests : StillFits(r)

LEMMA SquadInvSays == SquadInv => Squad!PenaltiesAgree /\ Squad!SquadStaysLegal
  BY DEF SquadInv, PlayersAre, Squad!SquadStaysLegal

(* What the places have cost.                                              *)
Costs(w) == [s \in 1..3 |-> w[s].price]
CostOf(w, S) ==
    (CHOOSE g : g = [s \in SUBSET S |->
                        IF s = {} THEN 0
                        ELSE w[CHOOSE x \in s : TRUE].price
                             + g[s \ {CHOOSE x \in s : TRUE}]])[S]

LEMMA PaidIsCost ==
    Squad!Paid = CostOf(squad, 1..3) /\ Squad!Paid' = CostOf(squad', 1..3)
  BY DEF Squad!Paid, Squad!Slots, Squad!MapThenSumSet, Squad!MapThenFoldSet, CostOf

LEMMA PlacesAreFinite == IsFiniteSet(1..3)
  <1>1. PICK a \in Int, b \in Int : a = 1 /\ b = 3 OBVIOUS
  <1>2. IsFiniteSet(a..b) BY FS_Interval
  <1> QED BY <1>1, <1>2

LEMMA CostIsSum ==
    ASSUME NEW w \in [1..3 -> Squad!Selections]
    PROVE  CostOf(w, 1..3) = SumOf(Costs(w), 1..3)
  <1> DEFINE G == CHOOSE g : g = [s \in SUBSET (1..3) |->
                        IF s = {} THEN 0
                        ELSE w[CHOOSE x \in s : TRUE].price
                             + g[s \ {CHOOSE x \in s : TRUE}]]
  <1>0. PICK S, f : S = 1..3 /\ f = Costs(w) OBVIOUS
  <1>1. IsFiniteSet(S) /\ \A k \in S : f[k] \in Int /\ f[k] = w[k].price
    BY <1>0, PlacesAreFinite DEF Costs, Squad!Selections
  <1>2. PICK g \in [SUBSET S -> Int] :
            (\A s \in SUBSET S : Solves(g, f, s)) /\ SumOf(f, S) = g[S]
    BY <1>1, SumIsSolution
  <1>3. g = [s \in SUBSET S |->
                        IF s = {} THEN 0
                        ELSE w[CHOOSE x \in s : TRUE].price
                             + g[s \ {CHOOSE x \in s : TRUE}]]
    BY <1>1, <1>2, SomeIsMember DEF Solves, Some
  <1>4. PICK h : /\ h = [s \in SUBSET S |->
                        IF s = {} THEN 0
                        ELSE w[CHOOSE x \in s : TRUE].price
                             + h[s \ {CHOOSE x \in s : TRUE}]]
                 /\ CostOf(w, S) = h[S]
    <2>1. G = [s \in SUBSET (1..3) |->
                        IF s = {} THEN 0
                        ELSE w[CHOOSE x \in s : TRUE].price
                             + G[s \ {CHOOSE x \in s : TRUE}]]
      BY <1>0, <1>3, Zenon
    <2> QED BY <1>0, <2>1, Zenon DEF CostOf
  <1>5. \A s \in SUBSET S : Solves(h, f, s) BY <1>1, <1>4, SomeIsMember DEF Solves, Some
  <1>6. SumOf(f, S) = h[S] BY <1>1, <1>5, SumOfSubset
  <1> QED BY <1>0, <1>4, <1>6

(* A place that is taken by another changes the cost by the difference of  *)
(* the prices; one that only changes its role does not.                    *)
LEMMA CostChanges ==
    ASSUME NEW v \in [1..3 -> Squad!Selections], NEW w \in [1..3 -> Squad!Selections],
           NEW k \in 1..3, \A s \in (1..3) \ {k} : w[s].price = v[s].price
    PROVE  /\ CostOf(v, 1..3) \in Int
           /\ CostOf(w, 1..3) = CostOf(v, 1..3) + (w[k].price - v[k].price)
  <1>0. PICK S, f, g, j : j = k /\ S = 1..3 /\ f = Costs(v) /\ g = Costs(w) OBVIOUS
  <1>1. IsFiniteSet(S) /\ j \in S BY <1>0, PlacesAreFinite
  <1>2. \A s \in S : /\ f[s] \in Int /\ g[s] \in Int
                     /\ f[s] = v[s].price /\ g[s] = w[s].price
    BY <1>0 DEF Costs, Squad!Selections
  <1>3. \A s \in S \ {j} : g[s] = f[s] BY <1>0, <1>2
  <1>4. SumOf(g, S) = SumOf(f, S) + (g[j] - f[j])
    <2>1. \A s \in S : f[s] \in Int /\ g[s] \in Int BY <1>2
    <2> QED BY <1>1, <1>3, <2>1, SumChanges
  <1>5. SumOf(f, S) \in Int BY <1>1, <1>2, SumIsInteger
  <1>6. CostOf(v, 1..3) = SumOf(f, S) /\ CostOf(w, 1..3) = SumOf(g, S) BY <1>0, CostIsSum
  <1> QED BY <1>0, <1>1, <1>2, <1>4, <1>5, <1>6

(* What is above the free transfers.                                       *)
LEMMA Above ==
    ASSUME NEW n \in Int
    PROVE  Squad!Max({0, n}) = IF n > 0 THEN n ELSE 0
  <1>1. PICK m \in {0, n} : \A y \in {0, n} : m >= y OBVIOUS
  <1>2. Squad!Max({0, n}) \in {0, n} /\ \A y \in {0, n} : Squad!Max({0, n}) >= y
    BY <1>1, Zenon DEF Squad!Max
  <1> QED BY <1>2


(* The team as it is created: two players of one club, one of the other.   *)
LEMMA ClubsOfPlayers ==
    /\ ClubOfPlayer[1] = 1 /\ ClubOfPlayer[2] = 1 /\ ClubOfPlayer[3] = 2
    /\ PriceOfPlayer = [p \in 1..4 |-> IF p = 4 THEN 2 ELSE 1]
  BY DEF ClubOfPlayer, PriceOfPlayer

LEMMA SquadCardinality == \A S : Squad!Cardinality(S) = Cardinality(S)
  BY DEF Squad!Cardinality, Squad!IsFiniteSet, Cardinality, IsFiniteSet

LEMMA FirstPlayers == PlayersAre([s \in 1..3 |-> <<1, 2, 3>>[s]])
  <1> DEFINE P == Squad!PlayersOf([s \in 1..3 |-> <<1, 2, 3>>[s]])
  <1>1. P = {1, 2, 3} /\ P = 1..3 BY DEF Squad!PlayersOf, Squad!Slots
  <1>2. ASSUME NEW p \in P PROVE Cardinality({q \in P : ClubOfPlayer[q] = ClubOfPlayer[p]}) <= 2
    <2> DEFINE C == {q \in P : ClubOfPlayer[q] = ClubOfPlayer[p]}
    <2>1. \E a, b \in 1..3 : C = {a} \cup {b}
      <3>1. CASE p = 3 BY <1>1, <3>1, ClubsOfPlayers
      <3>2. CASE p \in {1, 2} BY <1>1, <3>2, ClubsOfPlayers
      <3> QED BY <1>1, <3>1, <3>2
    <2>2. PICK a, b : C = {a} \cup {b} BY <2>1
    <2>3. IsFiniteSet({a}) /\ Cardinality({a}) = 1 BY FS_Singleton
    <2>4. Cardinality({a} \cup {b}) = IF b \in {a} THEN Cardinality({a}) ELSE Cardinality({a}) + 1
      BY <2>3, FS_AddElement
    <2>5. Cardinality(C) <= 2 BY <2>2, <2>3, <2>4
    <2> QED BY <2>5
  <1>3. Squad!ClubQuota(P) BY <1>2, SquadCardinality DEF Squad!ClubQuota
  <1>4. Squad!Cardinality(P) = Squad!Cardinality(Squad!Slots) BY <1>1 DEF Squad!Slots
  <1> QED BY <1>3, <1>4 DEF PlayersAre

LEMMA SquadInit == Squad!Init => SquadInv
  <1> SUFFICES ASSUME Squad!Init PROVE SquadInv OBVIOUS
  <1>1. /\ priceOfSquad = PriceOfPlayer /\ budget = 5 - Squad!Paid
        /\ squad = [s \in 1..3 |->
              [player |-> <<1, 2, 3>>[s], price |-> priceOfSquad[<<1, 2, 3>>[s]],
               role |-> <<"captain", "vice", "bench">>[s]]]
        /\ state = [g \in {1} |-> [used |-> 0, penalty |-> 0]]
        /\ transfers = [g \in {1} |-> [count |-> 0, penalties |-> 0]]
        /\ request = [r \in Requests |-> None]
    BY DEF Squad!Init, Squad!Slots
  <1>2. priceOfSquad \in [1..4 -> {1, 2}] BY <1>1, ClubsOfPlayers
  <1>3. squad \in [1..3 -> Squad!Selections]
    <2>1. ASSUME NEW s \in 1..3
          PROVE  [player |-> <<1, 2, 3>>[s], price |-> priceOfSquad[<<1, 2, 3>>[s]],
                  role |-> <<"captain", "vice", "bench">>[s]] \in Squad!Selections
      BY <1>2 DEF Squad!Roles, Squad!Selections
    <2> QED BY <1>1, <2>1
  <1>4. Squad!Chosen = [s \in 1..3 |-> <<1, 2, 3>>[s]] BY <1>1 DEF Squad!Chosen, Squad!Slots
  <1>5. Squad!Role = [s \in 1..3 |-> <<"captain", "vice", "bench">>[s]]
    BY <1>1 DEF Squad!Role, Squad!Slots
  <1>6. Squad!OneEach(Squad!Role) BY <1>5 DEF Squad!OneEach, Squad!Roles, Squad!Slots
  <1>7. PlayersAre(Squad!Chosen) BY <1>4, FirstPlayers
  <1>8. budget \in Int
    <2>1. CostOf(squad, 1..3) \in Int BY <1>3, CostChanges
    <2> QED BY <1>1, <2>1, PaidIsCost
  <1>9. Squad!PenaltiesAgree BY <1>1, Above DEF Squad!PenaltiesAgree
  <1>10. \A r \in Requests : StillFits(r) BY <1>1 DEF StillFits
  <1>11. /\ state \in [{1} -> [used : Nat, penalty : Nat]]
         /\ transfers \in [{1} -> [count : Nat, penalties : Nat]]
         /\ request \in [Requests -> SquadRequests \cup {None}]
    BY <1>1
  <1> QED BY <1>1, <1>2, <1>3, <1>6, <1>7, <1>8, <1>9, <1>10, <1>11 DEF SquadInv

(* A request has read the squad: what it has checked is what it will write *)
(* if nobody writes before it.                                             *)
LEMMA ReadingFits ==
    ASSUME SquadInv, NEW r \in Requests, NEW g \in {1}, NEW s \in 1..3, NEW in \in 1..4,
           Squad!ReadTransfer(r, g, s, in)
    PROVE  SquadInv'
  <1> DEFINE d == [gameweek |-> g, slot |-> s, player |-> in, price |-> priceOfSquad[in],
                   role |-> squad[s].role, budget |-> Squad!NewBudget(s, in)]
  <1>1. /\ request' = [request EXCEPT ![r] = d]
        /\ UNCHANGED <<priceOfSquad, squad, budget, state, transfers, overlappedOfSquad>>
    BY DEF Squad!ReadTransfer, Squad!pool, Squad!team
  <1>2. priceOfSquad[in] \in {1, 2} /\ squad[s] \in Squad!Selections /\ budget \in Int
    BY DEF SquadInv
  <1>3. squad[s].role \in Squad!Roles /\ squad[s].price \in {1, 2} BY <1>2 DEF Squad!Selections
  <1>4. Squad!NewBudget(s, in) = budget + squad[s].price - priceOfSquad[in]
        /\ Squad!NewBudget(s, in) \in Int
    BY <1>2, <1>3 DEF Squad!NewBudget
  <1>5. d \in SquadRequests BY <1>2, <1>3, <1>4 DEF SquadRequests
  <1>6. /\ d.slot = s /\ d.player = in /\ d.price = priceOfSquad[in] /\ d.role = squad[s].role
        /\ d.budget = Squad!NewBudget(s, in)
    OBVIOUS
  <1> HIDE DEF d
  <1>7. PlayersAre([Squad!Chosen EXCEPT ![s] = in])
    BY DEF Squad!ReadTransfer, Squad!MayTransfer, Squad!Valid, PlayersAre
  <1>8. /\ request' \in [Requests -> SquadRequests \cup {None}] /\ request'[r] = d
        /\ \A q \in Requests \ {r} : request'[q] = request[q]
    BY <1>1, <1>5 DEF SquadInv
  <1>9. Squad!Chosen' = Squad!Chosen /\ Squad!Role' = Squad!Role /\ Squad!Paid' = Squad!Paid
    BY <1>1, PaidIsCost DEF Squad!Chosen, Squad!Role
  <1>10. StillFits(r)' BY <1>1, <1>4, <1>6, <1>7, <1>8, <1>9 DEF StillFits
  <1>11. ASSUME NEW q \in Requests \ {r}, StillFits(q) PROVE StillFits(q)'
    BY <1>1, <1>8, <1>9, <1>11 DEF StillFits
  <1>12. Squad!PenaltiesAgree' BY <1>1 DEF SquadInv, Squad!PenaltiesAgree
  <1>13. ~overlappedOfSquad' =>
            /\ PlayersAre(Squad!Chosen)' /\ Squad!OneEach(Squad!Role)'
            /\ budget' = 5 - Squad!Paid' /\ \A q \in Requests : StillFits(q)'
    <2> SUFFICES ASSUME ~overlappedOfSquad
                 PROVE  /\ PlayersAre(Squad!Chosen)' /\ Squad!OneEach(Squad!Role)'
                        /\ budget' = 5 - Squad!Paid' /\ \A q \in Requests : StillFits(q)'
      BY <1>1
    <2>1. /\ PlayersAre(Squad!Chosen) /\ Squad!OneEach(Squad!Role)
          /\ budget = 5 - Squad!Paid /\ \A q \in Requests : StillFits(q)
      BY DEF SquadInv
    <2>2. \A q \in Requests : StillFits(q)' BY <1>10, <1>11, <2>1
    <2>3. budget' = 5 - Squad!Paid' BY <1>1, <1>9, <2>1
    <2>4. PlayersAre(Squad!Chosen)' BY <1>9, <2>1
    <2>5. Squad!OneEach(Squad!Role)' BY <1>9, <2>1
    <2> QED BY <2>2, <2>3, <2>4, <2>5
  <1> QED BY <1>1, <1>8, <1>12, <1>13 DEF SquadInv


(* A transfer is written, and counted once.                                *)
LEMMA WritingCounts ==
    ASSUME SquadInv, NEW g \in {1}, NEW n \in {0, 4},
           n = Squad!PenaltyOf(g),
           transfers' = [transfers EXCEPT ![g].count = @ + 1, ![g].penalties = @ + n],
           state' = [state EXCEPT ![g].used = @ + 1, ![g].penalty = @ + n]
    PROVE  /\ state' \in [{1} -> [used : Nat, penalty : Nat]]
           /\ transfers' \in [{1} -> [count : Nat, penalties : Nat]]
           /\ Squad!PenaltiesAgree'
  <1>1. PICK s \in [used : Nat, penalty : Nat] : s = state[1] BY DEF SquadInv
  <1>2. PICK t \in [count : Nat, penalties : Nat] : t = transfers[1] BY DEF SquadInv
  <1>3. s.used \in Nat /\ s.penalty \in Nat /\ t.count \in Nat /\ t.penalties \in Nat OBVIOUS
  <1>4. PICK above \in Int, next \in Int : above = s.used - 1 /\ next = s.used BY <1>3
  <1>5. s.used = t.count /\ s.penalty = t.penalties /\ s.penalty = 4 * Squad!Max({0, above})
    BY <1>1, <1>2, <1>4 DEF SquadInv, Squad!PenaltiesAgree
  <1>6. n = IF s.used < 1 THEN 0 ELSE 4 BY <1>1 DEF Squad!PenaltyOf, Squad!FreeLeft
  <1>7. Squad!Max({0, above}) = (IF above > 0 THEN above ELSE 0)
        /\ Squad!Max({0, next}) = IF next > 0 THEN next ELSE 0
    BY Above
  <1>8. PICK a \in Nat, b \in Nat, c \in Nat, d \in Nat :
             a = s.used + 1 /\ b = s.penalty + n /\ c = t.count + 1 /\ d = t.penalties + n
    BY <1>3
  <1> DEFINE u == [s EXCEPT !.used = a, !.penalty = b]
             v == [t EXCEPT !.count = c, !.penalties = d]
  <1>9. state' = [state EXCEPT ![1] = u] /\ transfers' = [transfers EXCEPT ![1] = v]
    BY <1>1, <1>2, <1>8 DEF SquadInv
  <1>10. /\ u \in [used : Nat, penalty : Nat] /\ u.used = a /\ u.penalty = b
         /\ v \in [count : Nat, penalties : Nat] /\ v.count = c /\ v.penalties = d
    OBVIOUS
  <1>11. /\ u \in [used : Nat, penalty : Nat] /\ u.used = s.used + 1 /\ u.penalty = s.penalty + n
        /\ v \in [count : Nat, penalties : Nat]
        /\ v.count = t.count + 1 /\ v.penalties = t.penalties + n
    BY <1>8, <1>10
  <1> HIDE DEF u, v
  <1>12. /\ state' \in [{1} -> [used : Nat, penalty : Nat]] /\ state'[1] = u
         /\ transfers' \in [{1} -> [count : Nat, penalties : Nat]] /\ transfers'[1] = v
    <2>1. state \in [{1} -> [used : Nat, penalty : Nat]]
          /\ transfers \in [{1} -> [count : Nat, penalties : Nat]]
      BY DEF SquadInv
    <2>2. PICK S, T : S = [used : Nat, penalty : Nat] /\ T = [count : Nat, penalties : Nat] OBVIOUS
    <2>3. u \in S /\ v \in T /\ state \in [{1} -> S] /\ transfers \in [{1} -> T]
      BY <1>11, <2>1, <2>2
    <2>4. /\ state' \in [{1} -> S] /\ state'[1] = u
          /\ transfers' \in [{1} -> T] /\ transfers'[1] = v
      <3>1. /\ state' = [state EXCEPT ![1] = u] /\ state \in [{1} -> S] /\ u \in S
            /\ transfers' = [transfers EXCEPT ![1] = v] /\ transfers \in [{1} -> T] /\ v \in T
        BY <1>9, <2>3
      <3>2. state' \in [{1} -> S] BY <3>1
      <3>3. state'[1] = u BY <3>1
      <3>4. transfers' \in [{1} -> T] BY <3>1
      <3>5. transfers'[1] = v BY <3>1
      <3> QED BY <3>2, <3>3, <3>4, <3>5
    <2> QED BY <2>2, <2>4
  <1>13. u.used = v.count /\ u.penalty = v.penalties BY <1>5, <1>11
  <1>14. u.penalty = 4 * Squad!Max({0, next}) BY <1>3, <1>4, <1>5, <1>6, <1>7, <1>11
  <1>15. u.used - 1 = next BY <1>3, <1>4, <1>11
  <1>16. u.penalty = 4 * Squad!Max({0, u.used - 1}) BY <1>14, <1>15
  <1> QED BY <1>12, <1>13, <1>16 DEF Squad!PenaltiesAgree

LEMMA WritingFits ==
    ASSUME SquadInv, NEW r \in Requests, Squad!WriteTransfer(r)
    PROVE  SquadInv'
  <1>1. PICK q \in SquadRequests : q = request[r] BY DEF Squad!WriteTransfer, SquadInv
  <1> DEFINE row == [player |-> q.player, price |-> q.price, role |-> q.role]
  <1>2. /\ q # None /\ request' = [request EXCEPT ![r] = None]
        /\ UNCHANGED priceOfSquad
        /\ ~overlappedOfSquad' =>
               ~overlappedOfSquad /\ \A o \in Requests \ {r} : request[o] = None
    BY <1>1 DEF Squad!WriteTransfer, Squad!pool
  <1>3. /\ q.gameweek \in {1} /\ q.slot \in 1..3 /\ q.budget \in Int
        /\ row \in Squad!Selections
        /\ row.price = q.price /\ row.role = q.role /\ row.player = q.player
    BY DEF SquadRequests, Squad!Selections
  <1>4. /\ request' \in [Requests -> SquadRequests \cup {None}]
        /\ ~overlappedOfSquad' => \A o \in Requests : request'[o] = None
    BY <1>2 DEF SquadInv
  <1>5. ~overlappedOfSquad' => \A o \in Requests : StillFits(o)' BY <1>4 DEF StillFits
  <1>6. CASE Squad!Unique(q.slot, row)
    <2>1. /\ transfers' = [transfers EXCEPT ![q.gameweek].count = @ + 1,
                              ![q.gameweek].penalties = @ + Squad!PenaltyOf(q.gameweek)]
          /\ state' = [state EXCEPT ![q.gameweek].used = @ + 1,
                              ![q.gameweek].penalty = @ + Squad!PenaltyOf(q.gameweek)]
          /\ squad' = [squad EXCEPT ![q.slot] = row] /\ budget' = q.budget
      BY <1>1, <1>6 DEF Squad!WriteTransfer
    <2>2. PICK n \in {0, 4} : n = Squad!PenaltyOf(q.gameweek) BY DEF Squad!PenaltyOf
    <2>3. /\ state' \in [{1} -> [used : Nat, penalty : Nat]]
          /\ transfers' \in [{1} -> [count : Nat, penalties : Nat]]
          /\ Squad!PenaltiesAgree'
      BY <1>3, <2>1, <2>2, WritingCounts
    <2> HIDE DEF row
    <2>4. /\ squad' \in [1..3 -> Squad!Selections] /\ squad'[q.slot] = row
          /\ \A s \in (1..3) \ {q.slot} : squad'[s] = squad[s]
      BY <1>3, <2>1 DEF SquadInv
    <2>5. ASSUME ~overlappedOfSquad'
          PROVE  /\ PlayersAre(Squad!Chosen)' /\ Squad!OneEach(Squad!Role)'
                 /\ budget' = 5 - Squad!Paid'
      <3>1. /\ StillFits(r) /\ Squad!OneEach(Squad!Role) /\ budget = 5 - Squad!Paid
        BY <1>2, <2>5 DEF SquadInv
      <3>2. /\ q.role = squad[q.slot].role
            /\ q.budget = budget + squad[q.slot].price - q.price
            /\ PlayersAre([Squad!Chosen EXCEPT ![q.slot] = q.player])
        BY <1>1, <1>2, <3>1 DEF StillFits
      <3>3. Squad!Chosen' = [Squad!Chosen EXCEPT ![q.slot] = q.player]
        BY <1>3, <2>4 DEF Squad!Chosen, Squad!Slots
      <3>4. Squad!Role' = Squad!Role BY <1>3, <2>4, <3>2 DEF Squad!Role, Squad!Slots
      <3>5. PlayersAre(Squad!Chosen)' BY <3>2, <3>3
      <3>6. Squad!OneEach(Squad!Role)' BY <3>1, <3>4
      <3>7. budget' = 5 - Squad!Paid'
        <4>1. squad \in [1..3 -> Squad!Selections] /\ budget \in Int
              /\ \A s \in (1..3) \ {q.slot} : squad'[s].price = squad[s].price
          BY <2>4 DEF SquadInv
        <4>2. /\ CostOf(squad, 1..3) \in Int
              /\ CostOf(squad', 1..3)
                    = CostOf(squad, 1..3) + (squad'[q.slot].price - squad[q.slot].price)
          BY <1>3, <2>4, <4>1, CostChanges
        <4>3. q.price \in Int /\ squad[q.slot].price \in Int /\ squad'[q.slot].price = q.price
          BY <1>3, <2>4, <4>1 DEF Squad!Selections
        <4>4. budget' = q.budget BY <2>1
        <4> QED BY <3>1, <3>2, <4>1, <4>2, <4>3, <4>4, PaidIsCost
      <3> QED BY <3>5, <3>6, <3>7
    <2>6. budget' \in Int BY <1>3, <2>1
    <2> QED BY <1>2, <1>4, <1>5, <2>3, <2>4, <2>5, <2>6 DEF SquadInv
  <1>7. CASE ~Squad!Unique(q.slot, row)
    <2>1. UNCHANGED <<squad, budget, state, transfers>>
      BY <1>1, <1>7 DEF Squad!WriteTransfer, Squad!team
    <2>2. Squad!Chosen' = Squad!Chosen /\ Squad!Role' = Squad!Role /\ Squad!Paid' = Squad!Paid
      BY <2>1, PaidIsCost DEF Squad!Chosen, Squad!Role
    <2>3. Squad!PenaltiesAgree' BY <2>1 DEF SquadInv, Squad!PenaltiesAgree
    <2>4. ASSUME ~overlappedOfSquad'
          PROVE  /\ PlayersAre(Squad!Chosen)' /\ Squad!OneEach(Squad!Role)'
                 /\ budget' = 5 - Squad!Paid'
      <3>1. /\ PlayersAre(Squad!Chosen) /\ Squad!OneEach(Squad!Role) /\ budget = 5 - Squad!Paid
        BY <1>2, <2>4 DEF SquadInv
      <3>2. budget' = 5 - Squad!Paid' BY <2>1, <2>2, <3>1
      <3>3. PlayersAre(Squad!Chosen)' /\ Squad!OneEach(Squad!Role)' BY <2>2, <3>1
      <3> QED BY <3>2, <3>3
    <2> QED BY <1>2, <1>4, <1>5, <2>1, <2>3, <2>4 DEF SquadInv
  <1> QED BY <1>6, <1>7

(* A lineup changes the roles, under requests that have read them or not.  *)
LEMMA LineupFits ==
    ASSUME SquadInv, NEW roles \in [Squad!Slots -> Squad!Roles], Squad!Lineup(roles)
    PROVE  SquadInv'
  <1>1. /\ squad' = [s \in 1..3 |-> [squad[s] EXCEPT !.role = roles[s]]]
        /\ UNCHANGED <<priceOfSquad, budget, state, transfers, request>>
        /\ ~overlappedOfSquad' => ~overlappedOfSquad /\ \A r \in Requests : request[r] = None
        /\ PlayersAre(Squad!Chosen) /\ Squad!OneEach(roles)
    BY DEF Squad!Lineup, Squad!pool, Squad!Slots, Squad!Valid, PlayersAre
  <1>2. ASSUME NEW s \in 1..3
        PROVE  /\ squad'[s] \in Squad!Selections /\ squad'[s].role = roles[s]
               /\ squad'[s].player = squad[s].player /\ squad'[s].price = squad[s].price
    BY <1>1 DEF SquadInv, Squad!Slots, Squad!Selections
  <1>3. squad' \in [1..3 -> Squad!Selections] BY <1>1, <1>2
  <1>4. Squad!Chosen' = Squad!Chosen BY <1>2 DEF Squad!Chosen, Squad!Slots
  <1>5. Squad!Role' = roles BY <1>2 DEF Squad!Role, Squad!Slots
  <1>6. Squad!Paid' = Squad!Paid
    <2>1. squad \in [1..3 -> Squad!Selections] /\ 1 \in 1..3
          /\ \A s \in (1..3) \ {1} : squad'[s].price = squad[s].price
      BY <1>2 DEF SquadInv
    <2>2. /\ CostOf(squad, 1..3) \in Int
          /\ CostOf(squad', 1..3) = CostOf(squad, 1..3) + (squad'[1].price - squad[1].price)
      BY <1>3, <2>1, CostChanges
    <2>3. squad'[1].price = squad[1].price /\ squad[1].price \in Int
      BY <1>2, <2>1 DEF Squad!Selections
    <2> QED BY <2>2, <2>3, PaidIsCost
  <1>7. ~overlappedOfSquad' => \A r \in Requests : StillFits(r)' BY <1>1 DEF StillFits
  <1>8. PlayersAre(Squad!Chosen)' /\ Squad!OneEach(Squad!Role)' BY <1>1, <1>4, <1>5
  <1>9. ~overlappedOfSquad' => budget' = 5 - Squad!Paid' BY <1>1, <1>6 DEF SquadInv
  <1>10. Squad!PenaltiesAgree' BY <1>1 DEF SquadInv, Squad!PenaltiesAgree
  <1> QED BY <1>1, <1>3, <1>7, <1>8, <1>9, <1>10 DEF SquadInv

(* Prices, availability and gameweeks leave the squad as it is.            *)
LEMMA SquadRests ==
    ASSUME SquadInv, priceOfSquad' \in [1..4 -> {1, 2}],
           UNCHANGED <<squad, budget, state, transfers, request, overlappedOfSquad>>
    PROVE  SquadInv'
  <1>1. Squad!Chosen' = Squad!Chosen /\ Squad!Role' = Squad!Role /\ Squad!Paid' = Squad!Paid
    BY PaidIsCost DEF Squad!Chosen, Squad!Role
  <1>2. \A r \in Requests : StillFits(r) => StillFits(r)' BY <1>1 DEF StillFits
  <1>3. Squad!PenaltiesAgree' BY DEF SquadInv, Squad!PenaltiesAgree
  <1>4. PlayersAre(Squad!Chosen) => PlayersAre(Squad!Chosen)' BY <1>1
  <1>5. Squad!OneEach(Squad!Role) => Squad!OneEach(Squad!Role)' BY <1>1
  <1> QED BY <1>1, <1>2, <1>3, <1>4, <1>5 DEF SquadInv

LEMMA SquadNext == SquadInv /\ Squad!Next => SquadInv'
  <1> SUFFICES ASSUME SquadInv, Squad!Next PROVE SquadInv' OBVIOUS
  <1>1. ASSUME NEW p \in 1..4, NEW v \in {1, 2}, Squad!SetPrice(p, v) PROVE SquadInv'
    BY <1>1, SquadRests DEF Squad!SetPrice, SquadInv, Squad!team
  <1>2. ASSUME NEW p \in 1..4, Squad!SetUnavailable(p) PROVE SquadInv'
    BY <1>2, SquadRests DEF Squad!SetUnavailable, SquadInv, Squad!team
  <1>3. ASSUME NEW g \in {1}, Squad!LockGameweek(g) PROVE SquadInv'
    <2>1. priceOfSquad' \in [1..4 -> {1, 2}] BY <1>3 DEF Squad!LockGameweek, Squad!pool, SquadInv
    <2> QED BY <1>3, <2>1, SquadRests DEF Squad!LockGameweek, Squad!team
  <1> QED BY <1>1, <1>2, <1>3, ReadingFits, WritingFits, LineupFits DEF Squad!Next, Squad!Slots

LEMMA SquadStutter == SquadInv /\ UNCHANGED squadVars => SquadInv'
  BY SquadRests DEF squadVars, SquadInv

(* A step changes the component that the behaviour is about, and no other. *)
LEMMA PartsOnly ==
    ASSUME [Next]_vars
    PROVE  /\ part' = part
           /\ part = "Gate" => Gate!Next \/ UNCHANGED gateVars
           /\ part = "Cart" => Cart!Next \/ UNCHANGED cartVars
           /\ part = "Stock" => Stock!Next \/ UNCHANGED cartVars
           /\ part = "Proposed" => Proposed!Next \/ UNCHANGED proposedVars
           /\ part = "Catalogue" => Catalogue!Next \/ UNCHANGED catalogueVars
           /\ part = "Interest" => Interest!Next \/ UNCHANGED interestVars
           /\ part = "Squad" => Squad!Next \/ UNCHANGED squadVars
           /\ part = "News" => News!Next \/ UNCHANGED newsVars
           /\ part = "Results" => Results!Next \/ UNCHANGED resultsVars
  BY DEF Next, vars, GateStep, CartStep, StockStep, ProposedStep, CatalogueStep,
         InterestStep, SquadStep, NewsStep, ResultsStep

(* The tickets sold are those of the orders that stand until a PATCH writes*)
(* back an old count, never counted beyond the capacity, and each paid for:*)
(* for any purchases, prices, capacities and funds, and any requests of    *)
(* buyers, editors and scanners that overlap.                              *)
THEOREM TicketsAreSound == Spec => []TicketsSound
  <1> DEFINE Inv == part = "Gate" => GateInv
  <1>1. Init => Inv BY GateInit DEF Init
  <1>2. Inv /\ [Next]_vars => Inv' BY PartsOnly, GateNext, GateStutter
  <1>3. Inv => TicketsSound BY GateInvSays DEF TicketsSound
  <1> QED BY <1>1, <1>2, <1>3, PTL DEF Spec

(* StoreSound, with its exceptions for stock that a PATCH overwrote and for*)
(* keys of two carts: for any keys and funds and any number of requests of *)
(* the buyer and the staff.                                                *)
THEOREM StoreOrdersSound == Spec => []StoreSound
  <1> DEFINE Inv == /\ part = "Cart" => Cart!StoreInv
                    /\ part = "Stock" => Stock!StoreInv
  <1>1. Init => Inv BY CartKept, StockKept DEF Init
  <1>2. Inv /\ [Next]_vars => Inv' BY PartsOnly, CartKept, StockKept
  <1>3. Inv => StoreSound BY CartKept, StockKept DEF StoreSound
  <1> QED BY <1>1, <1>2, <1>3, PTL DEF Spec

(* CatalogueHolds, which leaves out markets without a proposal or revived, *)
(* proposals saved at one time and markets that a stale edit has           *)
(* overwritten: for any users and any number of concurrent requests.       *)
THEOREM CatalogueIsSound == Spec => []CatalogueHolds
  <1> DEFINE Inv == /\ part = "Proposed" => ProposedInv
                    /\ part = "Catalogue" => CatalogueInv
                    /\ part = "Interest" => InterestInv
  <1>1. Init => Inv BY ProposedInit, CatalogueInit, InterestInit DEF Init
  <1>2. Inv /\ [Next]_vars => Inv'
    BY PartsOnly, ProposedNext, ProposedStutter, CatalogueNext, CatalogueStutter,
       InterestNext, InterestStutter
  <1>3. Inv => CatalogueHolds
    BY ProposedInvSays DEF ProposedInv, CatalogueInv, InterestInv, CatalogueHolds
  <1> QED BY <1>1, <1>2, <1>3, PTL DEF Spec

(* GameHolds: penalties for any overlap of requests, squad and slots as    *)
(* long as none overlapped, and a reviewer named for every decision (who   *)
(* may be the submitter): for any number of concurrent requests on the     *)
(* three desks.                                                            *)
THEOREM GameIsSound == Spec => []GameHolds
  <1> DEFINE Inv == /\ part = "Squad" => SquadInv
                    /\ part = "News" => NewsInv
                    /\ part = "Results" => ResultsInv
  <1>1. Init => Inv BY SquadInit, NewsInit, ResultsInit DEF Init
  <1>2. Inv /\ [Next]_vars => Inv'
    BY PartsOnly, SquadNext, SquadStutter, NewsNext, NewsStutter, ResultsNext, ResultsStutter
  <1>3. Inv => GameHolds BY SquadInvSays, NewsInvSays DEF ResultsInv, GameHolds
  <1> QED BY <1>1, <1>2, <1>3, PTL DEF Spec
=============================================================================
