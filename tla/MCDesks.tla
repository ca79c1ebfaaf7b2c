------------------------------ MODULE MCDesks -------------------------------
(***************************************************************************)
(* The components that share no rows and promise nothing of the end of     *)
(* what they start, checked in one run: every behaviour is one of the      *)
(* money of the markets (withdrawals, fees, adjustments, reconciliation,   *)
(* portfolio, memberships), of what participants may do (compliance and    *)
(* limits), of a fantasy league, or of the staff of a club. Two requests   *)
(* are the fewest that race, and two of the staff the fewest that approve. *)
(***************************************************************************)
EXTENDS TLC, Sequences, Sums

CONSTANTS
    Requests,      \* concurrent withdrawals
    People, Currencies, Destinations,  \* wallets, and where they pay out
    WithdrawalKeys, Withdrawn,  \* what they ask for
    Funds,         \* of each wallet at the start
    Policy,        \* the limits of automatic approval and their windows
    LastMoment, MaxHeld, \* of the clock; what orders hold of a wallet
    Pair,          \* staff or outcomes
    MaxDecisions,  \* proposals about the risk of a participant
    MaxRevisions,  \* changes of his identity check and restriction
    PlatformLimits,             \* of what a participant may buy
    OrderMarkets, Prices, Sizes, \* of the orders of a participant with limits
    Values, Durations, LastDay, \* of a limit and of an exclusion, and of the clock
    MaxOrders, MaxControls,     \* orders, and changes of limits and exclusions
    Owners, Capacities,         \* of fantasy teams, of a league
    MaxPoints, MaxUpdates,      \* of a team; changes of leagues and points
    Members, Invitees,          \* users of a club, and those it invites
    MaxInvitations, MaxLoad,    \* invitations; with lapsed ones and requests
    None

VARIABLES
    part,      \* the component this behaviour is about
    now, eligible, available, reserved, orderHold, gone, withdrawal, work,
    walletLock, RequireKnownDestination,
    schedules, nowOfFees, fees, calls, refused, overlapped,
    adjustments, lines, entries, availableOfCorrections, moved, moves,
    holder, callsOfCorrections,
    books, tampered, runs, callers, faults, disturbed,
    status, winner, wallet, position, orders, fills, exits, paid,
    feesOfHistory, bid, last, summary, views,
    plans, memberships, payments, balance, locked, callsOfPlans, drafts,
    edits, closed,
    kyc, excluded, compliance, profile, assessments, latest, proposals,
    placing, placed, changes,
    limits, until, indefinite, day, ordersOfLimits, cost, pnl, bought,
    placingOfLimits, editsOfLimits,
    open, deadline, clubOf, pool, teams, points, league, members, joining,
    mostOfLeague, peakOfLeague, changesOfLeague,
    invitations, created, lapsed, workspaces, account, link, clubAdmins,
    callsOfPeople, grants, overlappedOfPeople

(* One user with two wallets, each of whose keys is used for two requests;  *)
(* limits of a day low enough to be reached.                               *)
Asks(k, currency, n, destination) ==
    [key |-> k, account |-> <<"user", currency>>, amount |-> n,
     destination |-> destination]
SomeWithdrawals == { Asks(1, "UGX", 1, "bank"), Asks(1, "KES", 2, "bank"),
                     Asks(2, "KES", 1, "bank"), Asks(2, "UGX", 1, "mobile") }
LowPolicy == [single |-> 1, dayCount |-> 1, dayValue |-> 2, weekValue |-> 3,
              dayWindow |-> 1, weekWindow |-> 2]

(* No limit on what is bought in a day unless the participant sets one;    *)
(* at most 3 in all.                                                       *)
SomeLimits == [daily |-> None, total |-> 3]

CurrencyOfPlan == [p \in {1, 2} |-> p]

Cash == INSTANCE Withdrawals WITH
        Procs <- Requests, Users <- People, Keys <- WithdrawalKeys,
        Requests <- Withdrawn, InitialFunds <- Funds,
        MaxSingle <- Policy.single, MaxDayCount <- Policy.dayCount,
        MaxDayValue <- Policy.dayValue, MaxWeekValue <- Policy.weekValue,
        AutoApprovalEnabled <- TRUE, DayWindow <- Policy.dayWindow,
        WeekWindow <- Policy.weekWindow, MaxTime <- LastMoment,
        MaxOrderHold <- MaxHeld, NoRequest <- None, NoWithdrawal <- None
Fees == INSTANCE FeeSchedules WITH
        now <- nowOfFees, Staff <- Pair, Market <- "market", Rates <- {1},
        Times <- {1, 2}, Trades <- {"trade"}, MaxSchedules <- 2
Corrections == INSTANCE FinancialAdjustments WITH
        available <- availableOfCorrections, calls <- callsOfCorrections,
        Staff <- Pair, Wallets <- {1, 2}, Amounts <- {1, 2}, Funds <- 1,
        MaxAdjustments <- 1, MaxMoves <- 1
Books == INSTANCE Reconciliation WITH
        Callers <- {"caller"}, Scopes <- {"market"}, Quantity <- 2,
        Lots <- {1, 2}, Prices <- {1}, MaxTampers <- 1, MaxFaults <- 1
History == INSTANCE Portfolio WITH
        fees <- feesOfHistory, Outcomes <- Pair, Unit <- 4,
        Prices <- {1, 3}, Sizes <- {1, 2}, Bids <- {2}, FeeRate <- 1,
        FeeBase <- 4, Funds <- 5, MaxOrders <- 2, MaxFills <- 2,
        MaxViews <- 1
Plans == INSTANCE PlatformMemberships WITH
        calls <- callsOfPlans, Plans <- {1, 2}, Currencies <- {1, 2},
        Currency <- CurrencyOfPlan, Prices <- {1, 2}, Keys <- {1, 2},
        Editors <- {"editor"}, Funds <- 3, MaxMemberships <- 3,
        MaxEdits <- 1
Clearance == INSTANCE ParticipantCompliance WITH
        Staff <- Pair, MaxProposals <- MaxDecisions,
        MaxChanges <- MaxRevisions
Limits == INSTANCE ResponsibleParticipation WITH
        orders <- ordersOfLimits, placing <- placingOfLimits,
        Markets <- OrderMarkets, edits <- editsOfLimits, Kinds <- {"daily", "total"},
        Default <- PlatformLimits, DaysPerWeek <- 2, MaxDay <- LastDay,
        MaxEdits <- MaxControls
League == INSTANCE FantasyCompetitions WITH
        most <- mostOfLeague, peak <- peakOfLeague, changes <- changesOfLeague,
        Names <- {"name"}, Clubs <- {"club"}, MaxChanges <- MaxUpdates
Club == INSTANCE ClubStaff WITH
        calls <- callsOfPeople, overlapped <- overlappedOfPeople,
        Users <- Members, Clients <- Requests

(* Every other component stands still, its variables at Off.               *)
Off == "off"
CashOff ==
    now = Off /\ eligible = Off /\ available = Off /\ reserved = Off /\
    orderHold = Off /\ gone = Off /\ withdrawal = Off /\ work = Off /\
    walletLock = Off /\ RequireKnownDestination = Off
FeesOff ==
    schedules = Off /\ nowOfFees = Off /\ fees = Off /\ calls = Off /\
    refused = Off /\ overlapped = Off
CorrectionsOff ==
    adjustments = Off /\ lines = Off /\ entries = Off /\
    availableOfCorrections = Off /\ moved = Off /\ moves = Off /\
    holder = Off /\ callsOfCorrections = Off
BooksOff ==
    books = Off /\ tampered = Off /\ runs = Off /\ callers = Off /\
    faults = Off /\ disturbed = Off
HistoryOff ==
    status = Off /\ winner = Off /\ wallet = Off /\ position = Off /\
    orders = Off /\ fills = Off /\ exits = Off /\ paid = Off /\
    feesOfHistory = Off /\ bid = Off /\ last = Off /\ summary = Off /\
    views = Off
PlansOff ==
    plans = Off /\ memberships = Off /\ payments = Off /\ balance = Off /\
    locked = Off /\ callsOfPlans = Off /\ drafts = Off /\ edits = Off /\
    closed = Off
ClearanceOff ==
    kyc = Off /\ excluded = Off /\ compliance = Off /\ profile = Off /\
    assessments = Off /\ latest = Off /\ proposals = Off /\ placing = Off /\
    placed = Off /\ changes = Off
LimitsOff ==
    limits = Off /\ until = Off /\ indefinite = Off /\ day = Off /\
    ordersOfLimits = Off /\ cost = Off /\ pnl = Off /\ bought = Off /\
    placingOfLimits = Off /\ editsOfLimits = Off
LeagueOff ==
    open = Off /\ deadline = Off /\ clubOf = Off /\ pool = Off /\
    teams = Off /\ points = Off /\ league = Off /\ members = Off /\
    joining = Off /\ mostOfLeague = Off /\ peakOfLeague = Off /\ changesOfLeague = Off
ClubOff ==
    invitations = Off /\ created = Off /\ lapsed = Off /\
    workspaces = Off /\ account = Off /\ link = Off /\ clubAdmins = Off /\
    callsOfPeople = Off /\ grants = Off /\ overlappedOfPeople = Off

cashVars == <<now, eligible, available, reserved, orderHold, gone,
              withdrawal, work, walletLock, RequireKnownDestination>>
feesVars == <<schedules, nowOfFees, fees, calls, refused, overlapped>>
correctionsVars == <<adjustments, lines, entries, availableOfCorrections,
                     moved, moves, holder, callsOfCorrections>>
booksVars == <<books, tampered, runs, callers, faults, disturbed>>
historyVars == <<status, winner, wallet, position, orders, fills, exits,
                 paid, feesOfHistory, bid, last, summary, views>>
plansVars == <<plans, memberships, payments, balance, locked, callsOfPlans,
               drafts, edits, closed>>
clearanceVars == <<kyc, excluded, compliance, profile, assessments, latest,
                   proposals, placing, placed, changes>>
limitsVars == <<limits, until, indefinite, day, ordersOfLimits, cost, pnl,
                bought, placingOfLimits, editsOfLimits>>
leagueVars == <<open, deadline, clubOf, pool, teams, points, league,
                members, joining, mostOfLeague, peakOfLeague, changesOfLeague>>
clubVars == <<invitations, created, lapsed, workspaces, account, link,
                clubAdmins, callsOfPeople, grants, overlappedOfPeople>>
vars == <<part, cashVars, feesVars, correctionsVars, booksVars, historyVars,
         plansVars, clearanceVars, limitsVars, leagueVars, clubVars>>

Init ==
    \/ part = "Cash" /\ Cash!Init /\ FeesOff /\ CorrectionsOff /\ BooksOff /\
       HistoryOff /\ PlansOff /\ ClearanceOff /\ LimitsOff /\ LeagueOff /\
       ClubOff
    \/ part = "Fees" /\ Fees!Init /\ CashOff /\ CorrectionsOff /\ BooksOff /\
       HistoryOff /\ PlansOff /\ ClearanceOff /\ LimitsOff /\ LeagueOff /\
       ClubOff
    \/ part = "Corrections" /\ Corrections!Init /\ CashOff /\ FeesOff /\
       BooksOff /\ HistoryOff /\ PlansOff /\ ClearanceOff /\ LimitsOff /\
       LeagueOff /\ ClubOff
    \/ part = "Books" /\ Books!Init /\ CashOff /\ FeesOff /\ CorrectionsOff /\
       HistoryOff /\ PlansOff /\ ClearanceOff /\ LimitsOff /\ LeagueOff /\
       ClubOff
    \/ part = "History" /\ History!Init /\ CashOff /\ FeesOff /\
       CorrectionsOff /\ BooksOff /\ PlansOff /\ ClearanceOff /\ LimitsOff /\
       LeagueOff /\ ClubOff
    \/ part = "Plans" /\ Plans!Init /\ CashOff /\ FeesOff /\ CorrectionsOff /\
       BooksOff /\ HistoryOff /\ ClearanceOff /\ LimitsOff /\ LeagueOff /\
       ClubOff
    \/ part = "Clearance" /\ Clearance!Init /\ CashOff /\ FeesOff /\
       CorrectionsOff /\ BooksOff /\ HistoryOff /\ PlansOff /\ LimitsOff /\
       LeagueOff /\ ClubOff
    \/ part = "Limits" /\ Limits!Init /\ CashOff /\ FeesOff /\
       CorrectionsOff /\ BooksOff /\ HistoryOff /\ PlansOff /\ ClearanceOff /\
       LeagueOff /\ ClubOff
    \/ part = "League" /\ League!Init /\ CashOff /\ FeesOff /\
       CorrectionsOff /\ BooksOff /\ HistoryOff /\ PlansOff /\ ClearanceOff /\
       LimitsOff /\ ClubOff
    \/ part = "Club" /\ Club!Init /\ CashOff /\ FeesOff /\
       CorrectionsOff /\ BooksOff /\ HistoryOff /\ PlansOff /\ ClearanceOff /\
       LimitsOff /\ LeagueOff

CashStep ==
    /\ part = "Cash" /\ Cash!Next
    /\ UNCHANGED <<part, feesVars, correctionsVars, booksVars, historyVars,
                   plansVars, clearanceVars, limitsVars, leagueVars, clubVars>>
FeesStep ==
    /\ part = "Fees" /\ Fees!Next
    /\ UNCHANGED <<part, cashVars, correctionsVars, booksVars, historyVars,
                   plansVars, clearanceVars, limitsVars, leagueVars, clubVars>>
CorrectionsStep ==
    /\ part = "Corrections" /\ Corrections!Next
    /\ UNCHANGED <<part, cashVars, feesVars, booksVars, historyVars, plansVars,
                   clearanceVars, limitsVars, leagueVars, clubVars>>
BooksStep ==
    /\ part = "Books" /\ Books!Next
    /\ UNCHANGED <<part, cashVars, feesVars, correctionsVars, historyVars,
                   plansVars, clearanceVars, limitsVars, leagueVars, clubVars>>
HistoryStep ==
    /\ part = "History" /\ History!Next
    /\ UNCHANGED <<part, cashVars, feesVars, correctionsVars, booksVars,
                   plansVars, clearanceVars, limitsVars, leagueVars, clubVars>>
PlansStep ==
    /\ part = "Plans" /\ Plans!Next
    /\ UNCHANGED <<part, cashVars, feesVars, correctionsVars, booksVars,
                   historyVars, clearanceVars, limitsVars, leagueVars,
                   clubVars>>
ClearanceStep ==
    /\ part = "Clearance" /\ Clearance!Next
    /\ UNCHANGED <<part, cashVars, feesVars, correctionsVars, booksVars,
                   historyVars, plansVars, limitsVars, leagueVars, clubVars>>
LimitsStep ==
    /\ part = "Limits" /\ Limits!Next
    /\ UNCHANGED <<part, cashVars, feesVars, correctionsVars, booksVars,
                   historyVars, plansVars, clearanceVars, leagueVars,
                   clubVars>>
LeagueStep ==
    /\ part = "League" /\ League!Next
    /\ UNCHANGED <<part, cashVars, feesVars, correctionsVars, booksVars,
                   historyVars, plansVars, clearanceVars, limitsVars,
                   clubVars>>
ClubStep ==
    /\ part = "Club" /\ Club!Next
    /\ UNCHANGED <<part, cashVars, feesVars, correctionsVars, booksVars,
                   historyVars, plansVars, clearanceVars, limitsVars,
                   leagueVars>>

Next ==
    CashStep \/ FeesStep \/ CorrectionsStep \/ BooksStep \/ HistoryStep \/
    PlansStep \/ ClearanceStep \/ LimitsStep \/ LeagueStep \/ ClubStep

Spec == Init /\ [][Next]_vars

(* Pair is the staff or the outcomes of a component.                       *)
Symmetry == Permutations(Requests) \cup Permutations(Pair)

ASSUME RequestsAssumption == Cash!RequestsAssumption /\ Cash!SettingsAssumption
ASSUME NoneAssumption ==
    /\ None \notin Cash!Withdrawal /\ None \notin League!Leagues /\ None \notin Int
    /\ None \notin Requests /\ None \notin Pair /\ None \notin Fees!Schedules
    /\ None \notin [currency : {1, 2}, amount : {1, 2}] /\ None \notin Corrections!Adjustments
    /\ None \notin [status : {"OPEN", "PARTIALLY_FILLED", "FILLED", "CANCELLED"}, filled : 0..2]
    /\ None \notin [kind : {"WIN", "LOSS", "VOID_REFUND"}, quantity : Nat, net : Int, delta : Int]
    /\ None \notin {"create", "decide", "pay", "replace", "propose", "move",
                    "SETTLEMENT", "REFUND", "APPROVED", "REJECTED"}
ASSUME BoundsAssumption ==
    /\ Prices \subseteq Nat \ {0} /\ Sizes \subseteq Nat \ {0} /\ Values \subseteq Nat
    /\ Durations \subseteq Nat \ {0} /\ LastDay \in Nat
    /\ PlatformLimits \in [{"daily", "total"} -> Nat \cup {None}]
    /\ IsFiniteSet(Pair) /\ IsFiniteSet(WithdrawalKeys) /\ IsFiniteSet(Owners)
    /\ Capacities \subseteq Nat /\ MaxPoints \in Nat

(* A club invites people it can name, and no row, operation or address is  *)
(* the absent one.                                                         *)
StaffAssumption ==
    /\ Invitees \subseteq Members
    /\ MaxInvitations \in Nat
    /\ None \notin {"accept", "edit", "ADMIN", "STAFF"} \cup Club!ClubWorkspaces
               \cup Club!StaffInvitations
ASSUME StaffAssumed == StaffAssumption

-----------------------------------------------------------------------------
(* The values of each component's variables.                              *)
TypeOK ==
    /\ part = "Cash" => Cash!TypeOK
    /\ part = "Fees" => Fees!TypeOK
    /\ part = "Corrections" => Corrections!TypeOK
    /\ part = "Books" => Books!TypeOK
    /\ part = "History" => History!TypeOK
    /\ part = "Plans" => Plans!TypeOK
    /\ part = "Clearance" => Clearance!TypeOK
    /\ part = "Limits" => Limits!TypeOK
    /\ part = "League" => League!TypeOK
    /\ part = "Club" => Club!TypeOK

(* Withdrawals: what a wallet has reserved is what its withdrawals and     *)
(* orders hold, nothing is created or lost, and the transaction the user   *)
(* sees ends as the withdrawal does.                                       *)
WithdrawalsBalance == 
    /\ part = "Cash" => Cash!ReservedBacksWithdrawals
    /\ part = "Cash" => Cash!FundsConserved
    /\ part = "Cash" => Cash!TransactionAgrees

(* Withdrawals: what is approved automatically stays within the limits of  *)
(* a day, across currencies, and goes only where the policy lets it.       *)
AutoApprovalsSafe == 
    /\ part = "Cash" => Cash!AutoApprovalsBounded
    /\ part = "Cash" => Cash!AutomaticOnlyIfTrusted

(* The desks that account for money agree with it: fees with the schedules *)
(* that were active (one to a scope unless activations overlapped),        *)
(* adjustments with their decisions, reconciliation reports with the books *)
(* unless a write disturbed the run, the portfolio with wallet and         *)
(* positions, memberships with their payments.                             *)
MoneyDesksBalance == 
    /\ part = "Fees" => Fees!FeesExplained
    /\ part = "Corrections" => Corrections!AdjustmentsBalance
    /\ part = "Books" => Books!ReportsAreTrue
    /\ part = "History" => History!PortfolioAddsUp
    /\ part = "Plans" => Plans!MembershipsArePaid

(* ParticipantCompliance: nobody trades who is restricted or in a blocked  *)
(* country.                                                                *)
TradesCleared == part = "Clearance" => Clearance!TradesCleared

(* ClubStaff: an accepted invitation gives one user the workspace role and *)
(* the platform role it names; a workspace its user had keeps its role.    *)
InvitationGivesAccess == part = "Club" => Club!InvitationGivesAccess

(* No step creates an order beyond a limit that holds at that moment or    *)
(* shortens an exclusion; a join takes a league beyond its capacity by     *)
(* less than the joins side by side; and a withdrawal stays in its final   *)
(* state. What fills of an earlier order buy is not limited.               *)
LimitsHold == [][
    /\ part = "Limits" => Limits!KeepsToLimits
    /\ part = "League" => League!JoinsWithinCapacity
    /\ part = "Cash" => Cash!KeepsTerminal]_vars
-----------------------------------------------------------------------------
(* The staff of a club. An invitation that was accepted is pending no more *)
(* and no request holds it to accept it, so that the grant stays the only  *)
(* one; and a grant's user has what it gave. An invitation that two        *)
(* requests had in hand at a time is left out.                             *)
Accepts(c, i) == callsOfPeople[c].op = "accept" /\ callsOfPeople[c].id = i

PeopleTyped ==
    /\ created \in Nat
    /\ invitations \in [Club!Ids -> Club!StaffInvitations \cup {None}]
    /\ workspaces \in [Members -> Club!ClubWorkspaces \cup {None}]
    /\ account \in [Members -> {"none", "PENDING_INVITATION", "ACTIVE"}]
    /\ DOMAIN callsOfPeople = Requests
    /\ clubAdmins \subseteq Members
    /\ grants \subseteq Club!Grants

(* What a request has read is a row that was created, and whoever accepts  *)
(* is logged in.                                                           *)
RequestsAreReal ==
    /\ \A i \in Club!Ids : invitations[i] # None => i <= created
    /\ \A c \in Requests :
          /\ callsOfPeople[c].op \in {None, "accept", "edit"}
          /\ callsOfPeople[c].op # None =>
                /\ callsOfPeople[c].id \in Club!Ids /\ callsOfPeople[c].id <= created
                /\ callsOfPeople[c].row \in Club!StaffInvitations
          /\ callsOfPeople[c].op = "accept" =>
                /\ callsOfPeople[c].user \in Members
                /\ account[callsOfPeople[c].user] = "ACTIVE"

OneAccepts ==
    \A i \in Club!Ids \ overlappedOfPeople, c, d \in Requests :
        Accepts(c, i) /\ Accepts(d, i) => c = d

AcceptedOnce ==
    /\ \A g \in grants : g.id <= created
    /\ \A g \in grants : g.id \notin overlappedOfPeople =>
          /\ invitations[g.id] = None \/ invitations[g.id].status # "PENDING"
          /\ \A c \in Requests : ~Accepts(c, g.id)
    /\ \A g, h \in grants : g.id = h.id /\ g.id \notin overlappedOfPeople => g = h

AccessIsGiven ==
    /\ \A g \in grants :
          /\ workspaces[g.user] # None /\ workspaces[g.user].active
          /\ workspaces[g.user].role = IF g.prior = None THEN g.role ELSE g.prior
          /\ g.role = "ADMIN" => g.user \in clubAdmins
    /\ \A u \in clubAdmins : account[u] = "ACTIVE"

PeopleInv ==
    PeopleTyped /\ RequestsAreReal /\ OneAccepts /\ AcceptedOnce /\ AccessIsGiven

LEMMA PeopleInit == Club!Init => PeopleInv
  <1> SUFFICES ASSUME Club!Init PROVE PeopleInv OBVIOUS
  <1>1. PeopleTyped BY DEF Club!Init, PeopleTyped
  <1>2. \A c \in Requests : callsOfPeople[c].op = None BY DEF Club!Init, Club!Idle
  <1>3. RequestsAreReal BY <1>2, StaffAssumed DEF RequestsAreReal, StaffAssumption, Club!Init
  <1>4. OneAccepts BY <1>2, StaffAssumed DEF OneAccepts, Accepts, StaffAssumption
  <1>5. AcceptedOnce /\ AccessIsGiven BY DEF Club!Init, AcceptedOnce, AccessIsGiven
  <1> QED BY <1>1, <1>3, <1>4, <1>5 DEF PeopleInv

(* A call begun or ended, of request c, leaves the others'.                *)
LEMMA IdleIsNothing ==
    /\ Club!Idle.op = None
    /\ None \notin {"accept", "edit", "ADMIN", "STAFF"} /\ None \notin Club!StaffInvitations
    /\ None \notin Club!ClubWorkspaces
  BY StaffAssumed DEF StaffAssumption, Club!Idle

LEMMA GrantsAreRecords ==
    PeopleInv => \A g \in grants : g.id \in Club!Ids /\ g.user \in Members
  BY DEF PeopleInv, PeopleTyped, Club!Grants

(* A new invitation gets an id that nothing refers to.                     *)
LEMMA InvitingIsSafe ==
    ASSUME PeopleInv, NEW u \in Invitees, NEW role \in Club!WorkspaceRoles,
           created < MaxInvitations, created' = created + 1,
           invitations' = [invitations EXCEPT ![created'] = Club!NewInvitation(u, role)],
           UNCHANGED <<workspaces, clubAdmins, callsOfPeople, grants, overlappedOfPeople>>,
           account' \in [Members -> {"none", "PENDING_INVITATION", "ACTIVE"}],
           \A v \in Members : account[v] = "ACTIVE" => account'[v] = "ACTIVE"
    PROVE  PeopleInv'
  <1>1. PICK n \in Nat : n = created BY DEF PeopleInv, PeopleTyped
  <1>2. n + 1 \in Club!Ids BY <1>1, StaffAssumed DEF Club!Ids, StaffAssumption
  <1>3. Club!NewInvitation(u, role) \in Club!StaffInvitations
    BY StaffAssumed DEF StaffAssumption, Club!NewInvitation, Club!StaffInvitations,
                        Club!InvitationStatuses
  <1>4. \A i \in Club!Ids : i # n + 1 => invitations'[i] = invitations[i]
    BY <1>1 DEF PeopleInv, PeopleTyped
  <1>5. PeopleTyped' BY <1>1, <1>2, <1>3 DEF PeopleInv, PeopleTyped
  <1>6. RequestsAreReal' BY <1>1, <1>4 DEF PeopleInv, RequestsAreReal, Club!Ids
  <1>7. OneAccepts' BY DEF PeopleInv, OneAccepts, Accepts
  <1>8. AcceptedOnce'
    <2>1. \A g \in grants : g.id \in Club!Ids /\ g.id <= n
      BY <1>1, GrantsAreRecords DEF PeopleInv, AcceptedOnce
    <2>2. \A g \in grants : invitations'[g.id] = invitations[g.id] /\ g.id <= created'
      BY <1>1, <1>4, <2>1 DEF Club!Ids
    <2> QED BY <2>2 DEF PeopleInv, AcceptedOnce, Accepts
  <1>9. AccessIsGiven' BY DEF PeopleInv, PeopleTyped, AccessIsGiven
  <1> QED BY <1>5, <1>6, <1>7, <1>8, <1>9 DEF PeopleInv

(* What changes neither invitations nor calls, and takes nobody's account. *)
LEMMA AccountsAreKept ==
    ASSUME PeopleInv,
           UNCHANGED <<invitations, created, workspaces, clubAdmins, callsOfPeople, grants,
                       overlappedOfPeople>>,
           account' \in [Members -> {"none", "PENDING_INVITATION", "ACTIVE"}],
           \A v \in Members : account[v] = "ACTIVE" => account'[v] = "ACTIVE"
    PROVE  PeopleInv'
  <1>1. PeopleTyped' /\ OneAccepts' /\ AcceptedOnce'
    BY DEF PeopleInv, PeopleTyped, OneAccepts, AcceptedOnce, Accepts
  <1>2. RequestsAreReal' BY DEF PeopleInv, RequestsAreReal
  <1>3. AccessIsGiven' BY DEF PeopleInv, PeopleTyped, AccessIsGiven
  <1> QED BY <1>1, <1>2, <1>3 DEF PeopleInv

LEMMA InviteStaffIsSafe ==
    ASSUME PeopleInv, NEW u \in Invitees, NEW role \in Club!WorkspaceRoles,
           Club!InviteStaff(u, role)
    PROVE  PeopleInv'
  BY InvitingIsSafe DEF Club!InviteStaff, PeopleInv, PeopleTyped

LEMMA InviteAdminIsSafe ==
    ASSUME PeopleInv, NEW u \in Invitees, Club!InviteAdmin(u)
    PROVE  PeopleInv'
  <1>1. /\ account' \in [Members -> {"none", "PENDING_INVITATION", "ACTIVE"}]
        /\ \A v \in Members : account[v] = "ACTIVE" => account'[v] = "ACTIVE"
    BY DEF Club!InviteAdmin, PeopleInv, PeopleTyped
  <1>2. "ADMIN" \in Club!WorkspaceRoles BY DEF Club!WorkspaceRoles
  <1>3. UNCHANGED <<workspaces, clubAdmins, callsOfPeople, grants, overlappedOfPeople>>
    BY DEF Club!InviteAdmin
  <1>4. CASE UNCHANGED <<invitations, created>> BY <1>1, <1>3, <1>4, AccountsAreKept
  <1>5. CASE /\ created < MaxInvitations /\ created' = created + 1
             /\ invitations' = [invitations EXCEPT ![created'] = Club!NewInvitation(u, "ADMIN")]
    BY <1>1, <1>2, <1>3, <1>5, InvitingIsSafe
  <1> QED BY <1>4, <1>5 DEF Club!InviteAdmin

(* An invitation of PENDING status may expire, and any may be deleted.     *)
LEMMA RowsMayEnd ==
    ASSUME PeopleInv, NEW i \in Club!Ids, NEW row \in Club!StaffInvitations \cup {None},
           invitations[i] # None, row = None \/ row.status # "PENDING",
           invitations' = [invitations EXCEPT ![i] = row],
           UNCHANGED <<created, workspaces, clubAdmins, callsOfPeople, grants, overlappedOfPeople>>,
           account' \in [Members -> {"none", "PENDING_INVITATION", "ACTIVE"}],
           \A v \in Members : account[v] = "ACTIVE" => account'[v] = "ACTIVE"
    PROVE  PeopleInv'
  <1>1. /\ invitations'[i] = row
        /\ \A j \in Club!Ids : j # i => invitations'[j] = invitations[j]
    BY DEF PeopleInv, PeopleTyped
  <1>2. PeopleTyped' BY DEF PeopleInv, PeopleTyped
  <1>3. RequestsAreReal' BY <1>1 DEF PeopleInv, RequestsAreReal
  <1>4. OneAccepts' BY DEF PeopleInv, OneAccepts, Accepts
  <1>5. AcceptedOnce'
    <2>1. \A g \in grants : g.id \in Club!Ids BY GrantsAreRecords
    <2> QED BY <1>1, <2>1 DEF PeopleInv, AcceptedOnce, Accepts
  <1>6. AccessIsGiven' BY DEF PeopleInv, PeopleTyped, AccessIsGiven
  <1> QED BY <1>2, <1>3, <1>4, <1>5, <1>6 DEF PeopleInv

(* A request reads an invitation, to edit it or to accept it.              *)
LEMMA ReadingIsSafe ==
    ASSUME PeopleInv, NEW c \in Requests, NEW i \in Club!Ids, invitations[i] # None,
           NEW op \in {"accept", "edit"}, NEW u,
           callsOfPeople' = [callsOfPeople EXCEPT ![c] =
               [op |-> op, id |-> i, row |-> invitations[i], user |-> u]],
           callsOfPeople[c].op = None,
           UNCHANGED <<invitations, created, workspaces, clubAdmins, grants>>,
           account' \in [Members -> {"none", "PENDING_INVITATION", "ACTIVE"}],
           \A v \in Members : account[v] = "ACTIVE" => account'[v] = "ACTIVE",
           op = "edit" => overlappedOfPeople' = overlappedOfPeople,
           op = "accept" =>
               /\ u \in Members /\ account'[u] = "ACTIVE"
               /\ invitations[i].status = "PENDING"
               /\ overlappedOfPeople' = IF \E d \in Requests : callsOfPeople[d].id = i
                                THEN overlappedOfPeople \cup {i} ELSE overlappedOfPeople
    PROVE  PeopleInv'
  <1>1. /\ callsOfPeople'[c] = [op |-> op, id |-> i, row |-> invitations[i], user |-> u]
        /\ \A d \in Requests : d # c => callsOfPeople'[d] = callsOfPeople[d]
    BY DEF PeopleInv, PeopleTyped
  <1>2. overlappedOfPeople \subseteq overlappedOfPeople' OBVIOUS
  <1>3. PeopleTyped' BY DEF PeopleInv, PeopleTyped
  <1>4. RequestsAreReal'
    <2>1. invitations[i] \in Club!StaffInvitations /\ i <= created
      BY DEF PeopleInv, PeopleTyped, RequestsAreReal
    <2>2. \A v \in Members : account[v] = "ACTIVE" => account'[v] = "ACTIVE" OBVIOUS
    <2>3. ASSUME NEW d \in Requests
          PROVE  /\ callsOfPeople'[d].op \in {None, "accept", "edit"}
                 /\ callsOfPeople'[d].op # None =>
                       /\ callsOfPeople'[d].id \in Club!Ids /\ callsOfPeople'[d].id <= created
                       /\ callsOfPeople'[d].row \in Club!StaffInvitations
                 /\ callsOfPeople'[d].op = "accept" =>
                       /\ callsOfPeople'[d].user \in Members
                       /\ account'[callsOfPeople'[d].user] = "ACTIVE"
      BY <1>1, <2>1, <2>2 DEF PeopleInv, RequestsAreReal
    <2> QED BY <2>3 DEF PeopleInv, RequestsAreReal
  <1>5. ASSUME NEW j \in Club!Ids \ overlappedOfPeople', NEW d \in Requests, Accepts(d, j)'
        PROVE  \/ d = c /\ op = "accept" /\ j = i /\ \A e \in Requests : ~Accepts(e, j)
               \/ d # c /\ Accepts(d, j)
    BY <1>1, <1>5 DEF Accepts
  <1>6. OneAccepts' BY <1>2, <1>5 DEF OneAccepts, Accepts, PeopleInv
  <1>7. AcceptedOnce'
    <2>1. ASSUME NEW g \in grants, g.id \notin overlappedOfPeople', NEW d \in Requests,
                 Accepts(d, g.id)'
          PROVE  FALSE
      BY <1>2, <1>5, <2>1, GrantsAreRecords DEF PeopleInv, AcceptedOnce
    <2>2. \A g \in grants : g.id \notin overlappedOfPeople' => g.id \notin overlappedOfPeople
      BY <1>2
    <2>3. (\A g \in grants : g.id <= created)' BY DEF PeopleInv, AcceptedOnce
    <2>4. (\A g \in grants : g.id \notin overlappedOfPeople =>
             /\ invitations[g.id] = None \/ invitations[g.id].status # "PENDING"
             /\ \A d \in Requests : ~Accepts(d, g.id))'
      BY <2>1, <2>2 DEF PeopleInv, AcceptedOnce, Accepts
    <2>5. (\A g, h \in grants : g.id = h.id /\ g.id \notin overlappedOfPeople => g = h)'
      BY <2>2 DEF PeopleInv, AcceptedOnce
    <2> QED BY <2>3, <2>4, <2>5 DEF AcceptedOnce
  <1>8. AccessIsGiven' BY DEF PeopleInv, PeopleTyped, AccessIsGiven
  <1> QED BY <1>3, <1>4, <1>6, <1>7, <1>8 DEF PeopleInv

LEMMA ReadInvitationIsSafe ==
    ASSUME PeopleInv, NEW c \in Requests, NEW i \in Club!Ids, Club!ReadInvitation(c, i)
    PROVE  PeopleInv'
  <1>1. /\ invitations[i] # None /\ callsOfPeople[c].op = None
        /\ callsOfPeople' = [callsOfPeople EXCEPT ![c] =
               [op |-> "edit", id |-> i, row |-> invitations[i], user |-> None]]
        /\ UNCHANGED <<invitations, created, workspaces, clubAdmins, grants, overlappedOfPeople,
                       account>>
    BY IdleIsNothing DEF Club!ReadInvitation, Club!Rows
  <1>2. account' \in [Members -> {"none", "PENDING_INVITATION", "ACTIVE"}]
    BY <1>1 DEF PeopleInv, PeopleTyped
  <1> QED BY <1>1, <1>2, ReadingIsSafe

(* accept_invitation up to its transaction.                                *)
LEMMA BeginIsSafe ==
    ASSUME PeopleInv, NEW c \in Requests, NEW i, NEW u \in Members, Club!Begin(c, i, u),
           UNCHANGED <<created, workspaces, clubAdmins, grants>>,
           account' \in [Members -> {"none", "PENDING_INVITATION", "ACTIVE"}],
           \A v \in Members : account[v] = "ACTIVE" => account'[v] = "ACTIVE",
           account'[u] = "ACTIVE"
    PROVE  PeopleInv'
  <1>1. /\ i \in Club!Ids /\ invitations[i] # None /\ invitations[i].status = "PENDING"
        /\ callsOfPeople[c].op = None
    BY IdleIsNothing DEF Club!Begin, Club!Rows, Club!Pending
  <1>2. CASE i \in lapsed
    <2>1. UNCHANGED <<callsOfPeople, overlappedOfPeople>> /\ invitations' = Club!ExpiredAfter(i)
      BY <1>2 DEF Club!Begin
    <2> DEFINE row == [invitations[i] EXCEPT !.status = "EXPIRED"]
    <2>2. row \in Club!StaffInvitations /\ row.status # "PENDING"
      <3>1. invitations[i] \in Club!StaffInvitations BY <1>1 DEF PeopleInv, PeopleTyped
      <3> QED BY <3>1 DEF Club!StaffInvitations, Club!InvitationStatuses
    <2>3. \/ invitations' = [invitations EXCEPT ![i] = row]
          \/ invitations' = invitations
      BY <2>1 DEF Club!ExpiredAfter
    <2> HIDE DEF row
    <2>4. CASE invitations' = [invitations EXCEPT ![i] = row] BY <1>1, <2>1, <2>2, <2>4, RowsMayEnd
    <2>5. CASE invitations' = invitations BY <2>1, <2>5, AccountsAreKept
    <2> QED BY <2>3, <2>4, <2>5
  <1>3. CASE i \notin lapsed BY <1>1, <1>3, ReadingIsSafe DEF Club!Begin
  <1> QED BY <1>2, <1>3

LEMMA AcceptRequestIsSafe ==
    ASSUME PeopleInv, NEW c \in Requests, NEW i \in Club!Ids, NEW u \in Members,
           Club!AcceptRequest(c, i, u)
    PROVE  PeopleInv'
  BY BeginIsSafe DEF Club!AcceptRequest, PeopleInv, PeopleTyped

LEMMA CompleteSetupIsSafe ==
    ASSUME PeopleInv, NEW c \in Requests, NEW u \in Members, Club!CompleteSetup(c, u)
    PROVE  PeopleInv'
  <1>1. /\ UNCHANGED <<created, workspaces, clubAdmins, grants>>
        /\ account' = [account EXCEPT ![u] = "ACTIVE"]
    BY DEF Club!CompleteSetup
  <1>2. /\ account' \in [Members -> {"none", "PENDING_INVITATION", "ACTIVE"}]
        /\ \A v \in Members : account[v] = "ACTIVE" => account'[v] = "ACTIVE"
        /\ account'[u] = "ACTIVE"
    BY <1>1 DEF PeopleInv, PeopleTyped
  <1>3. CASE Club!With(u, "PENDING") = {}
    BY <1>1, <1>2, <1>3, AccountsAreKept DEF Club!CompleteSetup
  <1>4. CASE Club!With(u, "PENDING") # {}
    <2>1. PICK i : Club!Begin(c, i, u) BY <1>4 DEF Club!CompleteSetup
    <2> QED BY <1>1, <1>2, <2>1, BeginIsSafe
  <1> QED BY <1>3, <1>4

LEMMA DeleteInvitationIsSafe ==
    ASSUME PeopleInv, NEW i \in Club!Ids, Club!DeleteInvitation(i)
    PROVE  PeopleInv'
  <1>1. account' \in [Members -> {"none", "PENDING_INVITATION", "ACTIVE"}] /\ account' = account
    BY DEF PeopleInv, PeopleTyped, Club!DeleteInvitation
  <1>2. None \in Club!StaffInvitations \cup {None} OBVIOUS
  <1> QED BY <1>1, <1>2, RowsMayEnd DEF Club!DeleteInvitation, Club!Rows

(* A request ends: nobody holds more than before.                          *)
LEMMA EndingIsSafe ==
    ASSUME PeopleInv, NEW c \in Requests,
           callsOfPeople' = [callsOfPeople EXCEPT ![c] = Club!Idle],
           UNCHANGED account
    PROVE  /\ DOMAIN callsOfPeople' = Requests
           /\ \A d \in Requests : \A i : Accepts(d, i)' => Accepts(d, i) /\ d # c
           /\ \A d \in Requests :
                 /\ callsOfPeople'[d].op \in {None, "accept", "edit"}
                 /\ callsOfPeople'[d].op # None =>
                       /\ callsOfPeople'[d].id \in Club!Ids /\ callsOfPeople'[d].id <= created
                       /\ callsOfPeople'[d].row \in Club!StaffInvitations
                 /\ callsOfPeople'[d].op = "accept" =>
                       /\ callsOfPeople'[d].user \in Members
                       /\ account'[callsOfPeople'[d].user] = "ACTIVE"
  <1>1. /\ callsOfPeople'[c] = Club!Idle /\ DOMAIN callsOfPeople' = Requests
        /\ \A d \in Requests : d # c => callsOfPeople'[d] = callsOfPeople[d]
    BY DEF PeopleInv, PeopleTyped
  <1>2. \A d \in Requests : \A i : Accepts(d, i)' => Accepts(d, i) /\ d # c
    BY <1>1, IdleIsNothing DEF Accepts
  <1>3. ASSUME NEW d \in Requests
        PROVE  /\ callsOfPeople'[d].op \in {None, "accept", "edit"}
               /\ callsOfPeople'[d].op # None =>
                     /\ callsOfPeople'[d].id \in Club!Ids /\ callsOfPeople'[d].id <= created
                     /\ callsOfPeople'[d].row \in Club!StaffInvitations
               /\ callsOfPeople'[d].op = "accept" =>
                     /\ callsOfPeople'[d].user \in Members
                     /\ account'[callsOfPeople'[d].user] = "ACTIVE"
    BY <1>1, IdleIsNothing DEF PeopleInv, RequestsAreReal
  <1> QED BY <1>1, <1>2, <1>3

LEMMA PatchInvitationIsSafe ==
    ASSUME PeopleInv, NEW c \in Requests, NEW role \in Club!WorkspaceRoles,
           Club!PatchInvitation(c, role)
    PROVE  PeopleInv'
  <1> DEFINE row == [callsOfPeople[c].row EXCEPT !.role = role]
  <1>1. PICK i \in Club!Ids : i = callsOfPeople[c].id /\ i <= created
    BY IdleIsNothing DEF PeopleInv, RequestsAreReal, Club!PatchInvitation
  <1>2. row \in Club!StaffInvitations
    <2>1. callsOfPeople[c].row \in Club!StaffInvitations
      BY IdleIsNothing DEF PeopleInv, RequestsAreReal, Club!PatchInvitation
    <2> QED BY <2>1 DEF Club!StaffInvitations
  <1>3. /\ callsOfPeople' = [callsOfPeople EXCEPT ![c] = Club!Idle]
        /\ UNCHANGED <<created, workspaces, account, clubAdmins, grants>>
    BY DEF Club!PatchInvitation
  <1>4. \/ UNCHANGED <<invitations, overlappedOfPeople>>
        \/ /\ invitations' = [invitations EXCEPT ![i] = row]
           /\ overlappedOfPeople' = IF i \notin Club!Rows \/ row.status # invitations[i].status
                            THEN overlappedOfPeople \cup {i} ELSE overlappedOfPeople
    BY <1>1 DEF Club!PatchInvitation
  <1> HIDE DEF row
  <1>5. /\ invitations' \in [Club!Ids -> Club!StaffInvitations \cup {None}]
        /\ overlappedOfPeople \subseteq overlappedOfPeople'
        /\ \A j \in Club!Ids : invitations'[j] # None => j <= created
    BY <1>1, <1>2, <1>4 DEF PeopleInv, PeopleTyped, RequestsAreReal
  <1>6. ASSUME NEW j \in Club!Ids \ overlappedOfPeople'
        PROVE  \/ invitations'[j] = invitations[j]
               \/ /\ invitations[j] # None /\ invitations'[j] # None
                  /\ invitations'[j].status = invitations[j].status
    <2>1. CASE invitations' = [invitations EXCEPT ![i] = row] /\ j = i
      <3>1. invitations'[i] = row /\ row # None
        BY <1>2, <2>1, IdleIsNothing DEF PeopleInv, PeopleTyped
      <3>2. CASE UNCHANGED <<invitations, overlappedOfPeople>> BY <3>2
      <3>3. CASE overlappedOfPeople' = IF i \notin Club!Rows \/ row.status # invitations[i].status
                               THEN overlappedOfPeople \cup {i} ELSE overlappedOfPeople
        BY <1>6, <2>1, <3>1, <3>3 DEF Club!Rows
      <3> QED BY <1>4, <3>2, <3>3
    <2>2. CASE invitations' = [invitations EXCEPT ![i] = row] /\ j # i
      BY <2>2 DEF PeopleInv, PeopleTyped
    <2> QED BY <1>4, <2>1, <2>2
  <1>7. PeopleTyped' /\ RequestsAreReal'
    BY <1>3, <1>5, EndingIsSafe DEF PeopleInv, PeopleTyped, RequestsAreReal
  <1>8. OneAccepts'
    <2> SUFFICES ASSUME NEW j \in Club!Ids \ overlappedOfPeople', NEW d \in Requests,
                        NEW e \in Requests, Accepts(d, j)', Accepts(e, j)'
                 PROVE  d = e
      BY DEF OneAccepts, Accepts
    <2>1. Accepts(d, j) /\ Accepts(e, j) /\ j \notin overlappedOfPeople BY <1>3, <1>5, EndingIsSafe
    <2> QED BY <2>1 DEF PeopleInv, OneAccepts
  <1>9. AcceptedOnce'
    <2>1. \A g \in grants : g.id \in Club!Ids BY GrantsAreRecords
    <2>2. ASSUME NEW g \in grants, g.id \notin overlappedOfPeople'
          PROVE  /\ invitations'[g.id] = None \/ invitations'[g.id].status # "PENDING"
                 /\ \A d \in Requests : ~Accepts(d, g.id)'
      <3>1. g.id \notin overlappedOfPeople BY <1>5, <2>2
      <3>2. (invitations[g.id] = None \/ invitations[g.id].status # "PENDING")
            /\ \A d \in Requests : ~Accepts(d, g.id)
        BY <3>1 DEF PeopleInv, AcceptedOnce
      <3>3. \A d \in Requests : ~Accepts(d, g.id)' BY <1>3, <3>2, EndingIsSafe
      <3> QED BY <1>6, <2>1, <2>2, <3>2, <3>3
    <2>3. (\A g, h \in grants : g.id = h.id /\ g.id \notin overlappedOfPeople => g = h)'
      BY <1>3, <1>5 DEF PeopleInv, AcceptedOnce
    <2> QED BY <1>3, <2>2, <2>3 DEF PeopleInv, AcceptedOnce, Accepts
  <1>10. AccessIsGiven' BY <1>3 DEF PeopleInv, AccessIsGiven
  <1> QED BY <1>7, <1>8, <1>9, <1>10 DEF PeopleInv

(* The transaction of accept_invitation.                                   *)
LEMMA AcceptIsSafe ==
    ASSUME PeopleInv, NEW c \in Requests, Club!Accept(c)
    PROVE  PeopleInv'
  <1> DEFINE i == callsOfPeople[c].id
             u == callsOfPeople[c].user
             row == [callsOfPeople[c].row EXCEPT !.status = "ACCEPTED"]
             grant == [id |-> i, user |-> u, role |-> row.role, prior |-> Club!RoleOf(u)]
  <1>1. /\ i \in Club!Ids /\ i <= created /\ u \in Members /\ account[u] = "ACTIVE"
        /\ row.role \in Club!WorkspaceRoles /\ Accepts(c, i)
    <2>1. callsOfPeople[c].op = "accept" BY DEF Club!Accept
    <2>2. callsOfPeople[c].row \in Club!StaffInvitations
      BY <2>1, IdleIsNothing DEF PeopleInv, RequestsAreReal
    <2>3. row.role \in Club!WorkspaceRoles BY <2>2 DEF Club!StaffInvitations
    <2> QED BY <2>1, <2>3, IdleIsNothing DEF PeopleInv, RequestsAreReal, Accepts
  <1>2. /\ callsOfPeople' = [callsOfPeople EXCEPT ![c] = Club!Idle]
        /\ UNCHANGED <<created, account, overlappedOfPeople>>
    BY DEF Club!Accept
  <1>3. /\ DOMAIN callsOfPeople' = Requests
        /\ \A d \in Requests : \A j : Accepts(d, j)' => Accepts(d, j) /\ d # c
    BY <1>2, EndingIsSafe
  <1>4. OneAccepts' BY <1>2, <1>3 DEF PeopleInv, OneAccepts, Accepts
  <1>5. CASE UNCHANGED <<workspaces, invitations, clubAdmins, grants>>
    <2>1. PeopleTyped' /\ RequestsAreReal'
      BY <1>2, <1>5, EndingIsSafe DEF PeopleInv, PeopleTyped, RequestsAreReal
    <2>2. AcceptedOnce' BY <1>2, <1>3, <1>5 DEF PeopleInv, AcceptedOnce, Accepts
    <2>3. AccessIsGiven' BY <1>2, <1>5 DEF PeopleInv, AccessIsGiven
    <2> QED BY <1>4, <2>1, <2>2, <2>3 DEF PeopleInv
  <1>6. CASE /\ i \in Club!Rows
             /\ workspaces' = [workspaces EXCEPT ![u] = Club!Activated(u, row.role)]
             /\ invitations' = [invitations EXCEPT ![i].status = "ACCEPTED"]
             /\ clubAdmins' = Club!AdminsWith(u, row.role)
             /\ grants' = grants \cup {grant}
    <2> HIDE DEF i, u, row
    <2>0. /\ clubAdmins \subseteq clubAdmins' /\ clubAdmins' \subseteq clubAdmins \cup {u}
          /\ row.role = "ADMIN" => u \in clubAdmins'
      BY <1>6 DEF Club!AdminsWith
    <2>a. /\ grant \in Club!Grants /\ grant.id = i /\ grant.user = u /\ grant.role = row.role
          /\ workspaces[u] = None => grant.prior = None
          /\ workspaces[u] # None => grant.prior = workspaces[u].role
                                     /\ workspaces[u].role \in Club!WorkspaceRoles
      <3>1. /\ workspaces[u] \in Club!ClubWorkspaces \cup {None}
            /\ i \in Club!Ids /\ u \in Members /\ row.role \in Club!WorkspaceRoles
        BY <1>1 DEF PeopleInv, PeopleTyped
      <3>2. workspaces[u] # None => workspaces[u].role \in Club!WorkspaceRoles
        BY <3>1 DEF Club!ClubWorkspaces
      <3> QED BY <3>1, <3>2 DEF Club!Grants, Club!RoleOf
    <2> HIDE DEF grant
    <2>1. invitations[i] # None /\ invitations[i] \in Club!StaffInvitations
      BY <1>6 DEF Club!Rows, PeopleInv, PeopleTyped
    <2>2. /\ invitations'[i] \in Club!StaffInvitations
          /\ invitations'[i].status = "ACCEPTED"
          /\ \A j \in Club!Ids : j # i => invitations'[j] = invitations[j]
          /\ invitations' \in [Club!Ids -> Club!StaffInvitations \cup {None}]
      <3>1. [invitations[i] EXCEPT !.status = "ACCEPTED"] \in Club!StaffInvitations
        BY <2>1 DEF Club!StaffInvitations, Club!InvitationStatuses
      <3>2. [invitations[i] EXCEPT !.status = "ACCEPTED"].status = "ACCEPTED"
        BY <2>1 DEF Club!StaffInvitations
      <3>3. invitations' = [invitations EXCEPT ![i] = [invitations[i] EXCEPT !.status = "ACCEPTED"]]
        BY <1>6
      <3> DEFINE accepted == [invitations[i] EXCEPT !.status = "ACCEPTED"]
      <3> HIDE DEF accepted
      <3>4. accepted \in Club!StaffInvitations /\ accepted.status = "ACCEPTED"
            /\ invitations' = [invitations EXCEPT ![i] = accepted]
        BY <3>1, <3>2, <3>3 DEF accepted
      <3> QED BY <1>1, <3>4 DEF PeopleInv, PeopleTyped
    <2>3. /\ Club!Activated(u, row.role) \in Club!ClubWorkspaces
          /\ Club!Activated(u, row.role).active
          /\ Club!Activated(u, row.role).role = IF workspaces[u] = None THEN row.role
                                               ELSE workspaces[u].role
      <3>1. workspaces[u] \in Club!ClubWorkspaces \cup {None} BY <1>1 DEF PeopleInv, PeopleTyped
      <3>2. CASE workspaces[u] = None BY <1>1, <3>2 DEF Club!Activated, Club!ClubWorkspaces
      <3>3. CASE workspaces[u] # None BY <3>1, <3>3 DEF Club!Activated, Club!ClubWorkspaces
      <3> QED BY <3>2, <3>3
    <2>4. /\ workspaces' \in [Members -> Club!ClubWorkspaces \cup {None}]
          /\ workspaces'[u] # None /\ workspaces'[u].active
          /\ workspaces'[u].role = IF workspaces[u] = None THEN row.role ELSE workspaces[u].role
          /\ \A v \in Members : v # u => workspaces'[v] = workspaces[v]
      <3> DEFINE w == Club!Activated(u, row.role)
      <3> HIDE DEF w
      <3>1. /\ w \in Club!ClubWorkspaces /\ w.active /\ workspaces' = [workspaces EXCEPT ![u] = w]
            /\ w.role = IF workspaces[u] = None THEN row.role ELSE workspaces[u].role
        BY <1>6, <2>3 DEF w
      <3> QED BY <1>1, <3>1, IdleIsNothing DEF PeopleInv, PeopleTyped
    <2>5. PeopleTyped' BY <1>1, <1>2, <1>3, <1>6, <2>0, <2>a, <2>2, <2>4 DEF PeopleInv, PeopleTyped
    <2>6. RequestsAreReal'
      <3>1. \A j \in Club!Ids : invitations'[j] # None => j <= created
        BY <1>1, <2>2 DEF PeopleInv, RequestsAreReal
      <3> QED BY <1>2, <3>1, EndingIsSafe DEF RequestsAreReal
    <2>7. AcceptedOnce'
      <3>1. \A g \in grants' : g.id \in Club!Ids /\ (g \in grants \/ g = grant)
        BY <1>1, <1>6, <2>a, GrantsAreRecords
      <3>2. i \notin overlappedOfPeople => \A g \in grants : g.id # i
        BY <1>1 DEF PeopleInv, AcceptedOnce
      <3>3. ASSUME NEW g \in grants', g.id \notin overlappedOfPeople
            PROVE  /\ invitations'[g.id] = None \/ invitations'[g.id].status # "PENDING"
                   /\ \A d \in Requests : ~Accepts(d, g.id)'
        <4>1. CASE g.id = i
          <5>1. \A d \in Requests : Accepts(d, i) => d = c
            BY <1>1, <3>3, <4>1 DEF PeopleInv, OneAccepts
          <5>2. \A d \in Requests : ~Accepts(d, g.id)' BY <1>3, <4>1, <5>1
          <5> QED BY <2>2, <4>1, <5>2
        <4>2. CASE g.id # i
          <5>1. g \in grants BY <2>a, <3>1, <4>2
          <5>2. (invitations[g.id] = None \/ invitations[g.id].status # "PENDING")
                /\ \A d \in Requests : ~Accepts(d, g.id)
            BY <3>3, <5>1 DEF PeopleInv, AcceptedOnce
          <5>3. \A d \in Requests : ~Accepts(d, g.id)' BY <1>3, <5>2
          <5> QED BY <2>2, <3>1, <4>2, <5>2, <5>3
        <4> QED BY <4>1, <4>2
      <3>4. \A g, h \in grants' : g.id = h.id /\ g.id \notin overlappedOfPeople => g = h
        BY <2>a, <3>1, <3>2 DEF PeopleInv, AcceptedOnce
      <3>5. \A g \in grants' : g.id <= created BY <1>1, <2>a, <3>1 DEF PeopleInv, AcceptedOnce
      <3> QED BY <1>2, <3>3, <3>4, <3>5 DEF AcceptedOnce, Accepts
    <2>8. AccessIsGiven'
      <3>1. ASSUME NEW g \in grants'
            PROVE  /\ workspaces'[g.user] # None /\ workspaces'[g.user].active
                   /\ workspaces'[g.user].role = IF g.prior = None THEN g.role ELSE g.prior
                   /\ g.role = "ADMIN" => g.user \in clubAdmins'
        <4>1. CASE g = grant BY <2>0, <2>a, <2>4, <4>1, IdleIsNothing DEF Club!WorkspaceRoles
        <4>2. CASE g \in grants
          <5>1. /\ g.user \in Members /\ workspaces[g.user] # None /\ workspaces[g.user].active
                /\ workspaces[g.user].role = IF g.prior = None THEN g.role ELSE g.prior
                /\ g.role = "ADMIN" => g.user \in clubAdmins
            BY <4>2, GrantsAreRecords DEF PeopleInv, AccessIsGiven
          <5> QED BY <2>0, <2>4, <5>1
        <4> QED BY <1>6, <4>1, <4>2
      <3>2. \A v \in clubAdmins' : account'[v] = "ACTIVE"
        BY <1>1, <1>2, <2>0 DEF PeopleInv, AccessIsGiven
      <3> QED BY <3>1, <3>2 DEF AccessIsGiven
    <2> QED BY <1>4, <2>5, <2>6, <2>7, <2>8 DEF PeopleInv
  <1> QED BY <1>5, <1>6 DEF Club!Accept

(* A workspace that is not there has no grant; a moved or deleted one      *)
(* takes its grants with it.                                               *)
LEMMA WorkspacesAreSafe ==
    ASSUME PeopleInv,
           UNCHANGED <<invitations, created, account, clubAdmins, callsOfPeople, overlappedOfPeople>>,
           workspaces' \in [Members -> Club!ClubWorkspaces \cup {None}],
           grants' \subseteq grants,
           \A g \in grants' : workspaces'[g.user] = workspaces[g.user]
    PROVE  PeopleInv'
  <1>1. PeopleTyped' /\ OneAccepts' BY DEF PeopleInv, PeopleTyped, OneAccepts, Accepts
  <1>2. RequestsAreReal' BY DEF PeopleInv, RequestsAreReal
  <1>3. AcceptedOnce' BY DEF PeopleInv, AcceptedOnce, Accepts
  <1>4. AccessIsGiven' BY DEF PeopleInv, AccessIsGiven
  <1> QED BY <1>1, <1>2, <1>3, <1>4 DEF PeopleInv

LEMMA WorkspaceStepsAreSafe ==
    ASSUME PeopleInv, NEW u \in Members, NEW v \in Members, NEW row \in Club!ClubWorkspaces,
           \/ Club!CreateWorkspace(u, row) \/ Club!MoveWorkspace(u, v, row)
           \/ Club!DeleteWorkspace(u)
    PROVE  PeopleInv'
  <1>0. /\ workspaces \in [Members -> Club!ClubWorkspaces \cup {None}]
        /\ \A g \in grants : g.user \in Members /\ workspaces[g.user] # None
    BY GrantsAreRecords DEF PeopleInv, PeopleTyped, AccessIsGiven
  <1>1. CASE Club!CreateWorkspace(u, row) BY <1>0, <1>1, WorkspacesAreSafe DEF Club!CreateWorkspace
  <1>2. CASE Club!MoveWorkspace(u, v, row) BY <1>0, <1>2, WorkspacesAreSafe DEF Club!MoveWorkspace
  <1>3. CASE Club!DeleteWorkspace(u) BY <1>0, <1>3, WorkspacesAreSafe DEF Club!DeleteWorkspace
  <1> QED BY <1>1, <1>2, <1>3

LEMMA PeopleStutter == PeopleInv /\ UNCHANGED clubVars => PeopleInv'
  BY AccountsAreKept DEF clubVars, PeopleInv, PeopleTyped

LEMMA PeopleNext == PeopleInv /\ Club!Next => PeopleInv'
  <1> SUFFICES ASSUME PeopleInv, Club!Next PROVE PeopleInv' OBVIOUS
  <1>1. ASSUME NEW u \in Invitees, NEW role \in Club!WorkspaceRoles,
               Club!InviteStaff(u, role) \/ Club!InviteAdmin(u)
        PROVE  PeopleInv'
    BY <1>1, InviteStaffIsSafe, InviteAdminIsSafe
  <1>2. ASSUME NEW u, NEW i, Club!LinkExpires(u) \/ Club!InvitationExpires(i)
        PROVE  PeopleInv'
    <2>1. UNCHANGED <<invitations, created, workspaces, clubAdmins, callsOfPeople, grants,
                      overlappedOfPeople, account>>
      BY <1>2 DEF Club!LinkExpires, Club!InvitationExpires
    <2>2. account' \in [Members -> {"none", "PENDING_INVITATION", "ACTIVE"}]
      BY <2>1 DEF PeopleInv, PeopleTyped
    <2> QED BY <2>1, <2>2, AccountsAreKept
  <1>3. ASSUME NEW i \in Club!Ids, Club!DeleteInvitation(i) PROVE PeopleInv'
    BY <1>3, DeleteInvitationIsSafe
  <1>4. ASSUME NEW c \in Requests,
               \/ Club!Accept(c)
               \/ \E i \in Club!Ids : \/ Club!ReadInvitation(c, i)
                                        \/ \E u \in Members : Club!AcceptRequest(c, i, u)
               \/ \E role \in Club!WorkspaceRoles : Club!PatchInvitation(c, role)
               \/ \E u \in Members : Club!CompleteSetup(c, u)
        PROVE  PeopleInv'
    BY <1>4, AcceptIsSafe, ReadInvitationIsSafe, AcceptRequestIsSafe, PatchInvitationIsSafe,
       CompleteSetupIsSafe
  <1>5. ASSUME NEW u \in Members, NEW v \in Members, NEW row \in Club!ClubWorkspaces,
               \/ Club!CreateWorkspace(u, row) \/ Club!MoveWorkspace(u, v, row)
               \/ Club!DeleteWorkspace(u)
        PROVE  PeopleInv'
    BY <1>5, WorkspaceStepsAreSafe
  <1>6. \E row : row \in Club!ClubWorkspaces
    <2>1. [role |-> "ADMIN", active |-> TRUE] \in Club!ClubWorkspaces
      BY DEF Club!ClubWorkspaces, Club!WorkspaceRoles
    <2> QED BY <2>1
  <1>7. ASSUME NEW u \in Members, Club!DeleteWorkspace(u) PROVE PeopleInv' BY <1>5, <1>6, <1>7
  <1>8. "ADMIN" \in Club!WorkspaceRoles BY DEF Club!WorkspaceRoles
  <1> QED BY <1>1, <1>2, <1>3, <1>4, <1>5, <1>7, <1>8 DEF Club!Next

(* One grant of an invitation, counted.                                    *)
LEMMA PeopleCardinality == \A S : Club!Cardinality(S) = Cardinality(S)
  BY DEF Club!Cardinality, Cardinality

LEMMA PeopleInvSays == PeopleInv => Club!InvitationGivesAccess
  <1> SUFFICES ASSUME PeopleInv PROVE Club!InvitationGivesAccess OBVIOUS
  <1>1. ASSUME NEW i \in Club!Ids \ overlappedOfPeople
        PROVE  Club!Cardinality({g \in grants : g.id = i}) <= 1
    <2> DEFINE G == {g \in grants : g.id = i}
    <2>1. \A g, h \in G : g = h BY DEF PeopleInv, AcceptedOnce
    <2> HIDE DEF G
    <2>2. CASE G = {} BY <2>2, FS_EmptySet, PeopleCardinality DEF G
    <2>3. CASE G # {}
      <3>1. PICK g : G = {g} BY <2>1, <2>3
      <3>2. Cardinality({g}) = 1 BY FS_Singleton
      <3> QED BY <3>1, <3>2, PeopleCardinality DEF G
    <2> QED BY <2>2, <2>3
  <1> QED BY <1>1 DEF Club!InvitationGivesAccess, PeopleInv, AccessIsGiven

-----------------------------------------------------------------------------
(* Participant compliance: a placement holds the row of its participant,   *)
(* so that what it checked is still so when its order is created; and an   *)
(* approval is never taken back.                                           *)
ClearanceInv ==
    /\ compliance \in Clearance!Compliance
    /\ profile \in Clearance!Profile
    /\ placing \in BOOLEAN
    /\ proposals \in Seq(Clearance!Proposals)
    /\ placing => compliance.restriction = "CLEAR" /\ compliance.jurisdiction # "BLOCK"
    /\ Clearance!TradesCleared

LEMMA ClearanceInit == Clearance!Init => ClearanceInv
  <1> SUFFICES ASSUME Clearance!Init PROVE ClearanceInv OBVIOUS
  <1>1. compliance \in Clearance!Compliance
    BY DEF Clearance!Init, Clearance!Compliance, Clearance!Restrictions, Clearance!Jurisdictions
  <1>2. profile \in Clearance!Profile
    BY DEF Clearance!Init, Clearance!Profile, Clearance!Bands, Clearance!Recommendations,
           Clearance!Overrides
  <1>3. /\ proposals \in Seq(Clearance!Proposals) /\ placing = FALSE /\ placed = {}
        /\ profile.manual = "NONE"
    BY DEF Clearance!Init
  <1> QED BY <1>1, <1>2, <1>3 DEF ClearanceInv, Clearance!TradesCleared

LEMMA DecideKeepsClearance ==
    ASSUME ClearanceInv, NEW s \in Pair, NEW i \in 1..MaxDecisions, NEW approve \in BOOLEAN,
           Clearance!Decide(i, s, approve)
    PROVE  ClearanceInv'
  <1> DEFINE p == proposals[i]
             decided == [p EXCEPT !.decidedBy = s,
                                  !.status = IF approve THEN "APPROVED" ELSE "REJECTED"]
  <1>1. /\ i \in DOMAIN proposals /\ p \in Clearance!Proposals /\ p.status = "PENDING" /\ p.by # s
        /\ proposals' = [proposals EXCEPT ![i] = decided]
        /\ UNCHANGED <<placing, placed>>
    <2>1. i \in DOMAIN proposals /\ p.status = "PENDING" /\ p.by # s
      BY DEF Clearance!Decide, Clearance!MayDecide
    <2>2. p \in Clearance!Proposals BY <2>1 DEF ClearanceInv
    <2>3. UNCHANGED <<placing, placed>> BY DEF Clearance!Decide
    <2>4. proposals' = [proposals EXCEPT ![i] = decided] BY Zenon DEF Clearance!Decide
    <2> QED BY <2>1, <2>2, <2>3, <2>4
  <1>2. /\ decided \in Clearance!Proposals /\ decided.manual = p.manual
        /\ decided.by = p.by /\ decided.decidedBy = s
        /\ approve => decided.status = "APPROVED"
    BY <1>1 DEF Clearance!Proposals
  <1> HIDE DEF decided
  <1>3. proposals' \in Seq(Clearance!Proposals) BY <1>1, <1>2 DEF ClearanceInv
  <1>4. \/ UNCHANGED <<compliance, profile>>
        \/ /\ ~placing /\ compliance' \in Clearance!Compliance /\ UNCHANGED profile
        \/ /\ approve /\ UNCHANGED compliance
           /\ profile' = [profile EXCEPT !.manual = p.manual, !.recommendation = p.recommendation]
    BY DEF Clearance!Decide, Clearance!Apply, Clearance!UpdateTo, Clearance!UserFree,
           Clearance!Compliance, Clearance!Restrictions, Clearance!Jurisdictions, ClearanceInv
  <1>5. /\ profile' \in Clearance!Profile
        /\ \/ profile'.manual = profile.manual
           \/ approve /\ profile'.manual = p.manual
    <2>1. \A m \in Clearance!Overrides, r \in Clearance!Recommendations :
              LET new == [profile EXCEPT !.manual = m, !.recommendation = r]
              IN  new \in Clearance!Profile /\ new.manual = m
      BY DEF Clearance!Profile, ClearanceInv
    <2>2. p.manual \in Clearance!Overrides /\ p.recommendation \in Clearance!Recommendations
      BY <1>1 DEF Clearance!Proposals
    <2>3. \/ UNCHANGED profile
          \/ /\ approve
             /\ profile' = [profile EXCEPT !.manual = p.manual,
                                           !.recommendation = p.recommendation]
      BY <1>4
    <2>4. CASE UNCHANGED profile BY <2>4 DEF ClearanceInv
    <2>5. CASE approve /\ profile' = [profile EXCEPT !.manual = p.manual,
                                                     !.recommendation = p.recommendation]
      BY <2>1, <2>2, <2>5, Zenon
    <2> QED BY <2>3, <2>4, <2>5
  <1>6. profile'.manual # "NONE" => \E j \in DOMAIN proposals' :
            /\ proposals'[j].status = "APPROVED" /\ proposals'[j].manual = profile'.manual
            /\ proposals'[j].decidedBy \in Pair \ {proposals'[j].by}
    BY <1>1, <1>2, <1>5 DEF ClearanceInv, Clearance!TradesCleared
  <1> QED BY <1>1, <1>3, <1>4, <1>5, <1>6 DEF ClearanceInv, Clearance!TradesCleared

LEMMA ClearanceNext == ClearanceInv /\ Clearance!Next => ClearanceInv'
  <1> SUFFICES ASSUME ClearanceInv, Clearance!Next PROVE ClearanceInv' OBVIOUS
  <1> USE DEF ClearanceInv, Clearance!TradesCleared
  <1>1. CASE Clearance!ChangeOutside BY <1>1 DEF Clearance!ChangeOutside
  <1>2. CASE Clearance!Assess
    <2>1. Clearance!Band(Clearance!Inputs) \in Clearance!Bands
      BY DEF Clearance!Band, Clearance!Bands
    <2>2. \A b \in Clearance!Bands : Clearance!Recommendation(b) \in Clearance!Recommendations
      BY DEF Clearance!Recommendation, Clearance!Bands, Clearance!Recommendations
    <2>3. \A b \in Clearance!Bands, r \in Clearance!Recommendations :
              LET new == [profile EXCEPT !.band = b, !.recommendation = r, !.assessed = TRUE]
              IN  new \in Clearance!Profile /\ new.manual = profile.manual
      BY DEF Clearance!Profile
    <2> QED BY <1>2, <2>1, <2>2, <2>3 DEF Clearance!Assess
  <1>3. CASE Clearance!PlaceOrder BY <1>3 DEF Clearance!PlaceOrder, Clearance!Eligible
  <1>4. CASE Clearance!OrderPlaced BY <1>4 DEF Clearance!OrderPlaced
  <1>5. ASSUME NEW c \in Clearance!Compliance, Clearance!Patch(c) PROVE ClearanceInv'
    BY <1>5 DEF Clearance!Patch, Clearance!UpdateTo, Clearance!UserFree
  <1>6. ASSUME NEW s \in Pair, NEW t \in Clearance!Types, NEW o \in Clearance!Overrides,
               Clearance!Propose(s, t, o)
        PROVE  ClearanceInv'
    <2>1. PICK p : proposals' = Append(proposals, p) /\ p \in Clearance!Proposals
      <3>1. Clearance!Asked(t, o) \in Clearance!Overrides
        BY <1>6 DEF Clearance!Asked, Clearance!Overrides, Clearance!Profile
      <3>2. \A r \in Clearance!Recommendations :
                [type |-> t, by |-> s, status |-> "PENDING", manual |-> Clearance!Asked(t, o),
                 recommendation |-> r, decidedBy |-> None] \in Clearance!Proposals
        BY <3>1 DEF Clearance!Proposals
      <3>3. profile.recommendation \in Clearance!Recommendations
            /\ "NONE" \in Clearance!Recommendations
        BY DEF Clearance!Profile, Clearance!Recommendations
      <3> QED BY <1>6, <3>2, <3>3 DEF Clearance!Propose
    <2>2. UNCHANGED <<compliance, profile, placing, placed>> BY <1>6 DEF Clearance!Propose
    <2>3. proposals' \in Seq(Clearance!Proposals) BY <2>1
    <2>4. \A i \in DOMAIN proposals : i \in DOMAIN proposals' /\ proposals'[i] = proposals[i]
      BY <2>1
    <2> QED BY <2>2, <2>3, <2>4
  <1>7. ASSUME NEW s \in Pair, NEW i \in 1..MaxDecisions, NEW a \in BOOLEAN,
               Clearance!Decide(i, s, a)
        PROVE  ClearanceInv'
    BY <1>7, DecideKeepsClearance
  <1> QED BY <1>1, <1>2, <1>3, <1>4, <1>5, <1>6, <1>7 DEF Clearance!Next

LEMMA ClearanceStutter == ClearanceInv /\ UNCHANGED clearanceVars => ClearanceInv'
  BY DEF ClearanceInv, clearanceVars, Clearance!TradesCleared

-----------------------------------------------------------------------------
(* Leagues: who counted the members last found room, and every join under  *)
(* way has counted by then.                                                *)
JoinsFit == Cardinality(members) + Cardinality(joining) < peakOfLeague + mostOfLeague

LeagueInv ==
    /\ IsFiniteSet(members) /\ IsFiniteSet(joining)
    /\ peakOfLeague \in Nat /\ mostOfLeague \in Nat
    /\ Cardinality(joining) <= mostOfLeague
    /\ league = None => joining = {}
    /\ league # None => league \in League!Leagues /\ league.capacity <= peakOfLeague
    /\ joining # {} => JoinsFit

LEMMA SameCardinality == \A S : League!Cardinality(S) = Cardinality(S)
  BY DEF League!Cardinality, Cardinality

LEMMA LeagueInit == League!Init => LeagueInv
  BY FS_EmptySet DEF League!Init, LeagueInv, JoinsFit

(* Requests of owners: they join, one by one or past each other, and leave. *)
LEMMA OwnerKeepsRoom ==
    ASSUME LeagueInv, NEW o \in Owners,
           League!CountMembers(o) \/ League!Join(o) \/ League!Leave(o)
    PROVE  LeagueInv'
  <1> USE DEF LeagueInv, JoinsFit, League!competition, League!social
  <1>0. /\ Cardinality(members) \in Nat /\ Cardinality(joining) \in Nat
        /\ league # None => league.capacity \in Nat
    BY FS_CardinalityType, BoundsAssumption DEF League!Leagues
  <1>1. CASE League!CountMembers(o)
    <2>1. /\ league # None /\ Cardinality(members) < league.capacity
          /\ joining' = joining \cup {o}
          /\ mostOfLeague' = League!Larger(mostOfLeague, Cardinality(joining'))
          /\ UNCHANGED <<league, members, peakOfLeague>>
      BY <1>1, SameCardinality DEF League!CountMembers, League!Room
    <2>2. IsFiniteSet(joining') /\ Cardinality(joining') \in Nat
      BY <2>1, FS_AddElement, FS_CardinalityType
    <2>3. mostOfLeague' \in Nat /\ Cardinality(joining') <= mostOfLeague'
      BY <2>1, <2>2 DEF League!Larger
    <2> QED BY <1>0, <2>1, <2>2, <2>3
  <1>2. CASE League!Join(o)
    <2>1. /\ o \in joining /\ joining' = joining \ {o} /\ members' = members \cup {o}
          /\ UNCHANGED <<league, mostOfLeague, peakOfLeague>>
      BY <1>2 DEF League!Join
    <2>2. /\ IsFiniteSet(joining') /\ Cardinality(joining') = Cardinality(joining) - 1
          /\ IsFiniteSet(members')
          /\ \/ Cardinality(members') = Cardinality(members)
             \/ Cardinality(members') = Cardinality(members) + 1
      BY <2>1, FS_RemoveElement, FS_AddElement
    <2> QED BY <1>0, <2>1, <2>2
  <1>3. CASE League!Leave(o)
    <2>1. /\ members' = members \ {o} /\ o \in members
          /\ UNCHANGED <<league, joining, mostOfLeague, peakOfLeague>>
      BY <1>3 DEF League!Leave
    <2>2. IsFiniteSet(members') /\ Cardinality(members') = Cardinality(members) - 1
      BY <2>1, FS_RemoveElement
    <2> QED BY <1>0, <2>1, <2>2
  <1> QED BY <1>1, <1>2, <1>3

(* The league itself, the competition and the points.                      *)
LEMMA LeagueIsSaved ==
    /\ \A o \in Owners, v \in League!Visibilities, c \in Capacities :
          LET l == League!Saved([owner |-> o, visibility |-> v, capacity |-> c, code |-> FALSE])
          IN  l \in League!Leagues
    /\ \A l \in League!Leagues, v \in League!Visibilities, c \in Capacities :
          League!Saved([l EXCEPT !.visibility = v, !.capacity = c]) \in League!Leagues
  BY DEF League!Saved, League!Leagues

LEMMA LeagueKeepsRoom ==
    /\ LeagueInv /\ League!DestroyLeague => LeagueInv'
    /\ \A v \in League!Visibilities, c \in Capacities :
          LeagueInv /\ League!UpdateLeague(v, c) => LeagueInv'
    /\ \A o \in Owners, v \in League!Visibilities, c \in Capacities :
          LeagueInv /\ League!CreateLeague(o, v, c) => LeagueInv'
    /\ \A o \in Owners, v \in 0..MaxPoints : LeagueInv /\ League!Score(o, v) => LeagueInv'
  <1> USE DEF LeagueInv, JoinsFit, League!competition, League!social
  <1>1. LeagueInv /\ League!DestroyLeague => LeagueInv'
    BY FS_EmptySet DEF League!DestroyLeague
  <1>2. ASSUME NEW v \in League!Visibilities, NEW c \in Capacities, LeagueInv,
               League!UpdateLeague(v, c)
        PROVE  LeagueInv'
    <2>1. /\ league # None /\ peakOfLeague' = League!Larger(peakOfLeague, c)
          /\ UNCHANGED <<members, joining, mostOfLeague>>
      BY <1>2 DEF League!UpdateLeague
    <2>2. league' \in League!Leagues BY <1>2, <2>1, LeagueIsSaved, Zenon DEF League!UpdateLeague
    <2>3. league'.capacity = c /\ c \in Nat
      BY <1>2, <2>1, BoundsAssumption DEF League!UpdateLeague, League!Saved, League!Leagues
    <2>4. peakOfLeague' \in Nat /\ c <= peakOfLeague' /\ peakOfLeague <= peakOfLeague'
      BY <1>2, <2>1, <2>3 DEF League!Larger
    <2>5. Cardinality(members) \in Nat /\ Cardinality(joining) \in Nat
      BY <1>2, FS_CardinalityType
    <2>6. league' # None BY <2>2, NoneAssumption
    <2> QED BY <1>2, <2>1, <2>2, <2>3, <2>4, <2>5, <2>6
  <1>3. ASSUME NEW o \in Owners, NEW v \in League!Visibilities, NEW c \in Capacities,
               LeagueInv, League!CreateLeague(o, v, c)
        PROVE  LeagueInv'
    <2>1. /\ league = None /\ joining' = joining /\ members' = {o} \cap League!TeamOwners
          /\ peakOfLeague' = c /\ UNCHANGED mostOfLeague
      BY <1>3 DEF League!CreateLeague
    <2>2. IsFiniteSet(members') BY <2>1, FS_Singleton, FS_Subset
    <2>3. league' \in League!Leagues BY <1>3, LeagueIsSaved, Zenon DEF League!CreateLeague
    <2>4. league'.capacity = c /\ c \in Nat
      BY <1>3, BoundsAssumption DEF League!CreateLeague, League!Saved
    <2> QED BY <1>3, <2>1, <2>2, <2>3, <2>4
  <1>4. ASSUME NEW o \in Owners, NEW v \in 0..MaxPoints, LeagueInv, League!Score(o, v)
        PROVE  LeagueInv'
    BY <1>4 DEF League!Score
  <1> QED BY <1>1, <1>2, <1>3, <1>4

LEMMA LeagueNext == LeagueInv /\ League!Next => LeagueInv'
  <1> SUFFICES ASSUME LeagueInv, League!Next PROVE LeagueInv' OBVIOUS
  <1>1. CASE UNCHANGED <<league, members, joining, mostOfLeague, peakOfLeague, changesOfLeague>>
    BY <1>1 DEF LeagueInv, JoinsFit
  <1>2. \/ UNCHANGED <<league, members, joining, mostOfLeague, peakOfLeague, changesOfLeague>>
        \/ League!DestroyLeague
        \/ \E v \in League!Visibilities, c \in Capacities :
              League!UpdateLeague(v, c) \/ \E o \in Owners : League!CreateLeague(o, v, c)
        \/ \E o \in Owners : League!CountMembers(o) \/ League!Join(o) \/ League!Leave(o)
        \/ \E o \in Owners, v \in 0..MaxPoints : League!Score(o, v)
    BY DEF League!Next, League!DeadlinePasses, League!SetRegistration, League!AddPlayer,
           League!CreateFull, League!CreateTeam, League!social
  <1> QED BY <1>1, <1>2, OwnerKeepsRoom, LeagueKeepsRoom

LEMMA LeagueStutter == LeagueInv /\ UNCHANGED leagueVars => LeagueInv'
  BY DEF LeagueInv, JoinsFit, leagueVars

LEMMA JoinsFindRoom == LeagueInv => League!JoinsWithinCapacity
  <1> SUFFICES ASSUME LeagueInv, NEW o \in Owners, League!Join(o)
               PROVE  League!Cardinality(members') < peakOfLeague + mostOfLeague
    BY DEF League!JoinsWithinCapacity
  <1>1. o \in joining /\ members' = members \cup {o} BY DEF League!Join
  <1>2. /\ IsFiniteSet(members) /\ IsFiniteSet(joining) /\ JoinsFit
        /\ peakOfLeague \in Nat /\ mostOfLeague \in Nat
    BY <1>1 DEF LeagueInv
  <1>3. /\ Cardinality(members) \in Nat /\ Cardinality(joining) \in Nat
        /\ Cardinality(joining) # 0 /\ Cardinality(members') <= Cardinality(members) + 1
        /\ Cardinality(members') \in Nat
    <2>1. Cardinality(members) \in Nat /\ Cardinality(joining) \in Nat
      BY <1>2, FS_CardinalityType
    <2>2. Cardinality(joining) # 0 BY <1>1, <1>2, FS_EmptySet
    <2>3. \/ Cardinality(members') = Cardinality(members)
          \/ Cardinality(members') = Cardinality(members) + 1
      BY <1>1, <1>2, FS_AddElement
    <2> QED BY <2>1, <2>2, <2>3
  <1>4. League!Cardinality(members') = Cardinality(members') BY SameCardinality
  <1> QED BY <1>2, <1>3, <1>4 DEF JoinsFit

-----------------------------------------------------------------------------
(* Limits: what a placement has read of the fills is no less than what is  *)
(* bought by now, and what it has read of the orders is what is open.      *)
KindsInUse == {"daily", "total"}
OrdersWithLimits == [market : OrderMarkets, price : Prices, rest : Nat]

ReadingsHold ==
    placingOfLimits # None =>
        /\ placingOfLimits.order \in OrdersWithLimits
        /\ placingOfLimits.at \in {"fills", "orders"} =>
              placingOfLimits.daily \in Nat /\ placingOfLimits.daily >= bought[day]
        /\ placingOfLimits.at = "orders" => placingOfLimits.openAll = Limits!Commitments(OrderMarkets)

LimitsInv ==
    /\ day \in 0..LastDay /\ bought \in [0..LastDay -> Nat]
    /\ \A d \in 0..LastDay : d > day => bought[d] = 0
    /\ limits \in [KindsInUse -> Int \cup {None}]
    /\ until \in [Limits!Timers -> Int \cup {None}]
    /\ ordersOfLimits \in Seq(OrdersWithLimits)
    /\ ReadingsHold

LEMMA LimitsInit == Limits!Init => LimitsInv
  BY BoundsAssumption DEF Limits!Init, LimitsInv, ReadingsHold, KindsInUse, Limits!Days

LEMMA CommitmentsStay ==
    ASSUME UNCHANGED ordersOfLimits
    PROVE  Limits!Commitments(OrderMarkets)' = Limits!Commitments(OrderMarkets)
  BY DEF Limits!Commitments, Limits!MapThenSumSet, Limits!MapThenFoldSet

(* Controls: they change under the lock of the participant's row, so that  *)
(* no placement is under way.                                              *)
LEMMA ControlsKeepLimits ==
    LimitsInv /\ Limits!Controls => LimitsInv' /\ Limits!KeepsToLimits
  <1> SUFFICES ASSUME LimitsInv, Limits!Controls PROVE LimitsInv' /\ Limits!KeepsToLimits OBVIOUS
  <1> DEFINE Kept == \A t \in Limits!Timers : Limits!Active(t) =>
                        \/ until'[t] # None /\ until'[t] >= until[t]
                        \/ t = "exclusion" /\ indefinite'
             Free == /\ placingOfLimits = None /\ placingOfLimits' = None
                     /\ UNCHANGED <<day, ordersOfLimits, bought>>
             Typed == /\ limits' \in [KindsInUse -> Int \cup {None}]
                      /\ until' \in [Limits!Timers -> Int \cup {None}]
  <1>1. /\ day \in Int /\ until \in [Limits!Timers -> Int \cup {None}]
        /\ limits \in [KindsInUse -> Int \cup {None}]
        /\ Values \subseteq Int /\ Durations \subseteq Int /\ None \notin Int
        /\ 0..LastDay \subseteq Int
    BY BoundsAssumption, NoneAssumption DEF LimitsInv
  <1>2. \A f \in [Limits!Timers -> Int \cup {None}], t \in Limits!Timers, e \in Int \cup {None} :
            /\ [f EXCEPT ![t] = e] \in [Limits!Timers -> Int \cup {None}]
            /\ \A u \in Limits!Timers : [f EXCEPT ![t] = e][u] = IF u = t THEN e ELSE f[u]
    OBVIOUS
  <1>3. Limits!Edit => Free BY DEF Limits!Edit, Limits!UserFree, Limits!holdings
  <1>4. ASSUME NEW k \in KindsInUse, NEW v \in Int \cup {None}, Limits!Edit,
               limits' = [limits EXCEPT ![k] = v], UNCHANGED <<until, indefinite>>
        PROVE  Free /\ Typed /\ Kept /\ (indefinite => indefinite')
    BY <1>1, <1>3, <1>4 DEF Limits!Active
  <1>5. ASSUME NEW t \in Limits!Timers, NEW e \in Int \cup {None}, Limits!Edit,
               until' = [until EXCEPT ![t] = e],
               Limits!Active(t) => \/ e # None /\ e >= until[t]
                                   \/ t = "exclusion" /\ indefinite',
               indefinite => indefinite', UNCHANGED limits
        PROVE  Free /\ Typed /\ Kept /\ (indefinite => indefinite')
    BY <1>1, <1>2, <1>3, <1>5 DEF Limits!Active
  <1>6. ASSUME Limits!Edit, UNCHANGED <<limits, until>>, indefinite => indefinite'
        PROVE  Free /\ Typed /\ Kept /\ (indefinite => indefinite')
    BY <1>1, <1>3, <1>6 DEF Limits!Active
  <1>7. Free /\ Typed /\ Kept /\ (indefinite => indefinite')
    <2>1. ASSUME NEW k \in KindsInUse, NEW v \in Values, Limits!SetLimit(k, v)
          PROVE  Free /\ Typed /\ Kept /\ (indefinite => indefinite')
      BY <1>1, <1>4, <2>1, Zenon DEF Limits!SetLimit
    <2>2. ASSUME NEW k \in KindsInUse, NEW v \in Values \cup {None},
                 Limits!UpdateAdminLimit(k, v)
          PROVE  Free /\ Typed /\ Kept /\ (indefinite => indefinite')
      BY <1>1, <1>4, <2>2, Zenon DEF Limits!UpdateAdminLimit
    <2>3. ASSUME NEW d \in Durations, Limits!StartCoolingOff(d)
          PROVE  Free /\ Typed /\ Kept /\ (indefinite => indefinite')
      <3>1. /\ "cooling" \in Limits!Timers /\ day + d \in Int
            /\ Limits!Active("cooling") => day + d # None /\ day + d >= until["cooling"]
        BY <1>1, <2>3 DEF Limits!StartCoolingOff, Limits!Later, Limits!Active, Limits!Timers
      <3>2. /\ Limits!Edit /\ until' = [until EXCEPT !["cooling"] = day + d]
            /\ UNCHANGED <<limits, indefinite>>
        BY <2>3 DEF Limits!StartCoolingOff
      <3> QED BY <1>5, <3>1, <3>2
    <2>4. ASSUME NEW d \in Durations \cup {None}, Limits!StartSelfExclusion(d)
          PROVE  Free /\ Typed /\ Kept /\ (indefinite => indefinite')
      <3>0. "exclusion" \in Limits!Timers /\ Limits!Edit /\ UNCHANGED limits /\ ~indefinite
        BY <2>4 DEF Limits!Timers, Limits!StartSelfExclusion
      <3>1. CASE d = None
        <4>1. indefinite' /\ until' = [until EXCEPT !["exclusion"] = None]
          BY <2>4, <3>1 DEF Limits!StartSelfExclusion
        <4> QED BY <1>5, <3>0, <4>1
      <3>2. CASE d # None
        <4>1. /\ Limits!Later("exclusion", day + d) /\ UNCHANGED indefinite
              /\ until' = [until EXCEPT !["exclusion"] = day + d]
          BY <2>4, <3>2 DEF Limits!StartSelfExclusion
        <4>2. /\ day + d \in Int
              /\ Limits!Active("exclusion") => day + d # None /\ day + d >= until["exclusion"]
          BY <1>1, <3>0, <3>2, <4>1 DEF Limits!Later, Limits!Active
        <4> QED BY <1>5, <3>0, <4>1, <4>2
      <3> QED BY <3>1, <3>2
    <2>5. ASSUME NEW t \in Limits!Timers, NEW e \in Limits!Days \cup {None},
                 Limits!UpdateAdminTimer(t, e)
          PROVE  Free /\ Typed /\ Kept /\ (indefinite => indefinite')
      <3>1. /\ e \in Int \cup {None}
            /\ Limits!Active(t) => e # None /\ e >= until[t]
        BY <1>1, <2>5 DEF Limits!UpdateAdminTimer, Limits!Extends, Limits!Active, Limits!Days
      <3>2. /\ Limits!Edit /\ until' = [until EXCEPT ![t] = e]
            /\ UNCHANGED <<limits, indefinite>>
        BY <2>5 DEF Limits!UpdateAdminTimer
      <3> QED BY <1>5, <3>1, <3>2
    <2>6. CASE Limits!UpdateAdminExclude BY <1>6, <2>6 DEF Limits!UpdateAdminExclude
    <2> QED BY <2>1, <2>2, <2>3, <2>4, <2>5, <2>6 DEF Limits!Controls, KindsInUse
  <1>8. Limits!KeepsToLimits BY <1>7 DEF Limits!Created, LimitsInv, Limits!KeepsToLimits
  <1>9. LimitsInv' BY <1>7 DEF LimitsInv, ReadingsHold
  <1> QED BY <1>8, <1>9

(* No other action touches the controls.                                   *)
LEMMA ControlsStay ==
    LimitsInv /\ UNCHANGED <<limits, until, indefinite>> =>
        /\ indefinite => indefinite'
        /\ \A t \in Limits!Timers : Limits!Active(t) =>
              \/ until'[t] # None /\ until'[t] >= until[t]
              \/ t = "exclusion" /\ indefinite'
  BY NoneAssumption DEF LimitsInv, Limits!Active

(* A placement under way: the clock may turn and its readings go on.       *)
LEMMA PlacementKeepsLimits ==
    ASSUME LimitsInv, \/ Limits!Tick \/ Limits!ReadFills \/ Limits!ReadOrders
                      \/ \E m \in OrderMarkets, p \in Prices, s \in Sizes : Limits!Begin(m, p, s)
    PROVE  LimitsInv' /\ ~Limits!Created /\ UNCHANGED <<limits, until, indefinite>>
  <1> USE DEF LimitsInv, Limits!controls, Limits!holdings, Limits!Created
  <1>1. CASE Limits!Tick
    <2>1. /\ day' = day + 1 /\ day < LastDay /\ day \in Nat /\ LastDay \in Nat
          /\ UNCHANGED <<limits, until, indefinite, ordersOfLimits, bought, placingOfLimits>>
      BY <1>1, BoundsAssumption DEF Limits!Tick
    <2>2. /\ day' \in 0..LastDay /\ bought[day'] = 0 /\ bought[day] \in Nat
          /\ \A d \in 0..LastDay : d > day' => bought[d] = 0
      BY <2>1
    <2>3. ReadingsHold' BY <2>1, <2>2, CommitmentsStay DEF ReadingsHold
    <2> QED BY <2>1, <2>2, <2>3
  <1>2. CASE Limits!ReadFills BY <1>2 DEF Limits!ReadFills, ReadingsHold
  <1>3. CASE Limits!ReadOrders BY <1>3, CommitmentsStay DEF Limits!ReadOrders, ReadingsHold
  <1>4. ASSUME NEW m \in OrderMarkets, NEW p \in Prices, NEW s \in Sizes, Limits!Begin(m, p, s)
        PROVE  LimitsInv' /\ ~Limits!Created /\ UNCHANGED <<limits, until, indefinite>>
    BY <1>4, BoundsAssumption DEF Limits!Begin, OrdersWithLimits, ReadingsHold
  <1> QED BY <1>1, <1>2, <1>3, <1>4

LEMMA AmountsAreIntegers == \A o \in OrdersWithLimits : o.rest * o.price \in Int
  <1> SUFFICES ASSUME NEW o \in OrdersWithLimits PROVE o.rest * o.price \in Int OBVIOUS
  <1>1. o.rest \in Int /\ o.price \in Int
    <2>1. o.rest \in Nat /\ o.price \in Prices BY DEF OrdersWithLimits
    <2>2. \A p \in Prices : p \in Int BY BoundsAssumption
    <2>3. \A n \in Nat : n \in Int OBVIOUS
    <2> QED BY <2>1, <2>2, <2>3, Zenon
  <1> QED BY <1>1

(* What a check finds within the limits is within them at that moment.     *)
LEMMA CheckedIsAllowed ==
    ASSUME LimitsInv, placingOfLimits # None, placingOfLimits.at = "orders",
           NEW o, o = placingOfLimits.order, NEW weekly, NEW openHere, NEW c, NEW costHere, NEW loss,
           Limits!Allowed(o.market, o.rest * o.price, placingOfLimits.daily, weekly,
                          placingOfLimits.openAll, openHere, c, costHere, loss),
           c = Limits!Total(cost)
    PROVE  Limits!AllowedNow(o.market, o.rest * o.price)
  <1>1. /\ o \in OrdersWithLimits /\ placingOfLimits.daily \in Nat
        /\ placingOfLimits.daily >= bought[day] /\ bought[day] \in Nat
        /\ placingOfLimits.openAll = Limits!Commitments(OrderMarkets)
    BY DEF LimitsInv, ReadingsHold
  <1>2. PICK n : n = o.rest * o.price /\ n \in Int BY <1>1, AmountsAreIntegers, Zenon
  <1>3. \A v : /\ Limits!Within("order", v) /\ Limits!Within("weekly", v)
               /\ Limits!Within("open", v) /\ Limits!Within("market", v)
               /\ Limits!Within("loss", v)
    BY DEF Limits!Within
  <1>4. Limits!Within("total", Limits!Total(cost) + Limits!Commitments(OrderMarkets) + n)
    BY <1>1, <1>2 DEF Limits!Allowed
  <1>5. Limits!Within("daily", placingOfLimits.daily + n) BY <1>2 DEF Limits!Allowed
  <1>6. Limits!Within("daily", bought[day] + n)
    <2>1. Limits!Limit("daily") \in Int \cup {None}
      BY BoundsAssumption DEF Limits!Limit, LimitsInv, KindsInUse
    <2> QED BY <1>1, <1>2, <1>5, <2>1 DEF Limits!Within
  <1> QED BY <1>2, <1>3, <1>4, <1>6 DEF Limits!AllowedNow, Limits!Allowed

LEMMA CheckKeepsLimits ==
    LimitsInv /\ Limits!ReadPositions => LimitsInv' /\ Limits!KeepsToLimits
  <1> SUFFICES ASSUME LimitsInv, Limits!ReadPositions PROVE LimitsInv' /\ Limits!KeepsToLimits
    OBVIOUS
  <1> DEFINE o == placingOfLimits.order
             ok == Limits!Allowed(o.market, o.rest * o.price, placingOfLimits.daily,
                                  placingOfLimits.weekly, placingOfLimits.openAll,
                                  placingOfLimits.openHere, Limits!Total(cost),
                                  cost[o.market], Limits!Loss)
  <1>1. /\ placingOfLimits # None /\ placingOfLimits.at = "orders" /\ placingOfLimits' = None
        /\ UNCHANGED <<limits, until, indefinite, day, bought>>
    BY DEF Limits!ReadPositions, Limits!controls
  <1>2. ordersOfLimits' = IF ok THEN Append(ordersOfLimits, o) ELSE ordersOfLimits
    BY Zenon DEF Limits!ReadPositions
  <1>3. o \in OrdersWithLimits /\ ordersOfLimits \in Seq(OrdersWithLimits)
    BY <1>1 DEF LimitsInv, ReadingsHold
  <1>4. ok => Limits!AllowedNow(o.market, o.rest * o.price) BY <1>1, CheckedIsAllowed
  <1> HIDE DEF ok, o
  <1>5. LimitsInv' BY <1>1, <1>2, <1>3 DEF LimitsInv, ReadingsHold
  <1>6. Limits!Created => ok /\ Limits!Newest = o BY <1>2, <1>3 DEF Limits!Created, Limits!Newest
  <1> QED BY <1>1, <1>4, <1>5, <1>6, ControlsStay DEF Limits!KeepsToLimits

(* The counterparties and the sales of the participant.                    *)
LEMMA OthersKeepLimits ==
    ASSUME LimitsInv,
           \/ \E i \in 1..MaxOrders, p \in Prices : Limits!Fill(i, p) \/ Limits!Issue(i, p)
           \/ \E i \in 1..MaxOrders : Limits!Cancel(i)
           \/ \E m \in OrderMarkets, p \in Prices : Limits!Sell(m, p)
    PROVE  LimitsInv' /\ ~Limits!Created /\ UNCHANGED <<limits, until, indefinite>>
  <1> DEFINE Resting(i, n) == [ordersOfLimits EXCEPT ![i].rest = n]
  <1>1. ASSUME NEW i \in DOMAIN ordersOfLimits, NEW n \in Nat
        PROVE  /\ Resting(i, n) \in Seq(OrdersWithLimits)
               /\ Len(Resting(i, n)) = Len(ordersOfLimits)
    <2>1. [ordersOfLimits[i] EXCEPT !.rest = n] \in OrdersWithLimits
      <3>1. ordersOfLimits[i] \in OrdersWithLimits BY DEF LimitsInv
      <3> QED BY <3>1 DEF OrdersWithLimits
    <2>2. Resting(i, n) = [ordersOfLimits EXCEPT ![i] = [ordersOfLimits[i] EXCEPT !.rest = n]]
      OBVIOUS
    <2> QED BY <2>1, <2>2 DEF LimitsInv
  <1> HIDE DEF Resting
  <1>2. ASSUME NEW i \in 1..MaxOrders, NEW p \in Prices,
               Limits!Fill(i, p) \/ Limits!Issue(i, p)
        PROVE  LimitsInv' /\ ~Limits!Created /\ UNCHANGED <<limits, until, indefinite>>
    <2>1. /\ i \in DOMAIN ordersOfLimits /\ ordersOfLimits[i].rest > 0
          /\ placingOfLimits = None /\ placingOfLimits' = None
          /\ bought' \in {bought, [bought EXCEPT ![day] = @ + p]}
          /\ UNCHANGED <<limits, until, indefinite, day>>
      BY <1>2 DEF Limits!Fill, Limits!Issue, Limits!UserFree, Limits!controls
    <2>2. ordersOfLimits' = Resting(i, ordersOfLimits[i].rest - 1)
      BY <1>2 DEF Limits!Fill, Limits!Issue, Resting
    <2>3. ordersOfLimits[i].rest - 1 \in Nat
      <3>1. ordersOfLimits[i] \in OrdersWithLimits BY <2>1 DEF LimitsInv
      <3> QED BY <2>1, <3>1 DEF OrdersWithLimits
    <2>4. bought' \in [0..LastDay -> Nat] /\ \A d \in 0..LastDay : d > day => bought'[d] = 0
      BY <2>1, BoundsAssumption DEF LimitsInv
    <2> QED BY <1>1, <2>1, <2>2, <2>3, <2>4 DEF LimitsInv, ReadingsHold, Limits!Created
  <1>3. ASSUME NEW i \in 1..MaxOrders, Limits!Cancel(i)
        PROVE  LimitsInv' /\ ~Limits!Created /\ UNCHANGED <<limits, until, indefinite>>
    <2>1. /\ i \in DOMAIN ordersOfLimits
          /\ placingOfLimits = None /\ placingOfLimits' = None
          /\ UNCHANGED <<limits, until, indefinite, day, bought>>
      BY <1>3 DEF Limits!Cancel, Limits!UserFree, Limits!controls
    <2>2. ordersOfLimits' = Resting(i, 0) BY <1>3 DEF Limits!Cancel, Resting
    <2> QED BY <1>1, <2>1, <2>2 DEF LimitsInv, ReadingsHold, Limits!Created
  <1>4. ASSUME NEW m \in OrderMarkets, NEW p \in Prices, Limits!Sell(m, p)
        PROVE  LimitsInv' /\ ~Limits!Created /\ UNCHANGED <<limits, until, indefinite>>
    <2>1. /\ placingOfLimits = None /\ placingOfLimits' = None
          /\ UNCHANGED <<limits, until, indefinite, day, bought, ordersOfLimits>>
      BY <1>4 DEF Limits!Sell, Limits!UserFree, Limits!controls
    <2> QED BY <2>1 DEF LimitsInv, ReadingsHold, Limits!Created
  <1> QED BY <1>2, <1>3, <1>4

LEMMA LimitsNext == LimitsInv /\ Limits!Next => LimitsInv' /\ Limits!KeepsToLimits
  <1> SUFFICES ASSUME LimitsInv, Limits!Next PROVE LimitsInv' /\ Limits!KeepsToLimits OBVIOUS
  <1>1. CASE LimitsInv' /\ ~Limits!Created /\ UNCHANGED <<limits, until, indefinite>>
    BY <1>1, ControlsStay DEF Limits!KeepsToLimits
  <1> QED BY <1>1, ControlsKeepLimits, PlacementKeepsLimits, CheckKeepsLimits, OthersKeepLimits
       DEF Limits!Next

LEMMA LimitsStutter ==
    LimitsInv /\ UNCHANGED limitsVars => LimitsInv' /\ Limits!KeepsToLimits
  <1> SUFFICES ASSUME LimitsInv, UNCHANGED limitsVars PROVE LimitsInv' /\ Limits!KeepsToLimits
    OBVIOUS
  <1>1. UNCHANGED <<limits, until, indefinite, day, ordersOfLimits, bought, placingOfLimits>>
    BY DEF limitsVars
  <1>2. ReadingsHold' BY <1>1, CommitmentsStay DEF LimitsInv, ReadingsHold
  <1>3. ~Limits!Created BY <1>1 DEF LimitsInv, Limits!Created
  <1> QED BY <1>1, <1>2, <1>3, ControlsStay DEF LimitsInv, Limits!KeepsToLimits

-----------------------------------------------------------------------------
(* Withdrawals: a key under service has no withdrawal yet, and only one    *)
(* request serves it.                                                      *)
CashInv ==
    /\ now \in Nat
    /\ withdrawal \in [WithdrawalKeys -> Cash!Withdrawal \cup {None}]
    /\ work \in [Requests -> Withdrawn \cup {None}]
    /\ \A p \in Requests : work[p] # None => ~Cash!Exists(work[p].key)
    /\ \A p, q \in Requests : p # q /\ work[p] # None /\ work[q] # None
                                 => work[p].key # work[q].key

LEMMA CashInit == Cash!Init => CashInv
  BY DEF Cash!Init, CashInv

(* The record that Finish writes, and a decision about one that exists.    *)
LEMMA CommittedIsTyped ==
    \A r \in Cash!RequestType, n \in Nat, b \in BOOLEAN, s \in SUBSET Cash!Reasons :
        [request |-> r, created |-> n,
         status |-> IF b THEN "APPROVED" ELSE "PENDING_APPROVAL",
         transaction |-> "PENDING",
         mode |-> IF b THEN "AUTOMATIC" ELSE "PENDING", reasons |-> s] \in Cash!Withdrawal
  BY DEF Cash!Withdrawal, Cash!Statuses, Cash!TransactionStatuses, Cash!Modes

LEMMA DecidedIsTyped ==
    \A w \in Cash!Withdrawal, s \in Cash!Statuses :
        /\ [w EXCEPT !.status = s] \in Cash!Withdrawal
        /\ [w EXCEPT !.status = s].request = w.request
        /\ \A t \in Cash!TransactionStatuses :
              /\ [w EXCEPT !.status = s, !.transaction = t] \in Cash!Withdrawal
              /\ [w EXCEPT !.status = s, !.transaction = t].request = w.request
        /\ \A m \in Cash!Modes :
              /\ [w EXCEPT !.status = s, !.mode = m] \in Cash!Withdrawal
              /\ [w EXCEPT !.status = s, !.mode = m].request = w.request
  BY DEF Cash!Withdrawal

(* The requests that come in and those that end.                           *)
LEMMA RequestsKeepKeys ==
    ASSUME CashInv, NEW p \in Requests,
           \/ \E r \in Withdrawn : Cash!Request(p, r)
           \/ Cash!Finish(p) \/ Cash!Abandon(p)
    PROVE  CashInv' /\ Cash!KeepsTerminal
  <1> USE DEF CashInv
  <1>1. /\ None \notin Withdrawn /\ Withdrawn \subseteq Cash!RequestType
        /\ \A r \in Cash!RequestType : r.key \in WithdrawalKeys
    BY RequestsAssumption DEF Cash!RequestsAssumption, Cash!RequestType
  <1>2. ASSUME NEW r \in Withdrawn, Cash!Request(p, r) PROVE CashInv' /\ Cash!KeepsTerminal
    BY <1>2 DEF Cash!Request, Cash!Exists, Cash!KeepsTerminal
  <1>3. CASE Cash!Abandon(p)
    <2>1. /\ work' = [work EXCEPT ![p] = None] /\ UNCHANGED <<now, withdrawal>>
      BY <1>3 DEF Cash!Abandon, Cash!StopServing
    <2> QED BY <2>1 DEF Cash!Exists, Cash!KeepsTerminal
  <1>4. CASE Cash!Finish(p)
    <2> DEFINE r == work[p]
    <2>1. r # None /\ work' = [work EXCEPT ![p] = None] /\ UNCHANGED now
      BY <1>4 DEF Cash!Finish, Cash!StopServing
    <2>2. r \in Withdrawn /\ r \in Cash!RequestType /\ r.key \in WithdrawalKeys /\ ~Cash!Exists(r.key)
      BY <1>1, <2>1
    <2>3. PICK w \in Cash!Withdrawal : withdrawal' = [withdrawal EXCEPT ![r.key] = w]
      <3>1. Cash!RiskReasons(r) \in SUBSET Cash!Reasons BY DEF Cash!RiskReasons
      <3>2. Cash!AutoApprove(r) \in BOOLEAN BY RequestsAssumption DEF Cash!AutoApprove
      <3> QED BY <1>4, <2>2, <3>1, <3>2, CommittedIsTyped, Zenon DEF Cash!Finish
    <2> HIDE DEF r
    <2>4. /\ withdrawal' \in [WithdrawalKeys -> Cash!Withdrawal \cup {None}]
          /\ \A k \in WithdrawalKeys : k # r.key => withdrawal'[k] = withdrawal[k]
      BY <2>2, <2>3
    <2>5. \A q \in Requests : q # p /\ work[q] # None =>
              work[q].key # r.key /\ work[q].key \in WithdrawalKeys
      BY <1>1, <2>1 DEF r
    <2>6. CashInv' BY <2>1, <2>4, <2>5 DEF Cash!Exists
    <2>7. Cash!KeepsTerminal BY <2>2, <2>4 DEF Cash!Exists, Cash!KeepsTerminal
    <2> QED BY <2>6, <2>7
  <1> QED BY <1>2, <1>3, <1>4

(* The administrators: none of their decisions applies to what is over.    *)
LEMMA DecisionsKeepTerminal ==
    ASSUME CashInv, NEW k \in WithdrawalKeys,
           \/ Cash!ApproveWithdrawal(k) \/ Cash!RejectWithdrawal(k) \/ Cash!MarkProcessing(k)
           \/ Cash!CompleteWithdrawal(k) \/ Cash!FailWithdrawal(k)
    PROVE  CashInv' /\ Cash!KeepsTerminal
  <1> USE DEF CashInv
  <1>1. ASSUME Cash!Exists(k), withdrawal[k].status \in Cash!Active,
               NEW w \in Cash!Withdrawal, w.request = withdrawal[k].request,
               withdrawal' = [withdrawal EXCEPT ![k] = w], UNCHANGED <<now, work>>
        PROVE  CashInv' /\ Cash!KeepsTerminal
    <2>1. /\ withdrawal' \in [WithdrawalKeys -> Cash!Withdrawal \cup {None}]
          /\ withdrawal'[k] = w /\ w # None
          /\ \A j \in WithdrawalKeys : j # k => withdrawal'[j] = withdrawal[j]
      BY <1>1, NoneAssumption
    <2>2. \A q \in Requests : work[q] # None => work[q].key \in WithdrawalKeys
      BY RequestsAssumption DEF Cash!RequestsAssumption, Cash!RequestType
    <2>3. CashInv' BY <1>1, <2>1, <2>2 DEF Cash!Exists
    <2>4. Cash!KeepsTerminal BY <1>1, <2>1 DEF Cash!Exists, Cash!KeepsTerminal
    <2> QED BY <2>3, <2>4
  <1>2. Cash!Exists(k) /\ withdrawal[k] \in Cash!Withdrawal
        /\ withdrawal[k].status \in Cash!Active
    BY DEF Cash!ApproveWithdrawal, Cash!RejectWithdrawal, Cash!MarkProcessing,
           Cash!CompleteWithdrawal, Cash!FailWithdrawal, Cash!HasStatus, Cash!Exists, Cash!Active
  <1>3. UNCHANGED <<now, work>>
    BY DEF Cash!ApproveWithdrawal, Cash!RejectWithdrawal, Cash!MarkProcessing,
           Cash!CompleteWithdrawal, Cash!FailWithdrawal, Cash!serving
  <1>4. \/ \E s \in Cash!Statuses, t \in Cash!TransactionStatuses :
                withdrawal' = [withdrawal EXCEPT ![k] =
                                   [withdrawal[k] EXCEPT !.status = s, !.transaction = t]]
        \/ \E s \in Cash!Statuses :
                withdrawal' = [withdrawal EXCEPT ![k] = [withdrawal[k] EXCEPT !.status = s]]
        \/ \E s \in Cash!Statuses, m \in Cash!Modes :
                withdrawal' = [withdrawal EXCEPT ![k] =
                                   [withdrawal[k] EXCEPT !.status = s, !.mode = m]]
    BY DEF Cash!ApproveWithdrawal, Cash!RejectWithdrawal, Cash!MarkProcessing,
           Cash!CompleteWithdrawal, Cash!FailWithdrawal, Cash!Statuses,
           Cash!TransactionStatuses, Cash!Modes
  <1>5. PICK w \in Cash!Withdrawal :
            w.request = withdrawal[k].request /\ withdrawal' = [withdrawal EXCEPT ![k] = w]
    <2>1. ASSUME NEW s \in Cash!Statuses, NEW t \in Cash!TransactionStatuses,
                 withdrawal' = [withdrawal EXCEPT ![k] =
                                    [withdrawal[k] EXCEPT !.status = s, !.transaction = t]]
          PROVE  \E w \in Cash!Withdrawal : w.request = withdrawal[k].request
                                            /\ withdrawal' = [withdrawal EXCEPT ![k] = w]
      BY <1>2, <2>1, DecidedIsTyped, ZenonT(40)
    <2>2. ASSUME NEW s \in Cash!Statuses,
                 withdrawal' = [withdrawal EXCEPT ![k] = [withdrawal[k] EXCEPT !.status = s]]
          PROVE  \E w \in Cash!Withdrawal : w.request = withdrawal[k].request
                                            /\ withdrawal' = [withdrawal EXCEPT ![k] = w]
      BY <1>2, <2>2, DecidedIsTyped, ZenonT(40)
    <2>3. ASSUME NEW s \in Cash!Statuses, NEW m \in Cash!Modes,
                 withdrawal' = [withdrawal EXCEPT ![k] =
                                    [withdrawal[k] EXCEPT !.status = s, !.mode = m]]
          PROVE  \E w \in Cash!Withdrawal : w.request = withdrawal[k].request
                                            /\ withdrawal' = [withdrawal EXCEPT ![k] = w]
      BY <1>2, <2>3, DecidedIsTyped, ZenonT(40)
    <2> QED BY <1>4, <2>1, <2>2, <2>3, Zenon
  <1> QED BY <1>1, <1>2, <1>3, <1>5

LEMMA CashNext == CashInv /\ Cash!Next => CashInv' /\ Cash!KeepsTerminal
  <1> SUFFICES ASSUME CashInv, Cash!Next PROVE CashInv' /\ Cash!KeepsTerminal OBVIOUS
  <1>1. CASE UNCHANGED <<withdrawal, work>> /\ now' \in Nat
    BY <1>1 DEF CashInv, Cash!Exists, Cash!KeepsTerminal
  <1>2. ASSUME NEW a \in Cash!Accounts,
               \/ Cash!SpendAvailable(a) \/ Cash!OrderReserves(a)
               \/ Cash!OrderReleases(a) \/ Cash!OrderConsumes(a)
        PROVE  UNCHANGED <<withdrawal, work, now>>
    BY <1>2 DEF Cash!SpendAvailable, Cash!OrderReserves, Cash!OrderReleases,
                Cash!OrderConsumes, Cash!serving
  <1>3. ASSUME NEW u \in People, Cash!LoseEligibility(u)
        PROVE  UNCHANGED <<withdrawal, work, now>>
    BY <1>3 DEF Cash!LoseEligibility, Cash!serving
  <1>4. Cash!Tick => UNCHANGED <<withdrawal, work>> /\ now' = now + 1 BY DEF Cash!Tick, Cash!serving
  <1>5. now \in Nat BY DEF CashInv
  <1> QED BY <1>1, <1>2, <1>3, <1>4, <1>5, RequestsKeepKeys, DecisionsKeepTerminal
       DEF Cash!Next, Cash!Step

LEMMA CashStutter == CashInv /\ UNCHANGED cashVars => CashInv' /\ Cash!KeepsTerminal
  BY DEF CashInv, cashVars, Cash!Exists, Cash!KeepsTerminal

-----------------------------------------------------------------------------
(* The money of the withdrawals: what a wallet has reserved for them is    *)
(* the sum of the amounts of those that are not over.                      *)
Bearing(w, a, statuses) ==
    {k \in WithdrawalKeys : w[k] # None /\ w[k].status \in statuses /\ w[k].request.account = a}
Amounts(w) == [k \in WithdrawalKeys |-> w[k].request.amount]
Borne(w, a, statuses) == SumOf(Amounts(w), Bearing(w, a, statuses))

(* What one withdrawal contributes to that sum.                            *)
Share(v, a, statuses) ==
    IF v # None /\ v.status \in statuses /\ v.request.account = a THEN v.request.amount ELSE 0

(* The recursion of Cash!Total is the one of SumOf.                        *)
TotalIn(w, S) ==
    (CHOOSE g : g = [s \in SUBSET S |->
                        IF s = {} THEN 0
                        ELSE w[CHOOSE x \in s : TRUE].request.amount
                             + g[s \ {CHOOSE x \in s : TRUE}]])[S]

LEMMA TotalIsTotalIn ==
    /\ \A S : Cash!Total(S) = TotalIn(withdrawal, S)
    /\ \A S : Cash!Total(S)' = TotalIn(withdrawal', S)
  BY DEF Cash!Total, Cash!MapThenSumSet, Cash!MapThenFoldSet, TotalIn

LEMMA TotalInIsSum ==
    ASSUME NEW S, IsFiniteSet(S), S \subseteq WithdrawalKeys, NEW w,
           \A k \in S : w[k].request.amount \in Int
    PROVE  TotalIn(w, S) = SumOf(Amounts(w), S)
  <1> DEFINE G == CHOOSE g : g = [s \in SUBSET S |->
                        IF s = {} THEN 0
                        ELSE w[CHOOSE x \in s : TRUE].request.amount
                             + g[s \ {CHOOSE x \in s : TRUE}]]
  <1>0. PICK f : f = Amounts(w) OBVIOUS
  <1>1. \A k \in S : f[k] \in Int /\ f[k] = w[k].request.amount BY <1>0 DEF Amounts
  <1>2. PICK g \in [SUBSET S -> Int] :
            (\A s \in SUBSET S : Solves(g, f, s)) /\ SumOf(f, S) = g[S]
    BY <1>1, SumIsSolution
  <1>3. g = [s \in SUBSET S |->
                        IF s = {} THEN 0
                        ELSE w[CHOOSE x \in s : TRUE].request.amount
                             + g[s \ {CHOOSE x \in s : TRUE}]]
    BY <1>1, <1>2, SomeIsMember DEF Solves, Some
  <1>4. PICK h : /\ h = [s \in SUBSET S |->
                        IF s = {} THEN 0
                        ELSE w[CHOOSE x \in s : TRUE].request.amount
                             + h[s \ {CHOOSE x \in s : TRUE}]]
                 /\ TotalIn(w, S) = h[S]
    <2>1. G = [s \in SUBSET S |->
                        IF s = {} THEN 0
                        ELSE w[CHOOSE x \in s : TRUE].request.amount
                             + G[s \ {CHOOSE x \in s : TRUE}]]
      BY <1>3, ZenonT(30)
    <2> QED BY <2>1, Zenon DEF TotalIn
  <1>5. \A s \in SUBSET S : Solves(h, f, s) BY <1>1, <1>4, SomeIsMember DEF Solves, Some
  <1>6. SumOf(f, S) = h[S] BY <1>1, <1>5, SumOfSubset
  <1> QED BY <1>0, <1>4, <1>6

(* A decision about one withdrawal changes the sum by its share.           *)
Withdrawals == [WithdrawalKeys -> Cash!Withdrawal \cup {None}]

LEMMA AmountsArePositive ==
    \A v \in Cash!Withdrawal : v.request.amount \in Nat /\ v.request.account \in Cash!Accounts
  BY DEF Cash!Withdrawal, Cash!RequestType

LEMMA BearingIsFinite ==
    ASSUME NEW w \in Withdrawals, NEW a, NEW statuses
    PROVE  /\ IsFiniteSet(Bearing(w, a, statuses)) /\ Bearing(w, a, statuses) \subseteq WithdrawalKeys
           /\ \A k \in Bearing(w, a, statuses) :
                 Amounts(w)[k] = w[k].request.amount /\ w[k].request.amount \in Nat
  BY BoundsAssumption, FS_Subset, AmountsArePositive DEF Bearing, Withdrawals, Amounts

LEMMA BorneIsNatural ==
    ASSUME NEW w \in Withdrawals, NEW a, NEW statuses
    PROVE  Borne(w, a, statuses) \in Nat
  <1> DEFINE B == Bearing(w, a, statuses)
             f == Amounts(w)
  <1>1. IsFiniteSet(B) /\ \A k \in B : f[k] \in Nat BY BearingIsFinite
  <1> HIDE DEF B, f
  <1>2. SumOf(f, B) \in Nat BY <1>1, SumIsNatural
  <1> QED BY <1>2 DEF Borne, B, f

LEMMA BorneApart ==
    ASSUME NEW w \in Withdrawals, NEW a, NEW statuses, NEW k \in WithdrawalKeys
    PROVE  Borne(w, a, statuses) =
               Share(w[k], a, statuses) + SumOf(Amounts(w), Bearing(w, a, statuses) \ {k})
  <1> DEFINE B == Bearing(w, a, statuses)
             f == Amounts(w)
  <1>1. IsFiniteSet(B) /\ \A j \in B : f[j] \in Nat /\ f[j] = w[j].request.amount BY BearingIsFinite
  <1>2. k \in B <=> w[k] # None /\ w[k].status \in statuses /\ w[k].request.account = a
    BY DEF Bearing
  <1> HIDE DEF B, f
  <1>3. \A j \in B : f[j] \in Int BY <1>1
  <1>4. Borne(w, a, statuses) = SumOf(f, B) BY Zenon DEF Borne, B, f
  <1>5. SumOf(f, B) = Share(w[k], a, statuses) + SumOf(f, B \ {k})
    <2>1. CASE k \in B
      <3>1. SumOf(f, B) = f[k] + SumOf(f, B \ {k}) BY <1>1, <1>3, <2>1, TakeOut
      <3>2. Share(w[k], a, statuses) = f[k] BY <1>1, <1>2, <2>1 DEF Share
      <3> QED BY <3>1, <3>2
    <2>2. CASE k \notin B
      <3>1. B \ {k} = B BY <2>2
      <3>2. Share(w[k], a, statuses) = 0 BY <1>2, <2>2 DEF Share
      <3>3. SumOf(f, B) \in Int BY <1>1, <1>3, SumIsInteger
      <3> QED BY <3>1, <3>2, <3>3
    <2> QED BY <2>1, <2>2
  <1> QED BY <1>4, <1>5 DEF B, f

LEMMA BorneChanges ==
    ASSUME NEW w \in Withdrawals, NEW k \in WithdrawalKeys, NEW v \in Cash!Withdrawal, NEW a, NEW statuses
    PROVE  Borne([w EXCEPT ![k] = v], a, statuses) =
               Borne(w, a, statuses) - Share(w[k], a, statuses) + Share(v, a, statuses)
  <1> DEFINE x == [w EXCEPT ![k] = v]
             B == Bearing(w, a, statuses) \ {k}
  <1>1. x \in Withdrawals /\ x[k] = v /\ \A j \in WithdrawalKeys \ {k} : x[j] = w[j]
    BY DEF Withdrawals
  <1>2. Bearing(x, a, statuses) \ {k} = B BY <1>1 DEF Bearing
  <1>3. SumOf(Amounts(x), B) = SumOf(Amounts(w), B)
    <2> DEFINE f == Amounts(w)
               h == Amounts(x)
    <2>1. IsFiniteSet(B) /\ \A j \in B : f[j] \in Int BY BearingIsFinite, FS_Subset
    <2>2. \A j \in B : h[j] = f[j] BY <1>1 DEF Bearing, Amounts
    <2> HIDE DEF B, f, h
    <2>3. SumOf(h, B) = SumOf(f, B) BY <2>1, <2>2, SumsAgree
    <2> QED BY <2>3 DEF f, h
  <1> HIDE DEF x, B
  <1>4. Borne(w, a, statuses) = Share(w[k], a, statuses) + SumOf(Amounts(w), B) BY BorneApart DEF B
  <1>5. Borne(x, a, statuses) = Share(v, a, statuses) + SumOf(Amounts(x), B)
    BY <1>1, <1>2, BorneApart
  <1>6. Share(v, a, statuses) \in Int /\ Share(w[k], a, statuses) \in Int
    BY AmountsArePositive DEF Share, Withdrawals
  <1>7. SumOf(Amounts(w), B) \in Int
    <2> DEFINE f == Amounts(w)
    <2>1. IsFiniteSet(B) /\ \A j \in B : f[j] \in Int BY BearingIsFinite, FS_Subset DEF B
    <2> HIDE DEF f
    <2>2. SumOf(f, B) \in Int BY <2>1, SumIsInteger
    <2> QED BY <2>2 DEF f
  <1> QED BY <1>3, <1>4, <1>5, <1>6, <1>7 DEF x

(* What a wallet has is where it belongs, and the transaction a user sees  *)
(* ends as the withdrawal does.                                            *)
MoneyInv ==
    /\ CashInv
    /\ available \in [Cash!Accounts -> Nat] /\ reserved \in [Cash!Accounts -> Nat]
    /\ orderHold \in [Cash!Accounts -> Nat] /\ gone \in [Cash!Accounts -> Nat]
    /\ \A a \in Cash!Accounts :
          /\ reserved[a] = orderHold[a] + Borne(withdrawal, a, Cash!Active)
          /\ available[a] + reserved[a] + gone[a] = Funds
          /\ gone[a] >= Borne(withdrawal, a, {"COMPLETED"})
    /\ Cash!TransactionAgrees

LEMMA MoneyInit == Cash!Init => MoneyInv
  <1> SUFFICES ASSUME Cash!Init PROVE MoneyInv OBVIOUS
  <1>1. CashInv BY CashInit
  <1>2. ASSUME NEW a, NEW statuses PROVE Borne(withdrawal, a, statuses) = 0
    BY SumOfNothing DEF Bearing, Cash!Init, Borne
  <1>3. Funds \in Nat BY RequestsAssumption DEF Cash!SettingsAssumption
  <1>4. /\ available = [a \in Cash!Accounts |-> Funds] /\ reserved = [a \in Cash!Accounts |-> 0]
        /\ orderHold = [a \in Cash!Accounts |-> 0] /\ gone = [a \in Cash!Accounts |-> 0]
    BY DEF Cash!Init
  <1>5. Cash!TransactionAgrees BY DEF Cash!Init, Cash!TransactionAgrees, Cash!Exists
  <1> QED BY <1>1, <1>2, <1>3, <1>4, <1>5 DEF MoneyInv

(* The invariant is what the properties say.                               *)
LEMMA MoneyInvSays ==
    MoneyInv => Cash!ReservedBacksWithdrawals /\ Cash!FundsConserved /\ Cash!TransactionAgrees
  <1> SUFFICES ASSUME MoneyInv
               PROVE  Cash!ReservedBacksWithdrawals /\ Cash!FundsConserved
                      /\ Cash!TransactionAgrees
    OBVIOUS
  <1>1. ASSUME NEW a, NEW statuses
        PROVE  Cash!Total(Cash!KeysOf(a, statuses)) = Borne(withdrawal, a, statuses)
    <2>1. Cash!KeysOf(a, statuses) = Bearing(withdrawal, a, statuses)
      BY DEF Cash!KeysOf, Cash!HasStatus, Cash!Exists, Bearing
    <2> DEFINE B == Bearing(withdrawal, a, statuses)
    <2>2. /\ IsFiniteSet(B) /\ B \subseteq WithdrawalKeys
          /\ \A k \in B : withdrawal[k].request.amount \in Int
      BY BearingIsFinite DEF MoneyInv, CashInv, Withdrawals
    <2> HIDE DEF B
    <2>3. TotalIn(withdrawal, B) = SumOf(Amounts(withdrawal), B) BY <2>2, TotalInIsSum
    <2> QED BY <2>1, <2>3, TotalIsTotalIn DEF Borne, B
  <1> QED BY <1>1 DEF MoneyInv, Cash!ReservedBacksWithdrawals, Cash!FundsConserved

(* Amounts that move between the parts of one wallet, and what the sums do *)
(* that go with them.                                                      *)
Moved(before, after, a, d) ==
    \A b \in Cash!Accounts : after[b] = before[b] + (IF b = a THEN d ELSE 0)

Grows(a, statuses, d) ==
    \A b : /\ Borne(withdrawal, b, statuses) \in Int
           /\ Borne(withdrawal', b, statuses) =
                  Borne(withdrawal, b, statuses) + (IF b = a THEN d ELSE 0)

LEMMA BooksBalance ==
    ASSUME MoneyInv, CashInv', Cash!TransactionAgrees',
           NEW a \in Cash!Accounts, NEW g \in Int, NEW d \in Int, NEW e \in Nat, NEW h \in Int,
           NEW i \in Int, NEW c \in Int, g + d + e = 0, d = h + i, c <= e,
           available' \in [Cash!Accounts -> Nat], reserved' \in [Cash!Accounts -> Nat],
           orderHold' \in [Cash!Accounts -> Nat], gone' \in [Cash!Accounts -> Nat],
           Moved(available, available', a, g), Moved(reserved, reserved', a, d),
           Moved(gone, gone', a, e), Moved(orderHold, orderHold', a, h),
           Grows(a, Cash!Active, i), Grows(a, {"COMPLETED"}, c)
    PROVE  MoneyInv'
  <1>1. withdrawal \in Withdrawals /\ withdrawal' \in Withdrawals
    BY DEF MoneyInv, CashInv, Withdrawals
  <1>2. ASSUME NEW b \in Cash!Accounts
        PROVE  /\ reserved'[b] = orderHold'[b] + Borne(withdrawal', b, Cash!Active)
               /\ available'[b] + reserved'[b] + gone'[b] = Funds
               /\ gone'[b] >= Borne(withdrawal', b, {"COMPLETED"})
    <2>1. /\ Borne(withdrawal, b, Cash!Active) \in Nat
          /\ Borne(withdrawal, b, {"COMPLETED"}) \in Nat
          /\ Borne(withdrawal', b, Cash!Active) \in Nat
          /\ Borne(withdrawal', b, {"COMPLETED"}) \in Nat
      BY <1>1, BorneIsNatural
    <2>2. /\ available[b] \in Nat /\ reserved[b] \in Nat
          /\ orderHold[b] \in Nat /\ gone[b] \in Nat
          /\ reserved[b] = orderHold[b] + Borne(withdrawal, b, Cash!Active)
          /\ available[b] + reserved[b] + gone[b] = Funds
          /\ gone[b] >= Borne(withdrawal, b, {"COMPLETED"})
      BY DEF MoneyInv
    <2>3. CASE b = a
      <3>1. /\ available'[b] = available[b] + g /\ reserved'[b] = reserved[b] + d
            /\ gone'[b] = gone[b] + e /\ orderHold'[b] = orderHold[b] + h
        BY <2>3 DEF Moved
      <3>2. /\ Borne(withdrawal', b, Cash!Active) = Borne(withdrawal, b, Cash!Active) + i
            /\ Borne(withdrawal', b, {"COMPLETED"}) = Borne(withdrawal, b, {"COMPLETED"}) + c
        BY <2>3 DEF Grows
      <3> QED BY <2>1, <2>2, <3>1, <3>2
    <2>4. CASE b # a BY <2>1, <2>2, <2>4 DEF Moved, Grows
    <2> QED BY <2>3, <2>4
  <1> QED BY <1>2 DEF MoneyInv

(* A withdrawal that is written for the first time, or changes its status. *)
Effect(old, v, statuses) ==
    (IF v.status \in statuses THEN v.request.amount ELSE 0)
      - (IF old # None /\ old.status \in statuses THEN v.request.amount ELSE 0)

LEMMA WritingMoves ==
    ASSUME MoneyInv, CashInv', NEW k \in WithdrawalKeys, NEW v \in Cash!Withdrawal,
           withdrawal' = [withdrawal EXCEPT ![k] = v],
           withdrawal[k] # None => withdrawal[k].request = v.request
    PROVE  /\ v.request.account \in Cash!Accounts /\ v.request.amount \in Nat
           /\ \A statuses :
                 Grows(v.request.account, statuses, Effect(withdrawal[k], v, statuses))
  <1>1. withdrawal \in Withdrawals BY DEF MoneyInv, CashInv, Withdrawals
  <1>2. v.request.account \in Cash!Accounts /\ v.request.amount \in Nat BY AmountsArePositive
  <1>3. ASSUME NEW b, NEW statuses
        PROVE  /\ Borne(withdrawal, b, statuses) \in Int
               /\ Borne(withdrawal', b, statuses) =
                     Borne(withdrawal, b, statuses)
                         + (IF b = v.request.account
                            THEN Effect(withdrawal[k], v, statuses) ELSE 0)
    <2>1. Borne(withdrawal, b, statuses) \in Int BY <1>1, BorneIsNatural
    <2>2. Borne(withdrawal', b, statuses) = Borne(withdrawal, b, statuses)
                - Share(withdrawal[k], b, statuses) + Share(v, b, statuses)
      <3>1. Borne([withdrawal EXCEPT ![k] = v], b, statuses) = Borne(withdrawal, b, statuses)
                - Share(withdrawal[k], b, statuses) + Share(v, b, statuses)
        <4>1. PICK w \in Withdrawals : w = withdrawal BY <1>1
        <4>2. Borne([w EXCEPT ![k] = v], b, statuses) =
                  Borne(w, b, statuses) - Share(w[k], b, statuses) + Share(v, b, statuses)
          BY BorneChanges
        <4> QED BY <4>1, <4>2
      <3> QED BY <3>1, Zenon
    <2>3. v # None BY NoneAssumption
    <2>4. Share(v, b, statuses) =
             IF b = v.request.account /\ v.status \in statuses THEN v.request.amount ELSE 0
      BY <2>3 DEF Share
    <2>5. Share(withdrawal[k], b, statuses) =
             IF b = v.request.account /\ withdrawal[k] # None /\ withdrawal[k].status \in statuses
             THEN v.request.amount ELSE 0
      BY DEF Share
    <2> HIDE DEF Share
    <2> QED BY <1>2, <2>1, <2>2, <2>4, <2>5 DEF Effect
  <1> QED BY <1>2, <1>3 DEF Grows

(* The transaction of a withdrawal that is written agrees with its status. *)
Ending(s) ==
    CASE s \in Cash!Active -> "PENDING"
      [] s = "COMPLETED"   -> "COMPLETED"
      [] s = "FAILED"      -> "FAILED"
      [] s = "REJECTED"    -> "CANCELLED"

LEMMA WritingAgrees ==
    ASSUME Cash!TransactionAgrees, NEW k \in WithdrawalKeys, NEW v \in Cash!Withdrawal,
           withdrawal \in Withdrawals, withdrawal' = [withdrawal EXCEPT ![k] = v],
           v.transaction = Ending(v.status)
    PROVE  Cash!TransactionAgrees'
  <1>1. \A j \in WithdrawalKeys : withdrawal[j] # None => withdrawal[j].transaction = Ending(withdrawal[j].status)
    BY DEF Cash!TransactionAgrees, Cash!Exists, Ending
  <1>2. withdrawal'[k] = v /\ \A j \in WithdrawalKeys \ {k} : withdrawal'[j] = withdrawal[j]
    BY DEF Withdrawals
  <1>3. \A j \in WithdrawalKeys : withdrawal'[j] # None
                            => withdrawal'[j].transaction = Ending(withdrawal'[j].status)
    BY <1>1, <1>2
  <1> QED BY <1>3 DEF Cash!TransactionAgrees, Cash!Exists, Ending

(* The fields that a decision sets.                                        *)
LEMMA DecidedFields ==
    \A s, t, m : \A w \in Cash!Withdrawal :
        /\ [w EXCEPT !.status = s].status = s
        /\ [w EXCEPT !.status = s].transaction = w.transaction
        /\ [w EXCEPT !.status = s, !.transaction = t].status = s
        /\ [w EXCEPT !.status = s, !.transaction = t].transaction = t
        /\ [w EXCEPT !.status = s, !.mode = m].status = s
        /\ [w EXCEPT !.status = s, !.mode = m].transaction = w.transaction
  BY DEF Cash!Withdrawal

(* What is written moves the amount that its statuses call for.            *)
LEMMA WritingBalances ==
    ASSUME MoneyInv, CashInv', NEW k \in WithdrawalKeys, NEW v \in Cash!Withdrawal,
           withdrawal' = [withdrawal EXCEPT ![k] = v],
           withdrawal[k] # None => withdrawal[k].request = v.request,
           v.transaction = Ending(v.status), NEW g \in Int, NEW d \in Int, NEW e \in Nat,
           g + d + e = 0,
           d = Effect(withdrawal[k], v, Cash!Active),
           e = Effect(withdrawal[k], v, {"COMPLETED"}),
           available' \in [Cash!Accounts -> Nat], reserved' \in [Cash!Accounts -> Nat],
           gone' \in [Cash!Accounts -> Nat], UNCHANGED orderHold,
           Moved(available, available', v.request.account, g),
           Moved(reserved, reserved', v.request.account, d),
           Moved(gone, gone', v.request.account, e)
    PROVE  MoneyInv'
  <1>0. withdrawal \in Withdrawals /\ Cash!TransactionAgrees
        /\ orderHold \in [Cash!Accounts -> Nat]
    BY DEF MoneyInv, CashInv, Withdrawals
  <1>1. Cash!TransactionAgrees' BY <1>0, WritingAgrees
  <1>2. PICK a \in Cash!Accounts : a = v.request.account BY WritingMoves
  <1>3. Grows(a, Cash!Active, d) /\ Grows(a, {"COMPLETED"}, e) BY <1>2, WritingMoves
  <1>4. Moved(orderHold, orderHold', a, 0) /\ orderHold' \in [Cash!Accounts -> Nat]
    BY <1>0 DEF Moved
  <1>5. /\ Moved(available, available', a, g) /\ Moved(reserved, reserved', a, d)
        /\ Moved(gone, gone', a, e)
    BY <1>2
  <1>6. 0 \in Int /\ e \in Int /\ e <= e /\ d = 0 + d OBVIOUS
  <1> QED BY <1>1, <1>3, <1>4, <1>5, <1>6, BooksBalance

(* The operations of the wallet, on balances that are naturals.            *)
LEMMA WalletMoves ==
    ASSUME MoneyInv, NEW a \in Cash!Accounts, NEW n \in Nat
    PROVE  /\ Cash!Reserve(a, n) =>
                 /\ available' \in [Cash!Accounts -> Nat] /\ Moved(available, available', a, -n)
                 /\ reserved' \in [Cash!Accounts -> Nat] /\ Moved(reserved, reserved', a, n)
           /\ Cash!Release(a, n) =>
                 /\ available' \in [Cash!Accounts -> Nat] /\ Moved(available, available', a, n)
                 /\ reserved' \in [Cash!Accounts -> Nat] /\ Moved(reserved, reserved', a, -n)
           /\ Cash!ConsumeReserved(a, n) =>
                 /\ reserved' \in [Cash!Accounts -> Nat] /\ Moved(reserved, reserved', a, -n)
                 /\ gone' \in [Cash!Accounts -> Nat] /\ Moved(gone, gone', a, n)
           /\ UNCHANGED available =>
                 available' \in [Cash!Accounts -> Nat] /\ Moved(available, available', a, 0)
           /\ UNCHANGED reserved =>
                 reserved' \in [Cash!Accounts -> Nat] /\ Moved(reserved, reserved', a, 0)
           /\ UNCHANGED gone => gone' \in [Cash!Accounts -> Nat] /\ Moved(gone, gone', a, 0)
           /\ UNCHANGED orderHold =>
                 orderHold' \in [Cash!Accounts -> Nat] /\ Moved(orderHold, orderHold', a, 0)
  <1>0. /\ available \in [Cash!Accounts -> Nat] /\ reserved \in [Cash!Accounts -> Nat]
        /\ orderHold \in [Cash!Accounts -> Nat] /\ gone \in [Cash!Accounts -> Nat]
    BY DEF MoneyInv
  <1>1. ASSUME NEW f \in [Cash!Accounts -> Nat], f[a] >= n
        PROVE  /\ [f EXCEPT ![a] = @ - n] \in [Cash!Accounts -> Nat]
               /\ Moved(f, [f EXCEPT ![a] = @ - n], a, -n)
    BY <1>1 DEF Moved
  <1>2. ASSUME NEW f \in [Cash!Accounts -> Nat]
        PROVE  /\ [f EXCEPT ![a] = @ + n] \in [Cash!Accounts -> Nat]
               /\ Moved(f, [f EXCEPT ![a] = @ + n], a, n)
               /\ Moved(f, f, a, 0)
    BY <1>2 DEF Moved
  <1>3. ASSUME Cash!Reserve(a, n)
        PROVE  /\ available' \in [Cash!Accounts -> Nat] /\ Moved(available, available', a, -n)
               /\ reserved' \in [Cash!Accounts -> Nat] /\ Moved(reserved, reserved', a, n)
    BY <1>0, <1>1, <1>2, <1>3, Zenon DEF Cash!Reserve
  <1>4. ASSUME Cash!Release(a, n)
        PROVE  /\ available' \in [Cash!Accounts -> Nat] /\ Moved(available, available', a, n)
               /\ reserved' \in [Cash!Accounts -> Nat] /\ Moved(reserved, reserved', a, -n)
    BY <1>0, <1>1, <1>2, <1>4, Zenon DEF Cash!Release
  <1>5. ASSUME Cash!ConsumeReserved(a, n)
        PROVE  /\ reserved' \in [Cash!Accounts -> Nat] /\ Moved(reserved, reserved', a, -n)
               /\ gone' \in [Cash!Accounts -> Nat] /\ Moved(gone, gone', a, n)
    BY <1>0, <1>1, <1>2, <1>5, Zenon DEF Cash!ConsumeReserved
  <1> QED BY <1>0, <1>2, <1>3, <1>4, <1>5

(* The rest of create_withdrawal_request: its funds are reserved as its    *)
(* withdrawal is written.                                                  *)
LEMMA FinishBalances ==
    ASSUME MoneyInv, CashInv', NEW p \in Requests, Cash!Finish(p)
    PROVE  MoneyInv'
  <1> DEFINE r == work[p]
  <1>1. r # None /\ r \in Withdrawn /\ r \in Cash!RequestType /\ r.key \in WithdrawalKeys
        /\ withdrawal[r.key] = None
    BY RequestsAssumption DEF MoneyInv, CashInv, Cash!Finish, Cash!Exists,
                              Cash!RequestsAssumption, Cash!RequestType
  <1>2. Cash!Reserve(r.account, r.amount) /\ UNCHANGED <<orderHold, gone>> BY DEF Cash!Finish
  <1>3. PICK v \in Cash!Withdrawal :
            /\ withdrawal' = [withdrawal EXCEPT ![r.key] = v]
            /\ v.request = r /\ v.transaction = "PENDING"
            /\ v.status \in {"APPROVED", "PENDING_APPROVAL"}
    <2>1. Cash!RiskReasons(r) \in SUBSET Cash!Reasons BY DEF Cash!RiskReasons
    <2>2. Cash!AutoApprove(r) \in BOOLEAN /\ now \in Nat
      BY RequestsAssumption DEF Cash!AutoApprove, MoneyInv, CashInv
    <2> DEFINE v == [request |-> r, created |-> now,
                     status |-> IF Cash!AutoApprove(r) THEN "APPROVED" ELSE "PENDING_APPROVAL",
                     transaction |-> "PENDING",
                     mode |-> IF Cash!AutoApprove(r) THEN "AUTOMATIC" ELSE "PENDING",
                     reasons |-> Cash!RiskReasons(r)]
    <2>3. v \in Cash!Withdrawal BY <1>1, <2>1, <2>2, CommittedIsTyped, Zenon
    <2>4. withdrawal' = [withdrawal EXCEPT ![r.key] = v] BY Zenon DEF Cash!Finish
    <2>5. v.request = r /\ v.transaction = "PENDING"
          /\ v.status \in {"APPROVED", "PENDING_APPROVAL"}
      OBVIOUS
    <2> HIDE DEF v
    <2> QED BY <2>3, <2>4, <2>5
  <1>4. PICK k \in WithdrawalKeys, a \in Cash!Accounts, n \in Nat :
            k = r.key /\ a = v.request.account /\ n = v.request.amount
    BY <1>1, AmountsArePositive
  <1> HIDE DEF r
  <1>5. /\ available' \in [Cash!Accounts -> Nat] /\ Moved(available, available', a, -n)
        /\ reserved' \in [Cash!Accounts -> Nat] /\ Moved(reserved, reserved', a, n)
        /\ gone' \in [Cash!Accounts -> Nat] /\ Moved(gone, gone', a, 0)
    BY <1>2, <1>3, <1>4, WalletMoves
  <1>6. /\ n = Effect(withdrawal[k], v, Cash!Active) /\ 0 = Effect(withdrawal[k], v, {"COMPLETED"})
        /\ v.transaction = Ending(v.status)
    BY <1>1, <1>3, <1>4 DEF Effect, Ending, Cash!Active
  <1>7. -n + n + 0 = 0 /\ n \in Int /\ -n \in Int /\ 0 \in Nat OBVIOUS
  <1> QED BY <1>1, <1>2, <1>3, <1>4, <1>5, <1>6, <1>7, WritingBalances

(* The decisions of the administrators.                                    *)
LEMMA DecisionsBalance ==
    ASSUME MoneyInv, CashInv', NEW k \in WithdrawalKeys,
           \/ Cash!ApproveWithdrawal(k) \/ Cash!RejectWithdrawal(k) \/ Cash!MarkProcessing(k)
           \/ Cash!CompleteWithdrawal(k) \/ Cash!FailWithdrawal(k)
    PROVE  MoneyInv'
  <1>1. withdrawal[k] # None /\ withdrawal[k] \in Cash!Withdrawal
        /\ withdrawal[k].status \in Cash!Active /\ withdrawal[k].transaction = "PENDING"
    <2>1. withdrawal[k] # None /\ withdrawal[k].status \in Cash!Active
      BY DEF Cash!ApproveWithdrawal, Cash!RejectWithdrawal, Cash!MarkProcessing,
             Cash!CompleteWithdrawal, Cash!FailWithdrawal, Cash!HasStatus, Cash!Exists, Cash!Active
    <2>2. withdrawal[k] \in Cash!Withdrawal BY <2>1 DEF MoneyInv, CashInv
    <2>3. withdrawal[k].transaction = "PENDING"
      <3>1. withdrawal[k].transaction = Ending(withdrawal[k].status)
        BY <2>1 DEF MoneyInv, Cash!TransactionAgrees, Cash!Exists, Ending
      <3> QED BY <2>1, <3>1 DEF Ending, Cash!Active
    <2> QED BY <2>1, <2>2, <2>3
  <1>2. PICK a \in Cash!Accounts, n \in Nat :
            a = withdrawal[k].request.account /\ n = withdrawal[k].request.amount
    BY <1>1, AmountsArePositive
  <1>3. UNCHANGED orderHold
    BY DEF Cash!ApproveWithdrawal, Cash!RejectWithdrawal, Cash!MarkProcessing,
           Cash!CompleteWithdrawal, Cash!FailWithdrawal, Cash!money
  <1>4. ASSUME NEW s \in Cash!Statuses, NEW v \in Cash!Withdrawal, v.status = s,
               v.request = withdrawal[k].request, v.transaction = Ending(s),
               withdrawal' = [withdrawal EXCEPT ![k] = v],
               \/ s \in Cash!Active /\ UNCHANGED <<available, reserved, gone>>
               \/ s \in {"REJECTED", "FAILED"} /\ Cash!Release(a, n) /\ UNCHANGED gone
               \/ s = "COMPLETED" /\ Cash!ConsumeReserved(a, n) /\ UNCHANGED available
        PROVE  MoneyInv'
    <2>1. a = v.request.account /\ n = v.request.amount BY <1>2, <1>4
    <2>2. CASE s \in Cash!Active /\ UNCHANGED <<available, reserved, gone>>
      <3>1. /\ available' \in [Cash!Accounts -> Nat] /\ Moved(available, available', a, 0)
            /\ reserved' \in [Cash!Accounts -> Nat] /\ Moved(reserved, reserved', a, 0)
            /\ gone' \in [Cash!Accounts -> Nat] /\ Moved(gone, gone', a, 0)
        BY <2>2, WalletMoves
      <3>2. 0 = Effect(withdrawal[k], v, Cash!Active)
            /\ 0 = Effect(withdrawal[k], v, {"COMPLETED"})
        BY <1>1, <1>2, <1>4, <2>2 DEF Effect, Cash!Active
      <3>3. 0 \in Int /\ 0 \in Nat /\ 0 + 0 + 0 = 0 OBVIOUS
      <3> QED BY <1>3, <1>4, <2>1, <3>1, <3>2, <3>3, WritingBalances
    <2>3. CASE s \in {"REJECTED", "FAILED"} /\ Cash!Release(a, n) /\ UNCHANGED gone
      <3>1. /\ available' \in [Cash!Accounts -> Nat] /\ Moved(available, available', a, n)
            /\ reserved' \in [Cash!Accounts -> Nat] /\ Moved(reserved, reserved', a, -n)
            /\ gone' \in [Cash!Accounts -> Nat] /\ Moved(gone, gone', a, 0)
        BY <2>3, WalletMoves
      <3>2. -n = Effect(withdrawal[k], v, Cash!Active)
            /\ 0 = Effect(withdrawal[k], v, {"COMPLETED"})
        BY <1>1, <1>2, <1>4, <2>3 DEF Effect, Cash!Active
      <3>3. -n \in Int /\ n \in Int /\ 0 \in Nat /\ n + -n + 0 = 0 OBVIOUS
      <3> QED BY <1>3, <1>4, <2>1, <3>1, <3>2, <3>3, WritingBalances
    <2>4. CASE s = "COMPLETED" /\ Cash!ConsumeReserved(a, n) /\ UNCHANGED available
      <3>1. /\ available' \in [Cash!Accounts -> Nat] /\ Moved(available, available', a, 0)
            /\ reserved' \in [Cash!Accounts -> Nat] /\ Moved(reserved, reserved', a, -n)
            /\ gone' \in [Cash!Accounts -> Nat] /\ Moved(gone, gone', a, n)
        BY <2>4, WalletMoves
      <3>2. -n = Effect(withdrawal[k], v, Cash!Active)
            /\ n = Effect(withdrawal[k], v, {"COMPLETED"})
        BY <1>1, <1>2, <1>4, <2>4 DEF Effect, Cash!Active
      <3>3. -n \in Int /\ 0 \in Int /\ 0 + -n + n = 0 OBVIOUS
      <3> QED BY <1>3, <1>4, <2>1, <3>1, <3>2, <3>3, WritingBalances
    <2> QED BY <1>4, <2>2, <2>3, <2>4
  <1> DEFINE W == withdrawal[k]
  <1>5. CASE Cash!ApproveWithdrawal(k)
    <2> DEFINE v == [W EXCEPT !.status = "APPROVED", !.mode = "MANUAL"]
    <2>1. withdrawal' = [withdrawal EXCEPT ![k] = v] /\ UNCHANGED <<available, reserved, gone>>
      BY <1>5 DEF Cash!ApproveWithdrawal, Cash!money
    <2>2. v \in Cash!Withdrawal /\ v.request = W.request /\ v.status = "APPROVED"
          /\ v.transaction = W.transaction
      <3>1. "APPROVED" \in Cash!Statuses /\ "MANUAL" \in Cash!Modes BY DEF Cash!Statuses, Cash!Modes
      <3>2. v \in Cash!Withdrawal /\ v.request = W.request BY <1>1, <3>1, DecidedIsTyped, ZenonT(40)
      <3>3. v.status = "APPROVED" /\ v.transaction = W.transaction BY <1>1, DecidedFields
      <3> QED BY <3>2, <3>3
    <2>3. Ending("APPROVED") = "PENDING" /\ "APPROVED" \in Cash!Active
          /\ "APPROVED" \in Cash!Statuses
      BY DEF Ending, Cash!Active, Cash!Statuses
    <2> HIDE DEF v
    <2> QED BY <1>1, <1>4, <2>1, <2>2, <2>3
  <1>6. CASE Cash!MarkProcessing(k)
    <2> DEFINE v == [W EXCEPT !.status = "PROCESSING"]
    <2>1. withdrawal' = [withdrawal EXCEPT ![k] = v] /\ UNCHANGED <<available, reserved, gone>>
      BY <1>6 DEF Cash!MarkProcessing, Cash!money
    <2>2. v \in Cash!Withdrawal /\ v.request = W.request /\ v.status = "PROCESSING"
          /\ v.transaction = W.transaction
      <3>1. "PROCESSING" \in Cash!Statuses BY DEF Cash!Statuses
      <3>2. v \in Cash!Withdrawal /\ v.request = W.request BY <1>1, <3>1, DecidedIsTyped, ZenonT(40)
      <3>3. v.status = "PROCESSING" /\ v.transaction = W.transaction BY <1>1, DecidedFields
      <3> QED BY <3>2, <3>3
    <2>3. Ending("PROCESSING") = "PENDING" /\ "PROCESSING" \in Cash!Active
          /\ "PROCESSING" \in Cash!Statuses
      BY DEF Ending, Cash!Active, Cash!Statuses
    <2> HIDE DEF v
    <2> QED BY <1>1, <1>4, <2>1, <2>2, <2>3
  <1>7. ASSUME NEW s \in {"REJECTED", "FAILED", "COMPLETED"}, NEW t,
               t = IF s = "REJECTED" THEN "CANCELLED" ELSE s,
               withdrawal' = [withdrawal EXCEPT ![k] = [W EXCEPT !.status = s, !.transaction = t]],
               IF s = "COMPLETED" THEN Cash!ConsumeReserved(a, n) /\ UNCHANGED available
               ELSE Cash!Release(a, n) /\ UNCHANGED gone
        PROVE  MoneyInv'
    <2> DEFINE v == [W EXCEPT !.status = s, !.transaction = t]
    <2>1. s \in Cash!Statuses /\ t \in Cash!TransactionStatuses /\ t = Ending(s)
      BY <1>7 DEF Cash!Statuses, Cash!TransactionStatuses, Ending, Cash!Active
    <2>2. v \in Cash!Withdrawal /\ v.request = W.request /\ v.status = s /\ v.transaction = t
      <3>2. v \in Cash!Withdrawal /\ v.request = W.request BY <1>1, <2>1, DecidedIsTyped, ZenonT(40)
      <3>3. v.status = s /\ v.transaction = t BY <1>1, DecidedFields
      <3> QED BY <3>2, <3>3
    <2>3. withdrawal' = [withdrawal EXCEPT ![k] = v] BY <1>7
    <2> HIDE DEF v
    <2> QED BY <1>4, <1>7, <2>1, <2>2, <2>3
  <1>8. CASE Cash!RejectWithdrawal(k) BY <1>2, <1>7, <1>8 DEF Cash!RejectWithdrawal
  <1>9. CASE Cash!FailWithdrawal(k) BY <1>2, <1>7, <1>9 DEF Cash!FailWithdrawal
  <1>10. CASE Cash!CompleteWithdrawal(k) BY <1>2, <1>7, <1>10 DEF Cash!CompleteWithdrawal
  <1> QED BY <1>5, <1>6, <1>8, <1>9, <1>10

(* Purchases and market orders on the same wallets.                        *)
LEMMA OthersBalance ==
    ASSUME MoneyInv, CashInv', NEW a \in Cash!Accounts,
           \/ Cash!SpendAvailable(a) \/ Cash!OrderReserves(a)
           \/ Cash!OrderReleases(a) \/ Cash!OrderConsumes(a)
    PROVE  MoneyInv'
  <1>1. UNCHANGED withdrawal
    BY DEF Cash!SpendAvailable, Cash!OrderReserves, Cash!OrderReleases, Cash!OrderConsumes
  <1>2. Cash!TransactionAgrees' BY <1>1 DEF MoneyInv, Cash!TransactionAgrees, Cash!Exists
  <1>3. \A statuses : Grows(a, statuses, 0)
    <2>1. withdrawal \in Withdrawals BY DEF MoneyInv, CashInv, Withdrawals
    <2>2. \A b, statuses : Borne(withdrawal, b, statuses) \in Int BY <2>1, BorneIsNatural
    <2> QED BY <1>1, <2>2 DEF Grows
  <1>4. 0 \in Int /\ 1 \in Int /\ -1 \in Int /\ 0 \in Nat /\ 1 \in Nat /\ 0 <= 0 /\ 0 <= 1
        /\ 0 = 0 + 0 /\ 1 = 1 + 0 /\ -1 = -1 + 0
        /\ -1 + 0 + 1 = 0 /\ -1 + 1 + 0 = 0 /\ 1 + -1 + 0 = 0 /\ 0 + -1 + 1 = 0
    OBVIOUS
  <1>5. /\ available \in [Cash!Accounts -> Nat] /\ reserved \in [Cash!Accounts -> Nat]
        /\ orderHold \in [Cash!Accounts -> Nat] /\ gone \in [Cash!Accounts -> Nat]
    BY DEF MoneyInv
  <1>6. CASE Cash!SpendAvailable(a)
    <2>1. /\ available' \in [Cash!Accounts -> Nat] /\ Moved(available, available', a, -1)
          /\ gone' \in [Cash!Accounts -> Nat] /\ Moved(gone, gone', a, 1)
      BY <1>5, <1>6 DEF Cash!SpendAvailable, Moved
    <2>2. UNCHANGED <<reserved, orderHold>> BY <1>6 DEF Cash!SpendAvailable
    <2>3. /\ reserved' \in [Cash!Accounts -> Nat] /\ Moved(reserved, reserved', a, 0)
          /\ orderHold' \in [Cash!Accounts -> Nat] /\ Moved(orderHold, orderHold', a, 0)
      BY <2>2, WalletMoves, <1>4
    <2>4. Grows(a, Cash!Active, 0) /\ Grows(a, {"COMPLETED"}, 0) BY <1>3, <1>4
    <2> QED BY <1>2, <1>4, <2>1, <2>3, <2>4, BooksBalance
  <1>7. CASE Cash!OrderReserves(a)
    <2>1. /\ available' \in [Cash!Accounts -> Nat] /\ Moved(available, available', a, -1)
          /\ reserved' \in [Cash!Accounts -> Nat] /\ Moved(reserved, reserved', a, 1)
          /\ gone' \in [Cash!Accounts -> Nat] /\ Moved(gone, gone', a, 0)
      BY <1>4, <1>7, WalletMoves DEF Cash!OrderReserves
    <2>2. orderHold' \in [Cash!Accounts -> Nat] /\ Moved(orderHold, orderHold', a, 1)
      BY <1>5, <1>7 DEF Cash!OrderReserves, Moved
    <2>3. Grows(a, Cash!Active, 0) /\ Grows(a, {"COMPLETED"}, 0) BY <1>3, <1>4
    <2> QED BY <1>2, <1>4, <2>1, <2>2, <2>3, BooksBalance
  <1>8. CASE Cash!OrderReleases(a)
    <2>1. /\ available' \in [Cash!Accounts -> Nat] /\ Moved(available, available', a, 1)
          /\ reserved' \in [Cash!Accounts -> Nat] /\ Moved(reserved, reserved', a, -1)
          /\ gone' \in [Cash!Accounts -> Nat] /\ Moved(gone, gone', a, 0)
      BY <1>4, <1>8, WalletMoves DEF Cash!OrderReleases
    <2>2. orderHold' \in [Cash!Accounts -> Nat] /\ Moved(orderHold, orderHold', a, -1)
      BY <1>5, <1>8 DEF Cash!OrderReleases, Moved
    <2>3. Grows(a, Cash!Active, 0) /\ Grows(a, {"COMPLETED"}, 0) BY <1>3, <1>4
    <2> QED BY <1>2, <1>4, <2>1, <2>2, <2>3, BooksBalance
  <1>9. CASE Cash!OrderConsumes(a)
    <2>1. /\ available' \in [Cash!Accounts -> Nat] /\ Moved(available, available', a, 0)
          /\ reserved' \in [Cash!Accounts -> Nat] /\ Moved(reserved, reserved', a, -1)
          /\ gone' \in [Cash!Accounts -> Nat] /\ Moved(gone, gone', a, 1)
      BY <1>4, <1>9, WalletMoves DEF Cash!OrderConsumes
    <2>2. orderHold' \in [Cash!Accounts -> Nat] /\ Moved(orderHold, orderHold', a, -1)
      BY <1>5, <1>9 DEF Cash!OrderConsumes, Moved
    <2>3. Grows(a, Cash!Active, 0) /\ Grows(a, {"COMPLETED"}, 0) BY <1>3, <1>4
    <2> QED BY <1>2, <1>4, <2>1, <2>2, <2>3, BooksBalance
  <1> QED BY <1>6, <1>7, <1>8, <1>9

(* The steps that leave the money and the withdrawals as they are.         *)
LEMMA RestingBalances ==
    ASSUME MoneyInv, CashInv', UNCHANGED <<available, reserved, orderHold, gone, withdrawal>>
    PROVE  MoneyInv'
  BY DEF MoneyInv, Cash!TransactionAgrees, Cash!Exists

LEMMA MoneyNext == MoneyInv /\ Cash!Next => MoneyInv'
  <1> SUFFICES ASSUME MoneyInv, Cash!Next PROVE MoneyInv' OBVIOUS
  <1>1. CashInv' BY CashNext DEF MoneyInv
  <1>2. UNCHANGED <<available, reserved, orderHold, gone, withdrawal>> => MoneyInv'
    BY <1>1, RestingBalances
  <1>3. ASSUME NEW p \in Requests, \/ \E r \in Withdrawn : Cash!Request(p, r)
                                   \/ Cash!Abandon(p)
        PROVE  UNCHANGED <<available, reserved, orderHold, gone, withdrawal>>
    BY <1>3 DEF Cash!Request, Cash!Abandon, Cash!money
  <1>4. ASSUME NEW u \in People, Cash!LoseEligibility(u)
        PROVE  UNCHANGED <<available, reserved, orderHold, gone, withdrawal>>
    BY <1>4 DEF Cash!LoseEligibility, Cash!money
  <1>5. Cash!Tick => UNCHANGED <<available, reserved, orderHold, gone, withdrawal>>
    BY DEF Cash!Tick, Cash!money
  <1> QED BY <1>1, <1>2, <1>3, <1>4, <1>5, FinishBalances, DecisionsBalance, OthersBalance
       DEF Cash!Next, Cash!Step

LEMMA MoneyStutter == MoneyInv /\ UNCHANGED cashVars => MoneyInv'
  BY CashStutter, RestingBalances DEF MoneyInv, cashVars

-----------------------------------------------------------------------------
(* The automatic approvals of a user within a day, and what they may be.   *)
Automatic(w, u, from) ==
    {k \in WithdrawalKeys : /\ w[k] # None /\ w[k].mode = "AUTOMATIC"
                  /\ Cash!OwnerOf(w[k].request.account) = u
                  /\ w[k].created \in from .. (from + Policy.dayWindow)}
Bounded(w, u, from) ==
    /\ Cardinality(Automatic(w, u, from)) <= Policy.dayCount
    /\ SumOf(Amounts(w), Automatic(w, u, from)) <= Policy.dayValue
Known(w, k, j) ==
    /\ w[j] # None /\ w[j].status = "COMPLETED"
    /\ Cash!OwnerOf(w[j].request.account) = Cash!OwnerOf(w[k].request.account)
    /\ w[j].request.destination = w[k].request.destination
    /\ w[j].created <= w[k].created
Trusted(w, k) ==
    w[k] # None /\ w[k].mode = "AUTOMATIC" =>
        /\ w[k].reasons = {} /\ w[k].request.amount <= Policy.single
        /\ RequireKnownDestination => \E j \in WithdrawalKeys \ {k} : Known(w, k, j)

AutoInv ==
    /\ CashInv
    /\ \A k \in WithdrawalKeys : withdrawal[k] # None => withdrawal[k].created <= now
    /\ \A u \in People, from \in 0..LastMoment : Bounded(withdrawal, u, from)
    /\ \A k \in WithdrawalKeys : Trusted(withdrawal, k)

LEMMA PolicyIsNatural ==
    /\ Policy.single \in Nat /\ Policy.dayCount \in Nat /\ Policy.dayValue \in Nat
    /\ Policy.dayWindow \in Nat /\ LastMoment \in Nat
  BY RequestsAssumption DEF Cash!SettingsAssumption

LEMMA AutoInit == Cash!Init => AutoInv
  <1> SUFFICES ASSUME Cash!Init PROVE AutoInv OBVIOUS
  <1>1. \A k \in WithdrawalKeys : withdrawal[k] = None BY DEF Cash!Init
  <1>2. ASSUME NEW u, NEW from PROVE Bounded(withdrawal, u, from)
    <2>1. Automatic(withdrawal, u, from) = {} BY <1>1 DEF Automatic
    <2> QED BY <2>1, SumOfNothing, FS_EmptySet, PolicyIsNatural DEF Bounded
  <1> QED BY <1>1, <1>2, CashInit DEF AutoInv, Trusted

LEMMA CashCardinality == \A S : Cash!Cardinality(S) = Cardinality(S)
  BY DEF Cash!Cardinality, Cardinality

LEMMA AutoInvSays == AutoInv => Cash!AutoApprovalsBounded /\ Cash!AutomaticOnlyIfTrusted
  <1> SUFFICES ASSUME AutoInv
               PROVE  Cash!AutoApprovalsBounded /\ Cash!AutomaticOnlyIfTrusted
    OBVIOUS
  <1>1. Cash!AutomaticOnlyIfTrusted
    BY DEF AutoInv, Trusted, Known, Cash!AutomaticOnlyIfTrusted, Cash!Exists, Cash!HasStatus
  <1>2. ASSUME NEW S \in SUBSET WithdrawalKeys, \A k \in S : withdrawal[k] # None
        PROVE  Cash!Total(S) = SumOf(Amounts(withdrawal), S)
    <2>1. IsFiniteSet(S) BY BoundsAssumption, FS_Subset
    <2>2. \A k \in S : withdrawal[k].request.amount \in Int
      BY <1>2, AmountsArePositive DEF AutoInv, CashInv
    <2>3. TotalIn(withdrawal, S) = SumOf(Amounts(withdrawal), S) BY <2>1, <2>2, TotalInIsSum
    <2> QED BY <2>3, TotalIsTotalIn
  <1>3. ASSUME NEW u \in People, NEW from \in 0..LastMoment
        PROVE  LET window == {k \in WithdrawalKeys : /\ Cash!Exists(k) /\ withdrawal[k].mode = "AUTOMATIC"
                                    /\ Cash!OwnerOf(withdrawal[k].request.account) = u
                                    /\ withdrawal[k].created \in from .. (from + Policy.dayWindow)}
               IN  /\ Cash!Cardinality(window) <= Policy.dayCount
                   /\ Cash!Total(window) <= Policy.dayValue
    <2> DEFINE S == Automatic(withdrawal, u, from)
    <2>1. S = {k \in WithdrawalKeys : /\ Cash!Exists(k) /\ withdrawal[k].mode = "AUTOMATIC"
                                    /\ Cash!OwnerOf(withdrawal[k].request.account) = u
                                    /\ withdrawal[k].created \in from .. (from + Policy.dayWindow)}
      BY DEF Automatic, Cash!Exists
    <2>2. S \in SUBSET WithdrawalKeys /\ \A k \in S : withdrawal[k] # None BY DEF Automatic
    <2>3. Cardinality(S) <= Policy.dayCount /\ SumOf(Amounts(withdrawal), S) <= Policy.dayValue
      BY DEF AutoInv, Bounded
    <2> HIDE DEF S
    <2>4. Cash!Total(S) <= Policy.dayValue /\ Cash!Cardinality(S) <= Policy.dayCount
      BY <1>2, <2>2, <2>3, CashCardinality
    <2> QED BY <2>1, <2>4
  <1>4. Cash!AutoApprovalsBounded BY <1>3 DEF Cash!AutoApprovalsBounded
  <1> QED BY <1>1, <1>4

(* A step that makes nothing automatic that was not so before keeps both.  *)
Carried(k) ==
    withdrawal'[k] # None /\ withdrawal'[k].mode = "AUTOMATIC" =>
        /\ withdrawal[k] # None /\ withdrawal[k].mode = "AUTOMATIC"
        /\ withdrawal'[k].reasons = withdrawal[k].reasons
        /\ withdrawal'[k].request = withdrawal[k].request
        /\ withdrawal'[k].created = withdrawal[k].created

LEMMA PartOfBounded ==
    ASSUME NEW w \in Withdrawals, NEW x \in Withdrawals, NEW R, NEW S, S \subseteq WithdrawalKeys,
           R \subseteq S, \A k \in S : w[k] # None,
           \A k \in R : x[k].request = w[k].request
    PROVE  /\ Cardinality(R) <= Cardinality(S)
           /\ SumOf(Amounts(x), R) <= SumOf(Amounts(w), S)
           /\ Cardinality(R) \in Nat /\ Cardinality(S) \in Nat
           /\ SumOf(Amounts(x), R) \in Nat /\ SumOf(Amounts(w), S) \in Nat
  <1>1. IsFiniteSet(S) /\ IsFiniteSet(R) BY BoundsAssumption, FS_Subset
  <1>2. Cardinality(R) <= Cardinality(S) BY <1>1, FS_Subset
  <1>3. Cardinality(R) \in Nat /\ Cardinality(S) \in Nat BY <1>1, FS_CardinalityType
  <1> DEFINE f == Amounts(w)
             h == Amounts(x)
  <1>4. \A k \in S : f[k] \in Nat BY AmountsArePositive DEF Withdrawals, Amounts
  <1>5. \A k \in R : f[k] \in Int /\ h[k] = f[k]
    <2>1. \A k \in R : k \in WithdrawalKeys /\ f[k] \in Int BY <1>4
    <2>2. \A k \in WithdrawalKeys : f[k] = w[k].request.amount /\ h[k] = x[k].request.amount
      BY DEF Amounts
    <2> HIDE DEF f, h
    <2> QED BY <2>1, <2>2
  <1> HIDE DEF f, h
  <1>6. SumOf(h, R) = SumOf(f, R) BY <1>1, <1>5, SumsAgree
  <1>7. SumOf(f, R) <= SumOf(f, S) BY <1>1, <1>4, PartIsNoMore
  <1>8. SumOf(f, S) \in Nat /\ SumOf(f, R) \in Nat BY <1>1, <1>4, SumIsNatural
  <1> QED BY <1>2, <1>3, <1>6, <1>7, <1>8 DEF f, h

LEMMA BoundsCarry ==
    ASSUME AutoInv, CashInv', NEW u \in People, NEW from \in 0..LastMoment,
           \A k \in Automatic(withdrawal', u, from) : Carried(k)
    PROVE  Bounded(withdrawal', u, from)
  <1> DEFINE R == Automatic(withdrawal', u, from)
             S == Automatic(withdrawal, u, from)
  <1>1. withdrawal \in Withdrawals /\ withdrawal' \in Withdrawals
    BY DEF AutoInv, CashInv, Withdrawals
  <1>2. S \subseteq WithdrawalKeys /\ R \subseteq S /\ (\A k \in S : withdrawal[k] # None)
        /\ \A k \in R : withdrawal'[k].request = withdrawal[k].request
    BY DEF Automatic, Carried
  <1>3. Cardinality(S) <= Policy.dayCount /\ SumOf(Amounts(withdrawal), S) <= Policy.dayValue
    BY DEF AutoInv, Bounded
  <1> HIDE DEF R, S
  <1>4. PICK w \in Withdrawals, x \in Withdrawals : w = withdrawal /\ x = withdrawal' BY <1>1
  <1>5. /\ Cardinality(R) <= Cardinality(S) /\ SumOf(Amounts(x), R) <= SumOf(Amounts(w), S)
        /\ Cardinality(R) \in Nat /\ Cardinality(S) \in Nat
        /\ SumOf(Amounts(x), R) \in Nat /\ SumOf(Amounts(w), S) \in Nat
    BY <1>2, <1>4, PartOfBounded
  <1>6. /\ Cardinality(R) <= Policy.dayCount
        /\ SumOf(Amounts(withdrawal'), R) <= Policy.dayValue
    BY <1>3, <1>4, <1>5, PolicyIsNatural
  <1> QED BY <1>6 DEF R, Bounded

LEMMA TrustCarries ==
    ASSUME AutoInv, Cash!KeepsTerminal, NEW k \in WithdrawalKeys, Carried(k)
    PROVE  Trusted(withdrawal', k)
  <1> SUFFICES ASSUME withdrawal'[k] # None, withdrawal'[k].mode = "AUTOMATIC"
               PROVE  /\ withdrawal'[k].reasons = {}
                      /\ withdrawal'[k].request.amount <= Policy.single
                      /\ RequireKnownDestination => \E j \in WithdrawalKeys \ {k} : Known(withdrawal', k, j)
    BY DEF Trusted
  <1>1. /\ withdrawal[k].reasons = {} /\ withdrawal[k].request.amount <= Policy.single
        /\ RequireKnownDestination => \E j \in WithdrawalKeys \ {k} : Known(withdrawal, k, j)
    BY DEF AutoInv, Trusted, Carried
  <1>2. ASSUME NEW j \in WithdrawalKeys \ {k}, Known(withdrawal, k, j) PROVE Known(withdrawal', k, j)
    <2>1. withdrawal'[j] = withdrawal[j]
      BY <1>2 DEF Cash!KeepsTerminal, Cash!Exists, Known, Cash!Active
    <2> QED BY <1>2, <2>1 DEF Known, Carried
  <1> QED BY <1>1, <1>2 DEF Carried

(* What a decision leaves of a withdrawal as it was.                       *)
LEMMA DecidedKeeps ==
    \A w \in Cash!Withdrawal : \A s, t, m :
        /\ [w EXCEPT !.status = s].mode = w.mode
        /\ [w EXCEPT !.status = s].created = w.created
        /\ [w EXCEPT !.status = s].reasons = w.reasons
        /\ [w EXCEPT !.status = s, !.transaction = t].mode = w.mode
        /\ [w EXCEPT !.status = s, !.transaction = t].created = w.created
        /\ [w EXCEPT !.status = s, !.transaction = t].reasons = w.reasons
        /\ [w EXCEPT !.status = s, !.mode = m].mode = m
        /\ [w EXCEPT !.status = s, !.mode = m].created = w.created
        /\ [w EXCEPT !.status = s, !.mode = m].reasons = w.reasons
  BY DEF Cash!Withdrawal

LEMMA DecisionsCarry ==
    ASSUME CashInv, NEW k \in WithdrawalKeys,
           \/ Cash!ApproveWithdrawal(k) \/ Cash!RejectWithdrawal(k) \/ Cash!MarkProcessing(k)
           \/ Cash!CompleteWithdrawal(k) \/ Cash!FailWithdrawal(k)
    PROVE  /\ \A j \in WithdrawalKeys : Carried(j)
           /\ \A j \in WithdrawalKeys : withdrawal'[j] # None =>
                 withdrawal[j] # None /\ withdrawal'[j].created = withdrawal[j].created
           /\ UNCHANGED now
  <1>1. withdrawal[k] # None /\ withdrawal[k] \in Cash!Withdrawal
    BY DEF CashInv, Cash!ApproveWithdrawal, Cash!RejectWithdrawal, Cash!MarkProcessing,
           Cash!CompleteWithdrawal, Cash!FailWithdrawal, Cash!HasStatus, Cash!Exists
  <1>2. UNCHANGED now
    BY DEF Cash!ApproveWithdrawal, Cash!RejectWithdrawal, Cash!MarkProcessing,
           Cash!CompleteWithdrawal, Cash!FailWithdrawal
  <1>3. PICK w \in Cash!Withdrawal : w = withdrawal[k] BY <1>1
  <1>4. \/ \E s \in Cash!Statuses, t \in Cash!TransactionStatuses :
                withdrawal' = [withdrawal EXCEPT ![k] =
                                   [withdrawal[k] EXCEPT !.status = s, !.transaction = t]]
        \/ \E s \in Cash!Statuses :
                withdrawal' = [withdrawal EXCEPT ![k] = [withdrawal[k] EXCEPT !.status = s]]
        \/ withdrawal' = [withdrawal EXCEPT ![k] =
                              [withdrawal[k] EXCEPT !.status = "APPROVED", !.mode = "MANUAL"]]
    BY DEF Cash!ApproveWithdrawal, Cash!RejectWithdrawal, Cash!MarkProcessing,
           Cash!CompleteWithdrawal, Cash!FailWithdrawal, Cash!Statuses,
           Cash!TransactionStatuses
  <1>5. PICK v : /\ withdrawal' = [withdrawal EXCEPT ![k] = v]
                 /\ v.created = w.created /\ v.reasons = w.reasons
                 /\ v.mode \in {w.mode, "MANUAL"} /\ v.request = w.request
    <2> DEFINE Says(v) == /\ v.created = w.created /\ v.reasons = w.reasons
                          /\ v.mode \in {w.mode, "MANUAL"} /\ v.request = w.request
    <2>1. \A s, t : Says([w EXCEPT !.status = s, !.transaction = t])
      BY DecidedKeeps DEF Cash!Withdrawal
    <2>2. \A s : Says([w EXCEPT !.status = s]) BY DecidedKeeps DEF Cash!Withdrawal
    <2>3. Says([w EXCEPT !.status = "APPROVED", !.mode = "MANUAL"])
      BY DecidedKeeps DEF Cash!Withdrawal
    <2>4. \E v : withdrawal' = [withdrawal EXCEPT ![k] = v] /\ Says(v)
      <3> HIDE DEF Says
      <3> QED BY <1>3, <1>4, <2>1, <2>2, <2>3, Zenon
    <2> QED BY <2>4
  <1>6. withdrawal'[k] = v /\ \A j \in WithdrawalKeys \ {k} : withdrawal'[j] = withdrawal[j]
    BY <1>5 DEF CashInv
  <1>7. \A j \in WithdrawalKeys : Carried(j) BY <1>1, <1>3, <1>5, <1>6 DEF Carried
  <1>8. \A j \in WithdrawalKeys : withdrawal'[j] # None =>
                 withdrawal[j] # None /\ withdrawal'[j].created = withdrawal[j].created
    BY <1>1, <1>3, <1>5, <1>6
  <1> QED BY <1>2, <1>7, <1>8

(* Steps that carry every withdrawal keep the invariant.                   *)
LEMMA CarryingIsSafe ==
    ASSUME AutoInv, CashInv', Cash!KeepsTerminal, UNCHANGED RequireKnownDestination,
           now' >= now, \A j \in WithdrawalKeys : Carried(j),
           \A j \in WithdrawalKeys : withdrawal'[j] # None =>
               withdrawal[j] # None /\ withdrawal'[j].created = withdrawal[j].created
    PROVE  AutoInv'
  <1>1. \A u \in People, from \in 0..LastMoment : Bounded(withdrawal', u, from)
    BY BoundsCarry DEF Automatic
  <1>2. \A k \in WithdrawalKeys : Trusted(withdrawal', k) BY TrustCarries
  <1>3. \A k \in WithdrawalKeys : withdrawal'[k] # None => withdrawal'[k].created <= now'
    BY DEF AutoInv, CashInv, Cash!Withdrawal
  <1>4. (\A k \in WithdrawalKeys : Trusted(withdrawal, k))' BY <1>2 DEF Trusted, Known
  <1>5. (\A u \in People, from \in 0..LastMoment : Bounded(withdrawal, u, from))' BY <1>1
  <1> QED BY <1>3, <1>4, <1>5 DEF AutoInv

(* The request that is approved: the limits counted every withdrawal of    *)
(* the user created within a day, so that with it they still hold in every *)
(* window that reaches to now.                                             *)
LEMMA ApprovalWithinLimits ==
    ASSUME AutoInv, CashInv', NEW k \in WithdrawalKeys, withdrawal[k] = None,
           NEW v \in Cash!Withdrawal, withdrawal' = [withdrawal EXCEPT ![k] = v],
           v.created = now, Cash!RiskReasons(v.request) = {},
           NEW u \in People, NEW from \in 0..LastMoment
    PROVE  Bounded(withdrawal', u, from)
  <1> DEFINE A == Automatic(withdrawal', u, from)
             D == Cash!Recent(u, Policy.dayWindow)
  <1>1. withdrawal \in Withdrawals /\ withdrawal' \in Withdrawals
    BY DEF AutoInv, CashInv, Withdrawals
  <1>2. withdrawal'[k] = v /\ \A j \in WithdrawalKeys \ {k} : withdrawal'[j] = withdrawal[j]
    BY <1>1 DEF Withdrawals
  <1>3. CASE k \notin A BY <1>2, <1>3, BoundsCarry DEF Automatic, Carried
  <1>4. CASE k \in A
    <2>1. u = Cash!OwnerOf(v.request.account) /\ now >= from /\ now <= from + Policy.dayWindow
      BY <1>2, <1>4 DEF Automatic
    <2>2. /\ ~(Cash!Cardinality(D) + 1 > Policy.dayCount)
          /\ ~(Cash!Total(D) + v.request.amount > Policy.dayValue)
      <3>1. \A reason \in Cash!Reasons : reason \notin Cash!RiskReasons(v.request) OBVIOUS
      <3>2. {"WITHDRAWAL_COUNT_24H_LIMIT", "WITHDRAWAL_VALUE_24H_LIMIT"} \subseteq Cash!Reasons
        BY DEF Cash!Reasons
      <3> HIDE DEF D
      <3> QED BY <2>1, <3>1, <3>2 DEF Cash!RiskReasons, D
    <2>3. D \subseteq WithdrawalKeys /\ k \notin D /\ (\A j \in D : withdrawal[j] # None)
      BY DEF Cash!Recent, Cash!Exists
    <2>4. A \ {k} \subseteq D
      <3> SUFFICES ASSUME NEW j \in A, j # k PROVE j \in D OBVIOUS
      <3>1. j \in WithdrawalKeys /\ withdrawal[j] # None /\ Cash!OwnerOf(withdrawal[j].request.account) = u
            /\ withdrawal[j].created \in from .. (from + Policy.dayWindow)
        BY <1>2 DEF Automatic
      <3>2. now - Policy.dayWindow <= from /\ now \in Nat
        BY <2>1, PolicyIsNatural DEF AutoInv, CashInv
      <3>3. withdrawal[j].created >= now - Policy.dayWindow BY <3>1, <3>2, PolicyIsNatural
      <3> QED BY <3>1, <3>3 DEF Cash!Recent, Cash!Exists
    <2>5. IsFiniteSet(D) /\ IsFiniteSet(A) /\ IsFiniteSet(A \ {k})
      <3>1. D \subseteq WithdrawalKeys /\ A \subseteq WithdrawalKeys /\ A \ {k} \subseteq WithdrawalKeys
        BY <2>3 DEF Automatic
      <3> HIDE DEF A, D
      <3> QED BY <3>1, BoundsAssumption, FS_Subset
    <2>6. Cash!Total(D) = SumOf(Amounts(withdrawal), D)
      <3>1. \A j \in D : withdrawal[j].request.amount \in Int
        BY <2>3, AmountsArePositive DEF AutoInv, CashInv
      <3> HIDE DEF D
      <3>2. TotalIn(withdrawal, D) = SumOf(Amounts(withdrawal), D) BY <2>3, <2>5, <3>1, TotalInIsSum
      <3> QED BY <3>2, TotalIsTotalIn
    <2>7. \A j \in A \ {k} : withdrawal'[j].request = withdrawal[j].request BY <1>2 DEF Automatic
    <2>8. PICK w \in Withdrawals, x \in Withdrawals : w = withdrawal /\ x = withdrawal' BY <1>1
    <2> HIDE DEF A, D
    <2> DEFINE R == A \ {k}
    <2>9. /\ Cardinality(R) <= Cardinality(D) /\ SumOf(Amounts(x), R) <= SumOf(Amounts(w), D)
          /\ Cardinality(R) \in Nat /\ Cardinality(D) \in Nat
          /\ SumOf(Amounts(x), R) \in Nat /\ SumOf(Amounts(w), D) \in Nat
      <3>1. D \subseteq WithdrawalKeys /\ R \subseteq D /\ (\A j \in D : w[j] # None)
            /\ \A j \in R : x[j].request = w[j].request
        BY <2>3, <2>4, <2>7, <2>8
      <3> HIDE DEF R
      <3> QED BY <3>1, PartOfBounded
    <2>10. Cardinality(A) = Cardinality(R) + 1
      <3>1. Cardinality(A \ {k}) = Cardinality(A) - 1 BY <1>4, <2>5, FS_RemoveElement
      <3>2. Cardinality(A) \in Nat BY <2>5, FS_CardinalityType
      <3> QED BY <3>1, <3>2
    <2>11. SumOf(Amounts(x), A) = v.request.amount + SumOf(Amounts(x), R)
      <3> DEFINE f == Amounts(x)
      <3>1. \A j \in A : f[j] \in Int
        <4>1. \A j \in A : j \in WithdrawalKeys /\ x[j] # None BY <2>8 DEF A, Automatic
        <4>2. \A j \in A : x[j].request.amount \in Int BY <4>1, AmountsArePositive DEF Withdrawals
        <4> QED BY <4>1, <4>2 DEF Amounts
      <3>2. f[k] = v.request.amount BY <1>2, <2>8 DEF Amounts
      <3> HIDE DEF f
      <3>3. SumOf(f, A) = f[k] + SumOf(f, A \ {k}) BY <1>4, <2>5, <3>1, TakeOut
      <3> QED BY <3>2, <3>3 DEF f
    <2>12. v.request.amount \in Nat BY AmountsArePositive
    <2>13. Cardinality(A) <= Policy.dayCount BY <2>2, <2>9, <2>10, PolicyIsNatural, CashCardinality
    <2>14. SumOf(Amounts(x), A) <= Policy.dayValue
      BY <2>2, <2>6, <2>8, <2>9, <2>11, <2>12, PolicyIsNatural
    <2> QED BY <2>8, <2>13, <2>14 DEF Bounded, A
  <1> QED BY <1>3, <1>4

(* create_withdrawal_request as it commits, approving or not.              *)
LEMMA FinishIsSafe ==
    ASSUME AutoInv, CashInv', Cash!KeepsTerminal, UNCHANGED RequireKnownDestination,
           NEW p \in Requests, Cash!Finish(p)
    PROVE  AutoInv'
  <1> DEFINE r == work[p]
  <1>1. r # None /\ r \in Withdrawn /\ r \in Cash!RequestType /\ r.key \in WithdrawalKeys
        /\ withdrawal[r.key] = None
    BY RequestsAssumption DEF AutoInv, CashInv, Cash!Finish, Cash!Exists,
                              Cash!RequestsAssumption, Cash!RequestType
  <1>2. PICK v \in Cash!Withdrawal :
            /\ withdrawal' = [withdrawal EXCEPT ![r.key] = v]
            /\ v.request = r /\ v.created = now /\ v.reasons = Cash!RiskReasons(r)
            /\ v.mode = "AUTOMATIC" => v.reasons = {}
    <2>1. Cash!RiskReasons(r) \in SUBSET Cash!Reasons BY DEF Cash!RiskReasons
    <2>2. Cash!AutoApprove(r) \in BOOLEAN /\ now \in Nat
      BY RequestsAssumption DEF Cash!AutoApprove, AutoInv, CashInv
    <2> DEFINE v == [request |-> r, created |-> now,
                     status |-> IF Cash!AutoApprove(r) THEN "APPROVED" ELSE "PENDING_APPROVAL",
                     transaction |-> "PENDING",
                     mode |-> IF Cash!AutoApprove(r) THEN "AUTOMATIC" ELSE "PENDING",
                     reasons |-> Cash!RiskReasons(r)]
    <2>3. v \in Cash!Withdrawal BY <1>1, <2>1, <2>2, CommittedIsTyped, Zenon
    <2>4. withdrawal' = [withdrawal EXCEPT ![r.key] = v] BY Zenon DEF Cash!Finish
    <2>5. v.request = r /\ v.created = now /\ v.reasons = Cash!RiskReasons(r)
          /\ v.mode = IF Cash!AutoApprove(r) THEN "AUTOMATIC" ELSE "PENDING"
      OBVIOUS
    <2>6. Cash!AutoApprove(r) => Cash!RiskReasons(r) = {} BY DEF Cash!AutoApprove
    <2> HIDE DEF v
    <2> QED BY <2>3, <2>4, <2>5, <2>6
  <1>3. UNCHANGED now BY DEF Cash!Finish
  <1>4. PICK k \in WithdrawalKeys : k = r.key /\ withdrawal[k] = None BY <1>1
  <1> HIDE DEF r
  <1>5. withdrawal'[k] = v /\ \A j \in WithdrawalKeys \ {k} : withdrawal'[j] = withdrawal[j]
    BY <1>2, <1>4 DEF AutoInv, CashInv
  <1>6. \A j \in WithdrawalKeys \ {k} : Carried(j) BY <1>5 DEF Carried
  <1>7. ASSUME NEW u \in People, NEW from \in 0..LastMoment
        PROVE  Bounded(withdrawal', u, from)
    <2>1. CASE v.mode = "AUTOMATIC" BY <1>2, <1>4, <2>1, ApprovalWithinLimits
    <2>2. CASE v.mode # "AUTOMATIC"
      <3>1. \A j \in Automatic(withdrawal', u, from) : Carried(j) BY <1>5, <1>6, <2>2 DEF Automatic
      <3> QED BY <3>1, BoundsCarry
    <2> QED BY <2>1, <2>2
  <1>8. Trusted(withdrawal', k)
    <2> SUFFICES ASSUME v.mode = "AUTOMATIC"
                 PROVE  /\ v.reasons = {} /\ v.request.amount <= Policy.single
                        /\ RequireKnownDestination
                              => \E j \in WithdrawalKeys \ {k} : Known(withdrawal', k, j)
      BY <1>5 DEF Trusted
    <2>1. \A reason \in Cash!Reasons : reason \notin Cash!RiskReasons(v.request) BY <1>2
    <2>2. v.request.amount <= Policy.single
      BY <2>1, AmountsArePositive, PolicyIsNatural DEF Cash!RiskReasons, Cash!Reasons
    <2>3. ASSUME RequireKnownDestination PROVE \E j \in WithdrawalKeys \ {k} : Known(withdrawal', k, j)
      <3>1. Cash!HasKnownDestination(Cash!OwnerOf(v.request.account), v.request.destination)
        BY <2>1, <2>3 DEF Cash!RiskReasons, Cash!Reasons
      <3>2. PICK j \in WithdrawalKeys :
                /\ withdrawal[j] # None /\ withdrawal[j].status = "COMPLETED"
                /\ Cash!OwnerOf(withdrawal[j].request.account) = Cash!OwnerOf(v.request.account)
                /\ withdrawal[j].request.destination = v.request.destination
        BY <3>1 DEF Cash!HasKnownDestination, Cash!Exists
      <3>3. withdrawal[j].created <= now BY <3>2 DEF AutoInv
      <3>4. j # k BY <1>4, <3>2
      <3>5. Known(withdrawal', k, j) BY <1>2, <1>5, <3>2, <3>3, <3>4 DEF Known
      <3> QED BY <3>4, <3>5
    <2> QED BY <1>2, <2>2, <2>3
  <1>9. \A j \in WithdrawalKeys : Trusted(withdrawal', j) BY <1>6, <1>8, TrustCarries
  <1>10. \A j \in WithdrawalKeys : withdrawal'[j] # None => withdrawal'[j].created <= now'
    BY <1>2, <1>3, <1>5 DEF AutoInv, CashInv
  <1>11. (\A j \in WithdrawalKeys : Trusted(withdrawal, j))' BY <1>9 DEF Trusted, Known
  <1>12. (\A u \in People, from \in 0..LastMoment : Bounded(withdrawal, u, from))' BY <1>7
  <1> QED BY <1>10, <1>11, <1>12 DEF AutoInv

LEMMA AutoRests ==
    ASSUME AutoInv, CashInv', Cash!KeepsTerminal, now' >= now,
           UNCHANGED <<withdrawal, RequireKnownDestination>>
    PROVE  AutoInv'
  BY CarryingIsSafe DEF Carried

LEMMA AutoNext == AutoInv /\ Cash!Next => AutoInv'
  <1> SUFFICES ASSUME AutoInv, Cash!Next PROVE AutoInv' OBVIOUS
  <1>1. CashInv' /\ Cash!KeepsTerminal /\ UNCHANGED RequireKnownDestination /\ now \in Nat
    BY CashNext DEF AutoInv, CashInv, Cash!Next
  <1>2. ASSUME NEW k \in WithdrawalKeys,
               \/ Cash!ApproveWithdrawal(k) \/ Cash!RejectWithdrawal(k) \/ Cash!MarkProcessing(k)
               \/ Cash!CompleteWithdrawal(k) \/ Cash!FailWithdrawal(k)
        PROVE  AutoInv'
    <2>1. /\ \A j \in WithdrawalKeys : Carried(j)
          /\ \A j \in WithdrawalKeys : withdrawal'[j] # None =>
                withdrawal[j] # None /\ withdrawal'[j].created = withdrawal[j].created
          /\ UNCHANGED now
      BY <1>2, DecisionsCarry DEF AutoInv
    <2>2. now' >= now BY <1>1, <2>1
    <2> QED BY <1>1, <2>1, <2>2, CarryingIsSafe
  <1>3. ASSUME NEW p \in Requests, \/ \E r \in Withdrawn : Cash!Request(p, r)
                                   \/ Cash!Abandon(p)
        PROVE  UNCHANGED <<withdrawal, now>>
    BY <1>3 DEF Cash!Request, Cash!Abandon
  <1>4. ASSUME NEW a \in Cash!Accounts,
               \/ Cash!SpendAvailable(a) \/ Cash!OrderReserves(a)
               \/ Cash!OrderReleases(a) \/ Cash!OrderConsumes(a)
        PROVE  UNCHANGED <<withdrawal, now>>
    BY <1>4 DEF Cash!SpendAvailable, Cash!OrderReserves, Cash!OrderReleases,
                Cash!OrderConsumes
  <1>5. ASSUME NEW u \in People, Cash!LoseEligibility(u)
        PROVE  UNCHANGED <<withdrawal, now>>
    BY <1>5 DEF Cash!LoseEligibility
  <1>6. Cash!Tick => UNCHANGED withdrawal /\ now' = now + 1 BY DEF Cash!Tick
  <1>7. UNCHANGED withdrawal /\ now' \in {now, now + 1} => AutoInv' BY <1>1, AutoRests
  <1>8. ASSUME NEW p \in Requests, Cash!Finish(p) PROVE AutoInv' BY <1>1, <1>8, FinishIsSafe
  <1> QED BY <1>2, <1>3, <1>4, <1>5, <1>6, <1>7, <1>8 DEF Cash!Next, Cash!Step

LEMMA AutoStutter == AutoInv /\ UNCHANGED cashVars => AutoInv'
  BY CashStutter, AutoRests DEF AutoInv, CashInv, cashVars

-----------------------------------------------------------------------------
(* Fees: an activation keeps its draft from the search to the write, and a *)
(* scope in which no two ran at a time has no active schedule while one    *)
(* runs. A schedule that has been active keeps what its fees were charged  *)
(* under.                                                                  *)
Activates(c) == calls[c] # Fees!Idle
ScopeOf(c) == schedules[calls[c].id].scope
KeepsDraft(c) ==
    Activates(c) =>
        /\ calls[c].id \in Fees!Created /\ calls[c].by \in Pair
        /\ schedules[calls[c].id].status = "DRAFT" /\ calls[c].by # schedules[calls[c].id].by
SecondPerson(i) ==
    schedules[i] # None /\ schedules[i].status # "DRAFT" =>
        schedules[i].activatedBy \in Pair \ {schedules[i].by}
Explains(entry) ==
    IF entry.schedule = None THEN entry.rate = 0
    ELSE /\ entry.schedule \in Fees!Created
         /\ schedules[entry.schedule].status # "DRAFT"
         /\ entry.rate = schedules[entry.schedule].rate
         /\ entry.version = schedules[entry.schedule].version
OneActive(s) == \A i, j \in Fees!InScope(s, "ACTIVE") : i = j
OneActivates(s) ==
    /\ \A c \in Requests : Activates(c) /\ ScopeOf(c) = s => Fees!InScope(s, "ACTIVE") = {}
    /\ \A c, d \in Requests :
           Activates(c) /\ Activates(d) /\ ScopeOf(c) = s /\ ScopeOf(d) = s => c = d
FeesInv ==
    /\ schedules \in [1..2 -> Fees!Schedules \cup {None}] /\ nowOfFees \in {1, 2}
    /\ calls \in [Requests -> [id : (1..2) \cup {None}, by : Pair \cup {None}]]
    /\ DOMAIN fees = {"trade"}
    /\ Fees!Created = {} \/ (Fees!Created = {1} /\ schedules[1].version = 1)
       \/ Fees!Created = {1, 2}
    /\ \A c \in Requests : KeepsDraft(c)
    /\ \A c, d \in Requests : Activates(c) /\ Activates(d) /\ calls[c].id = calls[d].id => c = d
    /\ \A i \in 1..2 : SecondPerson(i)
    /\ fees["trade"] # None => Explains(fees["trade"])
    /\ \A s \in Fees!Scopes \ overlapped : OneActive(s) /\ OneActivates(s)

LEMMA FeesCardinality == \A S : Fees!Cardinality(S) = Cardinality(S)
  BY DEF Fees!Cardinality, Fees!IsFiniteSet, Cardinality, IsFiniteSet

LEMMA FeesInvSays == FeesInv => Fees!FeesExplained
  <1> SUFFICES ASSUME FeesInv PROVE Fees!FeesExplained OBVIOUS
  <1>1. ASSUME NEW t \in {"trade"}, fees[t] # None
        PROVE  IF fees[t].schedule = None THEN fees[t].rate = 0
               ELSE LET s == schedules[fees[t].schedule] IN
                    /\ s.status # "DRAFT" /\ s.activatedBy \in Pair \ {s.by}
                    /\ fees[t].rate = s.rate /\ fees[t].version = s.version
    <2>1. Explains(fees[t]) BY <1>1 DEF FeesInv
    <2>2. CASE fees[t].schedule # None
      <3>1. fees[t].schedule \in 1..2 /\ schedules[fees[t].schedule] # None
        BY <2>1, <2>2 DEF Explains, Fees!Created, Fees!Ids
      <3>2. SecondPerson(fees[t].schedule) BY <3>1 DEF FeesInv
      <3> QED BY <2>1, <2>2, <3>1, <3>2 DEF Explains, SecondPerson
    <2> QED BY <2>1, <2>2 DEF Explains
  <1>2. ASSUME NEW s \in Fees!Scopes \ overlapped
        PROVE  Fees!Cardinality(Fees!InScope(s, "ACTIVE")) <= 1
    <2>1. Fees!InScope(s, "ACTIVE") \subseteq {1, 2} BY DEF Fees!InScope, Fees!Created, Fees!Ids
    <2>2. \A i, j \in Fees!InScope(s, "ACTIVE") : i = j BY <1>2 DEF FeesInv, OneActive
    <2> QED BY <2>1, <2>2, AtMostOne, FeesCardinality
  <1> QED BY <1>1, <1>2 DEF Fees!FeesExplained

LEMMA FeesInit == Fees!Init => FeesInv
  <1> SUFFICES ASSUME Fees!Init PROVE FeesInv OBVIOUS
  <1>1. /\ schedules = [i \in 1..2 |-> None] /\ fees = [t \in {"trade"} |-> None]
        /\ calls = [c \in Requests |-> Fees!Idle] /\ nowOfFees = Fees!Min({1, 2})
    BY DEF Fees!Init, Fees!Ids
  <1>2. nowOfFees \in {1, 2}
    <2>1. \E x \in {1, 2} : \A y \in {1, 2} : x <= y OBVIOUS
    <2> QED BY <1>1, <2>1, Zenon DEF Fees!Min
  <1>3. Fees!Created = {} /\ \A c \in Requests : ~Activates(c)
    BY <1>1 DEF Fees!Created, Fees!Ids, Activates
  <1>4. \A s \in Fees!Scopes : Fees!InScope(s, "ACTIVE") = {} BY <1>3 DEF Fees!InScope
  <1>5. Fees!Idle \in [id : (1..2) \cup {None}, by : Pair \cup {None}] BY DEF Fees!Idle
  <1>6. /\ schedules \in [1..2 -> Fees!Schedules \cup {None}] /\ DOMAIN fees = {"trade"}
        /\ fees["trade"] = None /\ \A i \in 1..2 : schedules[i] = None
    BY <1>1
  <1>7. calls \in [Requests -> [id : (1..2) \cup {None}, by : Pair \cup {None}]] BY <1>1, <1>5
  <1> QED BY <1>2, <1>3, <1>4, <1>6, <1>7
      DEF FeesInv, KeepsDraft, SecondPerson, OneActive, OneActivates

LEMMA RowsAreSomething == \A row \in Fees!Schedules : row # None
  BY NoneAssumption

(* A schedule that changes: who drafted it, its scope and its rate stay.   *)
LEMMA SchedulesKeep ==
    ASSUME FeesInv, NEW i \in Fees!Created, NEW row \in Fees!Schedules,
           schedules' = [schedules EXCEPT ![i] = row],
           row.scope = schedules[i].scope, row.by = schedules[i].by,
           row.rate = schedules[i].rate, row.version = schedules[i].version,
           row.status # "DRAFT", row.activatedBy \in Pair \ {row.by}
    PROVE  /\ schedules' \in [1..2 -> Fees!Schedules \cup {None}]
           /\ Fees!Created' = Fees!Created
           /\ \A j \in 1..2 : SecondPerson(j)'
           /\ \A j \in 1..2 : j # i => schedules'[j] = schedules[j]
           /\ schedules'[i] = row
           /\ fees' = fees => (fees["trade"] # None => Explains(fees["trade"])')
  <1>1. i \in 1..2 /\ schedules[i] # None /\ row # None
    BY RowsAreSomething DEF Fees!Created, Fees!Ids
  <1>2. /\ schedules' \in [1..2 -> Fees!Schedules \cup {None}] /\ schedules'[i] = row
        /\ \A j \in 1..2 : j # i => schedules'[j] = schedules[j]
    BY <1>1 DEF FeesInv
  <1>3. Fees!Created' = Fees!Created BY <1>1, <1>2 DEF Fees!Created, Fees!Ids
  <1>4. \A j \in 1..2 : SecondPerson(j)' BY <1>2 DEF SecondPerson, FeesInv
  <1>5. ASSUME fees' = fees, fees["trade"] # None PROVE Explains(fees["trade"])'
    <2>1. PICK e : e = fees["trade"] OBVIOUS
    <2>2. Explains(e) BY <1>5, <2>1 DEF FeesInv
    <2>3. Explains(e)' BY <1>1, <1>2, <1>3, <2>2 DEF Explains, Fees!Created, Fees!Ids
    <2> QED BY <1>5, <2>1, <2>3
  <1> QED BY <1>2, <1>3, <1>4, <1>5

(* The drafts that are being activated, when no call changes.              *)
LEMMA DraftsKeep ==
    ASSUME FeesInv, UNCHANGED <<calls, overlapped>>,
           \A c \in Requests : Activates(c) =>
               /\ calls[c].id \in Fees!Created'
               /\ schedules'[calls[c].id] = schedules[calls[c].id],
           \A s \in Fees!Scopes : Fees!InScope(s, "ACTIVE")' \subseteq Fees!InScope(s, "ACTIVE")
    PROVE  /\ calls' \in [Requests -> [id : (1..2) \cup {None}, by : Pair \cup {None}]]
           /\ \A c \in Requests : KeepsDraft(c)'
           /\ \A c, d \in Requests :
                  Activates(c)' /\ Activates(d)' /\ calls'[c].id = calls'[d].id => c = d
           /\ \A s \in Fees!Scopes \ overlapped' : OneActive(s)' /\ OneActivates(s)'
  <1>1. \A c \in Requests : /\ Activates(c)' = Activates(c) /\ calls'[c] = calls[c]
                            /\ Activates(c) => ScopeOf(c)' = ScopeOf(c)
    BY DEF Activates, ScopeOf
  <1>2. \A c \in Requests : KeepsDraft(c)' BY <1>1 DEF FeesInv, KeepsDraft
  <1>3. ASSUME NEW s \in Fees!Scopes \ overlapped PROVE OneActive(s)' /\ OneActivates(s)'
    BY <1>1, <1>3 DEF FeesInv, OneActive, OneActivates
  <1> QED BY <1>1, <1>2, <1>3 DEF FeesInv


LEMMA DraftIsNew ==
    ASSUME FeesInv, NEW u \in Pair, NEW s \in Fees!Scopes, NEW rate \in {1}, NEW from \in {1, 2},
           Fees!CreateDraft(u, s, rate, from)
    PROVE  FeesInv'
  <1> DEFINE version == Fees!NextVersion(s)
             row == [scope |-> s, version |-> version, status |-> "DRAFT", rate |-> rate,
                     from |-> from, by |-> u, activatedBy |-> None]
             V == {schedules[j].version : j \in {k \in Fees!Created : schedules[k].scope = s}}
  <1>1. PICK i : i = Fees!Min(Fees!Ids \ Fees!Created) OBVIOUS
  <1>2. \/ Fees!Created = {} /\ i = 1
        \/ Fees!Created = {1} /\ schedules[1].version = 1 /\ i = 2
    <2>1. CASE Fees!Created = {}
      <3>1. Fees!Ids \ Fees!Created = {1, 2} BY <2>1 DEF Fees!Ids
      <3>2. \E x \in {1, 2} : \A y \in {1, 2} : x <= y OBVIOUS
      <3>3. Fees!Min({1, 2}) \in {1, 2} /\ \A y \in {1, 2} : Fees!Min({1, 2}) <= y
        BY <3>2, Zenon DEF Fees!Min
      <3> QED BY <1>1, <2>1, <3>1, <3>3
    <2>2. CASE Fees!Created = {1} /\ schedules[1].version = 1
      <3>1. Fees!Ids \ Fees!Created = {2} BY <2>2 DEF Fees!Ids
      <3>2. \E x \in {2} : \A y \in {2} : x <= y OBVIOUS
      <3>3. Fees!Min({2}) \in {2} BY <3>2, Zenon DEF Fees!Min
      <3> QED BY <1>1, <2>2, <3>1, <3>3
    <2>3. Fees!Created # {1, 2} BY DEF Fees!CreateDraft, Fees!Ids
    <2> QED BY <2>1, <2>2, <2>3 DEF FeesInv
  <1>3. i \in 1..2 /\ i \notin Fees!Created /\ schedules[i] = None
    BY <1>2 DEF Fees!Created, Fees!Ids
  <1>4. version \in 1..2 /\ (Fees!Created = {} => version = 1)
    <2>1. V = {} \/ (V = {1} /\ Fees!Created # {}) BY <1>2
    <2>2. {0} \cup V = {0} \/ ({0} \cup V = {0, 1} /\ Fees!Created # {}) BY <2>1
    <2>3. version = Fees!Max({0} \cup V) + 1 BY DEF Fees!NextVersion
    <2>4. Fees!Max({0}) = 0 /\ Fees!Max({0, 1}) = 1
      <3>1. /\ \E x \in {0} : \A y \in {0} : x >= y
            /\ \E x \in {0, 1} : \A y \in {0, 1} : x >= y
        OBVIOUS
      <3>2. /\ Fees!Max({0}) \in {0}
            /\ Fees!Max({0, 1}) \in {0, 1} /\ \A y \in {0, 1} : Fees!Max({0, 1}) >= y
        BY <3>1, Zenon DEF Fees!Max
      <3> QED BY <3>2
    <2> HIDE DEF V, version
    <2> QED BY <2>2, <2>3, <2>4
  <1>5. row \in Fees!Schedules
    <2>1. version \in Fees!Ids /\ "DRAFT" \in Fees!Statuses BY <1>4 DEF Fees!Ids, Fees!Statuses
    <2> HIDE DEF version
    <2> QED BY <2>1 DEF Fees!Schedules
  <1>6. /\ schedules' = [schedules EXCEPT ![i] = row]
        /\ UNCHANGED <<nowOfFees, fees, calls, overlapped>>
    BY <1>1 DEF Fees!CreateDraft
  <1>7. row.status = "DRAFT" /\ row.version = version OBVIOUS
  <1> HIDE DEF row, version, V
  <1>8. /\ schedules' \in [1..2 -> Fees!Schedules \cup {None}] /\ schedules'[i] = row
        /\ \A j \in 1..2 : j # i => schedules'[j] = schedules[j]
    BY <1>3, <1>5, <1>6 DEF FeesInv
  <1>9. row # None BY <1>5, RowsAreSomething
  <1>10. Fees!Created' = Fees!Created \cup {i} BY <1>3, <1>8, <1>9 DEF Fees!Created, Fees!Ids
  <1>11. \/ Fees!Created' = {1} /\ schedules'[1].version = 1
         \/ Fees!Created' = {1, 2}
    <2>1. CASE Fees!Created = {} /\ i = 1 BY <1>4, <1>7, <1>8, <1>10, <2>1
    <2>2. CASE Fees!Created = {1} /\ i = 2 BY <1>10, <2>2
    <2> QED BY <1>2, <2>1, <2>2
  <1>12. \A j \in 1..2 : SecondPerson(j)' BY <1>7, <1>8 DEF FeesInv, SecondPerson
  <1>13. fees["trade"] # None => Explains(fees["trade"])'
    <2> SUFFICES ASSUME fees["trade"] # None PROVE Explains(fees["trade"])' OBVIOUS
    <2>1. PICK e : e = fees["trade"] OBVIOUS
    <2>2. Explains(e) BY <2>1 DEF FeesInv
    <2>3. Explains(e)' BY <1>3, <1>8, <1>10, <2>2 DEF Explains, Fees!Created, Fees!Ids
    <2> QED BY <1>6, <2>1, <2>3
  <1>14. \A c \in Requests : Activates(c) =>
             calls[c].id \in Fees!Created' /\ schedules'[calls[c].id] = schedules[calls[c].id]
    BY <1>3, <1>8, <1>10 DEF FeesInv, KeepsDraft, Fees!Created, Fees!Ids
  <1>15. ASSUME NEW x \in Fees!Scopes
         PROVE  Fees!InScope(x, "ACTIVE")' \subseteq Fees!InScope(x, "ACTIVE")
    BY <1>7, <1>8, <1>10 DEF Fees!InScope, Fees!Created, Fees!Ids
  <1> QED BY <1>6, <1>8, <1>11, <1>12, <1>13, <1>14, <1>15, DraftsKeep DEF FeesInv

(* An activation finds no active schedule and locks its draft.             *)
LEMMA SearchIsRead ==
    ASSUME FeesInv, NEW c \in Requests, NEW i \in Fees!Ids, NEW u \in Pair,
           Fees!Activate(c, i, u)
    PROVE  FeesInv'
  <1> DEFINE s == schedules[i].scope
             d == [id |-> i, by |-> u]
  <1>1. /\ i \in Fees!Created /\ ~Activates(c) /\ \A q \in Requests : calls[q].id # i
        /\ schedules[i].status = "DRAFT" /\ schedules[i].by # u
        /\ Fees!InScope(s, "ACTIVE") = {}
        /\ calls' = [calls EXCEPT ![c] = d]
        /\ UNCHANGED <<schedules, nowOfFees, fees>>
        /\ overlapped' = overlapped \cup
               {x \in {s} : \E q \in Requests : calls[q] # Fees!Idle
                                               /\ schedules[calls[q].id].scope = s}
    BY DEF Fees!Activate, Fees!MayActivate, Fees!Conflict, Fees!Locked, Activates
  <1>2. /\ i \in 1..2 /\ d \in [id : (1..2) \cup {None}, by : Pair \cup {None}]
        /\ d.id = i /\ d.by = u
    BY DEF Fees!Ids
  <1> HIDE DEF d
  <1>3. d # Fees!Idle BY <1>2, NoneAssumption DEF Fees!Idle
  <1>4. /\ calls' \in [Requests -> [id : (1..2) \cup {None}, by : Pair \cup {None}]]
        /\ calls'[c] = d /\ \A q \in Requests \ {c} : calls'[q] = calls[q]
    BY <1>1, <1>2 DEF FeesInv
  <1>5. /\ Activates(c)' /\ \A q \in Requests \ {c} : Activates(q)' = Activates(q)
        /\ ScopeOf(c)' = s /\ \A q \in Requests \ {c} : ScopeOf(q)' = ScopeOf(q)
    BY <1>1, <1>2, <1>3, <1>4 DEF Activates, ScopeOf
  <1>6. /\ Fees!Created' = Fees!Created
        /\ \A x \in Fees!Scopes : Fees!InScope(x, "ACTIVE")' = Fees!InScope(x, "ACTIVE")
    BY <1>1 DEF Fees!InScope, Fees!Created
  <1>7. ASSUME NEW q \in Requests PROVE KeepsDraft(q)'
    <2>1. CASE q = c BY <1>1, <1>2, <1>4, <1>6, <2>1 DEF KeepsDraft
    <2>2. CASE q # c BY <1>1, <1>4, <1>5, <1>6, <2>2 DEF KeepsDraft, FeesInv
    <2> QED BY <2>1, <2>2
  <1>8. \A p, q \in Requests : Activates(p)' /\ Activates(q)' /\ calls'[p].id = calls'[q].id => p = q
    BY <1>1, <1>2, <1>4, <1>5 DEF FeesInv
  <1>9. /\ \A j \in 1..2 : SecondPerson(j)'
        /\ (fees["trade"] # None => Explains(fees["trade"])')
    BY <1>1, <1>6 DEF FeesInv, SecondPerson, Explains
  <1>10. ASSUME NEW x \in Fees!Scopes \ overlapped' PROVE OneActive(x)' /\ OneActivates(x)'
    <2>1. OneActive(x) /\ OneActivates(x) /\ x \in Fees!Scopes BY <1>1, <1>10 DEF FeesInv
    <2>2. OneActive(x)' BY <1>6, <2>1 DEF OneActive
    <2>3. x = s => \A q \in Requests : ~(Activates(q) /\ ScopeOf(q) = s)
      BY <1>1, <1>10 DEF Activates, ScopeOf
    <2>4. ASSUME NEW q \in Requests, Activates(q)', ScopeOf(q)' = x
          PROVE  Fees!InScope(x, "ACTIVE")' = {}
      BY <1>1, <1>5, <1>6, <2>1, <2>4 DEF OneActivates
    <2>5. ASSUME NEW p \in Requests, NEW q \in Requests, Activates(p)', Activates(q)',
                 ScopeOf(p)' = x, ScopeOf(q)' = x
          PROVE  p = q
      BY <1>5, <2>1, <2>3, <2>5 DEF OneActivates
    <2>6. OneActivates(x)' BY <2>4, <2>5 DEF OneActivates
    <2> QED BY <2>2, <2>6
  <1> QED BY <1>1, <1>4, <1>6, <1>7, <1>8, <1>9, <1>10 DEF FeesInv

(* The write of an activation.                                             *)
LEMMA ActivationIsWritten ==
    ASSUME FeesInv, NEW c \in Requests, Fees!Activated(c)
    PROVE  FeesInv'
  <1>1. PICK d \in [id : (1..2) \cup {None}, by : Pair \cup {None}] : d = calls[c] BY DEF FeesInv
  <1>2. /\ Activates(c) /\ calls' = [calls EXCEPT ![c] = Fees!Idle]
        /\ schedules' = [schedules EXCEPT ![d.id].status = "ACTIVE", ![d.id].activatedBy = d.by]
        /\ UNCHANGED <<nowOfFees, fees, overlapped>>
    BY <1>1 DEF Fees!Activated, Activates
  <1>3. /\ d.id \in Fees!Created /\ d.by \in Pair
        /\ schedules[d.id].status = "DRAFT" /\ d.by # schedules[d.id].by
    BY <1>1, <1>2 DEF FeesInv, KeepsDraft
  <1>4. PICK old \in Fees!Schedules : old = schedules[d.id] /\ d.id \in 1..2
    BY <1>3 DEF FeesInv, Fees!Created, Fees!Ids
  <1> DEFINE row == [old EXCEPT !.status = "ACTIVE", !.activatedBy = d.by]
  <1>5. /\ row \in Fees!Schedules /\ row.scope = old.scope /\ row.by = old.by
        /\ row.rate = old.rate /\ row.version = old.version
        /\ row.status = "ACTIVE" /\ row.activatedBy = d.by
    BY <1>3 DEF Fees!Schedules, Fees!Statuses
  <1>6. schedules' = [schedules EXCEPT ![d.id] = row] BY <1>2, <1>4 DEF FeesInv
  <1> HIDE DEF row
  <1>7. /\ schedules' \in [1..2 -> Fees!Schedules \cup {None}]
        /\ Fees!Created' = Fees!Created
        /\ \A j \in 1..2 : SecondPerson(j)'
        /\ \A j \in 1..2 : j # d.id => schedules'[j] = schedules[j]
        /\ schedules'[d.id] = row
        /\ fees["trade"] # None => Explains(fees["trade"])'
    BY <1>2, <1>3, <1>4, <1>5, <1>6, SchedulesKeep
  <1>8. /\ calls' \in [Requests -> [id : (1..2) \cup {None}, by : Pair \cup {None}]]
        /\ calls'[c] = Fees!Idle /\ \A q \in Requests \ {c} : calls'[q] = calls[q]
    BY <1>2 DEF Fees!Idle, FeesInv
  <1>9. ~Activates(c)' /\ \A q \in Requests \ {c} : Activates(q)' = Activates(q)
    BY <1>8 DEF Activates
  <1>10. ASSUME NEW q \in Requests, Activates(q)'
         PROVE  /\ q # c /\ Activates(q) /\ calls'[q] = calls[q] /\ calls[q].id # d.id
                /\ calls[q].id \in 1..2 /\ calls[q].id \in Fees!Created
                /\ schedules'[calls[q].id] = schedules[calls[q].id]
    <2>1. q # c /\ Activates(q) /\ calls'[q] = calls[q] BY <1>8, <1>9, <1>10
    <2>2. calls[q].id \in Fees!Created /\ calls[q].id # d.id
      BY <1>1, <1>2, <2>1 DEF FeesInv, KeepsDraft
    <2> QED BY <1>7, <2>1, <2>2 DEF Fees!Created, Fees!Ids
  <1>11. \A q \in Requests : KeepsDraft(q)' BY <1>7, <1>10 DEF FeesInv, KeepsDraft
  <1>12. \A p, q \in Requests : Activates(p)' /\ Activates(q)' /\ calls'[p].id = calls'[q].id => p = q
    BY <1>10 DEF FeesInv
  <1>13. ASSUME NEW x \in Fees!Scopes \ overlapped PROVE OneActive(x)' /\ OneActivates(x)'
    <2>1. OneActive(x) /\ OneActivates(x) BY <1>13 DEF FeesInv
    <2>2. CASE x # old.scope
      <3>1. Fees!InScope(x, "ACTIVE")' = Fees!InScope(x, "ACTIVE")
        BY <1>4, <1>5, <1>7, <2>2 DEF Fees!InScope, Fees!Created, Fees!Ids
      <3>2. OneActive(x)' BY <2>1, <3>1 DEF OneActive
      <3>3. OneActivates(x)' BY <1>10, <2>1, <3>1 DEF OneActivates, ScopeOf
      <3> QED BY <3>2, <3>3
    <2>3. CASE x = old.scope
      <3>1. ScopeOf(c) = x BY <1>1, <1>4, <2>3 DEF ScopeOf
      <3>2. /\ Fees!InScope(x, "ACTIVE") = {}
            /\ \A q \in Requests : Activates(q) /\ ScopeOf(q) = x => q = c
        BY <1>2, <2>1, <3>1 DEF OneActivates
      <3>3. Fees!InScope(x, "ACTIVE")' \subseteq {d.id}
        BY <1>7, <3>2 DEF Fees!InScope, Fees!Created, Fees!Ids
      <3>4. OneActive(x)' BY <3>3 DEF OneActive
      <3>5. \A q \in Requests : ~(Activates(q)' /\ ScopeOf(q)' = x) BY <1>10, <3>2 DEF ScopeOf
      <3>6. OneActivates(x)' BY <3>5 DEF OneActivates
      <3> QED BY <3>4, <3>6
    <2> QED BY <2>2, <2>3
  <1>14. Fees!Created' = {} \/ (Fees!Created' = {1} /\ schedules'[1].version = 1)
         \/ Fees!Created' = {1, 2}
    BY <1>4, <1>5, <1>7 DEF FeesInv
  <1> QED BY <1>2, <1>7, <1>8, <1>11, <1>12, <1>13, <1>14 DEF FeesInv

LEMMA RetirementKeeps ==
    ASSUME FeesInv, NEW i \in Fees!Ids, NEW u \in Pair, Fees!Retire(i, u)
    PROVE  FeesInv'
  <1>1. /\ i \in Fees!Created /\ schedules[i].status = "ACTIVE"
        /\ schedules' = [schedules EXCEPT ![i].status = "RETIRED"]
        /\ UNCHANGED <<nowOfFees, fees, calls, overlapped>>
    BY DEF Fees!Retire
  <1>2. PICK old \in Fees!Schedules : old = schedules[i] /\ i \in 1..2
    BY <1>1 DEF FeesInv, Fees!Created, Fees!Ids
  <1>3. old.activatedBy \in Pair \ {old.by} BY <1>1, <1>2 DEF FeesInv, SecondPerson, Fees!Created
  <1> DEFINE row == [old EXCEPT !.status = "RETIRED"]
  <1>4. /\ row \in Fees!Schedules /\ row.scope = old.scope /\ row.by = old.by
        /\ row.rate = old.rate /\ row.version = old.version
        /\ row.status = "RETIRED" /\ row.activatedBy = old.activatedBy
    BY DEF Fees!Schedules, Fees!Statuses
  <1>5. schedules' = [schedules EXCEPT ![i] = row] BY <1>1, <1>2 DEF FeesInv
  <1> HIDE DEF row
  <1>6. /\ schedules' \in [1..2 -> Fees!Schedules \cup {None}]
        /\ Fees!Created' = Fees!Created
        /\ \A j \in 1..2 : SecondPerson(j)'
        /\ \A j \in 1..2 : j # i => schedules'[j] = schedules[j]
        /\ schedules'[i] = row
        /\ fees["trade"] # None => Explains(fees["trade"])'
    BY <1>1, <1>2, <1>3, <1>4, <1>5, SchedulesKeep
  <1>7. \A c \in Requests : Activates(c) =>
            calls[c].id \in Fees!Created' /\ schedules'[calls[c].id] = schedules[calls[c].id]
    BY <1>1, <1>6 DEF FeesInv, KeepsDraft, Fees!Created, Fees!Ids
  <1>8. \A x \in Fees!Scopes : Fees!InScope(x, "ACTIVE")' \subseteq Fees!InScope(x, "ACTIVE")
    BY <1>4, <1>6 DEF Fees!InScope, Fees!Created, Fees!Ids
  <1>9. Fees!Created' = {} \/ (Fees!Created' = {1} /\ schedules'[1].version = 1)
         \/ Fees!Created' = {1, 2}
    BY <1>2, <1>4, <1>6 DEF FeesInv
  <1> QED BY <1>1, <1>6, <1>7, <1>8, <1>9, DraftsKeep DEF FeesInv

(* The fee of a trade is that of an active schedule, or nothing.           *)
LEMMA FeesAreRecorded ==
    ASSUME FeesInv, NEW t \in {"trade"}, Fees!RecordFee(t)
    PROVE  FeesInv'
  <1>1. UNCHANGED <<schedules, nowOfFees, calls, overlapped>> BY DEF Fees!RecordFee
  <1>2. CASE fees' = fees
    BY <1>1, <1>2 DEF FeesInv, KeepsDraft, SecondPerson, Explains, OneActive, OneActivates,
       Activates, ScopeOf, Fees!Created, Fees!InScope
  <1>3. CASE fees' = [fees EXCEPT ![t] = Fees!Fee]
    <2>1. ASSUME NEW s \in Fees!Scopes, Fees!Started(s) # {}
          PROVE  /\ Fees!Latest(Fees!Started(s)) \in Fees!Created
                 /\ schedules[Fees!Latest(Fees!Started(s))].status = "ACTIVE"
      <3> DEFINE is == Fees!Started(s)
                 Last(i) == \A j \in is :
                     \/ schedules[j].from < schedules[i].from
                     \/ schedules[j].from = schedules[i].from
                        /\ schedules[j].version <= schedules[i].version
      <3>1. is \subseteq {1, 2} /\ \A i \in is : i \in Fees!Created /\ schedules[i].status = "ACTIVE"
        BY DEF Fees!Started, Fees!InScope, Fees!Created, Fees!Ids
      <3>2. \A i \in is : schedules[i].from \in Int /\ schedules[i].version \in Int
        BY <3>1 DEF FeesInv, Fees!Created, Fees!Schedules, Fees!Ids
      <3>3. \E i \in is : Last(i)
        <4> HIDE DEF is
        <4>1. CASE is = {1} BY <3>2, <4>1
        <4>2. CASE is = {2} BY <3>2, <4>2
        <4>3. CASE is = {1, 2} BY <3>2, <4>3
        <4>4. is # {} BY <2>1 DEF is
        <4> QED BY <3>1, <4>1, <4>2, <4>3, <4>4
      <3>4. Fees!Latest(is) \in is BY <3>3, Zenon DEF Fees!Latest
      <3> QED BY <3>1, <3>4
    <2>2. Fees!EffectiveSchedule = None
          \/ (/\ Fees!EffectiveSchedule \in Fees!Created
              /\ schedules[Fees!EffectiveSchedule].status = "ACTIVE")
      BY <2>1 DEF Fees!EffectiveSchedule, Fees!Scopes
    <2>3. PICK i : i = Fees!EffectiveSchedule OBVIOUS
    <2>4. i = None <=> i \notin Fees!Created
      BY <2>2, <2>3, NoneAssumption DEF Fees!Created, Fees!Ids
    <2>5. fees'["trade"] = [schedule |-> i,
                            version |-> IF i = None THEN 0 ELSE schedules[i].version,
                            rate |-> IF i = None THEN 0 ELSE schedules[i].rate]
          /\ DOMAIN fees' = {"trade"}
      BY <1>3, <2>3 DEF Fees!Fee, FeesInv
    <2>6. Explains(fees'["trade"]) BY <2>2, <2>3, <2>4, <2>5 DEF Explains
    <2>7. Explains(fees["trade"])' BY <1>1, <2>6 DEF Explains, Fees!Created
    <2> QED
      BY <1>1, <2>5, <2>7 DEF FeesInv, KeepsDraft, SecondPerson, OneActive, OneActivates,
         Activates, ScopeOf, Fees!Created, Fees!InScope
  <1> QED BY <1>2, <1>3 DEF Fees!RecordFee

LEMMA FeesRest ==
    ASSUME FeesInv, UNCHANGED <<schedules, fees, calls, overlapped>>, nowOfFees' \in {1, 2}
    PROVE  FeesInv'
  BY DEF FeesInv, KeepsDraft, SecondPerson, Explains, OneActive, OneActivates,
     Activates, ScopeOf, Fees!Created, Fees!InScope

LEMMA FeesNext == FeesInv /\ Fees!Next => FeesInv'
  <1> SUFFICES ASSUME FeesInv, Fees!Next PROVE FeesInv' OBVIOUS
  <1>1. Fees!Tick => FeesInv' BY FeesRest DEF Fees!Tick
  <1> QED BY <1>1, DraftIsNew, SearchIsRead, ActivationIsWritten, RetirementKeeps, FeesAreRecorded
      DEF Fees!Next

LEMMA FeesStutter == FeesInv /\ UNCHANGED feesVars => FeesInv'
  BY FeesRest DEF FeesInv, feesVars

-----------------------------------------------------------------------------
(* Memberships: a request that has paid found or made the payment of its   *)
(* key, at the price and in the currency it records later; a payment once  *)
(* made is never changed, and no price of a plan touches it.               *)
Payments == [currency : {1, 2}, amount : {1, 2}]
PlanCalls == [step : {None, "pay", "replace", "create"}, plan : {1, 2} \cup {None},
              price : {1, 2} \cup {None}, key : {1, 2} \cup {None},
              cancels : SUBSET Nat]
HasPaid(r) ==
    LET c == callsOfPlans[r]
    IN  /\ c.step # None => c.plan \in {1, 2} /\ c.price \in {1, 2} /\ c.key \in {1, 2}
        /\ c.step \in {"replace", "create"} =>
               payments[c.key] = [currency |-> CurrencyOfPlan[c.plan], amount |-> c.price]
Portion(x, m) == IF x # None /\ x.currency = m THEN x.amount ELSE 0
PlansInv ==
    /\ plans \in [{1, 2} -> Plans!Rows]
    /\ drafts \in [{"editor"} -> [plan : {1, 2}, row : Plans!Rows] \cup {None}]
    /\ memberships \in Seq(Plans!Subscriptions)
    /\ payments \in [{1, 2} -> Payments \cup {None}] /\ balance \in [{1, 2} -> Int]
    /\ callsOfPlans \in [Requests -> PlanCalls]
    /\ \A r \in Requests : HasPaid(r)
    /\ \A m \in {1, 2} :
           balance[m] + (Portion(payments[1], m) + Portion(payments[2], m)) = 3
    /\ \A i \in DOMAIN memberships :
           payments[memberships[i].key] = [currency |-> CurrencyOfPlan[memberships[i].plan],
                                           amount |-> memberships[i].amount_paid]

(* What the payments of a set of keys come to.                             *)
AmountOf(w, S) ==
    (CHOOSE g : g = [s \in SUBSET S |->
                        IF s = {} THEN 0
                        ELSE w[CHOOSE x \in s : TRUE].amount
                             + g[s \ {CHOOSE x \in s : TRUE}]])[S]

LEMMA AmountIsSum ==
    ASSUME NEW w, NEW S, NEW f, IsFiniteSet(S),
           \A k \in S : f[k] \in Int /\ f[k] = w[k].amount
    PROVE  AmountOf(w, S) = SumOf(f, S)
  <1> DEFINE G == CHOOSE g : g = [s \in SUBSET S |->
                        IF s = {} THEN 0
                        ELSE w[CHOOSE x \in s : TRUE].amount
                             + g[s \ {CHOOSE x \in s : TRUE}]]
  <1>1. PICK g \in [SUBSET S -> Int] :
            (\A s \in SUBSET S : Solves(g, f, s)) /\ SumOf(f, S) = g[S]
    BY SumIsSolution
  <1>2. \A s \in SUBSET S : s # {} => f[Some(s)] = w[Some(s)].amount BY SomeIsMember
  <1>3. g = [s \in SUBSET S |->
                        IF s = {} THEN 0
                        ELSE w[CHOOSE x \in s : TRUE].amount
                             + g[s \ {CHOOSE x \in s : TRUE}]]
    BY <1>1, <1>2 DEF Solves, Some
  <1>4. PICK h : /\ h = [s \in SUBSET S |->
                        IF s = {} THEN 0
                        ELSE w[CHOOSE x \in s : TRUE].amount
                             + h[s \ {CHOOSE x \in s : TRUE}]]
                 /\ AmountOf(w, S) = h[S]
    <2>1. G = [s \in SUBSET S |->
                        IF s = {} THEN 0
                        ELSE w[CHOOSE x \in s : TRUE].amount
                             + G[s \ {CHOOSE x \in s : TRUE}]]
      BY <1>3, ZenonT(30)
    <2> QED BY <2>1, Zenon DEF AmountOf
  <1>5. ASSUME NEW s \in SUBSET S PROVE Solves(h, f, s) BY <1>2, <1>4 DEF Some, Solves
  <1>6. SumOf(f, S) = h[S] BY <1>5, SumOfSubset
  <1> QED BY <1>4, <1>6

(* A sum over some of two places.                                          *)
LEMMA SumOfPair ==
    ASSUME NEW f, NEW S, S \subseteq {1, 2}, \A k \in S : f[k] \in Int
    PROVE  /\ IsFiniteSet(S)
           /\ SumOf(f, S) = (IF 1 \in S THEN f[1] ELSE 0) + (IF 2 \in S THEN f[2] ELSE 0)
  <1>1. IsFiniteSet(S)
    <2>1. PICK A : A = {1} /\ IsFiniteSet(A) BY FS_Singleton
    <2>2. IsFiniteSet(A \cup {2}) BY <2>1, FS_AddElement
    <2>3. A \cup {2} = {1, 2} BY <2>1
    <2> QED BY <2>2, <2>3, FS_Subset
  <1>2. SumOf(f, S) = (IF 1 \in S THEN f[1] ELSE 0) + (IF 2 \in S THEN f[2] ELSE 0)
    <2>1. CASE 1 \in S /\ 2 \in S
      <3>0. S \ {1} = {2}
        <4>1. \A x \in S : x # 1 => x = 2 OBVIOUS
        <4>2. 2 \in S /\ 2 # 1 BY <2>1
        <4>3. \A x : x \in S \ {1} <=> x \in {2} BY <4>1, <4>2
        <4> QED BY <4>3
      <3>1. PICK T : T = S \ {1} /\ T = {2} BY <3>0
      <3>2. SumOf(f, S) = f[1] + SumOf(f, T) BY <1>1, <2>1, <3>1, TakeOut
      <3>3. IsFiniteSet(T) /\ \A k \in T : f[k] \in Int BY <1>1, <3>1, FS_Subset
      <3>4. SumOf(f, T) = f[2] + SumOf(f, T \ {2}) BY <3>1, <3>3, TakeOut
      <3>5. SumOf(f, T \ {2}) = 0 BY <3>1, SumOfNothing
      <3>6. f[1] \in Int /\ f[2] \in Int BY <2>1
      <3> QED BY <2>1, <3>2, <3>4, <3>5, <3>6
    <2>2. CASE 1 \in S /\ 2 \notin S
      <3>1. S \ {1} = {} BY <2>2
      <3>2. SumOf(f, S) = f[1] + SumOf(f, S \ {1}) BY <1>1, <2>2, TakeOut
      <3>3. SumOf(f, S \ {1}) = 0 BY <3>1, SumOfNothing
      <3> QED BY <2>2, <3>2, <3>3
    <2>3. CASE 1 \notin S /\ 2 \in S
      <3>1. S \ {2} = {} BY <2>3
      <3>2. SumOf(f, S) = f[2] + SumOf(f, S \ {2}) BY <1>1, <2>3, TakeOut
      <3>3. SumOf(f, S \ {2}) = 0 BY <3>1, SumOfNothing
      <3> QED BY <2>3, <3>2, <3>3
    <2>4. CASE 1 \notin S /\ 2 \notin S
      <3>1. S = {} BY <2>4
      <3> QED BY <2>4, <3>1, SumOfNothing
    <2> QED BY <2>1, <2>2, <2>3, <2>4
  <1> QED BY <1>1, <1>2

LEMMA PaidIsShares ==
    ASSUME NEW w \in [{1, 2} -> Payments \cup {None}], NEW m
    PROVE  AmountOf(w, {k \in {1, 2} : w[k] # None /\ w[k].currency = m})
               = Portion(w[1], m) + Portion(w[2], m)
  <1>1. PICK S, f : /\ S = {k \in {1, 2} : w[k] # None /\ w[k].currency = m}
                    /\ f = [k \in {1, 2} |-> Portion(w[k], m)]
    OBVIOUS
  <1>2. IsFiniteSet(S)
    <2>1. S \subseteq {1, 2} /\ \A k \in S : f[k] \in Int BY <1>1 DEF Portion, Payments
    <2> QED BY <2>1, SumOfPair
  <1>3. \A k \in S : f[k] \in Int /\ f[k] = w[k].amount BY <1>1 DEF Portion, Payments
  <1>4. AmountOf(w, S) = SumOf(f, S) BY <1>2, <1>3, AmountIsSum
  <1>5. /\ S \subseteq {1, 2} /\ \A k \in S : f[k] \in Int
        /\ f[1] = Portion(w[1], m) /\ f[2] = Portion(w[2], m)
        /\ 1 \notin S => f[1] = 0
        /\ 2 \notin S => f[2] = 0
        /\ f[1] \in Int /\ f[2] \in Int
    BY <1>1 DEF Portion, Payments
  <1>6. SumOf(f, S) = f[1] + f[2] BY <1>5, SumOfPair
  <1> QED BY <1>1, <1>4, <1>5, <1>6

LEMMA PlansInvSays == PlansInv => Plans!MembershipsArePaid
  <1> SUFFICES ASSUME PlansInv PROVE Plans!MembershipsArePaid OBVIOUS
  <1>1. ASSUME NEW m \in {1, 2}
        PROVE  balance[m] + AmountOf(payments, Plans!Paid(m)) = 3
    BY PaidIsShares DEF PlansInv, Plans!Paid
  <1> QED BY <1>1 DEF PlansInv, Plans!MembershipsArePaid, AmountOf,
        Plans!MapThenSumSet, Plans!MapThenFoldSet

LEMMA PlansInit == Plans!Init => PlansInv
  <1> SUFFICES ASSUME Plans!Init PROVE PlansInv OBVIOUS
  <1>1. /\ plans \in [{1, 2} -> [status : {"ACTIVE"}, price : {1, 2}]]
        /\ memberships = <<>> /\ payments = [k \in {1, 2} |-> None]
        /\ balance = [m \in {1, 2} |-> 3]
        /\ callsOfPlans = [r \in Requests |-> Plans!Idle]
        /\ drafts = [e \in {"editor"} |-> None]
    BY DEF Plans!Init
  <1>2. plans \in [{1, 2} -> Plans!Rows] BY <1>1 DEF Plans!Rows, Plans!PlanStatus
  <1>3. Plans!Idle \in PlanCalls /\ Plans!Idle.step = None BY DEF Plans!Idle, PlanCalls
  <1>4. None \notin {"replace", "create"} BY NoneAssumption
  <1>5. \A r \in Requests : HasPaid(r) BY <1>1, <1>3, <1>4 DEF HasPaid
  <1>6. \A m \in {1, 2} : balance[m] + (Portion(payments[1], m) + Portion(payments[2], m)) = 3
    BY <1>1 DEF Portion
  <1> QED BY <1>1, <1>2, <1>3, <1>5, <1>6 DEF PlansInv

(* What a step of the fan or the staff leaves of the invariant when it     *)
(* touches neither the money nor the subscriptions.                        *)
LEMMA MoneyOfPlansRests ==
    ASSUME PlansInv, payments' = payments, balance' = balance,
           plans' \in [{1, 2} -> Plans!Rows],
           drafts' \in [{"editor"} -> [plan : {1, 2}, row : Plans!Rows] \cup {None}],
           callsOfPlans' \in [Requests -> PlanCalls], \A r \in Requests : HasPaid(r)',
           memberships' \in Seq(Plans!Subscriptions),
           \A i \in DOMAIN memberships' :
               payments[memberships'[i].key] =
                   [currency |-> CurrencyOfPlan[memberships'[i].plan],
                    amount |-> memberships'[i].amount_paid]
    PROVE  PlansInv'
  BY DEF PlansInv, Portion

(* A request that starts, moves on or ends changes what only itself did.   *)
LEMMA CallsOfPlansMove ==
    ASSUME PlansInv, NEW r \in Requests, NEW d \in PlanCalls,
           callsOfPlans' = [callsOfPlans EXCEPT ![r] = d], payments' = payments,
           d.step # None => d.plan \in {1, 2} /\ d.price \in {1, 2} /\ d.key \in {1, 2},
           d.step \in {"replace", "create"} =>
               payments[d.key] = [currency |-> CurrencyOfPlan[d.plan], amount |-> d.price]
    PROVE  /\ callsOfPlans' \in [Requests -> PlanCalls]
           /\ \A q \in Requests : HasPaid(q)'
  BY DEF PlansInv, HasPaid

LEMMA PlanIsRead ==
    ASSUME PlansInv, NEW r \in Requests, NEW p \in {1, 2}, NEW k \in {1, 2},
           Plans!Subscribe(r, p, k)
    PROVE  PlansInv'
  <1> DEFINE d == [step |-> "pay", plan |-> p, key |-> k, price |-> plans[p].price,
                   cancels |-> {}]
  <1>1. /\ callsOfPlans' = [callsOfPlans EXCEPT ![r] = d]
        /\ UNCHANGED <<memberships, payments, balance, plans, drafts>>
    BY DEF Plans!Subscribe, Plans!staff
  <1>2. d \in PlanCalls /\ d.step = "pay" /\ d.plan = p /\ d.price \in {1, 2} /\ d.key = k
    BY DEF PlansInv, Plans!Rows, PlanCalls
  <1> HIDE DEF d
  <1>3. /\ callsOfPlans' \in [Requests -> PlanCalls]
        /\ \A q \in Requests : HasPaid(q)'
    BY <1>1, <1>2, CallsOfPlansMove
  <1> QED BY <1>1, <1>3, MoneyOfPlansRests DEF PlansInv

(* The payment takes from the wallet what it records; it is made once.     *)
LEMMA PaymentIsMade ==
    ASSUME PlansInv, NEW r \in Requests, Plans!Pay(r)
    PROVE  PlansInv'
  <1>1. PICK c \in PlanCalls : c = callsOfPlans[r] BY DEF PlansInv
  <1> DEFINE m == CurrencyOfPlan[c.plan]
             payment == [currency |-> m, amount |-> c.price]
             d == [c EXCEPT !.step = "replace"]
             isNew == payments[c.key] = None
             isRefused == IF isNew THEN balance[m] < c.price ELSE payments[c.key] # payment
  <1>2. /\ c.step = "pay" /\ UNCHANGED <<memberships, plans, drafts>>
        /\ IF isRefused
           THEN /\ callsOfPlans' = [callsOfPlans EXCEPT ![r] = Plans!Idle]
                /\ UNCHANGED <<payments, balance>>
           ELSE /\ callsOfPlans' = [callsOfPlans EXCEPT ![r].step = "replace"]
                /\ IF isNew
                   THEN /\ payments' = [payments EXCEPT ![c.key] = payment]
                        /\ balance' = [balance EXCEPT ![m] = @ - c.price]
                   ELSE UNCHANGED <<payments, balance>>
    BY <1>1 DEF Plans!Pay, Plans!At, Plans!Matches, Plans!staff
  <1>3. c.plan \in {1, 2} /\ c.price \in {1, 2} /\ c.key \in {1, 2}
    <2>1. "pay" # None BY NoneAssumption
    <2> QED BY <1>1, <1>2, <2>1 DEF PlansInv, HasPaid
  <1>4. m \in {1, 2} /\ payment \in Payments /\ payment.currency = m /\ payment.amount = c.price
    BY <1>3 DEF CurrencyOfPlan, Payments
  <1>5. /\ d \in PlanCalls /\ d.step = "replace" /\ d.plan = c.plan /\ d.price = c.price
        /\ d.key = c.key
    BY DEF PlanCalls
  <1>6. ~isRefused => callsOfPlans' = [callsOfPlans EXCEPT ![r] = d] BY <1>1, <1>2 DEF PlansInv
  <1>7. CASE isRefused
    <2>1. Plans!Idle \in PlanCalls /\ Plans!Idle.step = None /\ None \notin {"replace", "create"}
      BY NoneAssumption DEF Plans!Idle, PlanCalls
    <2>2. callsOfPlans' = [callsOfPlans EXCEPT ![r] = Plans!Idle] /\ payments' = payments
      BY <1>2, <1>7
    <2>3. /\ callsOfPlans' \in [Requests -> PlanCalls]
          /\ \A q \in Requests : HasPaid(q)'
      BY <2>1, <2>2, CallsOfPlansMove
    <2> QED BY <1>2, <1>7, <2>3, MoneyOfPlansRests DEF PlansInv
  <1>8. CASE ~isRefused /\ ~isNew
    <2>1. payments[d.key] = [currency |-> CurrencyOfPlan[d.plan], amount |-> d.price] BY <1>5, <1>8
    <2>2. callsOfPlans' = [callsOfPlans EXCEPT ![r] = d] /\ payments' = payments
          /\ balance' = balance
      BY <1>2, <1>6, <1>8
    <2> HIDE DEF d
    <2>3. /\ callsOfPlans' \in [Requests -> PlanCalls]
          /\ \A q \in Requests : HasPaid(q)'
      BY <1>3, <1>5, <2>1, <2>2, CallsOfPlansMove
    <2> QED BY <1>2, <2>2, <2>3, MoneyOfPlansRests DEF PlansInv
  <1>9. CASE ~isRefused /\ isNew
    <2>1. /\ payments' = [payments EXCEPT ![c.key] = payment]
          /\ balance' = [balance EXCEPT ![m] = @ - c.price]
          /\ callsOfPlans' = [callsOfPlans EXCEPT ![r] = d]
      BY <1>2, <1>6, <1>9
    <2> HIDE DEF d, m, payment
    <2>2. /\ payments' \in [{1, 2} -> Payments \cup {None}]
          /\ payments'[c.key] = payment
          /\ \A k \in {1, 2} : k # c.key => payments'[k] = payments[k]
      BY <1>3, <1>4, <2>1 DEF PlansInv
    <2>3. /\ balance' \in [{1, 2} -> Int] /\ balance'[m] = balance[m] - c.price
          /\ \A x \in {1, 2} : x # m => balance'[x] = balance[x]
      BY <1>3, <1>4, <2>1 DEF PlansInv
    <2>4. /\ callsOfPlans' \in [Requests -> PlanCalls] /\ callsOfPlans'[r] = d
          /\ \A q \in Requests : q # r => callsOfPlans'[q] = callsOfPlans[q]
      BY <1>5, <2>1 DEF PlansInv
    <2>5. payments[c.key] = None BY <1>9
    <2>6. None \notin Payments BY NoneAssumption DEF Payments
    <2>7. ASSUME NEW q \in Requests PROVE HasPaid(q)'
      <3>1. CASE q = r BY <1>3, <1>5, <2>2, <2>4, <3>1 DEF HasPaid, payment, m
      <3>2. CASE q # r
        <4>1. callsOfPlans'[q] = callsOfPlans[q] BY <2>4, <3>2
        <4>2. PICK e \in PlanCalls : e = callsOfPlans[q] BY DEF PlansInv
        <4>3. /\ e.step # None => e.plan \in {1, 2} /\ e.price \in {1, 2} /\ e.key \in {1, 2}
              /\ e.step \in {"replace", "create"} =>
                    payments[e.key] = [currency |-> CurrencyOfPlan[e.plan], amount |-> e.price]
          BY <4>2 DEF PlansInv, HasPaid
        <4>4. ASSUME e.step \in {"replace", "create"}
              PROVE  payments'[e.key] = [currency |-> CurrencyOfPlan[e.plan], amount |-> e.price]
          <5>1. e.plan \in {1, 2} /\ e.price \in {1, 2} /\ e.key \in {1, 2}
            BY <4>3, <4>4, NoneAssumption
          <5>2. [currency |-> CurrencyOfPlan[e.plan], amount |-> e.price] \in Payments
            BY <5>1 DEF Payments, CurrencyOfPlan
          <5>3. payments[e.key] # None BY <2>6, <4>3, <4>4, <5>2
          <5> QED BY <2>2, <2>5, <4>3, <4>4, <5>1, <5>3
        <4> QED BY <4>1, <4>2, <4>3, <4>4 DEF HasPaid
      <3> QED BY <3>1, <3>2
    <2>8. ASSUME NEW x \in {1, 2}
          PROVE  balance'[x] + (Portion(payments'[1], x) + Portion(payments'[2], x)) = 3
      <3>1. balance[x] + (Portion(payments[1], x) + Portion(payments[2], x)) = 3 BY DEF PlansInv
      <3>2. Portion(payments[c.key], x) = 0 BY <2>5 DEF Portion
      <3>3. Portion(payments'[c.key], x) = IF x = m THEN c.price ELSE 0
        BY <1>4, <2>2, <2>6 DEF Portion
      <3>4. \A k \in {1, 2} : k # c.key => Portion(payments'[k], x) = Portion(payments[k], x)
        BY <2>2
      <3>5. \A k \in {1, 2} : Portion(payments[k], x) \in Int BY DEF PlansInv, Portion, Payments
      <3>6. balance[x] \in Int /\ c.price \in Int BY <1>3 DEF PlansInv
      <3>7. CASE c.key = 1 BY <2>3, <3>1, <3>2, <3>3, <3>4, <3>5, <3>6, <3>7
      <3>8. CASE c.key = 2 BY <2>3, <3>1, <3>2, <3>3, <3>4, <3>5, <3>6, <3>8
      <3> QED BY <1>3, <3>7, <3>8
    <2>9. ASSUME NEW i \in DOMAIN memberships
          PROVE  payments'[memberships[i].key] =
                     [currency |-> CurrencyOfPlan[memberships[i].plan],
                      amount |-> memberships[i].amount_paid]
      <3>1. PICK s \in Plans!Subscriptions : s = memberships[i] BY DEF PlansInv
      <3>2. payments[s.key] = [currency |-> CurrencyOfPlan[s.plan], amount |-> s.amount_paid]
        BY <3>1 DEF PlansInv
      <3>3. s.plan \in {1, 2} /\ s.key \in {1, 2} /\ s.amount_paid \in {1, 2}
        BY DEF Plans!Subscriptions
      <3>4. [currency |-> CurrencyOfPlan[s.plan], amount |-> s.amount_paid] \in Payments
        BY <3>3 DEF Payments, CurrencyOfPlan
      <3>5. payments[s.key] # None BY <2>6, <3>2, <3>4
      <3> QED BY <2>2, <2>5, <3>1, <3>2, <3>3, <3>5
    <2>10. plans' = plans /\ drafts' = drafts /\ memberships' = memberships BY <1>2
    <2> QED BY <2>2, <2>3, <2>4, <2>7, <2>8, <2>9, <2>10 DEF PlansInv
  <1> QED BY <1>7, <1>8, <1>9

LEMMA CancelsAreSeen ==
    ASSUME PlansInv, NEW r \in Requests, Plans!Replace(r)
    PROVE  PlansInv'
  <1>1. PICK c \in PlanCalls : c = callsOfPlans[r] BY DEF PlansInv
  <1> DEFINE d == [c EXCEPT !.step = "create", !.cancels = Plans!Active]
  <1>2. /\ c.step = "replace" /\ UNCHANGED <<memberships, payments, balance, plans, drafts>>
        /\ callsOfPlans' = [callsOfPlans EXCEPT ![r].step = "create",
                                                ![r].cancels = Plans!Active]
    BY <1>1 DEF Plans!Replace, Plans!At, Plans!staff
  <1>3. callsOfPlans' = [callsOfPlans EXCEPT ![r] = d] BY <1>1, <1>2 DEF PlansInv
  <1>4. Plans!Active \in SUBSET Nat BY DEF Plans!Active, PlansInv
  <1>5. /\ d \in PlanCalls /\ d.step = "create" /\ d.plan = c.plan /\ d.price = c.price
        /\ d.key = c.key
    BY <1>4 DEF PlanCalls
  <1>6. /\ c.plan \in {1, 2} /\ c.price \in {1, 2} /\ c.key \in {1, 2}
        /\ payments[c.key] = [currency |-> CurrencyOfPlan[c.plan], amount |-> c.price]
    BY <1>1, <1>2, NoneAssumption DEF PlansInv, HasPaid
  <1> HIDE DEF d
  <1>7. /\ callsOfPlans' \in [Requests -> PlanCalls]
        /\ \A q \in Requests : HasPaid(q)'
    <2>1. payments[d.key] = [currency |-> CurrencyOfPlan[d.plan], amount |-> d.price] BY <1>5, <1>6
    <2> QED BY <1>2, <1>3, <1>5, <1>6, <2>1, CallsOfPlansMove
  <1> QED BY <1>2, <1>7, MoneyOfPlansRests DEF PlansInv

(* The new membership records what its key paid; cancelling another        *)
(* changes neither its key nor its price.                                  *)
LEMMA MembershipIsMade ==
    ASSUME PlansInv, NEW r \in Requests, Plans!Create(r)
    PROVE  PlansInv'
  <1>1. PICK c \in PlanCalls : c = callsOfPlans[r] BY DEF PlansInv
  <1> DEFINE kept == [i \in DOMAIN memberships |->
                         IF i \in c.cancels THEN [memberships[i] EXCEPT !.active = FALSE]
                         ELSE memberships[i]]
             added == [plan |-> c.plan, active |-> TRUE, amount_paid |-> c.price,
                         key |-> c.key]
  <1>2. /\ c.step = "create" /\ UNCHANGED <<payments, balance, plans, drafts>>
        /\ memberships' = Append(kept, added)
        /\ callsOfPlans' = [callsOfPlans EXCEPT ![r] = Plans!Idle]
    BY <1>1 DEF Plans!Create, Plans!At, Plans!staff
  <1>3. /\ c.plan \in {1, 2} /\ c.price \in {1, 2} /\ c.key \in {1, 2}
        /\ payments[c.key] = [currency |-> CurrencyOfPlan[c.plan], amount |-> c.price]
    BY <1>1, <1>2, NoneAssumption DEF PlansInv, HasPaid
  <1>4. /\ added \in Plans!Subscriptions /\ added.plan = c.plan /\ added.key = c.key
        /\ added.amount_paid = c.price
    BY <1>3 DEF Plans!Subscriptions
  <1>5. \A i \in DOMAIN memberships :
            /\ kept[i] \in Plans!Subscriptions /\ kept[i].plan = memberships[i].plan
            /\ kept[i].key = memberships[i].key
            /\ kept[i].amount_paid = memberships[i].amount_paid
    <2> SUFFICES ASSUME NEW i \in DOMAIN memberships
                 PROVE  /\ kept[i] \in Plans!Subscriptions
                        /\ kept[i].plan = memberships[i].plan
                        /\ kept[i].key = memberships[i].key
                        /\ kept[i].amount_paid = memberships[i].amount_paid
      OBVIOUS
    <2>1. PICK s \in Plans!Subscriptions : s = memberships[i] BY DEF PlansInv
    <2>2. /\ [s EXCEPT !.active = FALSE] \in Plans!Subscriptions
          /\ [s EXCEPT !.active = FALSE].plan = s.plan
          /\ [s EXCEPT !.active = FALSE].key = s.key
          /\ [s EXCEPT !.active = FALSE].amount_paid = s.amount_paid
      BY DEF Plans!Subscriptions
    <2> QED BY <2>1, <2>2
  <1>6. PICK n \in Nat : n = Len(memberships) /\ DOMAIN memberships = 1..n BY DEF PlansInv
  <1>7. DOMAIN kept = 1..n /\ kept \in Seq(Plans!Subscriptions) /\ Len(kept) = n
    <2>1. kept \in [1..n -> Plans!Subscriptions] BY <1>5, <1>6
    <2> HIDE DEF kept
    <2> QED BY <2>1
  <1> HIDE DEF kept, added
  <1>8. /\ memberships' \in Seq(Plans!Subscriptions)
        /\ DOMAIN memberships' = 1..(n + 1) /\ memberships'[n + 1] = added
        /\ \A i \in 1..n : memberships'[i] = kept[i]
    BY <1>2, <1>4, <1>7
  <1>9. ASSUME NEW i \in DOMAIN memberships'
        PROVE  payments[memberships'[i].key] =
                   [currency |-> CurrencyOfPlan[memberships'[i].plan],
                    amount |-> memberships'[i].amount_paid]
    <2>1. CASE i = n + 1 BY <1>3, <1>4, <1>8, <2>1
    <2>2. CASE i # n + 1
      <3>1. i \in 1..n BY <1>8, <2>2
      <3>2. PICK s : s = memberships[i] /\ payments[s.key] =
                         [currency |-> CurrencyOfPlan[s.plan], amount |-> s.amount_paid]
        BY <1>6, <3>1 DEF PlansInv
      <3>3. /\ memberships'[i].plan = s.plan /\ memberships'[i].key = s.key
            /\ memberships'[i].amount_paid = s.amount_paid
        BY <1>5, <1>6, <1>8, <3>1, <3>2
      <3> QED BY <3>2, <3>3
    <2> QED BY <2>1, <2>2
  <1>10. Plans!Idle \in PlanCalls /\ Plans!Idle.step = None /\ None \notin {"replace", "create"}
    BY NoneAssumption DEF Plans!Idle, PlanCalls
  <1>11. /\ callsOfPlans' \in [Requests -> PlanCalls]
         /\ \A q \in Requests : HasPaid(q)'
    BY <1>2, <1>10, CallsOfPlansMove
  <1> QED BY <1>2, <1>8, <1>9, <1>11, MoneyOfPlansRests DEF PlansInv

LEMMA MembershipIsCancelled ==
    ASSUME PlansInv, NEW i \in DOMAIN memberships, Plans!Cancel(i)
    PROVE  PlansInv'
  <1>1. PICK s \in Plans!Subscriptions : s = memberships[i] BY DEF PlansInv
  <1> DEFINE t == [s EXCEPT !.active = FALSE]
  <1>2. /\ t \in Plans!Subscriptions /\ t.plan = s.plan /\ t.key = s.key
        /\ t.amount_paid = s.amount_paid
    BY DEF Plans!Subscriptions
  <1>3. /\ memberships' = [memberships EXCEPT ![i].active = FALSE]
        /\ UNCHANGED <<payments, balance, plans, drafts, callsOfPlans>>
    BY DEF Plans!Cancel, Plans!staff
  <1>4. memberships' = [memberships EXCEPT ![i] = t] BY <1>1, <1>3
  <1> HIDE DEF t
  <1>5. PICK n \in Nat : n = Len(memberships) /\ DOMAIN memberships = 1..n BY DEF PlansInv
  <1>6. memberships' \in Seq(Plans!Subscriptions) /\ DOMAIN memberships' = 1..n
    BY <1>2, <1>4, <1>5 DEF PlansInv
  <1>7. memberships'[i] = t /\ \A j \in 1..n : j # i => memberships'[j] = memberships[j]
    BY <1>4, <1>5
  <1>8. ASSUME NEW j \in DOMAIN memberships'
        PROVE  payments[memberships'[j].key] =
                   [currency |-> CurrencyOfPlan[memberships'[j].plan],
                    amount |-> memberships'[j].amount_paid]
    <2>1. PICK u : u = memberships[j] /\ payments[u.key] =
                       [currency |-> CurrencyOfPlan[u.plan], amount |-> u.amount_paid]
      BY <1>5, <1>6 DEF PlansInv
    <2>2. /\ memberships'[j].plan = u.plan /\ memberships'[j].key = u.key
          /\ memberships'[j].amount_paid = u.amount_paid
      BY <1>1, <1>2, <1>6, <1>7, <2>1
    <2> QED BY <2>1, <2>2
  <1>9. /\ callsOfPlans' \in [Requests -> PlanCalls]
        /\ \A q \in Requests : HasPaid(q)'
    BY <1>3 DEF PlansInv, HasPaid
  <1> QED BY <1>3, <1>6, <1>8, <1>9, MoneyOfPlansRests DEF PlansInv

(* The staff touches no money.                                             *)
LEMMA PlansAreEdited ==
    ASSUME PlansInv, Plans!Managing
    PROVE  PlansInv'
  <1> DEFINE Drafts == [plan : {1, 2}, row : Plans!Rows]
  <1>1. ASSUME UNCHANGED <<memberships, payments, balance, callsOfPlans>>,
               plans' \in [{1, 2} -> Plans!Rows],
               drafts' \in [{"editor"} -> Drafts \cup {None}]
        PROVE  PlansInv'
    BY <1>1, MoneyOfPlansRests DEF PlansInv, HasPaid
  <1>2. ASSUME NEW p \in {1, 2}, NEW s \in Plans!PlanStatus, Plans!SetStatus(p, s)
        PROVE  PlansInv'
    BY <1>1, <1>2 DEF PlansInv, Plans!Rows, Plans!SetStatus
  <1>3. ASSUME NEW e \in {"editor"}, NEW p \in {1, 2}, NEW x \in {1, 2},
               Plans!ReadPlan(e, p, x)
        PROVE  PlansInv'
    BY <1>1, <1>3 DEF PlansInv, Plans!Rows, Plans!ReadPlan
  <1>4. ASSUME NEW e \in {"editor"}, Plans!SavePlan(e)
        PROVE  PlansInv'
    BY <1>1, <1>4 DEF Plans!SavePlan, PlansInv
  <1> QED BY <1>2, <1>3, <1>4 DEF Plans!Managing

LEMMA PlansNext == PlansInv /\ Plans!Next => PlansInv'
  <1> SUFFICES ASSUME PlansInv, Plans!Next PROVE PlansInv' OBVIOUS
  <1>1. CASE Plans!Buying
    BY <1>1, PlanIsRead, PaymentIsMade, CancelsAreSeen, MembershipIsMade DEF Plans!Buying
  <1>2. CASE Plans!Cancelling BY <1>2, MembershipIsCancelled DEF Plans!Cancelling
  <1>3. CASE Plans!Managing BY <1>3, PlansAreEdited
  <1> QED BY <1>1, <1>2, <1>3 DEF Plans!Next

LEMMA PlansStutter == PlansInv /\ UNCHANGED plansVars => PlansInv'
  BY MoneyOfPlansRests DEF PlansInv, HasPaid, plansVars

-----------------------------------------------------------------------------
(* Adjustments: a request that decides holds the row of its adjustment     *)
(* from before it looks at the status, so that the adjustment still waits  *)
(* when it executes the lines; and lines are proposed that balance.        *)
AdjustmentLocked(i) == holder[<<"adjustment", i>>]
CallFields == {"op", "actor", "id", "lines", "decision", "plan"}
LinesOfCall(c) ==
    /\ c.op = "propose" => c.lines \in Corrections!Lines /\ Corrections!Sum(c.lines) = 0
    /\ c.op = "move" => c.lines \in Corrections!Lines
Corrects(r) ==
    LET c == callsOfCorrections[r]
    IN  /\ DOMAIN c = CallFields
        /\ c.op \in {"propose", "decide", "pay"} => c.actor \in Pair
        /\ LinesOfCall(c)
        /\ c.op \in {"decide", "pay"} =>
               /\ c.id = 1 /\ c.decision \in Corrections!Decisions /\ adjustments[1] # None
        /\ c.op = "decide" => \/ c.plan = << <<"adjustment", 1>> >>
                              \/ c.plan = <<>> /\ AdjustmentLocked(1) = r
        /\ c.op = "pay" => /\ AdjustmentLocked(1) = r
                           /\ adjustments[1].status = "PENDING"
                           /\ adjustments[1].by # c.actor
AdjustmentSound ==
    adjustments[1] # None =>
        /\ lines[1] \in Corrections!Lines /\ Corrections!Sum(lines[1]) = 0
        /\ adjustments[1].status # "PENDING" =>
               adjustments[1].approval \in Pair \ {adjustments[1].by}
CorrectionsInv ==
    /\ adjustments \in [{1} -> Corrections!Adjustments \cup {None}]
    /\ DOMAIN lines = {1}
    /\ entries = IF adjustments[1] # None /\ adjustments[1].status = "APPROVED"
                 THEN {1} \X DOMAIN lines[1] ELSE {}
    /\ AdjustmentSound
    /\ availableOfCorrections \in [{1, 2} -> Int] /\ moved \in [{1, 2} -> Int]
    /\ availableOfCorrections[1] + availableOfCorrections[2] = moved[1] + moved[2] + 2
    /\ holder \in [Corrections!Locks -> Requests \cup {None}]
    /\ DOMAIN callsOfCorrections = Requests
    /\ \A r \in Requests : Corrects(r)

(* What a wallet has of some lines, and what lines come to.                *)
LineOf(l, w) == IF w \in DOMAIN l THEN l[w] ELSE 0

LEMMA SignedAreIntegers == Corrections!Signed \subseteq Int
  BY DEF Corrections!Signed

LEMMA LinesAdd ==
    ASSUME NEW f, DOMAIN f \subseteq {1, 2}, \A w \in DOMAIN f : f[w] \in Int
    PROVE  Corrections!Sum(f) = LineOf(f, 1) + LineOf(f, 2)
  <1>1. Corrections!Sum(f) = SumOf(f, DOMAIN f)
    BY DEF Corrections!Sum, Corrections!MapThenSumSet, Corrections!MapThenFoldSet, SumOf, Some
  <1>2. SumOf(f, DOMAIN f) = (IF 1 \in DOMAIN f THEN f[1] ELSE 0)
                             + (IF 2 \in DOMAIN f THEN f[2] ELSE 0)
    BY SumOfPair
  <1> QED BY <1>1, <1>2 DEF LineOf

LEMMA LinesAreInteger ==
    ASSUME NEW l \in Corrections!Lines
    PROVE  /\ DOMAIN l \subseteq {1, 2} /\ \A w \in DOMAIN l : l[w] \in Int
           /\ LineOf(l, 1) \in Int /\ LineOf(l, 2) \in Int
           /\ Corrections!Sum(l) = LineOf(l, 1) + LineOf(l, 2)
  <1>1. PICK S \in SUBSET {1, 2} : l \in [S -> Corrections!Signed] BY DEF Corrections!Lines
  <1>2. DOMAIN l \subseteq {1, 2} /\ \A w \in DOMAIN l : l[w] \in Int BY <1>1, SignedAreIntegers
  <1>3. LineOf(l, 1) \in Int /\ LineOf(l, 2) \in Int BY <1>2 DEF LineOf
  <1> QED BY <1>2, <1>3, LinesAdd

LEMMA BalancesAdd ==
    ASSUME NEW f \in [{1, 2} -> Int]
    PROVE  Corrections!Sum(f) = f[1] + f[2]
  BY LinesAdd DEF LineOf

LEMMA TwoWallets == Corrections!Cardinality({1, 2}) = 2
  <1>1. PICK A : A = {1} /\ IsFiniteSet(A) /\ Cardinality(A) = 1 BY FS_Singleton
  <1>2. Cardinality(A \cup {2}) = IF 2 \in A THEN Cardinality(A) ELSE Cardinality(A) + 1
    BY <1>1, FS_AddElement
  <1>3. A \cup {2} = {1, 2} /\ 2 \notin A BY <1>1
  <1>4. Cardinality({1, 2}) = 2 BY <1>1, <1>2, <1>3
  <1>5. \A S : Corrections!Cardinality(S) = Cardinality(S)
    BY DEF Corrections!Cardinality, Cardinality
  <1> QED BY <1>4, <1>5

LEMMA CorrectionsInvSays == CorrectionsInv => Corrections!AdjustmentsBalance
  <1> SUFFICES ASSUME CorrectionsInv PROVE Corrections!AdjustmentsBalance OBVIOUS
  <1>1. Corrections!Ids = {1} /\ Corrections!Created \subseteq {1}
    BY DEF Corrections!Ids, Corrections!Created
  <1>2. ASSUME 1 \in Corrections!Created
        PROVE  /\ {e \in entries : e[1] = 1} =
                      IF adjustments[1].status = "APPROVED" THEN {1} \X DOMAIN lines[1] ELSE {}
               /\ \/ adjustments[1].status = "PENDING"
                  \/ adjustments[1].approval \in Pair \ {adjustments[1].by}
    BY <1>2 DEF Corrections!Created, CorrectionsInv, AdjustmentSound
  <1>3. Corrections!Sum(availableOfCorrections) =
            Corrections!Sum(moved) + 1 * Corrections!Cardinality({1, 2})
    BY BalancesAdd, TwoWallets DEF CorrectionsInv
  <1> QED BY <1>1, <1>2, <1>3 DEF Corrections!AdjustmentsBalance

LEMMA CorrectionsInit == Corrections!Init => CorrectionsInv
  <1> SUFFICES ASSUME Corrections!Init PROVE CorrectionsInv OBVIOUS
  <1>1. Corrections!Ids = {1} BY DEF Corrections!Ids
  <1>2. /\ adjustments = [i \in {1} |-> None] /\ lines = [i \in {1} |-> None]
        /\ entries = {}
        /\ availableOfCorrections = [w \in {1, 2} |-> 1] /\ moved = [w \in {1, 2} |-> 0]
        /\ holder = [k \in Corrections!Locks |-> None]
        /\ callsOfCorrections = [c \in Requests |-> Corrections!Idle]
    BY <1>1 DEF Corrections!Init
  <1>3. Corrections!Idle.op = None /\ DOMAIN Corrections!Idle = CallFields
    BY DEF Corrections!Idle, CallFields
  <1>4. None \notin {"propose", "decide", "pay", "move"} BY NoneAssumption
  <1>5. \A r \in Requests : Corrects(r) BY <1>2, <1>3, <1>4 DEF Corrects, LinesOfCall
  <1> QED BY <1>2, <1>5 DEF CorrectionsInv, AdjustmentSound

LEMMA AdjustmentIsRow ==
    /\ Corrections!Adjustment(1) = <<"adjustment", 1>> /\ Corrections!Ids = {1}
    /\ <<"adjustment", 1>> \in Corrections!Locks
  BY DEF Corrections!Locks, Corrections!Ids, Corrections!Adjustment

(* What another request has decided or waits for stays, whatever this one  *)
(* does to the rows it holds.                                              *)
LEMMA OthersGoOn ==
    ASSUME CorrectionsInv, NEW c \in Requests, NEW d,
           callsOfCorrections' = [callsOfCorrections EXCEPT ![c] = d],
           \A q \in Requests : q # c /\ AdjustmentLocked(1) = q => AdjustmentLocked(1)' = q,
           adjustments[1] # None => adjustments'[1] # None,
           \/ adjustments'[1] = adjustments[1]
           \/ adjustments[1] = None
           \/ AdjustmentLocked(1) = c,
           Corrects(c)'
    PROVE  DOMAIN callsOfCorrections' = Requests /\ \A q \in Requests : Corrects(q)'
  <1>1. /\ DOMAIN callsOfCorrections' = Requests
        /\ \A q \in Requests : q # c => callsOfCorrections'[q] = callsOfCorrections[q]
    BY DEF CorrectionsInv
  <1>2. ASSUME NEW q \in Requests, q # c PROVE Corrects(q)'
    BY <1>1, <1>2 DEF CorrectionsInv, Corrects
  <1> QED BY <1>1, <1>2

LEMMA CallsBegin ==
    ASSUME CorrectionsInv, NEW c \in Requests, NEW op, NEW actor, NEW id, NEW l, NEW decision,
           NEW plan, Corrections!Begin(c, op, actor, id, l, decision, plan),
           op \in {"propose", "decide", "move"},
           op \in {"propose", "decide"} => actor \in Pair,
           op \in {"propose", "move"} => l \in Corrections!Lines,
           op = "propose" => Corrections!Sum(l) = 0,
           op = "decide" => /\ id = 1 /\ decision \in Corrections!Decisions
                            /\ adjustments[1] # None /\ plan = << <<"adjustment", 1>> >>
    PROVE  CorrectionsInv'
  <1> DEFINE d == [op |-> op, actor |-> actor, id |-> id, lines |-> l,
                   decision |-> decision, plan |-> plan]
  <1>1. /\ callsOfCorrections' = [callsOfCorrections EXCEPT ![c] = d]
        /\ UNCHANGED <<adjustments, lines, entries, availableOfCorrections, moved, holder>>
    BY DEF Corrections!Begin, Corrections!rows
  <1>2. /\ DOMAIN d = CallFields /\ d.op = op /\ d.actor = actor /\ d.id = id
        /\ d.lines = l /\ d.decision = decision /\ d.plan = plan
    BY DEF CallFields
  <1> HIDE DEF d
  <1>3. callsOfCorrections'[c] = d BY <1>1 DEF CorrectionsInv
  <1>4. Corrects(c)' BY <1>1, <1>2, <1>3 DEF Corrects, LinesOfCall
  <1>5. DOMAIN callsOfCorrections' = Requests /\ \A q \in Requests : Corrects(q)'
    BY <1>1, <1>4, OthersGoOn DEF AdjustmentLocked
  <1> QED BY <1>1, <1>5 DEF CorrectionsInv, AdjustmentSound

LEMMA RequestsOfStaffBegin ==
    ASSUME CorrectionsInv, NEW c \in Requests
    PROVE  /\ \A s \in Pair, l \in Corrections!Lines :
                  Corrections!Propose(c, s, l) => CorrectionsInv'
           /\ \A s \in Pair, i \in Corrections!Ids, e \in Corrections!Decisions :
                  Corrections!Decide(c, s, i, e) => CorrectionsInv'
           /\ \A w \in {1, 2}, a \in Corrections!Signed :
                  Corrections!Move(c, w, a) => CorrectionsInv'
  <1>1. ASSUME NEW s \in Pair, NEW l \in Corrections!Lines, Corrections!Propose(c, s, l)
        PROVE  CorrectionsInv'
    BY <1>1, CallsBegin DEF Corrections!Propose, Corrections!Valid
  <1>2. ASSUME NEW s \in Pair, NEW i \in Corrections!Ids, NEW e \in Corrections!Decisions,
               Corrections!Decide(c, s, i, e)
        PROVE  CorrectionsInv'
    BY <1>2, AdjustmentIsRow, CallsBegin DEF Corrections!Decide, Corrections!Created
  <1>3. ASSUME NEW w \in {1, 2}, NEW a \in Corrections!Signed, Corrections!Move(c, w, a)
        PROVE  CorrectionsInv'
    <2>1. PICK plan : Corrections!Begin(c, "move", None, None, [v \in {w} |-> a], None, plan)
      BY <1>3 DEF Corrections!Move
    <2>2. [v \in {w} |-> a] \in Corrections!Lines
      <3>1. [v \in {w} |-> a] \in [{w} -> Corrections!Signed] /\ {w} \in SUBSET {1, 2} OBVIOUS
      <3> QED BY <3>1 DEF Corrections!Lines
    <2> QED BY <2>1, <2>2, CallsBegin
  <1> QED BY <1>1, <1>2, <1>3

(* A row is taken only when it is free.                                    *)
LEMMA RowIsTaken ==
    ASSUME CorrectionsInv, NEW c \in Requests, Corrections!Acquire(c)
    PROVE  CorrectionsInv'
  <1> DEFINE e == callsOfCorrections[c]
             d == [e EXCEPT !.plan = Tail(@)]
  <1>1. /\ e.plan # <<>> /\ holder[Head(e.plan)] \in {None, c}
        /\ holder' = [holder EXCEPT ![Head(e.plan)] = c]
        /\ callsOfCorrections' = [callsOfCorrections EXCEPT ![c].plan = Tail(@)]
        /\ UNCHANGED <<adjustments, lines, entries, availableOfCorrections, moved>>
    BY DEF Corrections!Acquire, Corrections!rows
  <1>2. callsOfCorrections' = [callsOfCorrections EXCEPT ![c] = d] BY <1>1 DEF CorrectionsInv
  <1>3. Corrects(c) BY DEF CorrectionsInv
  <1>4. /\ DOMAIN d = CallFields /\ d.op = e.op /\ d.actor = e.actor /\ d.id = e.id
        /\ d.lines = e.lines /\ d.decision = e.decision /\ d.plan = Tail(e.plan)
    BY <1>3 DEF Corrects, CallFields
  <1>5. callsOfCorrections'[c] = d BY <1>2 DEF CorrectionsInv
  <1>6. /\ holder' \in [Corrections!Locks -> Requests \cup {None}]
        /\ \A q \in Requests : q # c /\ AdjustmentLocked(1) = q => AdjustmentLocked(1)' = q
    <2>1. holder' \in [Corrections!Locks -> Requests \cup {None}] BY <1>1 DEF CorrectionsInv
    <2>2. ASSUME NEW q \in Requests, q # c, holder[<<"adjustment", 1>>] = q
          PROVE  holder'[<<"adjustment", 1>>] = q
      <3>1. q # None BY NoneAssumption
      <3>2. Head(e.plan) # <<"adjustment", 1>> BY <1>1, <2>2, <3>1
      <3> QED BY <1>1, <2>2, <3>2, AdjustmentIsRow DEF CorrectionsInv
    <2> QED BY <2>1, <2>2 DEF AdjustmentLocked
  <1>7. AdjustmentLocked(1) = c => AdjustmentLocked(1)' = c
    BY <1>1, AdjustmentIsRow DEF CorrectionsInv, AdjustmentLocked
  <1>8. ASSUME e.op = "decide"
        PROVE  d.plan = <<>> /\ AdjustmentLocked(1)' = c
    <2>1. e.plan = << <<"adjustment", 1>> >> BY <1>1, <1>3, <1>8 DEF Corrects
    <2>2. Head(e.plan) = <<"adjustment", 1>> /\ Tail(e.plan) = <<>> BY <2>1
    <2> QED BY <1>1, <1>4, <2>2, AdjustmentIsRow DEF CorrectionsInv, AdjustmentLocked
  <1> HIDE DEF d
  <1>9. Corrects(c)' BY <1>1, <1>3, <1>4, <1>5, <1>7, <1>8 DEF Corrects, LinesOfCall
  <1>10. DOMAIN callsOfCorrections' = Requests /\ \A q \in Requests : Corrects(q)'
    BY <1>1, <1>2, <1>6, <1>9, OthersGoOn
  <1> QED BY <1>1, <1>6, <1>10 DEF CorrectionsInv, AdjustmentSound

(* A request that ends gives up its rows and nothing else.                 *)
LEMMA RequestEnds ==
    ASSUME CorrectionsInv, NEW c \in Requests, Corrections!End(c),
           adjustments[1] # None => adjustments'[1] # None,
           \/ adjustments'[1] = adjustments[1]
           \/ adjustments[1] = None
           \/ AdjustmentLocked(1) = c
    PROVE  /\ holder' \in [Corrections!Locks -> Requests \cup {None}]
           /\ DOMAIN callsOfCorrections' = Requests
           /\ \A q \in Requests : Corrects(q)'
  <1>1. /\ callsOfCorrections' = [callsOfCorrections EXCEPT ![c] = Corrections!Idle]
        /\ holder' = [k \in Corrections!Locks |-> IF holder[k] = c THEN None ELSE holder[k]]
    BY DEF Corrections!End, Corrections!Release
  <1>2. holder' \in [Corrections!Locks -> Requests \cup {None}] BY <1>1 DEF CorrectionsInv
  <1>3. \A q \in Requests : q # c /\ AdjustmentLocked(1) = q => AdjustmentLocked(1)' = q
    BY <1>1, AdjustmentIsRow DEF AdjustmentLocked
  <1>4. Corrections!Idle.op = None /\ DOMAIN Corrections!Idle = CallFields
    BY DEF Corrections!Idle, CallFields
  <1>5. None \notin {"propose", "decide", "pay", "move"} BY NoneAssumption
  <1>6. callsOfCorrections'[c] = Corrections!Idle BY <1>1 DEF CorrectionsInv
  <1>7. Corrects(c)' BY <1>4, <1>5, <1>6 DEF Corrects, LinesOfCall
  <1> QED BY <1>1, <1>2, <1>3, <1>7, OthersGoOn

LEMMA LinesAreProposed ==
    ASSUME CorrectionsInv, NEW c \in Requests, Corrections!Proposed(c)
    PROVE  CorrectionsInv'
  <1> DEFINE e == callsOfCorrections[c]
             row == [by |-> e.actor, status |-> "PENDING", approval |-> None]
  <1>1. PICK i \in Corrections!Ids \ Corrections!Created :
            /\ adjustments' = [adjustments EXCEPT ![i] = row]
            /\ lines' = [lines EXCEPT ![i] = e.lines]
    BY DEF Corrections!Proposed
  <1>2. /\ e.op = "propose" /\ Corrections!End(c)
        /\ UNCHANGED <<entries, availableOfCorrections, moved>>
    BY DEF Corrections!Proposed, Corrections!Ready
  <1>3. i = 1 /\ adjustments[1] = None BY <1>1, AdjustmentIsRow DEF Corrections!Created
  <1>4. /\ e.actor \in Pair /\ e.lines \in Corrections!Lines
        /\ Corrections!Sum(e.lines) = 0
    BY <1>2 DEF CorrectionsInv, Corrects, LinesOfCall
  <1>5. row \in Corrections!Adjustments /\ row.status = "PENDING"
    BY <1>4 DEF Corrections!Adjustments
  <1>6. row # None BY <1>5, NoneAssumption
  <1> HIDE DEF row
  <1>7. /\ adjustments' \in [{1} -> Corrections!Adjustments \cup {None}]
        /\ adjustments'[1] = row /\ DOMAIN lines' = {1} /\ lines'[1] = e.lines
    BY <1>1, <1>3, <1>5 DEF CorrectionsInv
  <1>8. /\ holder' \in [Corrections!Locks -> Requests \cup {None}]
        /\ DOMAIN callsOfCorrections' = Requests
        /\ \A q \in Requests : Corrects(q)'
    BY <1>2, <1>3, RequestEnds
  <1>9. entries' = {} BY <1>2, <1>3 DEF CorrectionsInv
  <1> QED BY <1>2, <1>4, <1>5, <1>7, <1>8, <1>9 DEF CorrectionsInv, AdjustmentSound

LEMMA DecisionIsChecked ==
    ASSUME CorrectionsInv, NEW c \in Requests, Corrections!Check(c)
    PROVE  CorrectionsInv'
  <1> DEFINE e == callsOfCorrections[c]
             plan == Corrections!WalletsThenUsers(DOMAIN lines[e.id])
             d == [e EXCEPT !.op = "pay", !.plan = plan]
  <1>1. /\ e.op = "decide" /\ e.plan = <<>>
        /\ UNCHANGED <<adjustments, lines, entries, availableOfCorrections, moved>>
    BY DEF Corrections!Check, Corrections!Ready, Corrections!rows
  <1>2. Corrects(c) BY DEF CorrectionsInv
  <1>3. /\ e.actor \in Pair /\ e.id = 1 /\ e.decision \in Corrections!Decisions
        /\ adjustments[1] # None /\ AdjustmentLocked(1) = c /\ DOMAIN e = CallFields
    BY <1>1, <1>2 DEF Corrects
  <1>4. CASE Corrections!MayDecide(e.id, e.actor)
    <2>1. /\ callsOfCorrections' = [callsOfCorrections EXCEPT ![c].op = "pay", ![c].plan = plan]
          /\ UNCHANGED holder
      BY <1>4 DEF Corrections!Check
    <2>2. callsOfCorrections' = [callsOfCorrections EXCEPT ![c] = d] BY <2>1 DEF CorrectionsInv
    <2>3. /\ DOMAIN d = CallFields /\ d.op = "pay" /\ d.actor = e.actor /\ d.id = e.id
          /\ d.decision = e.decision
      BY <1>3 DEF CallFields
    <2> HIDE DEF d, plan
    <2>4. callsOfCorrections'[c] = d BY <2>2 DEF CorrectionsInv
    <2>5. adjustments[1].status = "PENDING" /\ adjustments[1].by # e.actor
      BY <1>3, <1>4 DEF Corrections!MayDecide
    <2>6. Corrects(c)'
      BY <1>1, <1>3, <2>1, <2>3, <2>4, <2>5 DEF Corrects, LinesOfCall, AdjustmentLocked
    <2>7. DOMAIN callsOfCorrections' = Requests /\ \A q \in Requests : Corrects(q)'
      BY <1>1, <2>1, <2>2, <2>6, OthersGoOn DEF AdjustmentLocked
    <2> QED BY <1>1, <2>1, <2>7 DEF CorrectionsInv, AdjustmentSound
  <1>5. CASE ~Corrections!MayDecide(e.id, e.actor)
    BY <1>1, <1>5, RequestEnds DEF Corrections!Check, CorrectionsInv, AdjustmentSound
  <1> QED BY <1>4, <1>5

(* All of the lines are executed, with the decision, or none.              *)
LEMMA DecisionIsExecuted ==
    ASSUME CorrectionsInv, NEW c \in Requests, Corrections!Decided(c)
    PROVE  CorrectionsInv'
  <1> DEFINE e == callsOfCorrections[c]
  <1>1. /\ e.op = "pay" /\ Corrections!End(c) /\ UNCHANGED <<lines, moved>>
    BY DEF Corrections!Decided, Corrections!Ready
  <1>2. Corrects(c) BY DEF CorrectionsInv
  <1>3. /\ e.actor \in Pair /\ e.id = 1 /\ e.decision \in Corrections!Decisions
        /\ adjustments[1] # None /\ AdjustmentLocked(1) = c
        /\ adjustments[1].status = "PENDING" /\ adjustments[1].by # e.actor
    BY <1>1, <1>2 DEF Corrects
  <1>4. PICK old \in Corrections!Adjustments : old = adjustments[1] BY <1>3 DEF CorrectionsInv
  <1> DEFINE row == [old EXCEPT !.status = e.decision, !.approval = e.actor]
  <1>5. /\ row \in Corrections!Adjustments /\ row.status = e.decision
        /\ row.approval = e.actor /\ row.by = old.by
    BY <1>3 DEF Corrections!Adjustments
  <1>6. entries = {} BY <1>3 DEF CorrectionsInv
  <1>7. lines[1] \in Corrections!Lines /\ Corrections!Sum(lines[1]) = 0
    BY <1>3 DEF CorrectionsInv, AdjustmentSound
  <1>8. CASE e.decision = "APPROVED" /\ ~Corrections!Covered(lines[e.id])
    BY <1>1, <1>8, RequestEnds DEF Corrections!Decided, CorrectionsInv, AdjustmentSound
  <1>9. CASE ~(e.decision = "APPROVED" /\ ~Corrections!Covered(lines[e.id]))
    <2>1. /\ adjustments' = [adjustments EXCEPT ![1].status = e.decision,
                                                ![1].approval = e.actor]
          /\ IF e.decision = "APPROVED" THEN Corrections!Execute(1)
             ELSE UNCHANGED <<availableOfCorrections, entries>>
      BY <1>3, <1>9 DEF Corrections!Decided
    <2>2. adjustments' = [adjustments EXCEPT ![1] = row] BY <1>4, <2>1 DEF CorrectionsInv
    <2> HIDE DEF row
    <2>3. /\ adjustments' \in [{1} -> Corrections!Adjustments \cup {None}]
          /\ adjustments'[1] = row /\ row # None
      BY <1>5, <2>2, NoneAssumption DEF CorrectionsInv
    <2>4. /\ holder' \in [Corrections!Locks -> Requests \cup {None}]
          /\ DOMAIN callsOfCorrections' = Requests
          /\ \A q \in Requests : Corrects(q)'
      BY <1>1, <1>3, <2>3, RequestEnds
    <2>5. AdjustmentSound' BY <1>1, <1>3, <1>4, <1>5, <1>7, <2>3 DEF AdjustmentSound
    <2>6. CASE e.decision = "APPROVED"
      <3>1. entries' = entries \cup ({1} \X DOMAIN lines[1]) BY <2>1, <2>6 DEF Corrections!Execute
      <3>2. entries' = {1} \X DOMAIN lines[1] BY <1>6, <3>1
      <3>3. availableOfCorrections' =
                [w \in {1, 2} |-> availableOfCorrections[w] + LineOf(lines[1], w)]
        BY <2>1, <2>6 DEF Corrections!Execute, LineOf
      <3>4. /\ LineOf(lines[1], 1) \in Int /\ LineOf(lines[1], 2) \in Int
            /\ LineOf(lines[1], 1) + LineOf(lines[1], 2) = 0
        BY <1>7, LinesAreInteger
      <3>5. /\ availableOfCorrections' \in [{1, 2} -> Int]
            /\ availableOfCorrections'[1] + availableOfCorrections'[2]
                   = availableOfCorrections[1] + availableOfCorrections[2]
        BY <3>3, <3>4 DEF CorrectionsInv
      <3>6. row.status = "APPROVED" BY <1>5, <2>6
      <3> QED BY <1>1, <2>3, <2>4, <2>5, <3>2, <3>5, <3>6 DEF CorrectionsInv
    <2>7. CASE e.decision # "APPROVED"
      <3>1. UNCHANGED <<availableOfCorrections, entries>> /\ row.status # "APPROVED"
        BY <1>5, <2>1, <2>7
      <3> QED BY <1>1, <1>6, <2>3, <2>4, <2>5, <3>1 DEF CorrectionsInv
    <2> QED BY <2>6, <2>7
  <1> QED BY <1>8, <1>9

(* What another service moves is counted beside.                           *)
LEMMA OthersMove ==
    ASSUME CorrectionsInv, NEW c \in Requests, Corrections!Moved(c)
    PROVE  CorrectionsInv'
  <1> DEFINE l == callsOfCorrections[c].lines
  <1>1. /\ callsOfCorrections[c].op = "move" /\ Corrections!End(c)
        /\ UNCHANGED <<adjustments, lines, entries>>
    BY DEF Corrections!Moved, Corrections!Ready
  <1>2. l \in Corrections!Lines BY <1>1 DEF CorrectionsInv, Corrects, LinesOfCall
  <1>3. /\ holder' \in [Corrections!Locks -> Requests \cup {None}]
        /\ DOMAIN callsOfCorrections' = Requests
        /\ \A q \in Requests : Corrects(q)'
    BY <1>1, RequestEnds
  <1>4. /\ availableOfCorrections' \in [{1, 2} -> Int] /\ moved' \in [{1, 2} -> Int]
        /\ availableOfCorrections'[1] + availableOfCorrections'[2]
               = moved'[1] + moved'[2] + 2
    <2>1. CASE Corrections!Covered(l)
      <3>1. /\ availableOfCorrections' = [w \in {1, 2} |->
                   IF w \in DOMAIN l THEN availableOfCorrections[w] + l[w]
                   ELSE availableOfCorrections[w]]
            /\ moved' = [w \in {1, 2} |->
                   IF w \in DOMAIN l THEN moved[w] + l[w] ELSE moved[w]]
        BY <2>1 DEF Corrections!Moved
      <3>2. LineOf(l, 1) \in Int /\ LineOf(l, 2) \in Int BY <1>2, LinesAreInteger
      <3>3. \A w \in {1, 2} : /\ availableOfCorrections'[w]
                                     = availableOfCorrections[w] + LineOf(l, w)
                              /\ moved'[w] = moved[w] + LineOf(l, w)
        BY <3>1 DEF CorrectionsInv, LineOf
      <3>4. \A w \in {1, 2} : availableOfCorrections[w] \in Int /\ moved[w] \in Int
        BY DEF CorrectionsInv
      <3>5. DOMAIN availableOfCorrections' = {1, 2} /\ DOMAIN moved' = {1, 2} BY <3>1
      <3>6. /\ availableOfCorrections' \in [{1, 2} -> Int] /\ moved' \in [{1, 2} -> Int]
        BY <3>1, <3>2, <3>3, <3>4
      <3>7. availableOfCorrections'[1] + availableOfCorrections'[2]
                = moved'[1] + moved'[2] + 2
        <4>1. availableOfCorrections[1] + availableOfCorrections[2] = moved[1] + moved[2] + 2
          BY DEF CorrectionsInv
        <4> HIDE DEF l
        <4> QED BY <3>2, <3>3, <3>4, <4>1
      <3> QED BY <3>6, <3>7
    <2>2. CASE ~Corrections!Covered(l) BY <2>2 DEF Corrections!Moved, CorrectionsInv
    <2> QED BY <2>1, <2>2
  <1> QED BY <1>1, <1>3, <1>4 DEF CorrectionsInv, AdjustmentSound

LEMMA WaitIsBroken ==
    ASSUME CorrectionsInv, NEW c \in Requests, Corrections!Victim(c)
    PROVE  CorrectionsInv'
  BY RequestEnds DEF Corrections!Victim, CorrectionsInv, AdjustmentSound

LEMMA CorrectionsNext == CorrectionsInv /\ Corrections!Next => CorrectionsInv'
  <1> SUFFICES ASSUME CorrectionsInv, Corrections!Next PROVE CorrectionsInv' OBVIOUS
  <1>1. PICK c \in Requests :
            \/ \E s \in Pair, l \in Corrections!Lines : Corrections!Propose(c, s, l)
            \/ \E s \in Pair, i \in Corrections!Ids, e \in Corrections!Decisions :
                   Corrections!Decide(c, s, i, e)
            \/ \E w \in {1, 2}, a \in Corrections!Signed : Corrections!Move(c, w, a)
            \/ Corrections!Progress(c)
    BY DEF Corrections!Next
  <1>2. CASE Corrections!Progress(c)
    BY <1>2, RowIsTaken, LinesAreProposed, DecisionIsChecked, DecisionIsExecuted, OthersMove,
       WaitIsBroken DEF Corrections!Progress
  <1> QED BY <1>1, <1>2, RequestsOfStaffBegin

LEMMA CorrectionsStutter == CorrectionsInv /\ UNCHANGED correctionsVars => CorrectionsInv'
  <1> SUFFICES ASSUME CorrectionsInv, UNCHANGED correctionsVars PROVE CorrectionsInv' OBVIOUS
  <1>1. \A q \in Requests : Corrects(q)'
    BY DEF CorrectionsInv, Corrects, LinesOfCall, AdjustmentLocked, correctionsVars
  <1> QED BY <1>1 DEF CorrectionsInv, AdjustmentSound, correctionsVars

-----------------------------------------------------------------------------
(* Reconciliation: what each comparison finds is what was changed behind   *)
(* the services' back, none of whose transactions changes it; and a run    *)
(* during which nothing is written has found so far what its comparisons   *)
(* find of the books as they are.                                          *)
OrderRows == [status : {"OPEN", "PARTIALLY_FILLED", "FILLED", "CANCELLED"}, filled : 0..2]
MaybeOrder == OrderRows \cup {None}
BoughtRows == [quantity : Int, cost : Int]
SoldRows == [quantity : Int, reserved : Int]
FinalRows == [kind : {None, "SETTLEMENT", "REFUND"}, fees : Int, credits : Int]
LineStates == {None, "PENDING", "APPROVED", "REJECTED"}
BookRows ==
    [buy : MaybeOrder, sell : MaybeOrder, reserved : Int, releases : Int,
     bought : BoughtRows, sold : SoldRows, fills : Int, fees : Int, debits : Int,
     credits : Int, final : FinalRows, line : LineStates, lineEntries : Int]

(* What was changed of the reservations, of the entries of fills, of the   *)
(* final payment and of the adjustment.                                    *)
ReservedAside(b) == b.reserved - Books!Remaining(b.buy)
SharesAside(b) == b.sold.reserved - Books!Remaining(b.sell)
FeesAside(b) == 2 * b.fills - b.fees
CreditsAside(b) == b.fills - b.credits
FinalAside(b) == IF b.final.kind = None THEN 0 ELSE b.final.credits - 1
LineAside(b) == IF b.line = "REJECTED" THEN b.lineEntries ELSE 0

Asides(b, t) ==
    /\ ReservedAside(b) \in {0, 1} /\ SharesAside(b) \in {0, 1} /\ FeesAside(b) \in {0, 1}
    /\ CreditsAside(b) \in {0, 1} /\ FinalAside(b) \in {0, 1} /\ LineAside(b) \in {0, 1}
    /\ ReservedAside(b) + SharesAside(b) + FeesAside(b) + CreditsAside(b)
           + FinalAside(b) + LineAside(b) = t
Bookkept(b) ==
    /\ b.buy = None => ReservedAside(b) = 0 /\ b.bought.quantity = 0
    /\ b.buy # None => b.bought.quantity <= b.buy.filled
    /\ b.sell = None => SharesAside(b) = 0 /\ b.sold.quantity = 2
    /\ b.sell # None => b.sold.quantity = (IF b.final.kind = None THEN 2 - b.sell.filled ELSE 0)
    /\ b.bought.quantity \in 0..2 /\ b.bought.cost = b.bought.quantity
    /\ b.debits = b.fills
    /\ b.releases = IF b.buy # None /\ b.buy.status = "CANCELLED" THEN 1 ELSE 0
    /\ b.final.kind # None =>
           /\ b.final.fees = 1 /\ b.buy # None /\ b.sell # None
           /\ b.buy.status \in {"FILLED", "CANCELLED"}
           /\ b.sell.status \in {"FILLED", "CANCELLED"}
    /\ b.line \in {None, "PENDING"} => b.lineEntries = 0
    /\ b.line = "APPROVED" => b.lineEntries = 1
Clean(k, b) ==
    Books!Agrees(Books!Checks[k], Books!First(Books!Checks[k], b), b)

LEMMA RemainingIs ==
    ASSUME NEW o \in MaybeOrder
    PROVE  /\ Books!Remaining(o) \in 0..2
           /\ o = None => Books!Remaining(o) = 0
           /\ o # None => Books!Remaining(o) =
                  IF o.status \in {"OPEN", "PARTIALLY_FILLED"} THEN 2 - o.filled ELSE 0
  BY DEF Books!Remaining, Books!Active, OrderRows, MaybeOrder

LEMMA OrdersAreRows ==
    None \notin OrderRows
  BY NoneAssumption DEF OrderRows

(* What each comparison finds of the books as they are.                    *)
LEMMA ComparisonsOfOrders ==
    ASSUME NEW b \in BookRows, Bookkept(b), NEW t, Asides(b, t)
    PROVE  /\ Clean(1, b) /\ Clean(5, b)
           /\ Clean(2, b) /\ Clean(3, b) <=> ReservedAside(b) = 0
           /\ Clean(4, b) <=> SharesAside(b) = 0
  <1>1. PICK o \in MaybeOrder : o = b.buy BY DEF BookRows
  <1>2. PICK s \in MaybeOrder : s = b.sell BY DEF BookRows
  <1>3. b.reserved \in Int /\ b.releases \in Int /\ b.sold.reserved \in Int
    BY DEF BookRows, SoldRows
  <1>4. /\ ReservedAside(b) = b.reserved - Books!Remaining(o)
        /\ SharesAside(b) = b.sold.reserved - Books!Remaining(s)
    BY <1>1, <1>2 DEF ReservedAside, SharesAside
  <1>5. Clean(1, b) <=> \A x \in {o, s} : x = None \/ x.filled <= 2
    BY <1>1, <1>2 DEF Clean, Books!Agrees, Books!First, Books!Checks
  <1>6. Clean(2, b) <=> o = None \/ o.status \notin Books!Active
                        \/ b.reserved = Books!Remaining(o)
    BY <1>1 DEF Clean, Books!Agrees, Books!First, Books!Checks, Books!Orders
  <1>7. Clean(3, b) <=> o = None \/ o.status \in Books!Active \/ b.reserved = 0
    BY <1>1 DEF Clean, Books!Agrees, Books!First, Books!Checks, Books!Orders
  <1>8. Clean(4, b) <=> s = None \/ b.sold.reserved = Books!Remaining(s)
    BY <1>2 DEF Clean, Books!Agrees, Books!First, Books!Checks, Books!Orders
  <1>9. Clean(5, b) <=> o = None \/ o.status \in Books!Active \/ b.releases <= 1
    BY <1>1 DEF Clean, Books!Agrees, Books!First, Books!Checks, Books!Orders
  <1>10. Clean(1, b) BY <1>5 DEF MaybeOrder, OrderRows
  <1>11. Clean(5, b) BY <1>9 DEF Bookkept
  <1>12. Clean(2, b) /\ Clean(3, b) <=> ReservedAside(b) = 0
    <2>1. o = None => ReservedAside(b) = 0 BY <1>1 DEF Bookkept
    <2>2. /\ Books!Remaining(o) \in Int
          /\ o # None /\ o.status \notin Books!Active => Books!Remaining(o) = 0
      BY RemainingIs DEF Books!Remaining
    <2> QED BY <1>3, <1>4, <1>6, <1>7, <2>1, <2>2
  <1>13. Clean(4, b) <=> SharesAside(b) = 0
    <2>1. s = None => SharesAside(b) = 0 BY <1>2 DEF Bookkept
    <2>2. Books!Remaining(s) \in Int BY RemainingIs
    <2> QED BY <1>3, <1>4, <1>8, <2>1, <2>2
  <1> QED BY <1>10, <1>11, <1>12, <1>13

LEMMA ComparisonsOfEntries ==
    ASSUME NEW b \in BookRows, Bookkept(b), NEW t, Asides(b, t)
    PROVE  /\ Clean(6, b) <=> FeesAside(b) = 0 /\ CreditsAside(b) = 0
           /\ Clean(7, b) <=> FinalAside(b) = 0
           /\ Clean(8, b) <=> LineAside(b) = 0
           /\ SharesAside(b) = 0 => Clean(9, b)
  <1>1. /\ b.fills \in Int /\ b.fees \in Int /\ b.credits \in Int /\ b.debits \in Int
        /\ b.lineEntries \in Int /\ b.final.credits \in Int /\ b.final.fees \in Int
    BY DEF BookRows, FinalRows
  <1>2. Clean(6, b) <=> FeesAside(b) = 0 /\ CreditsAside(b) = 0
    <2>1. Clean(6, b) <=> b.fees = 2 * b.fills /\ b.debits = b.fills /\ b.credits = b.fills
      BY DEF Clean, Books!Agrees, Books!First, Books!Checks, Books!Fills, Books!FillFees,
             Books!FillWallets
    <2>2. b.debits = b.fills BY DEF Bookkept
    <2> QED BY <1>1, <2>1, <2>2 DEF FeesAside, CreditsAside
  <1>3. Clean(7, b) <=> FinalAside(b) = 0
    <2>1. Clean(7, b) <=>
              (b.final.kind # None => Books!Settlements(b) /\ Books!Refunds(b))
      BY DEF Clean, Books!Agrees, Books!First, Books!Checks
    <2>2. b.final.kind \in {None, "SETTLEMENT", "REFUND"} BY DEF BookRows, FinalRows
    <2>3. b.final.kind # None => b.final.fees = 1 BY DEF Bookkept
    <2> QED BY <1>1, <2>1, <2>2, <2>3
          DEF FinalAside, Books!Settlements, Books!Refunds, Books!FinalFees
  <1>4. Clean(8, b) <=> LineAside(b) = 0
    <2>1. Clean(8, b) <=>
              (b.line # None => b.lineEntries = (IF b.line = "APPROVED" THEN 1 ELSE 0))
      BY DEF Clean, Books!Agrees, Books!First, Books!Checks, Books!Adjustments
    <2>2. b.line \in {None, "PENDING", "APPROVED", "REJECTED"} BY DEF BookRows, LineStates
    <2>3. /\ b.line \in {None, "PENDING"} => b.lineEntries = 0
          /\ b.line = "APPROVED" => b.lineEntries = 1
      BY DEF Bookkept
    <2> QED BY <2>1, <2>2, <2>3 DEF LineAside
  <1>5. ASSUME SharesAside(b) = 0 PROVE Clean(9, b)
    <2>1. PICK p, s : p = b.bought /\ s = b.sold OBVIOUS
    <2>2. /\ p.quantity \in 0..2 /\ p.cost = p.quantity
          /\ s.quantity \in Int /\ s.reserved \in Int
      BY <2>1 DEF Bookkept, BookRows, BoughtRows, SoldRows
    <2>3. Clean(9, b) <=> /\ p.quantity >= 0 /\ Books!CostExplained(p)
                          /\ s.quantity >= 0 /\ s.reserved \in 0..s.quantity
      BY <2>1 DEF Clean, Books!Agrees, Books!First, Books!Checks, Books!Positions
    <2>4. Books!CostExplained(p) BY <2>2 DEF Books!CostExplained, Books!Average, Books!Round
    <2>5. PICK o \in MaybeOrder : o = b.sell BY DEF BookRows
    <2>6. s.reserved = Books!Remaining(o) /\ Books!Remaining(o) \in 0..2
      BY <1>5, <2>1, <2>2, <2>5, RemainingIs DEF SharesAside
    <2>7. s.quantity >= 0 /\ Books!Remaining(o) <= s.quantity
      <3>1. CASE o = None BY <2>1, <2>5, <3>1, RemainingIs DEF Bookkept
      <3>2. CASE o # None
        <4>1. o.filled \in 0..2 BY <3>2 DEF OrderRows, MaybeOrder
        <4>2. s.quantity = IF b.final.kind = None THEN 2 - o.filled ELSE 0
          BY <2>1, <2>5, <3>2 DEF Bookkept
        <4>3. Books!Remaining(o) = IF o.status \in {"OPEN", "PARTIALLY_FILLED"}
                                   THEN 2 - o.filled ELSE 0
          BY <3>2, RemainingIs
        <4>4. b.final.kind # None => o.status \in {"FILLED", "CANCELLED"} BY <2>5 DEF Bookkept
        <4>5. b.final.kind # None => Books!Remaining(o) = 0 BY <4>3, <4>4
        <4> QED BY <4>1, <4>2, <4>3, <4>5
      <3> QED BY <3>1, <3>2
    <2> QED BY <2>2, <2>3, <2>4, <2>6, <2>7
  <1> QED BY <1>2, <1>3, <1>4, <1>5

LEMMA ComparisonsFindAsides ==
    ASSUME NEW b \in BookRows, Bookkept(b), NEW t, Asides(b, t)
    PROVE  (\E k \in 1..9 : ~Clean(k, b)) <=> t > 0
  <1>1. CASE t = 0 BY <1>1, ComparisonsOfOrders, ComparisonsOfEntries DEF Asides
  <1>2. CASE t # 0 BY <1>2, ComparisonsOfOrders, ComparisonsOfEntries DEF Asides
  <1> QED BY <1>1, <1>2

(* What a run has found and read of books that nothing disturbs.           *)
RunRows == {"status", "mismatches", "tampered"}
CallerSound ==
    LET k == callers["caller"]
    IN  /\ DOMAIN k = {"scope", "next", "read", "found"}
        /\ k.scope \in {"market", None} /\ k.next \in 0..10
        /\ k.next = 0 => k.read = None /\ k.found = {}
        /\ k.next > 0 => k.scope = "market" /\ DOMAIN runs["market"] = RunRows
        /\ "market" \notin disturbed /\ k.next > 0 =>
               /\ k.read # None => k.read.value = Books!First(Books!Checks[k.next], books)
               /\ k.found # {} <=> \E j \in 1..(k.next - 1) : ~Clean(j, books)
RunSound ==
    "market" \notin disturbed /\ runs["market"] # None /\ runs["market"].status = "COMPLETED" =>
        (runs["market"].mismatches # {} <=> runs["market"].tampered > 0)
BooksInv ==
    /\ books \in BookRows /\ Bookkept(books)
    /\ tampered \in {0, 1} /\ Asides(books, tampered)
    /\ DOMAIN runs = {"market"} /\ DOMAIN callers = {"caller"}
    /\ CallerSound /\ RunSound

LEMMA BooksInvSays == BooksInv => Books!ReportsAreTrue
  BY DEF BooksInv, RunSound, Books!ReportsAreTrue

LEMMA BooksInit == Books!Init => BooksInv
  <1> SUFFICES ASSUME Books!Init PROVE BooksInv OBVIOUS
  <1>1. PICK b : b = books OBVIOUS
  <1>2. /\ b = [buy |-> None, sell |-> None, reserved |-> 0, releases |-> 0,
                bought |-> [quantity |-> 0, cost |-> 0],
                sold |-> [quantity |-> 2, reserved |-> 0],
                fills |-> 0, fees |-> 0, debits |-> 0, credits |-> 0,
                final |-> [kind |-> None, fees |-> 0, credits |-> 0],
                line |-> None, lineEntries |-> 0]
        /\ tampered = 0 /\ disturbed = {} /\ runs = [s \in {"market"} |-> None]
        /\ callers = [c \in {"caller"} |-> Books!Idle]
    BY <1>1 DEF Books!Init
  <1>3. b \in BookRows
    <2>1. /\ None \in MaybeOrder /\ None \in LineStates
          /\ [quantity |-> 0, cost |-> 0] \in BoughtRows
          /\ [quantity |-> 2, reserved |-> 0] \in SoldRows
          /\ [kind |-> None, fees |-> 0, credits |-> 0] \in FinalRows
      BY DEF MaybeOrder, LineStates, BoughtRows, SoldRows, FinalRows
    <2> QED BY <1>2, <2>1 DEF BookRows
  <1>4. /\ b.buy = None /\ b.sell = None /\ b.reserved = 0 /\ b.releases = 0
        /\ b.bought.quantity = 0 /\ b.bought.cost = 0 /\ b.sold.quantity = 2
        /\ b.sold.reserved = 0 /\ b.fills = 0 /\ b.fees = 0 /\ b.debits = 0
        /\ b.credits = 0 /\ b.final.kind = None /\ b.line = None /\ b.lineEntries = 0
    BY <1>2
  <1>5. Books!Remaining(None) = 0 BY RemainingIs DEF MaybeOrder
  <1>6. None \notin {"APPROVED", "REJECTED"} BY NoneAssumption
  <1>7. /\ ReservedAside(b) = 0 /\ SharesAside(b) = 0 /\ FeesAside(b) = 0
        /\ CreditsAside(b) = 0 /\ FinalAside(b) = 0 /\ LineAside(b) = 0
    BY <1>4, <1>5, <1>6
       DEF ReservedAside, SharesAside, FeesAside, CreditsAside, FinalAside, LineAside
  <1>8. Bookkept(b) BY <1>4, <1>6, <1>7 DEF Bookkept
  <1>9. Asides(b, 0) BY <1>7 DEF Asides
  <1>10. Books!Idle = [scope |-> None, next |-> 0, read |-> None, found |-> {}] BY DEF Books!Idle
  <1>11. PICK k : k = callers["caller"] /\ k = Books!Idle BY <1>2
  <1>12. /\ DOMAIN k = {"scope", "next", "read", "found"}
         /\ k.scope = None /\ k.next = 0 /\ k.read = None /\ k.found = {}
    BY <1>10, <1>11
  <1>13. CallerSound BY <1>11, <1>12 DEF CallerSound
  <1>14. RunSound BY <1>2 DEF RunSound
  <1> QED BY <1>1, <1>2, <1>3, <1>8, <1>9, <1>13, <1>14 DEF BooksInv

(* A write during a run disturbs it.                                       *)
LEMMA BooksAreWritten ==
    ASSUME BooksInv, NEW b \in BookRows, Bookkept(b), tampered' \in {0, 1},
           Asides(b, tampered'), Books!Write(b)
    PROVE  BooksInv'
  <1>1. /\ books' = b /\ disturbed' = disturbed \cup Books!Reading
        /\ UNCHANGED <<runs, callers>>
    BY DEF Books!Write
  <1>2. callers["caller"].next > 0 => "market" \in disturbed'
    BY <1>1 DEF BooksInv, CallerSound, Books!Reading
  <1>3. CallerSound' BY <1>1, <1>2 DEF BooksInv, CallerSound
  <1>4. RunSound' BY <1>1 DEF BooksInv, RunSound
  <1> QED BY <1>1, <1>3, <1>4 DEF BooksInv

LEMMA NewOrder ==
    /\ Books!Order \in MaybeOrder /\ Books!Order # None
    /\ Books!Order.status = "OPEN" /\ Books!Order.filled = 0
  BY OrdersAreRows DEF Books!Order, OrderRows, MaybeOrder

(* No transaction of the services moves anything aside.                    *)
LEMMA BuyIsPlaced ==
    ASSUME BooksInv, Books!PlaceBuy
    PROVE  BooksInv'
  <1>1. PICK b \in BookRows : b = books /\ Bookkept(b) /\ Asides(b, tampered) BY DEF BooksInv
  <1>2. /\ b.buy = None
        /\ tampered' = tampered
        /\ Books!Write([b EXCEPT !.buy = Books!Order, !.reserved = 2])
    BY <1>1 DEF Books!PlaceBuy, Books!Commit
  <1>3. PICK x \in MaybeOrder, y \in Int :
            /\ x = Books!Order /\ x # None /\ x.status = "OPEN" /\ x.filled = 0
            /\ y = 2
    BY NewOrder
  <1> DEFINE n == [b EXCEPT !.buy = x, !.reserved = y]
  <1>4. n \in BookRows /\ Books!Write(n) BY <1>2, <1>3 DEF BookRows
  <1>5. /\ n.buy = x /\ n.reserved = y /\ n.sell = b.sell /\ n.releases = b.releases
        /\ n.bought = b.bought /\ n.sold = b.sold /\ n.fills = b.fills /\ n.fees = b.fees
        /\ n.debits = b.debits /\ n.credits = b.credits /\ n.final = b.final /\ n.line = b.line
        /\ n.lineEntries = b.lineEntries
    BY DEF BookRows
  <1> HIDE DEF n
  <1>6. /\ SharesAside(n) = SharesAside(b) /\ FeesAside(n) = FeesAside(b)
        /\ CreditsAside(n) = CreditsAside(b) /\ FinalAside(n) = FinalAside(b)
        /\ LineAside(n) = LineAside(b)
    BY <1>5 DEF SharesAside, FeesAside, CreditsAside, FinalAside, LineAside
  <1>7. ReservedAside(n) = ReservedAside(b)
    <2>1. Books!Remaining(x) = 2 BY <1>3, RemainingIs
    <2> QED BY <1>1, <1>2, <1>3, <1>5, <2>1 DEF ReservedAside, Bookkept
  <1>8. Asides(n, tampered) BY <1>1, <1>6, <1>7 DEF Asides
  <1>9. Bookkept(n) BY <1>1, <1>2, <1>3, <1>5, <1>6, <1>7 DEF Bookkept
  <1>10. tampered' \in {0, 1} /\ tampered' = tampered BY <1>2 DEF BooksInv
  <1> QED BY <1>4, <1>8, <1>9, <1>10, BooksAreWritten

LEMMA SellIsPlaced ==
    ASSUME BooksInv, Books!PlaceSell
    PROVE  BooksInv'
  <1>1. PICK b \in BookRows : b = books /\ Bookkept(b) /\ Asides(b, tampered) BY DEF BooksInv
  <1>2. /\ b.sell = None
        /\ tampered' = tampered
        /\ Books!Write([b EXCEPT !.sell = Books!Order, !.sold.reserved = 2])
    BY <1>1 DEF Books!PlaceSell, Books!Commit
  <1>3. PICK x \in MaybeOrder, y \in SoldRows :
            /\ x = Books!Order /\ x # None /\ x.status = "OPEN" /\ x.filled = 0
            /\ y = [b.sold EXCEPT !.reserved = 2]
            /\ y.reserved = 2 /\ y.quantity = b.sold.quantity
    <2>1. PICK s \in SoldRows : s = b.sold BY DEF BookRows
    <2>2. PICK y : y = [s EXCEPT !.reserved = 2] OBVIOUS
    <2>3. y \in SoldRows /\ y.reserved = 2 /\ y.quantity = s.quantity BY <2>2 DEF SoldRows
    <2> QED BY <2>1, <2>2, <2>3, NewOrder
  <1> DEFINE n == [b EXCEPT !.sell = x, !.sold = y]
  <1>4. n \in BookRows /\ Books!Write(n) BY <1>2, <1>3 DEF BookRows
  <1>5. /\ n.sell = x /\ n.sold = y /\ n.buy = b.buy /\ n.reserved = b.reserved
        /\ n.releases = b.releases /\ n.bought = b.bought /\ n.fills = b.fills /\ n.fees = b.fees
        /\ n.debits = b.debits /\ n.credits = b.credits /\ n.final = b.final /\ n.line = b.line
        /\ n.lineEntries = b.lineEntries
    BY DEF BookRows
  <1> HIDE DEF n
  <1>6. /\ ReservedAside(n) = ReservedAside(b) /\ FeesAside(n) = FeesAside(b)
        /\ CreditsAside(n) = CreditsAside(b) /\ FinalAside(n) = FinalAside(b)
        /\ LineAside(n) = LineAside(b)
    BY <1>5 DEF ReservedAside, FeesAside, CreditsAside, FinalAside, LineAside
  <1>7. SharesAside(n) = SharesAside(b)
    <2>1. Books!Remaining(x) = 2 BY <1>3, RemainingIs
    <2> QED BY <1>1, <1>2, <1>3, <1>5, <2>1 DEF SharesAside, Bookkept
  <1>8. Asides(n, tampered) BY <1>1, <1>6, <1>7 DEF Asides
  <1>9. Bookkept(n) BY <1>1, <1>2, <1>3, <1>5, <1>6, <1>7 DEF Bookkept
  <1>10. tampered' \in {0, 1} /\ tampered' = tampered BY <1>2 DEF BooksInv
  <1> QED BY <1>4, <1>8, <1>9, <1>10, BooksAreWritten

LEMMA BuyIsCancelled ==
    ASSUME BooksInv, Books!CancelBuy
    PROVE  BooksInv'
  <1>1. PICK b \in BookRows : b = books /\ Bookkept(b) /\ Asides(b, tampered) BY DEF BooksInv
  <1>2. /\ b.buy # None /\ b.buy.status \in Books!Active
        /\ tampered' = tampered
        /\ Books!Write([b EXCEPT !.buy.status = "CANCELLED", !.releases = @ + 1,
                                 !.reserved = @ - (2 - b.buy.filled)])
    BY <1>1 DEF Books!CancelBuy, Books!Commit
  <1>3. PICK o \in OrderRows, x \in MaybeOrder, y \in Int, z \in Int :
            /\ o = b.buy /\ o # None
            /\ x = [o EXCEPT !.status = "CANCELLED"] /\ x # None
            /\ x.status = "CANCELLED" /\ x.filled = o.filled
            /\ y = b.reserved - (2 - o.filled) /\ z = b.releases + 1
    <2>1. PICK o \in OrderRows : o = b.buy /\ o # None
      BY <1>2, OrdersAreRows DEF BookRows, MaybeOrder
    <2>2. PICK x : x = [o EXCEPT !.status = "CANCELLED"] OBVIOUS
    <2>3. x \in OrderRows /\ x.status = "CANCELLED" /\ x.filled = o.filled BY <2>2 DEF OrderRows
    <2>4. x \in MaybeOrder /\ x # None /\ o.filled \in Int
      BY <2>3, OrdersAreRows DEF MaybeOrder, OrderRows
    <2>5. b.reserved - (2 - o.filled) \in Int /\ b.releases + 1 \in Int BY <2>4 DEF BookRows
    <2> QED BY <2>1, <2>2, <2>3, <2>4, <2>5
  <1> DEFINE n == [b EXCEPT !.buy = x, !.reserved = y, !.releases = z]
  <1>4. n \in BookRows /\ Books!Write(n) BY <1>2, <1>3 DEF BookRows
  <1>5. /\ n.buy = x /\ n.reserved = y /\ n.releases = z /\ n.sell = b.sell
        /\ n.bought = b.bought /\ n.sold = b.sold /\ n.fills = b.fills /\ n.fees = b.fees
        /\ n.debits = b.debits /\ n.credits = b.credits /\ n.final = b.final /\ n.line = b.line
        /\ n.lineEntries = b.lineEntries
    BY DEF BookRows
  <1> HIDE DEF n
  <1>6. /\ SharesAside(n) = SharesAside(b) /\ FeesAside(n) = FeesAside(b)
        /\ CreditsAside(n) = CreditsAside(b) /\ FinalAside(n) = FinalAside(b)
        /\ LineAside(n) = LineAside(b)
    BY <1>5 DEF SharesAside, FeesAside, CreditsAside, FinalAside, LineAside
  <1>7. ReservedAside(n) = ReservedAside(b)
    <2>1. o \in MaybeOrder /\ o.status \in {"OPEN", "PARTIALLY_FILLED"}
      BY <1>2, <1>3 DEF MaybeOrder, Books!Active
    <2>2. Books!Remaining(o) = 2 - o.filled BY <1>3, <2>1, RemainingIs
    <2>3. Books!Remaining(x) = 0 BY <1>3, RemainingIs
    <2>4. o.filled \in Int /\ b.reserved \in Int BY DEF OrderRows, BookRows, SoldRows
    <2> QED BY <1>3, <1>5, <2>2, <2>3, <2>4 DEF ReservedAside
  <1>8. Asides(n, tampered) BY <1>1, <1>6, <1>7 DEF Asides
  <1>9. Bookkept(n) BY <1>1, <1>2, <1>3, <1>5, <1>6, <1>7 DEF Bookkept, Books!Active
  <1>10. tampered' \in {0, 1} /\ tampered' = tampered BY <1>2 DEF BooksInv
  <1> QED BY <1>4, <1>8, <1>9, <1>10, BooksAreWritten

LEMMA SellIsCancelled ==
    ASSUME BooksInv, Books!CancelSell
    PROVE  BooksInv'
  <1>1. PICK b \in BookRows : b = books /\ Bookkept(b) /\ Asides(b, tampered) BY DEF BooksInv
  <1>2. /\ b.sell # None /\ b.sell.status \in Books!Active
        /\ tampered' = tampered
        /\ Books!Write([b EXCEPT !.sell.status = "CANCELLED",
                                 !.sold.reserved = @ - (2 - b.sell.filled)])
    BY <1>1 DEF Books!CancelSell, Books!Commit
  <1>3. PICK o \in OrderRows, x \in MaybeOrder, y \in SoldRows :
            /\ o = b.sell /\ o # None
            /\ x = [o EXCEPT !.status = "CANCELLED"] /\ x # None
            /\ x.status = "CANCELLED" /\ x.filled = o.filled
            /\ y = [b.sold EXCEPT !.reserved = @ - (2 - o.filled)]
            /\ y.reserved = b.sold.reserved - (2 - o.filled)
            /\ y.quantity = b.sold.quantity
    <2>1. PICK o \in OrderRows : o = b.sell /\ o # None
      BY <1>2, OrdersAreRows DEF BookRows, MaybeOrder
    <2>2. PICK x : x = [o EXCEPT !.status = "CANCELLED"] OBVIOUS
    <2>3. x \in OrderRows /\ x.status = "CANCELLED" /\ x.filled = o.filled BY <2>2 DEF OrderRows
    <2>4. x \in MaybeOrder /\ x # None /\ o.filled \in Int
      BY <2>3, OrdersAreRows DEF MaybeOrder, OrderRows
    <2>5. PICK s \in SoldRows : s = b.sold BY DEF BookRows
    <2>6. PICK y : y = [s EXCEPT !.reserved = @ - (2 - o.filled)] OBVIOUS
    <2>7. /\ y \in SoldRows /\ y.reserved = s.reserved - (2 - o.filled)
          /\ y.quantity = s.quantity
      BY <2>4, <2>6 DEF SoldRows
    <2> QED BY <2>1, <2>2, <2>3, <2>4, <2>5, <2>6, <2>7
  <1> DEFINE n == [b EXCEPT !.sell = x, !.sold = y]
  <1>4. n \in BookRows /\ Books!Write(n) BY <1>2, <1>3 DEF BookRows
  <1>5. /\ n.sell = x /\ n.sold = y /\ n.buy = b.buy /\ n.reserved = b.reserved
        /\ n.releases = b.releases /\ n.bought = b.bought /\ n.fills = b.fills /\ n.fees = b.fees
        /\ n.debits = b.debits /\ n.credits = b.credits /\ n.final = b.final /\ n.line = b.line
        /\ n.lineEntries = b.lineEntries
    BY DEF BookRows
  <1> HIDE DEF n
  <1>6. /\ ReservedAside(n) = ReservedAside(b) /\ FeesAside(n) = FeesAside(b)
        /\ CreditsAside(n) = CreditsAside(b) /\ FinalAside(n) = FinalAside(b)
        /\ LineAside(n) = LineAside(b)
    BY <1>5 DEF ReservedAside, FeesAside, CreditsAside, FinalAside, LineAside
  <1>7. SharesAside(n) = SharesAside(b)
    <2>1. o \in MaybeOrder /\ o.status \in {"OPEN", "PARTIALLY_FILLED"}
      BY <1>2, <1>3 DEF MaybeOrder, Books!Active
    <2>2. Books!Remaining(o) = 2 - o.filled BY <1>3, <2>1, RemainingIs
    <2>3. Books!Remaining(x) = 0 BY <1>3, RemainingIs
    <2>4. o.filled \in Int /\ b.sold.reserved \in Int BY DEF OrderRows, BookRows, SoldRows
    <2> QED BY <1>3, <1>5, <2>2, <2>3, <2>4 DEF SharesAside
  <1>8. Asides(n, tampered) BY <1>1, <1>6, <1>7 DEF Asides
  <1>9. Bookkept(n) BY <1>1, <1>2, <1>3, <1>5, <1>6, <1>7 DEF Bookkept, Books!Active
  <1>10. tampered' \in {0, 1} /\ tampered' = tampered BY <1>2 DEF BooksInv
  <1> QED BY <1>4, <1>8, <1>9, <1>10, BooksAreWritten

(* A fill takes its quantity from both orders, the reservations and the    *)
(* seller's position, and gives it to the buyer's.                         *)
LEMMA FilledOrders ==
    ASSUME NEW q \in {1, 2}, NEW o \in OrderRows, o.filled + q <= 2,
           o.status \in Books!Active
    PROVE  LET x == Books!FilledOrder(o, q)
           IN  /\ x \in MaybeOrder /\ x # None /\ x.filled = o.filled + q
               /\ Books!Remaining(x) = Books!Remaining(o) - q
               /\ x.status # "CANCELLED" /\ o.status # "CANCELLED"
  <1>1. PICK f \in 0..2 : f = o.filled BY DEF OrderRows
  <1>2. PICK g \in 0..2 : g = f + q BY <1>1
  <1>3. PICK x : x = [status |-> IF g >= 2 THEN "FILLED" ELSE "PARTIALLY_FILLED", filled |-> g]
    OBVIOUS
  <1>4. x = Books!FilledOrder(o, q) BY <1>1, <1>2, <1>3 DEF Books!FilledOrder
  <1>5. /\ x \in OrderRows /\ x.filled = g
        /\ x.status = IF g >= 2 THEN "FILLED" ELSE "PARTIALLY_FILLED"
    BY <1>3 DEF OrderRows
  <1>6. x \in MaybeOrder /\ x # None /\ o \in MaybeOrder /\ o # None
    BY <1>5, OrdersAreRows DEF MaybeOrder
  <1>7. Books!Remaining(x) = 2 - g BY <1>5, <1>6, RemainingIs
  <1>8. Books!Remaining(o) = 2 - f BY <1>1, <1>6, RemainingIs DEF Books!Active
  <1> QED BY <1>1, <1>2, <1>4, <1>5, <1>6, <1>7, <1>8 DEF Books!Active

LEMMA BooksFill ==
    ASSUME BooksInv, NEW q \in {1, 2}, Books!Fill(q, 1)
    PROVE  BooksInv'
  <1>1. PICK b \in BookRows : b = books /\ Bookkept(b) /\ Asides(b, tampered) BY DEF BooksInv
  <1>2. /\ \A o \in {b.buy, b.sell} :
               o # None /\ o.status \in Books!Active /\ o.filled + q <= 2
        /\ tampered' = tampered
        /\ Books!Write([b EXCEPT
               !.buy = Books!FilledOrder(@, q), !.sell = Books!FilledOrder(@, q),
               !.reserved = @ - q,
               !.bought = [quantity |-> @.quantity + q, cost |-> @.cost + q * 1],
               !.sold = [quantity |-> @.quantity - q, reserved |-> @.reserved - q],
               !.fills = @ + 1, !.fees = @ + 2, !.debits = @ + 1, !.credits = @ + 1])
    BY <1>1 DEF Books!Fill, Books!Commit
  <1>3. PICK o \in OrderRows, s \in OrderRows : o = b.buy /\ s = b.sell
    BY <1>2 DEF BookRows, MaybeOrder
  <1>4. PICK x \in MaybeOrder, y \in MaybeOrder :
            /\ x = Books!FilledOrder(o, q) /\ y = Books!FilledOrder(s, q)
            /\ x # None /\ y # None /\ x.filled = o.filled + q /\ y.filled = s.filled + q
            /\ Books!Remaining(x) = Books!Remaining(o) - q
            /\ Books!Remaining(y) = Books!Remaining(s) - q
            /\ x.status # "CANCELLED" /\ o.status # "CANCELLED"
    BY <1>2, <1>3, FilledOrders
  <1>5. PICK p \in BoughtRows : /\ p = [quantity |-> b.bought.quantity + q,
                                        cost |-> b.bought.cost + q * 1]
                                /\ p.quantity = b.bought.quantity + q
                                /\ p.cost = b.bought.cost + q
    <2>1. PICK i \in Int, j \in Int : i = b.bought.quantity + q /\ j = b.bought.cost + q * 1
      BY DEF BookRows, BoughtRows
    <2>2. [quantity |-> i, cost |-> j] \in BoughtRows /\ j = b.bought.cost + q
      BY <2>1 DEF BookRows, BoughtRows
    <2> QED BY <2>1, <2>2
  <1>6. PICK h \in SoldRows : /\ h = [quantity |-> b.sold.quantity - q,
                                      reserved |-> b.sold.reserved - q]
                              /\ h.quantity = b.sold.quantity - q
                              /\ h.reserved = b.sold.reserved - q
    <2>1. PICK i \in Int, j \in Int : i = b.sold.quantity - q /\ j = b.sold.reserved - q
      BY DEF BookRows, SoldRows
    <2>2. [quantity |-> i, reserved |-> j] \in SoldRows BY <2>1 DEF SoldRows
    <2> QED BY <2>1, <2>2
  <1>7. PICK r \in Int, f \in Int, e \in Int, d \in Int, c \in Int :
            /\ r = b.reserved - q /\ f = b.fills + 1 /\ e = b.fees + 2
            /\ d = b.debits + 1 /\ c = b.credits + 1
    <2>1. /\ b.reserved - q \in Int /\ b.fills + 1 \in Int /\ b.fees + 2 \in Int
          /\ b.debits + 1 \in Int /\ b.credits + 1 \in Int
      BY DEF BookRows
    <2> QED BY <2>1
  <1> DEFINE n == [b EXCEPT !.buy = x, !.sell = y, !.reserved = r, !.bought = p,
                       !.sold = h, !.fills = f, !.fees = e, !.debits = d, !.credits = c]
  <1>8. Books!Write(n) BY <1>2, <1>3, <1>4, <1>5, <1>6, <1>7 DEF BookRows
  <1>9. n \in BookRows BY DEF BookRows
  <1>10. /\ n.buy = x /\ n.sell = y /\ n.reserved = r /\ n.bought = p /\ n.sold = h
         /\ n.fills = f /\ n.fees = e /\ n.debits = d /\ n.credits = c
         /\ n.releases = b.releases /\ n.final = b.final /\ n.line = b.line
         /\ n.lineEntries = b.lineEntries
    BY DEF BookRows
  <1> HIDE DEF n
  <1>11. FinalAside(n) = FinalAside(b) /\ LineAside(n) = LineAside(b)
    BY <1>10 DEF FinalAside, LineAside
  <1>12. FeesAside(n) = FeesAside(b) /\ CreditsAside(n) = CreditsAside(b)
    BY <1>7, <1>10 DEF BookRows, FeesAside, CreditsAside
  <1>13. ReservedAside(n) = ReservedAside(b)
    <2>1. b.reserved \in Int /\ Books!Remaining(o) \in Int
      BY <1>3, RemainingIs DEF BookRows, MaybeOrder
    <2> QED BY <1>3, <1>4, <1>7, <1>10, <2>1 DEF ReservedAside
  <1>14. SharesAside(n) = SharesAside(b)
    <2>1. b.sold.reserved \in Int /\ Books!Remaining(s) \in Int
      BY <1>3, RemainingIs DEF BookRows, SoldRows, MaybeOrder
    <2> QED BY <1>3, <1>4, <1>6, <1>10, <2>1 DEF SharesAside
  <1>15. Asides(n, tampered) BY <1>1, <1>11, <1>12, <1>13, <1>14 DEF Asides
  <1>16. b.final.kind = None BY <1>1, <1>2 DEF Bookkept, Books!Active
  <1>17. o # None /\ s # None BY <1>2, <1>3
  <1>18. /\ p.quantity \in 0..2 /\ p.cost = p.quantity /\ p.quantity <= x.filled
         /\ h.quantity = 2 - y.filled
    <2>1. o.filled \in 0..2 /\ s.filled \in 0..2 BY DEF OrderRows
    <2>2. o.filled + q <= 2 /\ s.filled + q <= 2 BY <1>2, <1>3
    <2>3. /\ b.bought.quantity <= o.filled /\ b.bought.quantity \in 0..2
          /\ b.bought.cost = b.bought.quantity /\ b.sold.quantity = 2 - s.filled
      BY <1>1, <1>3, <1>16, <1>17 DEF Bookkept
    <2> QED BY <1>4, <1>5, <1>6, <2>1, <2>2, <2>3
  <1>19. d = f /\ b.releases = 0 BY <1>1, <1>3, <1>4, <1>7, <1>17 DEF Bookkept
  <1>20. Bookkept(n) BY <1>1, <1>4, <1>10, <1>16, <1>18, <1>19 DEF Bookkept
  <1>21. tampered' \in {0, 1} /\ tampered' = tampered BY <1>2 DEF BooksInv
  <1> QED BY <1>8, <1>9, <1>15, <1>20, <1>21, BooksAreWritten

LEMMA BooksPayFinal ==
    ASSUME BooksInv, NEW kind \in {"SETTLEMENT", "REFUND"}, Books!PayFinal(kind)
    PROVE  BooksInv'
  <1>1. PICK b \in BookRows : b = books /\ Bookkept(b) /\ Asides(b, tampered) BY DEF BooksInv
  <1>2. /\ b.final.kind = None /\ b.sold.reserved = 0
        /\ \A o \in {b.buy, b.sell} : o # None /\ o.status \notin Books!Active
        /\ tampered' = tampered
        /\ Books!Write([b EXCEPT !.final = [kind |-> kind, fees |-> 1, credits |-> 1],
                           !.bought = [quantity |-> 0, cost |-> 0], !.sold.quantity = 0])
    BY <1>1 DEF Books!PayFinal, Books!Commit
  <1>3. PICK z \in FinalRows : /\ z = [kind |-> kind, fees |-> 1, credits |-> 1]
                               /\ z.kind = kind /\ z.fees = 1 /\ z.credits = 1
    <2>1. [kind |-> kind, fees |-> 1, credits |-> 1] \in FinalRows BY DEF FinalRows
    <2> QED BY <2>1
  <1>4. PICK p \in BoughtRows : /\ p = [quantity |-> 0, cost |-> 0]
                                /\ p.quantity = 0 /\ p.cost = 0
    <2>1. [quantity |-> 0, cost |-> 0] \in BoughtRows BY DEF BoughtRows
    <2> QED BY <2>1
  <1>5. PICK h \in SoldRows : /\ h = [b.sold EXCEPT !.quantity = 0]
                              /\ h.quantity = 0 /\ h.reserved = b.sold.reserved
    <2>1. PICK s \in SoldRows : s = b.sold BY DEF BookRows
    <2>2. PICK h : h = [s EXCEPT !.quantity = 0] OBVIOUS
    <2>3. h \in SoldRows /\ h.quantity = 0 /\ h.reserved = s.reserved BY <2>2 DEF SoldRows
    <2> QED BY <2>1, <2>2, <2>3
  <1> DEFINE n == [b EXCEPT !.final = z, !.bought = p, !.sold = h]
  <1>6. Books!Write(n) BY <1>2, <1>3, <1>4, <1>5
  <1>7. n \in BookRows BY DEF BookRows
  <1>8. /\ n.final = z /\ n.bought = p /\ n.sold = h /\ n.buy = b.buy /\ n.sell = b.sell
        /\ n.reserved = b.reserved /\ n.releases = b.releases /\ n.fills = b.fills
        /\ n.fees = b.fees /\ n.debits = b.debits /\ n.credits = b.credits
        /\ n.line = b.line /\ n.lineEntries = b.lineEntries
    BY DEF BookRows
  <1> HIDE DEF n
  <1>9. /\ ReservedAside(n) = ReservedAside(b) /\ SharesAside(n) = SharesAside(b)
        /\ FeesAside(n) = FeesAside(b) /\ CreditsAside(n) = CreditsAside(b)
        /\ LineAside(n) = LineAside(b)
    BY <1>5, <1>8 DEF ReservedAside, SharesAside, FeesAside, CreditsAside, LineAside
  <1>10. kind # None BY NoneAssumption
  <1>11. FinalAside(n) = 0 /\ FinalAside(b) = 0 BY <1>2, <1>3, <1>8, <1>10 DEF FinalAside
  <1>12. Asides(n, tampered) BY <1>1, <1>9, <1>11 DEF Asides
  <1>13. PICK o \in OrderRows, s \in OrderRows :
             /\ o = b.buy /\ s = b.sell /\ o # None /\ s # None
             /\ o.status \in {"FILLED", "CANCELLED"} /\ s.status \in {"FILLED", "CANCELLED"}
             /\ o.filled \in 0..2
    <2>1. PICK o \in OrderRows, s \in OrderRows : o = b.buy /\ s = b.sell
      BY <1>2 DEF BookRows, MaybeOrder
    <2>2. o.status \notin Books!Active /\ s.status \notin Books!Active BY <1>2, <2>1
    <2>3. /\ o.status \in {"FILLED", "CANCELLED"} /\ s.status \in {"FILLED", "CANCELLED"}
          /\ o.filled \in 0..2
      BY <2>2 DEF OrderRows, Books!Active
    <2> QED BY <1>2, <2>1, <2>3
  <1>14. Bookkept(n) BY <1>1, <1>3, <1>4, <1>5, <1>8, <1>9, <1>10, <1>13 DEF Bookkept
  <1>15. tampered' \in {0, 1} /\ tampered' = tampered BY <1>2 DEF BooksInv
  <1> QED BY <1>6, <1>7, <1>12, <1>14, <1>15, BooksAreWritten

(* An adjustment that is approved has one entry, one that is rejected none.*)
LEMMA LineIsProposed ==
    ASSUME BooksInv, Books!ProposeLine
    PROVE  BooksInv'
  <1>1. PICK b \in BookRows : b = books /\ Bookkept(b) /\ Asides(b, tampered) BY DEF BooksInv
  <1>2. /\ b.line = None /\ tampered' = tampered
        /\ Books!Write([b EXCEPT !.line = "PENDING"])
    BY <1>1 DEF Books!ProposeLine, Books!Commit
  <1>3. PICK l \in LineStates : l = "PENDING" BY DEF LineStates
  <1> DEFINE n == [b EXCEPT !.line = l]
  <1>4. n \in BookRows /\ Books!Write(n) BY <1>2, <1>3 DEF BookRows
  <1>5. /\ n.line = l /\ n.lineEntries = b.lineEntries
        /\ n.buy = b.buy /\ n.sell = b.sell /\ n.reserved = b.reserved
        /\ n.releases = b.releases /\ n.bought = b.bought /\ n.sold = b.sold
        /\ n.fills = b.fills /\ n.fees = b.fees /\ n.debits = b.debits
        /\ n.credits = b.credits /\ n.final = b.final
    BY DEF BookRows
  <1> HIDE DEF n
  <1>6. /\ ReservedAside(n) = ReservedAside(b) /\ SharesAside(n) = SharesAside(b)
        /\ FeesAside(n) = FeesAside(b) /\ CreditsAside(n) = CreditsAside(b)
        /\ FinalAside(n) = FinalAside(b)
    BY <1>5 DEF ReservedAside, SharesAside, FeesAside, CreditsAside, FinalAside
  <1>7. LineAside(n) = 0 /\ LineAside(b) = 0 BY <1>2, <1>3, <1>5, NoneAssumption DEF LineAside
  <1>8. Asides(n, tampered) BY <1>1, <1>6, <1>7 DEF Asides
  <1>9. Bookkept(n) BY <1>1, <1>2, <1>3, <1>5, <1>6 DEF Bookkept
  <1>10. tampered' \in {0, 1} /\ tampered' = tampered BY <1>2 DEF BooksInv
  <1> QED BY <1>4, <1>8, <1>9, <1>10, BooksAreWritten

LEMMA LineIsDecided ==
    ASSUME BooksInv, Books!DecideLine
    PROVE  BooksInv'
  <1>1. PICK b \in BookRows : b = books /\ Bookkept(b) /\ Asides(b, tampered) BY DEF BooksInv
  <1>2. /\ b.line = "PENDING" /\ tampered' = tampered
        /\ \/ Books!Write([b EXCEPT !.line = "APPROVED", !.lineEntries = @ + 1])
           \/ Books!Write([b EXCEPT !.line = "REJECTED"])
    BY <1>1 DEF Books!DecideLine, Books!Commit
  <1>3. b.lineEntries = 0 /\ b.lineEntries + 1 = 1 BY <1>1, <1>2 DEF Bookkept
  <1>4. PICK l \in LineStates, e \in Int :
            /\ l \in {"APPROVED", "REJECTED"}
            /\ e = IF l = "APPROVED" THEN 1 ELSE 0
            /\ Books!Write([b EXCEPT !.line = l, !.lineEntries = e])
    <2>1. [b EXCEPT !.line = "REJECTED"] = [b EXCEPT !.line = "REJECTED", !.lineEntries = 0]
      BY <1>3 DEF BookRows
    <2>2. [b EXCEPT !.line = "APPROVED", !.lineEntries = @ + 1]
              = [b EXCEPT !.line = "APPROVED", !.lineEntries = 1]
      BY <1>3 DEF BookRows
    <2>3. "APPROVED" \in LineStates /\ "REJECTED" \in LineStates BY DEF LineStates
    <2>4. CASE Books!Write([b EXCEPT !.line = "APPROVED", !.lineEntries = @ + 1])
      <3>1. PICK l \in LineStates, e \in Int : l = "APPROVED" /\ e = 1 BY <2>3
      <3>2. Books!Write([b EXCEPT !.line = l, !.lineEntries = e]) BY <2>2, <2>4, <3>1
      <3> QED BY <3>1, <3>2
    <2>5. CASE Books!Write([b EXCEPT !.line = "REJECTED"])
      <3>1. PICK l \in LineStates, e \in Int : l = "REJECTED" /\ e = 0 BY <2>3
      <3>2. Books!Write([b EXCEPT !.line = l, !.lineEntries = e]) BY <2>1, <2>5, <3>1
      <3> QED BY <3>1, <3>2
    <2> QED BY <1>2, <2>4, <2>5
  <1> DEFINE n == [b EXCEPT !.line = l, !.lineEntries = e]
  <1>5. n \in BookRows /\ Books!Write(n) BY <1>4 DEF BookRows
  <1>6. /\ n.line = l /\ n.lineEntries = e
        /\ n.buy = b.buy /\ n.sell = b.sell /\ n.reserved = b.reserved
        /\ n.releases = b.releases /\ n.bought = b.bought /\ n.sold = b.sold
        /\ n.fills = b.fills /\ n.fees = b.fees /\ n.debits = b.debits
        /\ n.credits = b.credits /\ n.final = b.final
    BY DEF BookRows
  <1> HIDE DEF n
  <1>7. /\ ReservedAside(n) = ReservedAside(b) /\ SharesAside(n) = SharesAside(b)
        /\ FeesAside(n) = FeesAside(b) /\ CreditsAside(n) = CreditsAside(b)
        /\ FinalAside(n) = FinalAside(b)
    BY <1>6 DEF ReservedAside, SharesAside, FeesAside, CreditsAside, FinalAside
  <1>8. LineAside(n) = 0 /\ LineAside(b) = 0 BY <1>2, <1>4, <1>6 DEF LineAside
  <1>9. Asides(n, tampered) BY <1>1, <1>7, <1>8 DEF Asides
  <1>10. Bookkept(n) BY <1>1, <1>4, <1>6, <1>7, NoneAssumption DEF Bookkept
  <1>11. tampered' \in {0, 1} /\ tampered' = tampered BY <1>2 DEF BooksInv
  <1> QED BY <1>5, <1>9, <1>10, <1>11, BooksAreWritten

(* A change behind the services' back moves one of the asides.             *)
LEMMA BooksTamper ==
    ASSUME BooksInv, Books!Tamper
    PROVE  BooksInv'
  <1>1. PICK b \in BookRows : b = books /\ Bookkept(b) /\ Asides(b, 0) BY DEF BooksInv, Books!Tamper
  <1>2. /\ tampered' = 1 /\ tampered' \in {0, 1}
        /\ \/ b.buy # None /\ Books!Write([b EXCEPT !.reserved = @ + 1])
           \/ b.sell # None /\ Books!Write([b EXCEPT !.sold.reserved = @ + 1])
           \/ b.fills > 0 /\ (\/ Books!Write([b EXCEPT !.fees = @ - 1])
                              \/ Books!Write([b EXCEPT !.credits = @ - 1]))
           \/ b.final.kind # None /\ Books!Write([b EXCEPT !.final.credits = @ + 1])
           \/ b.line = "REJECTED" /\ Books!Write([b EXCEPT !.lineEntries = 1])
    BY <1>1 DEF BooksInv, Books!Tamper
  <1>3. /\ ReservedAside(b) = 0 /\ SharesAside(b) = 0 /\ FeesAside(b) = 0
        /\ CreditsAside(b) = 0 /\ FinalAside(b) = 0 /\ LineAside(b) = 0
    BY <1>1 DEF Asides
  <1>4. /\ b.reserved \in Int /\ Books!Remaining(b.buy) \in Int
        /\ b.sold.reserved \in Int /\ Books!Remaining(b.sell) \in Int
        /\ b.fills \in Int /\ b.fees \in Int /\ b.credits \in Int /\ b.final.credits \in Int
    BY RemainingIs DEF BookRows, SoldRows, FinalRows
  <1>5. CASE b.buy # None /\ Books!Write([b EXCEPT !.reserved = @ + 1])
    <2>1. PICK y \in Int : y = b.reserved + 1 BY <1>4
    <2> DEFINE n == [b EXCEPT !.reserved = y]
    <2>2. n \in BookRows /\ Books!Write(n) BY <1>5, <2>1 DEF BookRows
    <2>3. /\ n.reserved = y /\ n.buy = b.buy /\ n.sell = b.sell /\ n.releases = b.releases
          /\ n.bought = b.bought /\ n.sold = b.sold /\ n.fills = b.fills /\ n.fees = b.fees
          /\ n.debits = b.debits /\ n.credits = b.credits /\ n.final = b.final
          /\ n.line = b.line /\ n.lineEntries = b.lineEntries
      BY DEF BookRows
    <2> HIDE DEF n
    <2>4. /\ SharesAside(n) = 0 /\ FeesAside(n) = 0 /\ CreditsAside(n) = 0
          /\ FinalAside(n) = 0 /\ LineAside(n) = 0
      BY <1>3, <2>3 DEF SharesAside, FeesAside, CreditsAside, FinalAside, LineAside
    <2>5. ReservedAside(n) = 1 BY <1>3, <1>4, <2>1, <2>3 DEF ReservedAside
    <2>6. Asides(n, 1) BY <2>4, <2>5 DEF Asides
    <2>7. Bookkept(n) BY <1>1, <1>3, <1>5, <2>3, <2>4 DEF Bookkept
    <2> QED BY <1>2, <2>2, <2>6, <2>7, BooksAreWritten
  <1>6. CASE b.sell # None /\ Books!Write([b EXCEPT !.sold.reserved = @ + 1])
    <2>1. PICK y \in SoldRows : /\ y = [b.sold EXCEPT !.reserved = @ + 1]
                                /\ y.reserved = b.sold.reserved + 1
                                /\ y.quantity = b.sold.quantity
      <3>1. PICK s \in SoldRows : s = b.sold BY DEF BookRows
      <3>2. PICK y : y = [s EXCEPT !.reserved = @ + 1] OBVIOUS
      <3>3. y \in SoldRows /\ y.reserved = s.reserved + 1 /\ y.quantity = s.quantity
        BY <3>2 DEF SoldRows
      <3> QED BY <3>1, <3>2, <3>3
    <2> DEFINE n == [b EXCEPT !.sold = y]
    <2>2. n \in BookRows /\ Books!Write(n) BY <1>6, <2>1 DEF BookRows
    <2>3. /\ n.sold = y /\ n.buy = b.buy /\ n.sell = b.sell /\ n.releases = b.releases
          /\ n.bought = b.bought /\ n.reserved = b.reserved /\ n.fills = b.fills
          /\ n.fees = b.fees /\ n.debits = b.debits /\ n.credits = b.credits
          /\ n.final = b.final /\ n.line = b.line /\ n.lineEntries = b.lineEntries
      BY DEF BookRows
    <2> HIDE DEF n
    <2>4. /\ ReservedAside(n) = 0 /\ FeesAside(n) = 0 /\ CreditsAside(n) = 0
          /\ FinalAside(n) = 0 /\ LineAside(n) = 0
      BY <1>3, <2>3 DEF ReservedAside, FeesAside, CreditsAside, FinalAside, LineAside
    <2>5. SharesAside(n) = 1 BY <1>3, <1>4, <2>1, <2>3 DEF SharesAside
    <2>6. Asides(n, 1) BY <2>4, <2>5 DEF Asides
    <2>7. Bookkept(n) BY <1>1, <1>3, <1>6, <2>1, <2>3, <2>4 DEF Bookkept
    <2> QED BY <1>2, <2>2, <2>6, <2>7, BooksAreWritten
  <1>7. CASE Books!Write([b EXCEPT !.fees = @ - 1])
    <2>1. PICK y \in Int : y = b.fees - 1 BY <1>4
    <2> DEFINE n == [b EXCEPT !.fees = y]
    <2>2. n \in BookRows /\ Books!Write(n) BY <1>7, <2>1 DEF BookRows
    <2>3. /\ n.fees = y /\ n.buy = b.buy /\ n.sell = b.sell /\ n.releases = b.releases
          /\ n.bought = b.bought /\ n.sold = b.sold /\ n.fills = b.fills
          /\ n.reserved = b.reserved /\ n.debits = b.debits /\ n.credits = b.credits
          /\ n.final = b.final /\ n.line = b.line /\ n.lineEntries = b.lineEntries
      BY DEF BookRows
    <2> HIDE DEF n
    <2>4. /\ ReservedAside(n) = 0 /\ SharesAside(n) = 0 /\ CreditsAside(n) = 0
          /\ FinalAside(n) = 0 /\ LineAside(n) = 0
      BY <1>3, <2>3 DEF ReservedAside, SharesAside, CreditsAside, FinalAside, LineAside
    <2>5. FeesAside(n) = 1 BY <1>3, <1>4, <2>1, <2>3 DEF FeesAside
    <2>6. Asides(n, 1) BY <2>4, <2>5 DEF Asides
    <2>7. Bookkept(n) BY <1>1, <1>3, <2>3, <2>4 DEF Bookkept
    <2> QED BY <1>2, <2>2, <2>6, <2>7, BooksAreWritten
  <1>8. CASE Books!Write([b EXCEPT !.credits = @ - 1])
    <2>1. PICK y \in Int : y = b.credits - 1 BY <1>4
    <2> DEFINE n == [b EXCEPT !.credits = y]
    <2>2. n \in BookRows /\ Books!Write(n) BY <1>8, <2>1 DEF BookRows
    <2>3. /\ n.credits = y /\ n.buy = b.buy /\ n.sell = b.sell /\ n.releases = b.releases
          /\ n.bought = b.bought /\ n.sold = b.sold /\ n.fills = b.fills
          /\ n.reserved = b.reserved /\ n.debits = b.debits /\ n.fees = b.fees
          /\ n.final = b.final /\ n.line = b.line /\ n.lineEntries = b.lineEntries
      BY DEF BookRows
    <2> HIDE DEF n
    <2>4. /\ ReservedAside(n) = 0 /\ SharesAside(n) = 0 /\ FeesAside(n) = 0
          /\ FinalAside(n) = 0 /\ LineAside(n) = 0
      BY <1>3, <2>3 DEF ReservedAside, SharesAside, FeesAside, FinalAside, LineAside
    <2>5. CreditsAside(n) = 1 BY <1>3, <1>4, <2>1, <2>3 DEF CreditsAside
    <2>6. Asides(n, 1) BY <2>4, <2>5 DEF Asides
    <2>7. Bookkept(n) BY <1>1, <1>3, <2>3, <2>4 DEF Bookkept
    <2> QED BY <1>2, <2>2, <2>6, <2>7, BooksAreWritten
  <1>9. CASE b.final.kind # None /\ Books!Write([b EXCEPT !.final.credits = @ + 1])
    <2>1. PICK y \in FinalRows : /\ y = [b.final EXCEPT !.credits = @ + 1]
                                 /\ y.credits = b.final.credits + 1
                                 /\ y.kind = b.final.kind /\ y.fees = b.final.fees
      <3>1. PICK s \in FinalRows : s = b.final BY DEF BookRows
      <3>2. PICK y : y = [s EXCEPT !.credits = @ + 1] OBVIOUS
      <3>3. /\ y \in FinalRows /\ y.credits = s.credits + 1 /\ y.kind = s.kind
            /\ y.fees = s.fees
        BY <3>2 DEF FinalRows
      <3> QED BY <3>1, <3>2, <3>3
    <2> DEFINE n == [b EXCEPT !.final = y]
    <2>2. n \in BookRows /\ Books!Write(n) BY <1>9, <2>1 DEF BookRows
    <2>3. /\ n.final = y /\ n.buy = b.buy /\ n.sell = b.sell /\ n.releases = b.releases
          /\ n.bought = b.bought /\ n.reserved = b.reserved /\ n.sold = b.sold
          /\ n.fills = b.fills /\ n.fees = b.fees /\ n.debits = b.debits
          /\ n.credits = b.credits /\ n.line = b.line /\ n.lineEntries = b.lineEntries
      BY DEF BookRows
    <2> HIDE DEF n
    <2>4. /\ ReservedAside(n) = 0 /\ SharesAside(n) = 0 /\ FeesAside(n) = 0
          /\ CreditsAside(n) = 0 /\ LineAside(n) = 0
      BY <1>3, <2>3 DEF ReservedAside, SharesAside, FeesAside, CreditsAside, LineAside
    <2>5. FinalAside(n) = 1 BY <1>3, <1>4, <1>9, <2>1, <2>3 DEF FinalAside
    <2>6. Asides(n, 1) BY <2>4, <2>5 DEF Asides
    <2>7. Bookkept(n) BY <1>1, <1>3, <2>1, <2>3, <2>4 DEF Bookkept
    <2> QED BY <1>2, <2>2, <2>6, <2>7, BooksAreWritten
  <1>10. CASE b.line = "REJECTED" /\ Books!Write([b EXCEPT !.lineEntries = 1])
    <2> DEFINE n == [b EXCEPT !.lineEntries = 1]
    <2>1. n \in BookRows BY DEF BookRows
    <2>2. Books!Write(n) BY <1>10
    <2>3. /\ n.lineEntries = 1 /\ n.buy = b.buy /\ n.sell = b.sell
          /\ n.reserved = b.reserved /\ n.releases = b.releases
          /\ n.bought = b.bought /\ n.sold = b.sold /\ n.fills = b.fills
          /\ n.fees = b.fees /\ n.debits = b.debits /\ n.credits = b.credits
          /\ n.final = b.final /\ n.line = b.line
      BY DEF BookRows
    <2> HIDE DEF n
    <2>4. /\ ReservedAside(n) = 0 /\ SharesAside(n) = 0 /\ FeesAside(n) = 0
          /\ CreditsAside(n) = 0 /\ FinalAside(n) = 0
      BY <1>3, <2>3 DEF ReservedAside, SharesAside, FeesAside, CreditsAside, FinalAside
    <2>5. LineAside(n) = 1 BY <1>10, <2>3 DEF LineAside
    <2>6. Asides(n, 1) BY <2>4, <2>5 DEF Asides
    <2>7. Bookkept(n) BY <1>1, <1>3, <1>10, <2>3, <2>4, NoneAssumption DEF Bookkept
    <2> QED BY <1>2, <2>1, <2>2, <2>6, <2>7, BooksAreWritten
  <1> QED BY <1>2, <1>5, <1>6, <1>7, <1>8, <1>9, <1>10

(* A caller that has the run to itself, and what the run reports.          *)
LEMMA CallersSteps ==
    ASSUME BooksInv, UNCHANGED <<books, tampered, disturbed>>,
           DOMAIN runs' = {"market"}, DOMAIN callers' = {"caller"}, CallerSound', RunSound'
    PROVE  BooksInv'
  BY DEF BooksInv

LEMMA BooksAsk ==
    ASSUME BooksInv, Books!Ask("caller", "market")
    PROVE  BooksInv'
  <1>1. PICK k : k = callers["caller"] OBVIOUS
  <1>2. /\ DOMAIN k = {"scope", "next", "read", "found"}
        /\ k.next = 0 /\ k.read = None /\ k.found = {}
    BY <1>1 DEF Books!Ask, Books!Idle
  <1>3. /\ UNCHANGED <<books, tampered, runs, disturbed>>
        /\ callers' = [callers EXCEPT !["caller"].scope = "market"]
    BY DEF Books!Ask
  <1> DEFINE d == [k EXCEPT !.scope = "market"]
  <1>4. callers' = [callers EXCEPT !["caller"] = d] BY <1>1, <1>3
  <1>5. /\ DOMAIN d = {"scope", "next", "read", "found"} /\ d.scope = "market"
        /\ d.next = 0 /\ d.read = None /\ d.found = {}
    BY <1>2
  <1> HIDE DEF d
  <1>6. DOMAIN callers' = {"caller"} /\ callers'["caller"] = d BY <1>4 DEF BooksInv
  <1>7. CallerSound' BY <1>5, <1>6 DEF CallerSound
  <1>8. RunSound' /\ DOMAIN runs' = {"market"} BY <1>3 DEF RunSound, BooksInv
  <1> QED BY <1>3, <1>6, <1>7, <1>8, CallersSteps

(* Back to idle, the run ends: in agreement, failed or left as it was.     *)
LEMMA CallerIsIdle ==
    ASSUME BooksInv, callers' = [callers EXCEPT !["caller"] = Books!Idle]
    PROVE  DOMAIN callers' = {"caller"} /\ CallerSound'
  BY DEF Books!Idle, BooksInv, CallerSound

LEMMA BooksCreate ==
    ASSUME BooksInv, Books!Create("caller")
    PROVE  BooksInv'
  <1>1. PICK k : k = callers["caller"] OBVIOUS
  <1>2. /\ DOMAIN k = {"scope", "next", "read", "found"}
        /\ k.scope = "market" /\ k.next = 0 /\ k.read = None /\ k.found = {}
    BY <1>1 DEF BooksInv, CallerSound, Books!Create
  <1>3. UNCHANGED <<books, tampered, disturbed>> BY DEF Books!Create
  <1>4. CASE runs["market"] # None
    <2>1. callers' = [callers EXCEPT !["caller"] = Books!Idle] /\ UNCHANGED runs
      BY <1>1, <1>2, <1>4 DEF Books!Create
    <2>2. RunSound' /\ DOMAIN runs' = {"market"} BY <1>3, <2>1 DEF RunSound, BooksInv
    <2> QED BY <1>3, <2>1, <2>2, CallerIsIdle, CallersSteps
  <1>5. CASE runs["market"] = None
    <2>1. PICK r : r = [status |-> "RUNNING", mismatches |-> {}, tampered |-> 0] OBVIOUS
    <2>2. DOMAIN r = RunRows /\ r.status = "RUNNING" BY <2>1 DEF RunRows
    <2>3. /\ runs' = [runs EXCEPT !["market"] = r]
          /\ callers' = [callers EXCEPT !["caller"].next = 1]
      BY <1>1, <1>2, <1>5, <2>1 DEF Books!Create
    <2>4. DOMAIN runs' = {"market"} /\ runs'["market"] = r BY <2>3 DEF BooksInv
    <2> DEFINE d == [k EXCEPT !.next = 1]
    <2>5. callers' = [callers EXCEPT !["caller"] = d] BY <1>1, <2>3
    <2>6. /\ DOMAIN d = {"scope", "next", "read", "found"} /\ d.scope = "market"
          /\ d.next = 1 /\ d.read = None /\ d.found = {}
      BY <1>2
    <2> HIDE DEF d
    <2>7. DOMAIN callers' = {"caller"} /\ callers'["caller"] = d BY <2>5 DEF BooksInv
    <2>8. CallerSound' BY <2>2, <2>4, <2>6, <2>7 DEF CallerSound
    <2>9. RunSound' BY <2>2, <2>4 DEF RunSound
    <2> QED BY <1>3, <2>4, <2>7, <2>8, <2>9, CallersSteps
  <1> QED BY <1>4, <1>5

LEMMA BooksRead ==
    ASSUME BooksInv, Books!Read("caller")
    PROVE  BooksInv'
  <1>1. PICK k : k = callers["caller"] OBVIOUS
  <1>2. PICK v : v = Books!First(Books!Checks[k.next], books) OBVIOUS
  <1>3. PICK x : x = [value |-> v] OBVIOUS
  <1>4. x.value = v BY <1>3
  <1>5. /\ UNCHANGED <<books, tampered, runs, disturbed>>
        /\ callers' = [callers EXCEPT !["caller"].read = x]
    BY <1>1, <1>2, <1>3 DEF Books!Read
  <1>6. k.next > 0 BY <1>1 DEF Books!Read, Books!Detecting
  <1>7. /\ DOMAIN k = {"scope", "next", "read", "found"}
        /\ k.scope = "market" /\ k.next \in 0..10 /\ DOMAIN runs["market"] = RunRows
    BY <1>1, <1>6 DEF BooksInv, CallerSound
  <1> DEFINE d == [k EXCEPT !.read = x]
  <1>8. callers' = [callers EXCEPT !["caller"] = d] BY <1>1, <1>5
  <1>9. /\ DOMAIN d = {"scope", "next", "read", "found"} /\ d.scope = k.scope
        /\ d.next = k.next /\ d.read = x /\ d.found = k.found
    BY <1>7
  <1> HIDE DEF d
  <1>10. DOMAIN callers' = {"caller"} /\ callers'["caller"] = d BY <1>8 DEF BooksInv
  <1>11. "market" \notin disturbed =>
             (k.found # {} <=> \E j \in 1..(k.next - 1) : ~Clean(j, books))
    BY <1>1, <1>6 DEF BooksInv, CallerSound
  <1>12. CallerSound'
    <2>1. disturbed' = disturbed /\ runs' = runs /\ books' = books BY <1>5
    <2> QED BY <1>2, <1>4, <1>6, <1>7, <1>9, <1>10, <1>11, <2>1 DEF CallerSound
  <1>13. RunSound' /\ DOMAIN runs' = {"market"} BY <1>5 DEF RunSound, BooksInv
  <1> QED BY <1>5, <1>10, <1>12, <1>13, CallersSteps

LEMMA BooksCompare ==
    ASSUME BooksInv, Books!Compare("caller")
    PROVE  BooksInv'
  <1>1. PICK k : k = callers["caller"] OBVIOUS
  <1>2. k.next \in 1..9 /\ k.read # None BY <1>1 DEF Books!Compare, Books!Detecting, Books!Checks
  <1>3. /\ DOMAIN k = {"scope", "next", "read", "found"}
        /\ k.scope = "market" /\ DOMAIN runs["market"] = RunRows
    BY <1>1, <1>2 DEF BooksInv, CallerSound
  <1>4. PICK c, m : c = Books!Checks[k.next] /\ m = k.next + 1 OBVIOUS
  <1>5. PICK F : F = IF Books!Agrees(c, k.read.value, books) THEN k.found ELSE k.found \cup {c}
    OBVIOUS
  <1>6. /\ UNCHANGED <<books, tampered, runs, disturbed>>
        /\ callers' = [callers EXCEPT !["caller"].read = None, !["caller"].next = @ + 1,
               !["caller"].found = IF Books!Agrees(c, k.read.value, books)
                                   THEN @ ELSE @ \cup {c}]
    BY <1>1, <1>4 DEF Books!Compare
  <1> DEFINE d == [k EXCEPT !.read = None, !.next = m, !.found = F]
  <1>7. callers' = [callers EXCEPT !["caller"] = d] BY <1>1, <1>3, <1>4, <1>5, <1>6 DEF BooksInv
  <1>8. /\ DOMAIN d = {"scope", "next", "read", "found"} /\ d.scope = "market"
        /\ d.next = m /\ d.read = None /\ d.found = F
    BY <1>3
  <1> HIDE DEF d
  <1>9. DOMAIN callers' = {"caller"} /\ callers'["caller"] = d BY <1>7 DEF BooksInv
  <1>10. ASSUME "market" \notin disturbed
         PROVE  F # {} <=> \E j \in 1..(m - 1) : ~Clean(j, books)
    <2>1. /\ k.read.value = Books!First(c, books)
          /\ k.found # {} <=> \E j \in 1..(k.next - 1) : ~Clean(j, books)
      BY <1>1, <1>2, <1>4, <1>10 DEF BooksInv, CallerSound
    <2>2. Books!Agrees(c, k.read.value, books) <=> Clean(k.next, books) BY <1>4, <2>1 DEF Clean
    <2>3. F # {} <=> k.found # {} \/ ~Clean(k.next, books) BY <1>5, <2>2
    <2>4. \A j : j \in 1..(m - 1) <=> j \in 1..(k.next - 1) \/ j = k.next BY <1>2, <1>4
    <2> QED BY <2>1, <2>3, <2>4
  <1>11. m \in 2..10 BY <1>2, <1>4
  <1>12. CallerSound'
    <2>1. disturbed' = disturbed /\ runs' = runs /\ books' = books BY <1>6
    <2>2. d.scope \in {"market", None} /\ d.next \in 0..10 /\ d.next > 0 BY <1>8, <1>11
    <2> QED BY <1>3, <1>8, <1>9, <1>10, <2>1, <2>2 DEF CallerSound
  <1>13. RunSound' /\ DOMAIN runs' = {"market"} BY <1>6 DEF RunSound, BooksInv
  <1> QED BY <1>6, <1>9, <1>12, <1>13, CallersSteps

LEMMA BooksComplete ==
    ASSUME BooksInv, Books!Complete("caller")
    PROVE  BooksInv'
  <1>1. PICK k, s : k = callers["caller"] /\ s = k.scope OBVIOUS
  <1>2. /\ UNCHANGED <<books, tampered, disturbed>>
        /\ callers' = [callers EXCEPT !["caller"] = Books!Idle]
        /\ k.next > 9
    BY <1>1 DEF Books!Complete, Books!Checks
  <1>3. k.next = 10 /\ s = "market" BY <1>1, <1>2 DEF BooksInv, CallerSound
  <1>4. PICK r : r = [status |-> "COMPLETED", mismatches |-> k.found, tampered |-> tampered] OBVIOUS
  <1>5. r.status = "COMPLETED" /\ r.mismatches = k.found /\ r.tampered = tampered BY <1>4
  <1>6. runs' = [runs EXCEPT !["market"] = r] BY <1>1, <1>3, <1>4 DEF Books!Complete
  <1>7. DOMAIN runs' = {"market"} /\ runs'["market"] = r BY <1>6 DEF BooksInv
  <1>8. ASSUME "market" \notin disturbed
        PROVE  k.found # {} <=> tampered > 0
    <2>1. k.found # {} <=> \E j \in 1..(k.next - 1) : ~Clean(j, books)
      BY <1>1, <1>3, <1>8 DEF BooksInv, CallerSound
    <2>2. k.next - 1 = 9 BY <1>3
    <2>3. (\E j \in 1..9 : ~Clean(j, books)) <=> tampered > 0 BY ComparisonsFindAsides DEF BooksInv
    <2> QED BY <2>1, <2>2, <2>3
  <1>9. RunSound' BY <1>2, <1>5, <1>7, <1>8 DEF RunSound
  <1> QED BY <1>2, <1>7, <1>9, CallerIsIdle, CallersSteps

LEMMA BooksFault ==
    ASSUME BooksInv, NEW left \in {"FAILED", "RUNNING"}, Books!Fault("caller", left)
    PROVE  BooksInv'
  <1>1. PICK k : k = callers["caller"] OBVIOUS
  <1>2. /\ UNCHANGED <<books, tampered, disturbed>>
        /\ callers' = [callers EXCEPT !["caller"] = Books!Idle]
        /\ k.next \in 1..9
    BY <1>1 DEF Books!Fault, Books!Detecting, Books!Checks
  <1>3. k.scope = "market" /\ DOMAIN runs["market"] = RunRows
    BY <1>1, <1>2 DEF BooksInv, CallerSound
  <1>4. PICK r : r = [runs["market"] EXCEPT !.status = left] OBVIOUS
  <1>5. r.status = left BY <1>3, <1>4 DEF RunRows
  <1>6. runs' = [runs EXCEPT !["market"] = r] BY <1>1, <1>3, <1>4 DEF Books!Fault
  <1>7. DOMAIN runs' = {"market"} /\ runs'["market"] = r BY <1>6 DEF BooksInv
  <1>8. RunSound' BY <1>5, <1>7 DEF RunSound
  <1> QED BY <1>2, <1>7, <1>8, CallerIsIdle, CallersSteps

LEMMA BooksNext ==
    ASSUME BooksInv, Books!Next
    PROVE  BooksInv'
  <1>1. CASE \E q \in {1, 2}, p \in {1} : Books!Fill(q, p) BY <1>1, BooksFill
  <1>2. CASE \E kind \in {"SETTLEMENT", "REFUND"} : Books!PayFinal(kind) BY <1>2, BooksPayFinal
  <1>3. CASE \E c \in {"caller"} :
                 \/ \E s \in {"market"} : Books!Ask(c, s)
                 \/ Books!Create(c) \/ Books!Read(c) \/ Books!Compare(c) \/ Books!Complete(c)
                 \/ Books!Fail(c) \/ Books!Crash(c)
    BY <1>3, BooksAsk, BooksCreate, BooksRead, BooksCompare, BooksComplete, BooksFault
       DEF Books!Fail, Books!Crash
  <1>4. CASE \/ Books!PlaceBuy \/ Books!PlaceSell \/ Books!CancelBuy \/ Books!CancelSell
             \/ Books!ProposeLine \/ Books!DecideLine \/ Books!Tamper
    BY <1>4, BuyIsPlaced, SellIsPlaced, BuyIsCancelled, SellIsCancelled, LineIsProposed,
       LineIsDecided, BooksTamper
  <1> QED BY <1>1, <1>2, <1>3, <1>4 DEF Books!Next

LEMMA BooksStutter ==
    ASSUME BooksInv, UNCHANGED booksVars
    PROVE  BooksInv'
  <1>1. UNCHANGED <<books, tampered, runs, callers, disturbed>> BY DEF booksVars
  <1>2. CallerSound' /\ RunSound' BY <1>1 DEF BooksInv, CallerSound, RunSound
  <1> QED BY <1>1, <1>2, CallersSteps DEF BooksInv

-----------------------------------------------------------------------------
(* Portfolio: what the open orders hold is what wallet and positions keep  *)
(* reserved, and no position reserves more than it has; the balance moves  *)
(* with what the positions realized, with their costs and the fees, and,   *)
(* when every purchase was a fill, with what the activity shows; and the   *)
(* exits of a position that is gone account for what it realized.          *)
HistoryPositions == [quantity : Nat, reserved : Int, cost : Int, realized : Int]
CashOf(x) == IF History!Live(x) /\ x.side = "BUY"
             THEN History!BuyCommitment(History!Remaining(x), x.limit) ELSE 0
SharesIn(x, o) == IF History!Live(x) /\ x.side = "SELL" /\ x.outcome = o
                  THEN History!Remaining(x) ELSE 0
FlowOf(f, side) == (IF side = "BUY" THEN -(f.quantity * f.price) ELSE f.quantity * f.price)
                   - History!CalculateFee(f.quantity * f.price)
GainIn(x, o) == IF x.outcome = o THEN x.realized ELSE 0

CashAt(k) == IF k \in DOMAIN orders THEN CashOf(orders[k]) ELSE 0
SharesAt(k, o) == IF k \in DOMAIN orders THEN SharesIn(orders[k], o) ELSE 0
FlowAt(n) == IF n \in DOMAIN fills THEN FlowOf(fills[n], orders[fills[n].order].side) ELSE 0
GainAt(n, o) == IF n \in DOMAIN exits THEN GainIn(exits[n], o) ELSE 0
Worths == [o \in Pair |-> position[o].realized - position[o].cost]
Payouts == [o \in Pair |-> IF paid[o] # None THEN paid[o].net ELSE 0]

RowsTyped ==
    /\ orders \in Seq(History!Orders) /\ Len(orders) <= 2
    /\ fills \in Seq(History!Fills) /\ Len(fills) <= 2
    /\ \A n \in DOMAIN fills : fills[n].order \in DOMAIN orders
    /\ (\E T : exits \in Seq(T)) /\ Len(exits) <= Len(fills)
    /\ \A n \in DOMAIN exits : exits[n].realized \in Int
    /\ status \notin {"OPEN", "VOIDED"} => \A k \in DOMAIN orders : ~History!Live(orders[k])
BalancesTyped ==
    /\ wallet \in [available : Int, reserved : Int] /\ feesOfHistory \in Int
    /\ position \in [Pair -> HistoryPositions]
    /\ \A o \in Pair : /\ position[o].quantity = 0 => position[o].cost = 0
                       /\ position[o].reserved <= position[o].quantity
    /\ DOMAIN paid = Pair /\ \A o \in Pair : paid[o] # None => paid[o].net \in Int
PricesTyped ==
    bid \in [Pair -> {2, None}] /\ last \in [Pair -> Int \cup {None}]
KeptFor(o) == position[o].reserved = SharesAt(1, o) + SharesAt(2, o)
Reserves == wallet.reserved = CashAt(1) + CashAt(2) /\ \A o \in Pair : KeptFor(o)
Wealth == wallet.available + wallet.reserved = 5 + SumOf(Worths, Pair) - feesOfHistory
Activity ==
    (\A n \in DOMAIN fills : ~fills[n].issued) =>
        wallet.available + wallet.reserved = 5 + (FlowAt(1) + FlowAt(2)) + SumOf(Payouts, Pair)
Gone(o) ==
    position[o].quantity = 0 /\ paid[o] = None =>
        position[o].realized = GainAt(1, o) + GainAt(2, o)
HistoryInv ==
    /\ RowsTyped /\ BalancesTyped /\ PricesTyped
    /\ Reserves /\ Wealth /\ Activity /\ \A o \in Pair : Gone(o)

LEMMA TotalIsSum ==
    ASSUME NEW f
    PROVE  History!Total(f) = SumOf(f, DOMAIN f)
  BY DEF History!Total, History!MapThenSumSet, History!MapThenFoldSet, SumOf, Some

LEMMA TotalOfTwo ==
    ASSUME NEW S, S \subseteq {1, 2}, NEW f, DOMAIN f = S, \A k \in S : f[k] \in Int
    PROVE  History!Total(f) = (IF 1 \in S THEN f[1] ELSE 0) + (IF 2 \in S THEN f[2] ELSE 0)
  BY TotalIsSum, SumOfPair

LEMMA TotalOfSome ==
    ASSUME NEW R \in SUBSET Pair, NEW f, DOMAIN f = R, NEW g, \A o \in Pair : g[o] \in Int,
           \A o \in R : f[o] = g[o], \A o \in Pair \ R : g[o] = 0
    PROVE  History!Total(f) = SumOf(g, Pair)
  <1>1. IsFiniteSet(Pair) /\ IsFiniteSet(R) BY BoundsAssumption, FS_Subset
  <1>2. SumOf(g, R) = SumOf(g, Pair) BY <1>1, SumOfPart
  <1>3. SumOf(f, R) = SumOf(g, R) BY <1>1, SumsAgree
  <1> QED BY <1>2, <1>3, TotalIsSum

LEMMA FeeIsInteger ==
    ASSUME NEW c \in Int
    PROVE  History!CalculateFee(c) \in Int
  BY DEF History!CalculateFee, History!HalfUp

LEMMA CommitmentIs ==
    ASSUME NEW q \in Int, NEW l \in Int
    PROVE  History!BuyCommitment(q, l) \in Int /\ History!BuyCommitment(0, l) = 0
  <1>1. PICK c \in Int : c = q * l OBVIOUS
  <1>2. History!BuyCommitment(q, l) \in Int BY <1>1 DEF History!BuyCommitment
  <1>3. History!BuyCommitment(0, l) = 0 BY DEF History!BuyCommitment
  <1> QED BY <1>2, <1>3

LEMMA OrdersHold ==
    ASSUME NEW x \in History!Orders
    PROVE  /\ History!Remaining(x) \in Int /\ CashOf(x) \in Int /\ x.limit \in Int
           /\ \A o : SharesIn(x, o) \in Nat
           /\ ~History!Live(x) => CashOf(x) = 0 /\ \A o : SharesIn(x, o) = 0
  <1>1. History!Remaining(x) \in Int /\ x.limit \in Int BY DEF History!Orders, History!Remaining
  <1>2. CashOf(x) \in Int
    <2>1. History!BuyCommitment(History!Remaining(x), x.limit) \in Int BY <1>1, CommitmentIs
    <2> QED BY <2>1 DEF CashOf
  <1>3. \A o : SharesIn(x, o) \in Nat BY <1>1 DEF SharesIn, History!Live
  <1> QED BY <1>1, <1>2, <1>3 DEF CashOf, SharesIn

LEMMA PlacesHold ==
    ASSUME RowsTyped, NEW k
    PROVE  /\ CashAt(k) \in Int /\ FlowAt(k) \in Int
           /\ \A o : SharesAt(k, o) \in Nat /\ GainAt(k, o) \in Int
  <1>1. k \in DOMAIN orders => orders[k] \in History!Orders BY DEF RowsTyped
  <1>2. CashAt(k) \in Int /\ \A o : SharesAt(k, o) \in Nat BY <1>1, OrdersHold DEF CashAt, SharesAt
  <1>3. \A o : GainAt(k, o) \in Int BY DEF RowsTyped, GainAt, GainIn
  <1>4. FlowAt(k) \in Int
    <2>1. k \in DOMAIN fills => fills[k] \in History!Fills BY DEF RowsTyped
    <2>2. k \in DOMAIN fills => fills[k].quantity * fills[k].price \in Int BY <2>1 DEF History!Fills
    <2> QED BY <2>2, FeeIsInteger DEF FlowAt, FlowOf
  <1> QED BY <1>2, <1>3, <1>4

(* What the open orders among some hold, of the cash and of an outcome.    *)
LEMMA ReleasesAre ==
    ASSUME RowsTyped, NEW S \in SUBSET History!LiveOrders
    PROVE  /\ History!Releases(S) = (IF 1 \in S THEN CashAt(1) ELSE 0)
                                    + (IF 2 \in S THEN CashAt(2) ELSE 0)
           /\ \A o : History!SharesOf(S, o) = (IF 1 \in S THEN SharesAt(1, o) ELSE 0)
                                              + (IF 2 \in S THEN SharesAt(2, o) ELSE 0)
  <1>1. S \subseteq {1, 2} /\ \A k \in S : k \in DOMAIN orders /\ History!Live(orders[k])
    BY DEF RowsTyped, History!LiveOrders
  <1>2. \A k \in S : orders[k] \in History!Orders BY <1>1 DEF RowsTyped
  <1>3. PICK f : f = [i \in S |-> IF orders[i].side = "BUY"
                        THEN History!BuyCommitment(History!Remaining(orders[i]), orders[i].limit)
                        ELSE 0]
    OBVIOUS
  <1>4. DOMAIN f = S /\ \A k \in S : f[k] = CashAt(k) /\ f[k] \in Int
    <2>1. ASSUME NEW k \in S PROVE f[k] = CashOf(orders[k]) BY <1>1, <1>3 DEF CashOf
    <2> QED BY <1>1, <1>2, <1>3, <2>1, OrdersHold DEF CashAt
  <1>5. History!Releases(S) = (IF 1 \in S THEN CashAt(1) ELSE 0)
                              + (IF 2 \in S THEN CashAt(2) ELSE 0)
    <2>1. History!Releases(S) = History!Total(f) BY <1>3 DEF History!Releases
    <2>2. History!Total(f) = (IF 1 \in S THEN f[1] ELSE 0) + (IF 2 \in S THEN f[2] ELSE 0)
      BY <1>1, <1>4, TotalOfTwo
    <2> QED BY <1>4, <2>1, <2>2
  <1>6. ASSUME NEW o
        PROVE  History!SharesOf(S, o) = (IF 1 \in S THEN SharesAt(1, o) ELSE 0)
                                        + (IF 2 \in S THEN SharesAt(2, o) ELSE 0)
    <2>1. PICK g : g = [i \in S |-> IF orders[i].side = "SELL" /\ orders[i].outcome = o
                                    THEN History!Remaining(orders[i]) ELSE 0]
      OBVIOUS
    <2>2. DOMAIN g = S /\ \A k \in S : g[k] = SharesAt(k, o) /\ g[k] \in Int
      <3>1. ASSUME NEW k \in S PROVE g[k] = SharesIn(orders[k], o) BY <1>1, <2>1 DEF SharesIn
      <3> QED BY <1>1, <1>2, <2>1, <3>1, OrdersHold DEF SharesAt
    <2>3. History!SharesOf(S, o) = History!Total(g) BY <2>1 DEF History!SharesOf
    <2>4. History!Total(g) = (IF 1 \in S THEN g[1] ELSE 0) + (IF 2 \in S THEN g[2] ELSE 0)
      BY <1>1, <2>2, TotalOfTwo
    <2> QED BY <2>2, <2>3, <2>4
  <1> QED BY <1>5, <1>6

LEMMA LiveAreAll ==
    ASSUME RowsTyped, NEW k, k \notin History!LiveOrders
    PROVE  CashAt(k) = 0 /\ \A o : SharesAt(k, o) = 0
  <1>1. k \in DOMAIN orders => orders[k] \in History!Orders /\ ~History!Live(orders[k])
    BY DEF RowsTyped, History!LiveOrders
  <1> QED BY <1>1, OrdersHold DEF CashAt, SharesAt

LEMMA AllReleasesAre ==
    ASSUME RowsTyped
    PROVE  /\ History!Releases(History!LiveOrders) = CashAt(1) + CashAt(2)
           /\ \A o : History!SharesOf(History!LiveOrders, o) = SharesAt(1, o) + SharesAt(2, o)
  BY ReleasesAre, LiveAreAll

(* What the activity and the exits add up to.                              *)
LEMMA ActivityIs ==
    ASSUME RowsTyped, BalancesTyped, \A n \in DOMAIN fills : ~fills[n].issued
    PROVE  /\ History!ActivityCash \in Int /\ History!TradingFees \in Int
           /\ SumOf(Payouts, Pair) \in Int
           /\ History!ActivityCash - History!TradingFees
                  = FlowAt(1) + FlowAt(2) + SumOf(Payouts, Pair)
  <1>1. PICK D : D = DOMAIN fills OBVIOUS
  <1>2. D \subseteq {1, 2} /\ \A n \in D : fills[n] \in History!Fills /\ ~fills[n].issued
    BY <1>1 DEF RowsTyped
  <1>3. PICK c, f : /\ c = [n \in D |-> IF orders[fills[n].order].side = "BUY"
                               THEN -(fills[n].quantity * fills[n].price)
                               ELSE fills[n].quantity * fills[n].price]
                    /\ f = [n \in D |->
                               History!CalculateFee(fills[n].quantity * fills[n].price)]
    OBVIOUS
  <1>4. /\ DOMAIN c = D /\ DOMAIN f = D
        /\ \A n \in D : c[n] \in Int /\ f[n] \in Int /\ c[n] - f[n] = FlowAt(n)
    <2>1. \A n \in D : fills[n].quantity * fills[n].price \in Int BY <1>2 DEF History!Fills
    <2> QED BY <1>1, <1>3, <2>1, FeeIsInteger DEF FlowAt, FlowOf
  <1>5. History!TradingFees = History!Total(f) BY <1>1, <1>3 DEF History!TradingFees
  <1>6. History!Total([n \in History!FillEvents |-> History!FillCash(n)]) = History!Total(c)
    BY <1>1, <1>2, <1>3 DEF History!FillEvents, History!FillCash
  <1>7. PICK R \in SUBSET Pair : R = History!PayoutEvents BY DEF History!PayoutEvents
  <1>8. History!Total([o \in R |-> paid[o].net]) = SumOf(Payouts, Pair)
    <2>1. PICK h : h = [o \in R |-> paid[o].net] OBVIOUS
    <2>2. PICK p : p = Payouts OBVIOUS
    <2>3. \A o \in Pair : p[o] \in Int /\ (o \in R => h[o] = p[o]) /\ (o \notin R => p[o] = 0)
      BY <1>7, <2>1, <2>2 DEF Payouts, BalancesTyped, History!PayoutEvents
    <2>4. DOMAIN h = R BY <2>1
    <2>5. History!Total(h) = SumOf(p, Pair) BY <2>3, <2>4, TotalOfSome
    <2> QED BY <2>1, <2>2, <2>5
  <1>9. /\ History!Total(c) = (IF 1 \in D THEN c[1] ELSE 0) + (IF 2 \in D THEN c[2] ELSE 0)
        /\ History!Total(f) = (IF 1 \in D THEN f[1] ELSE 0) + (IF 2 \in D THEN f[2] ELSE 0)
    BY <1>2, <1>4, TotalOfTwo
  <1>10. \A n : n \notin D => FlowAt(n) = 0 BY <1>1 DEF FlowAt
  <1>11. History!ActivityCash = History!Total(c) + SumOf(Payouts, Pair)
    BY <1>6, <1>7, <1>8 DEF History!ActivityCash
  <1>12. SumOf(Payouts, Pair) \in Int BY SumIsInteger, BoundsAssumption DEF Payouts, BalancesTyped
  <1>13. /\ History!Total(c) \in Int /\ History!Total(f) \in Int
         /\ History!Total(c) - History!Total(f) = FlowAt(1) + FlowAt(2)
    BY <1>4, <1>9, <1>10
  <1>14. FlowAt(1) \in Int /\ FlowAt(2) \in Int BY PlacesHold
  <1> QED BY <1>5, <1>11, <1>12, <1>13, <1>14

LEMMA ExitsAre ==
    ASSUME RowsTyped, NEW o \in Pair, NEW mine, mine = {n \in DOMAIN exits : exits[n].outcome = o}
    PROVE  History!Total([n \in mine |-> exits[n].realized]) = GainAt(1, o) + GainAt(2, o)
  <1>1. PICK f : f = [n \in mine |-> exits[n].realized] OBVIOUS
  <1>2. mine \subseteq {1, 2} /\ DOMAIN f = mine /\ \A n \in mine : f[n] = GainAt(n, o)
    BY <1>1 DEF RowsTyped, GainAt, GainIn
  <1>3. \A n \in mine : f[n] \in Int BY <1>1 DEF RowsTyped
  <1>4. \A n : n \notin mine => GainAt(n, o) = 0 BY DEF GainAt, GainIn
  <1>5. History!Total(f) = (IF 1 \in mine THEN f[1] ELSE 0) + (IF 2 \in mine THEN f[2] ELSE 0)
    BY <1>2, <1>3, TotalOfTwo
  <1> QED BY <1>1, <1>2, <1>4, <1>5

(* The profit shown is the wealth: what is marked on both sides cancels    *)
(* out, and what is not held has no cost.                                  *)
LEMMA MarksAreIntegers ==
    ASSUME BalancesTyped, PricesTyped, NEW o \in History!Held, History!Mark(o) # None
    PROVE  History!MarketValue(o) \in Int
  <1>1. /\ o \in Pair /\ position[o] \in HistoryPositions /\ position[o].quantity > 0
        /\ bid[o] \in {2, None} /\ last[o] \in Int \cup {None}
    BY DEF BalancesTyped, PricesTyped, History!Held
  <1>2. History!HalfUp(position[o].cost, position[o].quantity) \in Int
    BY <1>1 DEF HistoryPositions, History!HalfUp
  <1>3. History!Mark(o) \in Int BY <1>1, <1>2 DEF History!Mark
  <1> QED BY <1>1, <1>3 DEF History!MarketValue, HistoryPositions

LEMMA ProfitShown ==
    ASSUME BalancesTyped, PricesTyped, Wealth
    PROVE  History!ProfitIsWealth
  <1> SUFFICES ASSUME History!ValuationComplete
               PROVE  History!TotalBalance
                          + History!Total([o \in History!Marked |-> History!MarketValue(o)])
                      = 5 + History!TotalPnl - feesOfHistory
    BY DEF History!ProfitIsWealth
  <1>1. PICK M \in SUBSET Pair : M = History!Marked /\ M = History!Held
    BY DEF History!ValuationComplete, History!Held
  <1>2. PICK v, c, u, r, w :
            /\ v = [o \in Pair |-> IF o \in M THEN History!MarketValue(o) ELSE 0]
            /\ c = [o \in Pair |-> position[o].cost]
            /\ u = [o \in Pair |-> IF o \in M THEN History!UnrealizedPnl(o) ELSE 0]
            /\ r = [o \in Pair |-> position[o].realized]
            /\ w = Worths
    OBVIOUS
  <1>3. \A o \in Pair : /\ position[o].cost \in Int /\ position[o].realized \in Int
                        /\ o \in M => History!MarketValue(o) \in Int
                        /\ o \notin M => position[o].cost = 0
    BY <1>1, MarksAreIntegers
       DEF BalancesTyped, HistoryPositions, History!Held, History!Marked
  <1>4. \A o \in Pair : /\ v[o] \in Int /\ c[o] \in Int /\ u[o] \in Int /\ r[o] \in Int
                        /\ u[o] = v[o] + (-1) * c[o] /\ w[o] = r[o] + (-1) * c[o]
                        /\ w[o] \in Int
    BY <1>2, <1>3 DEF History!UnrealizedPnl, Worths
  <1>5. /\ SumOf(v, Pair) \in Int /\ SumOf(c, Pair) \in Int /\ SumOf(r, Pair) \in Int
        /\ SumOf(u, Pair) = SumOf(v, Pair) + (-1) * SumOf(c, Pair)
        /\ SumOf(w, Pair) = SumOf(r, Pair) + (-1) * SumOf(c, Pair)
    <2>1. IsFiniteSet(Pair) BY BoundsAssumption
    <2>2. SumOf(v, Pair) \in Int /\ SumOf(c, Pair) \in Int /\ SumOf(r, Pair) \in Int
      BY <1>4, <2>1, SumIsInteger
    <2>3. -1 \in Int OBVIOUS
    <2>4. SumOf(u, Pair) = SumOf(v, Pair) + (-1) * SumOf(c, Pair) BY <1>4, <2>1, <2>3, SumIsLinear
    <2>5. SumOf(w, Pair) = SumOf(r, Pair) + (-1) * SumOf(c, Pair) BY <1>4, <2>1, <2>3, SumIsLinear
    <2> QED BY <2>2, <2>4, <2>5
  <1>6. History!Total([o \in M |-> History!MarketValue(o)]) = SumOf(v, Pair)
    <2>1. PICK f : f = [o \in M |-> History!MarketValue(o)] OBVIOUS
    <2>2. DOMAIN f = M /\ (\A o \in M : f[o] = v[o]) /\ \A o \in Pair \ M : v[o] = 0 BY <1>2, <2>1
    <2>3. History!Total(f) = SumOf(v, Pair) BY <1>4, <2>2, TotalOfSome
    <2> QED BY <2>1, <2>3
  <1>7. History!Total([o \in M |-> History!UnrealizedPnl(o)]) = SumOf(u, Pair)
    <2>1. PICK f : f = [o \in M |-> History!UnrealizedPnl(o)] OBVIOUS
    <2>2. DOMAIN f = M /\ (\A o \in M : f[o] = u[o]) /\ \A o \in Pair \ M : u[o] = 0 BY <1>2, <2>1
    <2>3. History!Total(f) = SumOf(u, Pair) BY <1>4, <2>2, TotalOfSome
    <2> QED BY <2>1, <2>3
  <1>8. History!Total([o \in Pair |-> position[o].realized]) = SumOf(r, Pair) BY <1>2, TotalIsSum
  <1>9. History!TotalPnl = SumOf(r, Pair) + SumOf(u, Pair) BY <1>1, <1>7, <1>8 DEF History!TotalPnl
  <1>10. feesOfHistory \in Int /\ wallet.available \in Int /\ wallet.reserved \in Int
    BY DEF BalancesTyped
  <1>11. wallet.available + wallet.reserved = 5 + SumOf(w, Pair) - feesOfHistory BY <1>2 DEF Wealth
  <1> QED BY <1>1, <1>5, <1>6, <1>9, <1>10, <1>11 DEF History!TotalBalance

LEMMA HistoryInvSays == HistoryInv => History!PortfolioAddsUp
  <1> SUFFICES ASSUME HistoryInv PROVE History!PortfolioAddsUp OBVIOUS
  <1>1. RowsTyped /\ BalancesTyped /\ PricesTyped /\ Reserves /\ Wealth /\ Activity
    BY DEF HistoryInv
  <1>2. History!ProfitIsWealth BY <1>1, ProfitShown
  <1>3. History!ActivityIsCash
    BY <1>1, ActivityIs, PlacesHold DEF History!ActivityIsCash, Activity, History!TotalBalance
  <1>4. History!ReservationsAgree BY <1>1, AllReleasesAre
       DEF History!ReservationsAgree, History!ReservedBuyAmount, History!ReservedSellQuantity,
           Reserves, KeptFor
  <1>5. History!ExitsExplainProfit
    <2> SUFFICES ASSUME NEW o \in Pair, o \notin History!Held, paid[o] = None
                 PROVE  History!Total([n \in {m \in DOMAIN exits : exits[m].outcome = o} |->
                                           exits[n].realized]) = position[o].realized
      BY DEF History!ExitsExplainProfit
    <2>1. position[o].quantity = 0 BY <1>1 DEF BalancesTyped, HistoryPositions, History!Held
    <2>2. position[o].realized = GainAt(1, o) + GainAt(2, o) BY <2>1 DEF HistoryInv, Gone
    <2> QED BY <1>1, <2>2, ExitsAre
  <1> QED BY <1>2, <1>3, <1>4, <1>5 DEF History!PortfolioAddsUp

LEMMA HistoryInit == History!Init => HistoryInv
  <1> SUFFICES ASSUME History!Init PROVE HistoryInv OBVIOUS
  <1>1. PICK z : z = [quantity |-> 0, reserved |-> 0, cost |-> 0, realized |-> 0] OBVIOUS
  <1>2. /\ status = "OPEN" /\ wallet = [available |-> 5, reserved |-> 0]
        /\ position = [o \in Pair |-> z] /\ orders = <<>> /\ fills = <<>> /\ exits = <<>>
        /\ paid = [o \in Pair |-> None] /\ feesOfHistory = 0
        /\ bid = [o \in Pair |-> None] /\ last = [o \in Pair |-> None]
    BY <1>1 DEF History!Init
  <1>3. /\ z \in HistoryPositions /\ z.quantity = 0 /\ z.reserved = 0 /\ z.cost = 0
        /\ z.realized = 0
    BY <1>1 DEF HistoryPositions
  <1>4. RowsTyped BY <1>2 DEF RowsTyped
  <1>5. BalancesTyped BY <1>2, <1>3 DEF BalancesTyped
  <1>6. PricesTyped BY <1>2 DEF PricesTyped
  <1>7. \A n : CashAt(n) = 0 /\ FlowAt(n) = 0 /\ \A o : SharesAt(n, o) = 0 /\ GainAt(n, o) = 0
    BY <1>2 DEF CashAt, FlowAt, SharesAt, GainAt
  <1>8. \A f : (\A o \in Pair : f[o] = 0) => SumOf(f, Pair) = 0
    BY BoundsAssumption, SumOfPart, SumOfNothing
  <1>9. SumOf(Worths, Pair) = 0 /\ SumOf(Payouts, Pair) = 0 BY <1>2, <1>3, <1>8 DEF Worths, Payouts
  <1>10. Reserves BY <1>2, <1>3, <1>7 DEF Reserves, KeptFor
  <1>11. Wealth /\ Activity BY <1>2, <1>7, <1>9 DEF Wealth, Activity
  <1>12. \A o \in Pair : Gone(o) BY <1>2, <1>3, <1>7 DEF Gone
  <1> QED BY <1>4, <1>5, <1>6, <1>10, <1>11, <1>12 DEF HistoryInv

(* What each part of the invariant is about.                               *)
LEMMA RowsStand ==
    ASSUME UNCHANGED <<orders, fills, exits>>
    PROVE  /\ \A k : CashAt(k)' = CashAt(k) /\ FlowAt(k)' = FlowAt(k)
           /\ \A k, o : SharesAt(k, o)' = SharesAt(k, o) /\ GainAt(k, o)' = GainAt(k, o)
  BY DEF CashAt, FlowAt, SharesAt, GainAt

LEMMA MoneyStands ==
    ASSUME HistoryInv, RowsTyped', PricesTyped',
           UNCHANGED <<wallet, position, orders, fills, exits, paid, feesOfHistory>>
    PROVE  HistoryInv'
  <1>1. BalancesTyped' BY DEF HistoryInv, BalancesTyped
  <1>2. Reserves' BY RowsStand DEF HistoryInv, Reserves, KeptFor
  <1>3. Worths' = Worths /\ Payouts' = Payouts BY DEF Worths, Payouts
  <1>4. Wealth' BY <1>3 DEF HistoryInv, Wealth
  <1>5. Activity' BY <1>3, RowsStand DEF HistoryInv, Activity
  <1>6. \A o \in Pair : Gone(o)' BY RowsStand DEF HistoryInv, Gone
  <1> QED BY <1>1, <1>2, <1>4, <1>5, <1>6 DEF HistoryInv

LEMMA HistoryWaits ==
    ASSUME HistoryInv,
           \/ \E o \in Pair : History!Resolve(o)
           \/ History!Void \/ History!Showing \/ History!Others
    PROVE  HistoryInv'
  <1>1. /\ UNCHANGED <<wallet, position, orders, fills, exits, paid, feesOfHistory, last>>
        /\ UNCHANGED bid \/ \E o \in Pair, b \in {2, None} : bid' = [bid EXCEPT ![o] = b]
        /\ status' \in {"OPEN", "VOIDED"} \/ status \notin {"OPEN", "VOIDED"}
    BY DEF History!Resolve, History!Void, History!Showing, History!ReadOrders,
           History!ReadWallet, History!Others, History!OthersBid, History!rows, History!market
  <1>2. RowsTyped' BY <1>1 DEF HistoryInv, RowsTyped
  <1>3. PricesTyped' BY <1>1 DEF HistoryInv, PricesTyped
  <1> QED BY <1>1, <1>2, <1>3, MoneyStands

LEMMA HistoryStutter ==
    ASSUME HistoryInv, UNCHANGED historyVars
    PROVE  HistoryInv'
  <1>1. UNCHANGED <<wallet, position, orders, fills, exits, paid, feesOfHistory, last, bid,
                    status>>
    BY DEF historyVars
  <1>2. RowsTyped' /\ PricesTyped' BY <1>1 DEF HistoryInv, RowsTyped, PricesTyped
  <1> QED BY <1>1, <1>2, MoneyStands

(* A new order holds what it reserves.                                     *)
LEMMA OrderIsPlaced ==
    ASSUME HistoryInv, NEW o \in History!NewOrders, History!PlaceOrder(o)
    PROVE  HistoryInv'
  <1>1. PICK need : need = IF o.side = "BUY" THEN History!BuyCommitment(o.quantity, o.limit) ELSE 0
    OBVIOUS
  <1>2. /\ status = "OPEN" /\ Len(orders) < 2
        /\ o.side = "SELL" => position[o.outcome].quantity - position[o.outcome].reserved >= o.quantity
        /\ orders' = Append(orders, o)
        /\ wallet' = [available |-> wallet.available - need, reserved |-> wallet.reserved + need]
        /\ position' = IF o.side = "BUY" THEN position
                       ELSE [position EXCEPT ![o.outcome].reserved = @ + o.quantity]
        /\ UNCHANGED <<status, fills, exits, paid, feesOfHistory, bid, last>>
    BY <1>1 DEF History!PlaceOrder, History!market
  <1>3. /\ o \in History!Orders /\ o.outcome \in Pair /\ o.quantity \in Nat /\ need \in Int
        /\ CashOf(o) = need
        /\ \A x : SharesIn(o, x) = IF o.side = "SELL" /\ o.outcome = x THEN o.quantity ELSE 0
    <2>1. /\ o \in History!Orders /\ o.outcome \in Pair /\ o.quantity \in {1, 2} /\ o.filled = 0
          /\ o.status = "OPEN" /\ o.side \in {"BUY", "SELL"} /\ o.limit \in Int
      BY DEF History!NewOrders, History!Orders, History!Active
    <2>2. History!Remaining(o) = o.quantity /\ History!Live(o)
      BY <2>1 DEF History!Remaining, History!Live, History!Active
    <2>3. need \in Int
      <3>1. o.quantity \in Int /\ o.limit \in Int BY <2>1
      <3>2. History!BuyCommitment(o.quantity, o.limit) \in Int BY <3>1, CommitmentIs
      <3> QED BY <1>1, <3>2
    <2> QED BY <1>1, <2>1, <2>2, <2>3 DEF CashOf, SharesIn
  <1>4. PICK m : m = Len(orders) + 1 OBVIOUS
  <1>5. /\ m \in {1, 2} /\ DOMAIN orders = 1..(m - 1) /\ DOMAIN orders' = 1..m
        /\ orders' \in Seq(History!Orders) /\ Len(orders') <= 2 /\ orders'[m] = o
        /\ \A k \in DOMAIN orders : k # m /\ k \in DOMAIN orders' /\ orders'[k] = orders[k]
    BY <1>2, <1>3, <1>4 DEF HistoryInv, RowsTyped
  <1>6. /\ CashAt(m) = 0 /\ CashAt(m)' = need /\ \A k \in {1, 2} \ {m} : CashAt(k)' = CashAt(k)
        /\ \A x : /\ SharesAt(m, x) = 0 /\ SharesAt(m, x)' = SharesIn(o, x)
                  /\ \A k \in {1, 2} \ {m} : SharesAt(k, x)' = SharesAt(k, x)
    BY <1>3, <1>5 DEF CashAt, SharesAt
  <1>7. /\ \A n : FlowAt(n)' = FlowAt(n)
        /\ \A n, x : GainAt(n, x)' = GainAt(n, x)
    BY <1>2, <1>5 DEF HistoryInv, RowsTyped, FlowAt, GainAt
  <1>8. /\ position' \in [Pair -> HistoryPositions]
        /\ \A x \in Pair : /\ position'[x].quantity = position[x].quantity
                           /\ position'[x].cost = position[x].cost
                           /\ position'[x].realized = position[x].realized
                           /\ position'[x].reserved = position[x].reserved + SharesIn(o, x)
                           /\ position'[x].reserved <= position'[x].quantity
    <2>1. CASE o.side = "BUY" BY <1>2, <1>3, <2>1 DEF HistoryInv, BalancesTyped, HistoryPositions
    <2>2. CASE o.side = "SELL"
      <3>1. PICK y, h, r : y = o.outcome /\ h = position[y] /\ r = h.reserved + o.quantity OBVIOUS
      <3>2. /\ y \in Pair /\ h \in HistoryPositions /\ r \in Int /\ r <= h.quantity
            /\ position \in [Pair -> HistoryPositions]
            /\ \A x \in Pair : position[x].reserved <= position[x].quantity
        <4>1. /\ position \in [Pair -> HistoryPositions]
              /\ \A x \in Pair : position[x].reserved <= position[x].quantity
          BY DEF HistoryInv, BalancesTyped
        <4>2. h \in HistoryPositions BY <1>3, <3>1, <4>1
        <4>3. h.reserved \in Int /\ h.quantity \in Nat BY <4>2 DEF HistoryPositions
        <4>4. h.quantity - h.reserved >= o.quantity BY <1>2, <2>2, <3>1
        <4>5. r \in Int /\ r <= h.quantity BY <1>3, <3>1, <4>3, <4>4
        <4> QED BY <1>3, <3>1, <4>1, <4>2, <4>5
      <3>3. PICK n : n = [h EXCEPT !.reserved = r] OBVIOUS
      <3>4. /\ n \in HistoryPositions /\ n.quantity = h.quantity /\ n.cost = h.cost
            /\ n.realized = h.realized /\ n.reserved = r
        BY <3>2, <3>3 DEF HistoryPositions
      <3>5. position' = [position EXCEPT ![y] = n] BY <1>2, <2>2, <3>1, <3>3
      <3>6. \A x \in Pair : position[x].reserved \in Int BY <3>2 DEF HistoryPositions
      <3> QED BY <1>3, <2>2, <3>1, <3>2, <3>4, <3>5, <3>6
    <2> QED BY <2>1, <2>2 DEF History!NewOrders
  <1>9. RowsTyped' BY <1>2, <1>5 DEF HistoryInv, RowsTyped
  <1>10. /\ wallet' \in [available : Int, reserved : Int]
         /\ wallet'.available + wallet'.reserved = wallet.available + wallet.reserved
         /\ wallet'.reserved = wallet.reserved + need
    BY <1>2, <1>3 DEF HistoryInv, BalancesTyped
  <1>11. BalancesTyped' /\ PricesTyped'
    BY <1>2, <1>8, <1>10 DEF HistoryInv, BalancesTyped, PricesTyped
  <1>12. Reserves'
    <2>1. CashAt(1)' + CashAt(2)' = CashAt(1) + CashAt(2) + need
      BY <1>3, <1>5, <1>6, PlacesHold DEF HistoryInv
    <2>2. ASSUME NEW x \in Pair PROVE KeptFor(x)'
      <3>1. SharesAt(1, x)' + SharesAt(2, x)' = SharesAt(1, x) + SharesAt(2, x) + SharesIn(o, x)
        BY <1>3, <1>5, <1>6, PlacesHold DEF HistoryInv
      <3> QED BY <1>8, <3>1 DEF HistoryInv, Reserves, KeptFor
    <2> QED BY <1>10, <2>1, <2>2 DEF HistoryInv, Reserves
  <1>13. Worths' = Worths /\ Payouts' = Payouts BY <1>2, <1>8 DEF Worths, Payouts
  <1>14. Wealth' /\ Activity' BY <1>2, <1>7, <1>10, <1>13 DEF HistoryInv, Wealth, Activity
  <1>15. \A x \in Pair : Gone(x)' BY <1>2, <1>7, <1>8 DEF HistoryInv, Gone
  <1> QED BY <1>9, <1>11, <1>12, <1>14, <1>15 DEF HistoryInv

(* What an execution does to the order and adds to the fills.              *)
OrderFills(i, q, left) ==
    /\ left \in Int /\ q <= left /\ orders[i].limit \in Int /\ orders[i].outcome \in Pair
    /\ orders' \in Seq(History!Orders) /\ DOMAIN orders' = DOMAIN orders
    /\ Len(orders') <= 2
    /\ \A k \in DOMAIN orders : orders'[k].side = orders[k].side
    /\ \A k : k # i => CashAt(k)' = CashAt(k) /\ \A x : SharesAt(k, x)' = SharesAt(k, x)
    /\ orders[i].side = "BUY" =>
           /\ CashAt(i) = History!BuyCommitment(left, orders[i].limit)
           /\ CashAt(i)' = History!BuyCommitment(left - q, orders[i].limit)
           /\ \A x : SharesAt(i, x) = 0 /\ SharesAt(i, x)' = 0
    /\ orders[i].side = "SELL" =>
           /\ CashAt(i) = 0 /\ CashAt(i)' = 0
           /\ \A x : /\ SharesAt(i, x) = (IF orders[i].outcome = x THEN left ELSE 0)
                     /\ SharesAt(i, x)' = (IF orders[i].outcome = x THEN left - q ELSE 0)

LEMMA OrderIsFilled ==
    ASSUME HistoryInv, NEW i \in DOMAIN orders, NEW q \in {1, 2}, NEW p \in {1, 3},
           NEW minted \in BOOLEAN, History!Execute(i, q, p, minted),
           NEW left, left = History!Remaining(orders[i])
    PROVE  OrderFills(i, q, left)
  <1>1. PICK x, y : x = orders[i] /\ y = orders'[i] OBVIOUS
  <1>2. /\ x \in History!Orders /\ History!Live(x) /\ q <= left
        /\ orders' = [orders EXCEPT ![i].filled = @ + q,
                                    ![i].status = IF left = q THEN "FILLED"
                                                  ELSE "PARTIALLY_FILLED"]
    BY <1>1 DEF History!Execute, History!LiveOrders, History!FilledBy, HistoryInv, RowsTyped
  <1>3. /\ x.side \in {"BUY", "SELL"} /\ x.outcome \in Pair /\ x.quantity \in {1, 2}
        /\ x.filled \in Nat /\ x.limit \in {1, 3}
        /\ left = x.quantity - x.filled
    BY <1>1, <1>2 DEF History!Orders, History!Remaining
  <1>4. PICK f, s : /\ f = x.filled + q
                    /\ s = IF left = q THEN "FILLED" ELSE "PARTIALLY_FILLED"
    OBVIOUS
  <1>5. f \in Nat /\ x.quantity - f = left - q BY <1>3, <1>4
  <1>6. PICK z : z = [x EXCEPT !.filled = f, !.status = s] OBVIOUS
  <1>7. orders' = [orders EXCEPT ![i] = z] BY <1>1, <1>2, <1>4, <1>6
  <1>8. /\ z \in History!Orders /\ z.side = x.side /\ z.outcome = x.outcome
        /\ z.quantity = x.quantity /\ z.limit = x.limit /\ z.filled = f /\ z.status = s
    BY <1>2, <1>3, <1>4, <1>5, <1>6 DEF History!Orders, History!Active
  <1>9. /\ orders \in Seq(History!Orders) /\ Len(orders) <= 2 BY DEF HistoryInv, RowsTyped
  <1>10. /\ orders' \in Seq(History!Orders) /\ DOMAIN orders' = DOMAIN orders
         /\ Len(orders') <= 2 /\ orders'[i] = z
         /\ \A k \in DOMAIN orders \ {i} : orders'[k] = orders[k]
    BY <1>7, <1>8, <1>9
  <1>11. /\ History!Remaining(z) = left - q
         /\ History!Live(z) <=> left # q
    BY <1>2, <1>3, <1>4, <1>5, <1>8 DEF History!Remaining, History!Live, History!Active
  <1>12. /\ left \in Int /\ x.limit \in Int /\ History!Remaining(x) = left BY <1>1, <1>3
  <1>13. CASE x.side = "BUY"
    <2>1. CashOf(x) = History!BuyCommitment(left, x.limit) /\ \A w : SharesIn(x, w) = 0
      BY <1>2, <1>12, <1>13 DEF CashOf, SharesIn
    <2>2. History!BuyCommitment(0, x.limit) = 0 BY <1>12, CommitmentIs
    <2>3. CashOf(z) = History!BuyCommitment(left - q, x.limit)
      <3>1. left = q => left - q = 0 OBVIOUS
      <3> QED BY <1>8, <1>11, <1>13, <2>2, <3>1 DEF CashOf
    <2>4. \A w : SharesIn(z, w) = 0 BY <1>8, <1>13 DEF SharesIn
    <2> QED BY <1>1, <1>2, <1>3, <1>8, <1>10, <1>12, <1>13, <2>1, <2>3, <2>4
            DEF CashAt, SharesAt, OrderFills
  <1>14. CASE x.side = "SELL"
    <2>1. CashOf(x) = 0 /\ CashOf(z) = 0 BY <1>8, <1>14 DEF CashOf
    <2>2. /\ \A w : SharesIn(x, w) = (IF x.outcome = w THEN left ELSE 0)
          /\ \A w : SharesIn(z, w) = (IF x.outcome = w THEN left - q ELSE 0)
      BY <1>2, <1>8, <1>11, <1>12, <1>14 DEF SharesIn
    <2> QED BY <1>1, <1>2, <1>3, <1>8, <1>10, <1>12, <1>14, <2>1, <2>2
            DEF CashAt, SharesAt, OrderFills
  <1> QED BY <1>3, <1>13, <1>14

LEMMA FillIsAdded ==
    ASSUME HistoryInv, NEW i \in DOMAIN orders, NEW q \in {1, 2}, NEW p \in {1, 3},
           NEW minted \in BOOLEAN, History!Execute(i, q, p, minted)
    PROVE  /\ fills' \in Seq(History!Fills) /\ Len(fills') = Len(fills) + 1 /\ Len(fills') <= 2
           /\ \A n \in DOMAIN fills' : fills'[n].order \in DOMAIN orders'
           /\ (\A n \in DOMAIN fills' : ~fills'[n].issued) =>
                  \A n \in DOMAIN fills : ~fills[n].issued
           /\ FlowAt(1)' + FlowAt(2)' = FlowAt(1) + FlowAt(2)
                  + (IF orders[i].side = "BUY" THEN -(q * p) ELSE q * p)
                  - History!CalculateFee(q * p)
  <1>1. PICK row : row = [order |-> i, quantity |-> q, price |-> p, issued |-> minted] OBVIOUS
  <1>2. Len(fills) < 2 /\ fills' = Append(fills, row) BY <1>1 DEF History!Execute
  <1>3. /\ DOMAIN orders' = DOMAIN orders
        /\ \A k \in DOMAIN orders : orders'[k].side = orders[k].side
    BY OrderIsFilled DEF OrderFills
  <1>4. i \in Nat BY DEF HistoryInv, RowsTyped
  <1>5. row \in History!Fills /\ row.order = i /\ row.quantity = q /\ row.price = p
    BY <1>1, <1>4 DEF History!Fills
  <1>6. PICK m : m = Len(fills) + 1 OBVIOUS
  <1>7. /\ fills \in Seq(History!Fills)
        /\ \A n \in DOMAIN fills : fills[n].order \in DOMAIN orders
    BY DEF HistoryInv, RowsTyped
  <1>8. /\ m \in {1, 2} /\ DOMAIN fills = 1..(m - 1) /\ DOMAIN fills' = 1..m
        /\ fills' \in Seq(History!Fills) /\ Len(fills') = m /\ fills'[m] = row
        /\ \A n \in DOMAIN fills : n # m /\ n \in DOMAIN fills' /\ fills'[n] = fills[n]
    BY <1>2, <1>5, <1>6, <1>7
  <1>9. FlowAt(m) = 0 /\ FlowAt(m)' = FlowOf(row, orders[i].side) BY <1>3, <1>5, <1>8 DEF FlowAt
  <1>10. \A n \in {1, 2} \ {m} : FlowAt(n)' = FlowAt(n) BY <1>3, <1>7, <1>8 DEF FlowAt
  <1>11. PICK a, c : /\ a = (IF orders[i].side = "BUY" THEN -(q * p) ELSE q * p)
                     /\ c = History!CalculateFee(q * p)
    OBVIOUS
  <1>12. a \in Int /\ c \in Int /\ FlowOf(row, orders[i].side) = a - c
    BY <1>5, <1>11, FeeIsInteger DEF FlowOf
  <1>13. FlowAt(1)' + FlowAt(2)' = FlowAt(1) + FlowAt(2) + a - c
    BY <1>8, <1>9, <1>10, <1>12, PlacesHold DEF HistoryInv
  <1>14. \A n \in DOMAIN fills' : fills'[n].order \in DOMAIN orders' BY <1>3, <1>5, <1>7, <1>8
  <1> QED BY <1>6, <1>8, <1>11, <1>13, <1>14

(* A sum over the outcomes of which one changes.                           *)
LEMMA OneValueChanges ==
    ASSUME NEW w, NEW v, NEW o \in Pair, NEW d \in Int, \A x \in Pair : w[x] \in Int,
           v[o] = w[o] + d, \A x \in Pair \ {o} : v[x] = w[x]
    PROVE  SumOf(v, Pair) = SumOf(w, Pair) + d /\ SumOf(w, Pair) \in Int
  BY BoundsAssumption, SumChanges, SumIsInteger

LEMMA BuyIsExecuted ==
    ASSUME HistoryInv, NEW i \in DOMAIN orders, NEW q \in {1, 2}, NEW p \in {1, 3},
           NEW minted \in BOOLEAN, History!Execute(i, q, p, minted), orders[i].side = "BUY"
    PROVE  HistoryInv'
  <1>1. PICK o, left, limit, spent, fee, freed :
            /\ o = orders[i].outcome /\ left = History!Remaining(orders[i])
            /\ limit = orders[i].limit /\ spent = q * p /\ fee = History!CalculateFee(q * p)
            /\ freed = History!BuyCommitment(left, limit) - History!BuyCommitment(left - q, limit)
    OBVIOUS
  <1>2. /\ status = "OPEN"
        /\ wallet' = [available |-> wallet.available + freed - (spent + fee),
                      reserved |-> wallet.reserved - freed]
        /\ position' = [position EXCEPT ![o].quantity = @ + q, ![o].cost = @ + spent]
        /\ last' = IF minted THEN last ELSE [last EXCEPT ![o] = p]
        /\ feesOfHistory' = feesOfHistory + fee
        /\ UNCHANGED <<status, exits, paid, bid>>
    BY <1>1 DEF History!Execute, History!ExecuteBuy, History!AfterBuy
  <1>3. /\ left \in Int /\ o \in Pair /\ limit \in Int /\ spent \in Nat /\ spent = q * p
    <2>1. left \in Int /\ limit \in Int /\ o \in Pair BY <1>1, OrderIsFilled DEF OrderFills
    <2> QED BY <1>1, <2>1
  <1>4. fee \in Int /\ freed \in Int
    <2>1. spent \in Int /\ left - q \in Int BY <1>3
    <2>2. fee \in Int BY <1>1, <2>1, FeeIsInteger
    <2>3. /\ History!BuyCommitment(left, limit) \in Int
          /\ History!BuyCommitment(left - q, limit) \in Int
      BY <1>3, <2>1, CommitmentIs
    <2> QED BY <1>1, <2>2, <2>3
  <1>5. /\ orders' \in Seq(History!Orders) /\ Len(orders') <= 2
        /\ \A k : k # i => CashAt(k)' = CashAt(k)
        /\ CashAt(i)' = CashAt(i) - freed
        /\ \A k, x : SharesAt(k, x)' = SharesAt(k, x)
    <2>1. /\ orders' \in Seq(History!Orders) /\ Len(orders') <= 2
          /\ \A k : k # i => CashAt(k)' = CashAt(k) /\ \A x : SharesAt(k, x)' = SharesAt(k, x)
          /\ CashAt(i) = History!BuyCommitment(left, limit)
          /\ CashAt(i)' = History!BuyCommitment(left - q, limit)
          /\ \A x : SharesAt(i, x) = 0 /\ SharesAt(i, x)' = 0
      <3>1. OrderFills(i, q, left) BY <1>1, OrderIsFilled
      <3> QED BY <1>1, <3>1 DEF OrderFills
    <2>2. left - q \in Int BY <1>3
    <2>3. /\ History!BuyCommitment(left, limit) \in Int
          /\ History!BuyCommitment(left - q, limit) \in Int
      BY <1>3, <2>2, CommitmentIs
    <2>4. CashAt(i)' = CashAt(i) - freed BY <1>1, <2>1, <2>3
    <2>5. ASSUME NEW k, NEW x PROVE SharesAt(k, x)' = SharesAt(k, x) BY <2>1
    <2> QED BY <2>1, <2>4, <2>5
  <1>6. /\ fills' \in Seq(History!Fills) /\ Len(fills') = Len(fills) + 1 /\ Len(fills') <= 2
        /\ \A n \in DOMAIN fills' : fills'[n].order \in DOMAIN orders'
        /\ (\A n \in DOMAIN fills' : ~fills'[n].issued) => \A n \in DOMAIN fills : ~fills[n].issued
        /\ FlowAt(1)' + FlowAt(2)' = FlowAt(1) + FlowAt(2) + -spent - fee
    BY <1>1, FillIsAdded
  <1>7. RowsTyped' BY <1>2, <1>5, <1>6 DEF HistoryInv, RowsTyped
  <1>8. PICK h : h = position[o] OBVIOUS
  <1>9. /\ h \in HistoryPositions /\ h.quantity \in Nat /\ h.reserved \in Int /\ h.cost \in Int
        /\ h.realized \in Int /\ h.reserved <= h.quantity
    BY <1>3, <1>8 DEF HistoryInv, BalancesTyped, HistoryPositions
  <1>10. PICK a, c : a = h.quantity + q /\ c = h.cost + spent OBVIOUS
  <1>11. a \in Nat /\ a > 0 /\ h.reserved <= a /\ c \in Int BY <1>3, <1>9, <1>10
  <1>12. PICK n : n = [h EXCEPT !.quantity = a, !.cost = c] OBVIOUS
  <1>13. /\ n \in HistoryPositions /\ n.quantity = a /\ n.cost = c /\ n.reserved = h.reserved
         /\ n.realized = h.realized
    BY <1>9, <1>11, <1>12 DEF HistoryPositions
  <1>14. position \in [Pair -> HistoryPositions] /\ position' = [position EXCEPT ![o] = n]
    <2>1. position \in [Pair -> HistoryPositions] BY DEF HistoryInv, BalancesTyped
    <2> QED BY <1>2, <1>3, <1>8, <1>10, <1>12, <2>1
  <1>15. /\ position' \in [Pair -> HistoryPositions] /\ position'[o] = n
         /\ \A x \in Pair \ {o} : position'[x] = position[x]
    BY <1>3, <1>13, <1>14
  <1>16. /\ wallet' \in [available : Int, reserved : Int] /\ feesOfHistory' \in Int
         /\ wallet'.reserved = wallet.reserved - freed
         /\ wallet'.available + wallet'.reserved
                = (wallet.available + wallet.reserved) - (spent + fee)
    BY <1>2, <1>3, <1>4 DEF HistoryInv, BalancesTyped
  <1>17. BalancesTyped'
    <2>1. \A x \in Pair : /\ position'[x].quantity = 0 => position'[x].cost = 0
                          /\ position'[x].reserved <= position'[x].quantity
      BY <1>11, <1>13, <1>15 DEF HistoryInv, BalancesTyped
    <2> QED BY <1>2, <1>15, <1>16, <2>1 DEF HistoryInv, BalancesTyped
  <1>18. PricesTyped' BY <1>2, <1>3 DEF HistoryInv, PricesTyped
  <1>19. Reserves'
    <2>1. CashAt(1)' + CashAt(2)' = (CashAt(1) + CashAt(2)) - freed
      <3>1. i \in {1, 2} BY DEF HistoryInv, RowsTyped
      <3>2. CashAt(1) \in Int /\ CashAt(2) \in Int BY PlacesHold DEF HistoryInv
      <3> QED BY <1>4, <1>5, <3>1, <3>2
    <2>2. \A x \in Pair : position'[x].reserved = position[x].reserved BY <1>8, <1>13, <1>15
    <2> QED BY <1>5, <1>16, <2>1, <2>2 DEF HistoryInv, Reserves, KeptFor
  <1>20. Wealth'
    <2>1. PICK w, v : w = Worths /\ v = Worths' OBVIOUS
    <2>2. \A x \in Pair : position[x].realized \in Int /\ position[x].cost \in Int
      BY <1>14 DEF HistoryPositions
    <2>3. w[o] \in Int /\ v[o] = w[o] + -spent
      BY <1>3, <1>8, <1>9, <1>10, <1>13, <1>15, <2>1 DEF Worths
    <2>4. /\ \A x \in Pair : w[x] \in Int
          /\ \A x \in Pair \ {o} : v[x] = w[x]
      BY <1>15, <2>1, <2>2 DEF Worths
    <2>5. o \in Pair /\ -spent \in Int BY <1>3
    <2>6. SumOf(v, Pair) = SumOf(w, Pair) + -spent /\ SumOf(w, Pair) \in Int
      BY <2>3, <2>4, <2>5, OneValueChanges
    <2>7. SumOf(v, Pair) = SumOf(w, Pair) - spent BY <1>3, <2>6
    <2>8. wallet.available + wallet.reserved = 5 + SumOf(w, Pair) - feesOfHistory
      BY <2>1 DEF HistoryInv, Wealth
    <2>9. feesOfHistory \in Int BY DEF HistoryInv, BalancesTyped
    <2>10. wallet'.available + wallet'.reserved = 5 + SumOf(v, Pair) - feesOfHistory'
      BY <1>2, <1>3, <1>4, <1>16, <2>6, <2>7, <2>8, <2>9
    <2> QED BY <2>1, <2>10 DEF Wealth
  <1>21. Activity'
    <2> SUFFICES ASSUME \A n1 \in DOMAIN fills' : ~fills'[n1].issued
                 PROVE  wallet'.available + wallet'.reserved
                            = 5 + (FlowAt(1)' + FlowAt(2)') + SumOf(Payouts, Pair)'
      BY DEF Activity
    <2>1. Payouts' = Payouts BY <1>2 DEF Payouts
    <2>2. wallet.available + wallet.reserved
              = 5 + (FlowAt(1) + FlowAt(2)) + SumOf(Payouts, Pair)
      BY <1>6 DEF HistoryInv, Activity
    <2>3. SumOf(Payouts, Pair) \in Int BY <1>6, ActivityIs DEF HistoryInv
    <2>4. FlowAt(1) \in Int /\ FlowAt(2) \in Int BY PlacesHold DEF HistoryInv
    <2>5. PICK s, t : s = SumOf(Payouts, Pair) /\ t = FlowAt(1) + FlowAt(2) OBVIOUS
    <2>6. (wallet.available + wallet.reserved) - (spent + fee) = 5 + (t + -spent - fee) + s
      BY <1>3, <1>4, <2>2, <2>3, <2>4, <2>5
    <2> QED BY <1>6, <1>16, <2>1, <2>5, <2>6
  <1>22. \A x \in Pair : Gone(x)'
    <2>1. \A k, x : GainAt(k, x)' = GainAt(k, x) BY <1>2 DEF GainAt
    <2>2. position'[o].quantity # 0 BY <1>11, <1>13, <1>15
    <2>3. ASSUME NEW x \in Pair \ {o} PROVE Gone(x)' BY <1>2, <1>15, <2>1 DEF HistoryInv, Gone
    <2> QED BY <2>2, <2>3 DEF Gone
  <1> QED BY <1>7, <1>17, <1>18, <1>19, <1>20, <1>21, <1>22 DEF HistoryInv

(* A sale of the whole position releases its whole cost.                   *)
LEMMA CostIsReleased ==
    ASSUME NEW h \in HistoryPositions, NEW q \in {1, 2}, q <= h.quantity
    PROVE  /\ History!ReleasedCost(h, q) \in Int
           /\ h.quantity = q => History!ReleasedCost(h, q) = h.cost
  <1>1. PICK c \in Int, n \in Nat : c = h.cost /\ n = h.quantity /\ n > 0 BY DEF HistoryPositions
  <1>2. c * q \in Int /\ 2 * (c * q) \in Int BY <1>1
  <1>3. PICK d \in Int : d = c * q BY <1>2
  <1>4. (2 * d + n) \div (2 * n) \in Int BY <1>1
  <1>5. History!ReleasedCost(h, q) = (2 * d + n) \div (2 * n)
    BY <1>1, <1>3 DEF History!ReleasedCost, History!HalfUp
  <1>6. ASSUME n = q PROVE (2 * d + n) \div (2 * n) = c
    <2>1. CASE q = 1
      <3>1. d = c /\ n = 1 BY <1>3, <1>6, <2>1
      <3>2. (2 * c + 1) \div (2 * 1) = c BY <1>1
      <3> QED BY <3>1, <3>2
    <2>2. CASE q = 2
      <3>1. d = c * 2 /\ n = 2 BY <1>3, <1>6, <2>2
      <3>2. (2 * (c * 2) + 2) \div (2 * 2) = c BY <1>1
      <3> QED BY <3>1, <3>2
    <2> QED BY <2>1, <2>2
  <1> QED BY <1>1, <1>4, <1>5, <1>6

(* An exit that is added accounts for what no exit did.                    *)
LEMMA ExitIsAdded ==
    ASSUME RowsTyped, NEW o \in Pair, NEW e, Len(exits) < 2, NEW realized \in Int,
           e.outcome = o, exits' = Append(exits, e),
           e.realized = realized
               - History!Total([n \in {m \in DOMAIN exits : exits[m].outcome = o} |->
                                    exits[n].realized])
    PROVE  /\ \E T : exits' \in Seq(T)
           /\ Len(exits') = Len(exits) + 1
           /\ \A n \in DOMAIN exits' : exits'[n].realized \in Int
           /\ GainAt(1, o)' + GainAt(2, o)' = realized
           /\ \A k : \A x \in Pair \ {o} : GainAt(k, x)' = GainAt(k, x)
  <1>1. PICK T, m : exits \in Seq(T) /\ m = Len(exits) + 1 BY DEF RowsTyped
  <1>2. exits \in Seq(T) /\ \A n \in DOMAIN exits : exits[n].realized \in Int BY <1>1 DEF RowsTyped
  <1>3. /\ m \in {1, 2} /\ DOMAIN exits = 1..(m - 1) /\ DOMAIN exits' = 1..m
        /\ exits'[m] = e /\ Len(exits') = m
        /\ \A n \in DOMAIN exits : n # m /\ n \in DOMAIN exits' /\ exits'[n] = exits[n]
    BY <1>1, <1>2
  <1>4. exits' \in Seq(T \cup {e}) BY <1>1, <1>2
  <1>5. e.realized = realized - (GainAt(1, o) + GainAt(2, o)) BY ExitsAre
  <1>6. \A n : GainAt(n, o) \in Int BY PlacesHold
  <1>7. e.realized \in Int BY <1>5, <1>6
  <1>8. /\ GainAt(m, o) = 0 /\ GainAt(m, o)' = e.realized
        /\ \A n \in {1, 2} \ {m} : GainAt(n, o)' = GainAt(n, o)
    BY <1>3 DEF GainAt, GainIn
  <1>9. GainAt(1, o)' + GainAt(2, o)' = realized BY <1>3, <1>5, <1>6, <1>8
  <1>10. ASSUME NEW k, NEW x \in Pair \ {o} PROVE GainAt(k, x)' = GainAt(k, x)
    BY <1>3 DEF GainAt, GainIn
  <1>11. \A n \in DOMAIN exits' : exits'[n].realized \in Int BY <1>2, <1>3, <1>7
  <1> QED BY <1>1, <1>3, <1>4, <1>9, <1>10, <1>11

LEMMA SellIsExecuted ==
    ASSUME HistoryInv, NEW i \in DOMAIN orders, NEW q \in {1, 2}, NEW p \in {1, 3},
           NEW minted \in BOOLEAN, History!Execute(i, q, p, minted), orders[i].side # "BUY"
    PROVE  HistoryInv'
  <1>1. PICK o, left, gain, fee, h, released :
            /\ o = orders[i].outcome /\ left = History!Remaining(orders[i])
            /\ gain = q * p /\ fee = History!CalculateFee(q * p)
            /\ h = position[o] /\ released = History!ReleasedCost(h, q)
    OBVIOUS
  <1>2. PICK n : n = [quantity |-> h.quantity - q, reserved |-> h.reserved - q,
                      cost |-> IF h.quantity = q THEN 0 ELSE h.cost - released,
                      realized |-> h.realized + gain - released]
    OBVIOUS
  <1>3. n = History!AfterSell(h, q, p) BY <1>1, <1>2 DEF History!AfterSell
  <1>4. PICK row, e : /\ row = [order |-> i, quantity |-> q, price |-> p, issued |-> minted]
                      /\ e = History!Exit(o, row, n.realized)
    OBVIOUS
  <1>5. /\ status = "OPEN" /\ n.quantity >= 0 /\ Len(fills) < 2
        /\ wallet' = [wallet EXCEPT !.available = @ + gain - fee]
        /\ position' = [position EXCEPT ![o] = n]
        /\ exits' = IF n.quantity = 0 THEN Append(exits, e) ELSE exits
        /\ last' = [last EXCEPT ![o] = p]
        /\ feesOfHistory' = feesOfHistory + fee
        /\ UNCHANGED <<status, paid, bid>>
    BY <1>1, <1>3, <1>4 DEF History!Execute, History!ExecuteSell
  <1>6. orders[i].side = "SELL"
    <2>1. orders[i] \in History!Orders BY DEF HistoryInv, RowsTyped
    <2> QED BY <2>1 DEF History!Orders
  <1>7. left \in Int /\ o \in Pair /\ gain \in Nat /\ fee \in Int
    <2>1. left \in Int /\ o \in Pair BY <1>1, OrderIsFilled DEF OrderFills
    <2>2. gain \in Nat BY <1>1
    <2>3. fee \in Int BY <1>1, <2>2, FeeIsInteger
    <2> QED BY <2>1, <2>2, <2>3
  <1>8. /\ orders' \in Seq(History!Orders) /\ Len(orders') <= 2
        /\ \A k : CashAt(k)' = CashAt(k)
        /\ \A k : \A x \in Pair \ {o} : SharesAt(k, x)' = SharesAt(k, x)
        /\ \A k : k # i => SharesAt(k, o)' = SharesAt(k, o)
        /\ SharesAt(i, o) = left /\ SharesAt(i, o)' = left - q
    <2>1. /\ orders' \in Seq(History!Orders) /\ Len(orders') <= 2
          /\ \A k : k # i => CashAt(k)' = CashAt(k) /\ \A x : SharesAt(k, x)' = SharesAt(k, x)
          /\ CashAt(i) = 0 /\ CashAt(i)' = 0
          /\ \A x : /\ SharesAt(i, x) = (IF o = x THEN left ELSE 0)
                    /\ SharesAt(i, x)' = (IF o = x THEN left - q ELSE 0)
      <3>1. OrderFills(i, q, left) BY <1>1, OrderIsFilled
      <3> QED BY <1>1, <1>6, <3>1 DEF OrderFills
    <2>2. ASSUME NEW k PROVE CashAt(k)' = CashAt(k) BY <2>1
    <2>3. ASSUME NEW k, NEW x \in Pair \ {o} PROVE SharesAt(k, x)' = SharesAt(k, x)
      <3>1. CASE k = i BY <2>1, <3>1
      <3>2. CASE k # i BY <2>1, <3>2
      <3> QED BY <3>1, <3>2
    <2> QED BY <2>1, <2>2, <2>3
  <1>9. /\ fills' \in Seq(History!Fills) /\ Len(fills') = Len(fills) + 1 /\ Len(fills') <= 2
        /\ \A k \in DOMAIN fills' : fills'[k].order \in DOMAIN orders'
        /\ (\A k \in DOMAIN fills' : ~fills'[k].issued) => \A k \in DOMAIN fills : ~fills[k].issued
        /\ FlowAt(1)' + FlowAt(2)' = FlowAt(1) + FlowAt(2) + gain - fee
    BY <1>1, <1>6, FillIsAdded
  <1>10. /\ h \in HistoryPositions /\ h.quantity \in Nat /\ h.reserved \in Int /\ h.cost \in Int
         /\ h.realized \in Int /\ h.reserved <= h.quantity
    BY <1>1, <1>7 DEF HistoryInv, BalancesTyped, HistoryPositions
  <1>11. q <= h.quantity /\ released \in Int /\ (h.quantity = q => released = h.cost)
    <2>1. q <= h.quantity BY <1>2, <1>5, <1>10
    <2> QED BY <1>1, <1>10, <2>1, CostIsReleased
  <1>12. /\ n \in HistoryPositions /\ n.quantity = h.quantity - q /\ n.reserved = h.reserved - q
         /\ n.realized \in Int /\ n.realized - n.cost = (h.realized - h.cost) + gain
         /\ n.quantity = 0 => n.cost = 0
    <2>1. PICK a, b, c, d : /\ a = h.quantity - q /\ b = h.reserved - q
                            /\ c = (IF h.quantity = q THEN 0 ELSE h.cost - released)
                            /\ d = h.realized + gain - released
      OBVIOUS
    <2>2. n.quantity = a /\ n.reserved = b /\ n.cost = c /\ n.realized = d BY <1>2, <2>1
    <2>3. a \in Nat /\ b \in Int /\ c \in Int /\ d \in Int
      <3>1. a \in Nat /\ b \in Int BY <1>10, <1>11, <2>1
      <3>2. c \in Int BY <1>10, <1>11, <2>1
      <3>3. d \in Int BY <1>7, <1>10, <1>11, <2>1
      <3> QED BY <3>1, <3>2, <3>3
    <2>4. d - c = (h.realized - h.cost) + gain /\ (a = 0 => c = 0) BY <1>7, <1>10, <1>11, <2>1
    <2>5. n \in HistoryPositions BY <1>2, <2>1, <2>3 DEF HistoryPositions
    <2> QED BY <2>1, <2>2, <2>3, <2>4, <2>5
  <1>13. /\ position \in [Pair -> HistoryPositions]
         /\ position' \in [Pair -> HistoryPositions] /\ position'[o] = n
         /\ \A x \in Pair \ {o} : position'[x] = position[x]
    BY <1>5, <1>7, <1>12 DEF HistoryInv, BalancesTyped
  <1>14. /\ wallet' \in [available : Int, reserved : Int] /\ feesOfHistory' \in Int
         /\ wallet'.reserved = wallet.reserved
         /\ wallet'.available + wallet'.reserved
                = (wallet.available + wallet.reserved) + gain - fee
    <2>1. /\ wallet \in [available : Int, reserved : Int] /\ feesOfHistory \in Int
      BY DEF HistoryInv, BalancesTyped
    <2>2. PICK a : a = wallet.available + gain - fee OBVIOUS
    <2>3. a \in Int /\ wallet.reserved \in Int /\ wallet.available \in Int BY <1>7, <2>1, <2>2
    <2>4. wallet' = [wallet EXCEPT !.available = a] BY <1>5, <2>2
    <2>5. wallet' \in [available : Int, reserved : Int] /\ wallet'.reserved = wallet.reserved
           /\ wallet'.available = a
      BY <2>1, <2>3, <2>4
    <2>6. feesOfHistory' \in Int BY <1>5, <1>7, <2>1
    <2> QED BY <1>7, <2>2, <2>3, <2>5, <2>6
  <1>15. /\ \E T : exits' \in Seq(T)
         /\ Len(exits') <= Len(fills')
         /\ \A k \in DOMAIN exits' : exits'[k].realized \in Int
         /\ \A k : \A x \in Pair \ {o} : GainAt(k, x)' = GainAt(k, x)
         /\ n.quantity = 0 => GainAt(1, o)' + GainAt(2, o)' = n.realized
    <2>1. RowsTyped /\ Len(exits) <= Len(fills) /\ Len(exits) < 2 BY <1>5 DEF HistoryInv, RowsTyped
    <2>2. CASE n.quantity = 0
      <3>1. exits' = Append(exits, e) BY <1>5, <2>2
      <3>2. /\ e.outcome = o
            /\ e.realized = n.realized
                   - History!Total([k \in {m \in DOMAIN exits : exits[m].outcome = o} |->
                                        exits[k].realized])
        BY <1>4 DEF History!Exit
      <3>3. /\ \E T : exits' \in Seq(T)
            /\ Len(exits') = Len(exits) + 1
            /\ \A k \in DOMAIN exits' : exits'[k].realized \in Int
            /\ GainAt(1, o)' + GainAt(2, o)' = n.realized
            /\ \A k : \A x \in Pair \ {o} : GainAt(k, x)' = GainAt(k, x)
        BY <1>7, <1>12, <2>1, <3>1, <3>2, ExitIsAdded
      <3>4. Len(exits') <= Len(fills') BY <1>9, <2>1, <3>3 DEF RowsTyped
      <3> QED BY <3>3, <3>4
    <2>3. CASE n.quantity # 0
      <3>1. exits' = exits BY <1>5, <2>3
      <3>2. \A k, x : GainAt(k, x)' = GainAt(k, x) BY <3>1 DEF GainAt
      <3> QED BY <1>9, <2>1, <2>3, <3>1, <3>2 DEF RowsTyped
    <2> QED BY <2>2, <2>3
  <1>16. RowsTyped' BY <1>5, <1>8, <1>9, <1>15 DEF RowsTyped
  <1>17. BalancesTyped'
    <2>1. \A x \in Pair : /\ position'[x].quantity = 0 => position'[x].cost = 0
                          /\ position'[x].reserved <= position'[x].quantity
      BY <1>10, <1>12, <1>13 DEF HistoryInv, BalancesTyped
    <2> QED BY <1>5, <1>13, <1>14, <2>1 DEF HistoryInv, BalancesTyped
  <1>18. PricesTyped' BY <1>5, <1>7 DEF HistoryInv, PricesTyped
  <1>19. Reserves'
    <2>1. i \in {1, 2} BY DEF HistoryInv, RowsTyped
    <2>2. SharesAt(1, o) \in Nat /\ SharesAt(2, o) \in Nat BY PlacesHold DEF HistoryInv
    <2>3. SharesAt(1, o)' + SharesAt(2, o)' = (SharesAt(1, o) + SharesAt(2, o)) - q
      BY <1>8, <2>1, <2>2
    <2>4. h.reserved = SharesAt(1, o) + SharesAt(2, o)
      BY <1>1, <1>7 DEF HistoryInv, Reserves, KeptFor
    <2>5. KeptFor(o)' BY <1>12, <1>13, <2>3, <2>4 DEF KeptFor
    <2>6. ASSUME NEW x \in Pair \ {o} PROVE KeptFor(x)'
      BY <1>8, <1>13 DEF HistoryInv, Reserves, KeptFor
    <2> QED BY <1>8, <1>14, <2>5, <2>6 DEF HistoryInv, Reserves
  <1>20. Wealth'
    <2>1. PICK w, v : w = Worths /\ v = Worths' OBVIOUS
    <2>2. \A x \in Pair : position[x].realized \in Int /\ position[x].cost \in Int
      BY <1>13 DEF HistoryPositions
    <2>3. w[o] \in Int /\ v[o] = w[o] + gain BY <1>1, <1>7, <1>10, <1>12, <1>13, <2>1 DEF Worths
    <2>4. /\ \A x \in Pair : w[x] \in Int
          /\ \A x \in Pair \ {o} : v[x] = w[x]
      BY <1>13, <2>1, <2>2 DEF Worths
    <2>5. o \in Pair /\ gain \in Int BY <1>7
    <2>6. SumOf(v, Pair) = SumOf(w, Pair) + gain /\ SumOf(w, Pair) \in Int
      BY <2>3, <2>4, <2>5, OneValueChanges
    <2>7. wallet.available + wallet.reserved = 5 + SumOf(w, Pair) - feesOfHistory
      BY <2>1 DEF HistoryInv, Wealth
    <2>8. feesOfHistory \in Int BY DEF HistoryInv, BalancesTyped
    <2>9. wallet'.available + wallet'.reserved = 5 + SumOf(v, Pair) - feesOfHistory'
      BY <1>5, <1>7, <1>14, <2>6, <2>7, <2>8
    <2> QED BY <2>1, <2>9 DEF Wealth
  <1>21. Activity'
    <2> SUFFICES ASSUME \A k \in DOMAIN fills' : ~fills'[k].issued
                 PROVE  wallet'.available + wallet'.reserved
                            = 5 + (FlowAt(1)' + FlowAt(2)') + SumOf(Payouts, Pair)'
      BY DEF Activity
    <2>1. Payouts' = Payouts BY <1>5 DEF Payouts
    <2>2. wallet.available + wallet.reserved
              = 5 + (FlowAt(1) + FlowAt(2)) + SumOf(Payouts, Pair)
      BY <1>9 DEF HistoryInv, Activity
    <2>3. SumOf(Payouts, Pair) \in Int BY <1>9, ActivityIs DEF HistoryInv
    <2>4. FlowAt(1) \in Int /\ FlowAt(2) \in Int BY PlacesHold DEF HistoryInv
    <2>5. PICK s, t : s = SumOf(Payouts, Pair) /\ t = FlowAt(1) + FlowAt(2) OBVIOUS
    <2>6. (wallet.available + wallet.reserved) + gain - fee = 5 + (t + gain - fee) + s
      BY <1>7, <2>2, <2>3, <2>4, <2>5
    <2> QED BY <1>9, <1>14, <2>1, <2>5, <2>6
  <1>22. \A x \in Pair : Gone(x)' BY <1>5, <1>13, <1>15 DEF Gone, HistoryInv
  <1> QED BY <1>16, <1>17, <1>18, <1>19, <1>20, <1>21, <1>22 DEF HistoryInv

(* Cancelled orders hold nothing any more.                                 *)
LEMMA CancelledAre ==
    ASSUME HistoryInv, NEW S \in SUBSET History!LiveOrders,
           NEW reason \in {"MANUAL", "MARKET_CLOSE", "MARKET_VOID"},
           orders' = History!Cancelled(S, reason), UNCHANGED fills
    PROVE  /\ orders' \in Seq(History!Orders) /\ DOMAIN orders' = DOMAIN orders
           /\ Len(orders') <= 2
           /\ \A k \in DOMAIN orders : /\ orders'[k].side = orders[k].side
                                       /\ k \in S => ~History!Live(orders'[k])
                                       /\ k \notin S => orders'[k] = orders[k]
           /\ \A k \in S : CashAt(k)' = 0 /\ \A x : SharesAt(k, x)' = 0
           /\ \A k : k \notin S =>
                  CashAt(k)' = CashAt(k) /\ \A x : SharesAt(k, x)' = SharesAt(k, x)
           /\ \A n : FlowAt(n)' = FlowAt(n)
  <1>1. orders \in Seq(History!Orders) /\ Len(orders) <= 2 /\ S \subseteq DOMAIN orders
    BY DEF HistoryInv, RowsTyped, History!LiveOrders
  <1>2. PICK m \in Nat : m = Len(orders) /\ DOMAIN orders = 1..m BY <1>1
  <1>3. PICK f : f = [k \in 1..m |-> IF k \in S
                          THEN [orders[k] EXCEPT !.status = "CANCELLED", !.reason = reason]
                          ELSE orders[k]]
    OBVIOUS
  <1>4. orders' = f BY <1>2, <1>3 DEF History!Cancelled
  <1>5. ASSUME NEW k \in S
        PROVE  /\ f[k] \in History!Orders /\ f[k].side = orders[k].side
               /\ ~History!Live(f[k])
    <2>1. PICK x : x = orders[k] OBVIOUS
    <2>2. x \in History!Orders /\ k \in 1..m BY <1>1, <1>2, <2>1
    <2>3. PICK y : y = [x EXCEPT !.status = "CANCELLED", !.reason = reason] OBVIOUS
    <2>4. y \in History!Orders /\ y.side = x.side /\ y.status = "CANCELLED"
      BY <2>2, <2>3 DEF History!Orders, History!Active
    <2>5. f[k] = y BY <1>3, <2>1, <2>2, <2>3
    <2> QED BY <2>1, <2>4, <2>5 DEF History!Live, History!Active
  <1>6. \A k \in 1..m : f[k] \in History!Orders
    <2> SUFFICES ASSUME NEW k \in 1..m PROVE f[k] \in History!Orders OBVIOUS
    <2>1. CASE k \in S BY <1>5, <2>1
    <2>2. CASE k \notin S
      <3>1. f[k] = orders[k] BY <1>3, <2>2
      <3>2. orders[k] \in History!Orders BY <1>1, <1>2
      <3> QED BY <3>1, <3>2
    <2> QED BY <2>1, <2>2
  <1>7. orders' \in Seq(History!Orders) /\ DOMAIN orders' = 1..m /\ Len(orders') = m
    <2>1. DOMAIN f = 1..m /\ f \in [1..m -> History!Orders] BY <1>3, <1>6
    <2>2. [k \in 1..m |-> f[k]] \in Seq(History!Orders) BY <1>6
    <2>3. f = [k \in 1..m |-> f[k]] BY <2>1
    <2>4. f \in Seq(History!Orders) /\ Len(f) = m BY <2>1, <2>2, <2>3
    <2> QED BY <1>4, <2>1, <2>4
  <1>8. \A k \in DOMAIN orders : /\ orders'[k].side = orders[k].side
                                 /\ k \in S => ~History!Live(orders'[k])
                                 /\ k \notin S => orders'[k] = orders[k]
    BY <1>2, <1>3, <1>4, <1>5
  <1>9. ASSUME NEW k \in S PROVE CashAt(k)' = 0 /\ \A x : SharesAt(k, x)' = 0
    <2>1. orders'[k] \in History!Orders /\ ~History!Live(orders'[k]) /\ k \in DOMAIN orders'
      BY <1>1, <1>2, <1>4, <1>5, <1>7
    <2>2. CashOf(orders'[k]) = 0 /\ \A x : SharesIn(orders'[k], x) = 0 BY <2>1, OrdersHold
    <2> QED BY <2>1, <2>2 DEF CashAt, SharesAt
  <1>10. ASSUME NEW k, k \notin S
         PROVE  CashAt(k)' = CashAt(k) /\ \A x : SharesAt(k, x)' = SharesAt(k, x)
    BY <1>2, <1>7, <1>8, <1>10 DEF CashAt, SharesAt
  <1>11. \A n : FlowAt(n)' = FlowAt(n) BY <1>8 DEF HistoryInv, RowsTyped, FlowAt
  <1> QED BY <1>1, <1>2, <1>7, <1>8, <1>9, <1>10, <1>11

LEMMA OrdersAreCancelled ==
    ASSUME HistoryInv, NEW S \in SUBSET History!LiveOrders,
           NEW reason \in {"MANUAL", "MARKET_CLOSE", "MARKET_VOID"},
           orders' = History!Cancelled(S, reason), wallet' = History!WalletAfterCancel(S),
           position' = History!PositionsAfterCancel(S),
           UNCHANGED <<fills, exits, paid, feesOfHistory, bid, last>>,
           status' = status \/ S = History!LiveOrders
    PROVE  HistoryInv'
  <1>1. /\ orders' \in Seq(History!Orders) /\ DOMAIN orders' = DOMAIN orders
        /\ Len(orders') <= 2
        /\ \A k \in DOMAIN orders : /\ k \in S => ~History!Live(orders'[k])
                                    /\ k \notin S => orders'[k] = orders[k]
        /\ \A k \in S : CashAt(k)' = 0 /\ \A x : SharesAt(k, x)' = 0
        /\ \A k : k \notin S =>
               CashAt(k)' = CashAt(k) /\ \A x : SharesAt(k, x)' = SharesAt(k, x)
        /\ \A n : FlowAt(n)' = FlowAt(n)
    BY CancelledAre
  <1>2. /\ RowsTyped
        /\ \A k : CashAt(k) \in Int /\ \A x : SharesAt(k, x) \in Nat
    BY PlacesHold DEF HistoryInv
  <1>3. PICK R : R = History!Releases(S) OBVIOUS
  <1>4. /\ R \in Int /\ CashAt(1)' + CashAt(2)' = (CashAt(1) + CashAt(2)) - R
    <2>1. R = (IF 1 \in S THEN CashAt(1) ELSE 0) + (IF 2 \in S THEN CashAt(2) ELSE 0)
      BY <1>2, <1>3, ReleasesAre
    <2> QED BY <1>1, <1>2, <2>1
  <1>5. ASSUME NEW x
        PROVE  /\ History!SharesOf(S, x) \in Nat
               /\ SharesAt(1, x)' + SharesAt(2, x)'
                      = (SharesAt(1, x) + SharesAt(2, x)) - History!SharesOf(S, x)
    BY <1>1, <1>2, ReleasesAre
  <1>6. position \in [Pair -> HistoryPositions] BY DEF HistoryInv, BalancesTyped
  <1>7. ASSUME NEW x \in Pair
        PROVE  /\ position'[x] \in HistoryPositions
               /\ position'[x].quantity = position[x].quantity
               /\ position'[x].cost = position[x].cost
               /\ position'[x].realized = position[x].realized
               /\ position'[x].reserved = position[x].reserved - History!SharesOf(S, x)
               /\ position'[x].reserved <= position'[x].quantity
    <2>1. PICK h, b : h = position[x] /\ b = h.reserved - History!SharesOf(S, x) OBVIOUS
    <2>2. h \in HistoryPositions /\ h.reserved \in Int /\ h.quantity \in Nat
      BY <1>6, <2>1 DEF HistoryPositions
    <2>3. h.reserved <= h.quantity BY <2>1 DEF HistoryInv, BalancesTyped
    <2>4. b \in Int /\ b <= h.quantity BY <1>5, <2>1, <2>2, <2>3
    <2>5. PICK n : n = [h EXCEPT !.reserved = b] OBVIOUS
    <2>6. /\ n \in HistoryPositions /\ n.quantity = h.quantity /\ n.cost = h.cost
          /\ n.realized = h.realized /\ n.reserved = b
      BY <2>2, <2>4, <2>5 DEF HistoryPositions
    <2>7. position'[x] = n BY <2>1, <2>5 DEF History!PositionsAfterCancel
    <2> QED BY <2>1, <2>4, <2>6, <2>7
  <1>8. position' \in [Pair -> HistoryPositions] BY <1>7 DEF History!PositionsAfterCancel
  <1>9. /\ wallet' \in [available : Int, reserved : Int]
        /\ wallet'.reserved = wallet.reserved - R
        /\ wallet'.available + wallet'.reserved = wallet.available + wallet.reserved
    BY <1>3, <1>4 DEF HistoryInv, BalancesTyped, History!WalletAfterCancel
  <1>10. RowsTyped' BY <1>1, <1>2 DEF RowsTyped, History!LiveOrders
  <1>11. BalancesTyped' /\ PricesTyped'
    BY <1>7, <1>8, <1>9 DEF HistoryInv, BalancesTyped, PricesTyped
  <1>12. Reserves'
    <2>1. \A x \in Pair : KeptFor(x)' BY <1>5, <1>7 DEF HistoryInv, Reserves, KeptFor
    <2> QED BY <1>4, <1>9, <2>1 DEF HistoryInv, Reserves
  <1>13. Worths' = Worths /\ Payouts' = Payouts BY <1>7 DEF Worths, Payouts
  <1>14. Wealth' /\ Activity' BY <1>1, <1>9, <1>13 DEF HistoryInv, Wealth, Activity
  <1>15. \A x \in Pair : Gone(x)' BY <1>7 DEF GainAt, HistoryInv, Gone
  <1> QED BY <1>10, <1>11, <1>12, <1>14, <1>15 DEF HistoryInv

LEMMA OrderIsCancelled ==
    ASSUME HistoryInv, \E i \in DOMAIN orders : History!CancelOrder(i)
    PROVE  HistoryInv'
  BY OrdersAreCancelled DEF History!CancelOrder, History!market

LEMMA MarketCloses ==
    ASSUME HistoryInv, History!Close
    PROVE  HistoryInv'
  BY OrdersAreCancelled DEF History!Close, History!market

(* The records a market pays by, each of what its position is worth less   *)
(* the fee.                                                                *)
PayoutRecords == [kind : {"WIN", "LOSS", "VOID_REFUND"}, quantity : Nat, net : Int, delta : Int]

PaysFor(H, rec, g, net, fee) ==
    /\ \A x \in H : /\ rec[x] \in PayoutRecords /\ g[x] \in Int
                   /\ rec[x].net = net[x] /\ net[x] + fee[x] = g[x]
                   /\ rec[x].delta = g[x] - position[x].cost
    /\ \A x \in Pair : net[x] \in Int /\ fee[x] \in Int
    /\ \A x \in Pair \ H : net[x] = 0 /\ fee[x] = 0
    /\ net = [x \in Pair |-> net[x]]
PaysOut(H, rec, net, fee) ==
    /\ orders' \in Seq(History!Orders) /\ DOMAIN orders' = DOMAIN orders /\ Len(orders') <= 2
    /\ \A k \in DOMAIN orders : ~History!Live(orders'[k])
    /\ \A n : FlowAt(n)' = FlowAt(n)
    /\ UNCHANGED <<status, fills, exits, bid, last>>
    /\ \A x \in Pair : paid[x] = None
    /\ paid' = [x \in Pair |-> IF x \in H THEN rec[x] ELSE None]
    /\ wallet' = [available |-> (wallet.available + wallet.reserved) + SumOf(net, Pair),
                  reserved |-> 0]
    /\ position' = [x \in Pair |-> IF x \in H THEN History!Emptied(position[x], rec[x].delta)
                                   ELSE position[x]]
    /\ feesOfHistory' = feesOfHistory + SumOf(fee, Pair)

LEMMA ValuesAreAdded ==
    ASSUME NEW w, NEW v, NEW f, NEW g,
           \A x \in Pair : /\ w[x] \in Int /\ f[x] \in Int /\ g[x] \in Int
                          /\ v[x] = w[x] + (f[x] + g[x])
    PROVE  /\ SumOf(v, Pair) = SumOf(w, Pair) + (SumOf(f, Pair) + SumOf(g, Pair))
           /\ SumOf(w, Pair) \in Int
  <1>1. PICK u : u = [x \in Pair |-> f[x] + g[x]] OBVIOUS
  <1>2. IsFiniteSet(Pair) /\ 1 \in Int BY BoundsAssumption
  <1>3. \A x \in Pair : f[x] \in Int /\ g[x] \in Int /\ u[x] = f[x] + 1 * g[x] BY <1>1
  <1>4. \A x \in Pair : w[x] \in Int /\ u[x] \in Int /\ v[x] = w[x] + 1 * u[x] BY <1>1
  <1>5. SumOf(u, Pair) = SumOf(f, Pair) + 1 * SumOf(g, Pair) BY <1>2, <1>3, SumIsLinear
  <1>6. SumOf(v, Pair) = SumOf(w, Pair) + 1 * SumOf(u, Pair) BY <1>2, <1>4, SumIsLinear
  <1>7. \A y : (\A x \in Pair : y[x] \in Int) => SumOf(y, Pair) \in Int BY <1>2, SumIsInteger
  <1>8. /\ SumOf(w, Pair) \in Int /\ SumOf(u, Pair) \in Int
        /\ SumOf(f, Pair) \in Int /\ SumOf(g, Pair) \in Int
    BY <1>3, <1>4, <1>7
  <1> QED BY <1>5, <1>6, <1>8

LEMMA HoldingsArePaid ==
    ASSUME HistoryInv, NEW H, H = History!Held, NEW rec, NEW g, NEW net, NEW fee,
           PaysFor(H, rec, g, net, fee), PaysOut(H, rec, net, fee)
    PROVE  HistoryInv'
  <1> USE DEF PaysFor, PaysOut
  <1>1. H \in SUBSET Pair BY DEF History!Held
  <1>2. PICK w, v : w = Worths /\ v = Worths' OBVIOUS
  <1>3. /\ position \in [Pair -> HistoryPositions] /\ RowsTyped
        /\ \A x \in Pair \ H : /\ position[x].quantity = 0 /\ position[x].cost = 0
                               /\ position[x].reserved <= 0
    BY DEF HistoryInv, BalancesTyped, History!Held, HistoryPositions
  <1>4. \A x \in Pair : net[x] \in Int /\ fee[x] \in Int OBVIOUS
  <1>5. \A x \in H : rec[x] # None
    <2>1. ASSUME NEW x \in H PROVE rec[x].net \in Int /\ rec[x] \in PayoutRecords BY <1>1
    <2>2. None \notin PayoutRecords BY NoneAssumption DEF PayoutRecords
    <2> QED BY <2>1, <2>2
  <1>6. \A x \in H : paid'[x] = rec[x] BY <1>1
  <1>7. PICK sn, sf : sn = SumOf(net, Pair) /\ sf = SumOf(fee, Pair) OBVIOUS
  <1>8. IsFiniteSet(Pair) /\ sn \in Int /\ sf \in Int
    <2>1. IsFiniteSet(Pair) BY BoundsAssumption
    <2> QED BY <1>4, <1>7, <2>1, SumIsInteger
  <1>9. ASSUME NEW x \in H
        PROVE  /\ position'[x] \in HistoryPositions /\ position'[x].quantity = 0
               /\ position'[x].reserved = 0 /\ position'[x].cost = 0
               /\ position'[x].realized - position'[x].cost
                      = (position[x].realized - position[x].cost) + (net[x] + fee[x])
    <2>1. PICK h, d, b : h = position[x] /\ d = rec[x].delta /\ b = h.realized + d OBVIOUS
    <2>2. h \in HistoryPositions /\ h.realized \in Int /\ h.cost \in Int
      BY <1>1, <1>3, <2>1 DEF HistoryPositions
    <2>3. d \in Int /\ b \in Int
      <3>1. rec[x].delta \in Int BY DEF PayoutRecords
      <3> QED BY <2>1, <2>2, <3>1
    <2>4. position'[x] = [quantity |-> 0, reserved |-> 0, cost |-> 0, realized |-> b]
      BY <1>1, <2>1 DEF History!Emptied
    <2>5. net[x] + fee[x] = g[x] /\ g[x] \in Int /\ d = g[x] - h.cost BY <2>1
    <2>6. b - 0 = (h.realized - h.cost) + (net[x] + fee[x])
      <3>1. PICK s : s = net[x] + fee[x] OBVIOUS
      <3>2. s \in Int /\ d = s - h.cost BY <2>5, <3>1
      <3>3. b - 0 = (h.realized - h.cost) + s BY <2>1, <2>2, <3>2
      <3> QED BY <3>1, <3>3
    <2> QED BY <2>1, <2>3, <2>4, <2>6 DEF HistoryPositions
  <1>10. \A x \in Pair \ H : position'[x] = position[x] OBVIOUS
  <1>11. \A n : CashAt(n)' = 0 /\ \A x : SharesAt(n, x)' = 0 BY OrdersHold DEF CashAt, SharesAt
  <1>12. \A x \in Pair \ H : position[x].reserved = 0
    BY <1>3, PlacesHold DEF HistoryInv, Reserves, KeptFor
  <1>13. RowsTyped' BY <1>3 DEF RowsTyped
  <1>14. position' \in [Pair -> HistoryPositions] BY <1>3, <1>9, <1>10
  <1>15. /\ wallet' \in [available : Int, reserved : Int] /\ feesOfHistory' \in Int
         /\ wallet'.reserved = 0 /\ feesOfHistory' = feesOfHistory + sf
         /\ wallet'.available + wallet'.reserved = (wallet.available + wallet.reserved) + sn
    BY <1>7, <1>8 DEF HistoryInv, BalancesTyped
  <1>16. BalancesTyped' /\ PricesTyped'
    <2>1. \A x \in Pair : /\ position'[x].quantity = 0 => position'[x].cost = 0
                          /\ position'[x].reserved <= position'[x].quantity
      <3> SUFFICES ASSUME NEW x \in Pair
                   PROVE  /\ position'[x].quantity = 0 => position'[x].cost = 0
                          /\ position'[x].reserved <= position'[x].quantity
        OBVIOUS
      <3>1. CASE x \in H
        <4>1. position'[x].reserved = 0 /\ position'[x].quantity = 0 /\ position'[x].cost = 0
          BY <1>9, <3>1
        <4> QED BY <4>1
      <3>2. CASE x \notin H BY <1>3, <1>10, <3>2
      <3> QED BY <3>1, <3>2
    <2>2. DOMAIN paid' = Pair /\ \A x \in Pair : paid'[x] # None => paid'[x].net \in Int
      BY DEF PayoutRecords
    <2> QED BY <1>14, <1>15, <2>1, <2>2 DEF HistoryInv, BalancesTyped, PricesTyped
  <1>17. Reserves'
    <2>1. \A x \in Pair : position'[x].reserved = 0 BY <1>9, <1>10, <1>12
    <2> QED BY <1>11, <1>15, <2>1 DEF Reserves, KeptFor
  <1>18. Wealth'
    <2>1. \A x \in Pair : w[x] \in Int /\ v[x] \in Int /\ v[x] = w[x] + (net[x] + fee[x])
      <3> SUFFICES ASSUME NEW x \in Pair
                   PROVE  w[x] \in Int /\ v[x] \in Int /\ v[x] = w[x] + (net[x] + fee[x])
        OBVIOUS
      <3>1. /\ w[x] = position[x].realized - position[x].cost
            /\ v[x] = position'[x].realized - position'[x].cost
        BY <1>2 DEF Worths
      <3>2. w[x] \in Int BY <1>3, <3>1 DEF HistoryPositions
      <3>3. CASE x \in H
        <4>1. v[x] = w[x] + (net[x] + fee[x]) BY <1>9, <3>1, <3>3
        <4> QED BY <1>4, <3>2, <4>1
      <3>4. CASE x \notin H
        <4>1. net[x] = 0 /\ fee[x] = 0 /\ v[x] = w[x] BY <1>10, <3>1, <3>4
        <4> QED BY <3>2, <4>1
      <3> QED BY <3>3, <3>4
    <2>2. \A x \in Pair : /\ w[x] \in Int /\ net[x] \in Int /\ fee[x] \in Int
                          /\ v[x] = w[x] + (net[x] + fee[x])
      BY <1>4, <2>1
    <2>5. /\ SumOf(v, Pair) = SumOf(w, Pair) + (SumOf(net, Pair) + SumOf(fee, Pair))
          /\ SumOf(w, Pair) \in Int
      BY <2>2, ValuesAreAdded
    <2>6. SumOf(v, Pair) = SumOf(w, Pair) + (sn + sf) BY <1>7, <2>5
    <2>7. wallet.available + wallet.reserved = 5 + SumOf(w, Pair) - feesOfHistory
      BY <1>2 DEF HistoryInv, Wealth
    <2>8. feesOfHistory \in Int BY DEF HistoryInv, BalancesTyped
    <2>9. wallet'.available + wallet'.reserved = 5 + SumOf(v, Pair) - feesOfHistory'
      BY <1>8, <1>15, <2>5, <2>6, <2>7, <2>8
    <2> QED BY <1>2, <2>9 DEF Wealth
  <1>19. Activity'
    <2> SUFFICES ASSUME \A n \in DOMAIN fills' : ~fills'[n].issued
                 PROVE  wallet'.available + wallet'.reserved
                            = 5 + (FlowAt(1)' + FlowAt(2)') + SumOf(Payouts, Pair)'
      BY DEF Activity
    <2>1. Payouts' = net BY <1>5, <1>6 DEF Payouts
    <2>2. SumOf(Payouts, Pair) = 0
      <3>1. PICK p : p = Payouts OBVIOUS
      <3>2. \A x \in Pair : p[x] = 0 BY <3>1 DEF Payouts
      <3>3. {} \in SUBSET Pair /\ \A x \in Pair : p[x] \in Int BY <3>2
      <3>4. SumOf(p, Pair) = SumOf(p, {}) BY <1>8, <3>2, <3>3, SumOfPart
      <3> QED BY <3>1, <3>4, SumOfNothing
    <2>3. wallet.available + wallet.reserved
              = 5 + (FlowAt(1) + FlowAt(2)) + SumOf(Payouts, Pair)
      BY DEF HistoryInv, Activity
    <2>4. FlowAt(1) \in Int /\ FlowAt(2) \in Int BY <1>3, PlacesHold
    <2>5. PICK t : t = FlowAt(1) + FlowAt(2) /\ t \in Int BY <2>4
    <2>6. wallet.available + wallet.reserved = 5 + t BY <2>2, <2>3, <2>5
    <2>7. wallet'.available + wallet'.reserved = 5 + t + sn BY <1>8, <1>15, <2>5, <2>6
    <2> QED BY <1>7, <2>1, <2>5, <2>7
  <1>20. \A x \in Pair : Gone(x)' BY <1>5, <1>6, <1>10 DEF GainAt, HistoryInv, Gone
  <1> QED BY <1>13, <1>16, <1>17, <1>18, <1>19, <1>20 DEF HistoryInv

(* What is paid and the fees of it, added up over all outcomes.            *)
LEMMA PaymentsAddUp ==
    ASSUME NEW H \in SUBSET Pair, NEW f, \A x \in H : f[x] \in Int, NEW n,
           n = [x \in Pair |-> IF x \in H THEN f[x] ELSE 0]
    PROVE  /\ History!Total([x \in H |-> f[x]]) = SumOf(n, Pair)
           /\ \A x \in Pair : n[x] \in Int
  BY TotalOfSome

LEMMA MarketSettles ==
    ASSUME HistoryInv, History!Settle
    PROVE  HistoryInv'
  <1>1. PICK H, g, rec : /\ H = History!Held
                         /\ g = [x \in Pair |-> IF x = winner THEN position[x].quantity * 4 ELSE 0]
                         /\ rec = [x \in Pair |-> History!SettlementOf(x)]
    OBVIOUS
  <1>2. H \in SUBSET Pair BY <1>1 DEF History!Held
  <1>3. \A x \in Pair : /\ position[x].quantity \in Nat /\ position[x].cost \in Int
                        /\ g[x] \in Int
    BY <1>1 DEF HistoryInv, BalancesTyped, HistoryPositions
  <1>4. PICK cut, sum : /\ cut = [x \in Pair |-> History!CalculateFee(g[x])]
                        /\ sum = [x \in Pair |-> g[x] - History!CalculateFee(g[x])]
    OBVIOUS
  <1>5. \A x \in Pair : cut[x] \in Int /\ sum[x] \in Int /\ sum[x] + cut[x] = g[x]
    BY <1>3, <1>4, FeeIsInteger
  <1>6. \A x \in Pair : /\ rec[x] = [kind |-> IF x = winner THEN "WIN" ELSE "LOSS",
                                     quantity |-> position[x].quantity,
                                     net |-> sum[x], delta |-> g[x] - position[x].cost]
    BY <1>1, <1>4 DEF History!SettlementOf
  <1>7. \A x \in Pair : /\ rec[x] \in PayoutRecords /\ rec[x].net = sum[x]
                        /\ rec[x].delta = g[x] - position[x].cost
    <2> SUFFICES ASSUME NEW x \in Pair
                 PROVE  /\ rec[x] \in PayoutRecords /\ rec[x].net = sum[x]
                        /\ rec[x].delta = g[x] - position[x].cost
      OBVIOUS
    <2>1. PICK a, b, c, d : /\ a = (IF x = winner THEN "WIN" ELSE "LOSS")
                            /\ b = position[x].quantity /\ c = sum[x]
                            /\ d = g[x] - position[x].cost
      OBVIOUS
    <2>2. a \in {"WIN", "LOSS", "VOID_REFUND"} /\ b \in Nat /\ c \in Int /\ d \in Int
      BY <1>3, <1>5, <2>1
    <2>3. rec[x] = [kind |-> a, quantity |-> b, net |-> c, delta |-> d] BY <1>6, <2>1
    <2> QED BY <2>1, <2>2, <2>3 DEF PayoutRecords
  <1>8. PICK net, fee : /\ net = [x \in Pair |-> IF x \in H THEN sum[x] ELSE 0]
                        /\ fee = [x \in Pair |-> IF x \in H THEN cut[x] ELSE 0]
    OBVIOUS
  <1>9. /\ History!Total([x \in H |-> sum[x]]) = SumOf(net, Pair)
        /\ History!Total([x \in H |-> cut[x]]) = SumOf(fee, Pair)
        /\ \A x \in Pair : net[x] \in Int /\ fee[x] \in Int
    <2>1. \A x \in H : sum[x] \in Int /\ cut[x] \in Int BY <1>2, <1>5
    <2>2. /\ History!Total([x \in H |-> sum[x]]) = SumOf(net, Pair)
          /\ \A x \in Pair : net[x] \in Int
      BY <1>2, <1>8, <2>1, PaymentsAddUp
    <2>3. /\ History!Total([x \in H |-> cut[x]]) = SumOf(fee, Pair)
          /\ \A x \in Pair : fee[x] \in Int
      BY <1>2, <1>8, <2>1, PaymentsAddUp
    <2> QED BY <2>2, <2>3
  <1>10. /\ status = "RESOLVED" /\ UNCHANGED <<status, orders, fills, exits, bid, last>>
         /\ \A x \in Pair : paid[x] = None
         /\ paid' = [x \in Pair |-> IF x \in H THEN History!SettlementOf(x) ELSE None]
         /\ wallet' = [wallet EXCEPT !.available = @
                           + History!Total([x \in H |-> History!SettlementOf(x).net])]
         /\ position' = [x \in Pair |-> IF x \in H
                             THEN History!Emptied(position[x], History!SettlementOf(x).delta)
                             ELSE position[x]]
         /\ feesOfHistory' = feesOfHistory
                + History!Total([x \in H |-> History!CalculateFee(
                                     IF x = winner THEN position[x].quantity * 4 ELSE 0)])
    BY <1>1 DEF History!Settle, History!Pay, History!market
  <1>11. /\ paid' = [x \in Pair |-> IF x \in H THEN rec[x] ELSE None]
         /\ position' = [x \in Pair |-> IF x \in H THEN History!Emptied(position[x], rec[x].delta)
                                        ELSE position[x]]
    BY <1>1, <1>10
  <1>12. /\ [x \in H |-> History!SettlementOf(x).net] = [x \in H |-> sum[x]]
         /\ [x \in H |-> History!CalculateFee(
                 IF x = winner THEN position[x].quantity * 4 ELSE 0)] = [x \in H |-> cut[x]]
    BY <1>1, <1>2, <1>4, <1>7
  <1>13. /\ \A k \in DOMAIN orders : ~History!Live(orders[k])
         /\ \A n : FlowAt(n)' = FlowAt(n)
         /\ orders' \in Seq(History!Orders) /\ DOMAIN orders' = DOMAIN orders /\ Len(orders') <= 2
    BY <1>10 DEF HistoryInv, RowsTyped, FlowAt
  <1>14. wallet' = [available |-> (wallet.available + wallet.reserved) + SumOf(net, Pair),
                    reserved |-> 0]
    <2>1. CashAt(1) = 0 /\ CashAt(2) = 0 BY <1>13, LiveAreAll DEF HistoryInv, History!LiveOrders
    <2>2. wallet.reserved = 0 BY <2>1 DEF HistoryInv, Reserves
    <2>3. wallet \in [available : Int, reserved : Int] BY DEF HistoryInv, BalancesTyped
    <2>4. wallet' = [wallet EXCEPT !.available = @ + SumOf(net, Pair)] BY <1>9, <1>10, <1>12
    <2>5. PICK t : t = SumOf(net, Pair) OBVIOUS
    <2> QED BY <2>2, <2>3, <2>4, <2>5
  <1>15. feesOfHistory' = feesOfHistory + SumOf(fee, Pair) BY <1>9, <1>10, <1>12
  <1>16. \A x \in H : /\ rec[x] \in PayoutRecords /\ g[x] \in Int
                      /\ rec[x].net = net[x] /\ net[x] + fee[x] = g[x]
                      /\ rec[x].delta = g[x] - position[x].cost
    BY <1>2, <1>3, <1>5, <1>7, <1>8
  <1>17. \A x \in Pair \ H : net[x] = 0 /\ fee[x] = 0 BY <1>8
  <1>18. net = [x \in Pair |-> net[x]] BY <1>8
  <1>19. PaysFor(H, rec, g, net, fee) BY <1>9, <1>16, <1>17, <1>18 DEF PaysFor
  <1>20. PaysOut(H, rec, net, fee) BY <1>10, <1>11, <1>13, <1>14, <1>15 DEF PaysOut
  <1> QED BY <1>1, <1>19, <1>20, HoldingsArePaid

LEMMA MarketRefunds ==
    ASSUME HistoryInv, History!Refund
    PROVE  HistoryInv'
  <1>1. PICK H, g, rec, S : /\ H = History!Held /\ g = [x \in Pair |-> position[x].cost]
                            /\ rec = [x \in Pair |-> History!RefundOf(x)]
                            /\ S = History!LiveOrders
    OBVIOUS
  <1>2. H \in SUBSET Pair BY <1>1 DEF History!Held
  <1>3. \A x \in Pair : /\ position[x].quantity \in Nat /\ g[x] = position[x].cost
                        /\ g[x] \in Int
    BY <1>1 DEF HistoryInv, BalancesTyped, HistoryPositions
  <1>4. PICK cut, sum : /\ cut = [x \in Pair |-> History!CalculateFee(g[x])]
                        /\ sum = [x \in Pair |-> g[x] - History!CalculateFee(g[x])]
    OBVIOUS
  <1>5. \A x \in Pair : cut[x] \in Int /\ sum[x] \in Int /\ sum[x] + cut[x] = g[x]
    BY <1>3, <1>4, FeeIsInteger
  <1>6. \A x \in Pair : rec[x] = [kind |-> "VOID_REFUND", quantity |-> position[x].quantity,
                                  net |-> sum[x], delta |-> 0]
    BY <1>1, <1>4 DEF History!RefundOf
  <1>7. \A x \in Pair : /\ rec[x] \in PayoutRecords /\ rec[x].net = sum[x]
                        /\ rec[x].delta = g[x] - position[x].cost
    <2> SUFFICES ASSUME NEW x \in Pair
                 PROVE  /\ rec[x] \in PayoutRecords /\ rec[x].net = sum[x]
                        /\ rec[x].delta = g[x] - position[x].cost
      OBVIOUS
    <2>1. PICK b, c : b = position[x].quantity /\ c = sum[x] /\ b \in Nat /\ c \in Int BY <1>3, <1>5
    <2>2. rec[x] = [kind |-> "VOID_REFUND", quantity |-> b, net |-> c, delta |-> 0] BY <1>6, <2>1
    <2>3. g[x] - position[x].cost = 0 BY <1>3
    <2> QED BY <2>1, <2>2, <2>3 DEF PayoutRecords
  <1>8. PICK net, fee : /\ net = [x \in Pair |-> IF x \in H THEN sum[x] ELSE 0]
                        /\ fee = [x \in Pair |-> IF x \in H THEN cut[x] ELSE 0]
    OBVIOUS
  <1>9. /\ History!Total([x \in H |-> sum[x]]) = SumOf(net, Pair)
        /\ History!Total([x \in H |-> cut[x]]) = SumOf(fee, Pair)
        /\ \A x \in Pair : net[x] \in Int /\ fee[x] \in Int
    <2>1. \A x \in H : sum[x] \in Int /\ cut[x] \in Int BY <1>2, <1>5
    <2>2. /\ History!Total([x \in H |-> sum[x]]) = SumOf(net, Pair)
          /\ \A x \in Pair : net[x] \in Int
      BY <1>2, <1>8, <2>1, PaymentsAddUp
    <2>3. /\ History!Total([x \in H |-> cut[x]]) = SumOf(fee, Pair)
          /\ \A x \in Pair : fee[x] \in Int
      BY <1>2, <1>8, <2>1, PaymentsAddUp
    <2> QED BY <2>2, <2>3
  <1>10. /\ orders' = History!Cancelled(S, "MARKET_VOID")
         /\ UNCHANGED <<status, fills, exits, bid, last>>
         /\ \A x \in Pair : paid[x] = None
         /\ paid' = [x \in Pair |-> IF x \in H THEN History!RefundOf(x) ELSE None]
         /\ wallet' = [History!WalletAfterCancel(S) EXCEPT !.available = @
                           + History!Total([x \in H |-> History!RefundOf(x).net])]
         /\ position' = [x \in Pair |-> IF x \in H
                             THEN History!Emptied(position[x], History!RefundOf(x).delta)
                             ELSE position[x]]
         /\ feesOfHistory' = feesOfHistory
                + History!Total([x \in H |-> History!CalculateFee(position[x].cost)])
    BY <1>1 DEF History!Refund, History!Pay, History!market
  <1>11. /\ paid' = [x \in Pair |-> IF x \in H THEN rec[x] ELSE None]
         /\ position' = [x \in Pair |-> IF x \in H THEN History!Emptied(position[x], rec[x].delta)
                                        ELSE position[x]]
    BY <1>1, <1>10
  <1>12. /\ [x \in H |-> History!RefundOf(x).net] = [x \in H |-> sum[x]]
         /\ [x \in H |-> History!CalculateFee(position[x].cost)] = [x \in H |-> cut[x]]
    BY <1>1, <1>2, <1>4, <1>7
  <1>13. /\ \A k \in DOMAIN orders : ~History!Live(orders'[k])
         /\ \A n : FlowAt(n)' = FlowAt(n)
         /\ orders' \in Seq(History!Orders) /\ DOMAIN orders' = DOMAIN orders /\ Len(orders') <= 2
    BY <1>1, <1>10, CancelledAre DEF History!LiveOrders
  <1>14. wallet' = [available |-> (wallet.available + wallet.reserved) + SumOf(net, Pair),
                    reserved |-> 0]
    <2>1. wallet.reserved = CashAt(1) + CashAt(2) /\ RowsTyped BY DEF HistoryInv, Reserves
    <2>2. History!Releases(S) = wallet.reserved BY <1>1, <2>1, AllReleasesAre
    <2>3. wallet.available \in Int /\ wallet.reserved \in Int BY DEF HistoryInv, BalancesTyped
    <2>4. History!WalletAfterCancel(S) =
              [available |-> wallet.available + wallet.reserved, reserved |-> 0]
      BY <2>2, <2>3 DEF History!WalletAfterCancel
    <2>5. PICK t, a : t = SumOf(net, Pair) /\ a = wallet.available + wallet.reserved OBVIOUS
    <2>6. wallet' = [[available |-> a, reserved |-> 0] EXCEPT !.available = @ + t]
      BY <1>9, <1>10, <1>12, <2>4, <2>5
    <2> QED BY <2>5, <2>6
  <1>15. feesOfHistory' = feesOfHistory + SumOf(fee, Pair) BY <1>9, <1>10, <1>12
  <1>16. \A x \in H : /\ rec[x] \in PayoutRecords /\ g[x] \in Int
                      /\ rec[x].net = net[x] /\ net[x] + fee[x] = g[x]
                      /\ rec[x].delta = g[x] - position[x].cost
    BY <1>2, <1>3, <1>5, <1>7, <1>8
  <1>17. \A x \in Pair \ H : net[x] = 0 /\ fee[x] = 0 BY <1>8
  <1>18. net = [x \in Pair |-> net[x]] BY <1>8
  <1>19. PaysFor(H, rec, g, net, fee) BY <1>9, <1>16, <1>17, <1>18 DEF PaysFor
  <1>20. PaysOut(H, rec, net, fee) BY <1>10, <1>11, <1>13, <1>14, <1>15 DEF PaysOut
  <1> QED BY <1>1, <1>19, <1>20, HoldingsArePaid

LEMMA HistoryNext ==
    ASSUME HistoryInv, History!Next
    PROVE  HistoryInv'
  <1>1. CASE \E o \in History!NewOrders : History!PlaceOrder(o) BY <1>1, OrderIsPlaced
  <1>2. CASE \E i \in DOMAIN orders, q \in {1, 2}, p \in {1, 3}, minted \in BOOLEAN :
                 History!Execute(i, q, p, minted)
    BY <1>2, BuyIsExecuted, SellIsExecuted
  <1>3. CASE \E i \in DOMAIN orders : History!CancelOrder(i) BY <1>3, OrderIsCancelled
  <1>4. CASE History!Close BY <1>4, MarketCloses
  <1>5. CASE History!Settle BY <1>5, MarketSettles
  <1>6. CASE History!Refund BY <1>6, MarketRefunds
  <1>7. CASE \/ \E o \in Pair : History!Resolve(o)
             \/ History!Void \/ History!Showing \/ History!Others
    BY <1>7, HistoryWaits
  <1> QED BY <1>1, <1>2, <1>3, <1>4, <1>5, <1>6, <1>7
          DEF History!Next, History!Trading, History!Ending

-----------------------------------------------------------------------------
(* A step changes the component that the behaviour is about, and no other. *)
LEMMA PartsOnly ==
    ASSUME [Next]_vars
    PROVE  /\ part' = part
           /\ part = "Cash" => Cash!Next \/ UNCHANGED cashVars
           /\ part = "Clearance" => Clearance!Next \/ UNCHANGED clearanceVars
           /\ part = "Limits" => Limits!Next \/ UNCHANGED limitsVars
           /\ part = "League" => League!Next \/ UNCHANGED leagueVars
           /\ part = "Club" => Club!Next \/ UNCHANGED clubVars
           /\ part = "Fees" => Fees!Next \/ UNCHANGED feesVars
           /\ part = "Corrections" => Corrections!Next \/ UNCHANGED correctionsVars
           /\ part = "Books" => Books!Next \/ UNCHANGED booksVars
           /\ part = "History" => History!Next \/ UNCHANGED historyVars
           /\ part = "Plans" => Plans!Next \/ UNCHANGED plansVars
  BY DEF Next, vars, CashStep, FeesStep, CorrectionsStep, BooksStep, HistoryStep, PlansStep,
         ClearanceStep, LimitsStep, LeagueStep, ClubStep

(* Nobody trades who is restricted or in a blocked country, and every      *)
(* override of a recommendation has the approval of a second member of the *)
(* staff: for any staff and any number of proposals and changes.           *)
THEOREM ClearanceSound == Spec => []TradesCleared
  <1> DEFINE Inv == part = "Clearance" => ClearanceInv
  <1>1. Init => Inv BY ClearanceInit DEF Init
  <1>2. Inv /\ [Next]_vars => Inv' BY PartsOnly, ClearanceNext, ClearanceStutter
  <1>3. Inv => TradesCleared BY DEF ClearanceInv, TradesCleared
  <1> QED BY <1>1, <1>2, <1>3, PTL DEF Spec

(* LimitsHold: no order is created beyond a limit that holds at that       *)
(* moment, no exclusion is shortened, joins of a league pass its capacity  *)
(* by less than the joins in hand at a time, and a withdrawal stays in its *)
(* final state; fills are not limited. For any markets, orders, limits,    *)
(* owners, requests and keys.                                              *)
THEOREM LimitsAreKept == Spec => LimitsHold
  <1> DEFINE Inv == /\ part = "Limits" => LimitsInv
                    /\ part = "League" => LeagueInv
                    /\ part = "Cash" => CashInv
             Keeps == /\ part = "Limits" => Limits!KeepsToLimits
                      /\ part = "League" => League!JoinsWithinCapacity
                      /\ part = "Cash" => Cash!KeepsTerminal
  <1>1. Init => Inv BY LimitsInit, LeagueInit, CashInit DEF Init
  <1>2. Inv /\ [Next]_vars => Inv' /\ Keeps
    <2> SUFFICES ASSUME Inv, [Next]_vars PROVE Inv' /\ Keeps OBVIOUS
    <2>1. part' = part BY PartsOnly
    <2>2. CASE part = "Limits" BY <2>1, <2>2, PartsOnly, LimitsNext, LimitsStutter
    <2>3. CASE part = "League" BY <2>1, <2>3, PartsOnly, LeagueNext, LeagueStutter, JoinsFindRoom
    <2>4. CASE part = "Cash" BY <2>1, <2>4, PartsOnly, CashNext, CashStutter
    <2> QED BY <2>1, <2>2, <2>3, <2>4
  <1>3. Inv /\ [Next]_vars => [Keeps]_vars BY <1>2
  <1> QED BY <1>1, <1>2, <1>3, PTL DEF Spec, LimitsHold

(* InvitationGivesAccess: the user of an accepted invitation has the role  *)
(* it was sent for, or that of the workspace before, and an administrator  *)
(* is a Club Admin; it is one user unless two requests had the invitation  *)
(* in hand. For any invitees, workspaces, number of invitations and        *)
(* concurrent requests.                                                    *)
THEOREM AccessIsSound == Spec => []InvitationGivesAccess
  <1> DEFINE Inv == part = "Club" => PeopleInv
  <1>1. Init => Inv BY PeopleInit DEF Init
  <1>2. Inv /\ [Next]_vars => Inv' BY PartsOnly, PeopleNext, PeopleStutter
  <1>3. Inv => InvitationGivesAccess BY PeopleInvSays DEF InvitationGivesAccess
  <1> QED BY <1>1, <1>2, <1>3, PTL DEF Spec

(* What a wallet has reserved is what its unfinished withdrawals and its   *)
(* orders hold, nothing is created or lost, and the transaction a user     *)
(* sees ends as its withdrawal does: for any users, currencies, funds and  *)
(* requests, any number of them concurrent.                                *)
THEOREM MoneyBalances == Spec => []WithdrawalsBalance
  <1> DEFINE Inv == part = "Cash" => MoneyInv
  <1>1. Init => Inv BY MoneyInit DEF Init
  <1>2. Inv /\ [Next]_vars => Inv' BY PartsOnly, MoneyNext, MoneyStutter
  <1>3. Inv => WithdrawalsBalance BY MoneyInvSays DEF WithdrawalsBalance
  <1> QED BY <1>1, <1>2, <1>3, PTL DEF Spec

(* Automatic approval stays within its limits and goes only where the      *)
(* policy lets it: for any limits and windows, and requests that run at    *)
(* the same time on wallets of different currencies.                       *)
THEOREM ApprovalsAreSafe == Spec => []AutoApprovalsSafe
  <1> DEFINE Inv == part = "Cash" => AutoInv
  <1>1. Init => Inv BY AutoInit DEF Init
  <1>2. Inv /\ [Next]_vars => Inv' BY PartsOnly, AutoNext, AutoStutter
  <1>3. Inv => AutoApprovalsSafe BY AutoInvSays DEF AutoApprovalsSafe
  <1> QED BY <1>1, <1>2, <1>3, PTL DEF Spec

(* MoneyDesksBalance, with its exceptions for overlapping activations of a *)
(* scope and for runs that a write disturbed: for any outcomes, any number *)
(* of concurrent requests and every order of steps.                        *)
THEOREM DesksBalance == Spec => []MoneyDesksBalance
  <1> DEFINE Inv == /\ part = "Fees" => FeesInv
                    /\ part = "Corrections" => CorrectionsInv
                    /\ part = "Books" => BooksInv
                    /\ part = "History" => HistoryInv
                    /\ part = "Plans" => PlansInv
  <1>1. Init => Inv BY FeesInit, CorrectionsInit, BooksInit, HistoryInit, PlansInit DEF Init
  <1>2. Inv /\ [Next]_vars => Inv'
    <2> SUFFICES ASSUME Inv, [Next]_vars PROVE Inv' OBVIOUS
    <2>1. part' = part BY PartsOnly
    <2>2. CASE part = "Fees" BY <2>1, <2>2, PartsOnly, FeesNext, FeesStutter
    <2>3. CASE part = "Corrections" BY <2>1, <2>3, PartsOnly, CorrectionsNext, CorrectionsStutter
    <2>4. CASE part = "Books" BY <2>1, <2>4, PartsOnly, BooksNext, BooksStutter
    <2>5. CASE part = "History" BY <2>1, <2>5, PartsOnly, HistoryNext, HistoryStutter
    <2>6. CASE part = "Plans" BY <2>1, <2>6, PartsOnly, PlansNext, PlansStutter
    <2> QED BY <2>1, <2>2, <2>3, <2>4, <2>5, <2>6
  <1>3. Inv => MoneyDesksBalance
    BY FeesInvSays, CorrectionsInvSays, BooksInvSays, HistoryInvSays, PlansInvSays
       DEF MoneyDesksBalance
  <1> QED BY <1>1, <1>2, <1>3, PTL DEF Spec

=============================================================================
