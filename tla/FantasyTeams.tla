----------------------------- MODULE FantasyTeams -----------------------------
(***************************************************************************)
(* The squad of one fantasy team: transfers against the prices and the     *)
(* availability the administrators set, lineups, and the free transfers of *)
(* each gameweek.                                                          *)
(*                                                                         *)
(* A transfer reads the team, its selections and the pool without a lock,  *)
(* checks them, and only then locks the row that counts the transfers of   *)
(* the gameweek: it is a step that reads and a step that writes. A lineup  *)
(* locks the selections it replaces. The squad has three places, so that a *)
(* lineup is one captain, one vice captain and one player on the bench.    *)
(***************************************************************************)
EXTENDS Integers, FiniteSetsExt

CONSTANTS
    Players, Prices, Club,  \* the pool, the prices in use, the club of each player
    InitialBudget, MaxPerClub, FreeTransfers, TransferPenalty, Gameweeks,
    Requests,               \* requests of the owner at one time
    InitialPrice,           \* of each player when the team is created
    InitialSquad,           \* the players chosen then, by place
    MaxTransfers,           \* bound on the transfers of a gameweek
    MaxChanges,             \* bound on the changes of prices, of gameweeks and of lineups
    None

Slots == 1..3
Roles == {"captain", "vice", "bench"}
Selections == [player : Players, price : Prices, role : Roles]
States == [used : 0..MaxTransfers, penalty : Nat]

VARIABLES
    price, unavailable, \* FantasyPlayer
    squad,              \* FantasyTeamPlayer of the team
    budget,             \* budget_remaining
    state,              \* FantasyTeamGameweekState
    transfers,          \* FantasyTransfer: how many, and their penalties
    closed,             \* gameweeks that are locked
    request,            \* what a request has read
    overlapped,         \* two requests changed the squad at a time
    changes             \* of prices, of gameweeks and of lineups

vars == <<price, unavailable, squad, budget, state, transfers, closed, request,
          overlapped, changes>>
pool == <<price, unavailable>>
team == <<squad, budget, state, transfers>>

TypeOK ==
    /\ price \in [Players -> Prices] /\ unavailable \subseteq Players
    /\ squad \in [Slots -> Selections] /\ budget \in Int
    /\ state \in [Gameweeks -> States]
    /\ transfers \in [Gameweeks -> [count : 0..MaxTransfers, penalties : Nat]]
    /\ closed \subseteq Gameweeks /\ DOMAIN request = Requests
    /\ overlapped \in BOOLEAN /\ changes \in 0..MaxChanges

(* validate_selections, for the squad and for a lineup.                    *)
Spend(players) == MapThenSumSet(LAMBDA p : price[p], players)
AnyClub(players) == TRUE
ClubQuota(players) ==
    \A p \in players : Cardinality({q \in players : Club[q] = Club[p]}) <= MaxPerClub
OneEach(roles) == \A r \in Roles : \E s \in Slots : roles[s] = r
Valid(players, roles) ==
    /\ Cardinality(players) = Cardinality(Slots) /\ OneEach(roles)
    /\ players \cap unavailable = {}
    /\ Spend(players) <= InitialBudget /\ ClubQuota(players)

Chosen == [s \in Slots |-> squad[s].player]
Role == [s \in Slots |-> squad[s].role]
PlayersOf(chosen) == {chosen[s] : s \in Slots}
Paid == MapThenSumSet(LAMBDA s : squad[s].price, Slots)

(* TeamSerializer.create.                                                  *)
Init ==
    /\ price = InitialPrice /\ unavailable = {}
    /\ squad = [s \in Slots |->
          [player |-> InitialSquad[s], price |-> price[InitialSquad[s]],
           role |-> <<"captain", "vice", "bench">>[s]]]
    /\ budget = InitialBudget - Paid
    /\ state = [g \in Gameweeks |-> [used |-> 0, penalty |-> 0]]
    /\ transfers = [g \in Gameweeks |-> [count |-> 0, penalties |-> 0]]
    /\ closed = {} /\ request = [r \in Requests |-> None]
    /\ overlapped = FALSE /\ changes = 0

-----------------------------------------------------------------------------
Change == changes < MaxChanges /\ changes' = changes + 1

(* TeamViewSet.transfer up to the lock. transfer_preview reads the same.   *)
MayTransfer(g, s, in) ==
    /\ g \notin closed /\ in \notin unavailable
    /\ Valid(PlayersOf([Chosen EXCEPT ![s] = in]), Role)

NewBudgetAtCurrent(s, in) == budget + price[squad[s].player] - price[in]
NewBudget(s, in) == budget + squad[s].price - price[in]

ReadTransfer(r, g, s, in) ==
    /\ request[r] = None /\ MayTransfer(g, s, in)
    /\ request' = [request EXCEPT ![r] =
          [gameweek |-> g, slot |-> s, player |-> in, price |-> price[in],
           role |-> squad[s].role, budget |-> NewBudget(s, in)]]
    /\ UNCHANGED <<pool, team, closed, overlapped, changes>>

(* The lock makes the count of the gameweek the one of its turn.           *)
FreeAlways(g) == TRUE
FreeLeft(g) == state[g].used < FreeTransfers
PenaltyOf(g) == IF FreeLeft(g) THEN 0 ELSE TransferPenalty

(* A player once in a team, one captain and one vice captain.              *)
Unique(s, row) ==
    \A t \in Slots \ {s} :
        squad[t].player # row.player /\ (row.role = "bench" \/ squad[t].role # row.role)

WriteTransfer(r) ==
    LET q == request[r]
        row == [player |-> q.player, price |-> q.price, role |-> q.role]
    IN
    /\ q # None /\ request' = [request EXCEPT ![r] = None]
    /\ IF Unique(q.slot, row)
       THEN /\ transfers[q.gameweek].count < MaxTransfers
            /\ transfers' = [transfers EXCEPT ![q.gameweek].count = @ + 1,
                                ![q.gameweek].penalties = @ + PenaltyOf(q.gameweek)]
            /\ squad' = [squad EXCEPT ![q.slot] = row] /\ budget' = q.budget
            /\ state' = [state EXCEPT ![q.gameweek].used = @ + 1,
                                ![q.gameweek].penalty = @ + PenaltyOf(q.gameweek)]
       ELSE UNCHANGED team
    /\ overlapped' = (overlapped \/ \E o \in Requests \ {r} : request[o] # None)
    /\ UNCHANGED <<pool, closed, changes>>

(* replace_lineup: the squad stays, its roles change; captain and vice     *)
(* captain are cleared first, so that no step breaks their uniqueness.     *)
Lineup(roles) ==
    /\ Change /\ roles # Role
    /\ closed # Gameweeks /\ Valid(PlayersOf(Chosen), roles)
    /\ squad' = [s \in Slots |-> [squad[s] EXCEPT !.role = roles[s]]]
    /\ overlapped' = (overlapped \/ \E r \in Requests : request[r] # None)
    /\ UNCHANGED <<pool, budget, state, transfers, closed, request>>

-----------------------------------------------------------------------------
(* PlayerViewSet.                                                          *)
SetPrice(p, v) ==
    /\ Change
    /\ v # price[p] /\ price' = [price EXCEPT ![p] = v]
    /\ UNCHANGED <<unavailable, team, closed, request, overlapped>>

SetUnavailable(p) ==
    /\ Change
    /\ p \notin unavailable /\ unavailable' = unavailable \cup {p}
    /\ UNCHANGED <<price, team, closed, request, overlapped>>

LockGameweek(g) ==
    /\ Change
    /\ g \notin closed /\ closed' = closed \cup {g}
    /\ UNCHANGED <<pool, team, request, overlapped>>

Next ==
    \/ \E r \in Requests :
          \/ WriteTransfer(r)
          \/ \E g \in Gameweeks, s \in Slots, p \in Players : ReadTransfer(r, g, s, p)
    \/ \E roles \in [Slots -> Roles] : Lineup(roles)
    \/ \E p \in Players : SetUnavailable(p) \/ \E v \in Prices : SetPrice(p, v)
    \/ \E g \in Gameweeks : LockGameweek(g)

Spec == Init /\ [][Next]_vars

-----------------------------------------------------------------------------
(* Each transfer of a gameweek is counted once, and exactly those above    *)
(* the free ones cost the penalty, however many requests transfer at a     *)
(* time: what the scoring subtracts is what the history shows.             *)
PenaltiesAgree ==
    \A g \in Gameweeks :
        /\ state[g].used = transfers[g].count
        /\ state[g].penalty = transfers[g].penalties
        /\ state[g].penalty = TransferPenalty * Max({0, state[g].used - FreeTransfers})

(* While the requests of the owner follow each other, prices may move as   *)
(* they like: the squad keeps its quotas and its lineup, and the budget is *)
(* what its purchases have left.                                           *)
SquadStaysLegal ==
    ~overlapped =>
        /\ Cardinality(PlayersOf(Chosen)) = Cardinality(Slots) /\ OneEach(Role)
        /\ ClubQuota(PlayersOf(Chosen))
        /\ budget = InitialBudget - Paid

(* The same with two requests of the owner side by side.                   *)
SquadLegalAlways == OneEach(Role) /\ ClubQuota(PlayersOf(Chosen)) /\ budget = InitialBudget - Paid

(* A team does not spend more than it has.                                 *)
BudgetCovered == overlapped \/ budget >= 0
=============================================================================
