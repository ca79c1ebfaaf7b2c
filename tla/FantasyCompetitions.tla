-------------------------- MODULE FantasyCompetitions --------------------------
(***************************************************************************)
(* A fantasy competition around its teams: the registration, the pool of   *)
(* players, one league of the owners and its standings.                    *)
(*                                                                         *)
(* Joining a league counts its members and then adds one, with no lock     *)
(* between them; the owner of a league may change its capacity and its     *)
(* visibility at any time.                                                 *)
(***************************************************************************)
EXTENDS Integers, Sequences, FiniteSetsExt

CONSTANTS
    Owners, Names, Clubs,  \* owners of teams, names of athletes, their clubs
    Capacities,            \* capacities a league may be given, all at least two
    MaxPoints,             \* bound on the points of a team
    MaxChanges,            \* bound on the changes of the league and of the scores
    None

Visibilities == {"PUBLIC", "PRIVATE"}
Leagues == [owner : Owners, visibility : Visibilities, capacity : Capacities,
            code : BOOLEAN]
Rules == {"total_points", "fewer_transfer_penalties", "earlier_registration"}

VARIABLES
    open,       \* registration_state, while the competition is enabled
    deadline,   \* registration_deadline has passed
    clubOf,     \* PlayerProfile of the athletes that are known, by name
    pool,       \* FantasyPlayer
    teams,      \* FantasyTeam: the owners, in the order they registered
    points,     \* total of the FantasyTeamGameweekScore of a team
    league, members,
    joining,    \* owners whose request has counted the members
    most,       \* the most joins there were at a time between count and write
    peak,       \* the largest capacity the league has had
    changes

vars == <<open, deadline, clubOf, pool, teams, points, league, members, joining,
          most, peak, changes>>
competition == <<open, deadline, clubOf, pool, teams>>
social == <<points, league, members, joining, most, peak, changes>>

TypeOK ==
    /\ {open, deadline} \subseteq BOOLEAN
    /\ clubOf \in [Names -> Clubs \cup {None}] /\ pool \subseteq Names
    /\ \A i, j \in DOMAIN teams : teams[i] = teams[j] => i = j
    /\ points \in [Owners -> 0..MaxPoints]
    /\ league \in Leagues \cup {None} /\ members \subseteq Owners
    /\ joining \subseteq Owners /\ {most, peak} \subseteq Nat /\ changes \in 0..MaxChanges

TeamOwners == {teams[i] : i \in DOMAIN teams}
Larger(m, n) == IF m > n THEN m ELSE n
Change == changes < MaxChanges /\ changes' = changes + 1

(* FantasyCompetition: it starts closed, without players and teams.        *)
Init ==
    /\ open = FALSE /\ deadline = FALSE
    /\ clubOf \in [Names -> {None, CHOOSE c \in Clubs : TRUE}] /\ pool = {}
    /\ teams = <<>> /\ points = [o \in Owners |-> 0]
    /\ league = None /\ members = {} /\ joining = {}
    /\ most = 0 /\ peak = 0 /\ changes = 0

-----------------------------------------------------------------------------
(* CompetitionViewSet: update; canonical_options, rules and admin_list read *)
SetRegistration(value) ==
    /\ open # value /\ open' = value
    /\ UNCHANGED <<deadline, clubOf, pool, teams, social>>

DeadlinePasses ==
    /\ ~deadline /\ deadline' = TRUE
    /\ UNCHANGED <<open, clubOf, pool, teams, social>>

(* PlayerViewSet.create offers what candidates lists.                      *)
Candidates == {n \in Names : clubOf[n] # None} \ pool

AddPlayer(n) ==
    /\ n \in Candidates /\ pool' = pool \cup {n}
    /\ UNCHANGED <<open, deadline, clubOf, teams, social>>

(* create_full finds an athlete by name and gives it the club of the form. *)
CreateFull(n, c) ==
    /\ n \notin pool /\ pool' = pool \cup {n}
    /\ clubOf' = [clubOf EXCEPT ![n] = c]
    /\ UNCHANGED <<open, deadline, teams, social>>

RegistrationOpen == open /\ ~deadline

CreateTeam(o) ==
    /\ RegistrationOpen /\ o \notin TeamOwners /\ pool # {}
    /\ teams' = Append(teams, o)
    /\ UNCHANGED <<open, deadline, clubOf, pool, social>>

-----------------------------------------------------------------------------
(* FantasyLeague.save: a private league has a code and a public one none.  *)
Saved(l) == [l EXCEPT !.code = (l.visibility = "PRIVATE")]

(* The league is stored before the team of its owner is looked up, in no   *)
(* transaction: the request of an owner without a team fails after it.     *)
CreateLeague(o, v, c) ==
    /\ league = None
    /\ league' = Saved([owner |-> o, visibility |-> v, capacity |-> c, code |-> FALSE])
    /\ members' = {o} \cap TeamOwners /\ peak' = c
    /\ UNCHANGED <<competition, points, joining, most, changes>>

UpdateLeague(v, c) ==
    /\ league # None /\ <<v, c>> # <<league.visibility, league.capacity>> /\ Change
    /\ league' = Saved([league EXCEPT !.visibility = v, !.capacity = c])
    /\ peak' = Larger(peak, c)
    /\ UNCHANGED <<competition, points, members, joining, most>>

DestroyLeague ==
    /\ league # None /\ Change
    /\ league' = None /\ members' = {} /\ joining' = {} /\ most' = 0 /\ peak' = 0
    /\ UNCHANGED <<competition, points>>

(* join and join_by_code: a public league by its key, a private one by its *)
(* code. Then _join, which reads the count and writes the membership.      *)
AlwaysRoom == TRUE
Room == Cardinality(members) < league.capacity

CountMembers(o) ==
    /\ league # None /\ (league.code \/ league.visibility = "PUBLIC")
    /\ o \in TeamOwners \ joining /\ Room
    /\ joining' = joining \cup {o} /\ most' = Larger(most, Cardinality(joining'))
    /\ UNCHANGED <<competition, points, league, members, peak, changes>>

Join(o) ==
    /\ o \in joining
    /\ joining' = joining \ {o} /\ members' = members \cup {o}
    /\ UNCHANGED <<competition, points, league, most, peak, changes>>

Leave(o) ==
    /\ league # None /\ o # league.owner /\ o \in members
    /\ members' = members \ {o}
    /\ UNCHANGED <<competition, points, league, joining, most, peak, changes>>

(* A scoring writes the total of a team.                                   *)
Score(o, v) ==
    /\ o \in TeamOwners /\ v # points[o] /\ Change
    /\ points' = [points EXCEPT ![o] = v]
    /\ UNCHANGED <<competition, league, members, joining, most, peak>>

-----------------------------------------------------------------------------
(* rank_rows: what a row sorts by, the least first, with the configured    *)
(* rules in their order. The rows of the leaderboards carry the time of    *)
(* registration under another name than the rule reads.                    *)
Key(rule, o) ==
    CASE rule = "total_points" -> -points[o]
      [] OTHER -> 0

Before(o, p) == Key("total_points", o) < Key("total_points", p)
BeforeByRegistration(o, p) ==
    \E i, j \in DOMAIN teams : teams[i] = o /\ teams[j] = p /\ i < j

Standing(o) == 1 + Cardinality({p \in members : Before(p, o)})

Next ==
    \/ DeadlinePasses \/ DestroyLeague
    \/ \E b \in BOOLEAN : SetRegistration(b)
    \/ \E n \in Names : AddPlayer(n) \/ \E c \in Clubs : CreateFull(n, c)
    \/ \E v \in Visibilities, c \in Capacities :
          UpdateLeague(v, c) \/ \E o \in Owners : CreateLeague(o, v, c)
    \/ \E o \in Owners :
          CreateTeam(o) \/ CountMembers(o) \/ Join(o) \/ Leave(o)
    \/ \E o \in Owners, v \in 0..MaxPoints : Score(o, v)

Spec == Init /\ [][Next]_vars

-----------------------------------------------------------------------------
(* A join takes a league beyond the largest capacity it has had by less    *)
(* than the number of joins that were in hand at a time: made one by one,  *)
(* joins keep it, and each that passes another may add one too many.       *)
JoinsWithinCapacity ==
    (\E o \in Owners : Join(o)) => Cardinality(members') < peak + most
CapacityHeld == [][JoinsWithinCapacity]_vars

(* The owner of a league is one of its members.                            *)
OwnerIsMember == league # None => league.owner \in members

(* Of two members with the same points, the earlier team stands first.     *)
TiesByRegistration ==
    \A o, p \in members :
        points[o] = points[p] /\ BeforeByRegistration(o, p) => Standing(o) < Standing(p)
=============================================================================
