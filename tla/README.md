# League OS backend: TLA+ models, checks and proofs

League OS is a Django/PostgreSQL backend for football fans: wallets with an
append-only ledger, mobile-money deposits and withdrawals, YES/NO prediction
markets with an order book, club stores and tickets, fantasy competitions, KYC
and the accounts behind all of it. Concurrency comes from web workers and Celery
workers on one database. There is hardly any in-process state: what can go wrong
happens between the statements of two transactions, between two transactions of
one request, between a read without a lock and the save that follows it, or
between the database and a cache, a file storage or a payment provider.

This directory models the parts of the system that keep state, checks them with
TLC and proves with TLAPS those that keep money and results: the wallet ledger, the
results of markets, trading, withdrawals and deposits, the store and the tickets of a
club, and what the components beside them promise. `PROJECT.json` holds the line-by-line map from definitions to source, the runs,
the mutants, the hazards, the findings and the theorems.

## 1. Inventory

| Component | State | Operations | What is hard | What makes it correct |
|---|---|---|---|---|
| Wallet ledger (`WalletService._execute`) | `Wallet` rows, append-only `LedgerEntry` rows with a unique reference | credit, reserve, release, debit, consume; wallet creation | interleaved statements, replays, lock order, crash | the ledger explains the balance, a reference is used once, a success is recorded, every call ends |
| Withdrawals, automatic approval | `WithdrawalRequest`, `WalletTransaction` | request, evaluate, approve, reject, process, complete, fail | two wallets of one user at once, windows of time, an account disabled in between | reserved funds back open withdrawals, limits of automatic approval hold |
| Pesapal deposits | `DepositIntent`, `PesapalDeposit`, orders at the provider | start, IPN, callback, reconcile | lost answers; repeated, late and reordered notifications | submitted once, credited once and only if paid, credited in the end |
| Market lifecycle and results | status, provisional result, disputes, decisions, payouts | create ... approve, open, close, publish, dispute, decide, resolve, void, settle, refund | legal calls of many roles around deadlines | a result follows an independent review, paid once, settled in the end |
| Trading | orders, positions, wallets, collateral pool | place (two matching engines), cancel, expire, close, settle, refund | the clock moves inside a placement | solvency, conservation, backed orders, limits, priority |
| Fees, adjustments, reconciliation, portfolio, platform memberships | schedules, adjustments, runs and issues, position history, plans | draft/activate/retire, propose/decide, run, read, subscribe | two activations at once, lock cycles, reads in several statements | what accounts for money agrees with it |
| Compliance, limits | restriction, risk profile, limits, exclusions | propose, decide, assess, exclude, place | delayed relaxations, money committed by others meanwhile | nobody trades who may not, a limit is not exceeded by a placement |
| Proposals, catalogue, watchlists | proposals, markets before their opening, follows, views | submit, review, approve, edit, price, open | whole-row saves, duplicate keys | one live market per key, a market says what was approved |
| Accounts and authentication | codes, tries, sessions, tokens, roles, invitations | register, verify, log in, reset, refresh, invite, assign, seed | unlocked counters, counts rolled back with a failure, tokens issued during an invalidation | bounded tries, closed stays closed, roles are the ones granted |
| Clubs: store, tickets, staff, content, match data | stock, orders, capacity, workspaces, items, statistics | checkout, fulfil, cancel, buy, check in, invite, publish, upload | payment between two transactions, whole-row saves | no oversell, paid means recorded, one file whole or not at all |
| Fantasy | gameweeks, squads, line-ups, points, leagues | transition, score, finalise, transfer, join | scoring beside finalisation, unlocked counts | points are explained by statistics, squads stay legal |
| KYC | verification, attempts | submit, process (Celery), decide, retry, purge | late workers, lost tasks and callbacks | a decision stands, duplicates are flagged |
| Notifications | deliveries, attempts, preferences, inbox | policy, take, send, retry | crash between send and record, stale rows | a recorded outcome is true and final, deliveries end |
| Onboarding, dashboard, pictures, public pages | progress, caches, files | answer, skip, complete, read, upload | caches filled with what was read before a change, a storage without transactions | no page older than its row for ever, a named picture exists |
| News and fixtures desks | articles, slots, results | submit, approve, curate, schedule, verify | rows read before and saved whole | slots keep their meaning, reviews name their reviewer |

How they interact: every money operation of markets, store, tickets and memberships is a
sequence of `WalletService._execute` calls inside the caller's transaction;
deposits and withdrawals call it from their own. Placements ask compliance and
limits first. Celery and cron run `close_due_markets`, KYC processing, fantasy
scoring, content publishing and notification deliveries. Shared state is always rows, protected by
`SELECT ... FOR UPDATE`, unique indexes and the implicit share locks of foreign keys,
or by nothing: many views read a row, test it and save it later.

## 2. Modules

| Module | Stands for |
|---|---|
| `WalletLedger` | `_execute`: its pure part (transitions, entry types, replay matching) and its statements one by one: row locks, uncommitted inserts, unique indexes, crash, deadlock detector |
| `AbstractLedger` | what callers rely on: atomic postings, at most once per reference; `WalletLedger` implements it |
| `Withdrawals` | withdrawals with `WithdrawalRiskService`; `Request` and `Finish` are separate steps because the user row is locked only in the second |
| `PesapalDeposits` | deposits with the provider (external), IPN and callback; an answer of the provider is carried in `seen` while the world moves on |
| `MarketResolution` | one market from draft to payout; orders and positions as sets of users |
| `MarketTrading` | the book, positions, wallets and collateral of one market; a placement is `StartPlacement`, `LockMakers`, `CommitPlacement` because each reads the clock |
| `FeeSchedules` | fee schedules by two people at a time, fees of trades |
| `FinancialAdjustments` | wallet corrections: propose, decide, execute, with every lock in its order |
| `Reconciliation` | runs that compare books with entries in two reads each; restart and failure |
| `Portfolio` | what the portfolio, activity and history say beside the trades; amounts with the rounding of the code |
| `PlatformMemberships` | plans, purchases, cancellations |
| `ParticipantCompliance` | restriction, jurisdiction, risk profile, four-eyes proposals, eligibility of an order |
| `ResponsibleParticipation` | limits, cooling-off, exclusions, blocks over days, and the reads of a placement |
| `MarketProposals`, `MarketCatalogue`, `MarketInterest` | proposals into markets; a draft to its opening with prices, liquidity and event groups; watchlists and views |
| `OneTimeCodes`, `Sessions`, `Invitations`, `AdminRoles`, `RoleSeeding` | codes of registration and reset; logins, tokens and sessions; invitations and setup links; administration of users and roles; `seed_roles` and `bootstrap_admins` |
| `Onboarding`, `ImageFiles`, `NotificationPreferences` | the guided setup; pictures and logos in a storage outside the transaction; preferences, consent and inbox |
| `Tickets`, `Store`, `ClubStaff`, `ClubContent`, `MatchData` | one ticket product (three transactions per purchase); carts, stock and refunds; staff invitations; profiles, media, news and the publishing task; CSV uploads |
| `FantasyScoring`, `FantasyTeams`, `FantasyCompetitions` | one gameweek and its scorers; one squad with transfers; registration and leagues |
| `KycVerification` | attempts, the pipeline task in its three transactions, the decision engine, review, retention |
| `NotificationDelivery` | the policy that creates deliveries and the command that sends them |
| `Dashboard`, `PublicPages` | a cached dashboard; cached public pages and searches |
| `NewsDesk`, `FixtureDesk` | moderation and curation; a fixture and the review of its result |
| `Sums` | no code: sums over finite sets, and the lemmas that the proofs about money need of them |
| `WalletLedgerProofs`, `ResultsAndAccountsProofs` | theorems and proofs; the second about `MarketResolution` and about `MCAccounts` |
| `MCWalletLedger` | instance for TLC (`MarketResolution` is instantiated by its configurations) |
| `MCMarketTrading` | instance for TLC, and the theorems about `MarketTrading` with their proofs |
| `MCAccounts`, `MCClubs`, `MCDesks`, `MCWorkers` | the other components, several to a run; see section 3. The last three end with theorems about their components; `Store` ends with its own |

Conventions. Each module begins with what is one step and why: a transaction that
holds a lock on everything it reads is one action; a request that reads a row without a lock is a step
that reads (its copy is kept in `calls`, `edits` or `requests`) and a step that writes, and other
requests come between. A wallet operation is one step everywhere but in `WalletLedger`,
which shows that it may be. Exceptions of the code are early returns that change
nothing, unless something was committed before. A `Max...` constant caps a counter
that the code does not bound. The state of a module that the code does not have, such as
`overlapped` or `overwritten`, is a history variable; the comment at its declaration says so.

Nearly every module ends with promises of a docstring, an error message or a test
that its model refutes; section 5 lists them. A module's other properties hold
and are checked by the run that contains it. Where the code does what a hazard
fears, a property excludes the case by a history variable that its comment names (`overlapped`,
`revived`, `reused`, `lost` ...); section 5 or the hazard's note in `PROJECT.json` says what happens then.

## 3. Runs

| Run | Instance | Shows |
|---|---|---|
| `ledger` | 2 transactions, 2 users, 3 references, 13 calls: direct, after a wallet lock, after `get_or_create_wallet` | no lost update, unique references, a success is recorded, direct calls (user before wallet) never wait in a cycle, refinement of `AbstractLedger`, every call ends although mixed styles do deadlock and transactions crash |
| `resolution` | 4 users in overlapping roles, clock 0..4, review windows of 1 and 2 hours, edits that save a draft read earlier | closed has no orders, results follow reviews, paid out once, a resolved market can be and, unless an edit revives it, is settled |
| `trading` | 3 users, a share pays 3, 2 opening asks and up to 4 more orders out of 8 requests (GTC, GTD, IOC, FOK; both outcomes; with price improvement) | solvency and conservation, backed reservations and limits, no missed match, priority |
| `accounts` | 9 components, two clients each | logins guarded, roles are the ones granted, profiles whole, passwords kept |
| `clubs` | 9 components, two clients each: tickets, store (two products under one key; two keys on one product), proposals, catalogue, watchlists, squads, newsroom, results | sold counts tickets, tickets and store orders are paid and backed, markets say what was approved, the game and the news keep their rules |
| `desks` | 10 components, two requests each | withdrawals balance and their limits, the desks that account for money agree with it, only the cleared trade, no order is created beyond a limit, joins pass a capacity by less than the joins side by side, an invitation to the staff of a club gives one user the role it names |
| `workers` | 8 components, two processes each, `Bound = 2` | recorded outcomes are true and stand, deposits are credited once |
| `workers_live` | the same with fairness, `Bound = 1` | what was begun ends |
| `resolution_void` | as `resolution` | **violation**, finding 1 |
| `trading_late_fill` | 3 orders | **violation**, finding 2 |
| `pesapal_reversal` | as `workers_live`, safety only | **violation**, finding 3 |

Each takes between 45 seconds and 3 minutes on two workers.

### Components that share a run
`MCAccounts`, `MCClubs`, `MCDesks` and `MCWorkers` each hold several components whose
rows no other component of the run touches. `MCDesks` has those that move money or give access
(withdrawals, fees, adjustments, reconciliation, portfolio, memberships, compliance, limits,
leagues, club staff), `MCClubs` what is sold, published or played (tickets, store, proposals,
catalogue, watchlists, squads, news, results). `part` is chosen in the initial state and never changes; the component it
names takes its own `Init` and `Next`, and the variables of the others stay at `Off`. The
states of a run are therefore the disjoint union of the states of its components, and
nothing is lost or added by checking them together. Components of one run may use the same variable
where they are never alive together. `TypeOK` (`AccountsTypeOK` in `MCAccounts`) and the properties are conjunctions
of `part = "X" => X!P`, where `P` is stated, with its reasons, in the module of `X`:

| Property | Conjuncts |
|---|---|
| `LoginsAreGuarded` | OneTimeCodes: `CodesAcceptedOnce`, `LimitsHold`; Sessions: `ClosedSessionsStayClosed`, `LockMatchesCounter` |
| `RolesAreGranted` | Invitations: `InvitationsGrantRoles`, `WorkingLinksBounded`; AdminRoles: `SuperAdminRoleKept`, `DelegationInScope`; RoleSeeding: `SeededRolesAgree` |
| `ProfilesHold` | Onboarding: `PassedStepsWereAnswered`; ImageFiles (avatar and logo): `PictureExists`; NotificationPreferences: `MandatoryStaysOn` |
| `PasswordsAreKept` | RoleSeeding: `KeepsPasswords` |
| `TicketsSound`, `StoreSound` | Tickets: `SoldCountsTickets`, `TicketsAreBacked`; Store (twice): `ReservedBacksOrders`, `OrdersArePaid` |
| `InvitationGivesAccess` | ClubStaff: `InvitationGivesAccess` |
| `WithdrawalsBalance` | Withdrawals: `ReservedBacksWithdrawals`, `FundsConserved`, `TransactionAgrees` |
| `AutoApprovalsSafe` | Withdrawals: `AutoApprovalsBounded`, `AutomaticOnlyIfTrusted` |
| `MoneyDesksBalance` | FeeSchedules: `FeesExplained`; FinancialAdjustments: `AdjustmentsBalance`; Reconciliation: `ReportsAreTrue`; Portfolio: `PortfolioAddsUp`; PlatformMemberships: `MembershipsArePaid` |
| `CatalogueHolds` | MarketProposals: `OneMarketPerKey`, `TwinsAreFlagged`; MarketCatalogue: `ReviewedAsApproved`; MarketInterest: `ViewsAreCounted` |
| `TradesCleared` | ParticipantCompliance: `TradesCleared` |
| `GameHolds` | FantasyTeams: `PenaltiesAgree`, `SquadStaysLegal`; NewsDesk: `CurationHolds`; FixtureDesk: `ReviewNamesReviewer` |
| `LimitsHold` | ResponsibleParticipation: `KeepsToLimits`; FantasyCompetitions: `JoinsWithinCapacity`; Withdrawals: `KeepsTerminal` |
| `OutcomesHold` | KycVerification: `AttemptsAgree`, `DuplicatesFlagged`; NotificationDelivery: `OutcomeIsTrue`; FantasyScoring: `ScoresExplained`; MatchData: `FilesAreAtomic`; PublicPages: `CachedLogoIsCurrent` |
| `DepositsCreditedOnce` | PesapalDeposits: `CreditedExactlyWhenCompleted`, `CreditOnlyIfPaid`, `SubmittedOnce` |
| `OutcomesStand` | KycVerification: `DecisionStands`; NotificationDelivery: `OutcomeStands`; ClubContent: `PublishesOnTime`; PesapalDeposits: `KeepsCompleted` |
| `WorkersFinish` | the liveness properties of the eight components of `MCWorkers` |

`MarketTrading` groups its properties in the same way: `MoneyHolds` is `Solvent` and
`MoneyConserved`, `OrdersAreBacked` is `SharesBackSells`, `FundsBackBuys` and
`LimitsRespected`.

### Bounds
Two transactions are the fewest that race, and every lock, index and unlocked read of
the code is pairwise. Where a race needs a third actor it has one: the reviewer
beside two requests, a task beside two clients, the detector beside two transactions.
Calls of the ledger are a small set that covers each refusal, each replay and each way two
calls can collide; the proofs of section 4 remove every bound of the ledger but for liveness,
of trading, and of deposits, withdrawals, limits, clearance and the requests of the other desks, the clubs and the accounts. In `resolution` the clock runs far enough past
the close for the longest window that begins there and one extension of the review of an hour; any number of
edits may have read the draft. Leagues have capacities 2 and 3, which are edited beside the joins. In
`ClubStaff` at most two invitations, their expiries and the running requests are three together
(`MaxLoad`): two requests on one invitation, or one request beside two. In
`trading` a payout of 3 is the smallest with two different prices on both sides of a
complement, and four new orders allow a partial fill on each side followed by a
transfer. Withdrawals reach the daily count with two requests and the weekly value
with three, and the clock passes both windows. Two purchases race for the last seats, two edits
write a deleted ticket product back. Two gameweek corrections (`Bound`) are needed to overtake
a scoring and a finalisation, and one retry of a task (`MaxRetries`; the code has three) to use up the retries; liveness is checked with one, because the tableau of four
leads-to properties over eight components is twice the cost of the states. `workers` has more changes than `workers_live` in
`ClubContent`, `KycVerification`, `FantasyScoring` and `NotificationDelivery`; the
other components are the same in both. Symmetry is declared over requests, buyers,
clients and workspaces, never over values that a definition orders, and not in `workers_live`.

Deadlock is checked for the ledger; the other systems may come to rest (every
request served, clock at its bound), so their configurations say so.

Every property has a mutant of a mapped definition, written before it as a
plausible slip (a dropped check, a missing reset, a wrong order), that TLC must find
violating it.

### Fairness
- `WalletLedger`: strong fairness of the statements of a transaction (a lock that is
  released again and again is granted: PostgreSQL queues waiters) and weak fairness
  of the deadlock detector (`deadlock_timeout`). Crashes are not forced.
- `MarketResolution`: the clock advances, `close_due_markets` runs (a periodic task,
  every 300 seconds in `config/celery.py`), and the staff that may pay out or take a
  final decision on a disputed result does so. No one is assumed to publish, resolve
  or void, and no edit to be begun or saved.
- `MCWorkers`: the fair actions of each component are joined in the slots `Weak(1..5)`
  and `Strong(1..4)`: slot *i* is the *i*-th fair action of whichever component the
  behaviour is about. Because `part` never changes, this is the fairness of that
  component and of no other. Weakly fair are the beat task of `ClubContent`; the steps of a
  KYC attempt and of a scoring task as long as the queue or a worker has it, its failures included; the command,
  the start of a dispatched task and the end of a begun request in `FantasyScoring`; the delivery
  command, run by cron, and the passing of time; the rest of a begun read and the expiry of a
  cache entry; the statements of an upload, the failure of a deadlocked one included; and the
  delivery of an owed notification (Pesapal repeats it until acknowledged). Strongly fair are a
  deposit handler's query and application of the answer, because the provider may fail and be
  asked again. Retries are bounded as in the code (`MaxRetries`). Celery acknowledges a task before it runs
  (`acks_late` is set nowhere), so a worker that stops loses it (`Lose`, `TaskDropped`), and so do the last
  retry of a scoring task and a failure callback that fails itself (`CallbackFails`): of these nothing is
  promised but that they are lost. No user, member of the
  staff or client is assumed to start anything.

## 4. Proofs

Checked with TLAPS (Z3, Zenon, LS4), for all values of the constants under the named
assumptions of the modules. None of the properties below is inductive as it
stands; each paragraph says what had to be added and why.

**`WalletLedgerProofs`** (assumptions: the calls are well-formed; the three null
values are no member of what they stand beside).
`EntryOperationUnique` says that an entry determines its operation although two
operations share an entry type. `TypeCorrect`, `BalancesExplained` and
`ReferencesUnique` follow from the inductive invariant `IInv`: `Commit` writes a
snapshot computed one step earlier, so `WalletLockInv` and
`FreshInv` say that the transaction holds the wallet row, locked or freshly inserted,
since before it read the balances, and `DraftInv` that its uncommitted entry is still
what it would compute now and alone holds its reference. `AnswersAreRecorded`
(`SuccessIsRecorded`) adds `ResultInv`: what a call is about to answer is its draft or an entry that
matches the call. `DirectCallersNeverDeadlock` (`NoWaitCycle`) adds `LockInv`, which
ties each position of a transaction to the rows it holds; with it a transaction that calls
the service directly waits only for one further ahead in the order user, wallet,
reference. `Refinement` concludes
`Spec => ImplementsAbstractLedger`: only `Commit` writes committed state, and under
`IInv` it is an atomic posting. This is what lets every other module take a wallet
operation as one step.

**`ResultsAndAccountsProofs`, results** (assumptions: roles are sets of users, the times are in
order, windows are positive, the participants are finite; `None` is no result). `IInv` adds to the
properties the shape of a review (`ReviewShape`: disputes only about a provisional result,
decisions only about disputes and after the window, a winner exactly in a resolved market) and that until an
edit revives the market its status keeps up with review and payout (`ResultShape`: a final decision, a
settlement or a refund only in the terminal market it belongs to). An edit saves an old status over whatever
happened since (`SaveEdit`); what does not mention `revived` holds after it too. From it follow `TypeCorrect`,
`ClosedMarketIsEmpty`, `ResultsFollowReviews`, `ReviewsAreIndependent`, `PayoutOnce`,
`ResolvedCanBeSettled` and, as an action property, `ResultsAreFinal`. The counting argument
(a decision that covers every dispute stays complete because the window is over) uses the
finite-set theorems. `ReviewsAreIndependent` (`DecisionsAreIndependent`) and `ResultsAreFinal`
(`TerminalIsFinal`) are proved only; no run repeats them.

**`ResultsAndAccountsProofs`, accounts** (assumptions of `MCAccounts`: `AbsentAssumption`, the null value
is no name, number or request; positive limits; finitely many clients and users, some client and some
founder; the table of the seeding has permissions, none with the name of a role). The requests, users,
workspaces, roles, permissions and bounds are arbitrary; what an INSTANCE fixes (the two seeded roles, four
items of onboarding, two categories of notifications) is as in the run. `ProfilesAreSound` (`ProfilesHold`) from `SetupInv` (a
request that will advance the onboarding has answered its step, and the row it read had passed only what was answered by
then), `ImageInv` (a picture that is named and not stored is about to be overwritten by the
request that unlinked it, `NamedOrReplaced`, and nobody else knows a stored file that is not named yet,
`NewIsOwn`; one invariant for the avatar and the logo, of which each is shown to be an instance) and
`ChoicesInv`. `RolesAreSound` (`RolesAreGranted`) from `InviteInv` (a request that grants roles has
accepted its invitation and granted all roles but those still to do; only the last link can be
unused), `AdminInv` (unless two requests passed the test of the last Super Admin together or a role
expired, one alone is under way and its removal leaves another) and `SeedInv` (a permission that Super
Admin lacks is still to do in a run that read it, and a run that nothing overlapped leaves behind it, role by
role, the links of the table, `SeedProgress`). `PasswordsStay` (`PasswordsAreKept`) is an action property proved from `SeedInv`.
`LoginsAreSound` (`LoginsAreGuarded`) from `LoginInv` (a token that a login has still to store is
nobody's, `OwnToken`; a token that was exchanged is blacklisted; a request that ended the sessions first finds them
ended when it goes on to their tokens, since no session comes back) and `CodeInv`: from any code on, the unused
codes and the requests that had not seen it when they began theirs are no more than the clients
(`FewUnused`), codes of today and requests that will make one stay below the limit plus the clients
(`TodayFits`), and each password set, or about to be, had an acceptance (`ResetsCovered`).
`AccountsAreTyped` (`AccountsTypeOK`) joins what all of these say of types.

**`MCMarketTrading`** (assumption `TradingAssumption` of `MarketTrading`: finitely many users, the
treasury among them; opening prices in range that add up to the payout). `TradingIsTyped`, `MoneyIsKept`
(`MoneyHolds`: solvency and conservation) and `OrdersStayBacked` (`OrdersAreBacked`)
follow from `TradingInv`. Until the payout, `Sound` says of the book that the shares
reserved by a user are the sum of what is left of the sells (`OffersBacked`), that the money
reserved is the sum of what the buys hold (`FundsBacked`), that of each outcome as
many shares exist as the collateral locks (`SharesMatch`), and that money and
collateral add up to the initial funds (`MoneyMatches`); afterwards (`PaidOut`) nothing is
left to be paid. Solvency alone is not inductive, because a fill takes from a reservation and
needs to know that it is there. A placement is a loop over makers, and both
matching engines are recursive functions over the sequence of makers: each step is shown to
`Conserve` (typed, sound, every other order untouched but for fills), and the loops by induction on the
number of makers left. `DoneOrdersStand` (`DoneIsFinal`: an order that is filled, cancelled
or expired never changes again) is an action property proved from the same lemmas
(`DoneStands`, `Within`); no run repeats it.

`NothingIsLeft` (`NothingLeftToMatch`) and `PriorityIsKept` (`PriorityRespected`) need of each loop not
only what it keeps but whom it has exhausted. `Matched` says of the loop over the
book, after any part of the makers, that no maker of that part can trade with the taker any
more unless the taker is done, and that of a maker it changed everyone who leads is used
up; `Completed` says the same of the loop over complements, in the order of age. Both
rest on `Advances`: trading keeps the terms of an order, never revives it, and ends it only with
its remainder used up. Between the three steps of a placement the clock runs and sells are
cancelled, so the state needs `Found` (the makers a placement holds are still all that it
could meet, or it has a reason not to match) beside `Quiet` (no two live orders could
trade); a placement preserves both because every other step only makes orders less live
(`Calmer`).

**`MCDesks`** (assumptions: `RequestsAssumption`, what is asked for and the policy of
approval are well-formed; `NoneAssumption`, the null value is no record; `BoundsAssumption`,
amounts and times are naturals, the owners and the outcomes finitely many; `StaffAssumed`, those
invited are members of the club and the null value is no row, operation or workspace). The requests, the
staff, the users and what the CONSTANTS of the module name are arbitrary; what an INSTANCE
fixes (two plans, one adjustment, two orders and two fills of a portfolio) is as in the run.
`MoneyBalances` (`WithdrawalsBalance`) from `MoneyInv`: the reserved funds of a wallet are
the holds of its open orders and the sum of its active withdrawals, and available, reserved and
paid out add up to what was there. `ApprovalsAreSafe` (`AutoApprovalsSafe`) from `AutoInv`, which
bounds count and value of automatic approvals not from the moment of the last one but
from every moment (`Bounded`), since the window moves. Both need `CashInv`: a key
being served has no withdrawal yet and one request alone serves it. `ClearanceSound` (`TradesCleared`) from
`ClearanceInv`: while a placement holds the row of its user, what it checked is so.
`LimitsAreKept` (`LimitsHold`) from `LimitsInv`, that the sums a placement has read are not below those of
its day (it covers the kinds of limits `daily` and `total`), `LeagueInv`, that members and joins under way
together stay below the largest capacity plus the most joins there were at a time (`JoinsFit`), and the
finality of withdrawals.
`AccessIsSound` (`InvitationGivesAccess`) from `PeopleInv`: one request
alone accepts an invitation that was not overlapped (`OneAccepts`), and one that has given
access is pending no more and in nobody's hands (`AcceptedOnce`), so nobody can accept it again; whatever is
accepted, set up or moved later, its user keeps the role it gave (`AccessIsGiven`).

`DesksBalance` (`MoneyDesksBalance`) has an invariant for each of its five desks. `HistoryInv`: the four kinds of
rows that a portfolio is computed from agree, and each promise is one equation between
them. `Reserves` gives each open order its part of the reservation of the wallet and of a
position; `Wealth` balances the wallet with what the positions are worth to it and with the fees,
and does not mention marks, which cancel out when the profit is shown (`ProfitShown`); `Activity` balances it with the cash of fills and
payouts; `Gone` with the exits, which must be said of positions that are sold out only. The cost that
a sale releases is rounded, so it is shown to be all of it when the position is
sold out (`CostIsReleased`); the rounding of fees needs no more than that it is the same on both sides. A settlement
or a refund is one step over all outcomes (`HoldingsArePaid`), and its sums are compared by the lemmas of `Sums`. `BooksInv`: a run makes
nine checks one after another while the
services write, so `CallerSound` says, of a run that no write disturbed, that it has found something exactly when
one of the checks already made fails on the books as they still are. `Asides` counts, entry by entry, what
tampering has moved aside; a check is clean exactly when its own asides are zero
(`ComparisonsFindAsides`), so the nine together find something exactly when something was tampered with.
`CorrectionsInv`: the request that holds the row of an adjustment
has read it as it is, and entries are written for an approved one, once. `FeesInv`: one request at most has a draft in
hand to activate it (`Activates`), and unless activations of a scope overlapped, one schedule of it is active (`OneActive`)
and a request that activates there found none active and is alone (`OneActivates`).
`PlansInv`: a key that has paid has the payment of the price its request read.

**`MCWorkers`** (assumptions: null values, reasons of a verification, positive
bounds). `DepositsSound` (`DepositsCreditedOnce`) from `DepositsInv`: `SubmitInv` says
that at most one starter is between the row and the order, `CreditInv` that whoever was told "paid"
was told so of the order he holds, which can only have been reversed since.
`OutcomesAreFinal` (`OutcomesStand`) from `CasesInv` (tasks of a verification are well-formed and the
market role goes with a verified case), `ContentInv` (a row that the publishing task
read and no request has written since is still due) and `DeliveryInv` (a run
holds only rows that exist). `OutcomesAreTrue` (`OutcomesHold`) from `Recorded`, which has a part per component:
`KycInv`, that only the task of the newest attempt is alive (`LatestLive`, so a late task of an old one finds
nothing to decide) and that whoever a finished duplicate check did not find was in progress at the same time
(`KnownTogether`, `OpenTogether`); `SentInv`, that while no run was slow and none crashed one run alone holds a row (`OneHolder`);
`ScoringInv`, that a scoring no change has overlapped has read the statistics and corrections there are
(`ReadsCurrent`), and that without a task queued, running or lost every statistic is scored; `DataInv`, that every
row an upload is past is locked by it or had its value already and still has, while no other upload commits
(`Undisturbed`), and that no file past its checks has a key twice (`Distinct`); `PagesInv`, that a
request no change of the logo has overlapped holds the logo of the row.

**`Store`** (assumption `StoreAssumption`, stated with each lemma because two instances of the
module must satisfy it: the products are finitely many numbers, the keys finite, funds and
the bound on the stock naturals). `StoreIsSound`: the reserved stock of a product is what its open
orders hold unless a PATCH wrote an old value back, and the payment of a key is the
total of its orders unless the key was used for two carts. `StoreInv` adds what each request in flight
has in hand (`CallTyped`: a checkout holds rows of its cart only, and all of them when it
pays; an order to be delivered or cancelled is still open), that one request alone has an order in
hand (`OrdersInHand`: otherwise its stock would be released twice), and `OneCartPerKey`: all
requests of a key that is not reused carry one cart, which the orders of the key cover, so
that after the first payment every other is refused by the unique index. A checkout writes
its orders in the order of the products' ids; that every row of the cart becomes
exactly one order is `OrdersAdded`.

**`MCClubs`** (assumptions: `TicketsAssumed`, quantities are positive and prices, capacities and
funds naturals; finitely many purchases and keys; `NoneAssumption`, the null value is no record). `StoreOrdersSound`
(`StoreSound`) applies the lemmas of `Store` to the two stores of the run. `TicketsAreSound`
(`TicketsSound`) from `GateInv`: a purchase takes three transactions and
an edit two, so the invariant holds of every copy of the product that an editor keeps as well as of the
row (`CountSound`), of every order what its place in the purchase has charged
(`OrderSound`), and of every user that funds and charges add up (`MoneyOfBuyers`); a scanner holds only
sold tickets. `CatalogueIsSound` (`CatalogueHolds`) from `ProposedInv` (an approval holds its proposal, then the event, and
has looked for live markets since), `CatalogueInv` (an edit has read its row while it could be edited) and
`InterestInv` (one request alone holds the counter of a market, and has read it as it is). `GameIsSound` (`GameHolds`) from `SquadInv`, `NewsInv` and
`ResultsInv`: unless two requests overlapped, one alone is at work and what it read is still so (`StillFits`,
`FindsRoom`).

**`Sums`**. Money is added up with `MapThenSumSet` of the community modules, a fold whose
definition recurses over sets. `SumOf` restates it, and the lemmas prove from that
recursion, by induction on the naturals that number a finite set, what the proofs cite: a member can be
taken out of a sum (`TakeOut`), a part of a sum of naturals is no more than the sum (`PartIsNoMore`), a
finite set of numbers has a greatest (`GreatestValue`) and can be listed in increasing order
(`ListExists`).

Only model-checked:
- all liveness (`EveryCallEnds`, `ResolvedIsSettled`, `WorkersFinish`), which is beyond the prover;
- the type invariants of `MCClubs`, `MCDesks` and `MCWorkers`, whose ranges (a payment up to the funds, a
  count up to the bound of its guard) belong to the constants of the runs; the types that the theorems need are part of
  the invariants above.

## 5. Findings

Three are runs of their own:

1. `VoidedIsRefunded` (`resolution_void`): a market can be voided with an open dispute, or
   disputed after it was voided. No final decision can be taken any more, and the
   refund is refused for ever.
2. `NoLateFill` (`trading_late_fill`): complementary matching fills GTD orders whose deadline has passed.
3. `ReversalOfCreditIsFlagged` (`pesapal_reversal`): `reconcile_notification` applies an answer read
   before it took its locks. A "paid" answer overtaken by a reversal credits a
   reversed payment, and no call asks for manual reconciliation.

The others are properties stated in the component's module, each with the promise it
comes from; `PROJECT.json` quotes the lines. To see the trace, name the property in
the configuration of the component (section 8).

| Module | What the code promises and does not keep |
|---|---|
| `MarketTrading` | `FillOrKill`: a counted maker expires before the loop reaches it |
| `MarketProposals`, `MarketCatalogue`, `MarketInterest` | `KeysAreUnique`, `DuplicatesHaveOriginal`; `OpeningPriceKept`, `OnlyDraftsAreEdited` (an overtaken whole-row save); `ErrorsChangeNothing` |
| `FeeSchedules`, `FinancialAdjustments` | `OneActivePerScope` (two activations); `NoWaitCycle` (wallet before user) |
| `Reconciliation` | `NoFalseAlarm`: two reads in two statements |
| `ParticipantCompliance`, `ResponsibleParticipation` | `AssessmentIsCurrent`, `SuspensionsEndByTwo`; `NoRelaxation`, `DailyLimitKept` |
| `Portfolio`, `PlatformMemberships` | `ActivityIsComplete`, `ExitsAddUp`, `VoidMarkIsRefund`, `SummaryAgrees`; `EachIsPaidFor`, `OneActiveMembership`, `ClosedPlansStayClosed` |
| `AdminRoles` | `SuperAdminRemains`: two removals, or a removal and a disabling, each count the other |
| `Store`, `Tickets` | `EveryOrderDebited`; a refusal after the payment keeps the money (`RefusedIsCancelled`) |
| `ClubStaff`, `ClubContent`, `MatchData` | `LinkLeadsToClub`; `ScheduledIsNotPublic`; `LastFileIsSaved` |
| `FantasyScoring`, `FantasyTeams`, `FantasyCompetitions` | `FinalIsComplete`, `TaskKeepsFinal`, `CorrectionsKept`; `SquadLegalAlways`; `OwnerIsMember`, `TiesByRegistration` |
| `KycVerification`, `NotificationDelivery` | `OnlyClosedPurged`; `QuietRespected` |
| `Onboarding`, `Dashboard`, `ImageFiles` | `SkipsAreKept`, `CompletedIsAtTheEnd`, `FavouritesAreASelection`, `CompetitionsFitSports`; `CacheIsCurrent`; `FailureKeepsPicture`, `PageKeepsPicture`, `OnePicture` |
| `NewsDesk`, `FixtureDesk` | `OneTopStory`, `TrendingWithinCapacity`, `RejectionStands`, `TopStoryIsPublished`; `VerifiedScoreStands`, `ReviewIsIndependent`, `EndsAfterStart` |
| `PublicPages` | `SearchesAreInOrder`, `AnalyticsCountMatches` |

## 6. Not modelled

- Order book, prices and statistics, club analytics, wallet reads: queries without state.
- Market notifications: inserts after the operations; what becomes of them is
  `NotificationDelivery`.
- Staging and demonstration tools, the unused wallet helpers of the markets, the news stubs.
- Serialisers, permission classes, URL wiring, settings; a view's own checks and writes are
  in the module of its component, and settings that are policy are CONSTANTS.
- Sports reference data and system settings: CRUD of single rows; audit rows and e-mails: append-only.
- `MarketTrading` has fee rates of zero and placements that pass compliance and limits; those are
  `Portfolio` (fees of fills and issuance), `ParticipantCompliance` and `ResponsibleParticipation`.
- `Reconciliation` leaves out the whole-market totals, which compare the same books as sums.
- `KycVerification` takes what vision libraries find as a choice among the reasons their
  wrappers return.
- Deadlocks of placements, cancellations and dispute decisions abort one transaction,
  which is then a call that never happened; which cycles exist is stated for the wallet
  and the adjustments only.
- The provider, the storage, the broker, simplejwt's tables and the cache are external and
  modelled as the code uses them.

## 7. Plan

1. `MarketLocks`: the lock order of placement, cancellation, expiry, decisions and
   withdrawals, with the cycles that exist.
2. Abstract specifications beside `AbstractLedger`: a purchase (paid and counted, or
   neither) for `Tickets`, `Store` and `PlatformMemberships`, and an at-most-once decision for
   `KycVerification`, `FinancialAdjustments` and `MarketProposals`.

## 8. Running

    tlc -workers 2 -config MCDesks.cfg MCDesks
    tlc -workers 2 -config MCMarketResolution.cfg MarketResolution
    tlapm WalletLedgerProofs.tla
    tlapm ResultsAndAccountsProofs.tla
    tlapm MCMarketTrading.tla

The other modules with proofs are `Sums`, `Store`, `MCClubs`, `MCDesks` and `MCWorkers`; `MCDesks` and
`MCMarketTrading` take the longest.

To see a finding of section 5 refuted, state it in the module of the run beside the other
conjuncts, for example `OneTop == part = "News" => News!OneTopStory`, and name it as an
INVARIANT of the configuration (a property over steps as `[][part = "X" => X!P]_vars` and a
PROPERTY).
