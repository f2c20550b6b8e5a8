# Chessify in TLA+

Chessify is a chess platform whose games may carry a wager in CHESS tokens. Contracts on Stacks
(Clarity), Celo and Base (Solidity) and Stellar (Soroban) hold the wagers. A Next.js server relays
the moves over Redis and, holding the key of an *oracle*, settles finished games on chain. Around
the games are a lobby, a bot, a coach, names, streaks and sponsored gas.

This directory models what decides who gets the money, and the stores and pages where steps of
several actors meet. TLC checks the models on small instances. For every value of the constants TLAPS
proves that all three contracts implement one abstract escrow, and all the safety properties that the
passing runs check.

Paths below are relative to the repository root. That root holds a `src/` directory of its own, the
Next.js application.

## 1. Inventory

| Component | Code | State it keeps | Operations | Status |
|---|---|---|---|---|
| CHESS token and vault | `contracts/playchessifyToken.clar` | balances, switches, minter, allow-list, faucet times | transfer, faucet, mints, `gateway-release`, owner switches | modelled |
| Oracle engine | `contracts/playchessifyEngine.clar` | games, stats, oracle | create, join, resign, draw, settle, cancel, reclaim, set-oracle | modelled |
| Elo arithmetic | the same file, 138-240 | none | update-elo, update-elo-draw | modelled |
| EVM game and token | `celo-contracts/`, `base-contracts/src/` | balances, games, stats, oracle | as the engine, escrow inside the contract | modelled |
| Soroban game | `stellar-contracts/src/lib.rs` | games with a clock and a flag for the offer, stats | adds submit_move, report_win, claim_timeout, set_timeout | modelled |
| Move relay | `src/lib/moves-store.ts`, the `moves` and repair routes | Redis: a list of moves per game, the set of live games | post a move, repair a list | partly: a list's 30-day expiry is left out |
| Settlement worker | `src/lib/settle-game.ts`, `settlement.ts`, the `settle` and `cron/settle` routes | Redis: a lock per game; transactions in flight | settle one game, sweep the live games | partly: nonce and fees of the oracle are left out |
| Client synchronisation | `src/hooks/useGameMoves.ts`, `GameClient*.tsx` | the list and the board a browser shows, posts and polls under way | poll, post, replay, clocks | partly: reloading a page is left out |
| Game page | `src/components/game/` | what is known of the chain, the board, the result, buttons | every transaction a page starts, the request to settle | partly: hints, sounds and links are left out |
| Bot game | `GameClientCelo.tsx`, `src/lib/chess-engine.ts` | board, save, timer | move, promote, reply, reload, search | partly: piece values and styles are left out |
| Training game, analysis engine | `TrainingGame.tsx`, `src/lib/analysis/engine.ts` | board, continuations, the queue of a worker | move, intercept, retry, reset; analyses in a queue | modelled |
| Lobby | `LobbyContent.tsx`, `useLobby.ts`, the chain hooks | list, page, dialog, calls under way | refresh, create, join on three chains | modelled |
| Gas sponsorship | the `gas/sponsor` and `stacks/sponsor` routes | Redis: cooldowns, locks, counters | drip gas, mint CHESS, co-sign | modelled |
| Profiles and names | `src/lib/profile-store.ts`, its routes, `ClaimModal.tsx` | Redis: profile, name, counter, recent list, rate limits | claim, update, link; the dialog | modelled |
| Streaks | `src/lib/streak-store.ts`, `StreakCelebration.tsx` | Redis: one record; copies in the browser | record, show | modelled |
| Training store and pages | `src/lib/train-store.ts`, the `train` pages | Redis: one record; the page | read, patch, lesson, placement, coach | modelled |
| Game index, leaderboard | `src/lib/game-index.ts`, its routes | Redis: cursor, sets, cached board | incremental scan, ranking | modelled |
| Legacy contracts | the other files of `contracts/` | | | not modelled |
| Wallets, reads for display, UI, content | the rest | | | not modelled |

**How they interact.** A player creates and joins a game in the lobby, by transactions to the
contract of his chain, which takes the stakes. On Stacks they go into the balance of the token
contract itself, the *vault*; elsewhere into the game contract's balance. During play the browsers
post moves to the relay, which replays them with chess.js, asks the chain whose turn it is, and
appends to a Redis list that both browsers poll. The relay then puts the game on a set of live
games. A page that sees the end of a game calls the settle route; the cron sweeps the live set.
Both run `settleGameById`: read the list, read the chain, derive a result, take a lock, send
`settleGame` with the oracle's key, wait, and take the game off the set. The engine pays from the
vault by `gateway-release`, which trusts whichever engines the owner has on its allow-list. The
index reads the games off the chain. The other stores share nothing with a game but Redis.

**What is hard here.**
- All games share one balance, and all games of a player share one record: games close in any order.
- The owner may take an engine off the allow-list while its games are live; payouts then revert.
- Every serverless handler reads, awaits, and acts on what it read. It may be suspended or killed
  at every await, and two of them may work on the same key.
- Locks, cooldowns and counters expire by themselves, and a lock is deleted without checking who
  holds it.
- A sent transaction may run late, revert, or be given up by the client that waits for it.
- A browser's polls and posts overtake each other; continuations outlive the dialog, the page, the
  button or the game they were started for.

**What must hold, by component.** A stake goes back once, in full, to those who staked it. Records
and ratings agree with the games. A draw needs both players or the oracle. No game is stuck if the
oracle is silent. A stored history only gains legal moves, in turn, with signatures that still
verify. The oracle settles only a result that was earned, and a game it can settle does not stay
open. Sponsors stay within their caps. Names are unique, streaks and progress are earned and not
lost. Boards show the relay's game, results agree, and an answer a player gets about his money is
true. `PROJECT.json` lists the hazards one by one, each at its line with the properties that watch it.

## 2. Modules

| Module | Models |
|---|---|
| `WagerEscrow` | *abstract*: what every game contract promises about money |
| `PlaychessifyToken`, `Elo`, `PlaychessifyEngine` | token with vault, arithmetic, and the engine that calls both |
| `EngineHistory`, `EloLadder` | the engine with a memory of consent, activity and settlements; sequences of rated results |
| `EvmChess`, `SorobanChess` | the Solidity game with its token; the Rust game |
| `MoveRelay`, `Settlement` | handlers, lists, repair and the chain as the relay sees it; settle calls, cron, lock, transactions |
| `GasSponsor`, `StacksSponsor`, `GameIndex` | the sponsor routes; the index with the chain that goes on meanwhile |
| `ProfileStore`, `ClaimModal` | the names; the dialog that claims one, over the store |
| `Streak`, `TrainStore`, `Training` | streaks; the training record; the pages that earn progress, over that record |
| `MoveSync` | two browsers over a relay list, and a network that delays, reorders and loses; a move that both sides have tells an echo from a new move |
| `GameClient` | one player's page beside the chain |
| `BotGame` | the bot's game and its search |
| `AnalysisEngine`, `TrainingGame` | the queue before the worker; the game against a coach, over that queue |
| `Lobby` | the list, the dialog, and two calls that create or join |
| `*Proofs` | theorems (section 6) |
| `MC*` | constants for TLC; `MCContracts`, `MCServer`, `MCBrowser` and `MCApplication` put components that share no state into one run, and choose the one that moves in the first state; `MCMoveRelay` and `MCSettlement` name the restrictions of their instances (`Slowly`, `UsualPosts`) |

### Contracts

One action is one transaction. A transaction that ends in an error changes nothing, so `asserts!`,
`try!`, `revert` and `?` are guards, and error codes do not appear. The first parameter of an action
is the sender. Actions have the names of the public functions and contain the token calls they make.

| Code | Model |
|---|---|
| `ft-transfer?` to and from the token's own principal | `Moved` on `balance`, whose domain has `Vault` beside the users |
| `gateway-release` and its allow-list test | `CanRelease`; asked only for positive amounts, as in the code (`Covered`) |
| block height or timestamp minus a stored one | an age that stops where the code looks no further (`age`, `sinceClaim`, `untilClaim`, `sinceCreated`, `idle`) |
| `player-stats` with `default-to`, mappings in Solidity | total functions |
| `_initPlayerIfNeeded`, which tests the rating for zero | `initPlayerIfNeeded`, likewise |
| a Soroban wager, which is signed and moves nothing unless positive | `Locks` |
| Soroban's offer, a flag beside a proposer that always names somebody | `draw_proposed`, `draw_proposer`; `agreed` is history |

The two EVM deployments differ only in block counts. `WagerEscrow` has open, matched and closed
stakes; each contract maps its games to them (`StakeOf`, `EvmStakeOf`, `SorobanStakeOf`).

### Relay and settlement

A handler is a process with a *stage* between its awaits: `ReadHistory`, `BindPlayer` (the chain
read), `appendMove` (the Lua script), `registerActiveGame`. `PostFails` ends it at any stage, by an
error or a kill. A repair reads and trims in two steps, and since the repair route takes no lock any
number of repairs of one list may overlap. chess.js is a tree: `Lines` holds the legal
lines of play, `Mated` and `Drawn` those that end the game. A signature is kept as the line it was
given for (`over`), so to verify it is to compare lines. A clock is one bit per move, `old`. `chain`
says which chain a game is on: Celo and Base are `isFastFinality`, Stacks is not. `Imported` are the
histories the old, non-atomic append may have left, which the repair endpoint exists for.

A settlement goes through `GetMoves`, `ReadGame`, `TakeLock` or `Refuse`, `Send`, `Receipt`,
`unregisterActiveGame`; a failure after the lock was taken, that of `unregisterActiveGame` included
(`Locking`), leads to `SettleThrows` and `Release`. `SettleDies` kills it
anywhere, with the lock left behind. A worker decides on the snapshot it carries. A transaction is
in `txs` until `Execute` runs it or it reverts. `LockExpires` is the end of the 120 seconds. On an
EVM chain signatures are checked and gas is estimated, so `Send` needs a call that would succeed; on
Stacks a transaction may be broadcast that reverts.

### Stores

Each module of a store has one stage per Redis command or chain call of a handler. The Lua scripts
are one step. Any handler may end at any stage. Keys with a time to live are sets that lose members
at any moment. Counters whose key holds a date are functions on days. What an invariant must
remember although the code forgets it is a history variable, named as such (`drips`, `paid`,
`played`, `solved`, `written`, `calm`). `calm` and `trainCalm` say that no two read-modify-writes of
one record have overlapped so far; `NameIsMine` and `ProgressKept` are stated under them, because
the code promises nothing beyond (two updates of one profile do leave a name nobody frees).

### Pages

A page is its state and refs, and an action is a handler, an effect or an answer that arrives.
`MoveSync` has a set of posts and polls per browser that answer in any order, late or never. In
`GameClient` the chain changes by itself and is read by `Poll`; each transaction has a call that is
pending, answered, or lost. In `Lobby` a call carries what it read (balance, allowance, gas, id) from
one await to the next, and others create and join in between; `accounted` remembers the games to
which an answer has taken the player. In `BotGame` the tree of positions is a constant with every
set of mates on its last plies, and the search is run for real, pruning included; `Infinity` is a
number that no material reaches.

## 3. What is checked

| Run | Question | Instance |
|---|---|---|
| `engine` | Does the vault cover all open stakes, and do records and ratings agree with the games, in every interleaving? | 3 users, 2 games, wagers 0 and 1, supply 3, every allow-list change |
| `contracts` | Do the three contracts implement `WagerEscrow`? Do draws need both, do EVM records match the games, does every engine game close with a silent oracle, and are sequences of ratings fair? | Clarity: 2 users, 1 game, all token functions. EVM: 1 game with all token functions, and 2 games without faucet and clock. Soroban: 1 game, 2 moves, wagers -1, 0 and 1, timeouts 0 and 1. Ladder: 3 players, 3 results from the floor, near it, the start and beyond the cap |
| `relay` | Are histories legal, in turn and correctly signed, and does a line that stood while no repair was under way stand for good? | 2 move handlers beside one repair at a time, or one handler at a time beside 2 repairs; a tree of depth 3, Celo and Stacks, empty or corrupt lists |
| `settlement` | Is every settled result earned, and is a decided game on the live set settled in the end? | 1 move handler, 1 settle call, the cron, the lock and its expiry, a tree of depth 2, Celo and Stacks |
| `application` | The properties of the stores and the pages, one part at a time | 2 concurrent handlers per store, 1 or 2 addresses, 2 to 4 days; two browsers and 3 plies; a page with 2 moves; the bot over all trees of 4 plies with mates on the last two; a training game of 4 plies and 2 continuations; a lobby with 2 calls, 2 games, 2 wagers in the purse |
| `engine_reclaim`, `relay_repairs`, `settlement_lock`, `settlement_finished`, `game_index_complete`, `game_desync`, `hold_to_quit` | the findings of section 5 | see there |

What the properties of `application` say, by component:

| Component | Properties |
|---|---|
| Sponsors | `BudgetKept`: drips charged to a day stay within the cap, although locks expire under their holders. `CallCapKept`: so do the calls of one life of a counter, where there is a Redis to count in |
| Names | `NameIsMine`: a name on a profile is reserved for it. `OgIsScarce`: the badge is not given twice. `SuccessIsReal`: the dialog claims success only for a real profile |
| Streaks, training | `StreakIsEarned`, `ProgressIsEarned` in every copy; `ProgressKept`: no step takes progress away |
| Index | `CursorCovers`: the cursor stands only where chunks were written |
| Boards | `BoardIsRelays`: a board is a part of the relay's game and at most one own move. `ResultsAgree`: the two screens agree |
| Game page | `VerdictIsFinal`: once the chain has a result the screen does not change it |
| Bot | `BotPlaysBest`: pruning does not change the value, and the bot falls silent only when mated by force or after a reload. `BotGameResumes`: what is saved is what is shown |
| Training game | `PhaseFitsBoard`, `LossIsOfThisMove`: prompts and verdicts are about the position on the board |
| Lobby | `AnswerIsTrue`: success means a seat, failure means nothing can still be mined. `StakeIsKnown`: no wager disappears. `OneCallPerVisit`: the two kinds of call share one flag |

**Why these bounds are enough.** Money moves in equal wagers, so amounts 0 and 1 tell a game without
a wager from the others; -1 is Soroban's third case. A supply of 3 lets two games hold stakes and
leaves a user too poor to join. Two games are needed for one to pay with another's stake; one is
enough for a refinement, whose steps name one game. An expiry of 1 or 2 blocks separates before from
after, and 2 separates creation from activation. In the relay and the stores every lost update needs
two handlers on one key. The relay's tree has a move that is legal in one position and not in the
next, a mate, and a draw that can be played on. One repair at a time meets two handlers, and one
handler at a time two repairs; on a slow chain, where neither the chain's state nor the poster binds
a move, the game stays as it was and white's address posts (`Slowly`). In the settlement the lock's expiry, a late
transaction and a key rotation are reachable within one game; a move carries the usual number and is
signed exactly on a fast chain (`UsualPosts`), since numbers and missing signatures belong to the
relay's own run. A cap of 1 is passed by the second
request; two days, counter periods or cooldown windows let one end under a request. The profile part
has one address whose rate limits run out and one that updates; the dialog races for one name. The
index has a chunk of 1 so that a scan takes several chunks of two games, and one request at a time
computes the board. On Base, where a move is signed first, a side has one post under way, elsewhere
two. The lobby is checked with its list and one call, and with two calls and no list. A second
instance of any of these would add interleavings of independent steps, since the keys, lists and
locks are per game and per address. Where a property of all sizes matters most, section 6 proves it.

**Symmetry** is used only for safety, in `engine` over users who are neither owner nor oracle, and in
`application` over handlers of one kind; `ProgressKept` and `VerdictIsFinal` are action properties that name no handler.
**Deadlock** is not checked in `relay` and `relay_repairs` (once `MaxNumber` moves are stored and the
game is closed nothing need happen), in `application` (a page at its bound, or a store with its days used up, rests)
and in the runs of single pages and of the index, for the same reason. The other runs check it.

**Mutants.** A definition marked `\* mutant` is a copy of the next one with one slip. It is used by
no specification; each property is seen to fail when the slip replaces the original.

## 4. Fairness

- Engine (`Fairness`): blocks keep coming, and a player of a reclaimable game in the end reclaims
  it. Nothing is asked of the oracle. `NeverStuck` also supposes that the owner in the end leaves
  the engine on the allow-list, without which `gateway-release` reverts and the money stays put.
- Settlement (`FairSpec`): the cron is invoked again and again (`WF` of `StartSweep` and of its
  steps). Its calls may each die, but not always at the same step (`SF` of the steps of a sweep for
  one game), sent transactions execute, and the time of a lock passes. Nothing is asked of players or
  of the owner, except that in the end the oracle's key is good and no call of the settle route is
  running: one that came again and again could take the lock before the cron every time and die with it.
  `HANDOVER.md:160` notes that no scheduler is wired to the cron endpoint yet: the result holds for
  a deployment that has one, as `src/app/api/cron/settle/route.ts` supposes.
- Browsers (`PollFairness`, in `game_desync`): the interval timer fires, so polls are sent (`WF`),
  and of infinitely many some are answered (`SF`). The counterexample is one in which they all are.

Everything else is safety and assumes no fairness.

## 5. Findings

Each is a run in which TLC finds the quoted sentence violated by what the code does.

1. `engine_reclaim` — `docs/PLAYCHESSIFY_ORACLE.md:99` says of `reclaim-expired` "After ~1 day
   ACTIVE". The contract counts from `created-at`, which `join-game` leaves alone
   (`playchessifyEngine.clar:561`), so a game that waited for a day can be called off as soon as it
   is active.
2. `relay_repairs` — `src/lib/moves-store.ts:119` says "Trim a game's stored history back to its
   longest legal prefix." The list is read, the length to keep is computed and the list is trimmed to
   it (133) in separate calls, and no lock is taken. Of two repairs that have read the same corrupt
   list, the second trims to that length after the first has trimmed and a legal move has been
   posted, and cuts the move off (`LegalPartKept`). `LinesStand` bounds the damage: only moves made
   while a repair was under way are lost.
3. `settlement_lock` — `src/lib/settle-game.ts:24` says "a Redis lock prevents two settlements
   racing". The lock lives 120 seconds and is not renewed, and waiting for a receipt may take
   longer. The contract's own status check is what stops the second payout. `LockExcludes` proves that
   the expiry is the only cause: while no lock runs out under its holder, the sentence is true.
4. `settlement_finished` — `src/app/api/cron/settle/route.ts:15` says "a finished game is always
   settled even if both players closed their tabs". A handler that dies between append and
   registration of the mating move leaves the game off the live set. A settlement that read a
   waiting game takes it off after it was joined and played (`settle-game.ts:96`), and so does one
   whose receipt was a revert (`evm-server.ts:181`, whose status is not read).
5. `game_index_complete` — `src/lib/game-index.ts:95` speaks of "All addresses that have ever
   appeared in a game". Ids run from 0 to `nonce - 1`, the scan from `cursor + 1` to `nonce`, each
   once: game 0 is never scanned, and a game is scanned before it exists or while it waits. What the
   index does say is true of the chain (`IndexStaysTrue`).
6. `game_desync` — `GameClientCelo.tsx:235` says "the next relay poll will resync". The answer to an
   own move is appended to a list a poll may have filled already (`useGameMoves.ts:123`), and a poll
   replaces a list only by a longer one (65), so a list with the move twice can stay for good.
7. `hold_to_quit` — `GameActionBar.tsx:15` says "Fired only after the user holds the CTA to
   completion." When the game ends under the finger the button is replaced by one whose handlers do
   not clear the timer, and it fires after the player has let go. `HoldsComplete` proves that only a
   button taken away, by that or by leaving the page, is the cause: while it stays, the sentence is true.

Further observations, visible in the modules, for which there is no run:
- A list that overlapping repairs cut may grow back to the length at which a suspended handler read
  it, so that the handler's compare passes on other moves. Legality and signatures are therefore
  proved for plays in which no two repairs of one list overlap (`RepairsApart`), and model-checked
  with two repairs beside one handler at a time; turns and `LineStands` hold with any number.
- `moveNumber` must exceed the length of the list (`moves/route.ts:92`) but need not be the next.
- On Stacks a chain that cannot be read lets a move of any address through (`moves/route.ts:142`),
  and no signatures are checked at settlement (`settle-game.ts:124`). `ResultIsEarned` therefore
  speaks of the seat on Stacks and of the player elsewhere.
- The relay has no clock: a settlement that read the list before a late move still forfeits the game.
- EVM: `reclaimExpired` counts from creation too (`ChessGame.sol:277`), and `drawProposer` is never
  cleared, so an offer stands for the rest of the game. Soroban: `set_timeout` moves the deadline of
  running games, and 0 makes every game claimable after each move (`lib.rs:393`).
- Bot: when every move loses by force the search returns null, and the game stops with black to move
  (`chess-engine.ts:201`). A reload between the player's move and the reply has the same effect. A
  game the bot ends is saved again after the save was removed, and one that a check draws keeps it.
- Two updates of one profile may overlap: a rename beside another edit of the same profile
  frees the name that is shown, and two renames leave a name nobody has.
- Two updates of one learner may overlap, and the later write drops the earlier; a streak call that is
  delayed over midnight may reset a streak that was earned.
- Lobby: the id of a new Stacks game is guessed before the wallet opens. A receipt that does not come
  is answered by "Failed to create game" although the game may be mined; a second try pays twice.
  `AnswerIsTrue` excuses both. The page number is not lowered when the list shrinks.
- A handler of the Stacks sponsor that dies between `INCR` and `EXPIRE` leaves a counter without an
  end, and the address is shut out once it reaches the cap.
- Ratings are not zero-sum over decided games. Draws are, as `DrawConserves` proves.

## 6. What is proved

`tlapm` checks all eight proof modules to the last leaf. Every safety property of a passing run is a
theorem, invariants, action properties and refinements alike; `HistoryIsLegal`, `SignaturesHold` and
`ResultIsEarned` suppose that no two repairs of one list overlap, which the code does not ensure. Two of the properties that the code
violates are theorems too, under the condition that rules out the cause: `LockExclusive` and
`HeldToCompletion`.

**Assumptions** are the named `ASSUME`s of the modules, which TLC evaluates for the instances:
constants have their types, markers are not values (`KeysAssumption`, `MarkersAssumption`), the lines
of play form a prefix-closed tree in which nothing follows a mate (`RelayAssumption`,
`TreeAssumption`), imported lists are corrupt only in their legality (`ImportedAssumption`), finitely
many requests are under way (`GasSponsorAssumption`, `StacksSponsorAssumption`), no lesson or
placement test is empty (`CurriculumAssumption`), no material is worth a mate
(`WorthAssumption`), and what caps the moves of a page, the plies of a training game, the engine's
queue and the games of a lobby is a number that leaves room for one of them, for two in the queue
(`PageMovesAssumption`, `TrainPliesAssumption`, `MaxQueueAssumption`, `LobbyAssumption`).
Beyond that none bounds a set: users, wagers, games, handlers, chunks, days, calls and the trees of
play are arbitrary. The depth of the bot's search is 1 to 3 as in the code.

**`EloProofs`, `EngineProofs`** (Elo, token, engine)
- For every pair of ratings at or above the floor, a win is worth 1 to K points, at least K/2 for
  the underdog and at most K/2 for the favourite; a draw conserves the points and keeps order and
  floor; and so in every sequence of results.
- `Solvency`, the corollary `EveryGameCovered` (a payout reverts only because of the allow-list) and
  `EngineRefinesEscrow`. The inductive invariant is `TypeOK`, `Seated` (an active game has two
  different users, without which a payout would not move what it locks) and `VaultSolvent`. Solvency
  needs the *sum* over all games to be covered; that each game is covered is not inductive, since two
  games may count the same coins. The sum is a witness, a running total over the game ids: creation
  extends it (`SolventGrow`), a payout lowers it from one game onward (`SolventShift`), and all else
  leaves it (`SolventKeep`).
- `RecordsMatchGames`: the contract does not store who won, so the winners are a witness, and a record
  is the cardinality of sets of games under it. A settlement or resignation extends the witness by one
  game, which enters the sets of its two players and nobody else's; every other step leaves them.
- `RatingsExplained` and `DrawsNeedBoth`. The latter needs that no offer stands before a game starts
  and that a standing offer was made by a player of it (`Offered`).

**`ContractProofs`** (EVM, Soroban)
- `EvmRefinesEscrow`, `SorobanRefinesEscrow`: each step is one of the escrow's or a stutter. It needs
  that numbers not given out yet are blank (`EvmFresh`, `KeysUnset`) and, in Solidity, that a running
  game has two different players (`EvmSeated`).
- `EvmRecordsMatch`: as for the engine, without a witness, since a game stores its result; the invariant
  adds that a game that has not ended has none yet (`Unscored`).
- `DrawsAreAgreed`: an offer that stands was made by a player since the last move (`OffersHonest`).

**`RelayProofs`** (relay, settlement)
- `HistoriesLegal`, `SignaturesVerify`, under `[]RepairsApart`: no two repairs of one list are under
  way at once; repairs of different lists and any number of handlers may be. The invariant adds what
  a suspended handler knows: its base is at most the current length, and *if* the length is still its
  base, the list is the legal one it read, its move extends it, its signature is for that line, and
  its player is to move (`PostsFit`). The compare of `APPEND_LUA` discharges that condition. A
  suspended repair knows that its list is still corrupt and its cut still the longest legal prefix
  (`RepairsFit`), because no handler appends to a corrupt list.
- `PlayersAlternate`, for any number of repairs: whatever a list was cut to meanwhile, the length that
  the script compares tells whose turn the place is, and the handler asked for that player
  (`PostsInTurn`). A cut only shortens a part that was in turn. `SettlementTypes` carries this over
  the settlements, with the types.
- `LockExcludes`, under `[][LockOutlives]_vars`: no lock expires while the settlement that took it
  sends, waits, takes the game off the live set or is about to release. Who holds a game's lock has
  it set and is the only one (`LocksHeld`); a holder that died left the lock to its expiry.
- `LinesStand`, for any number of repairs: a line that stood in a list while no repair of it was under
  way is never lost. Such a line is no longer than what any later repair keeps (`LineKept`), since a
  repair that reads it keeps the longest legal prefix, of which the line is a part.
- `OraclePaysTheWinner`, under `[]RepairsApart`. A settlement decides on what it read earlier, so the
  invariant says that what was read and is legal is a prefix of the history that stands
  (`WorksFit`), and what was derived follows from it. A result that a legal prefix supports stays supported: handlers append behind it,
  the repair trims behind it, and the clock only makes its moves older. So it holds of every
  transaction in flight (`TxsEarned`) and of every settled game (`SettledEarned`).

**`ServerProofs`** (sponsors, index, names, streaks, training)
- A cap holds not because handlers exclude each other, which they do not, but because what was sent
  *plus* the handlers that hold a number and have sent nothing yet is at most what was counted
  (`Reserved`, `Capped`).
- For the index, each request knows that everything below its chunk was written (`StartCovered`,
  `FromCovered`), whichever way others move the cursor meanwhile. `IndexStaysTrue`: a game is held for
  an address only if the address sits in it. A seat once taken is never given up (`SeatedThere` is
  stable), so what a sync read of the chain is still true when it is written, however late.
- `BadgesStayScarce`: the badges on profiles and in the hands of handlers are together no more than
  the numbers drawn from the counter (`BadgesNumbered`).
- `NamesStayMine`, under `calm` as the property states it: a profile's name is reserved for it
  (`NamesKept`), and so is what a handler has in hand before it writes (`HandNames`); a name that a
  claim has still to write is in nobody else's hand and on no profile (`HandApart`).
- `SuccessStaysReal`: a claim that answers with success has landed (`ClaimsLand`), and an answer
  belongs to a submission of this dialog (`OwnCalls`). `DialogKeepsStore`: the dialog's steps are the
  store's or leave it alone.
- `StreaksEarned`: every request is dated by a day on which it was played (`DatesPlayed`), and every
  copy counts such days.
- `ProgressStaysEarned`: every copy of the record, with a handler or a page, is earned. `ProgressStaysKept`,
  under `trainCalm`: at most one handler holds a copy, and it takes nothing from the record
  (`CalmCalls`). For both the page goes through its steps in order (`PageInOrder`) and has one answer
  of the learner's to judge at a time (`OneVerdict`).

**`SyncProofs`** (two browsers)
- `BoardStaysRelays`, `ResultsStayAgreed`. The relay takes the players' moves in turn on every chain
  (`RelayGood`), although on Stacks it does not check who posts, because the number of a post is for a
  place that is its player's (`PostGood`). A browser's list is the relay's first moves and own moves
  behind them (`HeldGood`); its board follows the list (`BoardFollows`, `BoardGood`). Results agree
  because a browser with nothing under way shows its list (`Quiet`), and a clock runs out only on the
  one who is to move (`ClockGood`). `SyncStaysTyped` follows.

**`PageProofs`** (lobby, training game, game page, bot)
- `AnswersStayTrue`, `StakesStayKnown`, `OneCallAtATime`: for each call what its stage tells of its
  transaction (`SoundCall`); every seat of the player's is accounted for or a call still knows of it
  (`StakesIn`); a call that runs for this visit is the only one, and `pending` is set (`OneVisits`).
- `PhaseStaysFit`, `LossStaysOfThisMove`: the engine's queue is a FIFO in which one search runs
  (`OneSearch`, `QueueGood`), at most one reply waits, its analysis is the last in the queue, and what
  was evaluated before the move is the position it was played in (`JudgesThisMove`).
- `VerdictStaysFinal`: once a record that was read is closed it is the contract's (`RecordsRead`).
- `BotIsOptimal`: alpha-beta pruning is correct for every tree. `Within` says what a result stands
  for: above alpha it is no more than the value of the position, below beta no less. `WhiteTries` and
  `BlackTries` are the loop's invariant, `LayerFaithful` goes one ply up, and with the full window
  the result is the value (`SearchIsExact`). A mate found with few plies is one with more
  (`MateStands`), so a bot that fell silent at any depth is lost. That the timer is set only for the
  position on the board with black to move (`TimerFits`) ties the search to the game. `BotGameIsKept`
  is inductive as it stands.
- `HoldsComplete`, under `[]ButtonStays`: while the timer of a hold runs the page is shown, its record
  is known and its game goes on. Then a timer that runs means a finger that is down
  (`HoldIsPressed`), since letting go is heard and clears it.
- `TrainGameStaysTyped`: a reset leaves continuations behind that play on into the next game, and yet
  no game gets longer than it may, because a game is live exactly when its phase is not `over`, and
  until then every position that can still be moved from, on the board, kept or in a continuation, is
  short of the last (`TrainShort`). `ClientStaysTyped` (`PageRest`). `LobbyStaysTyped`: the purse is never overdrawn
  (`WalletFits`), a call that is past predicting its id has one (`CallsNumbered`), and the list is no
  longer than the games, so the pager stays within its pages (`ListsFit`).

**`ApplicationProofs`** (the whole)
- `ComponentsRun`: a behaviour of the application is one of each of its eleven components, which are
  the parts that `application` runs in turn. The dialog and the store that it calls share the
  profiles; that the store's steps are the dialog's own needs that nobody waits for an answer when
  it is not the dialog's turn (`NobodyWaits`).
- `ApplicationStaysTyped`, `StoresKeepPromises`, `PagesKeepPromises` follow from it and from the
  components' theorems.

**Only model-checked.** What must happen in the end (`NeverStuck`, `SweptIsSettled`): liveness under
fairness and `ENABLED` are outside the prover's reach. So are the library's
induction theorems, which take an operator as a parameter. Where the proofs need induction they take
it over a *set*: a least counterexample (`UpTo`), a running total, or a witness. In this way the
bot's search is within reach, because it is a recursive function whose depth is at most 2 and whose
loops are functions on `0..Len(Ordered)`.

## 7. What is not modelled

- Read-only functions, metadata, events, memos, error codes and messages; the ownership functions
  that Solidity contracts inherit from OpenZeppelin; the expiry of Soroban's ledger entries.
- Legacy contracts: nothing in the application calls them. What is particular to them, reported wins
  and claimed timeouts, is modelled in its port to Soroban.
- The 30-day expiry of a Redis list, request parsing and address formats.
- Games without a wager in the lobby, which need neither balance nor allowance: the amounts there are
  equal and positive. A browser whose storage is full, in which a bot's game is not saved.
- Without Redis the EVM sponsor answers with an error, which is left out; the Stacks sponsor limits
  nothing (`SkipLimit`), and `CallCapKept` speaks of a server that has Redis.
- Nonces, fees and gas, except where the code reads a balance or estimates first.
- Reorganisations: a transaction that ran stays.
- Wallets and their libraries: connecting, switching, and whether a sponsored write that is sent
  again can be executed twice (`useCeloChess.ts:96`).
- Reads for display, hints, the coaches' comments, the curriculum's content, sounds, layout.

## 8. Plan

What was planned is written, except for the following.

1. A reload of a page in `MoveSync`, and the relay's repair while browsers poll, with the boards'
   invariant carried over them.
2. `LegacyRouter`, should a deployment of the modular contracts still hold stakes: router, registry,
   escrow, timer and ranking composed, with `claimed` as the only guard against a second payout.
3. Once the repair compares before it trims, `RepairsApart` goes from the theorems of `RelayProofs`
   that still need it, and `LegalPartKept` becomes a property of a passing run.
