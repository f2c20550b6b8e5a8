----------------------------- MODULE GameIndex -----------------------------
(***************************************************************************)
(* lib/game-index.ts and the routes on it: which player took part in which *)
(* game of an EVM chain, folded into Redis chunk by chunk, and the cached  *)
(* leaderboard.  Games are created, joined and finished on the chain       *)
(* meanwhile; game ids start at 0; several syncs may run, and any of them  *)
(* may stop between two steps.                                             *)
(***************************************************************************)
EXTENDS Integers, Sequences

CONSTANTS
  IndexPlayers, \* addresses
  Syncs,        \* concurrent requests of history and leaderboard
  ScanChunk,    \* SCAN_CHUNK, 200 in the code
  IndexGames    \* bound: games on the chain

ASSUME GameIndexAssumption == ScanChunk \in Nat \ {0} /\ IndexGames \in Nat

VARIABLES
  chainGames, \* games by id + 1: [white, black, over]
  cursor,     \* chess:idx:<chain>:cursor
  indexed,    \* chess:idx:<chain>:player:<address>, as pairs <<address, id>>
  syncs,      \* what each request is doing
  ranked,     \* chess:idx:<chain>:leaderboard, the players on it, or NoBoard
  written     \* history: ids whose chunk has been written

indexVars == <<chainGames, cursor, indexed, syncs, ranked, written>>

Empty == "nobody"   \* the zero address
NoBoard == {Empty}
NoSync == [stage |-> "idle"]

SyncStages == {"begun", "cursor", "scan", "scanned", "executed", "synced", "stats"}

Sync == [stage: SyncStages, route: {"history", "leaderboard"}, from: Nat, start: Nat, nonce: Nat,
         found: SUBSET (IndexPlayers \X Nat), players: SUBSET IndexPlayers]

IndexTypeOK ==
  /\ chainGames \in Seq([white: IndexPlayers, black: IndexPlayers \cup {Empty}, over: BOOLEAN])
  /\ cursor \in Nat
  /\ indexed \subseteq (IndexPlayers \X (0..IndexGames))
  /\ \A c \in Syncs : syncs[c] # NoSync =>
       syncs[c].stage \in SyncStages /\ syncs[c].found \subseteq (IndexPlayers \X (0..IndexGames))
  /\ ranked = NoBoard \/ ranked \subseteq IndexPlayers
  /\ written \subseteq (0..IndexGames)

IndexInit ==
  /\ chainGames = <<>> /\ cursor = 0 /\ indexed = {}
  /\ syncs = [c \in Syncs |-> NoSync]
  /\ ranked = NoBoard /\ written = {}

gameNonce == Len(chainGames)

Seats(id) ==
  IF id < gameNonce THEN {chainGames[id + 1].white, chainGames[id + 1].black} \ {Empty} ELSE {}

(* playerStats.gamesPlayed is not 0 *)
HasPlayed(p) == \E id \in 0..gameNonce - 1 : p \in Seats(id) /\ chainGames[id + 1].over

Step(c, stage) == syncs' = [syncs EXCEPT ![c].stage = stage]

ChunkEnd(c) ==
  IF syncs[c].start + ScanChunk - 1 < syncs[c].nonce THEN syncs[c].start + ScanChunk - 1
  ELSE syncs[c].nonce

-----------------------------------------------------------------------------
(* A request; the leaderboard is only computed if it is not cached. *)
BeginSync(c, route) ==
  /\ syncs[c] = NoSync
  /\ route = "leaderboard" => ranked = NoBoard
  /\ syncs' = [syncs EXCEPT ![c] = [stage |-> "begun", route |-> route, from |-> 0, start |-> 0,
                                    nonce |-> 0, found |-> {}, players |-> {}]]
  /\ UNCHANGED <<chainGames, cursor, indexed, ranked, written>>

ReadCursor(c) ==
  /\ syncs[c].stage = "begun"
  /\ syncs' = [syncs EXCEPT ![c].stage = "cursor", ![c].from = cursor]
  /\ UNCHANGED <<chainGames, cursor, indexed, ranked, written>>

ReadNonce(c) ==
  /\ syncs[c].stage = "cursor"
  /\ syncs' = [syncs EXCEPT ![c].nonce = gameNonce, ![c].start = syncs[c].from + 1,
                 ![c].stage = IF gameNonce <= syncs[c].from THEN "synced" ELSE "scan"]
  /\ UNCHANGED <<chainGames, cursor, indexed, ranked, written>>

(* The multicall over a chunk; the read of any game may fail. *)
ScanGames(c, failed) ==
  LET ids == syncs[c].start..ChunkEnd(c)
  IN  /\ syncs[c].stage = "scan"
      /\ failed \subseteq ids
      /\ syncs' = [syncs EXCEPT ![c].stage = "scanned",
                     ![c].found = UNION {Seats(id) \X {id} : id \in ids \ failed}]
      /\ UNCHANGED <<chainGames, cursor, indexed, ranked, written>>

(* The pipeline. *)
WriteChunk(c) ==
  /\ syncs[c].stage = "scanned"
  /\ indexed' = indexed \cup syncs[c].found
  /\ written' = written \cup (syncs[c].start..ChunkEnd(c))
  /\ Step(c, "executed")
  /\ UNCHANGED <<chainGames, cursor, ranked>>

\* mutant
AdvanceToNonce(c) ==
  /\ syncs[c].stage = "executed"
  /\ cursor' = syncs[c].nonce
  /\ syncs' = [syncs EXCEPT ![c].start = ChunkEnd(c) + 1,
                 ![c].stage = IF ChunkEnd(c) < syncs[c].nonce THEN "scan" ELSE "synced"]
  /\ UNCHANGED <<chainGames, indexed, ranked, written>>

(* The cursor goes to the end of the chunk, back if another sync is ahead. *)
AdvanceCursor(c) ==
  /\ syncs[c].stage = "executed"
  /\ cursor' = ChunkEnd(c)
  /\ syncs' = [syncs EXCEPT ![c].start = ChunkEnd(c) + 1,
                 ![c].stage = IF ChunkEnd(c) < syncs[c].nonce THEN "scan" ELSE "synced"]
  /\ UNCHANGED <<chainGames, indexed, ranked, written>>

(* The players of the index and their stats, any of which may not be read; *)
(* only who has played is ranked.                                          *)
ReadStats(c, failed) ==
  /\ syncs[c].stage = "synced" /\ syncs[c].route = "leaderboard"
  /\ indexed # {}
  /\ syncs' = [syncs EXCEPT ![c].stage = "stats",
                 ![c].players = {p \in {pair[1] : pair \in indexed} \ failed : HasPlayed(p)}]
  /\ UNCHANGED <<chainGames, cursor, indexed, ranked, written>>

CacheBoard(c) ==
  /\ syncs[c].stage = "stats"
  /\ ranked' = syncs[c].players
  /\ syncs' = [syncs EXCEPT ![c] = NoSync]
  /\ UNCHANGED <<chainGames, cursor, indexed, written>>

(* The history is answered, or a read fails, or the process ends. *)
SyncEnds(c) ==
  /\ syncs[c] # NoSync
  /\ syncs' = [syncs EXCEPT ![c] = NoSync]
  /\ UNCHANGED <<chainGames, cursor, indexed, ranked, written>>

BoardExpires ==
  /\ ranked # NoBoard
  /\ ranked' = NoBoard
  /\ UNCHANGED <<chainGames, cursor, indexed, syncs, written>>

-----------------------------------------------------------------------------
(* The chain. *)
CreateChainGame(p) ==
  /\ gameNonce < IndexGames
  /\ chainGames' = Append(chainGames, [white |-> p, black |-> Empty, over |-> FALSE])
  /\ UNCHANGED <<cursor, indexed, syncs, ranked, written>>

JoinChainGame(id, p) ==
  /\ chainGames[id + 1].black = Empty /\ chainGames[id + 1].white # p
  /\ chainGames' = [chainGames EXCEPT ![id + 1].black = p]
  /\ UNCHANGED <<cursor, indexed, syncs, ranked, written>>

FinishChainGame(id) ==
  /\ chainGames[id + 1].black # Empty /\ ~chainGames[id + 1].over
  /\ chainGames' = [chainGames EXCEPT ![id + 1].over = TRUE]
  /\ UNCHANGED <<cursor, indexed, syncs, ranked, written>>

IndexOp ==
  \/ \E c \in Syncs :
       \/ \E route \in {"history", "leaderboard"} : BeginSync(c, route)
       \/ ReadCursor(c) \/ ReadNonce(c) \/ WriteChunk(c) \/ AdvanceCursor(c)
       \/ \E failed \in SUBSET (0..IndexGames) : ScanGames(c, failed)
       \/ \E failed \in SUBSET IndexPlayers : ReadStats(c, failed)
       \/ CacheBoard(c) \/ SyncEnds(c)
  \/ BoardExpires
  \/ \E p \in IndexPlayers :
       CreateChainGame(p) \/ \E id \in 0..gameNonce - 1 : JoinChainGame(id, p)
  \/ \E id \in 0..gameNonce - 1 : FinishChainGame(id)

IndexSpec == IndexInit /\ [][IndexOp]_indexVars

-----------------------------------------------------------------------------
(* "Advance the cursor per chunk so a mid-scan failure resumes, not        *)
(* restarts": syncs stop anywhere, overtake each other and move the cursor *)
(* back, but it never stands beyond an id whose chunk was not written, and *)
(* the leaderboard lists nobody who has not played.                        *)
CursorCovers ==
  /\ 1..cursor \subseteq written
  /\ ranked # NoBoard => \A p \in ranked : HasPlayed(p)

(* "All addresses that have ever appeared in a game": when a sync has      *)
(* ended with the cursor at the last game there is nothing more to fold    *)
(* in, so whoever has played is known.                                     *)
IndexComplete ==
  (cursor = gameNonce /\ \A c \in Syncs : syncs[c] = NoSync) =>
    \A id \in 0..gameNonce - 1 : chainGames[id + 1].over =>
      \A p \in Seats(id) : <<p, id>> \in indexed
=============================================================================
