----------------------------- MODULE MoveRelay -----------------------------
(***************************************************************************)
(* The move relay: POST /api/games/:chain/:id/moves and the Redis lists of *)
(* lib/moves-store.ts it appends to, the set of live games, and the        *)
(* owner's repair endpoint.  Every handler runs beside the others and may  *)
(* be suspended at each await, so a handler is a process with a stage; it  *)
(* may also die there.                                                     *)
(*                                                                         *)
(* chess.js is a tree of lines of play: Lines are the legal ones, Mated    *)
(* and Drawn those whose last position is checkmate or a draw.  A draw by  *)
(* repetition can be played on, so a drawn line may have extensions.       *)
(***************************************************************************)
EXTENDS Integers, Sequences, SequencesExt, FiniteSets

CONSTANTS
  Games,      \* game ids
  Chains,     \* the chains they may be on
  White,      \* the address seated as white in every game
  Black,      \* the address seated as black
  Players,    \* addresses that post moves
  Lines,      \* legal lines of play
  Mated,      \* lines that end in checkmate
  Drawn,      \* lines that end in a drawn position
  Posters,    \* concurrent move handlers
  Repairers,  \* concurrent repair handlers
  MaxNumber,  \* bound: largest moveNumber posted
  Imported    \* histories the relay may have stored before it had the CAS

Sans == UNION {Range(line) : line \in Lines}

ASSUME RelayAssumption ==
  /\ {White, Black} \subseteq Players /\ White # Black
  /\ Lines \subseteq Seq(Sans) /\ <<>> \in Lines
  /\ \A line \in Lines : line # <<>> => Front(line) \in Lines
  /\ Mated \cup Drawn \subseteq Lines \ {<<>>}
  /\ Mated \cap Drawn = {}
  /\ \A line \in Lines : line # <<>> => Front(line) \notin Mated
  /\ Chains \subseteq {"celo", "base", "stacks"}
  /\ MaxNumber \in Nat

VARIABLES
  chain,       \* the chain each game is on, for good
  history,     \* chess:moves:<chain>:<id>, per game
  registered,  \* chess:active:<chain>
  onchain,     \* status of the game on chain
  posts,       \* what each move handler is doing
  repairs      \* what each repair handler is doing

relayVars == <<chain, history, registered, onchain, posts, repairs>>

Numbers == 1..MaxNumber

(* over is the line a signed move was signed for, <<>> if it is unsigned;  *)
(* old says that more than MOVE_TIMEOUT_MS passed since ts.                *)
MoveRecord == [san: Sans, player: Players, moveNumber: Numbers,
               over: Lines, old: BOOLEAN]

isFastFinality(g) == chain[g] \in {"celo", "base"}

Idle == [stage |-> "idle"]
Post == [stage: {"read", "bound", "stored"}, game: Games, base: Nat, san: Sans,
         player: Players, moveNumber: Numbers, over: Lines]
Repair == [stage: {"trim"}, game: Games, keep: Nat]

RelayTypeOK ==
  /\ chain \in [Games -> Chains]
  /\ history \in [Games -> Seq(MoveRecord)]
  /\ registered \subseteq Games
  /\ onchain \in [Games -> {"absent", "waiting", "active", "closed"}]
  /\ posts \in [Posters -> Post \cup {Idle}]
  /\ repairs \in [Repairers -> Repair \cup {Idle}]

RelayInit ==
  /\ chain \in [Games -> Chains]
  /\ history \in [Games -> Imported \cup {<<>>}]
  /\ registered = {}
  /\ onchain = [g \in Games |-> "absent"]
  /\ posts = [p \in Posters |-> Idle]
  /\ repairs = [r \in Repairers |-> Idle]

-----------------------------------------------------------------------------
(* Replaying a stored history *)

Line(h) == [i \in DOMAIN h |-> h[i].san]

Legal(h) == Line(h) \in Lines

LegalPrefixes(h) == {k \in 0..Len(h) : Legal(SubSeq(h, 1, k))}

longestLegalPrefix(h) == Max(LegalPrefixes(h))

LegalPart(h) == SubSeq(h, 1, longestLegalPrefix(h))

(* The seat that plays the move after n moves. *)
SideToMove(n) == IF n % 2 = 0 THEN White ELSE Black

(* Every signed move sits on the line it was signed for. *)
SignedForItsPlace(h) ==
  \A i \in DOMAIN h : h[i].over # <<>> => h[i].over = Line(SubSeq(h, 1, i))

(* White and black alternate in the legal part. *)
Alternates(h) == \A i \in DOMAIN LegalPart(h) : h[i].player = SideToMove(i - 1)

(* What was stored before the append was atomic may be illegal from some   *)
(* move on; the handler's other checks are older.                          *)
ASSUME ImportedAssumption ==
  \A h \in Imported : h \in Seq(MoveRecord) /\ SignedForItsPlace(h) /\ Alternates(h)

-----------------------------------------------------------------------------
(* POST moves *)

\* mutant
ReadHistorySignedBefore(p, g, san, player, number, signed) ==
  LET line == Append(Line(history[g]), san)
  IN  /\ posts[p] = Idle
      /\ Len(history[g]) < number
      /\ line \in Lines
      /\ posts' = [posts EXCEPT ![p] =
                     [stage |-> "read", game |-> g, base |-> Len(history[g]),
                      san |-> san, player |-> player, moveNumber |-> number,
                      over |-> IF signed THEN Line(history[g]) ELSE <<>>]]
      /\ UNCHANGED <<history, registered, onchain, repairs>>

(* The history is read, the move number compared with its length, and the  *)
(* move replayed on top of it.                                             *)
ReadHistory(p, g, san, player, number, signed) ==
  LET line == Append(Line(history[g]), san)
  IN  /\ posts[p] = Idle
      /\ Len(history[g]) < number
      /\ line \in Lines
      /\ posts' = [posts EXCEPT ![p] =
                     [stage |-> "read", game |-> g, base |-> Len(history[g]),
                      san |-> san, player |-> player, moveNumber |-> number,
                      over |-> IF signed THEN line ELSE <<>>]]
      /\ UNCHANGED <<history, registered, onchain, repairs>>

\* mutant
BindNextPlayer(p) ==
  /\ posts[p].stage = "read"
  /\ isFastFinality(posts[p].game) =>
       onchain[posts[p].game] = "active" /\ posts[p].player = SideToMove(posts[p].base + 1)
  /\ posts' = [posts EXCEPT ![p].stage = "bound"]
  /\ UNCHANGED <<history, registered, onchain, repairs>>

(* On a fast chain the game must be active and the move come from the side *)
(* to move; on a slow one a failed read lets any move through.             *)
BindPlayer(p) ==
  /\ posts[p].stage = "read"
  /\ isFastFinality(posts[p].game) =>
       onchain[posts[p].game] = "active" /\ posts[p].player = SideToMove(posts[p].base)
  /\ posts' = [posts EXCEPT ![p].stage = "bound"]
  /\ UNCHANGED <<history, registered, onchain, repairs>>

Recorded(post) ==
  [san |-> post.san, player |-> post.player, moveNumber |-> post.moveNumber,
   over |-> post.over, old |-> FALSE]

\* mutant
appendAnyway(p) ==
  /\ posts[p].stage = "bound"
  /\ LET g == posts[p].game
     IN  history' = [history EXCEPT ![g] = Append(@, Recorded(posts[p]))]
  /\ posts' = [posts EXCEPT ![p].stage = "stored"]
  /\ UNCHANGED <<registered, onchain, repairs>>

(* APPEND_LUA: push only if the list is still as long as it was when read. *)
appendMove(p) ==
  /\ posts[p].stage = "bound"
  /\ LET g == posts[p].game
     IN  \/ /\ Len(history[g]) = posts[p].base
            /\ history' = [history EXCEPT ![g] = Append(@, Recorded(posts[p]))]
            /\ posts' = [posts EXCEPT ![p].stage = "stored"]
         \/ /\ Len(history[g]) # posts[p].base
            /\ posts' = [posts EXCEPT ![p] = Idle]
            /\ UNCHANGED history
  /\ UNCHANGED <<registered, onchain, repairs>>

registerActiveGame(p) ==
  /\ posts[p].stage = "stored"
  /\ registered' = registered \cup {posts[p].game}
  /\ posts' = [posts EXCEPT ![p] = Idle]
  /\ UNCHANGED <<history, onchain, repairs>>

(* The handler answers with an error (a refused move, a failed read, an    *)
(* invalid signature, a Redis error) or its function is killed.            *)
PostFails(p) ==
  /\ posts[p] # Idle
  /\ posts' = [posts EXCEPT ![p] = Idle]
  /\ UNCHANGED <<history, registered, onchain, repairs>>

-----------------------------------------------------------------------------
(* POST admin/relay/repair, which knows celo only *)

repairReads(r, g) ==
  /\ chain[g] = "celo"
  /\ repairs[r] = Idle
  /\ longestLegalPrefix(history[g]) < Len(history[g])
  /\ repairs' = [repairs EXCEPT ![r] =
                   [stage |-> "trim", game |-> g, keep |-> longestLegalPrefix(history[g])]]
  /\ UNCHANGED <<history, registered, onchain, posts>>

\* mutant
repairTrimsOneMore(r) ==
  /\ repairs[r].stage = "trim"
  /\ history' = [history EXCEPT ![repairs[r].game] = SubSeq(@, 1, repairs[r].keep - 1)]
  /\ repairs' = [repairs EXCEPT ![r] = Idle]
  /\ UNCHANGED <<registered, onchain, posts>>

repairTrims(r) ==
  /\ repairs[r].stage = "trim"
  /\ LET kept(h) == SubSeq(h, 1, IF Len(h) < repairs[r].keep THEN Len(h) ELSE repairs[r].keep)
     IN  history' = [history EXCEPT ![repairs[r].game] = kept(@)]
  /\ repairs' = [repairs EXCEPT ![r] = Idle]
  /\ UNCHANGED <<registered, onchain, posts>>

-----------------------------------------------------------------------------
(* The chain: a game is created, joined, and ended by its players.         *)
CreateGame(g) ==
  /\ onchain[g] = "absent"
  /\ onchain' = [onchain EXCEPT ![g] = "waiting"]
  /\ UNCHANGED <<history, registered, posts, repairs>>

JoinGame(g) ==
  /\ onchain[g] = "waiting"
  /\ onchain' = [onchain EXCEPT ![g] = "active"]
  /\ UNCHANGED <<history, registered, posts, repairs>>

EndGame(g) ==
  /\ onchain[g] \in {"waiting", "active"}
  /\ onchain' = [onchain EXCEPT ![g] = "closed"]
  /\ UNCHANGED <<history, registered, posts, repairs>>

(* The time limit of a move passes: every stored move is now old. *)
Aging(h) == [i \in DOMAIN h |-> [h[i] EXCEPT !.old = TRUE]]

-----------------------------------------------------------------------------
RelayOp ==
  /\ \/ \E p \in Posters :
          \/ \E g \in Games, san \in Sans, player \in Players, number \in Numbers,
                signed \in BOOLEAN : ReadHistory(p, g, san, player, number, signed)
          \/ BindPlayer(p) \/ appendMove(p) \/ registerActiveGame(p) \/ PostFails(p)
     \/ \E r \in Repairers : repairTrims(r) \/ \E g \in Games : repairReads(r, g)
     \/ \E g \in Games : CreateGame(g) \/ JoinGame(g) \/ EndGame(g)
  /\ UNCHANGED chain

RelaySpec == RelayInit /\ [][RelayOp]_relayVars

-----------------------------------------------------------------------------
(* However handlers interleave and die, no move lands on a position other  *)
(* than the one it was checked against: a list that is a legal line of     *)
(* play, as the empty one is, stays one, and a corrupt one does not grow.  *)
HistoryIsLegal ==
  [][\A g \in Games : history'[g] # history[g] => Legal(history'[g])]_relayVars

(* A signed move keeps verifying: settlement replays the stored list and   *)
(* rebuilds the message each signature was given for, so a signed move     *)
(* must sit exactly on the line it was signed for.                         *)
SignaturesHold == \A g \in Games : SignedForItsPlace(history[g])

(* On a fast chain white and black alternate in the legal part of a list,  *)
(* each move posted by the seat whose turn it is.                          *)
TurnsAlternate == \A g \in Games : isFastFinality(g) => Alternates(history[g])

Repairing(g) == \E r \in Repairers : repairs[r] # Idle /\ repairs[r].game = g

(* A repair trims to a length that it computed earlier, so it may cut off  *)
(* what was posted meanwhile, but nothing older: a line of play that stood *)
(* in a list when no repair of it was under way stands for good, however   *)
(* many repairs overlap later, and whatever handlers post between.         *)
LineStands ==
  \A g \in Games, line \in Lines :
    []((IsPrefix(line, Line(history[g])) /\ ~Repairing(g)) => []IsPrefix(line, Line(history[g])))

(* moves-store.ts: "Trim a game's stored history back to its longest legal *)
(* prefix": no step of a repair or a post loses or rewrites a move of the  *)
(* legal part of a history.                                                *)
LegalPartKept ==
  [][\A g \in Games : IsPrefix(LegalPart(history[g]), history'[g])]_relayVars
=============================================================================
