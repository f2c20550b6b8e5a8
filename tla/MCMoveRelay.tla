---------------------------- MODULE MCMoveRelay ----------------------------
(***************************************************************************)
(* Two move handlers beside one repair at a time, or two repairs beside    *)
(* one move handler: which of the two is chosen in the first state.        *)
(***************************************************************************)
EXTENDS MoveRelay

CONSTANTS game, white, black, a, b, p1, p2, r1, r2

(* A small tree of play in which the same move is legal in one position    *)
(* and not in another.                                                     *)
MCLines == {<<>>, <<a>>, <<b>>, <<a, b>>, <<b, a>>, <<b, b>>, <<b, a, a>>, <<b, b, a>>}
MCMated == {<<a, b>>, <<b, a, a>>}
MCDrawn == {<<b, a>>, <<b, b, a>>}

Stored(san, player, number) ==
  [san |-> san, player |-> player, moveNumber |-> number, over |-> <<>>, old |-> FALSE]

(* Two handlers both stored a reply to the first move. *)
MCCorrupt == {<<Stored(a, white, 1), Stored(a, black, 2), Stored(b, black, 2)>>,
              <<Stored(b, white, 1), Stored(b, black, 2), Stored(b, black, 2)>>}

VARIABLE crowd

MCInit ==
  /\ RelayInit
  /\ crowd \in {"posts", "repairs"}
  /\ crowd = "repairs" => \A g \in Games : history[g] # <<>>

AtMostOne(jobs) == \A p, q \in DOMAIN jobs : jobs[p] # Idle /\ jobs[q] # Idle => p = q

(* On a slow chain the chain's state binds nobody, and no property asks    *)
(* who posted a move.                                                      *)
Slowly ==
  \A g \in Games : ~isFastFinality(g) =>
    /\ onchain'[g] = onchain[g]
    /\ \A p \in Posters : posts'[p] # Idle => posts'[p].player = White

MCNext ==
  /\ RelayOp /\ Slowly /\ UNCHANGED crowd
  /\ IF crowd = "posts" THEN AtMostOne(repairs') ELSE AtMostOne(posts')

MCSpec == MCInit /\ [][MCNext]_<<relayVars, crowd>>
=============================================================================
