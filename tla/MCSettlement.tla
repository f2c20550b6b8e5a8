---------------------------- MODULE MCSettlement ----------------------------
EXTENDS Settlement

CONSTANTS game, white, black, a, b, poster, settler, cron

(* White opens with a; black mates with b, or answers a, which is a draw. *)
MCLines == {<<>>, <<a>>, <<a, b>>, <<a, a>>}
MCMated == {<<a, b>>}
MCDrawn == {<<a, a>>}
MCNone == {}

(* What a settlement does depends neither on the number that a move was    *)
(* posted with nor, as long as signatures hold, on which moves are signed. *)
UsualPosts ==
  \A p \in Posters : posts'[p] # Idle =>
    /\ posts'[p].moveNumber = posts'[p].base + 1
    /\ isFastFinality(posts'[p].game) <=> posts'[p].over # <<>>

MCNext == Next /\ UsualPosts

MCSpec == Init /\ [][MCNext]_vars /\ Fairness
=============================================================================
