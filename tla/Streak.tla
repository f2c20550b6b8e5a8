------------------------------- MODULE Streak -------------------------------
(***************************************************************************)
(* Daily streaks: the record script of lib/streak-store.ts, the route that *)
(* runs it, and the overlay that celebrates a streak or nudges a player    *)
(* who has none (useStreak.ts, StreakCelebration.tsx and their callers).   *)
(* A handler computes the date before it runs the script, so the script    *)
(* may run on a later day; answers may be lost.  Days are numbered, 0 is   *)
(* "never played".  Only addresses that start with 0x get that far.        *)
(***************************************************************************)
EXTENDS Integers

CONSTANTS
  Streakers,   \* EVM addresses of players
  StreakCalls, \* concurrent record requests
  LastDay      \* bound: days the model runs

ASSUME StreakAssumption == LastDay \in Nat \ {0}

VARIABLES
  clock,       \* the UTC day
  stored,      \* chess:streak:<address>
  streakCalls, \* what each record request is doing
  played,      \* history: days on which a record request of the player was dated
  view,        \* the browser's cached streak, Loading before the first answer
  pending,     \* a recorded streak that waits for the return to the lobby
  overlay,     \* the overlay on the screen
  guard,       \* localStorage: the day a mode of the overlay was last shown
  nudged,      \* nudgeFired, per visit of the lobby
  storage      \* localStorage works in this browser

streakVars == <<clock, stored, streakCalls, played, view, pending, overlay, guard,
                nudged, storage>>

Day == 1..LastDay
Modes == {"earned", "nudge"}
Never == [current |-> 0, longest |-> 0, last |-> 0]
Stored == [current: 0..LastDay, longest: 0..LastDay, last: 0..LastDay]
Loading == [current |-> -1, longest |-> -1, last |-> -1]
Nothing == [mode |-> "none"]
Shown == [mode: Modes, current: 0..LastDay, longest: 0..LastDay]
NoStreakCall == [stage |-> "idle"]
StreakCall ==
  [stage: {"counted", "dated", "answered"}, address: Streakers, bot: BOOLEAN,
   today: 0..LastDay, result: Stored]

StreakTypeOK ==
  /\ clock \in Day
  /\ stored \in [Streakers -> Stored]
  /\ streakCalls \in [StreakCalls -> StreakCall \cup {NoStreakCall}]
  /\ played \in [Streakers -> SUBSET Day]
  /\ view \in [Streakers -> Stored \cup {Loading}]
  /\ pending \in [Streakers -> Stored]
  /\ overlay \in [Streakers -> Shown \cup {Nothing}]
  /\ guard \in [Modes -> [Streakers -> 0..LastDay]]
  /\ nudged \subseteq Streakers
  /\ storage \in BOOLEAN

StreakInit ==
  /\ clock = 1
  /\ stored = [a \in Streakers |-> Never]
  /\ streakCalls = [c \in StreakCalls |-> NoStreakCall]
  /\ played = [a \in Streakers |-> {}]
  /\ view = [a \in Streakers |-> Loading]
  /\ pending = [a \in Streakers |-> Never]
  /\ overlay = [a \in Streakers |-> Nothing]
  /\ guard = [m \in Modes |-> [a \in Streakers |-> 0]]
  /\ nudged = {}
  /\ storage \in BOOLEAN

MaxOf(x, y) == IF x > y THEN x ELSE y

\* mutant
RecordTwoDays(old, today) ==
  LET current == IF old.last = today THEN old.current
                 ELSE IF old.last \in {today - 1, today - 2} THEN old.current + 1 ELSE 1
  IN  [current |-> current, longest |-> MaxOf(current, old.longest), last |-> today]

(* RECORD_LUA, one atomic script. *)
Record(old, today) ==
  LET current == IF old.last = today THEN old.current
                 ELSE IF old.last = today - 1 THEN old.current + 1 ELSE 1
  IN  [current |-> current, longest |-> MaxOf(current, old.longest), last |-> today]

(* deriveStreak: alive while the last play was today or yesterday. *)
deriveStreak(s) ==
  IF s.last = 0 THEN [Never EXCEPT !.longest = s.longest]
  ELSE [s EXCEPT !.current = IF s.last \in {clock, clock - 1} THEN @ ELSE 0]

-----------------------------------------------------------------------------
(* POST streak.  The rate limit's counter only decides which calls end     *)
(* early; any call may.                                                    *)
PostStreak(c, a, bot) ==
  /\ streakCalls[c] = NoStreakCall
  /\ streakCalls' = [streakCalls EXCEPT ![c] =
        [stage |-> "counted", address |-> a, bot |-> bot, today |-> 0, result |-> Never]]
  /\ UNCHANGED <<clock, stored, played, view, pending, overlay, guard, nudged, storage>>

(* recordPlayDay computes today and yesterday. *)
DateStreak(c) ==
  /\ streakCalls[c].stage = "counted"
  /\ streakCalls' = [streakCalls EXCEPT ![c].stage = "dated", ![c].today = clock]
  /\ played' = [played EXCEPT ![streakCalls[c].address] = @ \cup {clock}]
  /\ UNCHANGED <<clock, stored, view, pending, overlay, guard, nudged, storage>>

recordPlayDay(c) ==
  LET a == streakCalls[c].address
  IN  /\ streakCalls[c].stage = "dated"
      /\ stored' = [stored EXCEPT ![a] = Record(@, streakCalls[c].today)]
      /\ streakCalls' = [streakCalls EXCEPT ![c].stage = "answered", ![c].result = stored'[a]]
      /\ UNCHANGED <<clock, played, view, pending, overlay, guard, nudged, storage>>

(* Refused, failed, died, or the answer is lost: record() returns null. *)
StreakCallEnds(c) ==
  /\ streakCalls[c] # NoStreakCall
  /\ streakCalls' = [streakCalls EXCEPT ![c] = NoStreakCall]
  /\ UNCHANGED <<clock, stored, played, view, pending, overlay, guard, nudged, storage>>

-----------------------------------------------------------------------------
(* The overlay's listener: at most one show per mode and day.              *)
Dispatch(a, mode, current, longest) ==
  IF \/ mode = "nudge" /\ current > 0
     \/ mode = "earned" /\ current < 1
     \/ storage /\ guard[mode][a] = clock
  THEN UNCHANGED <<overlay, guard>>
  ELSE /\ guard' = IF storage THEN [guard EXCEPT ![mode][a] = clock] ELSE guard
       /\ overlay' = [overlay EXCEPT ![a] = [mode |-> mode, current |-> current, longest |-> longest]]

(* The answer: a bot game celebrates at once, a match on the way out. *)
StreakAnswer(c) ==
  LET a == streakCalls[c].address
      res == streakCalls[c].result
  IN  /\ streakCalls[c].stage = "answered"
      /\ streakCalls' = [streakCalls EXCEPT ![c] = NoStreakCall]
      /\ IF streakCalls[c].bot
         THEN Dispatch(a, "earned", res.current, res.longest) /\ UNCHANGED pending
         ELSE pending' = [pending EXCEPT ![a] = res] /\ UNCHANGED <<overlay, guard>>
      /\ UNCHANGED <<clock, stored, played, view, nudged, storage>>

leaveToLobby(a) ==
  /\ pending[a] # Never
  /\ Dispatch(a, "earned", pending[a].current, pending[a].longest)
  /\ pending' = [pending EXCEPT ![a] = Never]
  /\ UNCHANGED <<clock, stored, streakCalls, played, view, nudged, storage>>

(* useStreak: GET streak, cached for a while. *)
getStreak(a) ==
  /\ view' = [view EXCEPT ![a] = deriveStreak(stored[a])]
  /\ UNCHANGED <<clock, stored, streakCalls, played, pending, overlay, guard, nudged, storage>>

(* A 0-streak player lands on the lobby. *)
LobbyNudge(a) ==
  /\ a \notin nudged
  /\ view[a] # Loading /\ view[a].current = 0
  /\ nudged' = nudged \cup {a}
  /\ Dispatch(a, "nudge", 0, view[a].longest)
  /\ UNCHANGED <<clock, stored, streakCalls, played, view, pending, storage>>

(* The lobby is left and entered again. *)
LobbyAgain(a) ==
  /\ a \in nudged
  /\ nudged' = nudged \ {a}
  /\ UNCHANGED <<clock, stored, streakCalls, played, view, pending, overlay, guard, storage>>

(* What the overlay shows: days, the lit part of a week and whether it is a *)
(* best, or a nudge that differs for those who had a streak before.        *)
OverlayScreen(a) ==
  IF overlay[a].mode = "nudge" THEN [mode |-> "nudge", relight |-> overlay[a].longest > 0]
  ELSE [mode |-> "earned", days |-> overlay[a].current,
        lit |-> IF overlay[a].current < 7 THEN overlay[a].current ELSE 7,
        best |-> overlay[a].current >= overlay[a].longest /\ overlay[a].current > 1]

(* "Keep it going", "Maybe later", "Play now", or a click beside it. *)
CloseOverlay(a) ==
  /\ overlay[a] # Nothing
  /\ overlay' = [overlay EXCEPT ![a] = Nothing]
  /\ UNCHANGED <<clock, stored, streakCalls, played, view, pending, guard, nudged, storage>>

Midnight ==
  /\ clock < LastDay
  /\ clock' = clock + 1
  /\ UNCHANGED <<stored, streakCalls, played, view, pending, overlay, guard, nudged, storage>>

RecordOp ==
  \/ \E c \in StreakCalls :
       \/ \E a \in Streakers, bot \in BOOLEAN : PostStreak(c, a, bot)
       \/ DateStreak(c) \/ recordPlayDay(c) \/ StreakCallEnds(c) \/ StreakAnswer(c)
  \/ Midnight

StreakOp ==
  \/ RecordOp
  \/ \E a \in Streakers :
       leaveToLobby(a) \/ getStreak(a) \/ LobbyNudge(a) \/ LobbyAgain(a) \/ CloseOverlay(a)

StreakSpec == StreakInit /\ [][StreakOp]_streakVars

-----------------------------------------------------------------------------
(* A run of n played days that ends with day d. *)
PlayedRun(a, d, n) == \A k \in 0..(n - 1) : d - k \in played[a]

EarnedBy(a, s) ==
  /\ PlayedRun(a, s.last, s.current)
  /\ \E d \in 0..LastDay : PlayedRun(a, d, s.longest)
  /\ s.current <= s.longest

(* A streak is never longer than earned: although calls are delayed over   *)
(* midnight and run out of order, the stored streak counts days in a row   *)
(* that were all played, and so do the longest one and every copy of them  *)
(* that an answer, the nav badge or the overlay still holds.               *)
StreakIsEarned ==
  /\ \A a \in Streakers :
       /\ EarnedBy(a, stored[a]) /\ EarnedBy(a, pending[a])
       /\ view[a] # Loading => EarnedBy(a, view[a])
       /\ overlay[a] # Nothing => \E d \in 0..LastDay : PlayedRun(a, d, overlay[a].longest)
       /\ (overlay[a] # Nothing /\ OverlayScreen(a).mode = "earned") =>
            \E d \in 0..LastDay : PlayedRun(a, d, OverlayScreen(a).days)
  /\ \A c \in StreakCalls :
       streakCalls[c].stage = "answered" => EarnedBy(streakCalls[c].address, streakCalls[c].result)
=============================================================================
