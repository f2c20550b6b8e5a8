---------------------------- MODULE ProfileStore ----------------------------
(***************************************************************************)
(* The .chess names: lib/profile-store.ts behind the routes that claim,    *)
(* change, link and read profiles.  A handler is a chain of single Redis   *)
(* commands, any other handler may run between two of them, and the        *)
(* process may end there.  A request that fails validation or whose        *)
(* signature is wrong or old is turned away before any command.            *)
(***************************************************************************)
EXTENDS Integers, Sequences, SequencesExt, FiniteSets

CONSTANTS
  Addresses,    \* normalised addresses
  Usernames,    \* names that pass validateUsername, in lower case
  ProfileCalls, \* concurrent request handlers
  OgLimit,      \* profiles that get the OG badge, 100 in the code
  RecentLimit,  \* length the recent list is trimmed to, 50 in the code
  ClaimLimit,   \* claims per address and day, 2 in the code
  UpdateLimit   \* updates per address and hour, 5 in the code

ASSUME ProfileStoreAssumption ==
  OgLimit \in Nat /\ RecentLimit \in Nat /\ ClaimLimit \in Nat /\ UpdateLimit \in Nat

VARIABLES
  names,      \* chess:profile:name:<name>, the address or Nobody
  profiles,   \* chess:profile:addr:<address>, the record or NoProfile
  total,      \* chess:profile:total
  recent,     \* chess:profile:recent, newest first
  alias,      \* chess:profile:alias:<address>, written by the link route
  rate,       \* chess:profile:rl:<action>:<address>
  profCalls,  \* what each handler is doing
  calm        \* history: no update overlapped another one or died after its reservation

profileVars == <<names, profiles, total, recent, alias, rate, profCalls, calm>>

Nobody == "nobody"
NoUsername == "none"

(* An address is a hexadecimal or Stellar address, a name has 3 letters.   *)
ASSUME KeysAssumption == Nobody \notin Addresses /\ NoUsername \notin Usernames

NoProfile == [username |-> NoUsername]
NoProfileCall == [stage |-> "idle"]

(* recentChange: the name was set less than 30 days ago. *)
Profile == [username: Usernames, og: BOOLEAN, recentChange: BOOLEAN]

ProfileStages == {"limited", "fresh", "reserved", "written", "listed",
                  "found", "taken", "freed", "seen", "answered"}

ProfileCall ==
  [stage: ProfileStages, kind: {"claim", "update", "link"}, address: Addresses,
   name: Usernames \cup {NoUsername}, record: Profile \cup {NoProfile}, ok: BOOLEAN,
   to: Addresses \cup {Nobody}]

ProfileTypeOK ==
  /\ names \in [Usernames -> Addresses \cup {Nobody}]
  /\ profiles \in [Addresses -> Profile \cup {NoProfile}]
  /\ total \in Nat
  /\ recent \in Seq(Addresses)
  /\ alias \in [Addresses -> Addresses \cup {Nobody}]
  /\ rate \in [{"claim", "update"} -> [Addresses -> Nat]]
  /\ profCalls \in [ProfileCalls -> ProfileCall \cup {NoProfileCall}]
  /\ calm \in BOOLEAN

ProfileInit ==
  /\ names = [n \in Usernames |-> Nobody]
  /\ profiles = [a \in Addresses |-> NoProfile]
  /\ total = 0 /\ recent = <<>>
  /\ alias = [a \in Addresses |-> Nobody]
  /\ rate = [action \in {"claim", "update"} |-> [a \in Addresses |-> 0]]
  /\ profCalls = [c \in ProfileCalls |-> NoProfileCall]
  /\ calm = TRUE

(* Handler c, which is at stage from, goes on. *)
At(c, kind, from) == profCalls[c].stage = from /\ profCalls[c].kind = kind
Become(c, stage) == profCalls' = [profCalls EXCEPT ![c].stage = stage]

(* Only the answer to a claim is followed further. *)
Reply(c, ok) ==
  profCalls' = [profCalls EXCEPT ![c] =
     IF @.kind = "claim" THEN [@ EXCEPT !.stage = "answered", !.ok = ok] ELSE NoProfileCall]

getProfileByAddress(a) == profiles[a]

(* No alias is looked up on the way. *)
getProfileByUsername(n) == IF names[n] = Nobody THEN NoProfile ELSE profiles[names[n]]

isUsernameAvailable(n) == names[n] = Nobody

(* getBatchProfiles of the recent list, those without a profile dropped. *)
getRecentProfiles(limit) ==
  SelectSeq(SubSeq(recent, 1, IF Len(recent) < limit THEN Len(recent) ELSE limit),
            LAMBDA a : profiles[a] # NoProfile)

-----------------------------------------------------------------------------
(* checkRateLimit counts the request; past the limit it is refused, and    *)
(* the counting changes nothing any more.                                  *)
checkRateLimit(c, kind, limit, a, n) ==
  /\ profCalls[c] = NoProfileCall
  /\ rate[kind][a] < limit
  /\ rate' = [rate EXCEPT ![kind][a] = @ + 1]
  /\ profCalls' = [profCalls EXCEPT ![c] =
        [stage |-> "limited", kind |-> kind, address |-> a, name |-> n,
         record |-> NoProfile, ok |-> FALSE, to |-> Nobody]]

PostClaim(c, a, n) ==
  /\ checkRateLimit(c, "claim", ClaimLimit, a, n)
  /\ UNCHANGED <<names, profiles, total, recent, alias, calm>>

(* "Profile already exists", or the way to claimProfile. *)
ClaimReads(c) ==
  /\ At(c, "claim", "limited")
  /\ IF getProfileByAddress(profCalls[c].address) = NoProfile THEN Become(c, "fresh") ELSE Reply(c, FALSE)
  /\ UNCHANGED <<names, profiles, total, recent, alias, rate, calm>>

\* mutant
ClaimReservesBlindly(c) ==
  LET n == profCalls[c].name
  IN  /\ At(c, "claim", "fresh")
      /\ names' = [names EXCEPT ![n] = profCalls[c].address] /\ Become(c, "reserved")
      /\ UNCHANGED <<profiles, total, recent, alias, rate, calm>>

(* SETNX of the name. *)
ClaimReserves(c) ==
  LET n == profCalls[c].name
  IN  /\ At(c, "claim", "fresh")
      /\ \/ /\ isUsernameAvailable(n)
            /\ names' = [names EXCEPT ![n] = profCalls[c].address] /\ Become(c, "reserved")
         \/ ~isUsernameAvailable(n) /\ Reply(c, FALSE) /\ UNCHANGED names
      /\ UNCHANGED <<profiles, total, recent, alias, rate, calm>>

\* mutant
ClaimNumberedLate(c) ==
  /\ At(c, "claim", "reserved")
  /\ total' = total + 1
  /\ profCalls' = [profCalls EXCEPT ![c].stage = "written",
        ![c].record = [username |-> profCalls[c].name, og |-> total <= OgLimit, recentChange |-> TRUE]]
  /\ UNCHANGED <<names, profiles, recent, alias, rate, calm>>

(* INCR of the total decides on the badge. *)
ClaimNumbered(c) ==
  /\ At(c, "claim", "reserved")
  /\ total' = total + 1
  /\ profCalls' = [profCalls EXCEPT ![c].stage = "written",
        ![c].record = [username |-> profCalls[c].name, og |-> total' <= OgLimit, recentChange |-> TRUE]]
  /\ UNCHANGED <<names, profiles, recent, alias, rate, calm>>

(* SET of the record a handler has prepared, for a claim or an update. *)
WriteProfile(c) ==
  /\ profCalls[c].stage = "written"
  /\ profiles' = [profiles EXCEPT ![profCalls[c].address] = profCalls[c].record]
  /\ IF profCalls[c].kind = "claim" THEN Become(c, "listed") ELSE Reply(c, TRUE)
  /\ UNCHANGED <<names, total, recent, alias, rate, calm>>

(* LPUSH and LTRIM of the recent list. *)
ListClaim(c) ==
  /\ At(c, "claim", "listed")
  /\ LET longer == <<profCalls[c].address>> \o recent
     IN  recent' = SubSeq(longer, 1, IF Len(longer) < RecentLimit THEN Len(longer) ELSE RecentLimit)
  /\ Reply(c, TRUE)
  /\ UNCHANGED <<names, profiles, total, alias, rate, calm>>

-----------------------------------------------------------------------------
(* PATCH: a new name, or only another text (n is the old name then).       *)
PatchProfile(c, a, n) ==
  /\ checkRateLimit(c, "update", UpdateLimit, a, n)
  /\ calm' = (calm /\ ~\E d \in ProfileCalls :
                        profCalls[d] # NoProfileCall /\ profCalls[d].kind = "update"
                        /\ profCalls[d].address = a)
  /\ UNCHANGED <<names, profiles, total, recent, alias>>

(* updateProfile works on the record it reads here, to the end; a name may *)
(* change once in 30 days.                                                 *)
UpdateReads(c) ==
  LET old == getProfileByAddress(profCalls[c].address)
      renames == old # NoProfile /\ profCalls[c].name # old.username
  IN  /\ At(c, "update", "limited")
      /\ \/ (old = NoProfile \/ (renames /\ old.recentChange)) /\ Reply(c, FALSE)
         \/ /\ old # NoProfile /\ ~(renames /\ old.recentChange)
            /\ profCalls' = [profCalls EXCEPT ![c].record = old,
                               ![c].stage = IF renames THEN "found" ELSE "written"]
      /\ UNCHANGED <<names, profiles, total, recent, alias, rate, calm>>

(* SETNX of the new name. *)
UpdateReserves(c) ==
  LET n == profCalls[c].name
  IN  /\ At(c, "update", "found")
      /\ \/ /\ isUsernameAvailable(n)
            /\ names' = [names EXCEPT ![n] = profCalls[c].address] /\ Become(c, "taken")
         \/ ~isUsernameAvailable(n) /\ Reply(c, FALSE) /\ UNCHANGED names
      /\ UNCHANGED <<profiles, total, recent, alias, rate, calm>>

\* mutant
UpdateFreesNewName(c) ==
  /\ At(c, "update", "taken")
  /\ names' = [names EXCEPT ![profCalls[c].name] = Nobody]
  /\ profCalls' = [profCalls EXCEPT ![c].stage = "written", ![c].record.username = profCalls[c].name,
                     ![c].record.recentChange = TRUE]
  /\ UNCHANGED <<profiles, total, recent, alias, rate, calm>>

(* DEL of the name the handler read, whoever holds it by now. *)
UpdateFrees(c) ==
  /\ At(c, "update", "taken")
  /\ names' = [names EXCEPT ![profCalls[c].record.username] = Nobody]
  /\ profCalls' = [profCalls EXCEPT ![c].stage = "written", ![c].record.username = profCalls[c].name,
                     ![c].record.recentChange = TRUE]
  /\ UNCHANGED <<profiles, total, recent, alias, rate, calm>>

-----------------------------------------------------------------------------
(* POST link: the two reads, and the alias from the address that has no    *)
(* profile to the one that has; neither or both: nothing is linked.        *)
LinkReads(c, eoa, smart) ==
  LET has(a) == getProfileByAddress(a) # NoProfile
  IN  /\ profCalls[c] = NoProfileCall
      /\ eoa # smart
      /\ has(eoa) # has(smart)
      /\ profCalls' = [profCalls EXCEPT ![c] =
            [stage |-> "seen", kind |-> "link", name |-> NoUsername, record |-> NoProfile, ok |-> FALSE,
             address |-> IF has(smart) THEN eoa ELSE smart, to |-> IF has(smart) THEN smart ELSE eoa]]
      /\ UNCHANGED <<names, profiles, total, recent, alias, rate, calm>>

linkProfileAlias(c) ==
  /\ At(c, "link", "seen")
  /\ alias' = [alias EXCEPT ![profCalls[c].address] = profCalls[c].to]
  /\ Reply(c, TRUE)
  /\ UNCHANGED <<names, profiles, total, recent, rate, calm>>

-----------------------------------------------------------------------------
(* The answer leaves. *)
ProfileAnswered(c) ==
  /\ profCalls[c].stage = "answered"
  /\ profCalls' = [profCalls EXCEPT ![c] = NoProfileCall]
  /\ UNCHANGED <<names, profiles, total, recent, alias, rate, calm>>

(* A Redis error or the end of the process. *)
ProfileCallDies(c) ==
  /\ profCalls[c] # NoProfileCall
  /\ calm' = (calm /\ (profCalls[c].kind = "update" =>
                         profCalls[c].stage \in {"limited", "found"}))
  /\ profCalls' = [profCalls EXCEPT ![c] = NoProfileCall]
  /\ UNCHANGED <<names, profiles, total, recent, alias, rate>>

(* The window of a rate limit ends. *)
RateWindowEnds(kind, a) ==
  /\ rate[kind][a] > 0
  /\ rate' = [rate EXCEPT ![kind][a] = 0]
  /\ UNCHANGED <<names, profiles, total, recent, alias, profCalls, calm>>

(* 30 days pass, longer than any request takes. *)
MonthPasses ==
  /\ \A c \in ProfileCalls : profCalls[c] = NoProfileCall
  /\ profiles' = [a \in Addresses |-> IF profiles[a] = NoProfile THEN NoProfile
                                      ELSE [profiles[a] EXCEPT !.recentChange = FALSE]]
  /\ UNCHANGED <<names, total, recent, alias, rate, profCalls, calm>>

ProfileOp ==
  \/ \E c \in ProfileCalls :
       \/ \E a \in Addresses, n \in Usernames : PostClaim(c, a, n) \/ PatchProfile(c, a, n)
       \/ ClaimReads(c) \/ ClaimReserves(c) \/ ClaimNumbered(c) \/ WriteProfile(c) \/ ListClaim(c)
       \/ UpdateReads(c) \/ UpdateReserves(c) \/ UpdateFrees(c)
       \/ \E a, b \in Addresses : LinkReads(c, a, b)
       \/ linkProfileAlias(c)
       \/ ProfileAnswered(c) \/ ProfileCallDies(c)
  \/ \E a \in Addresses, kind \in {"claim", "update"} : RateWindowEnds(kind, a)
  \/ MonthPasses

ProfileSpec == ProfileInit /\ [][ProfileOp]_profileVars

-----------------------------------------------------------------------------
(* Claims may race, die with a name reserved and be repeated; renames free *)
(* the name they read long ago.  As long as no update of a profile ran     *)
(* beside another one or died half-way, every name a profile shows is      *)
(* reserved for it, so no two profiles show the same name.                 *)
NameIsMine ==
  calm => \A a \in Addresses :
            /\ profiles[a] # NoProfile
            /\ ~\E c \in ProfileCalls : At(c, "update", "written") /\ profCalls[c].address = a
            => names[profiles[a].username] = a

(* At most the first OgLimit profiles ever carry the badge, although       *)
(* claims race and every update writes back a record it read before.       *)
OgIsScarce == Cardinality({a \in Addresses : profiles[a] # NoProfile /\ profiles[a].og}) <= OgLimit
=============================================================================
