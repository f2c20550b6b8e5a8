----------------------------- MODULE ClaimModal -----------------------------
(***************************************************************************)
(* The dialog in which a player claims a .chess name (ClaimModal.tsx and   *)
(* the hooks of useProfile.ts) over the store it talks to.  A submission   *)
(* asks the wallet for a signature, posts the claim and waits; meanwhile   *)
(* the player may type, close and reopen the dialog, and the answer may be *)
(* lost.  The submit button is disabled while a post is under way, not     *)
(* while the wallet asks.                                                  *)
(***************************************************************************)
EXTENDS ProfileStore

CONSTANTS
  Me,          \* the address the dialog claims for
  Submissions  \* overlapping submissions of one dialog

ASSUME ClaimModalAssumption == Me \in Addresses

VARIABLES
  modal,       \* the dialog's state
  submissions  \* what each submission is doing

modalVars == <<modal, submissions>>

NoName == "no name"
NoSubmission == [stage |-> "none"]

(* check is the cached answer of useCheckUsername for the typed name, last *)
(* the submission whose mutation started last.                             *)
Modal == [open: BOOLEAN, step: {"form", "success"}, username: Usernames \cup {NoName},
          check: {"unknown", "available", "taken"}, error: BOOLEAN,
          last: Submissions \cup {NoName}]

Submission == [stage: {"signing", "posting", "waiting"}, name: Usernames,
               call: ProfileCalls \cup {NoName}]

ModalTypeOK ==
  /\ modal \in Modal
  /\ submissions \in [Submissions -> Submission \cup {NoSubmission}]

ModalInit ==
  /\ modal = [open |-> FALSE, step |-> "form", username |-> NoName, check |-> "unknown",
              error |-> FALSE, last |-> NoName]
  /\ submissions = [s \in Submissions |-> NoSubmission]

isPending == modal.last # NoName /\ submissions[modal.last].stage \in {"posting", "waiting"}

canSubmit == modal.username # NoName /\ modal.check = "available" /\ ~isPending

(* What is on the screen: the form, with the hint that badges are left, the *)
(* verdict on the name and the buttons, or the success panel.              *)
ClaimPanel ==
  IF ~modal.open THEN [panel |-> "nothing"]
  ELSE IF modal.step = "success" THEN [panel |-> "success", name |-> modal.username]
  ELSE [panel |-> "form", ogHint |-> total < OgLimit, status |-> modal.check, error |-> modal.error,
        loading |-> isPending, submit |-> canSubmit]

-----------------------------------------------------------------------------
OpenModal ==
  /\ ~modal.open
  /\ modal' = [modal EXCEPT !.open = TRUE]
  /\ UNCHANGED <<submissions, profileVars>>

(* Closing resets the form; submissions go on. *)
CloseModal ==
  /\ modal.open
  /\ modal' = [modal EXCEPT !.open = FALSE, !.step = "form", !.username = NoName,
                            !.check = "unknown", !.error = FALSE]
  /\ UNCHANGED <<submissions, profileVars>>

TypeUsername(n) ==
  /\ ClaimPanel.panel = "form"
  /\ n # modal.username
  /\ modal' = [modal EXCEPT !.username = n, !.check = "unknown"]
  /\ UNCHANGED <<submissions, profileVars>>

(* useCheckUsername answers for the name in the field, and is asked again  *)
(* when its answer is stale.                                               *)
CheckUsername ==
  /\ modal.open /\ modal.username # NoName
  /\ modal' = [modal EXCEPT !.check = IF isUsernameAvailable(modal.username) THEN "available" ELSE "taken"]
  /\ UNCHANGED <<submissions, profileVars>>

handleClaim(s) ==
  /\ ClaimPanel.panel = "form" /\ ClaimPanel.submit
  /\ submissions[s] = NoSubmission
  /\ modal' = [modal EXCEPT !.error = FALSE]
  /\ submissions' = [submissions EXCEPT ![s] =
                       [stage |-> "signing", name |-> modal.username, call |-> NoName]]
  /\ UNCHANGED profileVars

(* The wallet signs, and the mutation starts. *)
ClaimSigned(s) ==
  /\ submissions[s].stage = "signing"
  /\ submissions' = [submissions EXCEPT ![s].stage = "posting"]
  /\ modal' = [modal EXCEPT !.last = s]
  /\ UNCHANGED profileVars

ClaimArrives(s, c) ==
  /\ submissions[s].stage = "posting"
  /\ PostClaim(c, Me, submissions[s].name)
  /\ submissions' = [submissions EXCEPT ![s].stage = "waiting", ![s].call = c]
  /\ UNCHANGED modal

\* mutant
ClaimSucceedsOnAnyAnswer(s) ==
  LET c == submissions[s].call
  IN  /\ submissions[s].stage = "waiting"
      /\ ProfileAnswered(c)
      /\ modal' = [modal EXCEPT !.step = "success"]
      /\ submissions' = [submissions EXCEPT ![s] = NoSubmission]

(* The answer comes: success is shown for whatever is in the field by now, *)
(* even if the dialog was closed in the meantime.                          *)
ClaimAnswer(s) ==
  LET c == submissions[s].call
  IN  /\ submissions[s].stage = "waiting"
      /\ ProfileAnswered(c)
      /\ modal' = IF profCalls[c].ok THEN [modal EXCEPT !.step = "success"]
                                     ELSE [modal EXCEPT !.error = TRUE]
      /\ submissions' = [submissions EXCEPT ![s] = NoSubmission]

(* The wallet refuses, the request or its answer is lost, or it is refused *)
(* before the first command; a handler that got it goes on.                *)
ClaimFails(s) ==
  /\ submissions[s] # NoSubmission
  /\ modal' = [modal EXCEPT !.error = TRUE]
  /\ submissions' = [submissions EXCEPT ![s] = NoSubmission]
  /\ UNCHANGED profileVars

(* The store works on; an answer somebody waits for is left to them, and   *)
(* one that dies ends in an error.                                         *)
StoreStep ==
  /\ ProfileOp
  /\ \A s \in Submissions : submissions[s].stage = "waiting" => profCalls'[submissions[s].call] # NoProfileCall
  /\ UNCHANGED modalVars

HandlerDies(s) ==
  /\ submissions[s].stage = "waiting"
  /\ ProfileCallDies(submissions[s].call)
  /\ modal' = [modal EXCEPT !.error = TRUE]
  /\ submissions' = [submissions EXCEPT ![s] = NoSubmission]

ClaimOp ==
  \/ OpenModal \/ CloseModal \/ CheckUsername
  \/ \E n \in Usernames \cup {NoName} : TypeUsername(n)
  \/ \E s \in Submissions :
       \/ handleClaim(s) \/ ClaimSigned(s) \/ ClaimAnswer(s) \/ ClaimFails(s) \/ HandlerDies(s)
       \/ \E c \in ProfileCalls : ClaimArrives(s, c)
  \/ StoreStep

ClaimInit == ProfileInit /\ ModalInit

ClaimSpec == ClaimInit /\ [][ClaimOp]_<<profileVars, modalVars>>

-----------------------------------------------------------------------------
(* "Identity claimed" is on the screen only if the address has a profile,  *)
(* although claims overlap, the dialog is closed and reopened under them,  *)
(* their answers get lost and other addresses race for the name.           *)
SuccessIsReal == ClaimPanel.panel = "success" => getProfileByAddress(Me) # NoProfile
=============================================================================
