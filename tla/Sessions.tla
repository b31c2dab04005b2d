-------------------------------- MODULE Sessions --------------------------------
(***************************************************************************)
(* The refresh tokens of one user.  Logging in starts a family of tokens;  *)
(* refreshing revokes the token presented and issues its child.  Logging   *)
(* out, changing or resetting the password and ending a session revoke     *)
(* tokens in bulk.  A request that reads a token or the user acts on what  *)
(* it read when it commits, whatever other requests commit in between.     *)
(*                                                                         *)
(* Tokens are numbered in the order they are committed.  A refused request *)
(* raises before its commit, so that nothing it assigned is kept.  Why a   *)
(* token was revoked is recorded but never looked at, and left out.        *)
(***************************************************************************)
EXTENDS Naturals, Sequences

CONSTANTS
    Handlers,        \* HTTP requests that can be in progress together
    None,
    MaxTokens,       \* bound on the refresh tokens issued
    MaxMails         \* bound on the password reset mails sent

ASSUME SessionsAssumption ==
    /\ MaxTokens \in Nat /\ MaxMails \in Nat
    /\ None \notin Nat

VARIABLES
    tokens,          \* refresh_tokens, in the order of their commits
    expired,         \* the tokens whose time is over
    active,          \* User.is_active
    mails,           \* email_tokens for resets: <<used or expired, ...>>
    reused,          \* families the audit log has as auth.refresh_reuse
    req,             \* handler -> its request in progress
    traffic          \* history: whether two requests were ever served together

vars == <<tokens, expired, active, mails, reused, req, traffic>>

--------------------------------------------------------------------------------
(* Types *)

Ids == 1..MaxTokens
Token == [family : Ids, parent : Ids \cup {None}, revoked : BOOLEAN]

Request == [pc : {"idle", "login", "user", "rotate", "logout", "reset"},
            token : Ids \cup {None}, mail : 1..MaxMails \cup {None}]
Idle == [pc |-> "idle", token |-> None, mail |-> None]

TypeOK ==
    /\ tokens \in Seq(Token) /\ Len(tokens) <= MaxTokens
    /\ expired \in SUBSET Ids
    /\ active \in BOOLEAN
    /\ mails \in Seq(BOOLEAN) /\ Len(mails) <= MaxMails
    /\ reused \in SUBSET Ids
    /\ req \in [Handlers -> Request]
    /\ traffic \in {"in_turn", "overlapping"}

Init ==
    /\ tokens = <<>> /\ expired = {} /\ active = TRUE
    /\ mails = <<>> /\ reused = {}
    /\ req = [h \in Handlers |-> Idle]
    /\ traffic = "in_turn"

Issued == DOMAIN tokens
Live(t) == ~tokens[t].revoked
At(h, label) == req[h].pc = label
Goto(h, r) == req' = [req EXCEPT ![h] = r]

\* A request of h arrives: it overlaps the ones that others are serving.
Arrive(h) ==
    /\ At(h, "idle")
    /\ traffic' = IF \E g \in Handlers : ~At(g, "idle") THEN "overlapping" ELSE traffic

--------------------------------------------------------------------------------
(* Revoking *)

\* UPDATE refresh_tokens, on the tokens in T.
Revoke(T) ==
    [t \in Issued |-> [tokens[t] EXCEPT !.revoked = @ \/ t \in T]]

Family(f) == {t \in Issued : tokens[t].family = f}

--------------------------------------------------------------------------------
(* login, and issue_tokens *)

\* The password is right and the account not disabled.
ReadLogin(h) ==
    /\ Arrive(h) /\ active
    /\ Len(tokens) < MaxTokens
    /\ Goto(h, [Idle EXCEPT !.pc = "login"])
    /\ UNCHANGED <<tokens, expired, active, mails, reused>>

\* Mutant: the first token of a family has the number 0 as its parent.
NewTokenZero(family, parent) ==
    [family |-> family, parent |-> IF parent = None THEN 0 ELSE parent, revoked |-> FALSE]

NewToken(family, parent) == [family |-> family, parent |-> parent, revoked |-> FALSE]

CommitLogin(h) ==
    /\ At(h, "login")
    /\ Len(tokens) < MaxTokens
    /\ tokens' = Append(tokens, NewToken(Len(tokens) + 1, None))
    /\ Goto(h, Idle)
    /\ UNCHANGED <<expired, active, mails, reused, traffic>>

--------------------------------------------------------------------------------
(* rotate_refresh_token *)

\* Mutant: only the token presented again is revoked.
ReuseOfOne(h, t) ==
    /\ Arrive(h) /\ ~Live(t)
    /\ tokens' = Revoke({t})
    /\ reused' = reused \cup {tokens[t].family}
    /\ UNCHANGED <<expired, active, mails, req>>

\* A revoked token is presented: its family is revoked and the reuse audited.
Reuse(h, t) ==
    /\ Arrive(h) /\ ~Live(t)
    /\ tokens' = Revoke(Family(tokens[t].family))
    /\ reused' = reused \cup {tokens[t].family}
    /\ UNCHANGED <<expired, active, mails, req>>

\* A live token is presented; an expired one is refused.
ReadToken(h, t) ==
    /\ Arrive(h) /\ Live(t) /\ t \notin expired
    /\ Goto(h, [Idle EXCEPT !.pc = "user", !.token = t])
    /\ UNCHANGED <<tokens, expired, active, mails, reused>>

ReadUser(h) ==
    /\ At(h, "user")
    /\ Goto(h, IF active THEN [req[h] EXCEPT !.pc = "rotate"] ELSE Idle)
    /\ UNCHANGED <<tokens, expired, active, mails, reused, traffic>>

\* Mutant: the child starts a family.
OwnFamily(t) == Len(tokens) + 1

\* revoked_at of the record is written, whatever it is now.
Rotated(t) == Revoke({t})
FamilyOf(t) == tokens[t].family

CommitRotate(h) ==
    LET t == req[h].token IN
    /\ At(h, "rotate")
    /\ Len(tokens) < MaxTokens
    /\ tokens' = Append(Rotated(t), NewToken(FamilyOf(t), t))
    /\ Goto(h, Idle)
    /\ UNCHANGED <<expired, active, mails, reused, traffic>>

--------------------------------------------------------------------------------
(* revoke_refresh, update_me, reset_password and delete_session *)

ReadLogout(h, t) ==
    /\ Arrive(h) /\ active
    /\ Goto(h, [Idle EXCEPT !.pc = "logout", !.token = t])
    /\ UNCHANGED <<tokens, expired, active, mails, reused>>

CommitLogout(h) ==
    /\ At(h, "logout")
    /\ tokens' = Revoke({req[h].token})
    /\ Goto(h, Idle)
    /\ UNCHANGED <<expired, active, mails, reused, traffic>>

\* logout with all_devices, and a new password in PATCH /me
RevokeAll(h) ==
    /\ Arrive(h) /\ active
    /\ tokens' = Revoke(Issued)
    /\ UNCHANGED <<expired, active, mails, reused, req>>

DeleteSession(h, f) ==
    /\ Arrive(h) /\ active
    /\ tokens' = Revoke(Family(f))
    /\ UNCHANGED <<expired, active, mails, reused, req>>

Forgot ==
    /\ Len(mails) < MaxMails
    /\ mails' = Append(mails, FALSE)
    /\ UNCHANGED <<tokens, expired, active, reused, req, traffic>>

\* consume_email_token finds the mail unused and not expired.
ReadReset(h, m) ==
    /\ Arrive(h) /\ ~mails[m]
    /\ Goto(h, [Idle EXCEPT !.pc = "reset", !.mail = m])
    /\ UNCHANGED <<tokens, expired, active, mails, reused>>

CommitReset(h) ==
    /\ At(h, "reset")
    /\ mails' = [mails EXCEPT ![req[h].mail] = TRUE]
    /\ tokens' = Revoke(Issued)
    /\ Goto(h, Idle)
    /\ UNCHANGED <<expired, active, reused, traffic>>

--------------------------------------------------------------------------------
(* deactivate_user, and time *)

Deactivate ==
    /\ active' = FALSE
    /\ UNCHANGED <<tokens, expired, mails, reused, req, traffic>>

Expire ==
    /\ \/ /\ expired' \in {expired \cup {t} : t \in Issued \ expired}
          /\ UNCHANGED mails
       \/ \E m \in DOMAIN mails :
            /\ ~mails[m]
            /\ mails' = [mails EXCEPT ![m] = TRUE]
            /\ UNCHANGED expired
    /\ UNCHANGED <<tokens, active, reused, req, traffic>>

Next ==
    \/ \E h \in Handlers :
         \/ ReadLogin(h) \/ CommitLogin(h) \/ ReadUser(h) \/ CommitRotate(h)
         \/ CommitLogout(h) \/ RevokeAll(h) \/ CommitReset(h)
         \/ \E t \in Issued : Reuse(h, t) \/ ReadToken(h, t) \/ ReadLogout(h, t)
                              \/ DeleteSession(h, tokens[t].family)
         \/ \E m \in DOMAIN mails : ReadReset(h, m)
    \/ Forgot \/ Deactivate \/ Expire

Spec == Init /\ [][Next]_vars

--------------------------------------------------------------------------------
(* Properties *)

(* The tokens of a family form a tree that grows at its leaves only: a token that *)
(* was exchanged is revoked for good, although overlapping refreshes, logouts and *)
(* resets write revoked_at from what they read earlier.                           *)
LiveAreLeaves ==
    \A t \in Issued : tokens[t].parent # None =>
        /\ tokens[t].parent < t
        /\ tokens[tokens[t].parent].family = tokens[t].family
        /\ ~Live(tokens[t].parent)

(* As long as requests are served in turn, a session has at most one live token,  *)
(* after any sequence of refreshes, logouts, resets and replays, and none once the *)
(* reuse of one of its tokens was audited.                                        *)
OneLivePerFamily ==
    traffic = "in_turn" => \A t, u \in Issued :
        Live(t) /\ Live(u) /\ tokens[t].family = tokens[u].family =>
            t = u /\ tokens[t].family \notin reused

================================================================================
