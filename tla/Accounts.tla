-------------------------------- MODULE Accounts --------------------------------
(***************************************************************************)
(* Who belongs to which organisation: signing up with or without an        *)
(* invitation, inviting, and deactivating users.  A request checks e-mail, *)
(* invitation or slug, and commits later; users.email and orgs.slug are    *)
(* unique.                                                                 *)
(*                                                                         *)
(* A row created by the nth request of handler h has the id <<h, n>>.  The *)
(* row of an organisation stands for its default thesis as well, which is  *)
(* added with it; the tokens issued at sign-up are in module Sessions.     *)
(*                                                                         *)
(* The program reads API keys and has no operation that adds one: rows of  *)
(* api_keys come from outside.                                             *)
(***************************************************************************)
EXTENDS Naturals

CONSTANTS
    Mails,           \* e-mail addresses
    Bases,           \* slugs of the names asked for
    Roles,           \* the roles invitations are asked for
    Handlers,        \* HTTP requests that can be in progress together
    None,
    MaxRequests      \* bound on the requests of one handler

ASSUME AccountsAssumption ==
    /\ MaxRequests \in Nat
    /\ "service" \notin Roles

VARIABLES
    users, orgs, invites,    \* the tables
    accepted,                \* invitations with accepted_at
    expired,                 \* invitations older than seven days
    inactive,                \* users with is_active false
    keyed,                   \* organisations that were given an API key with scope org:admin
    made,                    \* handler -> number of requests begun
    req                      \* handler -> its request in progress

tables == <<users, orgs, invites, accepted, inactive, keyed>>
vars == <<tables, expired, made, req>>

--------------------------------------------------------------------------------
(* Types *)

Ids == Handlers \X (1..MaxRequests)
Suffixes == Nat \ {0}

User == [id : Ids, mail : Mails, org : Ids, role : Roles \cup {"owner"}]
Org == [id : Ids, slug : Bases \X Suffixes]
Invite == [id : Ids, mail : Mails, org : Ids, role : Roles]

\* What a request asks for and what it has read so far: a sign-up with the
\* invitation it presents or the slug it tries; the invitation to add; the user to
\* deactivate.
Signup == [pc : {"mail", "invite", "slug", "signup"}, mail : Mails,
           invite : Invite \cup {None}, slug : (Bases \X Suffixes) \cup {None}]
Inviting == [pc : {"inviting"}, mail : Mails, org : Ids, role : Roles]
Removal == [pc : {"removal"}, user : Ids]
Idle == [pc |-> "idle"]

ASSUME NoneAssumption == None \notin Invite \cup Ids

TypeOK ==
    /\ users \in SUBSET User
    /\ orgs \in SUBSET Org
    /\ invites \in SUBSET Invite
    /\ accepted \in SUBSET Ids /\ expired \in SUBSET Ids
    /\ inactive \in SUBSET Ids /\ keyed \in SUBSET Ids
    /\ made \in [Handlers -> 0..MaxRequests]
    /\ req \in [Handlers -> Signup \cup Inviting \cup Removal \cup {Idle}]

Init ==
    /\ users = {} /\ orgs = {} /\ invites = {}
    /\ accepted = {} /\ expired = {} /\ inactive = {} /\ keyed = {}
    /\ made = [h \in Handlers |-> 0]
    /\ req = [h \in Handlers |-> Idle]

--------------------------------------------------------------------------------
(* Requests *)

At(h, label) == req[h].pc = label
NewId(h) == <<h, made[h]>>
Known(mail) == \E u \in users : u.mail = mail

Begin(h, r) ==
    /\ At(h, "idle")
    /\ made[h] < MaxRequests
    /\ made' = [made EXCEPT ![h] = @ + 1]
    /\ req' = [req EXCEPT ![h] = r]
    /\ UNCHANGED <<tables, expired>>

Goto(h, r) ==
    /\ req' = [req EXCEPT ![h] = r]
    /\ UNCHANGED <<tables, expired, made>>

\* With the token of an invitation, or for an organisation of one's own.
BeginSignup(h) ==
    \E mail \in Mails :
        \/ \E i \in invites :
             Begin(h, [pc |-> "mail", mail |-> mail, invite |-> i, slug |-> None])
        \/ \E b \in Bases :
             Begin(h, [pc |-> "mail", mail |-> mail, invite |-> None, slug |-> <<b, 1>>])

ReadMail(h) ==
    /\ At(h, "mail")
    /\ Goto(h, IF Known(req[h].mail) THEN Idle
               ELSE [req[h] EXCEPT !.pc = IF req[h].invite = None THEN "slug" ELSE "invite"])

\* Mutant: whoever has the invitation may use it.
AnyBearer(h, i) == i.id \notin accepted \cup expired

Usable(h, i) == i.id \notin accepted \cup expired /\ i.mail = req[h].mail

ReadInvite(h) ==
    /\ At(h, "invite")
    /\ Goto(h, IF Usable(h, req[h].invite) THEN [req[h] EXCEPT !.pc = "signup"] ELSE Idle)

\* name, name-2, name-3, ...
ReadSlug(h) ==
    LET slug == req[h].slug IN
    /\ At(h, "slug")
    /\ Goto(h, IF \E o \in orgs : o.slug = slug
               THEN [req[h] EXCEPT !.slug = <<slug[1], slug[2] + 1>>]
               ELSE [req[h] EXCEPT !.pc = "signup"])

\* The e-mail address or the slug is in use by now.
Taken(h) == Known(req[h].mail) \/ \E o \in orgs : o.slug = req[h].slug

\* Mutant: the new organisation has no id yet when the user is added.
OrgUnflushed(h) == IF req[h].invite = None THEN None ELSE req[h].invite.org

OrgOf(h) == IF req[h].invite = None THEN NewId(h) ELSE req[h].invite.org

CommitSignup(h) ==
    LET i == req[h].invite
        id == NewId(h)
    IN
    /\ At(h, "signup")
    /\ \/ Taken(h) /\ UNCHANGED <<users, orgs, accepted>>
       \/ /\ ~Taken(h)
          /\ users' = users \cup
               {[id |-> id, mail |-> req[h].mail,
                 org |-> OrgOf(h),
                 role |-> IF i = None THEN "owner" ELSE i.role]}
          /\ orgs' = IF i # None THEN orgs ELSE orgs \cup {[id |-> id, slug |-> req[h].slug]}
          /\ accepted' = IF i = None THEN accepted ELSE accepted \cup {i.id}
    /\ req' = [req EXCEPT ![h] = Idle]
    /\ UNCHANGED <<invites, inactive, keyed, expired, made>>

\* An administrator makes a key for an organisation, outside the program.
GrantKey ==
    /\ \E o \in orgs : o.id \notin keyed /\ keyed' = keyed \cup {o.id}
    /\ UNCHANGED <<users, orgs, invites, accepted, inactive, expired, made, req>>

\* The principals with ORG_ADMIN: of the roles only owner has it, while active; a key
\* has it by its scopes, and no user.
Admins ==
    {[org |-> u.org, user |-> u.id] : u \in {v \in users : v.role = "owner" /\ v.id \notin inactive}}
    \cup [org : keyed, user : {None}]

\* create_invite refuses the others.
InviteRoles == Roles \ {"owner"}

BeginInvite(h) ==
    \E p \in Admins, mail \in Mails, role \in InviteRoles :
        /\ ~Known(mail)
        /\ Begin(h, [pc |-> "inviting", mail |-> mail, org |-> p.org, role |-> role])

CommitInvite(h) ==
    /\ At(h, "inviting")
    /\ invites' = invites \cup {[id |-> NewId(h), mail |-> req[h].mail,
                                 org |-> req[h].org, role |-> req[h].role]}
    /\ req' = [req EXCEPT ![h] = Idle]
    /\ UNCHANGED <<users, orgs, accepted, inactive, keyed, expired, made>>

\* Mutant: the principal is not told apart from the others.
Everyone(p) == {v \in users : v.org = p.org}

\* The users that p may deactivate: to a key, all of its organisation are others.
Others(p) == {v \in users : v.org = p.org /\ v.id # p.user}

BeginDeactivate(h) ==
    \E p \in Admins : \E v \in Others(p) : Begin(h, [pc |-> "removal", user |-> v.id])

CommitDeactivate(h) ==
    /\ At(h, "removal")
    /\ inactive' = inactive \cup {req[h].user}
    /\ req' = [req EXCEPT ![h] = Idle]
    /\ UNCHANGED <<users, orgs, invites, accepted, keyed, expired, made>>

Expire ==
    /\ \E i \in invites : i.id \notin expired /\ expired' = expired \cup {i.id}
    /\ UNCHANGED <<tables, made, req>>

Next ==
    \/ \E h \in Handlers :
         \/ BeginSignup(h) \/ ReadMail(h) \/ ReadInvite(h) \/ ReadSlug(h) \/ CommitSignup(h)
         \/ BeginInvite(h) \/ CommitInvite(h)
         \/ BeginDeactivate(h) \/ CommitDeactivate(h)
    \/ Expire
    \/ GrantKey

Spec == Init /\ [][Next]_vars

--------------------------------------------------------------------------------
(* Properties *)

(* Whatever invitations and removals overlap, an organisation has exactly one       *)
(* owner, app/routers/orgs.py:87 "Owners cannot deactivate themselves.", who stays   *)
(* active as long as no API key with scope org:admin was made for the organisation.  *)
(* Such a key has no user of its own that the check would spare.                     *)
OwnerStays ==
    \A o \in orgs : \E u \in users :
        /\ u.org = o.id /\ u.role = "owner"
        /\ o.id \notin keyed => u.id \notin inactive
        /\ \A v \in users : v.org = o.id /\ v.role = "owner" => u = v

(* Accepted invitations and invited members correspond: each accepted invitation   *)
(* has a member with its address and role, and each member who is not the owner    *)
(* has one.  Two invitations for one address are not both accepted, even when they *)
(* are used at once.                                                              *)
InvitesMatchMembers ==
    /\ \A i \in invites : i.id \in accepted =>
         \E u \in users : u.mail = i.mail /\ u.org = i.org /\ u.role = i.role
    /\ \A u \in users : u.role # "owner" =>
         \E i \in invites : i.id \in accepted /\ i.mail = u.mail /\ i.org = u.org
    /\ \A i, j \in invites : {i.id, j.id} \subseteq accepted /\ i.mail = j.mail => i = j

================================================================================
