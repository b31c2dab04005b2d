----------------------------- MODULE AccountsProofs -----------------------------
(* Theorems about Accounts, for any addresses, names, roles and requests. *)
EXTENDS Accounts, TLAPS

--------------------------------------------------------------------------------
(* The invariant *)

Rows == users \cup orgs \cup invites

(* Ids are those of requests begun; the id of a request in progress is unused.    *)
(* They are unique in each table that is looked up by id.                         *)
IdsFresh ==
    /\ \A r \in Rows : r.id[2] <= made[r.id[1]]
    /\ \A h \in Handlers : req[h].pc # "idle" => /\ made[h] > 0
                                                 /\ \A r \in Rows : r.id # NewId(h)

IdsUnique ==
    /\ \A u, v \in users : u.id = v.id => u = v
    /\ \A i, j \in invites : i.id = j.id => i = j

(* What a request has read and nothing has changed since: the invitation exists,  *)
(* and when it was found usable it was for the address that signs up; the role    *)
(* asked for is not owner; the user to be removed exists and is not an owner, or   *)
(* else its organisation has a key.                                               *)
SignupReads(r) ==
    /\ r.invite = None \/ r.invite \in invites
    /\ r.invite = None => r.slug \in Bases \X Suffixes
    /\ r.pc = "invite" => r.invite # None
    /\ r.pc = "slug" => r.invite = None
    /\ r.pc = "signup" /\ r.invite # None => r.invite.mail = r.mail

RemovalReads(r) ==
    \E v \in users : v.id = r.user /\ (v.role # "owner" \/ v.org \in keyed)

RequestsRead ==
    \A h \in Handlers :
        /\ req[h] \in Signup => SignupReads(req[h])
        /\ req[h].pc = "inviting" => req[h].role # "owner"
        /\ req[h].pc = "removal" => RemovalReads(req[h])

(* The owner of an organisation is the one whose sign-up created it; only a key    *)
(* deactivates it.                                                                *)
Founded ==
    /\ \A u \in users : u.role = "owner" =>
         u.org = u.id /\ (u.id \in inactive => u.org \in keyed)
    /\ \A o \in orgs : \E u \in users : u.id = o.id /\ u.role = "owner"
    /\ \A x \in inactive : \E v \in users : v.id = x
    /\ \A i \in invites : i.role # "owner"

AcceptedExist == \A x \in accepted : \E i \in invites : i.id = x

Inv ==
    /\ TypeOK /\ IdsFresh /\ IdsUnique /\ RequestsRead /\ Founded
    /\ AcceptedExist /\ InvitesMatchMembers

--------------------------------------------------------------------------------
(* Types of rows and requests *)

AnyRequest == Signup \cup Inviting \cup Removal \cup {Idle}

LEMMA RowTypes ==
  ASSUME TypeOK
  PROVE  /\ \A u \in users : /\ u \in User /\ u.id \in Ids /\ u.mail \in Mails
                             /\ u.org \in Ids /\ u.role \in Roles \cup {"owner"}
         /\ \A o \in orgs : o \in Org /\ o.id \in Ids
         /\ \A i \in invites : /\ i \in Invite /\ i.id \in Ids /\ i.mail \in Mails
                               /\ i.org \in Ids /\ i.role \in Roles
         /\ \A r \in Rows : r.id \in Ids
  BY DEF TypeOK, User, Org, Invite, Rows

LEMMA IdTypes ==
  ASSUME NEW x \in Ids
  PROVE  x[1] \in Handlers /\ x[2] \in 1..MaxRequests /\ x = <<x[1], x[2]>>
  BY DEF Ids

(* The kind of a request is known by its pc. *)
LEMMA RequestKinds ==
  ASSUME NEW r \in AnyRequest
  PROVE  /\ r.pc \in {"mail", "invite", "slug", "signup"} => r \in Signup
         /\ r.pc = "inviting" => r \in Inviting
         /\ r.pc = "removal" => r \in Removal
         /\ r \in Signup => /\ r.pc \in {"mail", "invite", "slug", "signup"}
                            /\ r.mail \in Mails /\ r.invite \in Invite \cup {None}
         /\ r \in Inviting => /\ r.pc = "inviting" /\ r.mail \in Mails /\ r.org \in Ids
                              /\ r.role \in Roles
         /\ r \in Removal => r.pc = "removal" /\ r.user \in Ids
  BY DEF AnyRequest, Signup, Inviting, Removal, Idle

LEMMA IdleKind == Idle \in AnyRequest /\ Idle.pc = "idle" /\ Idle \notin Signup
  BY DEF AnyRequest, Signup, Idle

LEMMA NewIds ==
  ASSUME Inv, NEW h \in Handlers, req[h].pc # "idle"
  PROVE  /\ \A r \in Rows : r.id # NewId(h)
         /\ \A g \in Handlers : g # h => NewId(g) # NewId(h)
         /\ NewId(h)[1] = h /\ NewId(h)[2] = made[h]
  BY DEF Inv, IdsFresh, NewId

LEMMA InvInit == Init => Inv
  <1> SUFFICES ASSUME Init PROVE Inv
    OBVIOUS
  <1>1. TypeOK
    BY AccountsAssumption DEF Init, TypeOK
  <1>2. Rows = {} /\ users = {} /\ orgs = {} /\ invites = {} /\ inactive = {} /\ accepted = {}
    BY DEF Init, Rows
  <1>3. \A h \in Handlers : req[h] = Idle
    BY DEF Init
  <1>4. IdsFresh /\ IdsUnique
    BY <1>2, <1>3, IdleKind DEF IdsFresh, IdsUnique
  <1>5. RequestsRead
    BY <1>3, IdleKind DEF RequestsRead
  <1>6. Founded /\ AcceptedExist /\ InvitesMatchMembers
    BY <1>2 DEF Founded, AcceptedExist, InvitesMatchMembers
  <1> QED
    BY <1>1, <1>4, <1>5, <1>6 DEF Inv

--------------------------------------------------------------------------------
(* Steps that keep the tables *)

LEMMA InvRequest ==
  ASSUME Inv, NEW h \in Handlers, NEW r \in AnyRequest, req' = [req EXCEPT ![h] = r],
         UNCHANGED <<tables, expired>>,
         r \in Signup => SignupReads(r),
         r.pc = "inviting" => r.role # "owner",
         r.pc = "removal" => RemovalReads(r),
         \/ made' = made /\ (r.pc = "idle" \/ req[h].pc # "idle")
         \/ made' = [made EXCEPT ![h] = made[h] + 1] /\ made[h] < MaxRequests
            /\ req[h].pc = "idle"
  PROVE  Inv'
  <1>1. UNCHANGED <<users, orgs, invites, accepted, inactive, keyed, expired>>
    BY DEF tables
  <1>2. /\ req' \in [Handlers -> AnyRequest] /\ req'[h] = r
        /\ \A g \in Handlers : g # h => req'[g] = req[g]
    BY DEF Inv, TypeOK, AnyRequest
  <1>3. /\ made \in [Handlers -> 0..MaxRequests] /\ made' \in [Handlers -> 0..MaxRequests]
        /\ \A g \in Handlers : g # h => made'[g] = made[g]
        /\ \A g \in Handlers : made[g] <= made'[g]
        /\ req[h].pc = "idle" /\ r.pc # "idle" => made[h] < made'[h]
    BY AccountsAssumption DEF Inv, TypeOK
  <1>4. TypeOK'
    BY <1>1, <1>2, <1>3 DEF Inv, TypeOK, AnyRequest
  <1>5. IdsFresh'
    <2>1. Rows' = Rows
      BY <1>1 DEF Rows
    <2>2. \A x \in Rows : x.id[1] \in Handlers /\ x.id[2] \in 1..MaxRequests /\ x.id[2] <= made[x.id[1]]
      BY RowTypes, IdTypes DEF Inv, IdsFresh
    <2>3. ASSUME NEW x \in Rows
          PROVE  x.id[2] <= made'[x.id[1]]
      BY <1>3, <2>2
    <2>4. ASSUME NEW g \in Handlers, req'[g].pc # "idle", NEW x \in Rows
          PROVE  x.id # <<g, made'[g]>>
      <3>1. CASE g # h
        BY <1>2, <1>3, <2>4, <3>1 DEF Inv, IdsFresh, NewId
      <3>2. CASE g = h /\ req[h].pc # "idle"
        <4>1. made' = made
          BY <3>2
        <4> QED
          BY <3>2, <4>1 DEF Inv, IdsFresh, NewId
      <3>3. CASE g = h /\ req[h].pc = "idle"
        <4>1. made[h] < made'[h]
          BY <1>2, <1>3, <2>4, <3>3
        <4>2. SUFFICES ASSUME x.id = <<h, made'[h]>> PROVE FALSE
          BY <3>3
        <4>3. x.id[1] = h /\ x.id[2] = made'[h]
          BY <4>2
        <4> QED
          BY <1>3, <2>2, <4>1, <4>3
      <3> QED
        BY <3>1, <3>2, <3>3
    <2>5. ASSUME NEW g \in Handlers, req'[g].pc # "idle"
          PROVE  made'[g] > 0
      BY <1>2, <1>3, <2>5 DEF Inv, IdsFresh
    <2> QED
      BY <2>1, <2>3, <2>4, <2>5 DEF IdsFresh, NewId
  <1>6. IdsUnique' /\ AcceptedExist' /\ InvitesMatchMembers' /\ Founded'
    BY <1>1 DEF Inv, IdsUnique, AcceptedExist, InvitesMatchMembers, Founded
  <1>7. RequestsRead'
    BY <1>1, <1>2 DEF Inv, RequestsRead, SignupReads, RemovalReads
  <1> QED
    BY <1>4, <1>5, <1>6, <1>7 DEF Inv

--------------------------------------------------------------------------------
(* Rows that are added *)

(* The request of h ends with one row of its id added to each of some tables. *)
LEMMA AddedRows ==
  ASSUME Inv, NEW h \in Handlers, req[h].pc # "idle", req' = [req EXCEPT ![h] = Idle],
         made' = made,
         users \subseteq users', invites \subseteq invites', orgs \subseteq orgs',
         \A x \in Rows' : x \in Rows \/ x.id = NewId(h)
  PROVE  /\ IdsFresh' /\ NewId(h) \in Ids
         /\ req' \in [Handlers -> AnyRequest] /\ req'[h] = Idle
         /\ \A g \in Handlers : g # h => req'[g] = req[g]
  <1>1. /\ req' \in [Handlers -> AnyRequest] /\ req'[h] = Idle
        /\ \A g \in Handlers : g # h => req'[g] = req[g]
    BY IdleKind DEF Inv, TypeOK, AnyRequest
  <1>2. made \in [Handlers -> 0..MaxRequests]
    BY DEF Inv, TypeOK
  <1>3. NewId(h)[1] = h /\ NewId(h)[2] = made[h] /\ \A g \in Handlers : g # h => NewId(g) # NewId(h)
    BY NewIds
  <1>4. \A x \in Rows' : x.id[2] <= made[x.id[1]]
    BY <1>2, <1>3 DEF Inv, IdsFresh
  <1>5. ASSUME NEW g \in Handlers, req'[g].pc # "idle", NEW x \in Rows'
        PROVE  x.id # NewId(g)
    BY <1>1, <1>3, <1>5, IdleKind DEF Inv, IdsFresh
  <1>6. \A g \in Handlers : req'[g].pc # "idle" => made[g] > 0
    BY <1>1, IdleKind DEF Inv, IdsFresh
  <1>7. IdsFresh'
    BY <1>4, <1>5, <1>6 DEF IdsFresh, NewId
  <1>8. NewId(h) \in Ids
    BY <1>2 DEF NewId, Ids, Inv, IdsFresh
  <1> QED
    BY <1>1, <1>7, <1>8

(* The user that signs up, and the organisation or the acceptance that come with it *)
LEMMA InvSignup ==
  ASSUME Inv, NEW h \in Handlers, CommitSignup(h)
  PROVE  Inv'
  <1> DEFINE q == req[h]
             i == q.invite
             id == NewId(h)
             u == [id |-> id, mail |-> q.mail, org |-> OrgOf(h),
                   role |-> IF i = None THEN "owner" ELSE i.role]
  <1>1. /\ q.pc = "signup" /\ req' = [req EXCEPT ![h] = Idle]
        /\ UNCHANGED <<invites, inactive, keyed, expired, made>>
    BY DEF CommitSignup, At
  <1>2. TypeOK /\ q \in Signup /\ SignupReads(q)
    <2>1. q \in AnyRequest
      BY DEF Inv, TypeOK, AnyRequest
    <2> QED
      BY <1>1, <2>1, RequestKinds DEF Inv, RequestsRead
  <1>3. /\ i \in Invite \cup {None} /\ q.mail \in Mails
        /\ i # None => i \in invites /\ i.mail = q.mail
        /\ i = None => q.slug \in Bases \X Suffixes
    BY <1>1, <1>2 DEF Signup, SignupReads
  <1>4. CASE Taken(h)
    <2>1. UNCHANGED <<tables, expired>> /\ made' = made
      BY <1>1, <1>4 DEF CommitSignup, tables
    <2> QED
      BY <1>1, <2>1, IdleKind, InvRequest
  <1>5. CASE ~Taken(h)
    <2>1. /\ users' = users \cup {u}
          /\ orgs' = IF i # None THEN orgs ELSE orgs \cup {[id |-> id, slug |-> q.slug]}
          /\ accepted' = IF i = None THEN accepted ELSE accepted \cup {i.id}
      BY <1>5 DEF CommitSignup
    <2>2. /\ u.id = id /\ u.mail = q.mail /\ u.role = IF i = None THEN "owner" ELSE i.role
          /\ u.org = IF i = None THEN id ELSE i.org
      BY DEF OrgOf
    <2>3. \A v \in users : v.mail # q.mail
      BY <1>5 DEF Taken, Known
    <2> HIDE DEF q, id, u
    <2>4. \A x \in Rows' : x \in Rows \/ x.id = id
      BY <1>1, <2>1, <2>2 DEF Rows
    <2>5. /\ IdsFresh' /\ id \in Ids
          /\ req' \in [Handlers -> AnyRequest] /\ req'[h] = Idle
          /\ \A g \in Handlers : g # h => req'[g] = req[g]
      <3>1. req[h].pc # "idle" /\ users \subseteq users' /\ invites \subseteq invites' /\ orgs \subseteq orgs'
        BY <1>1, <2>1 DEF q
      <3> QED
        BY <1>1, <2>4, <3>1, AddedRows DEF id
    <2>6. \A x \in Rows : x.id # id
      BY <1>1, NewIds DEF id, q
    <2>7. /\ \A v \in users : v.id # id
          /\ \A j \in invites : j.id # id /\ j.id \in Ids /\ j.org \in Ids /\ j.role \in Roles
      BY <1>2, <2>6, RowTypes DEF Rows
    <2>8. TypeOK'
      <3>1. u \in User
        BY <1>3, <2>5, <2>7 DEF u, User, OrgOf, id, q
      <3>2. i = None => [id |-> id, slug |-> q.slug] \in Org
        BY <1>3, <2>5 DEF Org
      <3>3. accepted' \in SUBSET Ids
        BY <1>2, <1>3, <2>1, <2>7 DEF TypeOK
      <3> QED
        BY <1>1, <1>2, <2>1, <2>5, <3>1, <3>2, <3>3 DEF TypeOK, AnyRequest
    <2>9. IdsUnique'
      BY <1>1, <2>1, <2>2, <2>7 DEF Inv, IdsUnique
    <2>10. RequestsRead'
      <3>1. users \subseteq users' /\ invites' = invites /\ keyed' = keyed
        BY <1>1, <2>1
      <3>2. ASSUME NEW g \in Handlers, g # h
            PROVE  /\ req[g] \in Signup => SignupReads(req[g])'
                   /\ req[g].pc = "inviting" => req[g].role # "owner"
                   /\ req[g].pc = "removal" => RemovalReads(req[g])'
        BY <2>5, <3>1, <3>2 DEF Inv, RequestsRead, SignupReads, RemovalReads
      <3> QED
        BY <2>5, <3>2, IdleKind DEF RequestsRead
    <2>11. Founded'
      <3>1. \A v \in users' : v.role = "owner" =>
              v.org = v.id /\ (v.id \in inactive => v.org \in keyed)
        <4>1. u.role = "owner" => u.org = u.id
          BY <1>3, <2>2 DEF Inv, Founded
        <4>2. id \notin inactive
          BY <2>7 DEF Inv, Founded
        <4> QED
          BY <2>1, <2>2, <4>1, <4>2 DEF Inv, Founded
      <3>2. \A o \in orgs' : \E v \in users' : v.id = o.id /\ v.role = "owner"
        BY <2>1, <2>2 DEF Inv, Founded
      <3> QED
        BY <1>1, <2>1, <3>1, <3>2 DEF Inv, Founded
    <2>12. AcceptedExist'
      BY <1>1, <1>3, <2>1 DEF Inv, AcceptedExist
    <2>13. InvitesMatchMembers'
      <3>1. \A j \in invites : j.mail = q.mail => j.id \notin accepted
        BY <2>3 DEF Inv, InvitesMatchMembers
      <3>2. ASSUME NEW j \in invites, j.id \in accepted'
            PROVE  j.id \in accepted \/ (i # None /\ j = i)
        BY <1>3, <2>1, <3>2 DEF Inv, IdsUnique
      <3>3. \A j \in invites : j.id \in accepted' =>
              \E v \in users' : v.mail = j.mail /\ v.org = j.org /\ v.role = j.role
        <4> SUFFICES ASSUME NEW j \in invites, j.id \in accepted'
                     PROVE  \E v \in users' : v.mail = j.mail /\ v.org = j.org /\ v.role = j.role
          OBVIOUS
        <4>1. CASE j.id \in accepted
          BY <2>1, <4>1 DEF Inv, InvitesMatchMembers
        <4>2. CASE i # None /\ j = i
          BY <1>3, <2>1, <2>2, <4>2
        <4> QED
          BY <3>2, <4>1, <4>2
      <3>4. \A v \in users' : v.role # "owner" =>
              \E j \in invites : j.id \in accepted' /\ j.mail = v.mail /\ j.org = v.org
        <4> SUFFICES ASSUME NEW v \in users', v.role # "owner"
                     PROVE  \E j \in invites : j.id \in accepted' /\ j.mail = v.mail /\ j.org = v.org
          OBVIOUS
        <4>1. CASE v \in users
          <5>1. accepted \subseteq accepted'
            BY <2>1
          <5> QED
            BY <4>1, <5>1 DEF Inv, InvitesMatchMembers
        <4>2. CASE v = u
          BY <1>3, <2>1, <2>2, <4>2
        <4> QED
          BY <2>1, <4>1, <4>2
      <3>5. \A j, k \in invites : {j.id, k.id} \subseteq accepted' /\ j.mail = k.mail => j = k
        <4> SUFFICES ASSUME NEW j \in invites, NEW k \in invites, j.id \in accepted',
                            k.id \in accepted', j.mail = k.mail
                     PROVE  j = k
          OBVIOUS
        <4>1. CASE j.id \in accepted /\ k.id \in accepted
          BY <4>1 DEF Inv, InvitesMatchMembers
        <4>2. CASE ~(j.id \in accepted /\ k.id \in accepted)
          BY <1>3, <3>1, <3>2, <4>2
        <4> QED
          BY <4>1, <4>2
      <3> QED
        BY <1>1, <3>3, <3>4, <3>5 DEF InvitesMatchMembers
    <2> QED
      BY <2>5, <2>8, <2>9, <2>10, <2>11, <2>12, <2>13 DEF Inv
  <1> QED
    BY <1>4, <1>5

LEMMA InvInvite ==
  ASSUME Inv, NEW h \in Handlers, CommitInvite(h)
  PROVE  Inv'
  <1> DEFINE q == req[h]
             id == NewId(h)
             i == [id |-> id, mail |-> q.mail, org |-> q.org, role |-> q.role]
  <1>1. /\ q.pc = "inviting" /\ req' = [req EXCEPT ![h] = Idle]
        /\ invites' = invites \cup {i}
        /\ UNCHANGED <<users, orgs, accepted, inactive, keyed, expired, made>>
    BY DEF CommitInvite, At
  <1>2. TypeOK /\ q \in Inviting /\ q.role # "owner"
    <2>1. q \in AnyRequest
      BY DEF Inv, TypeOK, AnyRequest
    <2> QED
      BY <1>1, <2>1, RequestKinds DEF Inv, RequestsRead
  <1>3. q.mail \in Mails /\ q.org \in Ids /\ q.role \in Roles /\ i.id = id /\ i.role = q.role
    BY <1>2 DEF Inviting
  <1> HIDE DEF q, id, i
  <1>4. \A x \in Rows' : x \in Rows \/ x.id = id
    BY <1>1, <1>3 DEF Rows
  <1>5. /\ IdsFresh' /\ id \in Ids
        /\ req' \in [Handlers -> AnyRequest] /\ req'[h] = Idle
        /\ \A g \in Handlers : g # h => req'[g] = req[g]
    <2>1. req[h].pc # "idle" /\ users \subseteq users' /\ invites \subseteq invites' /\ orgs \subseteq orgs'
      BY <1>1 DEF q
    <2> QED
      BY <1>1, <1>4, <2>1, AddedRows DEF id
  <1>6. \A j \in invites : j.id # id
    BY <1>1, NewIds DEF id, q, Rows
  <1>7. id \notin accepted
    BY <1>6 DEF Inv, AcceptedExist
  <1>8. TypeOK'
    <2>1. i \in Invite
      BY <1>3, <1>5 DEF i, Invite
    <2> QED
      BY <1>1, <1>2, <1>5, <2>1 DEF TypeOK, AnyRequest
  <1>9. IdsUnique'
    BY <1>1, <1>3, <1>6 DEF Inv, IdsUnique
  <1>10. RequestsRead'
    <2>1. ASSUME NEW g \in Handlers, g # h
          PROVE  /\ req[g] \in Signup => SignupReads(req[g])'
                 /\ req[g].pc = "inviting" => req[g].role # "owner"
                 /\ req[g].pc = "removal" => RemovalReads(req[g])'
      BY <1>1, <1>5, <2>1 DEF Inv, RequestsRead, SignupReads, RemovalReads
    <2> QED
      BY <1>5, <2>1, IdleKind DEF RequestsRead
  <1>11. Founded'
    BY <1>1, <1>2, <1>3 DEF Inv, Founded
  <1>12. AcceptedExist'
    BY <1>1 DEF Inv, AcceptedExist
  <1>13. InvitesMatchMembers'
    BY <1>1, <1>3, <1>7 DEF Inv, InvitesMatchMembers
  <1> QED
    BY <1>5, <1>8, <1>9, <1>10, <1>11, <1>12, <1>13 DEF Inv

LEMMA InvDeactivate ==
  ASSUME Inv, NEW h \in Handlers, CommitDeactivate(h)
  PROVE  Inv'
  <1> DEFINE q == req[h]
  <1>1. /\ q.pc = "removal" /\ req' = [req EXCEPT ![h] = Idle]
        /\ inactive' = inactive \cup {q.user}
        /\ UNCHANGED <<users, orgs, invites, accepted, keyed, expired, made>>
    BY DEF CommitDeactivate, At
  <1>2. TypeOK /\ q \in Removal /\ RemovalReads(q)
    <2>1. q \in AnyRequest
      BY DEF Inv, TypeOK, AnyRequest
    <2> QED
      BY <1>1, <2>1, RequestKinds DEF Inv, RequestsRead
  <1>3. q.user \in Ids
    BY <1>2 DEF Removal
  <1>4. \A x \in Rows' : x \in Rows
    BY <1>1 DEF Rows
  <1>5. /\ IdsFresh'
        /\ req' \in [Handlers -> AnyRequest] /\ req'[h] = Idle
        /\ \A g \in Handlers : g # h => req'[g] = req[g]
    <2>1. req[h].pc # "idle" /\ users \subseteq users' /\ invites \subseteq invites' /\ orgs \subseteq orgs'
      BY <1>1
    <2> QED
      BY <1>1, <1>4, <2>1, AddedRows
  <1> HIDE DEF q
  <1>6. TypeOK'
    BY <1>1, <1>2, <1>3, <1>5 DEF TypeOK, AnyRequest
  <1>7. RequestsRead'
    <2>1. ASSUME NEW g \in Handlers, g # h
          PROVE  /\ req[g] \in Signup => SignupReads(req[g])'
                 /\ req[g].pc = "inviting" => req[g].role # "owner"
                 /\ req[g].pc = "removal" => RemovalReads(req[g])'
      BY <1>1, <2>1 DEF Inv, RequestsRead, SignupReads, RemovalReads
    <2> QED
      BY <1>5, <2>1, IdleKind DEF RequestsRead
  <1>8. Founded'
    <2>1. PICK v \in users : v.id = q.user /\ (v.role # "owner" \/ v.org \in keyed)
      BY <1>2 DEF RemovalReads
    <2>2. \A u \in users : u.role = "owner" /\ u.id = q.user => u.org \in keyed
      BY <2>1 DEF Inv, IdsUnique
    <2> QED
      BY <1>1, <2>1, <2>2 DEF Inv, Founded
  <1>9. IdsUnique' /\ AcceptedExist' /\ InvitesMatchMembers'
    BY <1>1 DEF Inv, IdsUnique, AcceptedExist, InvitesMatchMembers
  <1> QED
    BY <1>5, <1>6, <1>7, <1>8, <1>9 DEF Inv

--------------------------------------------------------------------------------
(* The reads *)

LEMMA BeginKeeps ==
  ASSUME Inv, NEW h \in Handlers, NEW r \in AnyRequest, Begin(h, r),
         r \in Signup => SignupReads(r),
         r.pc = "inviting" => r.role # "owner",
         r.pc = "removal" => RemovalReads(r)
  PROVE  Inv'
  BY InvRequest DEF Begin, At

LEMMA GotoKeeps ==
  ASSUME Inv, NEW h \in Handlers, NEW r, Goto(h, r), req[h].pc # "idle",
         \/ r = Idle
         \/ r \in Signup /\ SignupReads(r)
  PROVE  Inv'
  <1>1. r \in AnyRequest /\ r.pc # "inviting" /\ r.pc # "removal" /\ (r \in Signup => SignupReads(r))
    BY IdleKind DEF AnyRequest, Signup
  <1> QED
    BY <1>1, InvRequest DEF Goto

LEMMA InvBeginSignup ==
  ASSUME Inv, NEW h \in Handlers, BeginSignup(h)
  PROVE  Inv'
  <1>1. PICK mail \in Mails :
          \/ \E i \in invites :
               Begin(h, [pc |-> "mail", mail |-> mail, invite |-> i, slug |-> None])
          \/ \E b \in Bases :
               Begin(h, [pc |-> "mail", mail |-> mail, invite |-> None, slug |-> <<b, 1>>])
    BY DEF BeginSignup
  <1>2. ASSUME NEW i \in invites,
               Begin(h, [pc |-> "mail", mail |-> mail, invite |-> i, slug |-> None])
        PROVE  Inv'
    <2> DEFINE r == [pc |-> "mail", mail |-> mail, invite |-> i, slug |-> None]
    <2>1. i \in Invite
      BY RowTypes DEF Inv
    <2>2. r \in Signup /\ r.pc = "mail" /\ r.invite = i
      BY <2>1 DEF Signup
    <2>3. r.invite # None
      BY <2>1, <2>2, NoneAssumption
    <2>4. Begin(h, r)
      BY <1>2
    <2> HIDE DEF r
    <2>5. SignupReads(r)
      BY <2>2, <2>3 DEF SignupReads
    <2> QED
      BY <2>2, <2>4, <2>5, BeginKeeps DEF AnyRequest
  <1>3. ASSUME NEW b \in Bases,
               Begin(h, [pc |-> "mail", mail |-> mail, invite |-> None, slug |-> <<b, 1>>])
        PROVE  Inv'
    <2> DEFINE r == [pc |-> "mail", mail |-> mail, invite |-> None, slug |-> <<b, 1>>]
    <2>1. <<b, 1>> \in Bases \X Suffixes
      BY DEF Suffixes
    <2>2. r \in Signup /\ r.pc = "mail" /\ r.invite = None /\ r.slug = <<b, 1>>
      BY <2>1 DEF Signup
    <2>3. Begin(h, r)
      BY <1>3
    <2> HIDE DEF r
    <2>4. SignupReads(r)
      BY <2>1, <2>2 DEF SignupReads
    <2> QED
      BY <2>2, <2>3, <2>4, BeginKeeps DEF AnyRequest
  <1> QED
    BY <1>1, <1>2, <1>3

LEMMA SignupAt ==
  ASSUME Inv, NEW h \in Handlers, req[h].pc \in {"mail", "invite", "slug", "signup"}
  PROVE  req[h] \in Signup /\ SignupReads(req[h])
  <1>1. req[h] \in AnyRequest
    BY DEF Inv, TypeOK, AnyRequest
  <1> QED
    BY <1>1, RequestKinds DEF Inv, RequestsRead

LEMMA InvReadMail ==
  ASSUME Inv, NEW h \in Handlers, ReadMail(h)
  PROVE  Inv'
  <1> DEFINE q == req[h]
             r == [q EXCEPT !.pc = IF q.invite = None THEN "slug" ELSE "invite"]
  <1>1. q.pc = "mail" /\ q \in Signup /\ SignupReads(q)
    BY SignupAt DEF ReadMail, At
  <1>2. Goto(h, Idle) \/ Goto(h, r)
    BY DEF ReadMail
  <1>3. /\ r \in Signup /\ r.invite = q.invite /\ r.slug = q.slug
        /\ r.pc = IF q.invite = None THEN "slug" ELSE "invite"
    BY <1>1 DEF Signup
  <1> HIDE DEF q, r
  <1>4. SignupReads(r)
    BY <1>1, <1>3 DEF SignupReads
  <1> QED
    BY <1>1, <1>2, <1>3, <1>4, GotoKeeps DEF q

LEMMA InvReadInvite ==
  ASSUME Inv, NEW h \in Handlers, ReadInvite(h)
  PROVE  Inv'
  <1> DEFINE q == req[h]
             r == [q EXCEPT !.pc = "signup"]
  <1>1. q.pc = "invite" /\ q \in Signup /\ SignupReads(q)
    BY SignupAt DEF ReadInvite, At
  <1>2. Goto(h, Idle) \/ (Goto(h, r) /\ q.invite.mail = q.mail)
    BY DEF ReadInvite, Usable
  <1>3. /\ r \in Signup /\ r.invite = q.invite /\ r.slug = q.slug /\ r.mail = q.mail
        /\ r.pc = "signup"
    BY <1>1 DEF Signup
  <1> HIDE DEF q, r
  <1>4. q.invite.mail = q.mail => SignupReads(r)
    BY <1>1, <1>3 DEF SignupReads
  <1> QED
    BY <1>1, <1>2, <1>3, <1>4, GotoKeeps DEF q

LEMMA InvReadSlug ==
  ASSUME Inv, NEW h \in Handlers, ReadSlug(h)
  PROVE  Inv'
  <1> DEFINE q == req[h]
             next == <<q.slug[1], q.slug[2] + 1>>
             r == [q EXCEPT !.slug = next]
             t == [q EXCEPT !.pc = "signup"]
  <1>1. q.pc = "slug" /\ q \in Signup /\ SignupReads(q)
    BY SignupAt DEF ReadSlug, At
  <1>2. Goto(h, r) \/ Goto(h, t)
    BY DEF ReadSlug
  <1>3. q.invite = None /\ q.slug \in Bases \X Suffixes /\ next \in Bases \X Suffixes
    BY <1>1 DEF SignupReads, Suffixes
  <1> HIDE DEF next
  <1>4. r \in Signup /\ r.invite = None /\ r.slug = next /\ r.pc = "slug"
    BY <1>1, <1>3 DEF Signup
  <1>5. t \in Signup /\ t.invite = None /\ t.slug = q.slug /\ t.pc = "signup"
    BY <1>1, <1>3 DEF Signup
  <1> HIDE DEF q, r, t
  <1>6. SignupReads(r) /\ SignupReads(t)
    BY <1>3, <1>4, <1>5 DEF SignupReads
  <1> QED
    BY <1>1, <1>2, <1>4, <1>5, <1>6, GotoKeeps DEF q

(* Who has ORG_ADMIN: the owner of an organisation, or a key of it. *)
LEMMA AdminTypes ==
  ASSUME Inv, NEW p \in Admins
  PROVE  /\ p.org \in Ids
         /\ \/ \E u \in users : u.role = "owner" /\ p.org = u.org /\ p.user = u.id
            \/ p.org \in keyed
  <1>1. CASE \E u \in users : u.role = "owner" /\ p = [org |-> u.org, user |-> u.id]
    BY <1>1, RowTypes DEF Inv
  <1>2. CASE p \in [org : keyed, user : {None}]
    BY <1>2 DEF Inv, TypeOK
  <1> QED
    BY <1>1, <1>2 DEF Admins

LEMMA InvBeginInvite ==
  ASSUME Inv, NEW h \in Handlers, BeginInvite(h)
  PROVE  Inv'
  <1>1. PICK p \in Admins, mail \in Mails, role \in InviteRoles :
          Begin(h, [pc |-> "inviting", mail |-> mail, org |-> p.org, role |-> role])
    BY DEF BeginInvite
  <1> DEFINE r == [pc |-> "inviting", mail |-> mail, org |-> p.org, role |-> role]
  <1>2. p.org \in Ids
    BY AdminTypes
  <1>3. r \in Inviting /\ r.pc = "inviting" /\ r.role # "owner"
    BY <1>2 DEF Inviting, InviteRoles
  <1>4. Begin(h, r)
    BY <1>1
  <1> HIDE DEF r
  <1>5. r \in AnyRequest /\ r \notin Signup
    BY <1>3 DEF AnyRequest, Signup
  <1> QED
    BY <1>3, <1>4, <1>5, BeginKeeps

(* Whom an owner may deactivate is no owner: those of its organisation are itself. *)
LEMMA InvBeginDeactivate ==
  ASSUME Inv, NEW h \in Handlers, BeginDeactivate(h)
  PROVE  Inv'
  <1>1. PICK p \in Admins : \E v \in Others(p) : Begin(h, [pc |-> "removal", user |-> v.id])
    BY DEF BeginDeactivate
  <1>2. PICK v \in Others(p) : Begin(h, [pc |-> "removal", user |-> v.id])
    BY <1>1
  <1> DEFINE r == [pc |-> "removal", user |-> v.id]
  <1>3. v \in users /\ v.org = p.org /\ v.id # p.user /\ v.id \in Ids
    BY RowTypes DEF Inv, Others
  <1>4. v.role # "owner" \/ v.org \in keyed
    BY <1>3, AdminTypes DEF Inv, Founded
  <1>5. r \in Removal /\ r.pc = "removal" /\ r.user = v.id
    BY <1>3 DEF Removal
  <1>6. Begin(h, r)
    BY <1>2
  <1> HIDE DEF r
  <1>7. r \in AnyRequest /\ r \notin Signup /\ RemovalReads(r)
    BY <1>3, <1>4, <1>5 DEF AnyRequest, Signup, RemovalReads
  <1> QED
    BY <1>5, <1>6, <1>7, BeginKeeps

LEMMA InvKey ==
  ASSUME Inv, GrantKey
  PROVE  Inv'
  <1>1. /\ UNCHANGED <<users, orgs, invites, accepted, inactive, expired, made, req>>
        /\ keyed \subseteq keyed' /\ keyed' \in SUBSET Ids
    BY RowTypes DEF GrantKey, Inv, TypeOK
  <1>2. TypeOK'
    BY <1>1 DEF Inv, TypeOK
  <1>3. IdsFresh' /\ IdsUnique' /\ AcceptedExist' /\ InvitesMatchMembers'
    BY <1>1 DEF Inv, IdsFresh, IdsUnique, AcceptedExist, InvitesMatchMembers, Rows, NewId
  <1>4. RequestsRead' /\ Founded'
    BY <1>1 DEF Inv, RequestsRead, SignupReads, RemovalReads, Founded
  <1> QED
    BY <1>2, <1>3, <1>4 DEF Inv

LEMMA InvOther ==
  ASSUME Inv, UNCHANGED <<tables, made, req>>, expired' \in SUBSET Ids
  PROVE  Inv'
  <1>1. UNCHANGED <<users, orgs, invites, accepted, inactive, keyed, made, req>>
    BY DEF tables
  <1>2. TypeOK'
    BY <1>1 DEF Inv, TypeOK
  <1>3. IdsFresh' /\ IdsUnique' /\ Founded' /\ AcceptedExist' /\ InvitesMatchMembers'
    BY <1>1 DEF Inv, IdsFresh, IdsUnique, Founded, AcceptedExist, InvitesMatchMembers, Rows, NewId
  <1>4. RequestsRead'
    BY <1>1 DEF Inv, RequestsRead, SignupReads, RemovalReads
  <1> QED
    BY <1>2, <1>3, <1>4 DEF Inv

LEMMA InvStep == Inv /\ [Next]_vars => Inv'
  <1> SUFFICES ASSUME Inv, [Next]_vars PROVE Inv'
    OBVIOUS
  <1>1. CASE Expire
    <2>1. expired' \in SUBSET Ids
      BY <1>1, RowTypes DEF Expire, Inv, TypeOK
    <2> QED
      BY <1>1, <2>1, InvOther DEF Expire
  <1>2. CASE UNCHANGED vars
    BY <1>2, InvOther DEF vars, Inv, TypeOK
  <1> QED
    BY <1>1, <1>2, InvBeginSignup, InvReadMail, InvReadInvite, InvReadSlug, InvSignup,
       InvBeginInvite, InvInvite, InvBeginDeactivate, InvDeactivate, InvKey DEF Next

--------------------------------------------------------------------------------
(* The theorems *)

(* What the requests of signup, create_invite and deactivate_user hold between their *)
(* reads and their commit, and what the tables keep, for any interleaving of them.   *)
THEOREM Invariance == Spec => []Inv
  BY InvInit, InvStep, PTL DEF Spec

(* Rows of users, orgs and invites, and the requests in progress, have their types:  *)
(* in particular every user and every invitation has an organisation.                *)
THEOREM TypeCorrectness == Spec => []TypeOK
  BY Invariance, PTL DEF Inv

(* However sign-ups, invitations and deactivations overlap, an organisation keeps    *)
(* exactly one owner, and that owner is active unless the organisation was given an  *)
(* API key with scope org:admin, which deactivate_user lets deactivate anyone.       *)
THEOREM OwnersStay == Spec => []OwnerStays
  <1>1. Inv => OwnerStays
    <2> SUFFICES ASSUME Inv, NEW o \in orgs
                 PROVE  \E u \in users :
                          /\ u.org = o.id /\ u.role = "owner"
                          /\ o.id \notin keyed => u.id \notin inactive
                          /\ \A v \in users : v.org = o.id /\ v.role = "owner" => u = v
      BY DEF OwnerStays
    <2>1. PICK u \in users : u.id = o.id /\ u.role = "owner"
      BY DEF Inv, Founded
    <2>2. u.org = o.id /\ (o.id \notin keyed => u.id \notin inactive)
      BY <2>1 DEF Inv, Founded
    <2>3. ASSUME NEW v \in users, v.org = o.id, v.role = "owner" PROVE u = v
      BY <2>1, <2>3 DEF Inv, Founded, IdsUnique
    <2> QED
      BY <2>1, <2>2, <2>3
  <1> QED
    BY <1>1, Invariance, PTL

(* signup accepts an invitation and adds its member in one transaction: accepted     *)
(* invitations and invited members correspond, and one address accepts one only,     *)
(* because users.email is unique when the transaction commits.                       *)
THEOREM InvitationsAreMembers == Spec => []InvitesMatchMembers
  BY Invariance, PTL DEF Inv

=================================================================================
