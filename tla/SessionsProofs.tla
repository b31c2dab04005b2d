----------------------------- MODULE SessionsProofs -----------------------------
(* Theorems about Sessions, for any number of requests, tokens and mails. *)
EXTENDS Sessions, SequenceTheorems, TLAPS

--------------------------------------------------------------------------------
(* Rows *)

LEMMA IdleRequest ==
  Idle \in Request /\ Idle.pc = "idle" /\ Idle.token = None /\ Idle.mail = None
  BY DEF Idle, Request

(* A revocation keeps the rows of the table and all but revoked_at of them. *)
LEMMA Revoked ==
  ASSUME TypeOK, NEW T
  PROVE  /\ Revoke(T) \in Seq(Token) /\ Len(Revoke(T)) = Len(tokens)
         /\ \A t \in Issued : /\ Revoke(T)[t].family = tokens[t].family
                              /\ Revoke(T)[t].parent = tokens[t].parent
                              /\ Revoke(T)[t].revoked <=> tokens[t].revoked \/ t \in T
  <1>1. Len(tokens) \in Nat /\ Issued = 1..Len(tokens)
    BY DEF TypeOK, Issued
  <1>2. ASSUME NEW t \in Issued
        PROVE  /\ Revoke(T)[t] \in Token
               /\ Revoke(T)[t].family = tokens[t].family
               /\ Revoke(T)[t].parent = tokens[t].parent
               /\ Revoke(T)[t].revoked <=> tokens[t].revoked \/ t \in T
    <2>1. tokens[t] \in Token
      BY <1>1 DEF TypeOK
    <2>2. Revoke(T)[t] = [tokens[t] EXCEPT !.revoked = tokens[t].revoked \/ t \in T]
      BY DEF Revoke
    <2>3. (tokens[t].revoked \/ t \in T) \in BOOLEAN
      OBVIOUS
    <2> QED
      BY <2>1, <2>2, <2>3 DEF Token
  <1>3. Revoke(T) \in [1..Len(tokens) -> Token]
    BY <1>1, <1>2 DEF Revoke
  <1>4. Revoke(T) \in Seq(Token)
    BY <1>1, <1>3, SeqDef
  <1>5. Len(Revoke(T)) = Len(tokens)
    BY <1>1, <1>3, <1>4
  <1> QED
    BY <1>2, <1>4, <1>5

LEMMA Added ==
  ASSUME TypeOK, NEW s \in Seq(Token), Len(s) = Len(tokens), NEW x \in Token
  PROVE  /\ Append(s, x) \in Seq(Token) /\ Len(Append(s, x)) = Len(tokens) + 1
         /\ \A t \in Issued : Append(s, x)[t] = s[t]
         /\ Append(s, x)[Len(tokens) + 1] = x
         /\ DOMAIN Append(s, x) = Issued \cup {Len(tokens) + 1}
  <1>1. Len(tokens) \in Nat /\ Issued = 1..Len(tokens)
    BY DEF TypeOK, Issued
  <1> QED
    BY <1>1

--------------------------------------------------------------------------------
(* The invariant *)

(* A request names a token and a mail that exist. *)
RequestsName ==
    \A h \in Handlers :
        /\ req[h].pc \in {"user", "rotate", "logout"} => req[h].token \in Issued
        /\ req[h].pc = "reset" => req[h].mail \in DOMAIN mails

(* The number of a family is that of its first token, so a new one is unused. *)
FamiliesBegun ==
    /\ \A t \in Issued : tokens[t].family \in Issued
    /\ reused \subseteq Issued

(* While requests are served in turn there is one, and the token it has found   *)
(* live is live.                                                               *)
InTurn ==
    traffic = "in_turn" =>
        /\ \A g, h \in Handlers : req[g].pc # "idle" /\ req[h].pc # "idle" => g = h
        /\ \A h \in Handlers : req[h].pc \in {"user", "rotate"} => Live(req[h].token)

Inv ==
    /\ TypeOK /\ RequestsName /\ FamiliesBegun /\ LiveAreLeaves /\ InTurn /\ OneLivePerFamily

LEMMA Numbers ==
  ASSUME TypeOK
  PROVE  /\ Len(tokens) \in Nat /\ Issued = 1..Len(tokens) /\ Issued \subseteq Ids
         /\ DOMAIN mails = 1..Len(mails) /\ Len(mails) \in Nat
         /\ \A t \in Issued : tokens[t] \in Token
         /\ \A t \in Issued : /\ tokens[t].family \in Ids
                              /\ tokens[t].parent \in Ids \cup {None}
                              /\ tokens[t].revoked \in BOOLEAN
  <1>1. /\ Len(tokens) \in Nat /\ Issued = 1..Len(tokens) /\ Len(tokens) <= MaxTokens
        /\ DOMAIN mails = 1..Len(mails) /\ Len(mails) \in Nat
        /\ \A t \in Issued : tokens[t] \in Token
    BY DEF TypeOK, Issued
  <1>2. Issued \subseteq Ids
    BY <1>1, SessionsAssumption DEF Ids
  <1> QED
    BY <1>1, <1>2 DEF Token

LEMMA InvInit == Init => Inv
  <1> SUFFICES ASSUME Init PROVE Inv
    OBVIOUS
  <1>1. TypeOK
    BY IdleRequest, SessionsAssumption DEF Init, TypeOK
  <1>2. Issued = {}
    BY DEF Init, Issued
  <1>3. \A h \in Handlers : req[h].pc = "idle"
    BY IdleRequest DEF Init
  <1> QED
    BY <1>1, <1>2, <1>3 DEF Inv, RequestsName, FamiliesBegun, LiveAreLeaves, InTurn,
       OneLivePerFamily, Init

(* What a request may become in a step that keeps the tokens *)
LEMMA InvRequest ==
  ASSUME Inv, NEW h \in Handlers, NEW r \in Request, req' = [req EXCEPT ![h] = r],
         UNCHANGED <<tokens, expired, active, mails, reused>>,
         r.pc \in {"user", "rotate", "logout"} => r.token \in Issued,
         r.pc = "reset" => r.mail \in DOMAIN mails,
         \/ r.pc = "idle" /\ traffic' = traffic
         \/ Arrive(h) /\ (r.pc = "user" => Live(r.token)) /\ r.pc # "rotate"
         \/ /\ req[h].pc = "user" /\ r.pc = "rotate" /\ r.token = req[h].token
            /\ traffic' = traffic
  PROVE  Inv'
  <1>1. /\ req' \in [Handlers -> Request] /\ req'[h] = r
        /\ \A g \in Handlers : g # h => req'[g] = req[g]
    BY DEF Inv, TypeOK
  <1>2. traffic' \in {"in_turn", "overlapping"} /\ (traffic' = "in_turn" => traffic = "in_turn")
    BY DEF Arrive, Inv, TypeOK
  <1>3. TypeOK'
    BY <1>1, <1>2 DEF Inv, TypeOK
  <1>4. RequestsName'
    BY <1>1 DEF Inv, RequestsName, Issued
  <1>5. FamiliesBegun' /\ LiveAreLeaves'
    BY DEF Inv, FamiliesBegun, LiveAreLeaves, Issued, Live
  <1>6. OneLivePerFamily'
    BY <1>2 DEF Inv, OneLivePerFamily, Issued, Live
  <1>7. InTurn'
    <2> SUFFICES ASSUME traffic' = "in_turn"
                 PROVE  /\ \A g, k \in Handlers : req'[g].pc # "idle" /\ req'[k].pc # "idle" => g = k
                        /\ \A g \in Handlers : req'[g].pc \in {"user", "rotate"} =>
                             Live(req[g].token)'
      BY DEF InTurn
    <2>1. /\ \A g, k \in Handlers : req[g].pc # "idle" /\ req[k].pc # "idle" => g = k
          /\ \A g \in Handlers : req[g].pc \in {"user", "rotate"} => Live(req[g].token)
      BY <1>2 DEF Inv, InTurn
    <2>2. \A g \in Handlers : req'[g].token = req[g].token => (Live(req[g].token)' <=> Live(req[g].token))
      BY DEF Live
    <2>3. CASE r.pc = "idle"
      BY <1>1, <2>1, <2>3 DEF Live
    <2>4. CASE Arrive(h) /\ (r.pc = "user" => Live(r.token)) /\ r.pc # "rotate"
      <3>1. \A g \in Handlers : req[g].pc = "idle"
        BY <2>4 DEF Arrive, At
      <3> QED
        BY <1>1, <2>4, <3>1 DEF Live
    <2>5. CASE req[h].pc = "user" /\ r.pc = "rotate" /\ r.token = req[h].token
      BY <1>1, <2>1, <2>5 DEF Live
    <2> QED
      BY <2>3, <2>4, <2>5
  <1> QED
    BY <1>3, <1>4, <1>5, <1>6, <1>7 DEF Inv

(* A request that ends, or that is served in one step, leaves none in progress. *)
LEMMA Ended ==
  ASSUME Inv, NEW h \in Handlers,
         \/ Arrive(h) /\ req' = req
         \/ req[h].pc # "idle" /\ Goto(h, Idle) /\ traffic' = traffic
  PROVE  /\ req' \in [Handlers -> Request] /\ traffic' \in {"in_turn", "overlapping"}
         /\ \A g \in Handlers : req'[g] = req[g] \/ req'[g] = Idle
         /\ traffic' = "in_turn" => /\ traffic = "in_turn"
                                    /\ \A g \in Handlers : req'[g].pc = "idle"
  <1>1. CASE Arrive(h) /\ req' = req
    BY <1>1 DEF Arrive, At, Inv, TypeOK
  <1>2. CASE req[h].pc # "idle" /\ Goto(h, Idle) /\ traffic' = traffic
    <2>1. /\ req' \in [Handlers -> Request] /\ req'[h] = Idle
          /\ \A g \in Handlers : g # h => req'[g] = req[g]
      BY <1>2, IdleRequest DEF Goto, Inv, TypeOK
    <2>2. traffic = "in_turn" => \A g \in Handlers : g # h => req[g].pc = "idle"
      BY <1>2 DEF Inv, InTurn
    <2> QED
      BY <1>2, <2>1, <2>2, IdleRequest DEF Inv, TypeOK
  <1> QED
    BY <1>1, <1>2

(* Tokens are revoked, all of a family when its number joins the reused ones. *)
LEMMA InvRevoke ==
  ASSUME Inv, NEW h \in Handlers, NEW T, tokens' = Revoke(T),
         UNCHANGED <<expired, active>>,
         mails' \in Seq(BOOLEAN), Len(mails') = Len(mails),
         \/ reused' = reused
         \/ \E t \in Issued : /\ reused' = reused \cup {tokens[t].family}
                              /\ T = Family(tokens[t].family),
         \/ Arrive(h) /\ req' = req
         \/ req[h].pc # "idle" /\ Goto(h, Idle) /\ traffic' = traffic
  PROVE  Inv'
  <1>1. /\ req' \in [Handlers -> Request] /\ traffic' \in {"in_turn", "overlapping"}
        /\ \A g \in Handlers : req'[g] = req[g] \/ req'[g] = Idle
        /\ traffic' = "in_turn" => /\ traffic = "in_turn"
                                   /\ \A g \in Handlers : req'[g].pc = "idle"
    BY Ended
  <1>2. TypeOK
    BY DEF Inv
  <1>3. /\ tokens' \in Seq(Token) /\ Len(tokens') = Len(tokens)
        /\ \A t \in Issued : /\ tokens'[t].family = tokens[t].family
                             /\ tokens'[t].parent = tokens[t].parent
                             /\ tokens'[t].revoked <=> tokens[t].revoked \/ t \in T
    BY <1>2, Revoked
  <1>4. Issued' = Issued /\ Issued = 1..Len(tokens) /\ Issued \subseteq Ids /\ Len(tokens) \in Nat
    BY <1>2, <1>3, Numbers DEF Issued
  <1>5. \A t \in Issued : tokens[t].family \in Issued /\ tokens[t].parent \in Ids \cup {None}
    BY <1>2, Numbers DEF Inv, FamiliesBegun
  <1>6. reused' \subseteq Issued
    BY <1>5 DEF Inv, FamiliesBegun
  <1>7. TypeOK'
    BY <1>1, <1>3, <1>4, <1>6 DEF Inv, TypeOK
  <1>8. RequestsName'
    <2>1. DOMAIN mails' = DOMAIN mails
      BY <1>2
    <2> QED
      BY <1>1, <1>4, <2>1, IdleRequest DEF Inv, RequestsName
  <1>9. FamiliesBegun'
    BY <1>3, <1>4, <1>5, <1>6 DEF FamiliesBegun
  <1>10. LiveAreLeaves'
    <2> SUFFICES ASSUME NEW t \in Issued, tokens'[t].parent # None
                 PROVE  /\ tokens'[t].parent < t
                        /\ tokens'[tokens'[t].parent].family = tokens'[t].family
                        /\ tokens'[tokens'[t].parent].revoked
      BY <1>4 DEF LiveAreLeaves, Live
    <2>1. /\ tokens[t].parent < t
          /\ tokens[tokens[t].parent].family = tokens[t].family
          /\ tokens[tokens[t].parent].revoked
      BY <1>3 DEF Inv, LiveAreLeaves, Live
    <2>2. tokens[t].parent \in Issued
      BY <1>3, <1>4, <1>5, <2>1, SessionsAssumption DEF Ids
    <2> QED
      BY <1>3, <2>1, <2>2
  <1>11. InTurn'
    BY <1>1 DEF InTurn
  <1>12. OneLivePerFamily'
    <2> SUFFICES ASSUME traffic' = "in_turn", NEW t \in Issued, NEW u \in Issued,
                        ~tokens'[t].revoked, ~tokens'[u].revoked,
                        tokens'[t].family = tokens'[u].family
                 PROVE  t = u /\ tokens'[t].family \notin reused'
      BY <1>4 DEF OneLivePerFamily, Live
    <2>1. ~tokens[t].revoked /\ ~tokens[u].revoked /\ t \notin T /\ tokens[t].family = tokens[u].family
      BY <1>3
    <2>2. t = u /\ tokens[t].family \notin reused
      BY <1>1, <2>1 DEF Inv, OneLivePerFamily, Live
    <2>3. tokens[t].family \notin reused'
      BY <2>1, <2>2 DEF Family
    <2> QED
      BY <1>3, <2>2, <2>3
  <1> QED
    BY <1>7, <1>8, <1>9, <1>10, <1>11, <1>12 DEF Inv

(* The row of the new token, and the rest of the table, in a login and a refresh *)
LEMMA InvIssue ==
  ASSUME Inv, NEW h \in Handlers, req[h].pc # "idle", Goto(h, Idle),
         Len(tokens) < MaxTokens,
         UNCHANGED <<expired, active, mails, reused, traffic>>,
         NEW s \in Seq(Token), NEW x \in Token, tokens' = Append(s, x), Len(s) = Len(tokens),
         ~x.revoked,
         \A t \in Issued : /\ s[t].family = tokens[t].family
                           /\ s[t].parent = tokens[t].parent
                           /\ tokens[t].revoked => s[t].revoked,
         x.family \in Issued \cup {Len(tokens) + 1},
         x.parent # None => /\ x.parent \in Issued
                            /\ tokens[x.parent].family = x.family
                            /\ s[x.parent].revoked,
         traffic = "in_turn" => /\ x.family \notin reused
                                /\ \A t \in Issued : tokens[t].family = x.family => s[t].revoked
  PROVE  Inv'
  <1>1. /\ req' \in [Handlers -> Request] /\ traffic' \in {"in_turn", "overlapping"}
        /\ \A g \in Handlers : req'[g] = req[g] \/ req'[g] = Idle
        /\ traffic' = "in_turn" => /\ traffic = "in_turn"
                                   /\ \A g \in Handlers : req'[g].pc = "idle"
    BY Ended
  <1>2. TypeOK
    BY DEF Inv
  <1> DEFINE n == Len(tokens) + 1
  <1>3. /\ tokens' \in Seq(Token) /\ Len(tokens') = n
        /\ \A t \in Issued : tokens'[t] = s[t]
        /\ tokens'[n] = x
        /\ Issued' = Issued \cup {n}
    BY <1>2, Added DEF Issued
  <1>4. /\ Issued = 1..Len(tokens) /\ Issued \subseteq Ids /\ Len(tokens) \in Nat
        /\ n \in Ids /\ n \notin Issued
    BY <1>2, Numbers, SessionsAssumption DEF Ids
  <1>5. \A t \in Issued : tokens[t].family \in Issued /\ tokens[t].parent \in Ids \cup {None}
    BY <1>2, Numbers DEF Inv, FamiliesBegun
  <1> HIDE DEF n
  <1>6. n <= MaxTokens
    BY <1>4, SessionsAssumption DEF Ids
  <1>7. TypeOK'
    BY <1>1, <1>3, <1>6 DEF Inv, TypeOK
  <1>8. RequestsName'
    BY <1>1, <1>3, IdleRequest DEF Inv, RequestsName
  <1>9. FamiliesBegun'
    BY <1>3, <1>5 DEF Inv, FamiliesBegun, n
  <1>10. LiveAreLeaves'
    <2> SUFFICES ASSUME NEW t \in Issued \cup {n}, tokens'[t].parent # None
                 PROVE  /\ tokens'[t].parent < t
                        /\ tokens'[tokens'[t].parent].family = tokens'[t].family
                        /\ tokens'[tokens'[t].parent].revoked
      BY <1>3 DEF LiveAreLeaves, Live
    <2>1. CASE t \in Issued
      <3>1. tokens'[t].family = tokens[t].family /\ tokens'[t].parent = tokens[t].parent
        BY <1>3, <2>1
      <3>2. /\ tokens[t].parent < t
            /\ tokens[tokens[t].parent].family = tokens[t].family
            /\ tokens[tokens[t].parent].revoked
        BY <2>1, <3>1 DEF Inv, LiveAreLeaves, Live
      <3>3. tokens[t].parent \in Ids /\ t \in 1..Len(tokens)
        BY <1>4, <1>5, <2>1, <3>1
      <3>4. tokens[t].parent \in Issued
        BY ONLY <1>4, <3>2, <3>3, SessionsAssumption DEF Ids
      <3>5. /\ tokens'[tokens[t].parent].family = tokens[tokens[t].parent].family
            /\ tokens'[tokens[t].parent].revoked
        BY <1>3, <3>2, <3>4
      <3> QED
        BY <3>1, <3>2, <3>5
    <2>2. CASE t = n
      <3>1. tokens'[t] = x /\ x.parent \in Issued
        BY <1>3, <2>2
      <3>2. x.parent < n
        BY <1>4, <3>1 DEF n
      <3>3. tokens'[x.parent] = s[x.parent]
        BY <1>3, <3>1
      <3>4. s[x.parent].family = x.family /\ s[x.parent].revoked
        BY <2>2, <3>1
      <3> QED
        BY <2>2, <3>1, <3>2, <3>3, <3>4
    <2> QED
      BY <2>1, <2>2
  <1>11. InTurn'
    BY <1>1 DEF InTurn
  <1>12. OneLivePerFamily'
    <2>0. ASSUME traffic' = "in_turn", NEW t \in Issued \cup {n}, NEW u \in Issued \cup {n},
                 ~tokens'[t].revoked, ~tokens'[u].revoked,
                 tokens'[t].family = tokens'[u].family
          PROVE  t = u /\ tokens'[t].family \notin reused
      <3>1. /\ x.family \notin reused
            /\ \A v \in Issued : tokens[v].family = x.family => s[v].revoked
        BY <1>1, <2>0
      <3>2. \A v \in Issued : /\ tokens'[v].family = tokens[v].family
                              /\ ~tokens'[v].revoked => ~tokens[v].revoked /\ ~s[v].revoked
        BY <1>3
      <3>3. CASE t \in Issued /\ u \in Issued
        <4>1. ~tokens[t].revoked /\ ~tokens[u].revoked /\ tokens[t].family = tokens[u].family
          BY <2>0, <3>2, <3>3
        <4>2. \A v, w \in Issued :
                ~tokens[v].revoked /\ ~tokens[w].revoked /\ tokens[v].family = tokens[w].family =>
                  v = w /\ tokens[v].family \notin reused
          BY <1>1, <2>0 DEF Inv, OneLivePerFamily, Live
        <4> QED
          BY <3>2, <3>3, <4>1, <4>2
      <3>4. CASE t = n /\ u = n
        BY <2>0, <1>3, <3>1, <3>4
      <3>5. CASE t = n /\ u \in Issued
        <4>1. tokens'[t].family = x.family
          BY <1>3, <3>5
        <4>2. s[u].revoked
          BY <2>0, <3>1, <3>2, <3>5, <4>1
        <4> QED
          BY <2>0, <3>2, <3>5, <4>2
      <3>6. CASE u = n /\ t \in Issued
        <4>1. tokens'[u].family = x.family
          BY <1>3, <3>6
        <4>2. s[t].revoked
          BY <2>0, <3>1, <3>2, <3>6, <4>1
        <4> QED
          BY <2>0, <3>2, <3>6, <4>2
      <3> QED
        BY <2>0, <3>3, <3>4, <3>5, <3>6
    <2>1. reused' = reused /\ Issued' = Issued \cup {n}
      BY <1>3
    <2>2. ASSUME traffic' = "in_turn"
          PROVE  \A t, u \in Issued' : Live(t)' /\ Live(u)' /\ tokens'[t].family = tokens'[u].family
                    => t = u /\ tokens'[t].family \notin reused'
      BY ONLY <2>0, <2>1, <2>2 DEF Live
    <2> QED
      BY ONLY <2>2 DEF OneLivePerFamily
  <1> QED
    BY <1>7, <1>8, <1>9, <1>10, <1>11, <1>12 DEF Inv

(* What the other steps leave alone *)
LEMMA InvOther ==
  ASSUME Inv, UNCHANGED <<tokens, reused, req, traffic>>,
         expired' \in SUBSET Ids, active' \in BOOLEAN,
         mails' \in Seq(BOOLEAN), Len(mails') <= MaxMails, Len(mails) <= Len(mails')
  PROVE  Inv'
  <1>1. TypeOK'
    BY DEF Inv, TypeOK
  <1>2. RequestsName'
    <2>1. DOMAIN mails \subseteq DOMAIN mails'
      BY DEF Inv, TypeOK
    <2> QED
      BY <2>1 DEF Inv, RequestsName, Issued
  <1>3. FamiliesBegun' /\ LiveAreLeaves' /\ InTurn' /\ OneLivePerFamily'
    BY DEF Inv, FamiliesBegun, LiveAreLeaves, InTurn, OneLivePerFamily, Issued, Live
  <1> QED
    BY <1>1, <1>2, <1>3 DEF Inv

LEMMA InvStep == Inv /\ [Next]_vars => Inv'
  <1> SUFFICES ASSUME Inv, [Next]_vars PROVE Inv'
    OBVIOUS
  <1>1. /\ TypeOK /\ Len(tokens) \in Nat /\ Issued = 1..Len(tokens) /\ Issued \subseteq Ids
        /\ DOMAIN mails = 1..Len(mails) /\ Len(mails) \in Nat /\ Len(mails) <= MaxMails
        /\ mails \in Seq(BOOLEAN)
    BY Numbers DEF Inv, TypeOK
  <1>2. \A m \in DOMAIN mails : /\ [mails EXCEPT ![m] = TRUE] \in Seq(BOOLEAN)
                                /\ Len([mails EXCEPT ![m] = TRUE]) = Len(mails)
    BY <1>1
  <1>3. ASSUME NEW h \in Handlers, ReadLogin(h) PROVE Inv'
    <2> DEFINE r == [Idle EXCEPT !.pc = "login"]
    <2>1. r \in Request /\ r.pc = "login"
      BY DEF Idle, Request
    <2> HIDE DEF r
    <2>2. req' = [req EXCEPT ![h] = r] /\ Arrive(h) /\ UNCHANGED <<tokens, expired, active, mails, reused>>
      BY <1>3 DEF ReadLogin, Goto, r
    <2> QED
      BY <2>1, <2>2, InvRequest
  <1>4. ASSUME NEW h \in Handlers, CommitLogin(h) PROVE Inv'
    <2> DEFINE x == NewToken(Len(tokens) + 1, None)
    <2>1. x \in Token /\ ~x.revoked /\ x.parent = None /\ x.family = Len(tokens) + 1
      BY <1>1, <1>4, SessionsAssumption DEF CommitLogin, NewToken, Token, Ids
    <2>2. /\ Len(tokens) < MaxTokens /\ req[h].pc # "idle" /\ Goto(h, Idle)
          /\ tokens' = Append(tokens, x) /\ UNCHANGED <<expired, active, mails, reused, traffic>>
      BY <1>4 DEF CommitLogin, At
    <2> HIDE DEF x
    <2>3. x.family \notin reused /\ \A t \in Issued : tokens[t].family # x.family
      BY <1>1, <2>1 DEF Inv, FamiliesBegun
    <2>4. tokens \in Seq(Token)
      BY <1>1 DEF TypeOK
    <2> QED
      BY <2>1, <2>2, <2>3, <2>4, InvIssue
  <1>5. ASSUME NEW h \in Handlers, ReadUser(h) PROVE Inv'
    <2>1. req[h] \in Request /\ req[h].pc = "user"
      BY <1>1, <1>5 DEF TypeOK, ReadUser, At
    <2>2. UNCHANGED <<tokens, expired, active, mails, reused>> /\ traffic' = traffic
      BY <1>5 DEF ReadUser
    <2>3. CASE active
      <3> DEFINE r == [req[h] EXCEPT !.pc = "rotate"]
      <3>1. r \in Request /\ r.pc = "rotate" /\ r.token = req[h].token
        BY <2>1 DEF Request
      <3>2. req' = [req EXCEPT ![h] = r]
        BY <1>5, <2>3 DEF ReadUser, Goto
      <3> HIDE DEF r
      <3>3. r.token \in Issued
        BY <2>1, <3>1 DEF Inv, RequestsName
      <3> QED
        BY <2>1, <2>2, <3>1, <3>2, <3>3, InvRequest
    <2>4. CASE ~active
      <3>1. req' = [req EXCEPT ![h] = Idle]
        BY <1>5, <2>4 DEF ReadUser, Goto
      <3> QED
        BY <2>2, <3>1, IdleRequest, InvRequest
    <2> QED
      BY <2>3, <2>4
  <1>6. ASSUME NEW h \in Handlers, CommitRotate(h) PROVE Inv'
    <2> DEFINE t == req[h].token
               s == Revoke({t})
               x == NewToken(tokens[t].family, t)
    <2>1. /\ Len(tokens) < MaxTokens /\ req[h].pc = "rotate" /\ Goto(h, Idle)
          /\ tokens' = Append(s, x) /\ UNCHANGED <<expired, active, mails, reused, traffic>>
      BY <1>6 DEF CommitRotate, At, Rotated, FamilyOf
    <2>2. t \in Issued
      BY <2>1 DEF Inv, RequestsName
    <2>3. traffic = "in_turn" => ~tokens[t].revoked
      BY <2>1 DEF Inv, InTurn, Live
    <2> HIDE DEF t
    <2>4. tokens[t].family \in Issued
      BY <2>2 DEF Inv, FamiliesBegun
    <2>5. x \in Token /\ ~x.revoked /\ x.parent = t /\ x.family = tokens[t].family
      BY <1>1, <2>2, <2>4 DEF NewToken, Token
    <2>6. /\ s \in Seq(Token) /\ Len(s) = Len(tokens)
          /\ \A u \in Issued : /\ s[u].family = tokens[u].family
                               /\ s[u].parent = tokens[u].parent
                               /\ s[u].revoked <=> tokens[u].revoked \/ u \in {t}
      BY <1>1, Revoked
    <2> HIDE DEF s, x
    <2>7. traffic = "in_turn" =>
            /\ x.family \notin reused
            /\ \A u \in Issued : tokens[u].family = x.family => s[u].revoked
      <3> SUFFICES ASSUME traffic = "in_turn"
                   PROVE  /\ x.family \notin reused
                          /\ \A u \in Issued : tokens[u].family = x.family => s[u].revoked
        OBVIOUS
      <3>1. \A u \in Issued : ~tokens[u].revoked /\ tokens[t].family = tokens[u].family =>
              t = u /\ tokens[t].family \notin reused
        BY <2>2, <2>3 DEF Inv, OneLivePerFamily, Live
      <3> QED
        BY <2>2, <2>3, <2>5, <2>6, <3>1
    <2>8. x.parent \in Issued /\ tokens[x.parent].family = x.family /\ s[x.parent].revoked
      BY <2>2, <2>5, <2>6
    <2>9. x.family \in Issued \cup {Len(tokens) + 1} /\ req[h].pc # "idle"
      BY <2>1, <2>4, <2>5
    <2> QED
      BY <2>1, <2>5, <2>6, <2>7, <2>8, <2>9, InvIssue
  <1>7. ASSUME NEW h \in Handlers, CommitLogout(h) PROVE Inv'
    BY <1>1, <1>7, InvRevoke DEF CommitLogout, At
  <1>8. ASSUME NEW h \in Handlers, RevokeAll(h) PROVE Inv'
    BY <1>1, <1>8, InvRevoke DEF RevokeAll
  <1>9. ASSUME NEW h \in Handlers, CommitReset(h) PROVE Inv'
    <2>1. /\ tokens' = Revoke(Issued) /\ req[h].pc = "reset" /\ Goto(h, Idle)
          /\ mails' = [mails EXCEPT ![req[h].mail] = TRUE]
          /\ UNCHANGED <<expired, active, reused, traffic>>
      BY <1>9 DEF CommitReset, At
    <2>2. req[h].mail \in DOMAIN mails
      BY <2>1 DEF Inv, RequestsName
    <2>3. mails' \in Seq(BOOLEAN) /\ Len(mails') = Len(mails)
      BY <1>2, <2>1, <2>2
    <2> QED
      BY <2>1, <2>3, InvRevoke
  <1>10. ASSUME NEW h \in Handlers, NEW t \in Issued, Reuse(h, t) PROVE Inv'
    BY <1>1, <1>10, InvRevoke DEF Reuse
  <1>11. ASSUME NEW h \in Handlers, NEW t \in Issued, ReadToken(h, t) PROVE Inv'
    <2> DEFINE r == [Idle EXCEPT !.pc = "user", !.token = t]
    <2>1. r \in Request /\ r.pc = "user" /\ r.token = t
      BY <1>1 DEF Idle, Request
    <2>2. /\ req' = [req EXCEPT ![h] = r] /\ Arrive(h) /\ Live(t)
          /\ UNCHANGED <<tokens, expired, active, mails, reused>>
      BY <1>11 DEF ReadToken, Goto
    <2> HIDE DEF r
    <2> QED
      BY <2>1, <2>2, InvRequest
  <1>12. ASSUME NEW h \in Handlers, NEW t \in Issued, ReadLogout(h, t) PROVE Inv'
    <2> DEFINE r == [Idle EXCEPT !.pc = "logout", !.token = t]
    <2>1. r \in Request /\ r.pc = "logout" /\ r.token = t
      BY <1>1 DEF Idle, Request
    <2>2. /\ req' = [req EXCEPT ![h] = r] /\ Arrive(h)
          /\ UNCHANGED <<tokens, expired, active, mails, reused>>
      BY <1>12 DEF ReadLogout, Goto
    <2> HIDE DEF r
    <2> QED
      BY <2>1, <2>2, InvRequest
  <1>13. ASSUME NEW h \in Handlers, NEW f, DeleteSession(h, f) PROVE Inv'
    BY <1>1, <1>13, InvRevoke DEF DeleteSession
  <1>14. ASSUME NEW h \in Handlers, NEW m \in DOMAIN mails, ReadReset(h, m) PROVE Inv'
    <2> DEFINE r == [Idle EXCEPT !.pc = "reset", !.mail = m]
    <2>1. r \in Request /\ r.pc = "reset" /\ r.mail = m
      <3>1. m \in 1..MaxMails
        BY <1>1, SessionsAssumption
      <3> QED
        BY <3>1 DEF Idle, Request
    <2>2. /\ req' = [req EXCEPT ![h] = r] /\ Arrive(h)
          /\ UNCHANGED <<tokens, expired, active, mails, reused>>
      BY <1>14 DEF ReadReset, Goto
    <2> HIDE DEF r
    <2> QED
      BY <2>1, <2>2, InvRequest
  <1>15. CASE Forgot
    BY <1>1, <1>15, SessionsAssumption, InvOther DEF Forgot, TypeOK
  <1>16. CASE Deactivate
    <2>1. /\ active' \in BOOLEAN /\ expired' \in SUBSET Ids /\ mails' = mails
          /\ UNCHANGED <<tokens, reused, req, traffic>>
      BY <1>1, <1>16 DEF Deactivate, TypeOK
    <2>2. mails' \in Seq(BOOLEAN) /\ Len(mails') <= MaxMails /\ Len(mails) <= Len(mails')
      BY <1>1, <2>1
    <2> QED
      BY <2>1, <2>2, InvOther
  <1>17. CASE Expire
    <2>1. expired' \in SUBSET Ids
      BY <1>1, <1>17 DEF Expire, TypeOK
    <2>2. mails' \in Seq(BOOLEAN) /\ Len(mails') = Len(mails)
      <3>1. mails' = mails \/ \E m \in DOMAIN mails : mails' = [mails EXCEPT ![m] = TRUE]
        BY <1>17, Zenon DEF Expire
      <3>2. ASSUME NEW m \in DOMAIN mails, mails' = [mails EXCEPT ![m] = TRUE]
            PROVE  mails' \in Seq(BOOLEAN) /\ Len(mails') = Len(mails)
        BY <1>2, <3>2
      <3> QED
        BY <1>1, <3>1, <3>2
    <2>3. UNCHANGED <<tokens, active, reused, req, traffic>>
      BY <1>17 DEF Expire
    <2> QED
      BY <1>1, <2>1, <2>2, <2>3, InvOther DEF TypeOK
  <1>18. CASE UNCHANGED vars
    BY <1>1, <1>18, InvOther DEF vars, TypeOK
  <1> QED
    BY <1>3, <1>4, <1>5, <1>6, <1>7, <1>8, <1>9, <1>10, <1>11, <1>12, <1>13, <1>14, <1>15,
       <1>16, <1>17, <1>18 DEF Next

--------------------------------------------------------------------------------
(* The theorems *)

(* Everything the proofs carry along a behaviour of the sessions of a user: what     *)
(* requests hold between their read and their commit, and what the token table keeps. *)
THEOREM Invariance == Spec => []Inv
  BY InvInit, InvStep, PTL DEF Spec

(* Every column and every request keeps its type, and the numbers of tokens and mails *)
(* stay within what was issued, whichever way refreshes, logouts and resets overlap.  *)
THEOREM TypeCorrectness == Spec => []TypeOK
  BY Invariance, PTL DEF Inv

(* rotate_refresh_token revokes what it exchanges: a token with a child is never live *)
(* again and passes its family on, for any number of overlapping requests.            *)
THEOREM LiveTokensAreLeaves == Spec => []LiveAreLeaves
  BY Invariance, PTL DEF Inv

(* While requests do not overlap, a session has one live token at most, and none once *)
(* the replay of one of its tokens was audited.                                       *)
THEOREM SessionsHaveOneToken == Spec => []OneLivePerFamily
  BY Invariance, PTL DEF Inv

=================================================================================
