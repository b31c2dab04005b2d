----------------------------- MODULE FoundersProofs -----------------------------
(* Theorems about Founders, for any names, addresses, companies and requests. *)
EXTENDS Founders, TLAPS

--------------------------------------------------------------------------------
(* The invariant *)

Resolved == {"links", "events", "score", "commit"}

AddedBy(r) ==
    IF r.event
    THEN {[id |-> r.id, person |-> r.person,
           kind |-> IF r.body.kind = "signal" THEN "signal" ELSE "sample"]}
    ELSE {}

Exists(x) == \E p \in persons : p.id = x

(* What a request has found is there: the person, unless it is to be added, the      *)
(* affiliation, and the events the score is computed from, the one it adds included. *)
(* A request without a body is a rescoring, which adds no person, link or event.     *)
Reads(r) ==
    /\ r.pc # "idle" => r.id \in Ids /\ r.id <= made
    /\ r.pc = "person" => r.body \in Body /\ ~r.new
    /\ r.new => r.person = r.id
    /\ r.pc \in Resolved => /\ r.person \in Ids
                            /\ r.new \/ Exists(r.person)
                            /\ r.body \in Body \/ (r.body = None /\ r.linked /\ ~r.event /\ ~r.new)
    /\ r.pc = "links" => r.body \in Body
    /\ r.pc \in Resolved \ {"links"} /\ r.linked /\ r.body # None =>
         <<r.person, r.body.company>> \in affiliations
    /\ r.pc \in {"score", "commit"} => r.basis \subseteq EventsOf(r.person) \cup AddedBy(r)
    /\ r.pc = "merge" => r.winner \in Ids
    /\ r.pc = "erase" => r.person \in Ids /\ Exists(r.person)

RequestsRead == \A h \in Handlers : Reads(req[h])

(* Ids are those of requests begun, and what was erased exists. *)
IdsKnown ==
    /\ \A p \in persons : p.id <= made
    /\ \A x \in erased : Exists(x)

(* What a request served alone has read is all there is: its id is unused, nobody    *)
(* else has the addresses it is about to write, which it does not write to an erased *)
(* person, the events are all of the person's, and an erasure knows the addresses.   *)
Alone(r) ==
    /\ r.pc # "idle" => ~Exists(r.id)
    /\ r.pc \in Resolved => /\ \A q \in Unmerged : q.id # r.person => q.emails \cap r.emails = {}
                            /\ r.emails # {} => r.person \notin erased
    /\ r.pc \in {"score", "commit"} => r.basis = EventsOf(r.person) \cup AddedBy(r)
    /\ r.pc = "erase" => \A p \in persons : p.id = r.person => p.emails = r.emails

InTurn ==
    traffic = "in_turn" =>
        /\ \A g, h \in Handlers : req[g].pc # "idle" /\ req[h].pc # "idle" => g = h
        /\ \A h \in Handlers : Alone(req[h])
        /\ \A p, q \in persons : p.id = q.id => p = q
        /\ \A p \in persons : p.id \in erased => p.name = None

Inv ==
    /\ TypeOK /\ RequestsRead /\ IdsKnown /\ InTurn
    /\ ApplicationsHaveFounder /\ ScoresMatchEvents /\ OnePersonPerEmail

--------------------------------------------------------------------------------
(* Types *)

LEMMA Rows ==
  ASSUME TypeOK
  PROVE  /\ \A p \in persons : /\ p \in Person /\ p.id \in Ids /\ p.emails \subseteq Emails
                               /\ p.name \in Names \cup {None} /\ p.merged \in Ids \cup {None}
         /\ \A e \in events : e \in Event
         /\ \A s \in scores : s \in Score
         /\ made \in Nat /\ made <= MaxRequests /\ MaxRequests \in Nat
         /\ None \notin Ids /\ Ids \subseteq Nat
  BY FoundersAssumption DEF TypeOK, Person, Ids

LEMMA Bodies ==
  ASSUME NEW b \in Body
  PROVE  /\ b.name \in Names /\ b.email \in Emails \cup {None} /\ b.company \in Companies
         /\ b.proof \in BOOLEAN
  BY DEF Body

LEMMA IdleRequest ==
  /\ Idle \in Request /\ Idle.pc = "idle" /\ Idle.new = FALSE
  BY FoundersAssumption DEF Idle, Request, Days

LEMMA IdleReads == Reads(Idle) /\ Alone(Idle)
  BY IdleRequest DEF Reads, Alone, Resolved

LEMMA RequestAt ==
  ASSUME Inv, NEW h \in Handlers, req[h].pc # "idle"
  PROVE  /\ req[h] \in Request /\ Reads(req[h]) /\ req[h].id \in Ids /\ req[h].id <= made
         /\ traffic = "in_turn" => /\ Alone(req[h])
                                   /\ \A g \in Handlers : g # h => req[g].pc = "idle"
  BY DEF Inv, TypeOK, RequestsRead, Reads, InTurn

LEMMA AddedEvents ==
  ASSUME NEW r \in Request, r.id \in Ids, r.person \in Ids
  PROVE  AddedBy(r) \subseteq Event /\ \A e \in AddedBy(r) : e.person = r.person
  BY DEF AddedBy, Event

LEMMA AddedIs ==
  ASSUME NEW h \in Handlers
  PROVE  Added(h) = AddedBy(req[h])
  BY DEF Added, AddedBy, NewId, Ask

LEMMA InvInit == Init => Inv
  <1> SUFFICES ASSUME Init PROVE Inv
    OBVIOUS
  <1>1. TypeOK
    BY IdleRequest, FoundersAssumption DEF Init, TypeOK, Days
  <1>2. \A h \in Handlers : req[h] = Idle
    BY DEF Init
  <1>3. RequestsRead /\ InTurn
    BY <1>2, IdleRequest, IdleReads DEF RequestsRead, InTurn, Init
  <1>4. IdsKnown /\ ApplicationsHaveFounder /\ ScoresMatchEvents /\ OnePersonPerEmail
    BY DEF Init, IdsKnown, ApplicationsHaveFounder, ScoresMatchEvents, OnePersonPerEmail, Unmerged
  <1> QED
    BY <1>1, <1>3, <1>4 DEF Inv

--------------------------------------------------------------------------------
(* Steps that keep the tables *)

(* What is said of the tables alone *)
LEMMA TablesKept ==
  ASSUME Inv, UNCHANGED <<tables, erased>>, made' \in Nat, made <= made',
         traffic' = "in_turn" => traffic = "in_turn"
  PROVE  /\ IdsKnown' /\ ApplicationsHaveFounder' /\ ScoresMatchEvents' /\ OnePersonPerEmail'
         /\ traffic' = "in_turn" => /\ \A p, q \in persons' : p.id = q.id => p = q
                                    /\ \A p \in persons' : p.id \in erased' => p.name = None
  <1>1. UNCHANGED <<persons, affiliations, events, scores, snapshots, applied, erased>>
    BY DEF tables
  <1>2. IdsKnown'
    <2>1. \A p \in persons : p.id <= made'
      BY Rows DEF Inv, IdsKnown
    <2> QED
      BY <1>1, <2>1 DEF Inv, IdsKnown, Exists
  <1>3. ApplicationsHaveFounder' /\ ScoresMatchEvents' /\ OnePersonPerEmail'
    BY <1>1 DEF Inv, ApplicationsHaveFounder, ScoresMatchEvents, OnePersonPerEmail, EventsOf, Unmerged
  <1> QED
    BY <1>1, <1>2, <1>3 DEF Inv, InTurn

LEMMA InvGoto ==
  ASSUME Inv, NEW h \in Handlers, req[h].pc # "idle", NEW r \in Request, Goto(h, r),
         Reads(r), traffic = "in_turn" => Alone(r)
  PROVE  Inv'
  <1>1. /\ UNCHANGED <<persons, affiliations, events, scores, snapshots, applied>>
        /\ UNCHANGED <<tables, day, made, traffic, erased>> /\ req' = [req EXCEPT ![h] = r]
    BY DEF Goto, tables
  <1>2. /\ req' \in [Handlers -> Request] /\ req'[h] = r
        /\ \A g \in Handlers : g # h => req'[g] = req[g]
    BY <1>1 DEF Inv, TypeOK
  <1>3. /\ IdsKnown' /\ ApplicationsHaveFounder' /\ ScoresMatchEvents' /\ OnePersonPerEmail'
        /\ traffic' = "in_turn" => /\ \A p, q \in persons' : p.id = q.id => p = q
                                   /\ \A p \in persons' : p.id \in erased' => p.name = None
    <2>1. made' \in Nat /\ made <= made'
      BY <1>1, Rows DEF Inv
    <2> QED
      BY <1>1, <2>1, TablesKept
  <1>4. TypeOK'
    BY <1>1, <1>2 DEF Inv, TypeOK
  <1>5. RequestsRead'
    <2>1. ASSUME NEW g \in Handlers PROVE Reads(req[g])'
      <3>1. Reads(req'[g])
        BY <1>2 DEF Inv, RequestsRead
      <3> QED
        BY <1>1, <3>1 DEF Reads, Exists, EventsOf, AddedBy
    <2> QED
      BY <2>1 DEF RequestsRead
  <1>6. InTurn'
    <2> SUFFICES ASSUME traffic = "in_turn"
                 PROVE  /\ \A g, k \in Handlers : req'[g].pc # "idle" /\ req'[k].pc # "idle" => g = k
                        /\ \A g \in Handlers : Alone(req[g])'
      BY <1>1, <1>3 DEF InTurn
    <2>1. \A g \in Handlers : g # h => req[g].pc = "idle"
      BY RequestAt
    <2>2. ASSUME NEW g \in Handlers PROVE Alone(req[g])'
      <3>1. Alone(req'[g])
        BY <1>2 DEF Inv, InTurn
      <3> QED
        BY <1>1, <3>1 DEF Alone, Exists, EventsOf, AddedBy, Unmerged
    <2> QED
      BY <1>2, <2>1, <2>2
  <1> QED
    BY <1>3, <1>4, <1>5, <1>6 DEF Inv

LEMMA InvBegin ==
  ASSUME Inv, NEW h \in Handlers, NEW q \in Request, Begin(h, q),
         q.pc \in {"person", "events", "merge", "erase"}, ~q.new,
         q.pc = "person" => q.body \in Body,
         q.pc = "events" => /\ q.person \in Ids /\ Exists(q.person) /\ q.body = None
                            /\ q.linked /\ ~q.event /\ q.emails = {},
         q.pc = "merge" => q.winner \in Ids,
         q.pc = "erase" => q.person \in Ids /\ Exists(q.person),
         q.pc = "erase" /\ traffic = "in_turn" =>
           \A p \in persons : p.id = q.person => p.emails = q.emails
  PROVE  Inv'
  <1> DEFINE n == made + 1
             r == [q EXCEPT !.id = n]
  <1>1. /\ UNCHANGED <<persons, affiliations, events, scores, snapshots, applied>>
        /\ UNCHANGED <<tables, day, erased>>
        /\ req[h].pc = "idle" /\ made < MaxRequests /\ made' = n
        /\ traffic' = IF \E g \in Handlers : req[g].pc # "idle" THEN "overlapping" ELSE traffic
        /\ req' = [req EXCEPT ![h] = r]
    BY DEF Begin, At, tables
  <1>2. /\ n \in Ids /\ ~Exists(n) /\ n \in Nat /\ made < n /\ n <= MaxRequests
    BY <1>1, Rows DEF Inv, IdsKnown, Ids, Exists
  <1> HIDE DEF n
  <1>3. /\ r \in Request /\ r.pc = q.pc /\ r.id = n /\ r.body = q.body /\ r.person = q.person
        /\ r.new = q.new /\ r.emails = q.emails /\ r.linked = q.linked /\ r.event = q.event
        /\ r.winner = q.winner
    BY <1>2 DEF Request
  <1> HIDE DEF r
  <1>4. /\ req' \in [Handlers -> Request] /\ req'[h] = r
        /\ \A g \in Handlers : g # h => req'[g] = req[g]
    BY <1>1, <1>3 DEF Inv, TypeOK
  <1>5. made' \in 0..MaxRequests /\ made' \in Nat /\ made <= made'
    BY <1>1, <1>2, Rows DEF Inv
  <1>6. /\ IdsKnown' /\ ApplicationsHaveFounder' /\ ScoresMatchEvents' /\ OnePersonPerEmail'
        /\ traffic' = "in_turn" => /\ \A p, x \in persons' : p.id = x.id => p = x
                                   /\ \A p \in persons' : p.id \in erased' => p.name = None
    BY <1>1, <1>5, TablesKept
  <1>7. TypeOK'
    BY <1>1, <1>4, <1>5 DEF Inv, TypeOK
  <1>8. RequestsRead'
    <2>1. ASSUME NEW g \in Handlers, g # h PROVE Reads(req[g])'
      <3>1. Reads(req[g]) /\ req'[g] = req[g]
        BY <1>4, <2>1 DEF Inv, RequestsRead
      <3>2. \A x \in Ids : x <= made => x <= made'
        BY <1>1, <1>2, Rows DEF Inv
      <3> QED
        BY <1>1, <3>1, <3>2 DEF Reads, Exists, EventsOf, AddedBy
    <2>2. Reads(req[h])'
      <3>1. n <= made'
        BY <1>1, <1>2
      <3> QED
        BY <1>1, <1>2, <1>3, <1>4, <3>1 DEF Reads, Exists, Resolved
    <2> QED
      BY <2>1, <2>2 DEF RequestsRead
  <1>9. InTurn'
    <2> SUFFICES ASSUME traffic' = "in_turn"
                 PROVE  /\ \A g, k \in Handlers : req'[g].pc # "idle" /\ req'[k].pc # "idle" => g = k
                        /\ \A g \in Handlers : Alone(req[g])'
      BY <1>6 DEF InTurn
    <2>1. traffic = "in_turn" /\ \A g \in Handlers : req[g].pc = "idle"
      BY <1>1
    <2>2. ASSUME NEW g \in Handlers, g # h PROVE Alone(req[g])'
      BY <1>4, <2>1, <2>2 DEF Alone, Resolved
    <2>3. Alone(req[h])'
      BY <1>1, <1>2, <1>3, <1>4, <2>1 DEF Alone, Exists, Resolved
    <2> QED
      BY <1>4, <2>1, <2>2, <2>3
  <1> QED
    BY <1>6, <1>7, <1>8, <1>9 DEF Inv

LEMMA InvResolve ==
  ASSUME Inv, NEW h \in Handlers, Resolve(h)
  PROVE  Inv'
  <1>1. PICK b \in Body : Begin(h, [Idle EXCEPT !.pc = "person", !.body = b])
    BY DEF Resolve
  <1> DEFINE q == [Idle EXCEPT !.pc = "person", !.body = b]
  <1>2. q \in Request /\ q.pc = "person" /\ q.body = b /\ ~q.new
    BY IdleRequest DEF Idle, Request
  <1>3. Begin(h, q)
    BY <1>1
  <1> HIDE DEF q
  <1> QED
    BY <1>2, <1>3, InvBegin

LEMMA InvRescore ==
  ASSUME Inv, NEW h \in Handlers, Rescore(h)
  PROVE  Inv'
  <1>1. PICK p \in Unmerged :
          Begin(h, [Idle EXCEPT !.pc = "events", !.person = p.id, !.linked = TRUE])
    BY DEF Rescore
  <1> DEFINE q == [Idle EXCEPT !.pc = "events", !.person = p.id, !.linked = TRUE]
  <1>2. p.id \in Ids /\ Exists(p.id)
    BY Rows DEF Inv, Unmerged, Exists
  <1>3. /\ q \in Request /\ q.pc = "events" /\ q.person = p.id /\ q.body = None /\ q.linked
        /\ ~q.event /\ ~q.new /\ q.emails = {}
    BY <1>2, IdleRequest DEF Idle, Request
  <1>4. Begin(h, q)
    BY <1>1
  <1> HIDE DEF q
  <1> QED
    BY <1>2, <1>3, <1>4, InvBegin

LEMMA InvReadMerge ==
  ASSUME Inv, NEW h \in Handlers, ReadMerge(h)
  PROVE  Inv'
  <1>1. PICK winner \in Unmerged, loser \in Unmerged :
          Begin(h, [Idle EXCEPT !.pc = "merge", !.person = loser.id, !.winner = winner.id])
    BY DEF ReadMerge
  <1> DEFINE q == [Idle EXCEPT !.pc = "merge", !.person = loser.id, !.winner = winner.id]
  <1>2. loser.id \in Ids /\ winner.id \in Ids
    BY Rows DEF Inv, Unmerged
  <1>3. q \in Request /\ q.pc = "merge" /\ q.winner = winner.id /\ ~q.new
    BY <1>2, IdleRequest DEF Idle, Request
  <1>4. Begin(h, q)
    BY <1>1
  <1> HIDE DEF q
  <1> QED
    BY <1>2, <1>3, <1>4, InvBegin

LEMMA InvReadErase ==
  ASSUME Inv, NEW h \in Handlers, ReadErase(h)
  PROVE  Inv'
  <1>1. PICK p \in persons :
          Begin(h, [Idle EXCEPT !.pc = "erase", !.person = p.id, !.emails = p.emails])
    BY DEF ReadErase
  <1> DEFINE q == [Idle EXCEPT !.pc = "erase", !.person = p.id, !.emails = p.emails]
  <1>2. p.id \in Ids /\ p.emails \subseteq Emails /\ Exists(p.id)
    BY Rows DEF Inv, Exists
  <1>3. q \in Request /\ q.pc = "erase" /\ q.person = p.id /\ q.emails = p.emails /\ ~q.new
    BY <1>2, IdleRequest DEF Idle, Request
  <1>4. Begin(h, q)
    BY <1>1
  <1>5. traffic = "in_turn" => \A x \in persons : x.id = p.id => x.emails = p.emails
    BY DEF Inv, InTurn
  <1> HIDE DEF q
  <1> QED
    BY <1>2, <1>3, <1>4, <1>5, InvBegin

--------------------------------------------------------------------------------
(* The lookups *)

(* The person found, with the addresses to be written: none of them is anybody's but *)
(* that person's, because candidates by name are taken only if none has the address. *)
LEMMA InvReadPerson ==
  ASSUME Inv, NEW h \in Handlers, ReadPerson(h)
  PROVE  Inv'
  <1> DEFINE q == req[h]
             mail == {q.body.email} \ {None}
             byEmail == {p \in Unmerged : q.body.email \in p.emails}
             t == [q EXCEPT !.pc = "links", !.person = q.id, !.new = TRUE, !.emails = mail]
             write(p) == IF mail \subseteq p.emails THEN {} ELSE p.emails \cup mail
             r(p) == [q EXCEPT !.pc = "links", !.person = p.id, !.emails = write(p)]
  <1>1. /\ q.pc = "person"
        /\ \/ byEmail = {} /\ Goto(h, t)
           \/ \E p \in Unmerged : /\ byEmail # {} => p \in byEmail
                                  /\ byEmail = {} => p.name = q.body.name
                                  /\ Goto(h, r(p))
    BY DEF ReadPerson, At, Candidates, Ask, NewPerson, NewId
  <1>2. /\ q \in Request /\ Reads(q) /\ q.body \in Body /\ ~q.new /\ q.id \in Ids /\ q.id <= made
        /\ traffic = "in_turn" => Alone(q)
    BY <1>1, RequestAt DEF Reads
  <1>3. mail \subseteq Emails /\ \A p \in Unmerged : p \in persons /\ p.id \in Ids /\ p.emails \subseteq Emails
    BY <1>2, Bodies, Rows DEF Inv, Unmerged
  <1>4. byEmail = {} => \A p \in Unmerged : p.emails \cap mail = {}
    OBVIOUS
  <1>5. ASSUME byEmail = {}, Goto(h, t) PROVE Inv'
    <2> HIDE DEF mail, byEmail
    <2>1. /\ t \in Request /\ t.pc = "links" /\ t.id = q.id /\ t.body = q.body /\ t.person = q.id
          /\ t.new /\ t.emails = mail
      BY <1>2, <1>3 DEF Request
    <2> HIDE DEF t
    <2>2. Reads(t)
      BY <1>2, <2>1 DEF Reads, Resolved
    <2>3. traffic = "in_turn" => Alone(t)
      <3> SUFFICES ASSUME traffic = "in_turn" PROVE Alone(t)
        OBVIOUS
      <3>1. ~Exists(q.id) /\ q.id \notin erased
        BY <1>1, <1>2 DEF Alone, Inv, IdsKnown
      <3> QED
        BY <1>4, <1>5, <2>1, <3>1 DEF Alone
    <2> QED
      BY <1>1, <1>5, <2>1, <2>2, <2>3, InvGoto
  <1>6. ASSUME NEW p \in Unmerged, byEmail # {} => p \in byEmail,
               byEmail = {} => p.name = q.body.name, Goto(h, r(p))
        PROVE  Inv'
    <2>1. byEmail # {} => write(p) = {}
      BY <1>6
    <2>2. write(p) \subseteq Emails /\ (write(p) # {} => write(p) = p.emails \cup mail)
      BY <1>3
    <2>3. q.body.name # None
      BY <1>2, Bodies, FoundersAssumption
    <2> HIDE DEF mail, byEmail, write
    <2>4. /\ r(p) \in Request /\ r(p).pc = "links" /\ r(p).id = q.id /\ r(p).body = q.body
          /\ r(p).person = p.id /\ ~r(p).new /\ r(p).emails = write(p)
      BY <1>2, <1>3, <2>2 DEF Request
    <2> HIDE DEF r
    <2>5. Exists(p.id)
      BY <1>3 DEF Exists
    <2>6. Reads(r(p))
      BY <1>2, <1>3, <2>4, <2>5 DEF Reads, Resolved
    <2>7. traffic = "in_turn" => Alone(r(p))
      <3> SUFFICES ASSUME traffic = "in_turn" PROVE Alone(r(p))
        OBVIOUS
      <3>1. ~Exists(q.id)
        BY <1>1, <1>2 DEF Alone
      <3>2. ASSUME NEW x \in Unmerged, x.id # p.id PROVE x.emails \cap write(p) = {}
        <4>1. x.emails \cap p.emails = {}
          BY <3>2 DEF Inv, OnePersonPerEmail
        <4>2. CASE write(p) = {}
          BY <4>2
        <4>3. CASE write(p) # {}
          <5>1. x.emails \cap mail = {} /\ write(p) = p.emails \cup mail
            BY <1>4, <2>1, <2>2, <4>3
          <5> QED
            BY <4>1, <5>1
        <4> QED
          BY <4>2, <4>3
      <3>3. write(p) # {} => p.id \notin erased
        <4>1. p.id \in erased => p.name = None
          BY <1>3 DEF Inv, InTurn
        <4> QED
          BY <1>6, <2>1, <2>3, <4>1
      <3> QED
        BY <2>4, <3>1, <3>2, <3>3 DEF Alone
    <2> QED
      BY <1>1, <1>6, <2>4, <2>6, <2>7, InvGoto
  <1> QED
    BY <1>1, <1>5, <1>6

LEMMA InvReadLinks ==
  ASSUME Inv, NEW h \in Handlers, ReadLinks(h)
  PROVE  Inv'
  <1> DEFINE q == req[h]
             link == <<q.person, q.body.company>> \in affiliations
             event == /\ q.body.proof
                      /\ \/ q.body.kind = "signal"
                         \/ \A e \in EventsOf(q.person) : e.kind # "sample"
             r == [q EXCEPT !.pc = "events", !.linked = link, !.event = event]
  <1>1. q.pc = "links" /\ Goto(h, r)
    BY DEF ReadLinks, At, Ask, Linked
  <1>2. q \in Request /\ Reads(q) /\ q.body \in Body /\ (traffic = "in_turn" => Alone(q))
    BY <1>1, RequestAt DEF Reads
  <1>3. link \in BOOLEAN /\ event \in BOOLEAN
    BY <1>2, Bodies
  <1>4. link => <<q.person, q.body.company>> \in affiliations
    OBVIOUS
  <1> HIDE DEF link, event
  <1>5. /\ r \in Request /\ r.pc = "events" /\ r.id = q.id /\ r.body = q.body
        /\ r.person = q.person /\ r.new = q.new /\ r.emails = q.emails /\ r.linked = link
    BY <1>2, <1>3 DEF Request
  <1> HIDE DEF r
  <1>6. Reads(r)
    BY <1>1, <1>2, <1>4, <1>5 DEF Reads, Resolved
  <1>7. traffic = "in_turn" => Alone(r)
    BY <1>1, <1>2, <1>5 DEF Alone, Resolved
  <1> QED
    BY <1>1, <1>5, <1>6, <1>7, InvGoto

LEMMA InvReadEvents ==
  ASSUME Inv, NEW h \in Handlers, ReadEvents(h)
  PROVE  Inv'
  <1> DEFINE q == req[h]
             seen == EventsOf(q.person) \cup AddedBy(q)
             r == [q EXCEPT !.pc = "score", !.basis = seen]
  <1>1. q.pc = "events" /\ Goto(h, r)
    BY AddedIs DEF ReadEvents, At, Seen
  <1>2. /\ q \in Request /\ Reads(q) /\ q.id \in Ids /\ q.person \in Ids
        /\ traffic = "in_turn" => Alone(q)
    BY <1>1, RequestAt DEF Reads, Resolved
  <1>3. seen \subseteq Event
    BY <1>2, AddedEvents, Rows DEF Inv, EventsOf
  <1> HIDE DEF seen
  <1>4. /\ r \in Request /\ r.pc = "score" /\ r.id = q.id /\ r.body = q.body
        /\ r.person = q.person /\ r.new = q.new /\ r.emails = q.emails /\ r.linked = q.linked
        /\ r.event = q.event /\ r.basis = seen
    BY <1>2, <1>3 DEF Request
  <1> HIDE DEF r
  <1>5. AddedBy(r) = AddedBy(q)
    BY <1>4 DEF AddedBy
  <1>6. r.basis = EventsOf(r.person) \cup AddedBy(r)
    BY <1>4, <1>5 DEF seen
  <1>7. Reads(r)
    BY <1>1, <1>2, <1>4, <1>6 DEF Reads, Resolved
  <1>8. traffic = "in_turn" => Alone(r)
    BY <1>1, <1>2, <1>4, <1>6 DEF Alone, Resolved
  <1> QED
    BY <1>1, <1>4, <1>7, <1>8, InvGoto

LEMMA InvReadScore ==
  ASSUME Inv, NEW h \in Handlers, ReadScore(h)
  PROVE  Inv'
  <1> DEFINE q == req[h]
             scored == \E s \in scores : s.person = q.person
             snapped == <<q.person, day>> \in snapshots
             r == [q EXCEPT !.pc = "commit", !.scored = scored, !.snapped = snapped, !.day = day]
  <1>1. q.pc = "score" /\ Goto(h, r)
    BY DEF ReadScore, At
  <1>2. /\ q \in Request /\ Reads(q) /\ (traffic = "in_turn" => Alone(q))
    BY <1>1, RequestAt
  <1>3. scored \in BOOLEAN /\ snapped \in BOOLEAN /\ day \in Days
    BY DEF Inv, TypeOK
  <1> HIDE DEF scored, snapped
  <1>4. /\ r \in Request /\ r.pc = "commit" /\ r.id = q.id /\ r.body = q.body
        /\ r.person = q.person /\ r.new = q.new /\ r.emails = q.emails /\ r.linked = q.linked
        /\ r.event = q.event /\ r.basis = q.basis
    BY <1>2, <1>3 DEF Request
  <1> HIDE DEF r
  <1>5. AddedBy(r) = AddedBy(q)
    BY <1>4 DEF AddedBy
  <1>6. Reads(r)
    BY <1>1, <1>2, <1>4, <1>5 DEF Reads, Resolved
  <1>7. traffic = "in_turn" => Alone(r)
    BY <1>1, <1>2, <1>4, <1>5 DEF Alone, Resolved
  <1> QED
    BY <1>1, <1>4, <1>6, <1>7, InvGoto

--------------------------------------------------------------------------------
(* The commits *)

(* When a request ends, the others still find what they read: rows are only added. *)
LEMMA Ended ==
  ASSUME Inv, NEW h \in Handlers, req[h].pc # "idle", req' = [req EXCEPT ![h] = Idle],
         made' = made, traffic' = traffic, \A x \in Ids : Exists(x) => Exists(x)',
         affiliations \subseteq affiliations', events \subseteq events'
  PROVE  /\ req' \in [Handlers -> Request] /\ RequestsRead'
         /\ traffic = "in_turn" => \A g \in Handlers : req'[g].pc = "idle" /\ Alone(req[g])'
  <1>1. /\ req' \in [Handlers -> Request] /\ req'[h] = Idle
        /\ \A g \in Handlers : g # h => req'[g] = req[g]
    BY IdleRequest DEF Inv, TypeOK
  <1>2. ASSUME NEW g \in Handlers PROVE Reads(req[g])'
    <2>1. CASE g = h
      BY <1>1, <2>1, IdleRequest DEF Reads, Resolved
    <2>2. CASE g # h
      <3>1. Reads(req[g]) /\ req'[g] = req[g]
        BY <1>1, <2>2 DEF Inv, RequestsRead
      <3>2. \A x : EventsOf(x) \subseteq EventsOf(x)'
        BY DEF EventsOf
      <3>3. AddedBy(req[g])' = AddedBy(req[g])
        BY <3>1 DEF AddedBy
      <3> QED
        BY <3>1, <3>2, <3>3 DEF Reads, Resolved
    <2> QED
      BY <2>1, <2>2
  <1>3. ASSUME traffic = "in_turn", NEW g \in Handlers
        PROVE  req'[g].pc = "idle" /\ Alone(req[g])'
    <2>1. req'[g].pc = "idle"
      BY <1>1, <1>3, RequestAt, IdleRequest
    <2> QED
      BY <2>1 DEF Alone, Resolved
  <1> QED
    BY <1>1, <1>2, <1>3 DEF RequestsRead

(* A merge and an erasure rewrite rows of persons, each of which keeps its id and   *)
(* gains neither a name nor an address, nor becomes unmerged.                       *)
LEMMA InvRewrite ==
  ASSUME Inv, NEW h \in Handlers, req[h].pc # "idle", req' = [req EXCEPT ![h] = Idle],
         UNCHANGED <<affiliations, events, scores, snapshots, applied, day, made, traffic>>,
         NEW STATE G, persons' = {G[p] : p \in persons},
         \A p \in persons : /\ G[p] \in Person /\ G[p].id = p.id /\ G[p].emails \subseteq p.emails
                            /\ G[p].merged = None => p.merged = None
                            /\ G[p].name \in {p.name, None},
         erased \subseteq erased', erased' \subseteq Ids, \A x \in erased' : Exists(x),
         traffic = "in_turn" =>
           \A p \in persons : p.id \in erased' \ erased => G[p].name = None /\ G[p].emails = {}
  PROVE  Inv'
  <1>1. \A x : Exists(x) <=> Exists(x)'
    BY DEF Exists
  <1>2. /\ req' \in [Handlers -> Request] /\ RequestsRead'
        /\ traffic = "in_turn" => \A g \in Handlers : req'[g].pc = "idle" /\ Alone(req[g])'
    BY <1>1, Ended
  <1>3. TypeOK'
    <2>1. persons' \in SUBSET Person
      OBVIOUS
    <2> QED
      BY <1>2, <2>1 DEF Inv, TypeOK
  <1>4. IdsKnown'
    <2>1. \A p \in persons' : p.id <= made'
      BY DEF Inv, IdsKnown
    <2> QED
      BY <1>1, <2>1 DEF IdsKnown
  <1>5. ApplicationsHaveFounder'
    <2> SUFFICES ASSUME NEW c \in applied
                 PROVE  \E p \in persons', s \in scores : <<p.id, c>> \in affiliations /\ s.person = p.id
      BY DEF ApplicationsHaveFounder
    <2>1. PICK p \in persons, s \in scores : <<p.id, c>> \in affiliations /\ s.person = p.id
      BY DEF Inv, ApplicationsHaveFounder
    <2>2. PICK x \in persons' : x.id = p.id
      OBVIOUS
    <2>3. <<x.id, c>> \in affiliations /\ s.person = x.id
      BY <2>1, <2>2
    <2> QED
      BY <2>3
  <1>6. ScoresMatchEvents'
    BY DEF Inv, ScoresMatchEvents, EventsOf
  <1>7. ASSUME traffic = "in_turn"
        PROVE  /\ \A p, q \in persons' : p.id = q.id => p = q
               /\ \A p \in persons' : p.id \in erased' => p.name = None /\ p.emails = {}
               /\ \A p, q \in Unmerged' : p.emails \cap q.emails # {} => p = q
    <2>1. ASSUME NEW p \in persons, NEW q \in persons, G[p].id = G[q].id PROVE G[p] = G[q]
      <3>1. p.id = q.id
        BY <2>1
      <3> QED
        BY <1>7, <3>1 DEF Inv, InTurn
    <2>2. ASSUME NEW p \in persons, G[p].id \in erased' PROVE G[p].name = None /\ G[p].emails = {}
      <3>1. CASE p.id \in erased
        <4>1. p.name = None /\ p.emails = {}
          BY <1>7, <3>1 DEF Inv, InTurn, OnePersonPerEmail
        <4> QED
          BY <4>1
      <3>2. CASE p.id \notin erased
        BY <1>7, <2>2, <3>2
      <3> QED
        BY <3>1, <3>2
    <2>3. ASSUME NEW p \in persons, NEW q \in persons, G[p].merged = None, G[q].merged = None,
                 G[p].emails \cap G[q].emails # {}
          PROVE  G[p] = G[q]
      <3>1. p \in Unmerged /\ q \in Unmerged
        BY <2>3 DEF Unmerged
      <3>2. p.emails \cap q.emails # {}
        <4>1. G[p].emails \subseteq p.emails /\ G[q].emails \subseteq q.emails
          OBVIOUS
        <4> QED
          BY <2>3, <4>1
      <3>3. p = q
        BY <1>7, <3>1, <3>2 DEF Inv, OnePersonPerEmail
      <3> QED
        BY <3>3
    <2>4. \A p \in Unmerged' : p \in persons' /\ p.merged = None
      BY DEF Unmerged
    <2> QED
      BY <2>1, <2>2, <2>3, <2>4
  <1> QED
    BY <1>2, <1>3, <1>4, <1>5, <1>6, <1>7 DEF Inv, InTurn, OnePersonPerEmail

LEMMA InvCommitMerge ==
  ASSUME Inv, NEW h \in Handlers, CommitMerge(h)
  PROVE  Inv'
  <1> DEFINE r == req[h]
             G == [p \in persons |-> IF p.id = r.person THEN [p EXCEPT !.merged = r.winner] ELSE p]
  <1>1. /\ r.pc = "merge" /\ req' = [req EXCEPT ![h] = Idle] /\ persons' = {G[p] : p \in persons}
        /\ UNCHANGED <<affiliations, events, scores, snapshots, applied, day, made, traffic, erased>>
    BY DEF CommitMerge, At
  <1>2. r.winner \in Ids /\ r.winner # None
    BY <1>1, RequestAt, Rows DEF Reads, Inv
  <1>3. ASSUME NEW p \in persons
        PROVE  /\ G[p] \in Person /\ G[p].id = p.id /\ G[p].emails \subseteq p.emails
               /\ G[p].merged = None => p.merged = None
               /\ G[p].name \in {p.name, None}
    BY <1>2, Rows DEF Inv, Person
  <1>4. erased' \subseteq Ids /\ \A x \in erased' : Exists(x)
    BY <1>1 DEF Inv, TypeOK, IdsKnown
  <1> HIDE DEF G
  <1> QED
    BY <1>1, <1>3, <1>4, InvRewrite

LEMMA InvCommitErase ==
  ASSUME Inv, NEW h \in Handlers, CommitErase(h)
  PROVE  Inv'
  <1> DEFINE r == req[h]
             blank(p) == IF r.emails = {} THEN p.emails ELSE {}
             G == [p \in persons |->
                     IF p.id = r.person THEN [p EXCEPT !.name = None, !.emails = blank(p)] ELSE p]
  <1>1. /\ r.pc = "erase" /\ req' = [req EXCEPT ![h] = Idle] /\ persons' = {G[p] : p \in persons}
        /\ erased' = erased \cup {r.person}
        /\ UNCHANGED <<affiliations, events, scores, snapshots, applied, day, made, traffic>>
    BY DEF CommitErase, At
  <1>2. r.person \in Ids /\ Exists(r.person)
    BY <1>1, RequestAt DEF Reads
  <1>3. ASSUME NEW p \in persons
        PROVE  /\ G[p] \in Person /\ G[p].id = p.id /\ G[p].merged = p.merged
               /\ p.id = r.person => G[p].emails = blank(p) /\ G[p].name = None
               /\ p.id # r.person => G[p] = p
    <2>1. blank(p) \subseteq Emails
      BY Rows DEF Inv
    <2> HIDE DEF blank
    <2> QED
      BY <2>1, Rows DEF Inv, Person
  <1>4. erased' \subseteq Ids /\ \A x \in erased' : Exists(x)
    BY <1>1, <1>2 DEF Inv, TypeOK, IdsKnown
  <1>5. ASSUME traffic = "in_turn", NEW p \in persons, p.id = r.person PROVE blank(p) = {}
    BY <1>1, <1>5, RequestAt DEF Alone
  <1>6. \A p \in persons : blank(p) \subseteq p.emails
    OBVIOUS
  <1> HIDE DEF G, blank
  <1>7. \A p \in persons : /\ G[p] \in Person /\ G[p].id = p.id /\ G[p].emails \subseteq p.emails
                           /\ G[p].merged = None => p.merged = None
                           /\ G[p].name \in {p.name, None}
    BY <1>3, <1>6
  <1>8. traffic = "in_turn" =>
          \A p \in persons : p.id \in erased' \ erased => G[p].name = None /\ G[p].emails = {}
    BY <1>1, <1>3, <1>5
  <1>9. erased \subseteq erased' /\ r.pc # "idle"
    BY <1>1
  <1> HIDE DEF r
  <1> QED
    BY <1>1, <1>4, <1>7, <1>8, <1>9, InvRewrite DEF r

(* A person is added under an id nobody has, or the addresses of one row are written. *)
LEMMA CommittedPersons ==
  ASSUME Inv, NEW h \in Handlers, req[h].pc = "commit", persons' = Persons(h)
  PROVE  /\ persons' \in SUBSET Person
         /\ \A x \in Ids : Exists(x) => Exists(x)'
         /\ \E p \in persons' : p.id = req[h].person
         /\ \A p \in persons' : p.id <= made
         /\ traffic = "in_turn" =>
              /\ \A p, q \in persons' : p.id = q.id => p = q
              /\ \A p \in persons' : p.id \in erased => p.name = None /\ p.emails = {}
              /\ \A p, q \in Unmerged' : p.emails \cap q.emails # {} => p = q
  <1> DEFINE r == req[h]
             new == [id |-> r.person, name |-> r.body.name, emails |-> r.emails, merged |-> None]
             G == [p \in persons |-> IF p.id = r.person /\ r.emails # {}
                                     THEN [p EXCEPT !.emails = r.emails] ELSE p]
  <1>1. persons' = IF r.new THEN persons \cup {new} ELSE {G[p] : p \in persons}
    BY DEF Persons, Ask
  <1>2. /\ r \in Request /\ r.id \in Ids /\ r.id <= made /\ r.person \in Ids
        /\ r.new => r.person = r.id /\ r.body \in Body
        /\ r.new \/ Exists(r.person)
    BY RequestAt DEF Reads, Resolved
  <1>3. r.emails \subseteq Emails
    BY <1>2 DEF Request
  <1>4. traffic = "in_turn" =>
          /\ ~Exists(r.id) /\ (r.emails # {} => r.person \notin erased)
          /\ \A q \in Unmerged : q.id # r.person => q.emails \cap r.emails = {}
    BY RequestAt DEF Alone, Resolved
  <1>5. traffic = "in_turn" =>
          /\ \A p, q \in persons : p.id = q.id => p = q
          /\ \A p \in persons : p.id \in erased => p.name = None /\ p.emails = {}
          /\ \A p, q \in Unmerged : p.emails \cap q.emails # {} => p = q
    BY DEF Inv, InTurn, OnePersonPerEmail
  <1>6. /\ \A p \in persons : p \in Person /\ p.id <= made
        /\ \A x \in erased : Exists(x)
    BY Rows DEF Inv, IdsKnown
  <1>7. \A p \in Unmerged' : p \in persons' /\ p.merged = None
    BY DEF Unmerged
  <1>8. CASE r.new
    <2>1. /\ new \in Person /\ new.id = r.id /\ new.id = r.person /\ new.emails = r.emails
          /\ new.merged = None
      BY <1>2, <1>3, <1>8, Bodies DEF Person
    <2> HIDE DEF new, r
    <2>2. persons' = persons \cup {new}
      BY <1>1, <1>8
    <2>3. /\ persons' \in SUBSET Person /\ \A x \in Ids : Exists(x) => Exists(x)'
          /\ \E p \in persons' : p.id = r.person
          /\ \A p \in persons' : p.id <= made
      BY <1>2, <1>6, <2>1, <2>2 DEF Exists
    <2>4. ASSUME traffic = "in_turn"
          PROVE  /\ \A p, q \in persons' : p.id = q.id => p = q
                 /\ \A p \in persons' : p.id \in erased => p.name = None /\ p.emails = {}
                 /\ \A p, q \in Unmerged' : p.emails \cap q.emails # {} => p = q
      <3>1. new.id \notin erased /\ \A q \in persons : q.id # new.id
        BY <1>4, <1>6, <2>1, <2>4 DEF Exists
      <3>2. \A q \in Unmerged : q.emails \cap new.emails = {}
        BY <1>4, <2>1, <2>4, <3>1 DEF Unmerged
      <3>3. \A p \in Unmerged' : p = new \/ p \in Unmerged
        BY <1>7, <2>2 DEF Unmerged
      <3>4. \A p, q \in Unmerged' : p.emails \cap q.emails # {} => p = q
        BY <1>5, <2>4, <3>2, <3>3
      <3> QED
        BY <1>5, <2>2, <2>4, <3>1, <3>4
    <2> QED
      BY <2>3, <2>4 DEF r
  <1>9. CASE ~r.new
    <2>1. ASSUME NEW p \in persons
          PROVE  /\ G[p] \in Person /\ G[p].id = p.id /\ G[p].merged = p.merged /\ G[p].name = p.name
                 /\ G[p].emails = IF p.id = r.person /\ r.emails # {} THEN r.emails ELSE p.emails
      BY <1>3, Rows DEF Inv, Person
    <2> HIDE DEF G, r
    <2>2. persons' = {G[p] : p \in persons}
      BY <1>1, <1>9
    <2>3. /\ persons' \in SUBSET Person /\ \A x \in Ids : Exists(x) => Exists(x)'
          /\ \E p \in persons' : p.id = r.person
          /\ \A p \in persons' : p.id <= made
      BY <1>2, <1>6, <1>9, <2>1, <2>2 DEF Exists
    <2>4. ASSUME traffic = "in_turn"
          PROVE  /\ \A p, q \in persons' : p.id = q.id => p = q
                 /\ \A p \in persons' : p.id \in erased => p.name = None /\ p.emails = {}
                 /\ \A p, q \in Unmerged' : p.emails \cap q.emails # {} => p = q
      <3>1. ASSUME NEW p \in persons, NEW q \in persons, G[p].id = G[q].id PROVE G[p] = G[q]
        <4>1. p = q
          BY <1>5, <2>1, <2>4, <3>1
        <4> QED
          BY <4>1
      <3>2. ASSUME NEW p \in persons, G[p].id \in erased PROVE G[p].name = None /\ G[p].emails = {}
        BY <1>4, <1>5, <2>1, <2>4, <3>2
      <3>3. ASSUME NEW p \in persons, NEW q \in persons, G[p].merged = None, G[q].merged = None,
                   G[p].emails \cap G[q].emails # {}
            PROVE  G[p] = G[q]
        <4>1. p \in Unmerged /\ q \in Unmerged
          BY <2>1, <3>3 DEF Unmerged
        <4>2. CASE p.id = q.id
          BY <2>1, <3>1, <4>2
        <4>3. CASE p.id # q.id
          <5>1. CASE r.emails = {} \/ (p.id # r.person /\ q.id # r.person)
            <6>1. G[p].emails = p.emails /\ G[q].emails = q.emails
              BY <2>1, <5>1
            <6>2. p = q
              BY <1>5, <2>4, <3>3, <4>1, <6>1
            <6> QED
              BY <6>2
          <5>2. CASE r.emails # {} /\ p.id = r.person
            <6>1. G[p].emails = r.emails /\ G[q].emails = q.emails
              BY <2>1, <4>3, <5>2
            <6>2. q.emails \cap r.emails = {}
              BY <1>4, <2>4, <4>1, <4>3, <5>2
            <6> QED
              BY <3>3, <6>1, <6>2
          <5>3. CASE r.emails # {} /\ q.id = r.person
            <6>1. G[q].emails = r.emails /\ G[p].emails = p.emails
              BY <2>1, <4>3, <5>3
            <6>2. p.emails \cap r.emails = {}
              BY <1>4, <2>4, <4>1, <4>3, <5>3
            <6> QED
              BY <3>3, <6>1, <6>2
          <5> QED
            BY <5>1, <5>2, <5>3
        <4> QED
          BY <4>2, <4>3
      <3> QED
        BY <1>7, <2>2, <3>1, <3>2, <3>3
    <2> QED
      BY <2>3, <2>4 DEF r
  <1> QED
    BY <1>8, <1>9

LEMMA InvCommit ==
  ASSUME Inv, NEW h \in Handlers, Commit(h)
  PROVE  Inv'
  <1> DEFINE r == req[h]
  <1>1. /\ r.pc = "commit" /\ req' = [req EXCEPT ![h] = Idle]
        /\ UNCHANGED <<day, made, traffic, erased>>
    BY DEF Commit, At
  <1>2. CASE UNCHANGED tables
    <2>1. Goto(h, Idle)
      BY <1>1, <1>2 DEF Goto
    <2> QED
      BY <1>1, <2>1, IdleRequest, IdleReads, InvGoto
  <1>3. CASE /\ persons' = Persons(h)
             /\ affiliations' = IF r.linked THEN affiliations
                                ELSE affiliations \cup {<<r.person, r.body.company>>}
             /\ events' = events \cup AddedBy(r)
             /\ scores' = Scores(h)
             /\ snapshots' = snapshots \cup {<<r.person, r.day>>}
             /\ applied' = IF r.body # None /\ r.body.kind = "apply"
                           THEN applied \cup {r.body.company} ELSE applied
    <2> DEFINE score == [person |-> r.person, basis |-> r.basis]
    <2>1. /\ r \in Request /\ r.id \in Ids /\ r.person \in Ids
          /\ r.body \in Body \/ (r.body = None /\ r.linked /\ ~r.event /\ ~r.new)
          /\ r.linked /\ r.body # None => <<r.person, r.body.company>> \in affiliations
          /\ r.basis \subseteq EventsOf(r.person) \cup AddedBy(r)
          /\ traffic = "in_turn" => r.basis = EventsOf(r.person) \cup AddedBy(r)
      BY <1>1, RequestAt DEF Reads, Alone, Resolved
    <2>2. r.day \in Days /\ r.basis \subseteq Event
      BY <2>1 DEF Request
    <2>3. AddedBy(r) \subseteq Event /\ \A e \in AddedBy(r) : e.person = r.person
      BY <2>1, AddedEvents
    <2>4. /\ score \in Score /\ score.person = r.person /\ score.basis = r.basis
          /\ scores' = {s \in scores : s.person # r.person} \cup {score}
      BY <1>3, <2>1, <2>2 DEF Score, Scores
    <2>5. r.body # None \/ ~r.linked => r.body.company \in Companies
      BY <2>1, Bodies
    <2> HIDE DEF score
    <2>6. /\ persons' \in SUBSET Person
          /\ \A x \in Ids : Exists(x) => Exists(x)'
          /\ \E p \in persons' : p.id = r.person
          /\ \A p \in persons' : p.id <= made
          /\ traffic = "in_turn" =>
               /\ \A p, q \in persons' : p.id = q.id => p = q
               /\ \A p \in persons' : p.id \in erased => p.name = None /\ p.emails = {}
               /\ \A p, q \in Unmerged' : p.emails \cap q.emails # {} => p = q
      BY <1>1, <1>3, CommittedPersons
    <2>7. affiliations \subseteq affiliations' /\ events \subseteq events'
      BY <1>3
    <2>8. /\ req' \in [Handlers -> Request] /\ RequestsRead'
          /\ traffic = "in_turn" => \A g \in Handlers : req'[g].pc = "idle" /\ Alone(req[g])'
      BY <1>1, <2>6, <2>7, Ended
    <2>9. TypeOK'
      <3>1. affiliations' \in SUBSET (Ids \X Companies)
        BY <1>3, <2>1, <2>5 DEF Inv, TypeOK
      <3>2. events' \in SUBSET Event /\ scores' \in SUBSET Score
        BY <1>3, <2>3, <2>4 DEF Inv, TypeOK
      <3>3. snapshots' \in SUBSET (Ids \X Days)
        BY <1>3, <2>1, <2>2 DEF Inv, TypeOK
      <3>4. applied' \in SUBSET Companies
        BY <1>3, <2>5 DEF Inv, TypeOK
      <3> QED
        BY <1>1, <2>6, <2>8, <3>1, <3>2, <3>3, <3>4 DEF Inv, TypeOK
    <2>10. IdsKnown'
      BY <1>1, <2>6 DEF Inv, TypeOK, IdsKnown
    <2>11. ApplicationsHaveFounder'
      <3> SUFFICES ASSUME NEW c \in applied'
                   PROVE  \E p \in persons', s \in scores' :
                            <<p.id, c>> \in affiliations' /\ s.person = p.id
        BY DEF ApplicationsHaveFounder
      <3>1. ASSUME NEW x \in Ids, Exists(x)', <<x, c>> \in affiliations',
                   \E s \in scores' : s.person = x
            PROVE  \E p \in persons', s \in scores' :
                     <<p.id, c>> \in affiliations' /\ s.person = p.id
        <4>1. PICK p \in persons' : p.id = x
          BY <3>1 DEF Exists
        <4>2. <<p.id, c>> \in affiliations' /\ \E s \in scores' : s.person = p.id
          BY <3>1, <4>1
        <4> QED
          BY <4>2
      <3>2. CASE c \in applied
        <4>1. PICK p \in persons, s \in scores : <<p.id, c>> \in affiliations /\ s.person = p.id
          BY <3>2 DEF Inv, ApplicationsHaveFounder
        <4>2. p.id \in Ids /\ Exists(p.id)
          BY Rows DEF Inv, Exists
        <4>3. \E t \in scores' : t.person = p.id
          BY <2>4, <4>1
        <4> DEFINE x == p.id
        <4>4. x \in Ids /\ Exists(x) /\ <<x, c>> \in affiliations' /\ \E t \in scores' : t.person = x
          BY <2>7, <4>1, <4>2, <4>3
        <4> HIDE DEF x
        <4>5. \E y \in persons' : y.id = x
          BY <2>6, <4>4 DEF Exists
        <4> QED
          BY <3>1, <4>4, <4>5 DEF Exists
      <3>3. CASE c \notin applied
        <4>1. r.body # None /\ c = r.body.company
          BY <1>3, <3>3
        <4>2. <<r.person, c>> \in affiliations'
          BY <1>3, <2>1, <4>1
        <4>3. \E s \in scores' : s.person = r.person
          BY <2>4
        <4> HIDE DEF r
        <4> QED
          BY <2>1, <2>6, <3>1, <4>2, <4>3 DEF Exists
      <3> QED
        BY <3>2, <3>3
    <2>12. ScoresMatchEvents'
      <3>1. \A x \in Ids : x # r.person => EventsOf(x)' = EventsOf(x)
        BY <1>3, <2>3 DEF EventsOf
      <3>2. {e \in events' : e.person = r.person} = EventsOf(r.person) \cup AddedBy(r)
        BY <1>3, <2>3 DEF EventsOf
      <3> SUFFICES ASSUME NEW s \in scores'
                   PROVE  /\ s.basis \subseteq {e \in events' : e.person = s.person}
                          /\ traffic = "in_turn" => s.basis = {e \in events' : e.person = s.person}
        BY <1>1 DEF ScoresMatchEvents, EventsOf
      <3>3. CASE s = score
        BY <2>1, <2>4, <3>2, <3>3
      <3>4. CASE s # score
        <4>1. s \in scores /\ s.person # r.person /\ s.person \in Ids
          BY <2>4, <3>4, Rows DEF Inv, Score
        <4>2. {e \in events' : e.person = s.person} = EventsOf(s.person)
          BY <1>3, <2>3, <4>1 DEF EventsOf
        <4> QED
          BY <4>1, <4>2 DEF Inv, ScoresMatchEvents
      <3> QED
        BY <3>3, <3>4
    <2> QED
      BY <1>1, <2>6, <2>8, <2>9, <2>10, <2>11, <2>12 DEF Inv, InTurn, OnePersonPerEmail
  <1> QED
    BY <1>2, <1>3, AddedIs DEF Commit, Ask

(* The day is read by no part of the invariant but its type. *)
LEMMA InvOther ==
  ASSUME Inv, NextDay \/ UNCHANGED vars
  PROVE  Inv'
  <1>1. /\ UNCHANGED <<persons, affiliations, events, scores, snapshots, applied>>
        /\ UNCHANGED <<made, req, traffic, erased, tables>>
    BY DEF NextDay, vars, tables
  <1>2. day' \in Days
    BY FoundersAssumption DEF NextDay, vars, Inv, TypeOK, Days
  <1>3. TypeOK'
    BY <1>1, <1>2 DEF Inv, TypeOK
  <1>4. RequestsRead'
    BY <1>1 DEF Inv, RequestsRead, Reads, Exists, EventsOf, AddedBy
  <1>5. /\ IdsKnown' /\ ApplicationsHaveFounder' /\ ScoresMatchEvents' /\ OnePersonPerEmail'
        /\ traffic' = "in_turn" => /\ \A p, q \in persons' : p.id = q.id => p = q
                                   /\ \A p \in persons' : p.id \in erased' => p.name = None
    <2>1. made' \in Nat /\ made <= made'
      BY <1>1, Rows DEF Inv
    <2> QED
      BY <1>1, <2>1, TablesKept
  <1>6. InTurn'
    <2>1. \A h \in Handlers : Alone(req[h]) => Alone(req[h])'
      BY <1>1 DEF Alone, Exists, EventsOf, AddedBy, Unmerged
    <2> QED
      BY <1>1, <1>5, <2>1 DEF Inv, InTurn
  <1> QED
    BY <1>3, <1>4, <1>5, <1>6 DEF Inv

--------------------------------------------------------------------------------
(* Theorems *)

LEMMA InvStep == Inv /\ [Next]_vars => Inv'
  <1> SUFFICES ASSUME Inv, [Next]_vars PROVE Inv'
    OBVIOUS
  <1>1. ASSUME NEW h \in Handlers,
               \/ Resolve(h) \/ Rescore(h) \/ ReadPerson(h) \/ ReadLinks(h)
               \/ ReadEvents(h) \/ ReadScore(h) \/ Commit(h) \/ ReadMerge(h) \/ CommitMerge(h)
               \/ ReadErase(h) \/ CommitErase(h)
        PROVE  Inv'
    BY <1>1, InvResolve, InvRescore, InvReadPerson, InvReadLinks, InvReadEvents, InvReadScore,
       InvCommit, InvReadMerge, InvCommitMerge, InvReadErase, InvCommitErase
  <1> QED
    BY <1>1, InvOther DEF Next

(* The inductive invariant holds throughout: what a request read before its commit   *)
(* is still there when it commits, and is all there is if it was served alone.       *)
THEOREM Invariance == Spec => []Inv
  BY InvInit, InvStep, PTL DEF Spec

(* Every row of the tables of founders and every request keeps its type. *)
THEOREM TypeCorrectness == Spec => []TypeOK
  <1>1. Inv => TypeOK
    BY DEF Inv
  <1> QED
    BY <1>1, Invariance, PTL

(* Once ensure_application_founder has committed for a company, the company has an   *)
(* affiliated founder with a score, whatever else is served together with it.        *)
THEOREM ApplicationsAreFounded == Spec => []ApplicationsHaveFounder
  <1>1. Inv => ApplicationsHaveFounder
    BY DEF Inv
  <1> QED
    BY <1>1, Invariance, PTL

(* recompute_founder_score never leaves a score resting on events of another person  *)
(* or on events whose transaction failed; served in turn, on all of the person's.    *)
THEOREM ScoresAreOfEvents == Spec => []ScoresMatchEvents
  <1>1. Inv => ScoresMatchEvents
    BY DEF Inv
  <1> QED
    BY <1>1, Invariance, PTL

(* As long as requests are served in turn, an address leads to one unmerged person   *)
(* and gdpr_erase is final: no address comes back to the erased row.                 *)
THEOREM AddressesLeadToOne == Spec => []OnePersonPerEmail
  <1>1. Inv => OnePersonPerEmail
    BY DEF Inv
  <1> QED
    BY <1>1, Invariance, PTL

=================================================================================
