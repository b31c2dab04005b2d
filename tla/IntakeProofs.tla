------------------------------ MODULE IntakeProofs ------------------------------
(* Theorems about Intake, for any names, websites, decks, keys and requests. *)
EXTENDS Intake, TLAPS

--------------------------------------------------------------------------------
(* The invariant *)

IsNamed(c, b) == c.name = b.name \/ (b.domain # None /\ c.domain = b.domain)

(* What a request has found is there, and is what it was looking for. *)
Reads(r) ==
    /\ r.pc # "idle" => r.id \in Ids /\ r.id <= made /\ r.body \in Body
    /\ r.company # None => \E c \in companies : c.id = r.company /\ IsNamed(c, r.body)
    /\ r.document # None => \E d \in documents : d.id = r.document /\ d.deck = r.body.deck
    /\ r.opportunity # None =>
         /\ r.pc = "commit" /\ r.company # None
         /\ \E o \in opportunities : o.id = r.opportunity /\ o.company = r.company

RequestsRead == \A h \in Handlers : Reads(req[h])

(* Opportunities are of companies, whose ids are those of requests begun. *)
Linked ==
    /\ \A o \in opportunities : \E c \in companies : c.id = o.company
    /\ \A c \in companies : c.id <= made

(* What a request served alone has not found is not there either: its id is unused, *)
(* no company has the name, and no opportunity of the company is live, unless it    *)
(* came back from the archive.                                                      *)
Misses(r) ==
    /\ r.pc # "idle" => \A c \in companies : c.id # r.id
    /\ r.pc \in {"document", "opportunity", "commit"} /\ r.company = None =>
         \A c \in companies : c.name # r.body.name
    /\ r.pc = "commit" /\ r.opportunity = None =>
         \A o \in opportunities : o.company = r.company => ~Live(o) \/ o.id \in revived

InTurn ==
    traffic = "in_turn" =>
        /\ \A g, h \in Handlers : req[g].pc # "idle" /\ req[h].pc # "idle" => g = h
        /\ \A h \in Handlers : Misses(req[h])

Inv ==
    /\ TypeOK /\ RequestsRead /\ Linked /\ InTurn
    /\ ApplicationsResolve /\ OneRecordPerCompany

--------------------------------------------------------------------------------
(* Types *)

LEMMA Rows ==
  ASSUME TypeOK
  PROVE  /\ \A c \in companies : c \in Company /\ c.id \in Ids
         /\ \A d \in documents : d \in Document /\ d.id \in Ids /\ d.deck \in Decks
         /\ \A o \in opportunities : o \in Opportunity /\ o.id \in Ids /\ o.company \in Ids
         /\ made \in Nat /\ None \notin Ids /\ Ids \subseteq Nat /\ MaxRequests \in Nat
  BY IntakeAssumption DEF TypeOK, Company, Document, Opportunity, Ids

LEMMA Bodies ==
  ASSUME NEW b \in Body
  PROVE  /\ b.name \in Names /\ b.domain \in Domains \cup {None}
         /\ b.deck \in Decks \cup {None} /\ b.key \in Keys \cup {None}
         /\ b.kind \in {"apply", "signal", "manual"}
  BY DEF Body

LEMMA IdleRequest ==
  /\ Idle \in Request /\ Idle.pc = "idle" /\ Idle.company = None /\ Idle.document = None
  /\ Idle.opportunity = None
  BY DEF Idle, Request

LEMMA IdleReads == Reads(Idle) /\ Misses(Idle)
  BY IdleRequest DEF Reads, Misses

LEMMA RequestAt ==
  ASSUME Inv, NEW h \in Handlers, req[h].pc # "idle"
  PROVE  /\ req[h] \in Request /\ Reads(req[h]) /\ req[h].body \in Body /\ req[h].id \in Ids
         /\ traffic = "in_turn" => /\ Misses(req[h])
                                   /\ \A g \in Handlers : g # h => req[g].pc = "idle"
  BY DEF Inv, TypeOK, RequestsRead, Reads, InTurn

LEMMA InvInit == Init => Inv
  <1> SUFFICES ASSUME Init PROVE Inv
    OBVIOUS
  <1>1. TypeOK
    BY IdleRequest, IntakeAssumption DEF Init, TypeOK
  <1>2. \A h \in Handlers : req[h] = Idle
    BY DEF Init
  <1>3. RequestsRead /\ InTurn
    BY <1>2, IdleRequest, IdleReads DEF RequestsRead, InTurn
  <1>4. Linked /\ ApplicationsResolve /\ OneRecordPerCompany
    BY DEF Init, Linked, ApplicationsResolve, OneRecordPerCompany
  <1> QED
    BY <1>1, <1>3, <1>4 DEF Inv

--------------------------------------------------------------------------------
(* Steps that keep the tables *)

LEMMA InvGoto ==
  ASSUME Inv, NEW h \in Handlers, req[h].pc # "idle", NEW r \in Request, Goto(h, r),
         Reads(r), traffic = "in_turn" => Misses(r)
  PROVE  Inv'
  <1>1. /\ UNCHANGED <<companies, documents, opportunities, applications, archived, revived>>
        /\ UNCHANGED <<made, traffic>> /\ req' = [req EXCEPT ![h] = r]
    BY DEF Goto, tables
  <1>2. /\ req' \in [Handlers -> Request] /\ req'[h] = r
        /\ \A g \in Handlers : g # h => req'[g] = req[g]
    BY <1>1 DEF Inv, TypeOK
  <1>3. TypeOK'
    BY <1>1, <1>2 DEF Inv, TypeOK
  <1>4. RequestsRead'
    BY <1>1, <1>2 DEF Inv, RequestsRead, Reads, IsNamed
  <1>5. Linked' /\ ApplicationsResolve' /\ OneRecordPerCompany'
    BY <1>1 DEF Inv, Linked, ApplicationsResolve, OneRecordPerCompany, Live
  <1>6. InTurn'
    <2> SUFFICES ASSUME traffic = "in_turn"
                 PROVE  /\ \A g, k \in Handlers : req'[g].pc # "idle" /\ req'[k].pc # "idle" => g = k
                        /\ \A g \in Handlers : Misses(req[g])'
      BY <1>1 DEF InTurn
    <2>1. \A g \in Handlers : Misses(req[g])
      BY DEF Inv, InTurn
    <2>2. \A g \in Handlers : g # h => req[g].pc = "idle"
      BY RequestAt
    <2>3. \A g \in Handlers : Misses(req[g])'
      BY <1>1, <1>2, <2>1 DEF Misses, Live
    <2> QED
      BY <1>2, <2>2, <2>3
  <1> QED
    BY <1>3, <1>4, <1>5, <1>6 DEF Inv

LEMMA InvBegin ==
  ASSUME Inv, NEW h \in Handlers, Begin(h)
  PROVE  Inv'
  <1>1. /\ UNCHANGED <<companies, documents, opportunities, applications, archived, revived>>
        /\ req[h].pc = "idle" /\ made < MaxRequests /\ made' = made + 1
        /\ traffic' = IF \E g \in Handlers : req[g].pc # "idle" THEN "overlapping" ELSE traffic
    BY DEF Begin, tables
  <1>2. PICK b \in Body :
          req' = [req EXCEPT ![h] = [Idle EXCEPT !.pc = "key", !.id = made', !.body = b]]
    BY DEF Begin
  <1> DEFINE n == made + 1
             r == [Idle EXCEPT !.pc = "key", !.id = n, !.body = b]
  <1>3. n \in Ids /\ n <= made' /\ \A c \in companies : c.id # n
    BY <1>1, Rows DEF Inv, Linked, Ids
  <1>4. req' = [req EXCEPT ![h] = r]
    BY <1>1, <1>2
  <1> HIDE DEF n
  <1>5. /\ r \in Request /\ r.pc = "key" /\ r.id = n /\ r.body = b /\ r.company = None
        /\ r.document = None /\ r.opportunity = None
    BY <1>3 DEF Idle, Request
  <1> HIDE DEF r
  <1>6. /\ req' \in [Handlers -> Request] /\ req'[h] = r
        /\ \A g \in Handlers : g # h => req'[g] = req[g]
    BY <1>4, <1>5 DEF Inv, TypeOK
  <1>7. TypeOK'
    <2>1. made' \in 0..MaxRequests
      BY <1>1, Rows DEF Inv
    <2> QED
      BY <1>1, <1>6, <2>1 DEF Inv, TypeOK
  <1>8. RequestsRead'
    <2>1. ASSUME NEW g \in Handlers, g # h PROVE Reads(req[g])'
      <3>1. Reads(req[g]) /\ req'[g] = req[g]
        BY <1>6, <2>1 DEF Inv, RequestsRead
      <3>2. \A x \in Ids : x <= made => x <= made'
        BY <1>1, Rows DEF Inv
      <3> QED
        BY <1>1, <3>1, <3>2 DEF Reads, IsNamed
    <2>2. Reads(req[h])'
      BY <1>3, <1>5, <1>6 DEF Reads
    <2> QED
      BY <2>1, <2>2 DEF RequestsRead
  <1>9. Linked'
    BY <1>1, Rows DEF Inv, Linked
  <1>10. ApplicationsResolve' /\ OneRecordPerCompany'
    BY <1>1 DEF Inv, ApplicationsResolve, OneRecordPerCompany, Live
  <1>11. InTurn'
    <2> SUFFICES ASSUME traffic' = "in_turn"
                 PROVE  /\ \A g, k \in Handlers : req'[g].pc # "idle" /\ req'[k].pc # "idle" => g = k
                        /\ \A g \in Handlers : Misses(req[g])'
      BY DEF InTurn
    <2>1. \A g \in Handlers : req[g].pc = "idle"
      BY <1>1
    <2>2. \A g \in Handlers : Misses(req[g])'
      BY <1>1, <1>3, <1>5, <1>6, <2>1 DEF Misses
    <2> QED
      BY <1>6, <2>1, <2>2
  <1> QED
    BY <1>7, <1>8, <1>9, <1>10, <1>11 DEF Inv

--------------------------------------------------------------------------------
(* The lookups *)

LEMMA InvReadKey ==
  ASSUME Inv, NEW h \in Handlers, ReadKey(h)
  PROVE  Inv'
  <1> DEFINE q == req[h]
             r == [q EXCEPT !.pc = "domain"]
  <1>1. q.pc = "key" /\ (Goto(h, Idle) \/ Goto(h, r))
    BY DEF ReadKey
  <1>2. q \in Request /\ Reads(q) /\ (traffic = "in_turn" => Misses(q))
    BY <1>1, RequestAt
  <1>3. /\ r \in Request /\ r.pc = "domain" /\ r.id = q.id /\ r.body = q.body
        /\ r.company = q.company /\ r.document = q.document /\ r.opportunity = q.opportunity
    BY <1>2 DEF Request
  <1> HIDE DEF r
  <1>4. Reads(r) /\ (traffic = "in_turn" => Misses(r))
    BY <1>1, <1>2, <1>3 DEF Reads, Misses
  <1> QED
    BY <1>1, <1>3, <1>4, IdleRequest, IdleReads, InvGoto

(* A company that is found, by its website or its name *)
LEMMA InvFound ==
  ASSUME Inv, NEW h \in Handlers, req[h].pc \in {"domain", "name"}, NEW c \in companies,
         IsNamed(c, req[h].body), Goto(h, [req[h] EXCEPT !.pc = "document", !.company = c.id])
  PROVE  Inv'
  <1> DEFINE q == req[h]
             r == [q EXCEPT !.pc = "document", !.company = c.id]
  <1>1. q \in Request /\ Reads(q) /\ (traffic = "in_turn" => Misses(q)) /\ c.id \in Ids /\ c.id # None
    BY RequestAt, Rows DEF Inv
  <1>2. /\ r \in Request /\ r.pc = "document" /\ r.id = q.id /\ r.body = q.body
        /\ r.company = c.id /\ r.document = q.document /\ r.opportunity = q.opportunity
    BY <1>1 DEF Request
  <1>3. Goto(h, r)
    OBVIOUS
  <1> HIDE DEF r
  <1>4. Reads(r) /\ (traffic = "in_turn" => Misses(r))
    BY <1>1, <1>2 DEF Reads, Misses
  <1> QED
    BY <1>2, <1>3, <1>4, InvGoto

LEMMA InvReadDomain ==
  ASSUME Inv, NEW h \in Handlers, ReadDomain(h)
  PROVE  Inv'
  <1> DEFINE q == req[h]
             r == [q EXCEPT !.pc = "name"]
  <1>1. /\ q.pc = "domain"
        /\ \/ Goto(h, r)
           \/ \E c \in companies : /\ q.body.domain # None /\ c.domain = q.body.domain
                                   /\ Goto(h, [q EXCEPT !.pc = "document", !.company = c.id])
    BY DEF ReadDomain, Ask
  <1>2. q \in Request /\ Reads(q) /\ (traffic = "in_turn" => Misses(q))
    BY <1>1, RequestAt
  <1>3. /\ r \in Request /\ r.pc = "name" /\ r.id = q.id /\ r.body = q.body
        /\ r.company = q.company /\ r.document = q.document /\ r.opportunity = q.opportunity
    BY <1>2 DEF Request
  <1>4. ASSUME NEW c \in companies, q.body.domain # None, c.domain = q.body.domain,
               Goto(h, [q EXCEPT !.pc = "document", !.company = c.id])
        PROVE  Inv'
    BY <1>1, <1>4, InvFound DEF IsNamed
  <1> HIDE DEF r
  <1>5. Reads(r) /\ (traffic = "in_turn" => Misses(r))
    BY <1>1, <1>2, <1>3 DEF Reads, Misses
  <1>6. CASE Goto(h, r)
    BY <1>1, <1>3, <1>5, <1>6, InvGoto
  <1> QED
    BY <1>1, <1>4, <1>6

LEMMA InvReadName ==
  ASSUME Inv, NEW h \in Handlers, ReadName(h)
  PROVE  Inv'
  <1> DEFINE q == req[h]
             r == [q EXCEPT !.pc = "document"]
  <1>1. /\ q.pc = "name"
        /\ \/ Goto(h, r) /\ \A c \in companies : c.name # q.body.name
           \/ \E c \in companies : /\ c.name = q.body.name
                                   /\ Goto(h, [q EXCEPT !.pc = "document", !.company = c.id])
    BY DEF ReadName, Named, Ask
  <1>2. q \in Request /\ Reads(q) /\ (traffic = "in_turn" => Misses(q))
    BY <1>1, RequestAt
  <1>3. /\ r \in Request /\ r.pc = "document" /\ r.id = q.id /\ r.body = q.body
        /\ r.company = q.company /\ r.document = q.document /\ r.opportunity = q.opportunity
    BY <1>2 DEF Request
  <1>4. ASSUME NEW c \in companies, c.name = q.body.name,
               Goto(h, [q EXCEPT !.pc = "document", !.company = c.id])
        PROVE  Inv'
    BY <1>1, <1>4, InvFound DEF IsNamed
  <1> HIDE DEF r
  <1>5. CASE Goto(h, r) /\ \A c \in companies : c.name # q.body.name
    <2>1. Reads(r) /\ (traffic = "in_turn" => Misses(r))
      BY <1>1, <1>2, <1>3, <1>5 DEF Reads, Misses
    <2> QED
      BY <1>1, <1>3, <1>5, <2>1, InvGoto
  <1> QED
    BY <1>1, <1>4, <1>5

LEMMA InvReadDocument ==
  ASSUME Inv, NEW h \in Handlers, ReadDocument(h)
  PROVE  Inv'
  <1> DEFINE q == req[h]
             r == [q EXCEPT !.pc = "opportunity"]
             t(d) == [q EXCEPT !.pc = "opportunity", !.document = d.id]
  <1>1. /\ q.pc = "document"
        /\ \/ Goto(h, r)
           \/ \E d \in documents : d.deck = q.body.deck /\ Goto(h, t(d))
    BY DEF ReadDocument, Ask
  <1>2. q \in Request /\ Reads(q) /\ (traffic = "in_turn" => Misses(q))
    BY <1>1, RequestAt
  <1>3. /\ r \in Request /\ r.pc = "opportunity" /\ r.id = q.id /\ r.body = q.body
        /\ r.company = q.company /\ r.document = q.document /\ r.opportunity = q.opportunity
    BY <1>2 DEF Request
  <1>4. ASSUME NEW d \in documents, d.deck = q.body.deck, Goto(h, t(d))
        PROVE  Inv'
    <2>1. d.id \in Ids
      BY Rows DEF Inv
    <2>2. /\ t(d) \in Request /\ t(d).pc = "opportunity" /\ t(d).id = q.id /\ t(d).body = q.body
          /\ t(d).company = q.company /\ t(d).document = d.id /\ t(d).opportunity = q.opportunity
      BY <1>2, <2>1 DEF Request
    <2> HIDE DEF t
    <2>3. Reads(t(d)) /\ (traffic = "in_turn" => Misses(t(d)))
      BY <1>1, <1>2, <1>4, <2>2 DEF Reads, Misses
    <2> QED
      BY <1>1, <1>4, <2>2, <2>3, InvGoto
  <1> HIDE DEF r
  <1>5. Reads(r) /\ (traffic = "in_turn" => Misses(r))
    BY <1>1, <1>2, <1>3 DEF Reads, Misses
  <1>6. CASE Goto(h, r)
    BY <1>1, <1>3, <1>5, <1>6, InvGoto
  <1> QED
    BY <1>1, <1>4, <1>6

LEMMA InvReadOpportunity ==
  ASSUME Inv, NEW h \in Handlers, ReadOpportunity(h)
  PROVE  Inv'
  <1> DEFINE q == req[h]
             r == [q EXCEPT !.pc = "commit"]
             t(o) == [q EXCEPT !.pc = "commit", !.opportunity = o.id]
  <1>1. /\ q.pc = "opportunity"
        /\ \/ Goto(h, r) /\ \A o \in opportunities : o.company = q.company => ~Live(o)
           \/ Goto(h, Idle)
           \/ \E o \in opportunities : o.company = q.company /\ Goto(h, t(o))
    BY DEF ReadOpportunity, LiveOf
  <1>2. q \in Request /\ Reads(q) /\ (traffic = "in_turn" => Misses(q))
    BY <1>1, RequestAt
  <1>3. /\ r \in Request /\ r.pc = "commit" /\ r.id = q.id /\ r.body = q.body
        /\ r.company = q.company /\ r.document = q.document /\ r.opportunity = q.opportunity
    BY <1>2 DEF Request
  <1>4. ASSUME NEW o \in opportunities, o.company = q.company, Goto(h, t(o))
        PROVE  Inv'
    <2>1. o.id \in Ids /\ o.id # None /\ o.company # None
      BY Rows DEF Inv
    <2>2. /\ t(o) \in Request /\ t(o).pc = "commit" /\ t(o).id = q.id /\ t(o).body = q.body
          /\ t(o).company = q.company /\ t(o).document = q.document /\ t(o).opportunity = o.id
      BY <1>2, <2>1 DEF Request
    <2> HIDE DEF t
    <2>3. Reads(t(o)) /\ (traffic = "in_turn" => Misses(t(o)))
      BY <1>1, <1>2, <1>4, <2>1, <2>2 DEF Reads, Misses
    <2> QED
      BY <1>1, <1>4, <2>2, <2>3, InvGoto
  <1>5. CASE Goto(h, Idle)
    BY <1>1, <1>5, IdleRequest, IdleReads, InvGoto
  <1> HIDE DEF r
  <1>6. CASE Goto(h, r) /\ \A o \in opportunities : o.company = q.company => ~Live(o)
    <2>1. Reads(r) /\ (traffic = "in_turn" => Misses(r))
      BY <1>1, <1>2, <1>3, <1>6 DEF Reads, Misses
    <2> QED
      BY <1>1, <1>3, <1>6, <2>1, InvGoto
  <1> QED
    BY <1>1, <1>4, <1>5, <1>6

--------------------------------------------------------------------------------
(* The commit, and the archive *)

(* All rows of a request are added together. *)
LEMMA InvCommit ==
  ASSUME Inv, NEW h \in Handlers, Commit(h)
  PROVE  Inv'
  <1> DEFINE q == req[h]
             b == q.body
             id == q.id
             company == FoundOrNew(h, q.company)
             opportunity == FoundOrNew(h, q.opportunity)
             document == IF b.deck = None THEN None ELSE FoundOrNew(h, q.document)
             C == [id |-> id, name |-> b.name, domain |-> b.domain]
             D == [id |-> id, deck |-> b.deck]
             O == [id |-> id, company |-> company]
             A == [id |-> id, key |-> b.key, name |-> b.name, domain |-> b.domain,
                   deck |-> b.deck, opportunity |-> opportunity, document |-> document]
  <1>1. q.pc = "commit" /\ req' = [req EXCEPT ![h] = Idle] /\ UNCHANGED <<made, traffic>>
    BY DEF Commit
  <1>2. /\ q \in Request /\ Reads(q) /\ b \in Body /\ id \in Ids
        /\ traffic = "in_turn" => /\ Misses(q)
                                  /\ \A g \in Handlers : g # h => req[g].pc = "idle"
    BY <1>1, RequestAt
  <1>3. CASE UNCHANGED tables
    <2>1. Goto(h, Idle)
      BY <1>1, <1>3 DEF Goto
    <2> QED
      BY <1>1, <2>1, IdleRequest, IdleReads, InvGoto
  <1>4. CASE ~Taken(h) /\ ~UNCHANGED tables
    <2>1. /\ companies' = IF q.company # None THEN companies ELSE companies \cup {C}
          /\ documents' = IF b.deck = None \/ q.document # None THEN documents
                          ELSE documents \cup {D}
          /\ opportunities' = IF q.opportunity # None THEN opportunities
                              ELSE opportunities \cup {O}
          /\ applications' = IF b.kind # "apply" THEN applications ELSE applications \cup {A}
          /\ archived' = archived /\ revived' = revived
      BY <1>4 DEF Commit, NewId, Ask
    <2>2. /\ company = IF q.company = None THEN id ELSE q.company
          /\ opportunity = IF q.opportunity = None THEN id ELSE q.opportunity
          /\ b.deck # None => document = IF q.document = None THEN id ELSE q.document
      BY DEF FoundOrNew, NewId
    <2>3. /\ b.name \in Names /\ b.domain \in Domains \cup {None}
          /\ b.deck \in Decks \cup {None} /\ b.key \in Keys \cup {None}
      BY <1>2, Bodies
    <2>4. /\ company \in Ids /\ opportunity \in Ids /\ document \in Ids \cup {None}
      BY <1>2, <2>2 DEF Request
    <2>5. C.id = id /\ C.name = b.name /\ C.domain = b.domain /\ D.id = id /\ D.deck = b.deck
          /\ O.id = id /\ O.company = company
      OBVIOUS
    <2>6. /\ A.name = b.name /\ A.domain = b.domain /\ A.deck = b.deck
          /\ A.opportunity = opportunity /\ A.document = document
      OBVIOUS
    <2> HIDE DEF company, opportunity, document
    <2>7. C \in Company /\ O \in Opportunity /\ A \in Application
      BY <1>2, <2>3, <2>4 DEF Company, Opportunity, Application
    <2>8. b.deck # None => D \in Document
      BY <1>2, <2>3 DEF Document
    <2> HIDE DEF C, D, O, A, b, id, q
    <2>9. /\ companies \subseteq companies' /\ documents \subseteq documents'
          /\ opportunities \subseteq opportunities' /\ applications \subseteq applications'
      BY <2>1
    <2>10. /\ req' \in [Handlers -> Request] /\ req'[h] = Idle
           /\ \A g \in Handlers : g # h => req'[g] = req[g]
      BY <1>1, IdleRequest DEF Inv, TypeOK
    <2>11. TypeOK'
      BY <1>1, <2>1, <2>7, <2>8, <2>10 DEF Inv, TypeOK
    <2>12. RequestsRead'
      <3>1. ASSUME NEW g \in Handlers, g # h PROVE Reads(req[g])'
        <4>1. Reads(req[g]) /\ req'[g] = req[g]
          BY <2>10, <3>1 DEF Inv, RequestsRead
        <4> QED
          BY <1>1, <2>9, <4>1 DEF Reads, IsNamed
      <3>2. Reads(req[h])'
        BY <2>10, IdleRequest DEF Reads
      <3> QED
        BY <3>1, <3>2 DEF RequestsRead
    <2>13. \E c \in companies' : c.id = company /\ IsNamed(c, b)
      <3>1. CASE q.company = None
        BY <2>1, <2>2, <2>5, <3>1 DEF IsNamed
      <3>2. CASE q.company # None
        BY <1>2, <2>2, <2>9, <3>2 DEF Reads, b
      <3> QED
        BY <3>1, <3>2
    <2>14. Linked'
      <3>1. id <= made
        BY <1>1, <1>2 DEF Reads, id
      <3> QED
        BY <1>1, <2>1, <2>5, <2>9, <2>13, <3>1 DEF Inv, Linked
    <2>15. ApplicationsResolve'
      <3> SUFFICES ASSUME NEW a \in applications'
                   PROVE  /\ \E o \in opportunities', c \in companies' :
                               /\ o.id = a.opportunity /\ c.id = o.company
                               /\ c.name = a.name \/ (a.domain # None /\ c.domain = a.domain)
                          /\ a.deck # None =>
                               \E d \in documents' : d.id = a.document /\ d.deck = a.deck
        BY DEF ApplicationsResolve
      <3>1. CASE a \in applications
        BY <2>9, <3>1 DEF Inv, ApplicationsResolve
      <3>2. CASE a = A
        <4>1. \E o \in opportunities' : o.id = opportunity /\ o.company = company
          <5>1. CASE q.opportunity = None
            BY <2>1, <2>2, <2>5, <5>1
          <5>2. CASE q.opportunity # None
            BY <1>2, <2>2, <2>9, <5>2 DEF Reads
          <5> QED
            BY <5>1, <5>2
        <4>2. b.deck # None => \E d \in documents' : d.id = document /\ d.deck = b.deck
          <5>1. CASE q.document = None
            BY <2>1, <2>2, <2>5, <5>1
          <5>2. CASE q.document # None
            BY <1>2, <2>2, <2>9, <5>2 DEF Reads, b
          <5> QED
            BY <5>1, <5>2
        <4> QED
          BY <2>6, <2>13, <3>2, <4>1, <4>2 DEF IsNamed
      <3> QED
        BY <2>1, <3>1, <3>2
    <2>16. InTurn'
      <3> SUFFICES ASSUME traffic = "in_turn"
                   PROVE  /\ \A g, k \in Handlers : req'[g].pc # "idle" /\ req'[k].pc # "idle" => g = k
                          /\ \A g \in Handlers : Misses(req[g])'
        BY <1>1 DEF InTurn
      <3>1. \A g \in Handlers : req'[g].pc = "idle"
        BY <1>2, <2>10, IdleRequest
      <3> QED
        BY <3>1 DEF Misses
    <2>17. OneRecordPerCompany'
      <3>1. \A c, d \in companies' : c.domain # None /\ c.domain = d.domain => c = d
        <4>1. q.company = None /\ b.domain # None => \A c \in companies : c.domain # b.domain
          BY <1>4 DEF Taken, Ask, b, q
        <4> QED
          BY <2>1, <2>5, <4>1 DEF Inv, OneRecordPerCompany
      <3>2. ASSUME traffic = "in_turn"
            PROVE  \A c, d \in companies' : c.name = d.name => c = d
        BY <1>1, <1>2, <2>1, <2>5, <3>2 DEF Inv, OneRecordPerCompany, Misses, b
      <3>3. ASSUME traffic = "in_turn", q.opportunity = None, NEW o \in opportunities,
                   o.company = company
            PROVE  ~Live(o) \/ o.id \in revived
        <4>1. CASE q.company = None
          <5>1. \A c \in companies : c.id # id
            BY <1>1, <1>2, <3>3 DEF Misses, id
          <5> QED
            BY <2>2, <3>3, <4>1, <5>1 DEF Inv, Linked
        <4>2. CASE q.company # None
          BY <1>1, <1>2, <2>2, <3>3, <4>2 DEF Misses
        <4> QED
          BY <4>1, <4>2
      <3>4. ASSUME traffic = "in_turn", NEW o \in opportunities', NEW p \in opportunities',
                   Live(o), Live(p), o.company = p.company
            PROVE  o = p \/ o.id \in revived \/ p.id \in revived
        BY <2>1, <2>5, <3>3, <3>4 DEF Inv, OneRecordPerCompany
      <3> QED
        BY <1>1, <2>1, <3>1, <3>2, <3>4 DEF OneRecordPerCompany, Live
    <2> QED
      BY <2>11, <2>12, <2>14, <2>15, <2>16, <2>17 DEF Inv
  <1> QED
    BY <1>3, <1>4 DEF Commit

LEMMA InvArchive ==
  ASSUME Inv, NEW o \in opportunities, Archive(o) \/ Revive(o)
  PROVE  Inv'
  <1>1. /\ \/ archived' = archived \cup {o.id} /\ revived' = revived
           \/ archived' = archived \ {o.id} /\ revived' = revived \cup {o.id}
        /\ UNCHANGED <<companies, documents, opportunities, applications, made, req, traffic>>
    BY DEF Archive, Revive
  <1>2. TypeOK'
    BY <1>1, Rows DEF Inv, TypeOK
  <1>3. RequestsRead' /\ Linked' /\ ApplicationsResolve'
    BY <1>1 DEF Inv, RequestsRead, Reads, IsNamed, Linked, ApplicationsResolve
  <1>4. \A p : Live(p)' => Live(p) \/ p.id \in revived'
    BY <1>1 DEF Live
  <1>5. revived \subseteq revived'
    BY <1>1
  <1>6. InTurn'
    BY <1>1, <1>4, <1>5 DEF Inv, InTurn, Misses
  <1>7. OneRecordPerCompany'
    BY <1>1, <1>4, <1>5 DEF Inv, OneRecordPerCompany
  <1> QED
    BY <1>2, <1>3, <1>6, <1>7 DEF Inv

LEMMA InvStep == Inv /\ [Next]_vars => Inv'
  <1> SUFFICES ASSUME Inv, [Next]_vars PROVE Inv'
    OBVIOUS
  <1>1. CASE UNCHANGED vars
    <2>1. UNCHANGED <<companies, documents, opportunities, applications, archived, revived,
                    made, req, traffic>>
      BY <1>1 DEF vars, tables
    <2> QED
      BY <2>1 DEF Inv, TypeOK, RequestsRead, Reads, IsNamed, Linked, InTurn, Misses, Live,
         ApplicationsResolve, OneRecordPerCompany
  <1> QED
    BY <1>1, InvBegin, InvReadKey, InvReadDomain, InvReadName, InvReadDocument,
       InvReadOpportunity, InvCommit, InvArchive DEF Next

--------------------------------------------------------------------------------
(* The theorems *)

(* What the requests that bring in candidates hold between their lookups and their   *)
(* commit, and what the tables keep, for any interleaving with archiving and revival.*)
THEOREM Invariance == Spec => []Inv
  BY InvInit, InvStep, PTL DEF Spec

(* Rows and requests have their types; every application has an opportunity.         *)
THEOREM TypeCorrectness == Spec => []TypeOK
  BY Invariance, PTL DEF Inv

(* However applications, signals and manual entries overlap, each application hangs  *)
(* on an opportunity of a company with its name or website, and on its own deck.     *)
THEOREM ApplicationsAreResolved == Spec => []ApplicationsResolve
  BY Invariance, PTL DEF Inv

(* However requests overlap, a website has one company.  Served in turn, requests    *)
(* keep one company per name, and one live opportunity per company among those that  *)
(* never left the archive, also when opportunities are archived and revived while a  *)
(* request is under way.                                                             *)
THEOREM CompaniesAreNotSplit == Spec => []OneRecordPerCompany
  BY Invariance, PTL DEF Inv

=================================================================================
