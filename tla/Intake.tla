--------------------------------- MODULE Intake ---------------------------------
(***************************************************************************)
(* How candidates enter a fund: applications (submit_application and the   *)
(* public form), opportunities created by hand, and signals a harvest has  *)
(* stored.  Each resolves the company it names, finds or creates the live  *)
(* opportunity of that company, and commits everything it added at once.   *)
(* Between its reads and its commit other requests commit.                 *)
(*                                                                         *)
(* A row created by the nth request has the id n.  An application and its  *)
(* job are one row: they are added together.  Founders and their scores    *)
(* are left out.                                                           *)
(***************************************************************************)
EXTENDS Naturals

CONSTANTS
    Names,           \* normalized company names
    Domains,         \* host names of company websites
    Decks,           \* deck contents, told apart by their hash
    Keys,            \* Idempotency-Key values of submitted applications
    Handlers,        \* requests, or runs of a harvest, in progress together
    None,
    MaxRequests      \* bound on the requests served

ASSUME IntakeAssumption ==
    /\ MaxRequests \in Nat
    /\ None \notin Nat \cup Domains \cup Decks \cup Keys

VARIABLES
    companies, documents, opportunities, applications,     \* the tables
    archived,        \* ids of the archived opportunities
    revived,         \* history: ids of those that left the archive again
    made,            \* number of requests begun
    req,             \* handler -> its request in progress
    traffic          \* history: whether two requests were ever served together

tables == <<companies, documents, opportunities, applications, archived, revived>>
vars == <<tables, made, req, traffic>>

--------------------------------------------------------------------------------
(* Types *)

Ids == 1..MaxRequests

Company == [id : Ids, name : Names, domain : Domains \cup {None}]
Document == [id : Ids, deck : Decks]
Opportunity == [id : Ids, company : Ids]
Application == [id : Ids, key : Keys \cup {None}, name : Names,
                domain : Domains \cup {None}, deck : Decks \cup {None},
                opportunity : Ids, document : Ids \cup {None}]

\* What is asked for: the body of the request, or the item of the signal.  An
\* application has a deck or a website; only a submitted one has a key.  A manual
\* entry that gives the id of a company is one that gives its name and finds it.
Body ==
    {b \in [kind : {"apply"}, name : Names, domain : Domains \cup {None},
            deck : Decks \cup {None}, key : Keys \cup {None}] :
       b.deck # None \/ b.domain # None}
    \cup [kind : {"signal"}, name : Names, domain : Domains \cup {None},
          deck : {None}, key : {None}]
    \cup [kind : {"manual"}, name : Names, domain : {None}, deck : {None}, key : {None}]

\* id: that of the rows to be added; company, document, opportunity: the ids found, None where a row is to be added.
Request == [pc : {"idle", "key", "domain", "name", "document", "opportunity", "commit"},
            id : Ids \cup {None}, body : Body \cup {None}, company : Ids \cup {None},
            document : Ids \cup {None}, opportunity : Ids \cup {None}]
Idle == [pc |-> "idle", id |-> None, body |-> None, company |-> None,
         document |-> None, opportunity |-> None]

TypeOK ==
    /\ companies \in SUBSET Company
    /\ documents \in SUBSET Document
    /\ opportunities \in SUBSET Opportunity
    /\ applications \in SUBSET Application
    /\ archived \in SUBSET Ids /\ revived \in SUBSET Ids
    /\ made \in 0..MaxRequests
    /\ req \in [Handlers -> Request]
    /\ traffic \in {"in_turn", "overlapping"}

Init ==
    /\ companies = {} /\ documents = {} /\ opportunities = {} /\ applications = {}
    /\ archived = {} /\ revived = {}
    /\ made = 0
    /\ req = [h \in Handlers |-> Idle]
    /\ traffic = "in_turn"

--------------------------------------------------------------------------------
(* Requests *)

Live(o) == o.id \notin archived
Ask(h) == req[h].body

\* Goes on to the given step with the given values read.
Goto(h, r) ==
    /\ req' = [req EXCEPT ![h] = r]
    /\ UNCHANGED <<tables, made, traffic>>

\* A request arrives at h.
Begin(h) ==
    /\ req[h].pc = "idle"
    /\ made < MaxRequests
    /\ traffic' = IF \E g \in Handlers : req[g].pc # "idle" THEN "overlapping" ELSE traffic
    /\ made' = made + 1
    /\ \E b \in Body :
         req' = [req EXCEPT ![h] = [Idle EXCEPT !.pc = "key", !.id = made', !.body = b]]
    /\ UNCHANGED tables

\* A job with this key exists; there is no time limit here.
Replayed(h) ==
    /\ Ask(h).key # None
    /\ \E a \in applications : a.key = Ask(h).key

\* A replay answers with the application it finds and adds nothing.
ReadKey(h) ==
    /\ req[h].pc = "key"
    /\ Goto(h, IF Replayed(h) THEN Idle ELSE [req[h] EXCEPT !.pc = "domain"])

\* The company of the website, if one is given,
ReadDomain(h) ==
    LET found == {c \in companies : Ask(h).domain # None /\ c.domain = Ask(h).domain} IN
    /\ req[h].pc = "domain"
    /\ \/ /\ found = {}
          /\ Goto(h, [req[h] EXCEPT !.pc = "name"])
       \/ \E c \in found :
            Goto(h, [req[h] EXCEPT !.pc = "document", !.company = c.id])

\* else one of that name, in no particular order, else a new one.
Named(h) == {c \in companies : c.name = Ask(h).name}

ReadName(h) ==
    /\ req[h].pc = "name"
    /\ \/ /\ Named(h) = {}
          /\ Goto(h, [req[h] EXCEPT !.pc = "document"])
       \/ \E c \in Named(h) :
            Goto(h, [req[h] EXCEPT !.pc = "document", !.company = c.id])

ReadDocument(h) ==
    LET found == {d \in documents : d.deck = Ask(h).deck} IN
    /\ req[h].pc = "document"
    /\ \/ /\ found = {}
          /\ Goto(h, [req[h] EXCEPT !.pc = "opportunity"])
       \/ \E d \in found :
            Goto(h, [req[h] EXCEPT !.pc = "opportunity", !.document = d.id])

\* Mutants: opportunities of any company are found, or none.
AnyLive(h) == {o \in opportunities : Live(o)}
NoneLive(h) == {}

\* The live opportunities of the company.
LiveOf(h) == {o \in opportunities : o.company = req[h].company /\ Live(o)}

\* create_manual_opportunity refuses to add a second one; the others attach to it.
ReadOpportunity(h) ==
    /\ req[h].pc = "opportunity"
    /\ \/ /\ LiveOf(h) = {}
          /\ Goto(h, [req[h] EXCEPT !.pc = "commit"])
       \/ \E o \in LiveOf(h) :
            Goto(h, IF Ask(h).kind = "manual" THEN Idle
                    ELSE [req[h] EXCEPT !.pc = "commit", !.opportunity = o.id])

\* A company to be added has a website that is in use by now, or a document a hash
\* that is.
Taken(h) ==
    \/ /\ req[h].company = None /\ Ask(h).domain # None
       /\ \E c \in companies : c.domain = Ask(h).domain
    \/ /\ req[h].document = None /\ Ask(h).deck # None
       /\ \E d \in documents : d.deck = Ask(h).deck

\* The id of the rows the request adds.
NewId(h) == req[h].id

\* Mutant: the row refers to what was found, even if that was nothing.
FoundOnly(h, found) == found

\* The row found, or the one that is added for want of it.
FoundOrNew(h, found) == IF found = None THEN NewId(h) ELSE found

Commit(h) ==
    LET b == Ask(h)
        id == NewId(h)
        opportunity == FoundOrNew(h, req[h].opportunity)
        document == IF b.deck = None THEN None ELSE FoundOrNew(h, req[h].document)
    IN
    /\ req[h].pc = "commit"
    /\ \/ Taken(h) /\ UNCHANGED tables         \* the transaction fails
       \/ /\ ~Taken(h)
          /\ companies' = IF req[h].company # None THEN companies
               ELSE companies \cup {[id |-> id, name |-> b.name, domain |-> b.domain]}
          /\ documents' = IF b.deck = None \/ req[h].document # None THEN documents
               ELSE documents \cup {[id |-> id, deck |-> b.deck]}
          /\ opportunities' = IF req[h].opportunity # None THEN opportunities
               ELSE opportunities \cup {[id |-> id, company |-> FoundOrNew(h, req[h].company)]}
          /\ applications' = IF b.kind # "apply" THEN applications
               ELSE applications \cup
                 {[id |-> id, key |-> b.key, name |-> b.name, domain |-> b.domain,
                   deck |-> b.deck, opportunity |-> opportunity, document |-> document]}
          /\ UNCHANGED <<archived, revived>>
    /\ req' = [req EXCEPT ![h] = Idle]
    /\ UNCHANGED <<made, traffic>>

\* archive_opportunity
Archive(o) ==
    /\ Live(o)
    /\ archived' = archived \cup {o.id}
    /\ UNCHANGED <<companies, documents, opportunities, applications, revived>>
    /\ UNCHANGED <<made, req, traffic>>

\* A run of process_job writes its stage over the archived one, as PATCH may: the job
\* may have been queued before the archiving or after it.
Revive(o) ==
    /\ ~Live(o)
    /\ archived' = archived \ {o.id}
    /\ revived' = revived \cup {o.id}
    /\ UNCHANGED <<companies, documents, opportunities, applications, made, req, traffic>>

Next ==
    \/ \E h \in Handlers :
         \/ Begin(h) \/ ReadKey(h) \/ ReadDomain(h) \/ ReadName(h)
         \/ ReadDocument(h) \/ ReadOpportunity(h) \/ Commit(h)
    \/ \E o \in opportunities : Archive(o) \/ Revive(o)

Spec == Init /\ [][Next]_vars

--------------------------------------------------------------------------------
(* Properties *)

(* An application reaches the company it is about, through whatever rows it and  *)
(* the requests before it found or added: one of its name or of its website.  Its *)
(* document is the deck that was sent.                                           *)
ApplicationsResolve ==
    \A a \in applications :
        /\ \E o \in opportunities, c \in companies :
             /\ o.id = a.opportunity /\ c.id = o.company
             /\ c.name = a.name \/ (a.domain # None /\ c.domain = a.domain)
        /\ a.deck # None => \E d \in documents : d.id = a.document /\ d.deck = a.deck

(* Companies are not split, whether applications, signals and manual entries name  *)
(* them by website, by name or by both: a website has one company, however requests *)
(* overlap; a name has one as long as requests are served in turn.  Then a company  *)
(* has one live opportunity too, app/services/opportunities.py:292 "A live          *)
(* opportunity already exists for this company.", or else another one came back     *)
(* from the archive: nobody who revives an opportunity looks for a newer one.       *)
OneRecordPerCompany ==
    /\ \A c, d \in companies : c.domain # None /\ c.domain = d.domain => c = d
    /\ traffic = "in_turn" =>
         /\ \A c, d \in companies : c.name = d.name => c = d
         /\ \A o, p \in opportunities :
              Live(o) /\ Live(p) /\ o.company = p.company =>
                o = p \/ o.id \in revived \/ p.id \in revived

================================================================================
