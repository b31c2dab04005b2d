-------------------------------- MODULE Founders --------------------------------
(***************************************************************************)
(* Founders: the persons that applications and harvested signals are       *)
(* resolved to, their affiliations with companies, the events recorded for *)
(* them and the score recomputed from all of their events.  A request      *)
(* looks up the person, the affiliation, the events and the score one by   *)
(* one and commits all it adds together.                                   *)
(*                                                                         *)
(* A person or event created by the nth request has the id n; the events   *)
(* of one signal, one per component, are one event.                        *)
(* A score is known by the events it was computed from.                    *)
(***************************************************************************)
EXTENDS Naturals

CONSTANTS
    Names,           \* normalized names, those of signals included
    Emails,
    Companies,
    Handlers,        \* requests, or runs of a harvest, in progress together
    None,
    MaxRequests,     \* bound on the requests served
    MaxDays          \* bound on the days that pass

ASSUME FoundersAssumption ==
    /\ MaxRequests \in Nat /\ MaxDays \in Nat
    /\ None \notin Nat \cup Names \cup Emails

VARIABLES
    persons, affiliations, events, scores, snapshots,     \* the tables
    applied,         \* companies for which an application was filed
    day, made, req,
    traffic,         \* history: whether two requests were ever served together
    erased           \* history: the persons of erasures that were answered

tables == <<persons, affiliations, events, scores, snapshots, applied>>
vars == <<tables, day, made, req, traffic, erased>>

--------------------------------------------------------------------------------
(* Types *)

Ids == 1..MaxRequests
Days == 0..MaxDays

\* name: None is that of an erased person, which no request asks for; emails:
\* Person.emails; merged: the person it was merged into
Person == [id : Ids, name : Names \cup {None}, emails : SUBSET Emails, merged : Ids \cup {None}]
Event == [id : Ids, person : Ids, kind : {"sample", "signal"}]
Score == [person : Ids, basis : SUBSET Event]

\* What is asked for.  An application may name no contact: the name is then that of
\* an unresolved founder.  proof: it comes with work samples, or is a signal of one
\* of the kinds that events are recorded for.
Body ==
    [kind : {"apply"}, name : Names, email : Emails \cup {None},
     company : Companies, proof : BOOLEAN]
    \cup [kind : {"signal"}, name : Names, email : {None},
          company : Companies, proof : BOOLEAN]

\* id: that of the rows to be added; person: the id found or to be added; emails:
\* what to write to its row, {} for nothing, or what an erasure has loaded; linked, scored, snapped: whether that row was found; event: whether one
\* is added; basis: the events the score is computed from.
Request == [pc : {"idle", "person", "links", "events", "score", "commit", "merge", "erase"},
            id : Ids \cup {None}, body : Body \cup {None}, person : Ids \cup {None},
            new : BOOLEAN, emails : SUBSET Emails, linked : BOOLEAN, event : BOOLEAN,
            basis : SUBSET Event, scored : BOOLEAN, snapped : BOOLEAN, day : Days,
            winner : Ids \cup {None}]
Idle == [pc |-> "idle", id |-> None, body |-> None, person |-> None, new |-> FALSE,
         emails |-> {}, linked |-> FALSE, event |-> FALSE, basis |-> {}, scored |-> FALSE,
         snapped |-> FALSE, day |-> 0, winner |-> None]

TypeOK ==
    /\ persons \in SUBSET Person
    /\ affiliations \in SUBSET (Ids \X Companies)
    /\ events \in SUBSET Event
    /\ scores \in SUBSET Score
    /\ snapshots \in SUBSET (Ids \X Days)
    /\ applied \in SUBSET Companies
    /\ day \in Days
    /\ made \in 0..MaxRequests
    /\ req \in [Handlers -> Request]
    /\ traffic \in {"in_turn", "overlapping"}
    /\ erased \in SUBSET Ids

Init ==
    /\ persons = {} /\ affiliations = {} /\ events = {} /\ scores = {} /\ snapshots = {}
    /\ applied = {}
    /\ day = 0
    /\ made = 0
    /\ req = [h \in Handlers |-> Idle]
    /\ traffic = "in_turn"
    /\ erased = {}

--------------------------------------------------------------------------------
(* Requests *)

At(h, label) == req[h].pc = label
Ask(h) == req[h].body
NewId(h) == req[h].id

Begin(h, r) ==
    /\ At(h, "idle")
    /\ made < MaxRequests
    /\ traffic' = IF \E g \in Handlers : ~At(g, "idle") THEN "overlapping" ELSE traffic
    /\ made' = made + 1
    /\ req' = [req EXCEPT ![h] = [r EXCEPT !.id = made']]
    /\ UNCHANGED <<tables, day, erased>>

Goto(h, r) ==
    /\ req' = [req EXCEPT ![h] = r]
    /\ UNCHANGED <<tables, day, made, traffic, erased>>

Unmerged == {p \in persons : p.merged = None}

\* ensure_application_founder, or resolve_outbound_signal with an identity hint
Resolve(h) ==
    \E b \in Body : Begin(h, [Idle EXCEPT !.pc = "person", !.body = b])

\* rescore_founder, or founder_score_explain when there is no score yet
Rescore(h) ==
    \E p \in Unmerged :
        Begin(h, [Idle EXCEPT !.pc = "events", !.person = p.id, !.linked = TRUE])

\* By address if one is given, else by name.
Candidates(h) ==
    LET byEmail == {p \in Unmerged : Ask(h).email \in p.emails}
    IN IF byEmail # {} THEN byEmail ELSE {p \in Unmerged : p.name = Ask(h).name}

\* Mutant: the new person has no id yet.
Unflushed(h) == None

NewPerson(h) == NewId(h)

\* An address the person does not have is added to those read.
ReadPerson(h) ==
    LET mail == {Ask(h).email} \ {None} IN
    /\ At(h, "person")
    /\ \/ /\ Candidates(h) = {}
          /\ Goto(h, [req[h] EXCEPT !.pc = "links", !.person = NewPerson(h), !.new = TRUE,
                                    !.emails = mail])
       \/ \E p \in Candidates(h) :
            Goto(h, [req[h] EXCEPT !.pc = "links", !.person = p.id,
                       !.emails = IF mail \subseteq p.emails THEN {} ELSE p.emails \cup mail])

EventsOf(p) == {e \in events : e.person = p}

\* Mutant: the affiliation is looked up by the person alone.
AnyLink(h) == \E c \in Companies : <<req[h].person, c>> \in affiliations

Linked(h) == <<req[h].person, Ask(h).company>> \in affiliations

\* _ensure_affiliation's lookup, and the one for an earlier work sample.  A signal
\* is new: no event of it is there yet.
ReadLinks(h) ==
    LET p == req[h].person IN
    /\ At(h, "links")
    /\ Goto(h, [req[h] EXCEPT !.pc = "events",
                  !.linked = Linked(h),
                  !.event = /\ Ask(h).proof
                            /\ \/ Ask(h).kind = "signal"
                               \/ \A e \in EventsOf(p) : e.kind # "sample"])

Added(h) ==
    IF req[h].event
    THEN {[id |-> NewId(h), person |-> req[h].person,
           kind |-> IF Ask(h).kind = "signal" THEN "signal" ELSE "sample"]}
    ELSE {}

\* Mutant: the new event is not flushed before the query.
CommittedEvents(h) == EventsOf(req[h].person)

\* The events the query of recompute_founder_score returns.
Seen(h) == EventsOf(req[h].person) \cup Added(h)

ReadEvents(h) ==
    /\ At(h, "events")
    /\ Goto(h, [req[h] EXCEPT !.pc = "score", !.basis = Seen(h)])

ReadScore(h) ==
    LET p == req[h].person IN
    /\ At(h, "score")
    /\ Goto(h, [req[h] EXCEPT !.pc = "commit",
                  !.scored = \E s \in scores : s.person = p,
                  !.snapped = <<p, day>> \in snapshots, !.day = day])

\* An affiliation, score or snapshot to be added exists by now.
Taken(h) ==
    LET p == req[h].person IN
    \/ ~req[h].linked /\ <<p, Ask(h).company>> \in affiliations
    \/ ~req[h].scored /\ \E s \in scores : s.person = p
    \/ ~req[h].snapped /\ <<p, req[h].day>> \in snapshots

\* The emails column is written whole, if at all.
Persons(h) ==
    LET r == req[h] IN
    IF r.new THEN persons \cup {[id |-> r.person, name |-> Ask(h).name,
                                 emails |-> r.emails, merged |-> None]}
    ELSE {IF p.id = r.person /\ r.emails # {} THEN [p EXCEPT !.emails = r.emails] ELSE p :
            p \in persons}

Scores(h) ==
    {s \in scores : s.person # req[h].person}
      \cup {[person |-> req[h].person, basis |-> req[h].basis]}

Commit(h) ==
    LET p == req[h].person IN
    /\ At(h, "commit")
    /\ \/ Taken(h) /\ UNCHANGED tables
       \/ /\ ~Taken(h)
          /\ persons' = Persons(h)
          /\ affiliations' = IF req[h].linked THEN affiliations
                             ELSE affiliations \cup {<<p, Ask(h).company>>}
          /\ events' = events \cup Added(h)
          /\ scores' = Scores(h)
          /\ snapshots' = snapshots \cup {<<p, req[h].day>>}
          /\ applied' = IF Ask(h) # None /\ Ask(h).kind = "apply"
                        THEN applied \cup {Ask(h).company} ELSE applied
    /\ req' = [req EXCEPT ![h] = Idle]
    /\ UNCHANGED <<day, made, traffic, erased>>

\* merge_founder finds both unmerged; they may be the same.
ReadMerge(h) ==
    \E winner, loser \in Unmerged :
        Begin(h, [Idle EXCEPT !.pc = "merge", !.person = loser.id, !.winner = winner.id])

CommitMerge(h) ==
    /\ At(h, "merge")
    /\ persons' = {IF p.id = req[h].person THEN [p EXCEPT !.merged = req[h].winner] ELSE p :
                     p \in persons}
    /\ req' = [req EXCEPT ![h] = Idle]
    /\ UNCHANGED <<affiliations, events, scores, snapshots, applied, day, made, traffic, erased>>

\* gdpr_erase loads any person, merged or not.
ReadErase(h) ==
    \E p \in persons :
        Begin(h, [Idle EXCEPT !.pc = "erase", !.person = p.id, !.emails = p.emails])

\* Mutant: the person keeps the name it is looked up by.
EraseAddresses(h) ==
    /\ At(h, "erase")
    /\ persons' = {IF p.id = req[h].person
                     THEN [p EXCEPT !.emails = IF req[h].emails = {} THEN @ ELSE {}] ELSE p :
                     p \in persons}
    /\ erased' = erased \cup {req[h].person}
    /\ req' = [req EXCEPT ![h] = Idle]
    /\ UNCHANGED <<affiliations, events, scores, snapshots, applied, day, made, traffic>>

\* Addresses are written only if some were loaded.
CommitErase(h) ==
    /\ At(h, "erase")
    /\ persons' = {IF p.id = req[h].person
                     THEN [p EXCEPT !.name = None,
                                    !.emails = IF req[h].emails = {} THEN @ ELSE {}] ELSE p :
                     p \in persons}
    /\ erased' = erased \cup {req[h].person}
    /\ req' = [req EXCEPT ![h] = Idle]
    /\ UNCHANGED <<affiliations, events, scores, snapshots, applied, day, made, traffic>>

NextDay ==
    /\ day < MaxDays
    /\ day' = day + 1
    /\ UNCHANGED <<tables, made, req, traffic, erased>>

Next ==
    \/ \E h \in Handlers :
         \/ Resolve(h) \/ Rescore(h) \/ ReadPerson(h) \/ ReadLinks(h)
         \/ ReadEvents(h) \/ ReadScore(h) \/ Commit(h) \/ ReadMerge(h) \/ CommitMerge(h)
         \/ ReadErase(h) \/ CommitErase(h)
    \/ NextDay

Spec == Init /\ [][Next]_vars

--------------------------------------------------------------------------------
(* Properties *)

(* docs/frontend-revision-guide.md:17 "Every inbound application now creates or    *)
(* links a Person, founder affiliation, and cold-start Founder Score": also when   *)
(* it overlaps other applications, signals, rescoring and merges.                  *)
ApplicationsHaveFounder ==
    \A c \in applied : \E p \in persons, s \in scores :
        <<p.id, c>> \in affiliations /\ s.person = p.id

(* A score rests on stored events of its person and of nobody else, although it    *)
(* is computed before the transaction that adds the last of them commits or fails; *)
(* as long as requests are served in turn, it reflects all of them.                *)
ScoresMatchEvents ==
    \A s \in scores :
        /\ s.basis \subseteq EventsOf(s.person)
        /\ traffic = "in_turn" => s.basis = EventsOf(s.person)

(* As long as requests are served in turn, an address leads to one unmerged        *)
(* person, after any sequence of applications under different names, signals,      *)
(* merges and erasures, and never comes back to a person that was erased:          *)
(* gdpr_erase answers "recoverable": False.                                        *)
OnePersonPerEmail ==
    traffic = "in_turn" =>
        /\ \A p, q \in Unmerged : p.emails \cap q.emails # {} => p = q
        /\ \A p \in persons : p.id \in erased => p.emails = {}

================================================================================
