# Formal models of Dolphin-VC

TLA+ models of the backend of Dolphin-VC (`src/backend/app`): a web service that
collects companies from public sources and applications, screens them with
background jobs, and presents each to a fund as an *opportunity* with claims,
scores and a memo, on which a reviewer decides.

All state is in a database. Requests (FastAPI handlers) and jobs (arq workers that
run `process_job`) are concurrent processes; each works in a SQLAlchemy session
with `expire_on_commit=False` and `autoflush=False`, so a row that was loaded
once is never read again, and an `UPDATE` writes only the columns that were
assigned. There are no row locks; what serialises processes are uniqueness
constraints. Almost every operation is "read, decide, write later", and that gap
is where this code is hard to test. The models make one action of every read that
is used later and of every commit.

## Inventory

| Component | State | Operations | Interacts with | Hard parts | What makes it correct |
|---|---|---|---|---|---|
| Jobs (`services/jobs.py`, `routers/jobs.py`, `routers/opportunities.py`, `workers/`) | `jobs`, `agent_steps`, arq queue in Redis | create, dispatch, deliver, cancel, retry, reap | handlers create and dispatch; arq delivers; the reaper fails | redelivery while a run goes on, crash between commits, lost dispatch, stale job row | a job leaves one ordered log, one memo, one set of scores; it settles |
| Screening run (`services/pipeline.py`) | prescreen rows, pages, claims, `opportunity_scores`, `memos` | the nine transactions of `process_job` | reads and writes the opportunity | two runs that read "latest version" or "no claims yet" together | the three axes stay in step, claims are extracted once |
| Opportunity record (`routers/opportunities.py`) | stage, version, decision; audit log | edit, decide, archive; the worker's writes | the worker holds a stale copy of the row for minutes | lost updates, optimistic version check | a decision is kept, audited, and a pass rests on evidence |
| Event stream (`job_events`) | cursor of one connection | query, send, read status, reconnect | polls `agent_steps` and `jobs` | rows appear between query and status read; connections break | no step missed or repeated; done arrives |
| Harvest (`_process_harvest`, `routers/operations.py`) | signals, sourcing channels, screening jobs | ask a source, store items, commit, dispatch | creates screening jobs | failing sources, overlap, loss before the late dispatch | items stored once; success means every source was asked |
| Intake (`services/applications.py`, `services/ingestion.py`, `create_manual_opportunity`) | companies, documents, opportunities, applications | apply, add by hand, resolve a signal, archive | feeds jobs | look up, then insert | one company and one live opportunity per candidate |
| Founders (`services/founders.py`, `ingestion.py`, `routers/entities.py`, `gdpr_erase` in `routers/operations.py`) | persons, affiliations, score events, scores, snapshots | resolve, record events, rescore, merge, erase | called by intake and harvest; read by scoring | overlapping recomputation, merge chains, persons found again after their erasure | a score reflects the recorded events; an address leads to one person |
| Scoring (`services/score/`) | none | thesis fit, axes, trust, recommendation | called by the screening run | thresholds and their combinations | a pass comes from a thesis gate, an investment from evidence |
| Accounts (`services/auth.py`, `routers/auth.py`, `routers/orgs.py`) | users, refresh tokens, e-mail tokens, invites | sign up, log in, refresh, log out, reset | all handlers | overlapping refreshes of one token | one line of tokens per session |
| Theses (`routers/theses.py`) | criteria, `is_default`, `deleted_at` | create, edit, delete, set the default | copied to applications, read by the screening run | bulk UPDATE first, own row later; edits from a stale row | one default |
| Memos (`routers/memos.py`, `services/memo.py`) | version, recommendation, gaps | generate, edit in place, regenerate, export | numbered by `process_job` | an edit takes a number while a run is about to | the latest memo is the newest |
| Outreach (`routers/operations.py`) | one row each | approve, send, reject | none: nothing creates one | | |
| Search, connectors, deck parsing, LLM gateway, object store, middleware, configuration | none, or counters | queries and I/O | | | |

`PROJECT.json` lists every component with its status, and every hazard with the
line where it bites and the properties that would catch it.

## Modules

| Module | Models | State in the code | Actions |
|---|---|---|---|
| `JobPipeline` | `create_job`, `dispatch_job`, `cancel_job`, `retry_job`, `reap_stale_jobs`, arq, `process_job` | `jobs`, `agent_steps` (`steps`), prescreen rows, pages, claims, axis scores, memos; `pc`/`cur`/`local` of each run; the queue | one per transaction or separately used read of `process_job` (`Load`, `StepPrescreen`, ..., `Succeed`), one per step of a handler, `Deliver`, `RedisLost`, `Crash`, `Abandon`, the two halves of the reaper |
| `JobLog` | what the rows and the status of a job promise to readers | `log`, `scores`, `memo`, `status` per job | `Create`, `Start`, `Cancel`, `Fail` (several jobs together), `LogStep`, `Score`, `Publish` |
| `JobPipelineProofs` | theorems about `JobPipeline`, `JobEvents` and the two together | | |
| `Opportunity` | PATCH, decide and archive handlers, and the worker's writes to one opportunity row | `row`, applications, evidence, audit log; the session of each request and run (what it loaded, what it changed) | read, decide, commit of each handler; load and flushes of a run |
| `OpportunityProofs` | theorems about `Opportunity` | | |
| `JobEvents` | `job_events` over a job's record, by instantiating `JobLog` | stream cursor and batch, wire, what the client received | `Work` (any step of `JobLog`), `Connect`, `QuerySteps`, `SendStep`, `ReadStatus`, `SendDone`, `Drop`, `Receive` |
| `Harvest` | `_process_harvest` | signals with their screening jobs, channel counters, steps | create, deliver, ask a source, check an item, commit (all items, or those before one that raised: `ItemFails`), conflict, finish, dispatch |
| `HarvestProofs` | theorems about `Harvest` | | |
| `Intake` | `create_application`, `create_manual_opportunity`, `resolve_outbound_signal`, `archive_opportunity` | companies, documents, opportunities, applications | one per lookup, `Commit`, `Archive`, and `Revive` for a run of `process_job` or a PATCH that sets the stage of an archived opportunity |
| `IntakeProofs` | theorems about `Intake` | | |
| `Founders` | `ensure_application_founder`, `_ensure_signal_person`, `_record_founder_events`, `recompute_founder_score`, `merge_founder`, `gdpr_erase` | persons, affiliations, score events, scores, snapshots | one per lookup, `Commit`, merging, erasure, the change of day |
| `FoundersProofs` | theorems about `Founders` | | |
| `Scoring` | `compute_thesis_fit`, `_score_axes`, `recommend`, the gaps of `compose_memo` | none: operators over integers (tenths, hundredths, thousandths) | |
| `Screening` | `routers/theses.py`, `patch_memo`, `regenerate_section`, and `process_job` from the claims to the memo, with the rules of `Scoring` | theses, one opportunity, its claims by category, `opportunity_scores`, memos; the session of each request and run | begin and commit of each handler; `ReadClaims`, `SaveClaims`, `ScoreAxes`, `SaveAxes`, `Advise`, `ReadMemo`, `SaveMemo`, and `Leave` for a run that dies |
| `ScreeningProofs` | theorems about `Screening` | | |
| `Accounts` | `signup`, `create_invite`, `deactivate_user` | users, organisations, invitations, which organisations have an API key with `org:admin` (`keyed`) | one per check, one per commit, `GrantKey` |
| `AccountsProofs` | theorems about `Accounts` | | |
| `Sessions` | `issue_tokens`, `login`, `rotate_refresh_token`, `revoke_refresh`, password change and reset | refresh tokens of one user, reset mails, audited reuse | read and commit of each request, bulk revocation |
| `SessionsProofs` | theorems about `Sessions` | | |

`MC*` modules hold the symmetry sets, and `MCScreening` and `MCOpportunity` the
records their constants stand for; all other constants are given in the `.cfg` files. How the pieces fit together: `JobPipeline` implements `JobLog`, and
`JobEvents` is written against `JobLog`: it lets the record of its job change in every
way `JobLog` allows, and `StreamOverPipeline` proves that what the stream promises
holds over the pipeline itself. `Opportunity`, `JobPipeline` and
`Screening` describe the same runs of `process_job`: the first the row they share
with reviewers, the second which rows they store and in which order, the third what
the claims, scores and recommendations in those rows are. `Harvest`, `Intake` and `Founders` describe the same
request or harvest commit from three sides: screening jobs, companies and
opportunities, persons.

How code is translated:

* An action is one database round trip that another process can come between: a
  read whose result is used later, or a commit. Reads without consequence are
  folded into the next action.
* What a session loaded stays in the local state of its run or request until used.
* A uniqueness constraint is a condition (`Taken`, a step that already exists) on
  which the commit fails and all of the transaction's rows are dropped. In
  `process_job` the failed session makes the commit in the exception handler fail
  too, so the job stays `running` until it is reaped (`pipeline.py:652`).
* Definitions whose comment begins with "Mutant" are not used by a specification.
  They are plausible errors; each property is violated when one of them replaces
  the definition it stands beside (`mutants` in `PROJECT.json`).

## Runs

`CHECK_DEADLOCK FALSE` is set everywhere: ids, deliveries and requests are bounded,
and an instance in which all have been used up, or all jobs are finished, rightly
stops.

| Run | Instance | Checks |
|---|---|---|
| `one_job` | one job, two workers, three deliveries, a readable and a blank deck, keys that expire; fair | `TypeOK`, `StepsInOrder`, `OneMemoPerJob`, `SucceededIsComplete`, `ImplementsJobLog` (refinement), `QuietCancelIsFinal`, `RunningJobsSettle` |
| `two_jobs` | two jobs of one opportunity and deck under `queue_eager`: tasks of the API process, two deliveries each | `AxesInStep`, `OneExtraction` |
| `decisions` | two overlapping requests and a worker on one row, two keys, two decisions, a PATCH of the stage and one that clears the title | `TypeOK`, `PassCitesEvidence`, `DecisionKept`, `DecisionAudited`; decisions in turn `LastDecisionStands`, `DecideOncePerKey` |
| `screening` | two overlapping requests and two runs, four in all, on two theses, two sets of criteria and two kinds of PATCH, a disclosed and an undisclosed company, one deck and one founder score | `TypeOK`, `OneDefault`, `AdviceIsEarned`, `NewestMemoIsLatest`, `OnlyFounderDeclines` |
| `events` | two broken connections; the job is started, failed, cancelled and revived any number of times | `StreamTypeOK`, `NoGapNoRepeat`, `DoneArrives` |
| `harvest` | two harvests or one delivered twice, two sources (one may lack credentials), two items, each of which may raise | `TypeOK`, `SignalsOnce`, `NothingInvented`, `SucceededIsFull` |
| `intake` | three requests on two handlers, two names, one website, one deck, one key; opportunities are archived and revived | `TypeOK`, `ApplicationsResolve`, `OneRecordPerCompany` (names and opportunities in turn) |
| `founders` | three requests on two handlers, two names, two companies, one address, two days | `TypeOK`, `ApplicationsHaveFounder`, `ScoresMatchEvents` (all events in turn); in turn `OnePersonPerEmail` |
| `accounts` | two overlapping handlers, three requests each, three addresses, API keys | `TypeOK`, `OwnerStays`, `InvitesMatchMembers` |
| `sessions` | two overlapping requests, three tokens, one reset mail | `TypeOK`, `LiveAreLeaves`; in turn `OneLivePerFamily` |

What only holds while requests are served one after the other is stated with the
history variable `traffic` of `Opportunity`, `Intake`, `Founders` and `Sessions`,
which remembers whether a request (in `Opportunity`, a decision) ever arrived while
another was being served ("in turn" above). `overlaps` of `Screening` tells three
such overlaps apart: a thesis created while a request makes one the default, a memo
edited while another edit or an insertion is under way, and runs of `process_job`
that overlap. The overlapping behaviours are explored by the same runs.

Two runs show that the code does not do what a document or comment of the
repository says; `findings` in `PROJECT.json` quotes the line.

| Run | What TLC shows |
|---|---|
| `terminal_is_final` | a redelivery, or a run that is still going, takes a settled job back to `running` or on to `succeeded` |
| `queued_jobs_run` | a job whose dispatch was lost stays `queued`: no reaper enqueues it |

What overlap can do beyond that is in the models and listed under `hazards`, with
notes: two overlapping requests with one `Idempotency-Key` create two jobs or
decide twice; a thesis created while another request makes one the default leaves
two defaults; a request that loaded a person before its erasure writes the address
back; two overlapping candidates for a new company give it two live
opportunities; an edit from an outdated view can pass `If-Match`, because the
worker does not always raise the version; a harvest lost before its last step
leaves screening jobs that its retry skips.

Three more things the models show and no property denies:

* Archiving is not final. `process_job` writes its stages over whatever opportunity
  its job names (`pipeline.py:493`, `614`), and PATCH accepts a stage. Apply, archive,
  apply again, and the first job's run leaves two live opportunities of one company.
  `OneRecordPerCompany` exempts what left the archive (`revived`) and nothing else.
* A principal from an API key has no `user_id` (`deps.py:69`), so the check at
  `orgs.py:86` spares nobody: a key with `org:admin` can deactivate the owner, and
  after that only such a key can invite. `OwnerStays` promises an active owner to
  organisations without such a key (`keyed`). No code of the application inserts
  keys; `GrantKey` stands for whoever does. The service token lacks `org:admin`.
* An exception halfway through the items of a source leaves a good session, and the
  handler commits what was added so far (`ItemFails`), perhaps with the signal of the
  item that failed but without its screening job. Later harvests find the signal and
  skip it. The source counts as failed, and the harvest as partial.

Points where code and documents differ, met while modelling and not the subject of
a run: `docs/workflow.txt:26` wants an edit to "create a new version or audit
event", and `patch_memo` rewrites the sections of the memo in place, raises its
number and audits nothing; `regenerate_section` runs the whole job whatever section
it names; `ThesisUpdate` accepts a sector that is both included and excluded, which
`ThesisCreate` refuses; `set_default` accepts a deleted thesis, which applications
then pass over; opportunities of signals have no thesis, hence a fit of 70 and no
gate.

### Why the bounds are enough

Every property about one job relates two of its runs, hence two workers; a third
delivery lets a run start after another has failed. Versions of axes and memos can
be mixed up by two jobs of one opportunity and no fewer. An overlap needs two
handlers, and a state left behind by an earlier request one request more: three in all.
In `screening` an edit of an older memo takes two memos, hence two runs, the edit
and what overlaps it: four. Its deck has just the claims that clear the bar for an
investment; the theorem holds for every deck.
`two_jobs` uses the eager mode, in which two runs of each of two jobs
can overlap with nothing in between; the queue, its losses and redeliveries are in
`one_job`, and the theorems hold in both modes. Named bounds
(`MaxDeliveries`, `MaxVersion`, `MaxAudits`, `MaxRequests`, `MaxTokens`, `MaxMails`,
`MaxDays`, `MaxDrops`) are constants that guard the actions that
count; the theorems hold for every value of them.

### Fairness

`FairSpec` of `JobPipeline` assumes weak fairness of

* the steps of each run, and of the handler that has begun a transaction: asyncio
  does not starve a task, and every database statement returns or times out
  (`session.py` sets a statement and a lock timeout);
* delivery of a queued job to some worker, and arq's dropping of a job after
  `max_tries`;
* the reaper choosing a stale running job and committing: it is scheduled every
  minute and "stale" becomes true of a job whose worker is gone or silent.

Clients, faults and Redis are not fair: nobody has to retry or cancel anything.
`JobEvents` assumes that the stream goes on polling and that the client reads and
reconnects; the job itself need not make progress, and `DoneArrives` asks only for
jobs that settle for good. `NoGapNoRepeat` promises a prefix of the log, not all of it:
the steps and the status are read by two queries, and a job that succeeds in between
ends the stream with done before its last step was sent. The counterexample of `queued_jobs_run` is found under
`FairSpec`: the job stays queued although everything above acts.

## Proofs

TLAPS checks every proof to the last leaf. The assumptions are `PipelineAssumption`
(`None` is not a job, opportunity or deck; the flags are Boolean; blank decks are
decks), its counterparts in the other modules (bounds are natural numbers; `None` is
not an id, a name, an address or a key; keyless sources are sources), and that `None`
is neither the input of a job (`NoInputAssumption`) nor an invitation
(`NoneAssumption` of `Accounts`), which those models use it to tell apart, and `ScreeningAssumption`: must-haves are
finitely many, decks yield natural numbers of claims and one about the product at
most (`_product_claim`), founder scores are at least 300 (`compute_founder_score`
adds to 300), and `None` is none of the rows. The theorems hold for every
set of jobs, workers, handlers, documents, theses, companies, addresses and sources and
every number of deliveries and requests. The parts of each inductive invariant were
checked with TLC on the instances of the runs before they were proved.

`JobPipelineProofs`

* `TypeCorrectness`. `TypeOK` is not inductive: `retry_job` copies the input of a
  row, `_score_axes` reads three versions. `Types` adds that whatever names a job
  names an inserted one, and how many axis versions a run has read.
* `LogOrder`, `MemoUniqueness`, `SuccessIsComplete`. The argument is that step 1 is
  a lock: `agent_steps(job_id, seq)` is unique, so the first run to commit a step
  excludes all others from going on. `History` says it step by step: a run that is
  past step n finds exactly `1..n` in the log (`RunsMatchLog`), only one run of a
  job is past step 1 (`OneAdvancedRun`), and scores and memo of a job exist in the
  quantity that the log and the run's place imply (`AxisHistory`, `MemoHistory`).
  Most actions do not touch the log or go past a step; `QuietHistory` disposes of
  them together, and the seven writing actions have a lemma each.
* `Refinement`. `Spec => ImplementsJobLog`: every step of the pipeline is a step of
  `JobLog` or leaves it unchanged, with the number of score versions and memos of a
  job as the refinement mapping and the status as it is. The rows need `History`; the
  status needs `Began`: nothing sets a job back to queued, so a run past its first
  commit, a run that loaded the job as running (and will not write the status again)
  and a victim of the reaper all have a job that was started, although it may have
  been cancelled or failed since. `StatusMoves` lists the ways in which any step
  changes the statuses, and `QuietImplements` finds each of them in `JobLog`.
* `CancellationIsFinal`. A cancellation that no run past its status check and no
  sweep of the reaper is racing is never undone.
* `AxesAreInStep`. Runs of different jobs share an opportunity, so step 1 is no lock
  here. `AxesRead`: a version that a run has read still exists (or was 0), though it
  may no longer be the latest. Versions have no gaps, so if a newer one exists its
  successor is taken and the constraint refuses the transaction; if not, the run read
  the latest of each axis, and these are equal because the axes were in step.
* `ClaimsAreExtractedOnce`. `Extraction`: claims come from a deck whose pages are
  stored (`ClaimRows`); stored pages of a deck that has claims to offer have a job
  whose opportunity has claims (`PageRows`); and a run that found the pages of its
  opportunity's own deck found the claims as well (`RunRead`), because both were
  committed together. So only the run that stores the pages first adds claims, and
  then there are none. Inputs of jobs never change, hence a deck that is an
  opportunity's own now was so when the run read.
* `StreamTypeCorrectness`, `StreamOrder` (of `JobEvents`). `NoGapNoRepeat` is about what
  the client received; `Followed` says what lies behind it: received events and events
  in flight are consecutive numbers, of which only the last one on the wire may be
  done (`InFlight`); the cursor of an open stream is the last number sent, whatever the
  client has received of it (`Cursor`); the rows it fetched continue the cursor
  without a gap although the log may have grown since (`Fetched`); and no stream is
  open once done has arrived (`Ended`). A lost connection empties the wire, so that
  the id the client names when it reconnects is where the events it has end.
* `StreamOverPipeline`. The composition: if `job_events` polls what `JobPipeline` stores
  of a job (`Polls`) and stream and client act on nothing else (`FollowSpec`), the client
  of any of the pipeline's jobs gets its steps in order. `OneOfTheJobs` restricts the
  steps of `JobLog` for all jobs to those of the one that is followed; with
  `Refinement`'s lemmas this discharges what `JobEvents` assumes of the record.

`OpportunityProofs`

* `TypeCorrectness`, `PassRestsOnEvidence`, `DecisionsAreAudited`, `DecisionIsKept`
  for any number of requests and workers. The invariant carries what each session
  may hold: an edit sets a title or clears it (PATCH stores an explicit null) and
  never the stage to null, a request that is about to commit a pass has counted
  evidence, which is never removed, and a worker's session never marks the decision column as changed.
* `LatestDecisionStands`, `KeysDecideOnce`: while decisions are taken in turn, the
  row shows the decision audited last and a key decides once. `TurnInv` says what
  the one decision in progress has read, and that it still holds.

`ScreeningProofs`

* Lemmas about the rules: no axis that `_score_axes` computes is below 35, the fit
  is 0 only if a gate is closed (`FitIsPositive`), hence `recommend` passes only on a
  gate (`AdviceGiven`); 70 on idea_vs_market takes five claims of traction or revenue
  (`BarTakesTraction`).
* `TypeCorrectness`. `Inv` adds what each request and run holds when its next step
  needs it: theses and memos that exist, scores of at least 35, advice that is gated.
  Nothing is ever deleted, so `Frame` keeps it for all requests and runs but one.
* `DefaultIsUnique`. `DefaultsInv`: a request that makes a thesis the default has
  found every thesis there is, and one that creates a thesis for it is alone. An edit
  or deletion writes `is_default` only to clear it (`ThesisFlushed`).
* `LatestMemoIsNewest`. `MemosInv`: the version an edit loaded is still that of its
  memo, and the version a run read is still the latest or its successor is taken, so
  the constraint refuses all runs but one.
* `AdviceRestsOnEvidence`, `DeclineIsTheFounders`. `RunsInv`: without overlap the
  claims are none or those of one deck, a run past `ReadClaims` holds exactly them,
  and no stored score of the axes that rest on claims exceeds what they give now.

`SessionsProofs`

* `TypeCorrectness`, `LiveTokensAreLeaves`, `SessionsHaveOneToken`. `Inv` adds that a
  request names a token that exists (`RequestsName`), that the number of a family is
  that of a token issued, so that a login starts an unused one (`FamiliesBegun`), and
  that while requests are served in turn there is one in progress and the token it
  found live still is (`InTurn`). `LiveAreLeaves` needs none of the last: it holds for
  overlapping refreshes too, because nothing ever clears `revoked_at`.

`HarvestProofs`

* `TypeCorrectness`, `ItemsStoredOnce`, `CountsAreHonest`, `SuccessIsFull`. `RunsRead`
  says what a run holds between two commits: every source it has left behind has its
  step or is among its failures, the rows it is about to insert are of the current
  source, what it will dispatch is stored or about to be, and the counter it read did
  not exceed the signals of the source. The last is kept because signals are never
  deleted and the rows inserted are new ones, which the uniqueness constraint of
  `signals` ensures at the commit; adding them to an old counter can lose
  increments of another run but not invent any. A commit after an exception is the same
  commit (`InvSave`): the counter leaves out the signal of the item that failed. Cardinalities need the signals to be
  finite, which `Inv` carries along.

`IntakeProofs`

* `TypeCorrectness`, `ApplicationsAreResolved`. `RequestsRead`: what a request has
  found is there and is what it was looking for; nothing is deleted, so this survives
  every other request, also one that archives the opportunity.
* `CompaniesAreNotSplit`. `InTurn` adds the reverse for a request that is served alone:
  what it has not found is not there (`Misses`), so adding it splits nothing. A website
  has one company without that, by `uq_companies_live_domain`. Archiving and revival
  need no more than that a revived opportunity stays in `revived`.

`FoundersProofs`

* `TypeCorrectness`, `ApplicationsAreFounded`, `ScoresAreOfEvents`. `RequestsRead`: the
  person a request found exists, or it adds the person under its own id; the link it
  found is there; its score rests on events of the person that are stored or that the
  same commit adds. Persons, links and events are only added or rewritten under their
  id, so overlap does not disturb this (`Ended`).
* `AddressesLeadToOne`. `InTurn`: of a request served alone, the id is unused, nobody
  else has the addresses it will write (a candidate by name is taken only if nobody
  has the address), these do not go to an erased person (whose name no request asks
  for), and an erasure has loaded the addresses it blanks. `InvRewrite` covers merge
  and erasure: rows that lose names and addresses, or are merged, cannot collide.

`AccountsProofs`

* `TypeCorrectness`, `OwnersStay`, `InvitationsAreMembers`. `Inv` adds that new ids are
  fresh and ids are unique, what each request has read (`RequestsRead`: the invitation
  exists and was for the address that signs up, the user to be removed is no owner
  or of an organisation with an API key),
  and `Founded`: the owner of an organisation is the user whose sign-up created it, and
  no invitation is for an owner. Roles never change, so the check of
  `deactivate_user` is not stale when it commits; two sign-ups that found one
  invitation usable are told apart by the uniqueness of `users.email`.

Only model-checked: liveness (`RunningJobsSettle`, `DoneArrives`), which needs
`ENABLED`. Every invariant and action property of the runs has a theorem.

## What is not modelled

* Values: titles, rationales, texts of claims and memos. In `JobPipeline` and
  `Founders` a score is known by the rows it was computed from; `Scoring` computes
  the axes and the fit in integers from the numbers of claims in a deck and a founder
  score that may be any. The founder score itself (`score/founder.py`) and the trust
  score (`score/trust.py`) are floating-point functions out of TLC's reach.
* Several organisations: all models but `Accounts` follow one. (`_process_harvest`
  looks for duplicates without asking for the organisation, so a signal that one
  organisation stored is skipped by the harvests of all others.)
* Explicit nulls in a PATCH of a thesis: the JSON columns keep them. Null sectors,
  stages or geographies read as an empty list, which `Criteria` may hold; null
  `anti_sectors` or `must_haves` make later runs raise (`score/thesis.py:24`, `45`),
  which in `Screening` are runs that `Leave`.
* Rows written by the demo seed: `OnlyFounderDeclines` is about scores that runs
  store, not about the axes that `scripts/seed.py` (158-175) makes up.
* The event stream of a harvest, whose steps have gaps where a source was skipped:
  `NoGapNoRepeat` is about jobs with the record of `JobLog`.
* Outreach: approve, send and reject set the status of rows that nothing in the
  application creates. The rate limiter: a counter that nothing else reads.
* Login counters, e-mail verification, profile edits; soft deletion and public
  status of applications; knowledge-base chunks and channel edges.
* Search, connectors, deck parsing, LLM gateway, object store, configuration: I/O
  or read-only queries without protocol state.

## Plan

Done: jobs, opportunity record, event stream, harvest, intake, founders, accounts,
sessions, screening with theses and memos, in this order, as the table above lists
them. What is left:

1. Theorems: every invariant and safety property of the runs has one. Liveness stays
   with TLC.
2. A run for `docs/workflow.txt:26` (edits of memos), once edits are audited
   somewhere or the document is changed.
3. E-mail verification and login counters in `Accounts`; knowledge-base chunks and
   channel edges in `Intake`.
