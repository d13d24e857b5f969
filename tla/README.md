# EstateLink lead engine: TLA+ specifications

A verification development kept beside the Go sources of the lead engine. The
modules are translated from the code under `src/`, one action per database
statement or handler step; TLC checks them on small instances, and TLAPS proves
the theorems of the `*_proofs` modules for every value of the constants.
`PROJECT.json` lists the runs, the source lines behind each definition, the
mutants that show each property can fail, the hazards and the theorems.

## Running

    tlc -workers 2 -config MCImportRace.cfg MCImportPipeline
    tlapm ImportPipeline_proofs.tla

## 1. Inventory

The API is one Go process in front of PostgreSQL. Handlers run concurrently, one
goroutine per request; an import runs on in a goroutine of its own after its
request has been answered. Except for `PropertyStrategyScoreRepository.SaveMany`
there is no transaction in the code: a use case is a sequence of statements, and
all of the shared state is in the tables.

| Component | State | Operations | Interacts through | Hard about it |
|---|---|---|---|---|
| Bulk import (`application/importlistings`) | `import_jobs`, `raw_listings`, the goroutine's position | start, mark processing, save raw, ingest, count, settle, log | job row polled by clients; raw row shared by uploads of one property | partial failure, dropped errors, crash, races between uploads |
| Ingest (`application/ingestlisting`) | `listings`, `lead_scores`, `property_strategy_scores` | three writes in order | called by the import and by `POST /api/listings` | no common transaction |
| Scoring (`domain/lead/scorer.go`, `application/scorestrategies`) | none: functions of a listing | one lead score with a grade, six strategy scores | called by the ingest | order of tiers, caps, missing data, thresholds |
| Sessions (`application/auth`, the two middlewares) | `users.role`; tokens held by clients | login, refresh, authenticate, change a role | claims inside tokens | stale claims, check then act, time |
| Accounts (`auth.Register`, `cmd/createadmin`) | `users` | register, promote, create | the UNIQUE email | look up then insert in two processes |
| Direct ingest (`listing_handler.go`) | the request's position and context | three writes, one log entry, the answer | the same ingest as the import | a client that goes away cancels it midway |
| Lead read API (`readleads`, `lead_read_repository.go`) | none; a client keeps an offset | list, get | reads what the ingest writes | two queries per read, OFFSET pages over an order with ties |
| Router and middlewares (`cmd/api`, `auth_middleware.go`, `role_middleware.go`) | the groups of routes | authenticate, require a role | tokens on one side, handlers on the other | the guard is where the route is registered |
| Activity log (`logactivity`) | `activity_log` | insert, list, get | best-effort calls of the handlers and the import | its errors are dropped |
| Connection pool (`pgxpool`) | connections in use | acquire, release | shared by every statement of every goroutine | a holder that asks for another |
| Configuration, migrations, property images | - | - | - | - |

What makes each component correct, and where it is stated:

* Import: a poller's job only moves forward, counts nothing that is not in the
  catalogue, and settles; what the activity log and `raw_listings` say agrees
  with it; faults can cost counts but never invent them (`ImportPipeline`,
  against the abstract `JobLedger`).
* Scoring: a stored score is the sum of its points, a better deal never scores
  lower, top grades have evidence (`Scoring`).
* Sessions: a role that was taken away goes out of use within a bound, and only
  recent admins change roles (`Sessions`).
* Accounts: what was answered with success stays true (`Accounts`).
* Direct ingest and lead reads: a lead is shown bare or whole, and whole once its
  ingest was answered; a walk of the pages misses and repeats only what the order
  leaves open or a newcomer shifts; no log entry is about a listing that is not
  there; all requests end (`LeadCatalogue`).
* Access: a guarded route serves who has had a role it is for, and every role
  comes from the operator in the end (`AccessControl`, against the abstract
  `Authority`).

## 2. Modules and how they correspond to the code

| Module | Models |
|---|---|
| `JobLedger` | what a job promises a poller of `GET /api/imports/{id}`: forward-only status, counters within the upload and within what is live |
| `ImportPipeline` | `StartCleanListingsImport`, `processImportJob`, `processOne` and `ingestlisting.Execute`, statement by statement |
| `Scoring` | both scorers over a listing, and the next upload of the same property |
| `Sessions` | login, refresh, the two middlewares, `UpdateUserRole`, the promotion by createadmin, and the clock |
| `Accounts` | `Register` and createadmin racing for an address |
| `LeadCatalogue` | `POST /api/listings` against `GET /api/leads` and `GET /api/leads/{id}`, on the connections of one pool |
| `Authority` | what the API promises of roles: an address is registered once and as a viewer, the operator makes admins, and only an account that has been an admin gives roles |
| `AccessControl` | composes `Accounts` (INSTANCE) with logins, refreshes, the guarded groups of the router, role changes and the log of logins |
| `MC*` | instances for TLC (constants, symmetry) |
| `*_proofs` | theorems and their proofs |

**ImportPipeline.** `pc[j]` is the statement the goroutine of upload `j` runs
next; its labels are the calls of `processImportJob` and `processOne` in their
order. `job`, `raw`, `catalog` and `audit` are the tables: `catalog[j][i]` says
how far the listing of item `i` got (absent, listed, scored, complete), since the
lead queries join `lead_scores` and a listing alone is invisible. Every statement
has an outcome: `ok`, `err` (no effect) or `lost` (effect, and an error all the
same, as when the connection breaks after the commit). A read has no `lost`. The
items are of three kinds: rejected before any statement, accepted by
`raw_listings` and refused by `listings`, and good. Errors the code drops
(`IncrementProcessed`, `IncrementFailed`, `MarkFailed`, the log) do not change
where the goroutine goes. `Crash` ends every goroutine; nothing in the code
resumes one. The uploads of one process and the callers are independent, so each
upload's contents are chosen in `Create`.

**Scoring.** Numbers are integers; `float64` comparisons are replaced by exact
ones, which agree over the range of INTEGER (the values the scorers see have been
through the INSERT). A text is what the scorers ask of it. `Relist`,
`Reappraise` and `Readvertise` are the next upload of the property with another
price and a greater age, other estimates, another advertisement: each one inserts
a new listing and runs `Ingest`, so consecutive states are consecutive leads of
one property, and the action properties compare them.

**Sessions.** Time is a tick. `access[u][r]` is the rest of the life of the
youngest access token that claims role `r` for user `u`; older ones open nothing
it does not, and nothing in the code distinguishes two tokens with the same
claims. A request is a slot with an age of at most `MaxLatency`; the read of the
row (`Login`, `FindForRefresh`) and the signing (`GenerateTokenPair`) are separate
steps, as are the check and the UPDATE of a role change. Authorisation looks at
the token alone, as `AuthMiddleware` and `RequireRole` do.

**Accounts.** `users` by address; `Normal` is `TrimSpace(ToLower(email))`. The
look-up and the INSERT are separate steps with the hash between them, and the
UNIQUE constraint refuses the second INSERT. `answered` remembers what callers
were told had succeeded; an INSERT can be committed and its answer lost.
Role changes by admins belong to `Sessions` and `AccessControl`.

**LeadCatalogue.** `pc[i]` is the next statement of an ingest: the listing, its
score, then `SaveMany` as Begin, one INSERT per strategy and Commit, then the
entry in the log and the 201. The rows of the open transaction (`pending`) are in
no reader's view; `strategies` is what is committed. A lead is its score and its
`created_at`, since nothing else orders the pages; `created_at` is chosen freely
because `now()` is the start of the statement, not its commit. A reader walks the
pages with the number of rows it has got as its offset until a page is empty, or
gets one lead by id. `QueryPage` takes one snapshot: any two prefixes of the order
that the ties allow, one `LIMIT` longer than the other. The strategy scores are
fetched by a second step, from whatever is committed by then. `base`, `got`,
`again` and `known` are history: what matched when the walk began, what was shown,
what was shown twice, and which leads of the page had been answered with 201 when
the page was read. `FreeConnection` counts the connections held between steps:
an open transaction has one, and so has a page whose rows are being read. A client
that goes away is an `err` or a `lost` of the statement under way.

**AccessControl.** The rows, `Register` and createadmin are those of `Accounts`.
A caller that has read a row keeps the role it read in `call` until its handler
has finished, so a role may be taken away between the read and the signing, or
between the middlewares and the handler. `trail` has the entries of logins
(`LogBestEffort`); `changed` is what `UpdateUserRole` has touched. `held` and
`operator` are history. Time is left to `Sessions`: here a token lives for ever,
which only allows more. `Authority` has neither callers, nor tokens, nor reads that
go stale: its state is the role of each account (read off `users`) and the same
history, and each of its actions is one step. `AuthoritySpec` says that all the
looking up, carrying and writing late of `AccessControl` comes to no more than
those: an INSERT of a registration is a `Register`, what createadmin writes is a
`MakeAdmin`, the UPDATE of a role change is a `Grant` by an account that has been
an admin, and everything else changes no role.

## 3. Runs

| Run | Instance | Asks |
|---|---|---|
| `import_race` | two uploads of up to 2 items of one key, 2 faults, 1 crash | what the shared raw row, the two jobs and the log say in every interleaving; an exact report when nothing fails, and otherwise a failed statement for each gap in the two reports; the inductive invariant of the proofs |
| `import_faults` | one upload of up to 3 items of 2 keys, 3 faults, 1 crash | bounds on what faults can do; that every statement brings the goroutine nearer to its end; refinement of `JobLedger` |
| `import_liveness` | one upload of up to 3 items, 2 faults, 1 crash, fair | goroutines end, jobs settle |
| `scoring` | a grid with a value on each side of every threshold | caps, evidence, monotonicity |
| `sessions` | 2 users, 2 requests, lives of 1 tick, latency 1 | staleness bounds, and the inductive invariant |
| `sessions_liveness` | 1 user, 2 requests, lives 2 and 3, fair | convergence of the claims |
| `accounts` | 3 spellings of 2 addresses, 2 passwords, 2 callers | what was answered stays true |
| `asked_role`, `admin_spelling` | the same | two of the disagreements below |
| `lead_catalogue` | 2 ingests with 2 strategies each, 1 reader, limits 1 and 2, a pool of 2, 1 fault, fair | what pages show, miss and repeat; the log of ingests; that requests end, and after how many steps; the inductive invariant |
| `access_control` | 2 addresses, 2 callers, log inserts may fail | whom routes serve and where roles come from; refinement of `Authority`; the inductive invariant |
| `role_change_logged` | the same, log inserts succeed | the third disagreement |

*Why the bounds are enough.* A race needs two uploads of one key, and the verdict
of a row can be wrong only through two statements of one upload around one of the
other: two items each, one key and one fault reach all of it; with two faults and a
crash the inductive invariant is checked where both uploads have lost something, and one
of them midway. Two faults are needed to leave
a stuck job without a trace, as many as items to complete a job that delivered
nothing (3 and 3), and two items to fail one of several. The stale-role bounds
are tight: with either bound lowered by one, TLC finds a violation in the same
instance. The scoring grid lets the yield (rent 1 against the prices), the
discount (market 200) and the ages cross their thresholds; the theorems drop the
grid. In `lead_catalogue` a miss or a repeat needs a page boundary between two leads, so
limit 1 and two leads suffice: one to be displaced and one that comes in before it, or
is tied with it; two strategies have a state in which one of them is written; a
pool of two is exhausted by one transaction and one open page, so that the others
wait. In `access_control` two accounts and two callers give an admin that is demoted
while it acts; more of either is what the theorems are for. Symmetry is used in
safety runs only, over uploads, keys, users, slots,
addresses, passwords and callers, none of which a property orders.
`CHECK_DEADLOCK FALSE` is set for the import runs and `lead_catalogue`, where all
goroutines or requests having ended is the normal end; nothing else may stop.

*Fairness.* `ImportPipeline!FairSpec` has weak fairness of the work of each
goroutine: the Go scheduler runs every runnable goroutine, the goroutine is on
`context.Background()`, and no statement waits for another goroutine's. Creation
and crashes are not fair. `Sessions!FairSpec` has it for the clock and for the
completion of each request: the database answers, or the request fails. Nobody is
assumed to log in, to refresh or to change a role. `LeadCatalogue!FairSpec` has it
for each ingest that was posted and each walk that was begun. Weak fairness is
enough although they compete for connections, and it does not hide a starved
waiter: every request of the instance takes a bounded number of steps, so the
connections become free for good.

## 4. What is proved

Eight proof modules; every theorem holds for any number of uploads, keys, items,
faults, crashes, users, requests, callers, lifetimes, ingests, readers, limits,
connections, or for all integers. The
assumptions are the named ASSUMEs of the modules: naturals for the bounds,
`NoJob` is no upload, `Normal` is idempotent, ingests and readers are finitely
many, the default limit is positive and at most the cap, and the scorers' inputs are
integers. Every invariant and every action property of a passing run is a theorem.

* **Import, counters and job row** (`ImportPipeline_proofs`: `TypeCorrect`,
  `Inductive`, `ProcessedLive`, `CountsMissOnlyFaults`, `CompletedDelivered`,
  `AuditTrue`, `Refinement`). None of the invariants is
  inductive alone: that a job counts no more than is live needs to know that
  the item whose count is due is live and has not been counted. `PipelineInv`
  therefore ties the label of the goroutine to the row (`StatusInv`), to the stages
  of the items before, at and after its position (`StageInv`), to the counters with
  the one that is owed (`CountInv`, `Owed`) and to the log (`AuditInv`). It is
  proved one action at a time; `Refinement` maps every action to a `JobLedger`
  step or a stutter, under it.
* **Import, report and raw rows** (`ImportReport_proofs`: `ReportInductive`,
  `StuckLeavesTrace`, `VerdictAboutPayload`, `ProcessedKeysLive`, `FaultFree`,
  `Bounded`, `EndedSettled`). `IndInv` adds three parts to `PipelineInv`, all
  checked in `import_race`:
  * `TraceInv`: a goroutine that is about to log a failure for a job without a
    verdict has met a fault, so that a missing entry costs a second one.
  * `RawInv`: a raw row holds an item of the upload that owns it, with the row's key;
    and an upload that has a key to itself owns the row, with the item the goroutine is
    on, from `SaveRaw` to the verdict. Two uploads of one key break the second part,
    and with it `VerdictIsAboutPayload`, but not `ProcessedKeyIsLive`: whoever marks
    the row processed has a listing of that key live at that moment, and nothing
    takes one away.
  * `ReportInv`: while there is no fault, what is in the catalogue (`Delivered`), in
    the counters and the decisions (`Tallied`) and in the job row and the log
    (`Logged`) is exactly what the items before the position call for. One
    lemma for each action and part; a step of another upload, which can only
    touch the raw row, disturbs none of them.
  `Bounded` and `EndedSettled` are the halves of `GoroutinesEnd` and `JobsSettle` that
  need no fairness: every statement takes a goroutine nearer to its end
  (`StepsLeft`, at most six statements an item and six more), and a goroutine that
  has come to an end has settled its job, unless a statement failed or the process
  died.
* **Import, account of the faults** (`ImportAccount_proofs`: `GapsPaidFor`).
  `GapsAreFaults` adds up what is missing from the reports of all uploads (`Gap`: a
  job the client was told did not start, a missing entry, a good item not delivered,
  an item not counted, a failure decided although not every item was counted as
  failed, a row without a verdict, a verdict that is not logged as the row has it)
  and says that each has cost a failed statement of its own. A gap is defined to appear in the step whose
  statement failed, not when a poller could see it; then a step makes at most one
  gap, in the report of its own upload and only if its statement failed
  (`OnlyNewGap`, one lemma for each part of the goroutine's way), and a crash makes
  none. The invariant, `GapInv`, adds that the gaps are finitely many; `PipelineInv`
  supplies what the steps start from.
* **Scoring** (`ScoresTyped`, `NeverCapped`, `EvidenceForTopGrades`, `BetterDeal`,
  `RentEstimateCost`). The invariant is that the stored scores are those of the
  stored listing; the rest is the arithmetic of the tiers, one lemma per score.
* **Sessions** (`SessionsTyped`, `SessionsInductive`, `StaleBounded`,
  `RecentAdmins`). The token bound is not inductive: a request carries a role
  between the read and the signing. `CarriedIsRecent` bounds how stale what a
  request carries can be by the age of the request.
* **Accounts** (`AccountsTyped`, `RegistrationsLast`, `AdminsLast`). A row keeps its
  password for good and changes its role only to admin (lemma `RowsStay`); typing
  needs that what createadmin found is still there when it is promoted.

* **Lead catalogue** (`CatalogueInductive`, `CatalogueTypeCorrect`, `AllOrNone`,
  `Whole`, `MissOnlyTies`, `RepeatsAreExplained`, `TrailIsTrue`). What a walk misses
  is decided by where leads stand in the order, so `IndInv` counts: of a lead of the
  base that has not been shown, the number of leads that outrank it is at least the
  offset (`MissInv`), and of one that has been shown it is below the offset
  (`RepeatInv`), unless it is tied or, for the second, a newcomer may be before
  it. Inserting a lead can only raise that number (`InvGrows`), and a page cut out
  of the order by two prefixes has the leads whose number falls in between
  (`PagePlace`, `PageLength`). `IngestInv` ties the label of an ingest to what it
  has committed, and `PageInv` what a reader holds to the catalogue.
  `RequestsShrink` is the half of `RequestsEnd` that needs no fairness: the steps an
  ingest or a client has before it are bounded by `IngestLeft` and `ReadLeft`. A walk
  could chase a catalogue that grows; it does not, because a page is never
  empty before the end of the leads and the offset never goes beyond it
  (`OffsetInv`), and there are no more leads than ingests.
* **Access** (`AccessInductive`, `AccessTypeCorrect`, `Holders`,
  `NoAuthorityWithoutOperator`, `OnlyAdminsDemote`, `AccessRefinement`). That a route serves who has held
  a role needs to know it of the token it checks, of the request the token was
  signed for and of the row that request read: `ClaimsWereHeld`. That authority
  comes from the operator then follows, since the first role change needs a token
  that claims admin, hence an account that was one. `AccessRefinement` adds that the
  whole implements `Authority`: of a step that writes, the lemma `WrittenRole` finds
  the one row it writes and what the history remembers of it, and `ClaimsWereHeld`
  that the caller of a `Grant` has been an admin; all other steps are stutters.

Only model-checked are the liveness properties `GoroutinesEnd`, `JobsSettle`,
`RolesConverge` and `RequestsEnd`: the prover has no rule for fairness. What they
need besides it is proved: `Bounded` and `EndedSettled`, `RequestsShrink` (but not
that a connection becomes free, which needs the ends of the others), and
`StaleBounded`, by which no stale claim outlives a bound on the clock.

## 5. Disagreements found

* `asked_role`: the repository's README registers an admin with `"role":
  "admin"` and shows its login answering `admin`; the code and its own tests make
  every registration a viewer's (`auth/service.go:63`).
* `admin_spelling`: createadmin stores `ADMIN_EMAIL` as typed
  (`cmd/createadmin/main.go:60`) and reports success, but a login looks for
  the normalised address, so an address with a capital letter or a blank around
  it makes an admin nobody can log in as.

* `role_change_logged`: `docs/database-relationships.md:109` says that "users
  trigger actions such as login, imports, listing ingestion, and admin changes",
  under users and `activity_log`; `UpdateUserRole` (`auth_handler.go:170`) writes no
  entry.

Smaller observations, not runs: a completed job whose re-read fails is logged
as `import.failed` (stated as an exception in `AuditAgreesWithJob`); a job can
stay queued or processing after a crash or a failed statement (the exceptions of
`JobsSettle`); two uploads of one property in flight can give the raw row of one
the verdict of the other (the hypothesis of `VerdictIsAboutPayload`); leads with equal
score and `created_at` can be missed by a walk of the pages, because `ORDER BY` has
no last key that tells them apart (the exception of `PagesMissOnlyTies`).

## 6. Not modelled

* Column values nothing decides on: error messages, time stamps, user agents,
  the text of reasons, the letter grades of the strategies.
* HTTP parsing, CORS, configuration, migrations, bcrypt and JWT signatures: a
  password matches its hash, and a token is what was signed. Of the router only the
  guarded groups are modelled.
* The filters of the lead list beyond `minScore`, which select by columns that never
  change, as it does; an offset a client makes up, which shows some page of
  the same order.
* Reading the activity log: one query that changes nothing. Its pages have the form of
  the lead pages (`ORDER BY created_at DESC LIMIT OFFSET`, a default of 50 and
  no cap), so what `LeadCatalogue` says of leads with one score is true of them.
* `GetImportJob` and `Me`, which only read, and property images, which no code uses.

## 7. Plan

Done: `JobLedger`, `ImportPipeline`, `Scoring`, `Sessions`, `Accounts`,
`LeadCatalogue`, `Authority`, `AccessControl`, their runs, and the proofs of
section 4. No component with state of its own is left without a module, and no
invariant or action property of a run without a theorem. What could follow:

1. An abstract specification of the lead catalogue (a lead appears bare, then whole,
   and a read shows each lead at one moment between its two queries), and
   the proof that `LeadCatalogue` implements it.
2. The same for `Sessions`: a role as a lease that a change of role ends within
   the bound of `StaleRolesExpire`, without slots and requests.
