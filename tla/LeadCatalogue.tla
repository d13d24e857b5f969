---------------------------- MODULE LeadCatalogue ----------------------------
(***************************************************************************)
(* The catalogue of leads between those who fill it and those who read it. *)
(* POST /api/listings writes a listing, its lead score and its strategy    *)
(* scores in three goes on the client's request context; GET /api/leads    *)
(* reads pages with LIMIT and OFFSET and fetches the strategy scores of a  *)
(* page with a second query, and no transaction spans the two.  All of     *)
(* them share the connections of one pool.  The import calls the same      *)
(* Execute (see ImportPipeline): to a reader its items are Ingests as well.*)
(*                                                                         *)
(* A client that goes away cancels its context: the statement under way    *)
(* returns an error, with or without effect, as a lost connection does.    *)
(***************************************************************************)
EXTENDS Integers, FiniteSets

CONSTANTS
    Ingests,        \* calls of ingestlisting.Execute; each adds a listing
    Readers,        \* clients that read leads
    Scores,         \* lead scores
    Stamps,         \* lead_scores.created_at
    StrategyCount,  \* how many strategies a listing is scored for (6)
    Asked,          \* ?limit= as Atoi returns it, 0 when it is no number
    DefaultLimit,   \* 20 and 100 in readleads
    MaxLimit,
    PoolSize,       \* connections of the pgxpool
    MaxFaults       \* bound: statements that return an error

ASSUME CatalogueAssumption ==
    /\ IsFiniteSet(Ingests) /\ IsFiniteSet(Readers)
    /\ Scores \subseteq Nat /\ Stamps \subseteq Nat
    /\ StrategyCount \in Nat \ {0}
    /\ Asked \subseteq Int
    /\ DefaultLimit \in Nat \ {0} /\ MaxLimit \in Nat
    /\ DefaultLimit <= MaxLimit
    /\ PoolSize \in Nat \ {0}
    /\ MaxFaults \in Nat

VARIABLES
    lead,        \* lead_scores: the row of an ingest's listing, or NoLead
    strategies,  \* property_strategy_scores: rows of its listing, committed
    pending,     \* rows of its listing written by the open transaction
    trail,       \* ingests with a listing.ingested entry in activity_log
    pc,          \* where the ingest is
    read,        \* where each reader is, and what it has been shown
    faults

vars == <<lead, strategies, pending, trail, pc, read, faults>>
catalogue == <<lead, strategies, pending, trail, pc>>

NoLead == [score |-> -1, stamp |-> -1]
Row(score, stamp) == [score |-> score, stamp |-> stamp]

Outcomes == {"ok", "err", "lost"}
Failed(o) == o # "ok"
Applied(o) == o # "err"

Call(o) ==
    /\ Failed(o) => faults < MaxFaults
    /\ faults' = IF Failed(o) THEN faults + 1 ELSE faults

\* Mutant: the connection of a transaction is not given back.
FreeUnlessUsed ==
    Cardinality({i \in Ingests : pc[i] \in {"insert", "log", "answered"}})
        + Cardinality({r \in Readers : read[r].at = "scan"}) < PoolSize

\* Connections in use between two steps: SaveMany's transaction has one, and so
\* has a page whose rows are being scanned.  Nobody who has one asks for another.
FreeConnection ==
    Cardinality({i \in Ingests : pc[i] = "insert"})
        + Cardinality({r \in Readers : read[r].at = "scan"}) < PoolSize

\* A statement on a connection of its own.
Statement(o) == FreeConnection /\ Call(o)

NoRead == [at |-> "idle", kind |-> "walk", min |-> 0, limit |-> 0,
           offset |-> 0, base |-> {}, got |-> {}, again |-> {}, page |-> {},
           known |-> {}, shown |-> [i \in Ingests |-> 0]]

Init ==
    /\ lead = [i \in Ingests |-> NoLead]
    /\ strategies = [i \in Ingests |-> 0]
    /\ pending = [i \in Ingests |-> 0]
    /\ trail = {}
    /\ pc = [i \in Ingests |-> "idle"]
    /\ read = [r \in Readers |-> NoRead]
    /\ faults = 0

Goto(i, label) == pc' = [pc EXCEPT ![i] = label]

-----------------------------------------------------------------------------
(* POST /api/listings *)

Post(i) ==
    /\ pc[i] = "idle"
    /\ Goto(i, "listing")
    /\ UNCHANGED <<lead, strategies, pending, trail, read, faults>>

\* No lead query sees a listing without its score, so its row is not kept here.
InsertListing(i) ==
    /\ pc[i] = "listing"
    /\ \E o \in Outcomes :
          Statement(o) /\ Goto(i, IF Failed(o) THEN "refused" ELSE "score")
    /\ UNCHANGED <<lead, strategies, pending, trail, read>>

\* created_at is the time the statement began, so a later row can be older.
InsertScore(i) ==
    /\ pc[i] = "score"
    /\ \E o \in Outcomes, score \in Scores, stamp \in Stamps :
          /\ Statement(o)
          /\ lead' = IF Applied(o) THEN [lead EXCEPT ![i] = Row(score, stamp)]
                                   ELSE lead
          /\ Goto(i, IF Failed(o) THEN "refused" ELSE "begin")
    /\ UNCHANGED <<strategies, pending, trail, read>>

\* SaveMany: Begin, an INSERT for each strategy, Commit; the deferred Rollback
\* after an error.  Until Commit only the transaction sees its rows.
Begin(i) ==
    /\ pc[i] = "begin"
    /\ \E o \in {"ok", "err"} :
          Statement(o) /\ Goto(i, IF Failed(o) THEN "refused" ELSE "insert")
    /\ UNCHANGED <<lead, strategies, pending, trail, read>>

\* Mutant: the rows are written without the transaction.
InsertStrategyAutocommit(i) ==
    /\ pc[i] = "insert" /\ pending[i] < StrategyCount
    /\ Call("ok")
    /\ pending' = [pending EXCEPT ![i] = @ + 1]
    /\ strategies' = [strategies EXCEPT ![i] = @ + 1]
    /\ UNCHANGED <<lead, trail, pc, read>>

InsertStrategy(i) ==
    /\ pc[i] = "insert" /\ pending[i] < StrategyCount
    /\ \/ /\ Call("ok")
          /\ pending' = [pending EXCEPT ![i] = @ + 1]
          /\ UNCHANGED pc
       \/ /\ Call("err")
          /\ pending' = [pending EXCEPT ![i] = 0]
          /\ Goto(i, "refused")
    /\ UNCHANGED <<lead, strategies, trail, read>>

\* Mutant: the error of Commit is dropped.
CommitLenient(i) ==
    /\ pc[i] = "insert" /\ pending[i] = StrategyCount
    /\ \E o \in Outcomes :
          /\ Call(o)
          /\ strategies' = IF Applied(o)
                THEN [strategies EXCEPT ![i] = pending[i]] ELSE strategies
    /\ Goto(i, "log")
    /\ pending' = [pending EXCEPT ![i] = 0]
    /\ UNCHANGED <<lead, trail, read>>

Commit(i) ==
    /\ pc[i] = "insert" /\ pending[i] = StrategyCount
    /\ \E o \in Outcomes :
          /\ Call(o)
          /\ strategies' = IF Applied(o)
                THEN [strategies EXCEPT ![i] = pending[i]] ELSE strategies
          /\ Goto(i, IF Failed(o) THEN "refused" ELSE "log")
    /\ pending' = [pending EXCEPT ![i] = 0]
    /\ UNCHANGED <<lead, trail, read>>

\* The best-effort listing.ingested entry, and then the 201.
LogAndAnswer(i) ==
    /\ pc[i] = "log"
    /\ \E o \in Outcomes :
          Statement(o) /\ trail' = IF Applied(o) THEN trail \cup {i} ELSE trail
    /\ Goto(i, "answered")
    /\ UNCHANGED <<lead, strategies, pending, read>>

Ingest(i) ==
    \/ InsertListing(i) \/ InsertScore(i)
    \/ Begin(i) \/ InsertStrategy(i) \/ Commit(i)
    \/ LogAndAnswer(i)

-----------------------------------------------------------------------------
(* GET /api/leads and GET /api/leads/{id} *)

\* Mutant: 0 is taken at its word.
LimitAsAsked(n) == IF n > MaxLimit THEN MaxLimit ELSE n

\* readleads: a missing or unusable limit is the default, a large one the cap.
Limit(n) ==
    IF n <= 0 THEN DefaultLimit ELSE IF n > MaxLimit THEN MaxLimit ELSE n

\* The filters select by columns that never change; minScore stands for them.
Matching(min) == {i \in Ingests : lead[i] # NoLead /\ lead[i].score >= min}

\* Mutant: ORDER BY score DESC alone.
OutranksByScore(i, j) == lead[i].score > lead[j].score

\* ORDER BY score DESC, created_at DESC: no order between leads that agree in both.
Outranks(i, j) ==
    \/ lead[i].score > lead[j].score
    \/ lead[i].score = lead[j].score /\ lead[i].stamp > lead[j].stamp

\* What can be the first n of the leads in M, when ties are sorted at will.
FirstOf(M, n) ==
    {P \in SUBSET M :
        /\ Cardinality(P) = IF n < Cardinality(M) THEN n ELSE Cardinality(M)
        /\ \A j \in P, i \in M \ P : ~Outranks(i, j)}

Move(r, state) == read' = [read EXCEPT ![r] = state]
Asks(r, at) == read[r].at = at

\* A client begins to walk the pages, one after the other, from the first.
StartWalk(r) ==
    /\ Asks(r, "idle")
    /\ \E min \in Scores \cup {0}, n \in Asked :
          Move(r, [NoRead EXCEPT !.at = "query", !.min = min,
                                 !.limit = Limit(n), !.base = Matching(min)])
    /\ UNCHANGED <<catalogue, faults>>

AnsweredIngests == {i \in Ingests : pc[i] = "answered"}

Page(r, page, at) ==
    [read[r] EXCEPT !.page = page, !.known = page \cap AnsweredIngests, !.at = at]

\* Mutant: the offset is not passed on, and every page is the first.
QueryFirstPage(r) ==
    /\ Asks(r, "query") /\ Statement("ok")
    /\ \E upto \in FirstOf(Matching(read[r].min), read[r].limit) :
          Move(r, Page(r, upto, "scan"))
    /\ UNCHANGED catalogue

\* List's first query: a snapshot of the matching leads, sorted and cut.
QueryPage(r) ==
    /\ Asks(r, "query") /\ Statement("ok")
    /\ LET M == Matching(read[r].min)
           from == read[r].offset
       IN \E before \in FirstOf(M, from), upto \in FirstOf(M, from + read[r].limit) :
             before \subseteq upto /\ Move(r, Page(r, upto \ before, "scan"))
    /\ UNCHANGED catalogue

Shown(r) == [i \in Ingests |-> IF i \in read[r].page THEN strategies[i] ELSE 0]

\* The last Next closes the rows and gives the connection back.
CloseRows(r) ==
    /\ Asks(r, "scan")
    /\ Move(r, [read[r] EXCEPT !.at = IF read[r].page = {} THEN "answer"
                                                           ELSE "attach"])
    /\ UNCHANGED <<catalogue, faults>>

\* GetByID's first query; an id without a row is a 404 and changes nothing.
GetLead(r) ==
    /\ Asks(r, "idle") /\ Statement("ok")
    /\ \E i \in Matching(0) :
          Move(r, [Page(r, {i}, "attach") EXCEPT !.kind = "get"])
    /\ UNCHANGED catalogue

\* attachStrategyScores: the second query, on whatever is committed by now.
AttachScores(r) ==
    /\ Asks(r, "attach") /\ Statement("ok")
    /\ Move(r, [read[r] EXCEPT !.at = "answer", !.shown = Shown(r)])
    /\ UNCHANGED catalogue

\* The client takes the page and asks for the one after the rows it has got,
\* until a page is empty.
Answer(r) ==
    /\ Asks(r, "answer")
    /\ Move(r, [read[r] EXCEPT
           !.at = IF read[r].kind = "get" \/ read[r].page = {} THEN "end" ELSE "query",
           !.offset = @ + Cardinality(read[r].page),
           !.again = @ \cup (read[r].got \cap read[r].page),
           !.got = @ \cup read[r].page,
           !.page = {}, !.known = {}, !.shown = NoRead.shown])
    /\ UNCHANGED <<catalogue, faults>>

\* A query or a Scan returns an error: a 500, and the client asks again.
FailRead(r) ==
    /\ read[r].at \in {"query", "scan", "attach"}
    /\ Call("err")
    /\ Move(r, [read[r] EXCEPT !.page = {}, !.known = {},
           !.at = IF read[r].kind = "get" THEN "end" ELSE "query"])
    /\ UNCHANGED catalogue

Fetch(r) == QueryPage(r) \/ CloseRows(r) \/ AttachScores(r) \/ Answer(r)

Next ==
    \/ \E i \in Ingests : Post(i) \/ Ingest(i)
    \/ \E r \in Readers : StartWalk(r) \/ GetLead(r) \/ Fetch(r) \/ FailRead(r)

Spec == Init /\ [][Next]_vars

\* Handlers run, statements return, and the pool hands a free connection to one
\* of those who wait; clients that have begun to walk go on asking.  Nobody is
\* made to post or to begin.
FairSpec == Spec /\ (\A i \in Ingests : WF_vars(Ingest(i)))
                 /\ (\A r \in Readers : WF_vars(Fetch(r)))

-----------------------------------------------------------------------------
(* Properties *)

TypeOK ==
    /\ lead \in [Ingests -> [score: Scores, stamp: Stamps] \cup {NoLead}]
    /\ strategies \in [Ingests -> 0 .. StrategyCount]
    /\ pending \in [Ingests -> 0 .. StrategyCount]
    /\ trail \subseteq Ingests
    /\ pc \in [Ingests -> {"idle", "listing", "score", "begin", "insert", "log",
                           "answered", "refused"}]
    /\ read \in [Readers ->
          [at: {"idle", "query", "scan", "attach", "answer", "end"},
           kind: {"walk", "get"}, min: Scores \cup {0}, limit: 0 .. MaxLimit,
           offset: Nat, base: SUBSET Ingests, got: SUBSET Ingests,
           again: SUBSET Ingests, page: SUBSET Ingests,
           known: SUBSET Ingests, shown: [Ingests -> 0 .. StrategyCount]]]
    /\ faults \in 0 .. MaxFaults

Answering(r) == read[r].at = "answer"

\* A lead is never shown with some of its strategy scores: the reader's second
\* query falls between the INSERTs of SaveMany and sees none of them, or all.
StrategiesAllOrNone ==
    \A r \in Readers : Answering(r) =>
        \A i \in read[r].page : read[r].shown[i] \in {0, StrategyCount}

\* A lead is shown without strategy scores only while its ingest has not been
\* answered with 201: whoever posts a listing, waits for the answer, and then
\* reads, finds its lead with all of them, although two queries make a page.
AnsweredAreWhole ==
    \A r \in Readers : Answering(r) =>
        \A i \in read[r].known : read[r].shown[i] = StrategyCount

Tied(i, M) == \E j \in M \ {i} : lead[j] = lead[i]

\* A walk of the pages that has come to the empty page has been shown every lead
\* that matched when it began, whatever was ingested meanwhile, with one
\* exception: leads with equal score and created_at, which two queries may order
\* differently.
PagesMissOnlyTies ==
    \A r \in Readers : Asks(r, "end") /\ read[r].kind = "walk" =>
        \A i \in read[r].base \ read[r].got : Tied(i, Matching(read[r].min))

\* j comes before i, or may.
NotBehind(j, i) ==
    \/ lead[j].score > lead[i].score
    \/ lead[j].score = lead[i].score /\ lead[j].stamp >= lead[i].stamp

Disturbed(i, state) ==
    LET M == Matching(state.min)
    IN Tied(i, M) \/ \E j \in M \ state.base : NotBehind(j, i)

\* A walk is shown a lead twice only because of such a tie, or because a lead
\* that was not there when it began has come in before it.
RepeatsNeedNewcomers ==
    \A r \in Readers : \A i \in read[r].again : Disturbed(i, read[r])

\* The activity log never tells of a listing that is not there with all its
\* scores, and an ingest that was answered is missing from it only for a fault.
IngestTrail ==
    /\ \A i \in trail : lead[i] # NoLead /\ strategies[i] = StrategyCount
    /\ Cardinality(AnsweredIngests \ trail) <= faults

UnderWay ==
    \/ \E i \in Ingests : pc[i] \notin {"idle", "answered", "refused"}
    \/ \E r \in Readers : read[r].at \notin {"idle", "end"}

\* Every request comes to its end: ingests and walks wait for each other's
\* connections, and never in a circle.  (Each begins once, so that they all end
\* is to say that in the end none is under way.)
RequestsEnd == UnderWay ~> ~UnderWay

\* How many steps an ingest has before it, at most,
IngestLeft(i) ==
    CASE pc[i] = "listing" -> StrategyCount + 5
      [] pc[i] = "score" -> StrategyCount + 4
      [] pc[i] = "begin" -> StrategyCount + 3
      [] pc[i] = "insert" -> StrategyCount - pending[i] + 2
      [] pc[i] = "log" -> 1
      [] OTHER -> 0

\* where a client asks for its next page, and how many steps it has before it, as
\* long as none of them fails: four for each lead a page can still begin with, if
\* all ingests have one, and three to see that the last page is empty.
NextOffset(state) == state.offset + Cardinality(state.page)
ReadLeft(state) ==
    LET rest == Cardinality(Ingests) - NextOffset(state)
    IN CASE state.at = "query" -> 4 * (Cardinality(Ingests) - state.offset) + 3
         [] state.at = "scan" -> IF state.page = {} THEN 2 ELSE 4 * rest + 6
         [] state.at = "attach" -> 4 * rest + 5
         [] state.at = "answer" -> IF state.page = {} THEN 1 ELSE 4 * rest + 4
         [] OTHER -> 0

\* Nothing a request does takes it back, and nothing others do makes it longer:
\* ingests that come in while the pages are walked do not keep the client from
\* reaching the empty page, since it asks for the page after what it has got.
\* Only a query that fails is made again.  So a request takes a bounded number of
\* steps, and holds a connection for no more of them.
RequestsAreBounded ==
    [][/\ \A i \in Ingests :
             /\ Ingest(i) => IngestLeft(i)' < IngestLeft(i)
             /\ pc[i] # "idle" => IngestLeft(i)' <= IngestLeft(i)
             /\ IngestLeft(i)' \in 0 .. StrategyCount + 5
       /\ \A r \in Readers :
             /\ Fetch(r) => ReadLeft(read'[r]) < ReadLeft(read[r])
             /\ read[r].at # "idle" /\ ~FailRead(r) =>
                   ReadLeft(read'[r]) <= ReadLeft(read[r])
             /\ ReadLeft(read'[r]) \in 0 .. 4 * Cardinality(Ingests) + 5]_vars

-----------------------------------------------------------------------------
(* The inductive invariant behind the theorems of LeadCatalogue_proofs *)

\* How far each ingest has got, against what it has committed and logged.
IngestInv ==
    /\ \A i \in Ingests :
          /\ strategies[i] \in {0, StrategyCount}
          /\ pc[i] \in {"idle", "listing", "score"} => lead[i] = NoLead
          /\ pc[i] \in {"begin", "insert", "log", "answered"} => lead[i] # NoLead
          /\ pc[i] \in {"log", "answered"} => strategies[i] = StrategyCount
    /\ trail \subseteq AnsweredIngests
    /\ Cardinality(AnsweredIngests \ trail) <= faults

\* What a reader holds is in the catalogue, and what it is shown was read there.
PageInv(state) ==
    /\ state.at = "idle" => state = NoRead
    /\ state.kind = "get" => state.at = "end" \/ state.got = {}
    /\ state.known \subseteq AnsweredIngests \cap state.page
    /\ state.again \subseteq state.got
    /\ state.base \cup state.got \cup state.page \subseteq Matching(state.min)
    /\ state.at \notin {"idle", "end"} /\ state.kind = "walk" => state.limit >= 1
    /\ state.at = "answer" => \A i \in state.page :
            /\ state.shown[i] \in {0, StrategyCount}
            /\ i \in state.known => state.shown[i] = StrategyCount

Better(i, M) == {j \in M : Outranks(j, i)}

\* A client is never beyond the last of the leads: there are no empty pages but
\* at the end, and a walk has no more to go than there are leads left.
OffsetInv(state) == NextOffset(state) <= Cardinality(Matching(state.min))

\* Where in the order the leads are that a walk has not been shown: behind what
\* it has been shown, unless tied.
MissInv(state) ==
    LET M == Matching(state.min)
    IN \A i \in state.base \ state.got :
          \/ Tied(i, M)
          \/ /\ state.at \notin {"idle", "end"}
             /\ Cardinality(Better(i, M)) >= state.offset
             /\ i \notin state.page =>
                   /\ Cardinality(Better(i, M)) >= NextOffset(state)
                   /\ state.at # "query" => state.page # {}

\* And where those are that it has been shown: before the offset, unless some
\* lead has come in before them.
RepeatInv(state) ==
    LET M == Matching(state.min)
    IN \A i \in state.got \cup state.page :
          \/ Disturbed(i, state)
          \/ /\ i \in state.got => Cardinality(Better(i, M)) < state.offset
             /\ i \in state.page => Cardinality(Better(i, M)) < NextOffset(state)
             /\ i \notin state.got \cap state.page

ReaderInv(state) ==
    /\ PageInv(state)
    /\ OffsetInv(state)
    /\ state.kind = "walk" => MissInv(state) /\ RepeatInv(state)
    /\ \A i \in state.again : Disturbed(i, state)

IndInv == TypeOK /\ IngestInv /\ \A r \in Readers : ReaderInv(read[r])
=============================================================================
