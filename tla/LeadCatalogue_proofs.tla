------------------------ MODULE LeadCatalogue_proofs ------------------------
(***************************************************************************)
(* Theorems about LeadCatalogue, for any number of ingests and readers,    *)
(* any scores and stamps, any limits, pool and number of faults.           *)
(***************************************************************************)
EXTENDS LeadCatalogue, TLAPS, FiniteSetTheorems

LEMMA Counted ==
    ASSUME NEW S, S \subseteq Ingests
    PROVE  IsFiniteSet(S) /\ Cardinality(S) \in Nat
  BY CatalogueAssumption, FS_Subset, FS_CardinalityType

\* A call that fails is counted, and no other is.
LEMMA CallCounts ==
    ASSUME NEW o \in Outcomes, Call(o), faults \in 0 .. MaxFaults
    PROVE  /\ faults' \in 0 .. MaxFaults /\ faults' >= faults
           /\ ~Applied(o) => faults' = faults + 1
  BY CatalogueAssumption DEF Outcomes, Call, Failed, Applied

Labels == {"idle", "listing", "score", "begin", "insert", "log", "answered",
           "refused"}
Leads == [score: Scores, stamp: Stamps]
Reads == [at: {"idle", "query", "scan", "attach", "answer", "end"},
          kind: {"walk", "get"}, min: Scores \cup {0}, limit: 0 .. MaxLimit,
          offset: Nat, base: SUBSET Ingests, got: SUBSET Ingests,
          again: SUBSET Ingests, page: SUBSET Ingests,
          known: SUBSET Ingests, shown: [Ingests -> 0 .. StrategyCount]]

-----------------------------------------------------------------------------
(* What an ingest does, in one lemma: which of its state moves, and how.     *)

LEMMA IngestTypes ==
    ASSUME TypeOK, NEW i \in Ingests, Post(i) \/ Ingest(i)
    PROVE TypeOK'
  <1> USE CatalogueAssumption
  <1>1. {"ok", "err"} \subseteq Outcomes /\ "ok" \in Outcomes /\ "err" \in Outcomes
    BY DEF Outcomes
  <1>2. read' = read
    BY DEF Post, Ingest, InsertListing, InsertScore, Begin, InsertStrategy, Commit,
           LogAndAnswer
  <1>3. faults' \in 0 .. MaxFaults
    <2>1. CASE Post(i)
      BY <2>1 DEF Post, TypeOK
    <2>2. CASE Ingest(i)
      <3>1. PICK o \in Outcomes : Call(o)
        BY <2>2, <1>1 DEF Ingest, InsertListing, InsertScore, Begin, InsertStrategy,
                          Commit, LogAndAnswer, Statement
      <3> QED BY <3>1, CallCounts DEF TypeOK
    <2> QED BY <2>1, <2>2
  <1>4. pc' \in [Ingests -> Labels]
    BY DEF Post, Ingest, InsertListing, InsertScore, Begin, InsertStrategy, Commit,
           LogAndAnswer, TypeOK, Labels, Goto
  <1>5. trail' \subseteq Ingests
    BY DEF Post, Ingest, InsertListing, InsertScore, Begin, InsertStrategy, Commit,
           LogAndAnswer, TypeOK
  <1>6. lead' \in [Ingests -> Leads \cup {NoLead}]
    <2>1. CASE InsertScore(i)
      <3>1. PICK score \in Scores, stamp \in Stamps :
                lead' = lead \/ lead' = [lead EXCEPT ![i] = Row(score, stamp)]
        BY <2>1 DEF InsertScore
      <3>2. Row(score, stamp) \in Leads
        BY DEF Row, Leads
      <3> QED BY <3>1, <3>2 DEF TypeOK, Leads
    <2>2. CASE ~InsertScore(i)
      <3>1. lead' = lead
        BY <2>2 DEF Post, Ingest, InsertListing, Begin, InsertStrategy, Commit,
                    LogAndAnswer
      <3> QED BY <3>1 DEF TypeOK, Leads
    <2> QED BY <2>1, <2>2
  <1>7. pending' \in [Ingests -> 0 .. StrategyCount]
    <2>1. CASE InsertStrategy(i)
      <3>1. pending[i] + 1 \in 0 .. StrategyCount
        BY <2>1 DEF InsertStrategy, TypeOK
      <3> QED BY <2>1, <3>1 DEF InsertStrategy, TypeOK
    <2>2. CASE ~InsertStrategy(i)
      BY <2>2 DEF Post, Ingest, InsertListing, InsertScore, Begin, Commit,
                  LogAndAnswer, TypeOK
    <2> QED BY <2>1, <2>2
  <1>8. strategies' \in [Ingests -> 0 .. StrategyCount]
    <2>1. CASE Commit(i)
      <3>1. \/ strategies' = strategies
            \/ strategies' = [strategies EXCEPT ![i] = pending[i]]
        BY <2>1 DEF Commit
      <3> QED BY <3>1 DEF TypeOK
    <2>2. CASE ~Commit(i)
      BY <2>2 DEF Post, Ingest, InsertListing, InsertScore, Begin, InsertStrategy,
                  LogAndAnswer, TypeOK
    <2> QED BY <2>1, <2>2
  <1> HIDE CatalogueAssumption
  <1> QED BY <1>2, <1>3, <1>4, <1>5, <1>6, <1>7, <1>8 DEF TypeOK, Labels, Leads

\* No lead is changed or removed, an ingest that has been answered stays so, and
\* only InsertScore adds a lead.
LEMMA IngestGrows ==
    ASSUME TypeOK, IngestInv, NEW i \in Ingests, Post(i) \/ Ingest(i)
    PROVE  /\ read' = read
           /\ faults' \in 0 .. MaxFaults /\ faults' >= faults
           /\ \A j \in Ingests \ {i} : /\ lead'[j] = lead[j]
                                       /\ strategies'[j] = strategies[j]
                                       /\ pc'[j] = pc[j]
           /\ lead[i] # NoLead => lead'[i] = lead[i]
           /\ lead'[i] \in Leads \cup {NoLead}
           /\ AnsweredIngests \subseteq AnsweredIngests'
  <1>1. {"ok", "err"} \subseteq Outcomes /\ "ok" \in Outcomes /\ "err" \in Outcomes
    BY DEF Outcomes
  <1>2. read' = read
    BY DEF Post, Ingest, InsertListing, InsertScore, Begin, InsertStrategy, Commit,
           LogAndAnswer
  <1>3. faults' \in 0 .. MaxFaults /\ faults' >= faults
    <2>1. CASE Post(i)
      BY <2>1, CatalogueAssumption DEF Post, TypeOK
    <2>2. CASE Ingest(i)
      <3>1. PICK o \in Outcomes : Call(o)
        BY <2>2, <1>1 DEF Ingest, InsertListing, InsertScore, Begin, InsertStrategy,
                          Commit, LogAndAnswer, Statement
      <3> QED BY <3>1, CallCounts DEF TypeOK
    <2> QED BY <2>1, <2>2
  <1>4. \A j \in Ingests \ {i} : lead'[j] = lead[j] /\ strategies'[j] = strategies[j]
    BY DEF Post, Ingest, InsertListing, InsertScore, Begin, InsertStrategy, Commit,
           LogAndAnswer, TypeOK
  <1>5. \A j \in Ingests \ {i} : pc'[j] = pc[j]
    BY DEF Post, Ingest, InsertListing, InsertScore, Begin, InsertStrategy, Commit,
           LogAndAnswer, TypeOK, Goto
  <1>6. lead[i] # NoLead => lead'[i] = lead[i]
    BY DEF Post, Ingest, InsertListing, InsertScore, Begin, InsertStrategy, Commit,
           LogAndAnswer, TypeOK, IngestInv
  <1>7. pc[i] # "answered"
    BY DEF Post, Ingest, InsertListing, InsertScore, Begin, InsertStrategy, Commit,
           LogAndAnswer
  <1>8. AnsweredIngests \subseteq AnsweredIngests'
    BY <1>5, <1>7 DEF AnsweredIngests
  <1>9. lead'[i] \in Leads \cup {NoLead}
    BY IngestTypes DEF TypeOK, Leads
  <1> QED BY <1>2, <1>3, <1>4, <1>5, <1>6, <1>8, <1>9

LEMMA IngestSteps ==
    ASSUME TypeOK, IngestInv, NEW i \in Ingests, Post(i) \/ Ingest(i)
    PROVE IngestInv'
  <1> USE CatalogueAssumption
  <1>1. \A j \in Ingests \ {i} : /\ lead'[j] = lead[j] /\ pc'[j] = pc[j]
                                /\ strategies'[j] = strategies[j]
    BY IngestGrows
  <1>2. /\ strategies'[i] \in {0, StrategyCount}
        /\ pc'[i] \in {"idle", "listing", "score"} => lead'[i] = NoLead
        /\ pc'[i] \in {"begin", "insert", "log", "answered"} => lead'[i] # NoLead
        /\ pc'[i] \in {"log", "answered"} => strategies'[i] = StrategyCount
    <2>1. CASE Post(i)
      BY <2>1 DEF Post, Goto, TypeOK, IngestInv
    <2>2. CASE InsertListing(i)
      BY <2>2 DEF InsertListing, Goto, TypeOK, IngestInv
    <2>3. CASE InsertScore(i)
      <3>1. PICK o \in Outcomes, score \in Scores, stamp \in Stamps :
              /\ lead' = IF Applied(o) THEN [lead EXCEPT ![i] = Row(score, stamp)]
                                       ELSE lead
              /\ Goto(i, IF Failed(o) THEN "refused" ELSE "begin")
        BY <2>3 DEF InsertScore
      <3>2. Row(score, stamp) # NoLead
        BY DEF Row, NoLead
      <3>3. ~Failed(o) => Applied(o)
        BY DEF Failed, Applied
      <3> QED BY <2>3, <3>1, <3>2, <3>3 DEF InsertScore, Goto, TypeOK, IngestInv
    <2>4. CASE Begin(i)
      BY <2>4 DEF Begin, Goto, TypeOK, IngestInv
    <2>5. CASE InsertStrategy(i)
      BY <2>5 DEF InsertStrategy, Goto, TypeOK, IngestInv
    <2>6. CASE Commit(i)
      BY <2>6 DEF Commit, Goto, Failed, Applied, TypeOK, IngestInv
    <2>7. CASE LogAndAnswer(i)
      BY <2>7 DEF LogAndAnswer, Goto, TypeOK, IngestInv
    <2> QED BY <2>1, <2>2, <2>3, <2>4, <2>5, <2>6, <2>7 DEF Ingest
  <1>3. /\ trail' \subseteq AnsweredIngests'
        /\ Cardinality(AnsweredIngests' \ trail') <= faults'
    <2>1. CASE LogAndAnswer(i)
      <3>1. PICK o \in Outcomes :
              /\ Call(o) /\ trail' = IF Applied(o) THEN trail \cup {i} ELSE trail
        BY <2>1 DEF LogAndAnswer, Statement
      <3>2. AnsweredIngests' = AnsweredIngests \cup {i} /\ i \notin AnsweredIngests
        BY <2>1 DEF LogAndAnswer, Goto, AnsweredIngests, TypeOK
      <3> DEFINE missing == AnsweredIngests \ trail
      <3>3. IsFiniteSet(missing) /\ Cardinality(missing) \in Nat
        BY Counted DEF AnsweredIngests
      <3>4. faults' \in Nat /\ faults' >= faults /\ faults \in Nat
              /\ (~Applied(o) => faults' = faults + 1)
        BY <3>1, CallCounts DEF TypeOK
      <3>5. CASE Applied(o)
        <4>1. AnsweredIngests' \ trail' = missing
          BY <3>1, <3>2, <3>5 DEF IngestInv
        <4> QED BY <3>1, <3>2, <3>3, <3>4, <3>5, <4>1 DEF IngestInv
      <3>6. CASE ~Applied(o)
        <4>1. AnsweredIngests' \ trail' = missing \cup {i} /\ i \notin missing
          BY <3>1, <3>2, <3>6 DEF IngestInv
        <4>2. Cardinality(missing \cup {i}) = Cardinality(missing) + 1
          BY <3>3, <4>1, FS_AddElement
        <4> QED BY <3>1, <3>2, <3>3, <3>4, <3>6, <4>1, <4>2 DEF IngestInv
      <3> QED BY <3>5, <3>6
    <2>2. CASE ~LogAndAnswer(i)
      <3>1. trail' = trail
        BY <2>2 DEF Post, Ingest, InsertListing, InsertScore, Begin, InsertStrategy,
                    Commit
      <3>2. pc[i] # "answered" /\ pc'[i] # "answered"
        BY <2>2 DEF Post, Ingest, InsertListing, InsertScore, Begin, InsertStrategy,
                    Commit, Goto, TypeOK
      <3>3. AnsweredIngests' = AnsweredIngests
        BY <1>1, <3>2 DEF AnsweredIngests
      <3>4. faults' \in Nat /\ faults' >= faults /\ faults \in Nat
        BY IngestGrows DEF TypeOK
      <3>5. Cardinality(AnsweredIngests \ trail) \in Nat
        BY Counted DEF AnsweredIngests
      <3> QED BY <3>1, <3>3, <3>4, <3>5 DEF IngestInv
    <2> QED BY <2>1, <2>2
  <1>4. \A j \in Ingests \ {i} :
          /\ strategies'[j] \in {0, StrategyCount}
          /\ pc'[j] \in {"idle", "listing", "score"} => lead'[j] = NoLead
          /\ pc'[j] \in {"begin", "insert", "log", "answered"} => lead'[j] # NoLead
          /\ pc'[j] \in {"log", "answered"} => strategies'[j] = StrategyCount
    BY <1>1 DEF IngestInv
  <1>5. NoLead' = NoLead
    BY DEF NoLead
  <1> QED BY <1>2, <1>3, <1>4, <1>5 DEF IngestInv

-----------------------------------------------------------------------------
(* A step of a reader                                                        *)

ReaderStep(r) == StartWalk(r) \/ GetLead(r) \/ Fetch(r) \/ FailRead(r)

\* It changes its own state, perhaps the number of faults, and nothing else.
LEMMA ReaderKeeps ==
    ASSUME TypeOK, NEW r \in Readers, ReaderStep(r)
    PROVE  /\ UNCHANGED catalogue
           /\ faults' \in 0 .. MaxFaults /\ faults' >= faults
           /\ \A q \in Readers \ {r} : read'[q] = read[q]
  <1>1. "ok" \in Outcomes /\ "err" \in Outcomes
    BY DEF Outcomes
  <1>2. faults' \in 0 .. MaxFaults /\ faults' >= faults
    <2>1. CASE StartWalk(r) \/ CloseRows(r) \/ Answer(r)
      <3>1. faults' = faults
        BY <2>1 DEF StartWalk, CloseRows, Answer
      <3> QED BY <3>1, CatalogueAssumption DEF TypeOK
    <2>2. CASE GetLead(r) \/ QueryPage(r) \/ AttachScores(r) \/ FailRead(r)
      <3>1. PICK o \in Outcomes : Call(o)
        BY <1>1, <2>2 DEF GetLead, QueryPage, AttachScores, FailRead, Statement
      <3> QED BY <3>1, CallCounts DEF TypeOK
    <2> QED BY <2>1, <2>2 DEF ReaderStep, Fetch
  <1>3. UNCHANGED catalogue
    BY DEF ReaderStep, Fetch, StartWalk, GetLead, QueryPage, CloseRows, AttachScores,
           Answer, FailRead
  <1>4. \E state : read' = [read EXCEPT ![r] = state]
    BY DEF ReaderStep, Fetch, StartWalk, GetLead, QueryPage, CloseRows, AttachScores,
           Answer, FailRead, Move
  <1> QED BY <1>2, <1>3, <1>4 DEF TypeOK

LEMMA LimitInRange ==
    ASSUME NEW n \in Asked
    PROVE Limit(n) \in 1 .. MaxLimit
  BY CatalogueAssumption DEF Limit

\* One lemma for every place where a reader is: what it moves to is in Reads.
LEMMA ReaderState ==
    ASSUME TypeOK, NEW r \in Readers, ReaderStep(r)
    PROVE read'[r] \in Reads
  <1> USE CatalogueAssumption
  <1>1. read[r] \in Reads
    BY DEF TypeOK, Reads
  <1>2. \A state : Move(r, state) => read'[r] = state
    BY DEF Move, TypeOK
  <1>3. \A page \in SUBSET Ingests, at \in {"scan", "attach"} :
            Page(r, page, at) \in Reads
    <2> SUFFICES ASSUME NEW page \in SUBSET Ingests, NEW at \in {"scan", "attach"}
                 PROVE Page(r, page, at) \in Reads
      OBVIOUS
    <2>1. page \cap AnsweredIngests \in SUBSET Ingests
      OBVIOUS
    <2> QED BY <1>1, <2>1 DEF Page, Reads
  <1>4. NoRead \in Reads
    BY DEF NoRead, Reads
  <1>5. CASE StartWalk(r)
    <2>1. PICK min \in Scores \cup {0}, n \in Asked :
              Move(r, [NoRead EXCEPT !.at = "query", !.min = min,
                                     !.limit = Limit(n), !.base = Matching(min)])
      BY <1>5 DEF StartWalk
    <2>2. Limit(n) \in 0 .. MaxLimit
      BY LimitInRange
    <2>3. Matching(min) \in SUBSET Ingests
      BY DEF Matching
    <2>4. [NoRead EXCEPT !.at = "query", !.min = min, !.limit = Limit(n),
                         !.base = Matching(min)] \in Reads
      BY <1>4, <2>2, <2>3, Zenon DEF Reads
    <2> QED BY <1>2, <2>1, <2>4
  <1>6. CASE QueryPage(r)
    <2>1. PICK before \in SUBSET Ingests, upto \in SUBSET Ingests :
              Move(r, Page(r, upto \ before, "scan"))
      BY <1>6 DEF QueryPage, FirstOf, Matching
    <2> QED BY <1>2, <1>3, <2>1
  <1>7. CASE CloseRows(r)
    BY <1>1, <1>2, <1>7 DEF CloseRows, Reads
  <1>8. CASE GetLead(r)
    <2>1. PICK i \in Ingests : Move(r, [Page(r, {i}, "attach") EXCEPT !.kind = "get"])
      BY <1>8 DEF GetLead, Matching
    <2>2. Page(r, {i}, "attach") \in Reads
      BY <1>3
    <2>3. [Page(r, {i}, "attach") EXCEPT !.kind = "get"] \in Reads
      BY <2>2, Zenon DEF Reads
    <2> QED BY <1>2, <2>1, <2>3
  <1>9. CASE AttachScores(r)
    <2>1. Shown(r) \in [Ingests -> 0 .. StrategyCount]
      BY DEF Shown, TypeOK
    <2>2. [read[r] EXCEPT !.at = "answer", !.shown = Shown(r)] \in Reads
      BY <1>1, <2>1, Zenon DEF Reads
    <2> QED BY <1>2, <1>9, <2>2 DEF AttachScores
  <1>10. CASE Answer(r)
    <2>1. read[r].page \subseteq Ingests
      BY <1>1 DEF Reads
    <2>2. read[r].offset + Cardinality(read[r].page) \in Nat
      BY <1>1, <2>1, Counted DEF Reads
    <2>3. NoRead.shown \in [Ingests -> 0 .. StrategyCount]
      BY DEF NoRead
    <2>4. PICK at \in {"end", "query"}, offset \in Nat, again \in SUBSET Ingests,
               got \in SUBSET Ingests, shown \in [Ingests -> 0 .. StrategyCount] :
              Move(r, [read[r] EXCEPT !.at = at, !.offset = offset, !.again = again,
                              !.got = got, !.page = {}, !.known = {}, !.shown = shown])
      <3>1. /\ read[r].again \cup (read[r].got \cap read[r].page) \in SUBSET Ingests
            /\ read[r].got \cup read[r].page \in SUBSET Ingests
        BY <1>1 DEF Reads
      <3>2. (IF read[r].kind = "get" \/ read[r].page = {} THEN "end" ELSE "query")
              \in {"end", "query"}
        OBVIOUS
      <3> QED BY <1>10, <2>2, <2>3, <3>1, <3>2 DEF Answer
    <2> DEFINE Ats == {"idle", "query", "scan", "attach", "answer", "end"}
               Sets == SUBSET Ingests
               Limits == 0 .. MaxLimit
               Scored == [Ingests -> 0 .. StrategyCount]
               Offsets == Nat
    <2>5. Reads = [at: Ats, kind: {"walk", "get"}, min: Scores \cup {0},
                   limit: Limits, offset: Offsets, base: Sets, got: Sets, again: Sets,
                   page: Sets, known: Sets, shown: Scored]
      BY DEF Reads
    <2>6. at \in Ats /\ {} \in Sets /\ again \in Sets /\ got \in Sets
            /\ shown \in Scored /\ offset \in Offsets
      OBVIOUS
    <2> HIDE DEF Ats, Sets, Limits, Scored, Offsets
    <2> HIDE CatalogueAssumption
    <2>7. [read[r] EXCEPT !.at = at, !.offset = offset, !.again = again,
                          !.got = got, !.page = {}, !.known = {}, !.shown = shown]
              \in Reads
      BY <1>1, <2>5, <2>6
    <2> QED BY <1>2, <2>4, <2>7
  <1>11. CASE FailRead(r)
    <2>1. PICK at \in {"end", "query"} :
              Move(r, [read[r] EXCEPT !.page = {}, !.known = {}, !.at = at])
      <3>1. (IF read[r].kind = "get" THEN "end" ELSE "query") \in {"end", "query"}
        OBVIOUS
      <3> QED BY <1>11, <3>1 DEF FailRead
    <2> DEFINE state == [read[r] EXCEPT !.page = {}, !.known = {}, !.at = at]
    <2>2. state \in Reads
      BY <1>1, Zenon DEF Reads
    <2> QED BY <1>2, <2>1, <2>2
  <1> QED BY <1>5, <1>6, <1>7, <1>8, <1>9, <1>10, <1>11 DEF ReaderStep, Fetch

LEMMA ReaderTypes ==
    ASSUME TypeOK, IngestInv, NEW r \in Readers, ReaderStep(r)
    PROVE TypeOK' /\ IngestInv'
  <1>1. /\ lead' = lead /\ strategies' = strategies /\ pending' = pending
        /\ trail' = trail /\ pc' = pc
        /\ faults' \in 0 .. MaxFaults /\ faults' >= faults
    BY ReaderKeeps DEF catalogue
  <1>2. read' \in [Readers -> Reads]
    <2>1. read' \in [Readers -> Reads] <=> \A q \in Readers : read'[q] \in Reads
      <3>1. \E state : read' = [read EXCEPT ![r] = state]
        BY DEF ReaderStep, Fetch, StartWalk, GetLead, QueryPage, CloseRows,
               AttachScores, Answer, FailRead, Move
      <3> QED BY <3>1 DEF TypeOK
    <2>2. \A q \in Readers \ {r} : read'[q] \in Reads
      BY ReaderKeeps DEF TypeOK, Reads
    <2> QED BY <2>1, <2>2, ReaderState
  <1>3. TypeOK'
    BY <1>1, <1>2 DEF TypeOK, Reads
  <1>4. IngestInv'
    <2>1. AnsweredIngests' = AnsweredIngests
      BY <1>1 DEF AnsweredIngests
    <2>2. Cardinality(AnsweredIngests \ trail) \in Nat
      BY Counted DEF AnsweredIngests
    <2>3. faults \in Int /\ faults' \in Int
      BY <1>1, CatalogueAssumption DEF TypeOK
    <2> QED BY <1>1, <2>1, <2>2, <2>3 DEF IngestInv
  <1> QED BY <1>3, <1>4

-----------------------------------------------------------------------------
(* The order of the leads, and what it says about the first n of them        *)

LEMMA LeadsMatch ==
    ASSUME TypeOK, NEW min, NEW i \in Matching(min)
    PROVE  i \in Ingests /\ lead[i] \in Leads
  BY DEF TypeOK, Matching, Leads

LEMMA Untied ==
    ASSUME NEW M \in SUBSET Ingests, \A j \in M : lead[j] \in Leads,
           NEW i \in M, ~Tied(i, M), NEW j \in M, j # i
    PROVE  Outranks(i, j) <=> ~Outranks(j, i)
  <1>1. /\ lead[i].score \in Nat /\ lead[i].stamp \in Nat
        /\ lead[j].score \in Nat /\ lead[j].stamp \in Nat
    BY CatalogueAssumption DEF Leads
  <1>2. lead[i].score = lead[j].score => lead[i].stamp # lead[j].stamp
    <2>1. lead[i] # lead[j]
      BY DEF Tied
    <2> QED BY <2>1 DEF Leads
  <1> QED BY <1>1, <1>2 DEF Outranks

\* None of its betters is the lead itself.
LEMMA BetterCounted ==
    ASSUME NEW M \in SUBSET Ingests, \A j \in M : lead[j] \in Leads, NEW i \in M
    PROVE  /\ Better(i, M) \subseteq M \ {i}
           /\ IsFiniteSet(Better(i, M)) /\ Cardinality(Better(i, M)) \in Nat
           /\ Cardinality(Better(i, M)) < Cardinality(M)
  <1>1. lead[i].score \in Nat /\ lead[i].stamp \in Nat
    BY CatalogueAssumption DEF Leads
  <1>2. Better(i, M) \subseteq M \ {i}
    BY <1>1 DEF Better, Outranks
  <1>3. IsFiniteSet(M) /\ Cardinality(M) \in Nat
    BY Counted
  <1>4. IsFiniteSet(Better(i, M)) /\ Cardinality(Better(i, M)) \in Nat
    BY <1>2, Counted
  <1>5. IsFiniteSet(M \ {i}) /\ Cardinality(M \ {i}) = Cardinality(M) - 1
    BY <1>3, FS_RemoveElement
  <1>6. Cardinality(Better(i, M)) <= Cardinality(M \ {i})
    BY <1>2, <1>5, FS_Subset
  <1> QED BY <1>2, <1>3, <1>4, <1>5, <1>6

\* However ties are sorted, an untied lead is among the first n exactly if fewer
\* than n are better.
LEMMA PagePlace ==
    ASSUME NEW M \in SUBSET Ingests, \A j \in M : lead[j] \in Leads,
           NEW n \in Nat, NEW P \in FirstOf(M, n),
           NEW i \in M, ~Tied(i, M)
    PROVE  i \in P <=> Cardinality(Better(i, M)) < n
  <1>1. /\ P \subseteq M
        /\ Cardinality(P) = IF n < Cardinality(M) THEN n ELSE Cardinality(M)
        /\ \A j \in P, k \in M \ P : ~Outranks(k, j)
    BY DEF FirstOf
  <1>2. /\ IsFiniteSet(M) /\ Cardinality(M) \in Nat
        /\ IsFiniteSet(P) /\ Cardinality(P) \in Nat
    BY <1>1, Counted
  <1>3. /\ Better(i, M) \subseteq M \ {i}
        /\ IsFiniteSet(Better(i, M)) /\ Cardinality(Better(i, M)) \in Nat
    BY BetterCounted
  <1>4. ASSUME i \in P PROVE Cardinality(Better(i, M)) < n
    <2>1. Better(i, M) \subseteq P \ {i}
      BY <1>1, <1>3, <1>4 DEF Better
    <2>2. IsFiniteSet(P \ {i}) /\ Cardinality(P \ {i}) = Cardinality(P) - 1
      BY <1>2, <1>4, FS_RemoveElement
    <2>3. Cardinality(Better(i, M)) <= Cardinality(P \ {i})
      BY <2>1, <2>2, FS_Subset
    <2> QED BY <1>1, <1>2, <1>3, <2>2, <2>3
  <1>5. ASSUME i \notin P PROVE n <= Cardinality(Better(i, M))
    <2>1. P \subseteq Better(i, M)
      BY <1>1, <1>5, Untied DEF Better
    <2>2. Cardinality(P) <= Cardinality(Better(i, M))
      BY <1>3, <2>1, FS_Subset
    <2>3. Cardinality(Better(i, M)) < Cardinality(M)
      BY BetterCounted
    <2> QED BY <1>1, <1>2, <1>3, <2>2, <2>3
  <1> QED BY <1>3, <1>4, <1>5

\* How long a page is: short of its limit only at the end.
LEMMA PageLength ==
    ASSUME NEW M, IsFiniteSet(M), NEW from \in Nat, NEW to \in Nat, from <= to,
           NEW before \in FirstOf(M, from), NEW upto \in FirstOf(M, to),
           before \cap upto = before
    PROVE  /\ Cardinality(upto \ before) \in Nat
           /\ upto # M => Cardinality(upto \ before) = to - from
           /\ \/ Cardinality(upto \ before) = to - from
              \/ from + Cardinality(upto \ before) >= Cardinality(M)
           /\ from <= Cardinality(M) =>
                 from + Cardinality(upto \ before) <= Cardinality(M)
  <1>1. /\ before \subseteq M /\ upto \subseteq M
        /\ Cardinality(before) = IF from < Cardinality(M) THEN from ELSE Cardinality(M)
        /\ Cardinality(upto) = IF to < Cardinality(M) THEN to ELSE Cardinality(M)
    BY DEF FirstOf
  <1>2. /\ IsFiniteSet(M) /\ Cardinality(M) \in Nat
        /\ IsFiniteSet(before) /\ IsFiniteSet(upto) /\ IsFiniteSet(upto \ before)
    BY <1>1, FS_Subset, FS_CardinalityType, FS_Difference
  <1>3. Cardinality(upto \ before) = Cardinality(upto) - Cardinality(before)
    <2>1. Cardinality(upto \ before) = Cardinality(upto) - Cardinality(upto \cap before)
      BY <1>2, FS_Difference
    <2>2. upto \cap before = before
      OBVIOUS
    <2> QED BY <2>1, <2>2
  <1>4. upto # M => Cardinality(upto) # Cardinality(M)
    BY <1>1, <1>2, FS_Subset
  <1>5. Cardinality(upto \ before) \in Nat
    BY <1>2, FS_CardinalityType
  <1> QED BY <1>1, <1>2, <1>3, <1>4, <1>5

-----------------------------------------------------------------------------
(* What a reader has, while ingests add to the catalogue                     *)

\* A new lead comes among the matching ones of a reader, and changes nothing
\* between those that were there.
LEMMA LeadAdded ==
    ASSUME TypeOK, NEW k \in Ingests, \A j \in Ingests \ {k} : lead'[j] = lead[j],
           lead[k] = NoLead, NEW min, NEW i \in Matching(min)
    PROVE  /\ Matching(min) \subseteq Matching(min)'
           /\ Matching(min)' \subseteq Matching(min) \cup {k}
           /\ k \notin Matching(min) /\ lead'[i] = lead[i]
           /\ Tied(i, Matching(min)) => Tied(i, Matching(min))'
  <1>1. k \notin Matching(min) /\ i # k
    BY DEF Matching
  <1>2. \A j \in Matching(min) : lead'[j] = lead[j]
    BY <1>1 DEF Matching
  <1>3. NoLead' = NoLead
    BY DEF NoLead
  <1>4. /\ Matching(min) \subseteq Matching(min)'
        /\ Matching(min)' \subseteq Matching(min) \cup {k}
    BY <1>2, <1>3 DEF Matching
  <1>5. Tied(i, Matching(min)) => Tied(i, Matching(min))'
    BY <1>1, <1>2, <1>4 DEF Tied
  <1> QED BY <1>1, <1>2, <1>4, <1>5

\* More ingests that have been answered do not matter to what a reader holds.
LEMMA InvAnswered ==
    ASSUME lead' = lead, AnsweredIngests \subseteq AnsweredIngests',
           NEW state, ReaderInv(state)
    PROVE  ReaderInv(state)'
  <1>1. \A min : Matching(min)' = Matching(min)
    BY DEF Matching, NoLead
  <1>2. \A i, M : (Tied(i, M)' <=> Tied(i, M)) /\ Better(i, M)' = Better(i, M)
    BY DEF Tied, Better, Outranks
  <1>3. \A i : Disturbed(i, state)' <=> Disturbed(i, state)
    BY <1>1, <1>2 DEF Disturbed, NotBehind
  <1>4. PageInv(state)'
    BY <1>1 DEF ReaderInv, PageInv, NoRead
  <1>5. MissInv(state)' <=> MissInv(state)
    BY <1>1, <1>2 DEF MissInv, NextOffset
  <1>6. RepeatInv(state)' <=> RepeatInv(state)
    BY <1>1, <1>2, <1>3 DEF RepeatInv, NextOffset
  <1>7. OffsetInv(state)' <=> OffsetInv(state)
    BY <1>1 DEF OffsetInv, NextOffset
  <1> QED BY <1>3, <1>4, <1>5, <1>6, <1>7 DEF ReaderInv

\* Nor does a new lead, but for what the invariants except.
LEMMA InvGrows ==
    ASSUME TypeOK, TypeOK', NEW k \in Ingests,
           \A j \in Ingests \ {k} : lead'[j] = lead[j], lead[k] = NoLead,
           AnsweredIngests \subseteq AnsweredIngests',
           NEW state \in Reads, ReaderInv(state)
    PROVE  ReaderInv(state)'
  <1> DEFINE M == Matching(state.min)
  <1>1. \A i \in M :
          /\ M \subseteq M' /\ M' \subseteq M \cup {k}
          /\ k \notin M /\ lead'[i] = lead[i]
          /\ Tied(i, M) => Tied(i, M)'
    BY LeadAdded
  <1>2. M \subseteq M' /\ M' \subseteq M \cup {k} /\ k \notin M
    <2>1. NoLead' = NoLead
      BY DEF NoLead
    <2> QED BY <2>1 DEF Matching
  <1>3. /\ M \in SUBSET Ingests /\ \A j \in M : lead[j] \in Leads
        /\ M' \in SUBSET Ingests /\ \A j \in M' : lead'[j] \in Leads
    <2>1. NoLead' = NoLead
      BY DEF NoLead
    <2> QED BY <2>1 DEF Matching, TypeOK, Leads
  <1>4. state.base \subseteq M /\ state.got \subseteq M /\ state.page \subseteq M
    BY DEF ReaderInv, PageInv
  <1>5. \A i \in M : Disturbed(i, state) => Disturbed(i, state)'
    <2> SUFFICES ASSUME NEW i \in M, Disturbed(i, state) PROVE Disturbed(i, state)'
      OBVIOUS
    <2>1. CASE Tied(i, M)
      <3>1. Tied(i, M)'
        BY <1>1, <2>1
      <3> QED BY <3>1 DEF Disturbed
    <2>2. CASE ~Tied(i, M)
      <3>1. PICK j \in M \ state.base : NotBehind(j, i)
        BY <2>2 DEF Disturbed
      <3>2. j \in M' \ state.base /\ NotBehind(j, i)'
        <4>1. lead'[j] = lead[j] /\ lead'[i] = lead[i]
          BY <1>1, <3>1
        <4> QED BY <1>2, <3>1, <4>1 DEF NotBehind
      <3> QED BY <3>2 DEF Disturbed
    <2> QED BY <2>1, <2>2
  <1>6. \A i \in M : /\ Better(i, M) \subseteq Better(i, M)'
                   /\ Better(i, M)' \subseteq Better(i, M) \cup {k}
                   /\ Cardinality(Better(i, M)) \in Nat
                   /\ Cardinality(Better(i, M)') \in Nat
                   /\ Cardinality(Better(i, M)) <= Cardinality(Better(i, M)')
    <2> SUFFICES ASSUME NEW i \in M
                 PROVE  /\ Better(i, M) \subseteq Better(i, M)'
                        /\ Better(i, M)' \subseteq Better(i, M) \cup {k}
                        /\ Cardinality(Better(i, M)) \in Nat
                        /\ Cardinality(Better(i, M)') \in Nat
                        /\ Cardinality(Better(i, M)) <= Cardinality(Better(i, M)')
      OBVIOUS
    <2>1. /\ Better(i, M) \subseteq Better(i, M)'
          /\ Better(i, M)' \subseteq Better(i, M) \cup {k}
      <3>1. \A j \in M : lead'[j] = lead[j]
        BY <1>1
      <3> QED BY <1>2, <3>1 DEF Better, Outranks
    <2>2. Better(i, M) \subseteq Ingests /\ Better(i, M)' \subseteq Ingests
      BY <1>3 DEF Better
    <2>3. /\ IsFiniteSet(Better(i, M)) /\ Cardinality(Better(i, M)) \in Nat
          /\ IsFiniteSet(Better(i, M)') /\ Cardinality(Better(i, M)') \in Nat
      BY <2>2, Counted
    <2> QED BY <2>1, <2>3, FS_Subset
  <1>7. PageInv(state)'
    <2>1. AnsweredIngests \cap state.page \subseteq AnsweredIngests' \cap state.page
      OBVIOUS
    <2> QED BY <1>2, <2>1 DEF ReaderInv, PageInv, NoRead
  <1>8. MissInv(state) => MissInv(state)'
    <2> SUFFICES ASSUME MissInv(state), NEW i \in state.base \ state.got,
                        ~Tied(i, M)'
                 PROVE  /\ state.at \notin {"idle", "end"}
                        /\ Cardinality(Better(i, M)') >= state.offset
                        /\ i \notin state.page =>
                              /\ Cardinality(Better(i, M)') >= NextOffset(state)
                              /\ state.at # "query" => state.page # {}
      BY DEF MissInv, NextOffset
    <2>1. i \in M /\ ~Tied(i, M)
      BY <1>1, <1>4
    <2>2. /\ state.at \notin {"idle", "end"}
          /\ Cardinality(Better(i, M)) >= state.offset
          /\ i \notin state.page =>
                /\ Cardinality(Better(i, M)) >= NextOffset(state)
                /\ state.at # "query" => state.page # {}
      BY <2>1 DEF MissInv
    <2>3. state.offset \in Nat /\ NextOffset(state) \in Nat
      BY Counted DEF Reads, NextOffset
    <2> QED BY <1>6, <2>1, <2>2, <2>3
  <1>9. RepeatInv(state) => RepeatInv(state)'
    <2> SUFFICES ASSUME RepeatInv(state), NEW i \in state.got \cup state.page,
                        ~Disturbed(i, state)'
                 PROVE  /\ i \in state.got => Cardinality(Better(i, M)') < state.offset
                        /\ i \in state.page =>
                              Cardinality(Better(i, M)') < NextOffset(state)
                        /\ i \notin state.got \cap state.page
      BY DEF RepeatInv, NextOffset
    <2>1. i \in M /\ ~Disturbed(i, state)
      BY <1>4, <1>5
    <2>2. Better(i, M)' = Better(i, M)
      <3>1. CASE k \in Better(i, M)'
        <4>1. k \in M' \ state.base /\ Outranks(k, i)'
          BY <1>2, <1>4, <3>1 DEF Better
        <4>2. lead'[k] \in Leads /\ lead'[i] \in Leads
          BY <1>2, <1>3, <2>1, <4>1
        <4>3. NotBehind(k, i)'
          <5>1. lead'[k].stamp \in Nat /\ lead'[i].stamp \in Nat
            BY <4>2, CatalogueAssumption DEF Leads
          <5> QED BY <4>1, <5>1 DEF Outranks, NotBehind
        <4> QED BY <4>1, <4>3 DEF Disturbed
      <3>2. CASE k \notin Better(i, M)'
        BY <1>6, <2>1, <3>2
      <3> QED BY <3>1, <3>2
    <2> QED BY <2>1, <2>2 DEF RepeatInv
  <1>10. \A i \in state.again : Disturbed(i, state)'
    <2>1. \A i \in state.again : i \in M
      BY <1>4 DEF ReaderInv, PageInv
    <2> QED BY <1>5, <2>1 DEF ReaderInv
  <1>11. OffsetInv(state)'
    <2>1. Cardinality(M) \in Nat /\ Cardinality(M') \in Nat
          /\ Cardinality(M) <= Cardinality(M')
      BY <1>2, <1>3, Counted, FS_Subset
    <2>2. NextOffset(state) \in Nat /\ NextOffset(state) <= Cardinality(M)
      BY Counted DEF Reads, NextOffset, ReaderInv, OffsetInv
    <2>3. NextOffset(state) <= Cardinality(M')
      BY <2>1, <2>2
    <2> QED BY <2>3 DEF OffsetInv, NextOffset
  <1> HIDE DEF M
  <1> QED BY <1>7, <1>8, <1>9, <1>10, <1>11 DEF ReaderInv

-----------------------------------------------------------------------------
(* The steps of a walk, from one state of the reader to the next             *)

\* What a step leaves to a reader of the walk it is on.
SameWalk(s, t) ==
    /\ t.kind = s.kind /\ t.min = s.min /\ t.limit = s.limit /\ t.base = s.base
SameRows(s, t) ==
    /\ SameWalk(s, t)
    /\ t.offset = s.offset /\ t.got = s.got /\ t.again = s.again

LEMMA DisturbedSame ==
    ASSUME NEW s, NEW t, SameWalk(s, t), NEW i
    PROVE  Disturbed(i, s) <=> Disturbed(i, t)
  BY DEF Disturbed, SameWalk

LEMMA QueryInv ==
    ASSUME TypeOK, NEW s \in Reads, ReaderInv(s), s.at = "query",
           NEW before \in FirstOf(Matching(s.min), s.offset),
           NEW upto \in FirstOf(Matching(s.min), s.offset + s.limit),
           before \subseteq upto,
           NEW t \in Reads, SameRows(s, t), t.at = "scan",
           t.page = upto \ before, t.known = t.page \cap AnsweredIngests
    PROVE  ReaderInv(t)
  <1> DEFINE M == Matching(s.min)
  <1>1. /\ M \in SUBSET Ingests /\ \A j \in M : lead[j] \in Leads
        /\ s.offset \in Nat /\ s.limit \in Nat /\ s.offset + s.limit \in Nat
    BY CatalogueAssumption DEF Matching, TypeOK, Leads, Reads
  <1>2. Matching(t.min) = M /\ \A i : Disturbed(i, s) <=> Disturbed(i, t)
    BY DisturbedSame DEF SameRows, SameWalk
  <1>3. s.base \subseteq M /\ s.got \subseteq M /\ s.again \subseteq s.got
    BY DEF ReaderInv, PageInv
  <1>4. /\ t.page \in SUBSET M /\ Cardinality(t.page) \in Nat
        /\ upto # M => Cardinality(t.page) = s.limit
        /\ \/ Cardinality(t.page) = s.limit
           \/ s.offset + Cardinality(t.page) >= Cardinality(M)
        /\ s.offset <= Cardinality(M) =>
              s.offset + Cardinality(t.page) <= Cardinality(M)
    <2> HIDE DEF M
    <2>1. before \in FirstOf(M, s.offset) /\ upto \in FirstOf(M, s.offset + s.limit)
      BY DEF M
    <2>2. PICK to \in Nat : to = s.offset + s.limit
      BY <1>1
    <2>3. /\ s.offset \in Nat /\ s.offset <= to /\ to - s.offset = s.limit
          /\ IsFiniteSet(M) /\ before \cap upto = before
      BY <1>1, <2>2, Counted
    <2>4. upto \in FirstOf(M, to)
      BY <2>1, <2>2
    <2>5. /\ Cardinality(upto \ before) \in Nat
          /\ upto # M => Cardinality(upto \ before) = to - s.offset
          /\ \/ Cardinality(upto \ before) = to - s.offset
             \/ s.offset + Cardinality(upto \ before) >= Cardinality(M)
          /\ s.offset <= Cardinality(M) =>
                s.offset + Cardinality(upto \ before) <= Cardinality(M)
      BY <2>1, <2>3, <2>4, PageLength
    <2>6. upto \ before \in SUBSET M
      BY <2>1 DEF FirstOf
    <2> QED BY <2>3, <2>5, <2>6
  <1>5. /\ \A i \in M : ~Tied(i, M) => (i \in before <=>
                                           Cardinality(Better(i, M)) < s.offset)
        /\ \A i \in M : ~Tied(i, M) => (i \in upto <=>
                              Cardinality(Better(i, M)) < s.offset + s.limit)
        /\ \A i \in M : /\ Cardinality(Better(i, M)) \in Nat
                       /\ Cardinality(Better(i, M)) < Cardinality(M)
    <2> HIDE DEF M
    <2>1. before \in FirstOf(M, s.offset) /\ upto \in FirstOf(M, s.offset + s.limit)
      BY DEF M
    <2>2. \A i \in M : ~Tied(i, M) => (i \in before <=>
                                         Cardinality(Better(i, M)) < s.offset)
      BY <1>1, <2>1, PagePlace
    <2>3. \A i \in M : ~Tied(i, M) => (i \in upto <=>
                              Cardinality(Better(i, M)) < s.offset + s.limit)
      BY <1>1, <2>1, PagePlace
    <2> QED BY <1>1, <2>2, <2>3, BetterCounted
  <1>6. IsFiniteSet(M) /\ Cardinality(M) \in Nat
    BY <1>1, Counted
  <1>7. upto \subseteq M
    BY DEF FirstOf
  <1> HIDE DEF M
  <1>8. PageInv(t)
    BY <1>2, <1>3, <1>4 DEF ReaderInv, PageInv, SameRows, SameWalk
  <1>9. ASSUME s.kind = "walk" PROVE MissInv(t)
    <2> SUFFICES ASSUME NEW i \in s.base \ s.got, ~Tied(i, M)
                 PROVE  /\ Cardinality(Better(i, M)) >= s.offset
                        /\ i \notin t.page =>
                              /\ Cardinality(Better(i, M)) >=
                                     s.offset + Cardinality(t.page)
                              /\ t.page # {}
      BY <1>2 DEF MissInv, NextOffset, SameRows, SameWalk
    <2>1. Cardinality(Better(i, M)) >= s.offset /\ i \in M
      BY <1>3, <1>9 DEF ReaderInv, MissInv, M
    <2>2. ASSUME i \notin t.page
          PROVE  /\ Cardinality(Better(i, M)) >= s.offset + Cardinality(t.page)
                 /\ t.page # {}
      <3>1. i \notin before
        BY <1>1, <1>5, <2>1
      <3>2. i \notin upto
        BY <2>2, <3>1
      <3>3. Cardinality(Better(i, M)) >= s.offset + s.limit
        BY <1>1, <1>5, <2>1, <3>2
      <3>4. Cardinality(t.page) = s.limit
        BY <1>4, <2>1, <3>2
      <3>5. s.limit >= 1
        BY <1>9 DEF ReaderInv, PageInv
      <3>6. t.page # {}
        BY <3>4, <3>5, FS_EmptySet
      <3> QED BY <3>3, <3>4, <3>6
    <2> QED BY <2>1, <2>2
  <1>10. ASSUME s.kind = "walk" PROVE RepeatInv(t)
    <2> SUFFICES ASSUME NEW i \in s.got \cup t.page, ~Disturbed(i, s)
                 PROVE  /\ i \in s.got => Cardinality(Better(i, M)) < s.offset
                        /\ i \in t.page => Cardinality(Better(i, M)) <
                                              s.offset + Cardinality(t.page)
                        /\ i \notin s.got \cap t.page
      BY <1>2 DEF RepeatInv, NextOffset, SameRows, SameWalk
    <2>1. i \in M /\ ~Tied(i, M)
      BY <1>3, <1>4 DEF Disturbed, M
    <2>2. i \in s.got => Cardinality(Better(i, M)) < s.offset
      BY <1>10 DEF ReaderInv, RepeatInv, M
    <2>3. i \in s.got => i \in before
      BY <1>5, <2>1, <2>2
    <2>4. i \in t.page => Cardinality(Better(i, M)) < s.offset + Cardinality(t.page)
      <3>1. i \in t.page => Cardinality(Better(i, M)) < s.offset + s.limit
        BY <1>5, <2>1
      <3> QED BY <1>1, <1>4, <1>5, <1>6, <2>1, <3>1
    <2> QED BY <2>2, <2>3, <2>4
  <1>11. \A i \in t.again : Disturbed(i, t)
    BY <1>2 DEF ReaderInv, SameRows
  <1>12. OffsetInv(t)
    <2>1. Cardinality(s.page) \in Nat /\ NextOffset(s) <= Cardinality(M)
      BY Counted DEF Reads, ReaderInv, OffsetInv, M
    <2>2. s.offset <= Cardinality(M)
      BY <1>1, <1>6, <2>1 DEF NextOffset
    <2> QED BY <1>2, <1>4, <2>2 DEF OffsetInv, NextOffset, SameRows
  <1> QED BY <1>8, <1>9, <1>10, <1>11, <1>12 DEF ReaderInv, SameRows, SameWalk

\* Closing the rows of a page, or attaching its strategy scores.
LEMMA ScanInv ==
    ASSUME NEW s \in Reads, ReaderInv(s), s.at \in {"scan", "attach"},
           NEW t \in Reads, SameRows(s, t), t.at \in {"attach", "answer"},
           t.page = s.page, t.known = s.known,
           t.at = "answer" => \A i \in t.page :
              /\ t.shown[i] \in {0, StrategyCount}
              /\ i \in t.known => t.shown[i] = StrategyCount
    PROVE  ReaderInv(t)
  <1>1. \A i : Disturbed(i, s) <=> Disturbed(i, t)
    BY DisturbedSame DEF SameRows
  <1>2. PageInv(t)
    BY DEF ReaderInv, PageInv, SameRows, SameWalk
  <1>3. s.kind = "walk" => MissInv(t)
    BY DEF ReaderInv, MissInv, NextOffset, SameRows, SameWalk
  <1>4. s.kind = "walk" => RepeatInv(t)
    BY <1>1 DEF ReaderInv, RepeatInv, NextOffset, SameRows, SameWalk
  <1>5. OffsetInv(t)
    BY DEF ReaderInv, OffsetInv, NextOffset, SameRows, SameWalk
  <1> QED BY <1>1, <1>2, <1>3, <1>4, <1>5 DEF ReaderInv, SameRows, SameWalk

\* The page is taken, and the next one is asked for.
LEMMA AnswerInv ==
    ASSUME TypeOK, NEW s \in Reads, ReaderInv(s), s.at = "answer",
           NEW t \in Reads, SameWalk(s, t),
           t.at = IF s.kind = "get" \/ s.page = {} THEN "end" ELSE "query",
           t.offset = NextOffset(s), t.page = {}, t.known = {},
           t.got = s.got \cup s.page,
           t.again = s.again \cup (s.got \cap s.page)
    PROVE  ReaderInv(t)
  <1> DEFINE M == Matching(s.min)
  <1>1. Matching(t.min) = M /\ \A i : Disturbed(i, s) <=> Disturbed(i, t)
    BY DisturbedSame DEF SameWalk
  <1>2. /\ s.base \subseteq M /\ s.got \subseteq M /\ s.page \subseteq M
        /\ s.again \subseteq s.got
    BY DEF ReaderInv, PageInv
  <1>3. /\ s.offset \in Nat /\ Cardinality(s.page) \in Nat
        /\ NextOffset(t) = t.offset /\ t.offset \in Nat
    BY Counted, FS_EmptySet DEF Reads, NextOffset
  <1>4. M \in SUBSET Ingests /\ \A j \in M : lead[j] \in Leads
    BY DEF Matching, TypeOK, Leads
  <1>5. \A i \in M : Cardinality(Better(i, M)) \in Nat
    BY <1>4, BetterCounted
  <1> HIDE DEF M
  <1>6. PageInv(t)
    BY <1>1, <1>2 DEF ReaderInv, PageInv, SameWalk
  <1>7. s.kind = "walk" => MissInv(t)
    <2> SUFFICES ASSUME s.kind = "walk", NEW i \in s.base \ (s.got \cup s.page),
                        ~Tied(i, M)
                 PROVE  t.at = "query" /\ Cardinality(Better(i, M)) >= t.offset
      BY <1>1, <1>3 DEF MissInv, SameWalk
    <2>1. /\ Cardinality(Better(i, M)) >= NextOffset(s)
          /\ s.page # {}
      BY DEF ReaderInv, MissInv, M
    <2> QED BY <2>1
  <1>8. s.kind = "walk" => RepeatInv(t)
    <2> SUFFICES ASSUME s.kind = "walk", NEW i \in s.got \cup s.page,
                        ~Disturbed(i, s)
                 PROVE  Cardinality(Better(i, M)) < t.offset
      BY <1>1, <1>3 DEF RepeatInv, SameWalk
    <2>1. /\ i \in s.got => Cardinality(Better(i, M)) < s.offset
          /\ i \in s.page => Cardinality(Better(i, M)) < NextOffset(s)
      BY DEF ReaderInv, RepeatInv, M
    <2> QED BY <1>2, <1>3, <1>5, <2>1 DEF NextOffset
  <1>9. \A i \in t.again : Disturbed(i, t)
    <2>1. \A i \in s.got \cap s.page : Disturbed(i, s)
      <3>1. CASE s.kind = "walk"
        BY <3>1 DEF ReaderInv, RepeatInv
      <3>2. CASE s.kind = "get"
        BY <3>2 DEF ReaderInv, PageInv
      <3> QED BY <3>1, <3>2 DEF Reads
    <2> QED BY <1>1, <2>1 DEF ReaderInv
  <1>10. OffsetInv(t)
    BY <1>1, <1>3 DEF ReaderInv, OffsetInv, M
  <1> QED BY <1>6, <1>7, <1>8, <1>9, <1>10 DEF ReaderInv, SameWalk

\* A read fails, and the page is asked for again.
LEMMA FailInv ==
    ASSUME TypeOK, NEW s \in Reads, ReaderInv(s), s.at \in {"query", "scan", "attach"},
           NEW t \in Reads, SameRows(s, t), t.page = {}, t.known = {},
           t.at = IF s.kind = "get" THEN "end" ELSE "query"
    PROVE  ReaderInv(t)
  <1>1. /\ Matching(t.min) = Matching(s.min)
        /\ \A i : Disturbed(i, s) <=> Disturbed(i, t)
    BY DisturbedSame DEF SameRows, SameWalk
  <1>2. NextOffset(t) = s.offset
    BY FS_EmptySet DEF NextOffset, SameRows, Reads
  <1>3. PageInv(t)
    BY <1>1 DEF ReaderInv, PageInv, SameRows, SameWalk
  <1>4. s.kind = "walk" => MissInv(t)
    BY <1>1, <1>2 DEF ReaderInv, MissInv, SameRows, SameWalk
  <1>5. s.kind = "walk" => RepeatInv(t)
    BY <1>1, <1>2 DEF ReaderInv, RepeatInv, SameRows, SameWalk
  <1>6. OffsetInv(t)
    <2>1. s.offset \in Nat /\ Cardinality(s.page) \in Nat
          /\ Cardinality(Matching(s.min)) \in Nat
      BY Counted DEF Reads, Matching
    <2>2. s.offset + Cardinality(s.page) <= Cardinality(Matching(s.min))
      BY DEF ReaderInv, OffsetInv, NextOffset
    <2>3. s.offset <= Cardinality(Matching(s.min))
      BY <2>1, <2>2
    <2> QED BY <1>1, <1>2, <2>3 DEF OffsetInv
  <1> QED BY <1>1, <1>3, <1>4, <1>5, <1>6 DEF ReaderInv, SameRows, SameWalk

\* Whatever a reader does, its invariant holds of where it comes to.
LEMMA ReaderSteps ==
    ASSUME IndInv, NEW r \in Readers, ReaderStep(r),
           NEW t \in Reads, t = read'[r]
    PROVE  ReaderInv(t)
  <1>1. PICK s \in Reads : s = read[r]
    BY DEF IndInv, TypeOK, Reads
  <1>2. ReaderInv(s) /\ TypeOK /\ IngestInv
    BY <1>1 DEF IndInv
  <1>3. \A state : Move(r, state) => t = state
    BY DEF Move, IndInv, TypeOK
  <1>4. DOMAIN s = {"at", "kind", "min", "limit", "offset", "base", "got", "again",
                    "page", "known", "shown"}
    BY DEF Reads
  <1>5. CASE StartWalk(r)
    <2>1. PICK min \in Scores \cup {0}, n \in Asked :
              t = [NoRead EXCEPT !.at = "query", !.min = min,
                                 !.limit = Limit(n), !.base = Matching(min)]
      BY <1>3, <1>5 DEF StartWalk
    <2>2. t = [at |-> "query", kind |-> "walk", min |-> min, limit |-> Limit(n),
               offset |-> 0, base |-> Matching(min), got |-> {}, again |-> {},
               page |-> {}, known |-> {}, shown |-> [i \in Ingests |-> 0]]
      BY <2>1 DEF NoRead
    <2>3. Limit(n) >= 1
      BY LimitInRange, CatalogueAssumption
    <2>4. NextOffset(t) = 0
      BY <2>2, FS_EmptySet DEF NextOffset
    <2>5. PageInv(t)
      BY <2>2, <2>3 DEF PageInv
    <2>6. MissInv(t)
      <3> SUFFICES ASSUME NEW i \in Matching(min)
                   PROVE  Cardinality(Better(i, Matching(min))) >= 0
        BY <2>2, <2>4 DEF MissInv
      <3>1. Better(i, Matching(min)) \subseteq Ingests
        BY DEF Better, Matching
      <3> QED BY <3>1, Counted
    <2>7. RepeatInv(t) /\ t.again = {}
      BY <2>2 DEF RepeatInv
    <2>8. OffsetInv(t)
      <3>1. Cardinality(Matching(t.min)) \in Nat
        BY Counted DEF Matching
      <3> QED BY <2>4, <3>1 DEF OffsetInv
    <2> QED BY <2>5, <2>6, <2>7, <2>8 DEF ReaderInv
  <1>6. CASE GetLead(r)
    <2>1. PICK i \in Matching(0) : t = [Page(r, {i}, "attach") EXCEPT !.kind = "get"]
      BY <1>3, <1>6 DEF GetLead
    <2>2. s = NoRead
      BY <1>1, <1>2, <1>6 DEF GetLead, Asks, ReaderInv, PageInv
    <2>3. PICK p : p = [s EXCEPT !.page = {i}, !.known = {i} \cap AnsweredIngests,
                                 !.at = "attach"]
      OBVIOUS
    <2>4. t = [p EXCEPT !.kind = "get"]
      BY <1>1, <2>1, <2>3 DEF Page
    <2>5. /\ p.at = "attach" /\ p.min = s.min /\ p.base = s.base /\ p.got = s.got
          /\ p.again = s.again /\ p.offset = s.offset /\ p.page = {i} /\ p.known = {i} \cap AnsweredIngests
          /\ DOMAIN p = DOMAIN s
      BY <1>4, <2>3
    <2>6. /\ t.at = "attach" /\ t.min = s.min /\ t.base = s.base /\ t.got = s.got
          /\ t.again = s.again /\ t.offset = s.offset /\ t.page = {i} /\ t.known = {i} \cap AnsweredIngests
          /\ t.kind = "get"
      BY <1>4, <2>4, <2>5
    <2>7. s.min = 0 /\ s.base = {} /\ s.got = {} /\ s.again = {} /\ s.offset = 0
      BY <2>2 DEF NoRead
    <2>8. OffsetInv(t)
      <3>1. IsFiniteSet(Matching(0)) /\ Cardinality(Matching(0)) \in Nat
        BY Counted DEF Matching
      <3>2. Cardinality({i}) = 1 /\ Cardinality({i}) <= Cardinality(Matching(0))
        BY <3>1, FS_Singleton, FS_Subset
      <3> QED BY <2>6, <2>7, <3>1, <3>2 DEF OffsetInv, NextOffset
    <2> QED BY <2>6, <2>7, <2>8 DEF ReaderInv, PageInv
  <1>7. CASE QueryPage(r)
    <2>1. PICK before \in FirstOf(Matching(s.min), s.offset),
               upto \in FirstOf(Matching(s.min), s.offset + s.limit) :
              before \subseteq upto /\ t = Page(r, upto \ before, "scan")
      BY <1>1, <1>3, <1>7 DEF QueryPage
    <2>2. t = [s EXCEPT !.page = upto \ before,
                        !.known = (upto \ before) \cap AnsweredIngests, !.at = "scan"]
      BY <1>1, <2>1 DEF Page
    <2>3. /\ SameRows(s, t) /\ t.at = "scan" /\ t.page = upto \ before
          /\ t.known = t.page \cap AnsweredIngests
      BY <1>4, <2>2 DEF SameRows, SameWalk
    <2>4. s.at = "query"
      BY <1>1, <1>7 DEF QueryPage, Asks
    <2> QED BY <1>2, <2>1, <2>3, <2>4, QueryInv
  <1>8. CASE CloseRows(r)
    <2>1. t = [s EXCEPT !.at = IF s.page = {} THEN "answer" ELSE "attach"]
      BY <1>1, <1>3, <1>8 DEF CloseRows
    <2>2. /\ SameRows(s, t) /\ t.page = s.page /\ t.known = s.known
          /\ t.at = IF s.page = {} THEN "answer" ELSE "attach"
      BY <1>4, <2>1 DEF SameRows, SameWalk
    <2>3. s.at = "scan"
      BY <1>1, <1>8 DEF CloseRows, Asks
    <2> QED BY <1>2, <2>2, <2>3, ScanInv
  <1>9. CASE AttachScores(r)
    <2>1. t = [s EXCEPT !.at = "answer", !.shown = Shown(r)]
      BY <1>1, <1>3, <1>9 DEF AttachScores
    <2>2. /\ SameRows(s, t) /\ t.page = s.page /\ t.known = s.known
          /\ t.at = "answer" /\ t.shown = Shown(r)
      BY <1>4, <2>1 DEF SameRows, SameWalk
    <2>3. s.at = "attach" /\ s.page \subseteq Ingests
      BY <1>1, <1>9 DEF AttachScores, Asks, Reads
    <2>4. \A i \in s.page : t.shown[i] = strategies[i]
      BY <1>1, <2>2, <2>3 DEF Shown
    <2>5. \A i \in s.page : strategies[i] \in {0, StrategyCount}
      BY <1>2, <2>3 DEF IngestInv
    <2>6. \A i \in s.known : strategies[i] = StrategyCount
      BY <1>2 DEF IngestInv, ReaderInv, PageInv, AnsweredIngests
    <2> QED BY <1>2, <2>2, <2>3, <2>4, <2>5, <2>6, ScanInv
  <1>10. CASE Answer(r)
    <2>1. t = [s EXCEPT
             !.at = IF s.kind = "get" \/ s.page = {} THEN "end" ELSE "query",
             !.offset = s.offset + Cardinality(s.page),
             !.again = s.again \cup (s.got \cap s.page),
             !.got = s.got \cup s.page,
             !.page = {}, !.known = {}, !.shown = NoRead.shown]
      BY <1>1, <1>3, <1>10 DEF Answer
    <2>2. /\ SameWalk(s, t) /\ t.page = {} /\ t.known = {}
          /\ t.at = IF s.kind = "get" \/ s.page = {} THEN "end" ELSE "query"
          /\ t.offset = NextOffset(s)
          /\ t.got = s.got \cup s.page
          /\ t.again = s.again \cup (s.got \cap s.page)
      BY <1>4, <2>1 DEF SameWalk, NextOffset
    <2>3. s.at = "answer"
      BY <1>1, <1>10 DEF Answer, Asks
    <2> QED BY <1>2, <2>2, <2>3, AnswerInv
  <1>11. CASE FailRead(r)
    <2>1. t = [s EXCEPT !.page = {}, !.known = {},
                        !.at = IF s.kind = "get" THEN "end" ELSE "query"]
      BY <1>1, <1>3, <1>11 DEF FailRead
    <2>2. /\ SameRows(s, t) /\ t.page = {} /\ t.known = {}
          /\ t.at = IF s.kind = "get" THEN "end" ELSE "query"
      BY <1>4, <2>1 DEF SameRows, SameWalk
    <2>3. s.at \in {"query", "scan", "attach"}
      BY <1>1, <1>11 DEF FailRead
    <2> QED BY <1>2, <2>2, <2>3, FailInv
  <1> QED BY <1>5, <1>6, <1>7, <1>8, <1>9, <1>10, <1>11 DEF ReaderStep, Fetch

-----------------------------------------------------------------------------
(* How much a request has before it                                          *)

\* The offsets of a reader that is not beyond the last lead.
LEMMA OffsetInRange ==
    ASSUME NEW s \in Reads, OffsetInv(s)
    PROVE  /\ Cardinality(Ingests) \in Nat /\ Cardinality(s.page) \in Nat
           /\ s.page # {} => Cardinality(s.page) >= 1
           /\ s.offset \in Nat
           /\ NextOffset(s) = s.offset + Cardinality(s.page)
           /\ NextOffset(s) <= Cardinality(Ingests)
  <1>1. /\ IsFiniteSet(Ingests) /\ Cardinality(Ingests) \in Nat
        /\ IsFiniteSet(s.page) /\ Cardinality(s.page) \in Nat
        /\ Cardinality(Matching(s.min)) \in Nat
    BY Counted DEF Reads, Matching
  <1>2. Cardinality(Matching(s.min)) <= Cardinality(Ingests)
    BY <1>1, FS_Subset DEF Matching
  <1>3. s.page # {} => Cardinality(s.page) # 0
    BY <1>1, FS_EmptySet
  <1>4. s.offset \in Nat
    BY DEF Reads
  <1>5. NextOffset(s) = s.offset + Cardinality(s.page)
    BY DEF NextOffset
  <1>6. NextOffset(s) <= Cardinality(Matching(s.min))
    BY DEF OffsetInv
  <1>7. NextOffset(s) <= Cardinality(Ingests)
    BY <1>1, <1>2, <1>4, <1>5, <1>6
  <1> QED BY <1>1, <1>3, <1>4, <1>5, <1>7

LEMMA ReadLeftInRange ==
    ASSUME NEW s \in Reads, OffsetInv(s)
    PROVE  ReadLeft(s) \in 0 .. 4 * Cardinality(Ingests) + 5
  <1> DEFINE N == Cardinality(Ingests)
             next == NextOffset(s)
  <1>1. N \in Nat /\ s.offset \in Nat /\ next \in Nat /\ s.offset <= next /\ next <= N
        /\ (s.page # {} => next >= 1)
    BY OffsetInRange
  <1>2. ReadLeft(s) =
            CASE s.at = "query" -> 4 * (N - s.offset) + 3
              [] s.at = "scan" -> IF s.page = {} THEN 2 ELSE 4 * (N - next) + 6
              [] s.at = "attach" -> 4 * (N - next) + 5
              [] s.at = "answer" -> IF s.page = {} THEN 1 ELSE 4 * (N - next) + 4
              [] OTHER -> 0
    BY DEF ReadLeft
  <1> HIDE DEF N, next
  <1>3. ReadLeft(s) \in 0 .. 4 * N + 5
    BY <1>1, <1>2
  <1> QED BY <1>3 DEF N

\* Each step of a walk takes the client nearer to the empty page: a page that is
\* not empty moves its offset by one lead at least.
LEMMA FetchNearsEnd ==
    ASSUME IndInv, NEW r \in Readers, Fetch(r)
    PROVE  ReadLeft(read'[r]) < ReadLeft(read[r])
  <1>1. PICK s \in Reads : s = read[r]
    BY DEF IndInv, TypeOK, Reads
  <1>2. PICK t \in Reads : t = read'[r]
    BY ReaderState DEF IndInv, ReaderStep
  <1>3. OffsetInv(s) /\ OffsetInv(t)
    BY <1>1, <1>2, ReaderSteps DEF IndInv, ReaderInv, ReaderStep
  <1> DEFINE N == Cardinality(Ingests)
             m == NextOffset(s)
             n == NextOffset(t)
  <1>4. /\ N \in Nat /\ s.offset \in Nat /\ m \in Nat /\ s.offset <= m /\ m <= N
        /\ t.offset \in Nat /\ n \in Nat /\ t.offset <= n /\ n <= N
        /\ t.page # {} => n >= t.offset + 1
        /\ s.page # {} => m >= s.offset + 1
    BY <1>3, OffsetInRange
  <1>5. ReadLeft(s) =
            CASE s.at = "query" -> 4 * (N - s.offset) + 3
              [] s.at = "scan" -> IF s.page = {} THEN 2 ELSE 4 * (N - m) + 6
              [] s.at = "attach" -> 4 * (N - m) + 5
              [] s.at = "answer" -> IF s.page = {} THEN 1 ELSE 4 * (N - m) + 4
              [] OTHER -> 0
    BY DEF ReadLeft
  <1>6. ReadLeft(t) =
            CASE t.at = "query" -> 4 * (N - t.offset) + 3
              [] t.at = "scan" -> IF t.page = {} THEN 2 ELSE 4 * (N - n) + 6
              [] t.at = "attach" -> 4 * (N - n) + 5
              [] t.at = "answer" -> IF t.page = {} THEN 1 ELSE 4 * (N - n) + 4
              [] OTHER -> 0
    BY DEF ReadLeft
  <1>7. \A state : Move(r, state) => t = state
    BY <1>2 DEF Move, IndInv, TypeOK
  <1>8. DOMAIN s = {"at", "kind", "min", "limit", "offset", "base", "got", "again",
                    "page", "known", "shown"}
    BY DEF Reads
  <1>9. CASE QueryPage(r)
    <2>1. PICK page : t = [s EXCEPT !.page = page,
                                    !.known = page \cap AnsweredIngests, !.at = "scan"]
      BY <1>1, <1>7, <1>9 DEF QueryPage, Page
    <2>2. t.at = "scan" /\ t.offset = s.offset /\ s.at = "query"
      BY <1>1, <1>8, <1>9, <2>1 DEF QueryPage, Asks
    <2> HIDE DEF N, m, n
    <2>3. ReadLeft(t) < ReadLeft(s)
      BY <1>4, <1>5, <1>6, <2>2
    <2> QED BY <1>1, <1>2, <2>3
  <1>10. CASE CloseRows(r)
    <2>1. t = [s EXCEPT !.at = IF s.page = {} THEN "answer" ELSE "attach"]
      BY <1>1, <1>7, <1>10 DEF CloseRows
    <2>2. /\ t.at = IF s.page = {} THEN "answer" ELSE "attach"
          /\ t.page = s.page /\ t.offset = s.offset /\ s.at = "scan"
      BY <1>1, <1>8, <1>10, <2>1 DEF CloseRows, Asks
    <2>3. n = m
      BY <2>2 DEF NextOffset
    <2> HIDE DEF N, m, n
    <2>4. ReadLeft(t) < ReadLeft(s)
      BY <1>4, <1>5, <1>6, <2>2, <2>3
    <2> QED BY <1>1, <1>2, <2>4
  <1>11. CASE AttachScores(r)
    <2>1. t = [s EXCEPT !.at = "answer", !.shown = Shown(r)]
      BY <1>1, <1>7, <1>11 DEF AttachScores
    <2>2. t.at = "answer" /\ t.page = s.page /\ t.offset = s.offset /\ s.at = "attach"
      BY <1>1, <1>8, <1>11, <2>1 DEF AttachScores, Asks
    <2>3. n = m
      BY <2>2 DEF NextOffset
    <2> HIDE DEF N, m, n
    <2>4. ReadLeft(t) < ReadLeft(s)
      BY <1>4, <1>5, <1>6, <2>2, <2>3
    <2> QED BY <1>1, <1>2, <2>4
  <1>12. CASE Answer(r)
    <2>1. t = [s EXCEPT
             !.at = IF s.kind = "get" \/ s.page = {} THEN "end" ELSE "query",
             !.offset = s.offset + Cardinality(s.page),
             !.again = s.again \cup (s.got \cap s.page),
             !.got = s.got \cup s.page,
             !.page = {}, !.known = {}, !.shown = NoRead.shown]
      BY <1>1, <1>7, <1>12 DEF Answer
    <2>2. /\ t.at = IF s.kind = "get" \/ s.page = {} THEN "end" ELSE "query"
          /\ t.offset = m /\ s.at = "answer"
      BY <1>1, <1>8, <1>12, <2>1 DEF Answer, Asks, NextOffset
    <2> HIDE DEF N, m, n
    <2>3. ReadLeft(t) < ReadLeft(s)
      BY <1>4, <1>5, <1>6, <2>2
    <2> QED BY <1>1, <1>2, <2>3
  <1> QED BY <1>9, <1>10, <1>11, <1>12 DEF Fetch

LEMMA IngestLeftInRange ==
    ASSUME TypeOK, NEW i \in Ingests
    PROVE  IngestLeft(i) \in 0 .. StrategyCount + 5
  <1>1. pending[i] \in 0 .. StrategyCount /\ StrategyCount \in Nat
    BY CatalogueAssumption DEF TypeOK
  <1> QED BY <1>1 DEF IngestLeft

\* Each statement of an ingest takes it nearer to its answer.
LEMMA IngestNearsEnd ==
    ASSUME TypeOK, NEW i \in Ingests, Ingest(i)
    PROVE  IngestLeft(i)' < IngestLeft(i)
  <1>1. pending[i] \in 0 .. StrategyCount /\ StrategyCount \in Nat \ {0}
    BY CatalogueAssumption DEF TypeOK
  <1>2. pending'[i] \in 0 .. StrategyCount
    BY IngestTypes DEF TypeOK
  <1>3. \/ pc[i] = "listing" /\ pc'[i] \in {"refused", "score"}
        \/ pc[i] = "score" /\ pc'[i] \in {"refused", "begin"}
        \/ pc[i] = "begin" /\ pc'[i] \in {"refused", "insert"}
        \/ /\ pc[i] = "insert"
           /\ \/ pc'[i] = "insert" /\ pending'[i] = pending[i] + 1
              \/ pc'[i] \in {"refused", "log"}
        \/ pc[i] = "log" /\ pc'[i] = "answered"
    <2>1. CASE InsertListing(i) \/ InsertScore(i) \/ Begin(i)
      BY <2>1 DEF InsertListing, InsertScore, Begin, Goto, TypeOK
    <2>2. CASE InsertStrategy(i)
      BY <2>2 DEF InsertStrategy, Goto, TypeOK
    <2>3. CASE Commit(i)
      BY <2>3 DEF Commit, Goto, TypeOK
    <2>4. CASE LogAndAnswer(i)
      BY <2>4 DEF LogAndAnswer, Goto, TypeOK
    <2> QED BY <2>1, <2>2, <2>3, <2>4 DEF Ingest
  <1> QED BY <1>1, <1>2, <1>3 DEF IngestLeft

\* What a step leaves alone: everything of a request that is under way but its
\* own next step.
LEMMA OthersStay ==
    ASSUME TypeOK, IngestInv, Next
    PROVE  /\ \A i \in Ingests : pc[i] # "idle" =>
                 Ingest(i) \/ (pc'[i] = pc[i] /\ pending'[i] = pending[i])
           /\ \A r \in Readers : read[r].at # "idle" /\ ~FailRead(r) =>
                 Fetch(r) \/ read'[r] = read[r]
  <1>1. CASE \E k \in Ingests : Post(k) \/ Ingest(k)
    <2>1. PICK k \in Ingests : Post(k) \/ Ingest(k)
      BY <1>1
    <2>2. read' = read /\ \A i \in Ingests \ {k} : pc'[i] = pc[i]
      BY <2>1, IngestGrows
    <2>3. \A i \in Ingests \ {k} : pending'[i] = pending[i]
      BY <2>1 DEF Post, Ingest, InsertListing, InsertScore, Begin, InsertStrategy,
                  Commit, LogAndAnswer, TypeOK
    <2>4. Ingest(k) \/ pc[k] = "idle"
      BY <2>1 DEF Post
    <2> QED BY <2>2, <2>3, <2>4
  <1>2. CASE \E q \in Readers : ReaderStep(q)
    <2>1. PICK q \in Readers : ReaderStep(q)
      BY <1>2
    <2>2. /\ pc' = pc /\ pending' = pending
          /\ \A r \in Readers \ {q} : read'[r] = read[r]
      BY <2>1, ReaderKeeps DEF catalogue
    <2>3. Fetch(q) \/ FailRead(q) \/ read[q].at = "idle"
      BY <2>1 DEF ReaderStep, StartWalk, GetLead, Asks
    <2> QED BY <2>2, <2>3
  <1> QED BY <1>1, <1>2 DEF Next, ReaderStep

-----------------------------------------------------------------------------
(* The theorems                                                              *)

LEMMA CatalogueInit == Init => IndInv
  <1> SUFFICES ASSUME Init PROVE IndInv
    OBVIOUS
  <1> USE CatalogueAssumption
  <1>1. NoRead \in Reads
    BY DEF NoRead, Reads
  <1>2. TypeOK
    <2>1. read \in [Readers -> Reads]
      BY <1>1 DEF Init
    <2> QED BY <2>1 DEF Init, TypeOK, Reads
  <1>3. IngestInv
    <2>1. AnsweredIngests = {}
      BY DEF Init, AnsweredIngests
    <2>2. Cardinality(AnsweredIngests \ trail) = 0
      BY <2>1, FS_EmptySet
    <2> QED BY <2>1, <2>2 DEF Init, IngestInv
  <1>4. \A r \in Readers : ReaderInv(read[r])
    <2>1. OffsetInv(NoRead)
      <3>1. Cardinality(Matching(NoRead.min)) \in Nat
        BY Counted DEF Matching
      <3>2. NextOffset(NoRead) = 0
        BY FS_EmptySet DEF NextOffset, NoRead
      <3> QED BY <3>1, <3>2 DEF OffsetInv
    <2>2. ReaderInv(NoRead)
      BY <2>1 DEF NoRead, ReaderInv, PageInv, MissInv, RepeatInv
    <2> QED BY <2>2 DEF Init
  <1> QED BY <1>2, <1>3, <1>4 DEF IndInv

LEMMA CatalogueStep == IndInv /\ [Next]_vars => IndInv'
  <1> SUFFICES ASSUME IndInv, [Next]_vars PROVE IndInv'
    OBVIOUS
  <1>1. ASSUME NEW i \in Ingests, Post(i) \/ Ingest(i) PROVE IndInv'
    <2>1. TypeOK' /\ IngestInv'
      BY <1>1, IngestTypes, IngestSteps DEF IndInv
    <2>2. ASSUME NEW r \in Readers PROVE ReaderInv(read[r])'
      <3>1. PICK state \in Reads : state = read[r]
        BY DEF IndInv, TypeOK, Reads
      <3>2. /\ read' = read
            /\ \A j \in Ingests \ {i} : lead'[j] = lead[j]
            /\ lead[i] # NoLead => lead'[i] = lead[i]
            /\ AnsweredIngests \subseteq AnsweredIngests'
        BY <1>1, IngestGrows DEF IndInv
      <3>3. ReaderInv(state)
        BY <3>1 DEF IndInv
      <3>4. ReaderInv(state)'
        <4>1. CASE lead[i] = NoLead
          BY <2>1, <3>2, <3>3, <4>1, InvGrows DEF IndInv
        <4>2. CASE lead[i] # NoLead
          <5>1. lead' = lead
            BY <2>1, <3>2, <4>2 DEF IndInv, TypeOK
          <5> QED BY <3>2, <3>3, <5>1, InvAnswered DEF IndInv
        <4> QED BY <4>1, <4>2
      <3> QED BY <3>1, <3>2, <3>4
    <2> QED BY <2>1, <2>2 DEF IndInv
  <1>2. ASSUME NEW r \in Readers, ReaderStep(r) PROVE IndInv'
    <2>1. TypeOK' /\ IngestInv'
      BY <1>2, ReaderTypes DEF IndInv
    <2>2. /\ lead' = lead /\ pc' = pc
          /\ AnsweredIngests' = AnsweredIngests
          /\ \A q \in Readers \ {r} : read'[q] = read[q]
      BY <1>2, ReaderKeeps DEF IndInv, catalogue, AnsweredIngests
    <2>3. ReaderInv(read[r])'
      <3>1. PICK t \in Reads : t = read'[r]
        BY <1>2, ReaderState DEF IndInv
      <3>2. ReaderInv(t)
        BY <1>2, <3>1, ReaderSteps
      <3>3. ReaderInv(t)'
        BY <2>2, <3>2, InvAnswered
      <3> QED BY <3>1, <3>3
    <2>4. ASSUME NEW q \in Readers \ {r} PROVE ReaderInv(read[q])'
      <3>1. PICK t : t = read[q]
        OBVIOUS
      <3>2. ReaderInv(t)
        BY <3>1 DEF IndInv
      <3>3. ReaderInv(t)'
        BY <2>2, <3>2, InvAnswered
      <3> QED BY <2>2, <3>1, <3>3
    <2> QED BY <2>1, <2>3, <2>4 DEF IndInv
  <1>3. CASE UNCHANGED vars
    <2>1. /\ lead' = lead /\ strategies' = strategies /\ pending' = pending
          /\ trail' = trail /\ pc' = pc /\ read' = read /\ faults' = faults
          /\ AnsweredIngests' = AnsweredIngests
      BY <1>3 DEF vars, AnsweredIngests
    <2>2. TypeOK' /\ IngestInv'
      BY <2>1 DEF IndInv, TypeOK, IngestInv, AnsweredIngests, NoLead
    <2>3. ASSUME NEW q \in Readers PROVE ReaderInv(read[q])'
      <3>1. PICK t : t = read[q]
        OBVIOUS
      <3>2. ReaderInv(t)
        BY <3>1 DEF IndInv
      <3>3. ReaderInv(t)'
        BY <2>1, <3>2, InvAnswered
      <3> QED BY <2>1, <3>1, <3>3
    <2> QED BY <2>2, <2>3 DEF IndInv
  <1> QED BY <1>1, <1>2, <1>3 DEF Next, ReaderStep

\* The invariant holds throughout.
THEOREM CatalogueInductive == Spec => []IndInv
  BY CatalogueInit, CatalogueStep, PTL DEF Spec

\* The state is what TypeOK says; no limit that a page is cut to exceeds MaxLimit.
THEOREM CatalogueTypeCorrect == Spec => []TypeOK
  <1>1. IndInv => TypeOK
    BY DEF IndInv
  <1> QED BY <1>1, CatalogueInductive, PTL

\* No reader is answered with some of a lead's strategy scores.
THEOREM AllOrNone == Spec => []StrategiesAllOrNone
  <1>1. IndInv => StrategiesAllOrNone
    BY DEF IndInv, ReaderInv, PageInv, StrategiesAllOrNone, Answering
  <1> QED BY <1>1, CatalogueInductive, PTL

\* A lead whose ingest had been answered when the page was read is shown with all
\* of its strategy scores, whatever runs between the two queries.
THEOREM Whole == Spec => []AnsweredAreWhole
  <1>1. IndInv => AnsweredAreWhole
    BY DEF IndInv, ReaderInv, PageInv, AnsweredAreWhole, Answering
  <1> QED BY <1>1, CatalogueInductive, PTL

\* The walk of the pages: only leads that are tied with another are missed.
THEOREM MissOnlyTies == Spec => []PagesMissOnlyTies
  <1>1. IndInv => PagesMissOnlyTies
    BY DEF IndInv, ReaderInv, MissInv, PagesMissOnlyTies, Asks
  <1> QED BY <1>1, CatalogueInductive, PTL

\* And only ties and newcomers make a walk show a lead twice.
THEOREM RepeatsAreExplained == Spec => []RepeatsNeedNewcomers
  <1>1. IndInv => RepeatsNeedNewcomers
    BY DEF IndInv, ReaderInv, RepeatsNeedNewcomers
  <1> QED BY <1>1, CatalogueInductive, PTL

\* What activity_log says was ingested is there with all its scores, and what was
\* answered is in it but for faults.
THEOREM TrailIsTrue == Spec => []IngestTrail
  <1>1. IndInv => IngestTrail
    BY DEF IndInv, IngestInv, IngestTrail, AnsweredIngests
  <1> QED BY <1>1, CatalogueInductive, PTL

\* What is left of each request shrinks with each of its steps, grows with nobody
\* else's, and is bounded by the number of ingests: whatever interleaves, none of
\* them goes round in a circle.
THEOREM RequestsShrink == Spec => RequestsAreBounded
  <1> DEFINE Shrinks ==
        /\ \A i \in Ingests :
              /\ Ingest(i) => IngestLeft(i)' < IngestLeft(i)
              /\ pc[i] # "idle" => IngestLeft(i)' <= IngestLeft(i)
              /\ IngestLeft(i)' \in 0 .. StrategyCount + 5
        /\ \A r \in Readers :
              /\ Fetch(r) => ReadLeft(read'[r]) < ReadLeft(read[r])
              /\ read[r].at # "idle" /\ ~FailRead(r) =>
                    ReadLeft(read'[r]) <= ReadLeft(read[r])
              /\ ReadLeft(read'[r]) \in 0 .. 4 * Cardinality(Ingests) + 5
             InRange ==
        /\ \A i \in Ingests : IngestLeft(i) \in 0 .. StrategyCount + 5
        /\ \A r \in Readers : ReadLeft(read[r]) \in 0 .. 4 * Cardinality(Ingests) + 5
  <1>1. IndInv => InRange
    <2>1. ASSUME IndInv, NEW r \in Readers
          PROVE  ReadLeft(read[r]) \in 0 .. 4 * Cardinality(Ingests) + 5
      <3>1. PICK s \in Reads : s = read[r]
        BY <2>1 DEF IndInv, TypeOK, Reads
      <3> QED BY <2>1, <3>1, ReadLeftInRange DEF IndInv, ReaderInv
    <2> QED BY <2>1, IngestLeftInRange DEF IndInv
  <1>2. IndInv /\ InRange' /\ [Next]_vars => [Shrinks]_vars
    <2> SUFFICES ASSUME IndInv, InRange', Next PROVE Shrinks
      OBVIOUS
    <2>1. TypeOK /\ IngestInv
      BY DEF IndInv
    <2>2. /\ \A i \in Ingests : IngestLeft(i) \in Int
          /\ \A r \in Readers : ReadLeft(read[r]) \in Int
      <3>1. StrategyCount \in Nat /\ Cardinality(Ingests) \in Nat
        BY Counted, CatalogueAssumption
      <3> QED BY <1>1, <3>1
    <2>3. ASSUME NEW i \in Ingests, pc[i] # "idle"
          PROVE  IngestLeft(i)' <= IngestLeft(i)
      <3>1. \/ Ingest(i)
            \/ pc'[i] = pc[i] /\ pending'[i] = pending[i]
        BY <2>1, <2>3, OthersStay
      <3>2. CASE Ingest(i)
        <4>1. IngestLeft(i)' < IngestLeft(i)
          BY <2>1, <3>2, IngestNearsEnd
        <4>2. IngestLeft(i)' \in 0 .. StrategyCount + 5
          OBVIOUS
        <4> QED BY <2>2, <4>1, <4>2, CatalogueAssumption
      <3>3. CASE pc'[i] = pc[i] /\ pending'[i] = pending[i]
        <4>1. IngestLeft(i)' = IngestLeft(i)
          BY <3>3 DEF IngestLeft
        <4> QED BY <2>2, <4>1
      <3> QED BY <3>1, <3>2, <3>3
    <2>4. ASSUME NEW r \in Readers, read[r].at # "idle", ~FailRead(r)
          PROVE  ReadLeft(read'[r]) <= ReadLeft(read[r])
      <3>1. Fetch(r) \/ read'[r] = read[r]
        BY <2>1, <2>4, OthersStay
      <3>2. CASE Fetch(r)
        <4>1. ReadLeft(read'[r]) < ReadLeft(read[r])
          BY <3>2, FetchNearsEnd
        <4>2. ReadLeft(read'[r]) \in 0 .. 4 * Cardinality(Ingests) + 5
          OBVIOUS
        <4> QED BY <2>2, <4>1, <4>2, Counted
      <3> QED BY <2>2, <3>1, <3>2
    <2> QED BY <2>1, <2>3, <2>4, IngestNearsEnd, FetchNearsEnd
  <1> HIDE DEF Shrinks, InRange
  <1> QED BY <1>1, <1>2, CatalogueInductive, PTL DEF Spec, RequestsAreBounded, Shrinks
=============================================================================
