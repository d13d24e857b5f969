--------------------------- MODULE Scoring_proofs ---------------------------
(***************************************************************************)
(* Theorems about Scoring, for listings with any integers as their price,  *)
(* estimates, bedrooms and days.                                           *)
(***************************************************************************)
EXTENDS Scoring, TLAPS

\* What a listing is, as far as the arithmetic of the scores is concerned.
Numeric(l) ==
    /\ l.price \in Int /\ l.rent \in Int /\ l.market \in Int
    /\ l.bedrooms \in Int /\ l.days \in Int
    /\ l.advert.title \in BOOLEAN /\ l.advert.description \in BOOLEAN
    /\ l.advert.motivated \in BOOLEAN
    /\ l.city \in BOOLEAN /\ l.area \in BOOLEAN

LEMMA ListingNumeric ==
    ASSUME NEW l \in Listings PROVE Numeric(l)
  BY ScoringAssumption DEF Listings, Adverts, Numeric

\* The parts of the lead score, one range each; together they reach 100.
LEMMA LeadParts ==
    ASSUME NEW l, Numeric(l)
    PROVE /\ ScoreYield(l) \in 0 .. 25
          /\ ScoreBelowMarket(l) \in 0 .. 25
          /\ ScoreSellerMotivation(l) \in 0 .. 20
          /\ ScoreStaleness(l) \in 0 .. 15
          /\ ScoreDataQuality(l) \in {0, 3, 6, 9, 12, 15}
  <1>1. ScoreYield(l) \in 0 .. 25
    BY DEF ScoreYield, Points
  <1>2. ScoreBelowMarket(l) \in 0 .. 25
    BY DEF ScoreBelowMarket, Points
  <1>3. ScoreSellerMotivation(l) \in 0 .. 20
    BY DEF ScoreSellerMotivation, Points
  <1>4. ScoreStaleness(l) \in 0 .. 15
    BY DEF ScoreStaleness, Points
  <1>5. ScoreDataQuality(l) \in {0, 3, 6, 9, 12, 15}
    BY DEF ScoreDataQuality, Points
  <1> QED BY <1>1, <1>2, <1>3, <1>4, <1>5

LEMMA LeadFits ==
    ASSUME NEW l, Numeric(l)
    PROVE /\ Total(l) \in 0 .. 100
          /\ LeadScore(l) \in LeadRow
          /\ LeadScore(l).value = Total(l)
          /\ LeadScore(l).grade = GradeFromLeadScore(Total(l))
          /\ LeadScore(l).value - LeadScore(l).explained \in 0 .. 6
  <1>1. Total(l) \in 0 .. 100
    BY LeadParts DEF Total
  <1>2. GradeFromLeadScore(Total(l)) \in {"A", "B", "C", "D"}
    BY DEF GradeFromLeadScore
  <1>3. Points(ScoreDataQuality(l) < 9, ScoreDataQuality(l)) \in 0 .. 6
    BY LeadParts DEF Points
  <1>4. Total(l) - Points(ScoreDataQuality(l) < 9, ScoreDataQuality(l)) \in 0 .. 100
    BY <1>1, <1>3, LeadParts DEF Total, Points
  <1> QED BY <1>1, <1>2, <1>3, <1>4 DEF LeadScore, LeadRow

\* The sums of the strategy scores stay in the columns' range by themselves.
LEMMA StrategiesFit ==
    ASSUME NEW l, Numeric(l)
    PROVE /\ BuyToLet(l) \in 0 .. 100 /\ BRRRR(l) \in 0 .. 100
          /\ Flip(l) \in 0 .. 100 /\ BuyAndHold(l) \in 0 .. 100
          /\ HMO(l) \in 0 .. 100 /\ Development(l) \in 0 .. 100
  <1>1. BuyToLet(l) \in 0 .. 100
    BY DEF BuyToLet, Points
  <1>2. BRRRR(l) \in 0 .. 100
    BY DEF BRRRR, Points
  <1>3. Flip(l) \in 0 .. 100
    BY DEF Flip, Points
  <1>4. BuyAndHold(l) \in 0 .. 100
    BY DEF BuyAndHold, Points
  <1>5. HMO(l) \in 0 .. 100
    BY DEF HMO, Points, Numeric
  <1>6. Development(l) \in 0 .. 100
    BY DEF Development, Points
  <1> QED BY <1>1, <1>2, <1>3, <1>4, <1>5, <1>6

LEMMA ClampIdle ==
    ASSUME NEW l, Numeric(l)
    PROVE /\ CalculateStrategyScores(l) =
                [buyToLet |-> BuyToLet(l), brrrr |-> BRRRR(l),
                 flip |-> Flip(l), buyAndHold |-> BuyAndHold(l),
                 hmo |-> HMO(l), development |-> Development(l)]
          /\ CalculateStrategyScores(l) \in StrategyRows
  <1>1. \A n \in 0 .. 100 : ClampScore(n) = n
    BY DEF ClampScore
  <1> QED BY <1>1, StrategiesFit DEF CalculateStrategyScores, StrategyRows

-----------------------------------------------------------------------------
(* The invariants *)

\* What is stored belongs to the listing it is stored with.
Scored ==
    /\ listing \in Listings
    /\ lead = LeadScore(listing)
    /\ strategies = CalculateStrategyScores(listing)

LEMMA ListingsClosed ==
    /\ \A l \in Listings, p \in Prices, d \in Ages :
          [l EXCEPT !.price = p, !.days = d] \in Listings
    /\ \A l \in Listings, r \in Rents, m \in Markets :
          [l EXCEPT !.rent = r, !.market = m] \in Listings
    /\ \A l \in Listings, a \in Adverts :
          [l EXCEPT !.advert = a] \in Listings
  BY DEF Listings

LEMMA ScoredInit == Init => Scored
  <1>1. \A place \in Places :
            InferCity(place) \in BOOLEAN /\ ExtractPostcodeArea(place) \in BOOLEAN
    BY DEF InferCity, ExtractPostcodeArea, Places
  <1>2. Init => listing \in Listings
    BY <1>1 DEF Init, Listings
  <1> QED BY <1>2 DEF Init, Scored

LEMMA IngestScores ==
    ASSUME NEW l \in Listings, Ingest(l) PROVE Scored'
  BY DEF Ingest, Scored

LEMMA ScoredNext == Scored /\ [Next]_vars => Scored'
  <1> SUFFICES ASSUME Scored, [Next]_vars PROVE Scored'
    OBVIOUS
  <1>1. CASE Relist
    <2>1. PICK p \in Prices, d \in Ages :
              Ingest([listing EXCEPT !.price = p, !.days = d])
      BY <1>1 DEF Relist
    <2>2. [listing EXCEPT !.price = p, !.days = d] \in Listings
      BY ListingsClosed DEF Scored
    <2> QED BY <2>1, <2>2, IngestScores
  <1>2. CASE Reappraise
    <2>1. PICK r \in Rents, m \in Markets :
              Ingest([listing EXCEPT !.rent = r, !.market = m])
      BY <1>2 DEF Reappraise
    <2>2. [listing EXCEPT !.rent = r, !.market = m] \in Listings
      BY ListingsClosed DEF Scored
    <2> QED BY <2>1, <2>2, IngestScores
  <1>3. CASE Readvertise
    <2>1. PICK a \in Adverts : Ingest([listing EXCEPT !.advert = a])
      BY <1>3 DEF Readvertise
    <2>2. [listing EXCEPT !.advert = a] \in Listings
      BY ListingsClosed DEF Scored
    <2> QED BY <2>1, <2>2, IngestScores
  <1>4. CASE UNCHANGED vars
    BY <1>4 DEF vars, Scored
  <1> QED BY <1>1, <1>2, <1>3, <1>4 DEF Next

LEMMA AlwaysScored == Spec => []Scored
  BY ScoredInit, ScoredNext, PTL DEF Spec

\* Every stored score is in the range of its column.
THEOREM ScoresTyped == Spec => []TypeOK
  <1>1. Scored => TypeOK
    BY ListingNumeric, LeadFits, ClampIdle DEF Scored, TypeOK
  <1> QED BY <1>1, AlwaysScored, PTL

\* Neither the cap nor the clamp is ever needed, whatever the numbers are.
THEOREM NeverCapped == Spec => []NothingIsCapped
  <1>1. Scored => NothingIsCapped
    BY ListingNumeric, LeadFits, ClampIdle DEF Scored, NothingIsCapped
  <1> QED BY <1>1, AlwaysScored, PTL

\* No A without a yield and a discount, no B without a price.
THEOREM EvidenceForTopGrades == Spec => []TopGradesNeedEvidence
  <1>1. ASSUME NEW l, Numeric(l), Total(l) >= 80
        PROVE /\ l.price > 0
              /\ l.rent > 0 /\ 12000 * l.rent >= 40 * l.price
              /\ l.market > 0 /\ 100 * (l.market - l.price) >= 3 * l.market
    <2>1. ScoreYield(l) > 0 /\ ScoreBelowMarket(l) > 0
      BY <1>1, LeadParts DEF Total
    <2>2. YieldIs(l, 40)
      BY <1>1, <2>1 DEF ScoreYield, Points, YieldIs, Numeric
    <2>3. BelowMarketIs(l, 3)
      BY <1>1, <2>1 DEF ScoreBelowMarket, Points, BelowMarketIs, Numeric
    <2> QED BY <2>2, <2>3 DEF YieldIs, BelowMarketIs
  <1>2. ASSUME NEW l, Numeric(l), Total(l) >= 60
        PROVE l.price > 0
    <2> SUFFICES ASSUME ~(l.price > 0) PROVE FALSE
      OBVIOUS
    <2>1. ScoreYield(l) = 0 /\ ScoreBelowMarket(l) = 0
      BY DEF ScoreYield, ScoreBelowMarket, YieldIs, BelowMarketIs, Points
    <2> QED BY <1>2, <2>1, LeadParts DEF Total
  <1>3. Scored => TopGradesNeedEvidence
    <2> SUFFICES ASSUME Scored PROVE TopGradesNeedEvidence
      OBVIOUS
    <2>1. /\ Numeric(listing)
          /\ Total(listing) \in 0 .. 100
          /\ lead.grade = GradeFromLeadScore(Total(listing))
      BY ListingNumeric, LeadFits DEF Scored
    <2>2. /\ lead.grade = "A" => Total(listing) >= 80
          /\ lead.grade \in {"A", "B"} => Total(listing) >= 60
      BY <2>1 DEF GradeFromLeadScore
    <2> QED BY <1>1, <1>2, <2>1, <2>2 DEF TopGradesNeedEvidence, Numeric
  <1> QED BY <1>3, AlwaysScored, PTL

-----------------------------------------------------------------------------
(* The action properties *)

\* A better deal is past every threshold the worse one is past.
LEMMA Thresholds ==
    ASSUME NEW l, NEW m, Numeric(l), Numeric(m), Improves(l, m)
    PROVE /\ \A t \in {0, 40, 45, 50, 60, 70, 80} :
                YieldIs(l, t) => YieldIs(m, t)
          /\ YieldIs(m, 0) => YieldIs(l, 0)
          /\ \A p \in {3, 8, 15} : BelowMarketIs(l, p) => BelowMarketIs(m, p)
  <1>1. \A t \in {0, 40, 45, 50, 60, 70, 80} : YieldIs(l, t) => YieldIs(m, t)
    BY DEF Improves, YieldIs, Numeric
  <1>2. YieldIs(m, 0) => YieldIs(l, 0)
    BY DEF Improves, YieldIs, Numeric
  <1>3. \A p \in {3, 8, 15} : BelowMarketIs(l, p) => BelowMarketIs(m, p)
    BY DEF Improves, BelowMarketIs, Numeric
  <1> QED BY <1>1, <1>2, <1>3

LEMMA BetterLead ==
    ASSUME NEW l, NEW m, Numeric(l), Numeric(m), Improves(l, m)
    PROVE Total(m) >= Total(l)
  <1>1. ScoreYield(m) >= ScoreYield(l)
    BY Thresholds DEF ScoreYield, Points
  <1>2. ScoreBelowMarket(m) >= ScoreBelowMarket(l)
    BY Thresholds DEF ScoreBelowMarket, Points
  <1>3. ScoreSellerMotivation(m) = ScoreSellerMotivation(l)
    BY DEF ScoreSellerMotivation, Improves
  <1>4. ScoreStaleness(m) >= ScoreStaleness(l)
    BY DEF ScoreStaleness, Points, Improves, Numeric
  <1>5. ScoreDataQuality(m) >= ScoreDataQuality(l)
    BY DEF ScoreDataQuality, Points, Improves, Numeric
  <1>6. /\ ScoreYield(l) \in Int /\ ScoreYield(m) \in Int
        /\ ScoreBelowMarket(l) \in Int /\ ScoreBelowMarket(m) \in Int
        /\ ScoreSellerMotivation(l) \in Int
        /\ ScoreStaleness(l) \in Int /\ ScoreStaleness(m) \in Int
        /\ ScoreDataQuality(l) \in Int /\ ScoreDataQuality(m) \in Int
    BY DEF ScoreYield, ScoreBelowMarket, ScoreSellerMotivation, ScoreStaleness,
           ScoreDataQuality, Points
  <1> QED BY <1>1, <1>2, <1>3, <1>4, <1>5, <1>6 DEF Total

LEMMA BetterStrategies ==
    ASSUME NEW l, NEW m, Numeric(l), Numeric(m), Improves(l, m)
    PROVE /\ BuyToLet(m) >= BuyToLet(l) /\ BRRRR(m) >= BRRRR(l)
          /\ Flip(m) >= Flip(l) /\ BuyAndHold(m) >= BuyAndHold(l)
          /\ HMO(m) >= HMO(l) /\ Development(m) >= Development(l)
  <1>1. BuyToLet(m) >= BuyToLet(l)
    BY Thresholds DEF BuyToLet, Points, Improves
  <1>2. BRRRR(m) >= BRRRR(l)
    BY Thresholds DEF BRRRR, Points, Improves, Numeric
  <1>3. Flip(m) >= Flip(l)
    BY DEF Flip, Points, Improves, Numeric
  <1>4. BuyAndHold(m) >= BuyAndHold(l)
    BY Thresholds DEF BuyAndHold, Points, Improves, Numeric
  <1>5. HMO(m) >= HMO(l)
    BY Thresholds DEF HMO, Points, Improves, Numeric
  <1>6. Development(m) >= Development(l)
    BY DEF Development, Points, Improves, Numeric
  <1> QED BY <1>1, <1>2, <1>3, <1>4, <1>5, <1>6

LEMMA BetterDealStep ==
    Scored /\ Scored' /\ Improves(listing, listing') =>
        lead'.value >= lead.value /\ NoneBelow(strategies, strategies')
  <1> SUFFICES ASSUME Scored, Scored', Improves(listing, listing')
               PROVE lead'.value >= lead.value
                     /\ NoneBelow(strategies, strategies')
    OBVIOUS
  <1>1. Numeric(listing) /\ Numeric(listing')
    BY ListingNumeric DEF Scored
  <1>2. lead.value = Total(listing) /\ lead'.value = Total(listing')
    BY <1>1, LeadFits DEF Scored
  <1>3. /\ strategies = [buyToLet |-> BuyToLet(listing), brrrr |-> BRRRR(listing),
                flip |-> Flip(listing), buyAndHold |-> BuyAndHold(listing),
                hmo |-> HMO(listing), development |-> Development(listing)]
        /\ strategies' = [buyToLet |-> BuyToLet(listing'),
                brrrr |-> BRRRR(listing'), flip |-> Flip(listing'),
                buyAndHold |-> BuyAndHold(listing'), hmo |-> HMO(listing'),
                development |-> Development(listing')]
    BY <1>1, ClampIdle DEF Scored
  <1>4. lead'.value >= lead.value
    BY <1>1, <1>2, BetterLead
  <1>5. NoneBelow(strategies, strategies')
    BY <1>1, <1>3, BetterStrategies DEF NoneBelow
  <1> QED BY <1>4, <1>5

\* A cheaper, older, better let or more valuable property never loses a point.
THEOREM BetterDeal == Spec => BetterDealNeverScoresLower
  <1>1. Scored /\ Scored' /\ [Next]_vars =>
            [Improves(listing, listing') =>
                lead'.value >= lead.value
                /\ NoneBelow(strategies, strategies')]_vars
    BY BetterDealStep
  <1> QED BY <1>1, AlwaysScored, PTL DEF Spec, BetterDealNeverScoresLower

\* With the rent alone known later, only the weak-yield branch can take points.
LEMMA RentArrives ==
    ASSUME NEW l \in Listings, NEW m \in Listings, RentEstimateArrives(l, m)
    PROVE /\ Total(m) >= Total(l)
          /\ BuyToLet(m) >= BuyToLet(l) - 15
          /\ BRRRR(m) >= BRRRR(l) /\ Flip(m) >= Flip(l)
          /\ BuyAndHold(m) >= BuyAndHold(l)
          /\ HMO(m) >= HMO(l) /\ Development(m) >= Development(l)
  <1>1. Numeric(l) /\ Numeric(m)
    BY ListingNumeric
  <1>2. /\ m.price = l.price /\ m.market = l.market /\ m.bedrooms = l.bedrooms
        /\ m.days = l.days /\ m.advert = l.advert /\ m.kind = l.kind
        /\ m.city = l.city /\ m.area = l.area
        /\ l.rent <= 0 /\ m.rent > 0
    BY DEF RentEstimateArrives, Listings
  <1>3. \A t \in Int : ~YieldIs(l, t)
    BY <1>1, <1>2 DEF YieldIs, Numeric
  <1>4. Total(m) >= Total(l)
    <2>1. ScoreYield(l) = 0 /\ ScoreYield(m) \in 0 .. 25
      BY <1>1, <1>3, LeadParts DEF ScoreYield, Points
    <2>2. ScoreBelowMarket(m) = ScoreBelowMarket(l)
      BY <1>2 DEF ScoreBelowMarket, BelowMarketIs
    <2>3. /\ ScoreSellerMotivation(m) = ScoreSellerMotivation(l)
          /\ ScoreStaleness(m) = ScoreStaleness(l)
          /\ ScoreDataQuality(m) = ScoreDataQuality(l)
      BY <1>2 DEF ScoreSellerMotivation, ScoreStaleness, ScoreDataQuality
    <2>4. /\ ScoreBelowMarket(l) \in Int /\ ScoreSellerMotivation(l) \in Int
          /\ ScoreStaleness(l) \in Int /\ ScoreDataQuality(l) \in Int
      BY DEF ScoreBelowMarket, ScoreSellerMotivation, ScoreStaleness,
             ScoreDataQuality, Points
    <2> QED BY <2>1, <2>2, <2>3, <2>4 DEF Total
  <1>5. BuyToLet(m) >= BuyToLet(l) - 15
    BY <1>2, <1>3 DEF BuyToLet, Points
  <1>6. BRRRR(m) >= BRRRR(l)
    BY <1>1, <1>2, <1>3 DEF BRRRR, Points, Numeric
  <1>7. Flip(m) = Flip(l) /\ Flip(l) \in Int
    BY <1>2 DEF Flip, Points
  <1>8. BuyAndHold(m) >= BuyAndHold(l)
    BY <1>2, <1>3 DEF BuyAndHold, Points
  <1>9. HMO(m) >= HMO(l)
    BY <1>2, <1>3 DEF HMO, Points
  <1>10. Development(m) = Development(l) /\ Development(l) \in Int
    BY <1>2 DEF Development, Points
  <1> QED BY <1>4, <1>5, <1>6, <1>7, <1>8, <1>9, <1>10

\* An estimate that arrives costs at most 15 points, and of one score only.
THEOREM RentEstimateCost == Spec => RentEstimateCostsAtMostBuyToLet
  <1>1. Scored /\ Scored' /\ RentEstimateArrives(listing, listing') =>
            /\ lead'.value >= lead.value
            /\ strategies'.buyToLet >= strategies.buyToLet - 15
            /\ NoneBelow([strategies EXCEPT !.buyToLet = 0], strategies')
    <2> SUFFICES ASSUME Scored, Scored', RentEstimateArrives(listing, listing')
                 PROVE /\ lead'.value >= lead.value
                       /\ strategies'.buyToLet >= strategies.buyToLet - 15
                       /\ NoneBelow([strategies EXCEPT !.buyToLet = 0],
                                    strategies')
      OBVIOUS
    <2>1. /\ listing \in Listings /\ listing' \in Listings
          /\ Numeric(listing) /\ Numeric(listing')
      BY ListingNumeric DEF Scored
    <2>2. lead.value = Total(listing) /\ lead'.value = Total(listing')
      BY <2>1, LeadFits DEF Scored
    <2>3. /\ strategies = [buyToLet |-> BuyToLet(listing),
                  brrrr |-> BRRRR(listing), flip |-> Flip(listing),
                  buyAndHold |-> BuyAndHold(listing), hmo |-> HMO(listing),
                  development |-> Development(listing)]
          /\ strategies' = [buyToLet |-> BuyToLet(listing'),
                  brrrr |-> BRRRR(listing'), flip |-> Flip(listing'),
                  buyAndHold |-> BuyAndHold(listing'), hmo |-> HMO(listing'),
                  development |-> Development(listing')]
      BY <2>1, ClampIdle DEF Scored
    <2>4. BuyToLet(listing') >= 0
      BY <2>1, StrategiesFit
    <2> QED BY <2>1, <2>2, <2>3, <2>4, RentArrives DEF NoneBelow
  <1>2. Scored /\ Scored' /\ [Next]_vars =>
            [RentEstimateArrives(listing, listing') =>
                /\ lead'.value >= lead.value
                /\ strategies'.buyToLet >= strategies.buyToLet - 15
                /\ NoneBelow([strategies EXCEPT !.buyToLet = 0], strategies')]_vars
    BY <1>1
  <1> QED BY <1>2, AlwaysScored, PTL DEF Spec, RentEstimateCostsAtMostBuyToLet

=============================================================================
