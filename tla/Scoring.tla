------------------------------ MODULE Scoring ------------------------------
(***************************************************************************)
(* What the scores of a property say about it, upload after upload.        *)
(* Every upload of a property inserts a new listing, and the ingest stores *)
(* with it a lead score (internal/domain/lead/scorer.go) and one score per *)
(* strategy (internal/application/scorestrategies).  The state is the last *)
(* upload of one property and what was stored with it.                     *)
(*                                                                         *)
(* The scorers see a listing after its INSERT, so every number is in the   *)
(* range of INTEGER; there the float64 comparisons of the code decide as   *)
(* the exact ones below (the thresholds times a price need 39 of the 53    *)
(* bits).                                                                  *)
(***************************************************************************)
EXTENDS Integers

CONSTANTS
    Prices, Rents, Markets,   \* price, rental_estimate, market_price_estimate
    Bedrooms,
    Ages                      \* DaysOnMarket

ASSUME ScoringAssumption ==
    Prices \cup Rents \cup Markets \cup Bedrooms \cup Ages \subseteq Int

VARIABLES
    listing,    \* the row of listings, as the scorers read it
    lead,       \* the row of lead_scores
    strategies  \* the rows of property_strategy_scores

vars == <<listing, lead, strategies>>

-----------------------------------------------------------------------------
(* Of a text the scorers ask whether it is there and whether it contains some *)
(* word.  kind is the words of property_type they look for: "flat" stands for *)
(* flat, apartment and terraced, "detached" for detached and semi.            *)

Adverts == {a \in [title: BOOLEAN, description: BOOLEAN, motivated: BOOLEAN] :
                a.motivated => a.title \/ a.description}
Kinds == SUBSET {"flat", "house", "detached"}

\* A blank postcode, one of Aberdeen, another one; the address may name Aberdeen.
Places == [postcode: {"", "AB10 1AA", "EH3 9QQ"}, aberdeen: BOOLEAN]

Listings == [price: Prices, rent: Rents, market: Markets, bedrooms: Bedrooms,
             days: Ages, advert: Adverts, kind: Kinds,
             city: BOOLEAN, area: BOOLEAN]

InferCity(place) == place.aberdeen \/ place.postcode = "AB10 1AA"

\* Normalise replaces the area the import infers by the outward code.
ExtractPostcodeArea(place) == place.postcode # ""

Points(condition, n) == IF condition THEN n ELSE 0

-----------------------------------------------------------------------------
(* internal/domain/lead/scorer.go *)

\* The gross yield is at least tenths / 10 percent.
YieldIs(l, tenths) ==
    l.price > 0 /\ l.rent > 0 /\ 12000 * l.rent >= tenths * l.price

ScoreYield(l) ==
    IF YieldIs(l, 80) THEN 25
    ELSE IF YieldIs(l, 60) THEN 20
    ELSE Points(YieldIs(l, 40), 10)

\* The price is at least percent below the market estimate.
BelowMarketIs(l, percent) ==
    /\ l.price > 0 /\ l.market > 0
    /\ 100 * (l.market - l.price) >= percent * l.market

ScoreBelowMarket(l) ==
    IF BelowMarketIs(l, 15) THEN 25
    ELSE IF BelowMarketIs(l, 8) THEN 18
    ELSE Points(BelowMarketIs(l, 3), 8)

\* Mutant: wording is worth as much as yield.
ScoreSellerMotivationHigh(l) == Points(l.advert.motivated, 25)

ScoreSellerMotivation(l) == Points(l.advert.motivated, 20)

ScoreStaleness(l) == IF l.days >= 90 THEN 15 ELSE Points(l.days >= 45, 10)

ScoreDataQuality(l) ==
    Points(l.advert.title, 3) + Points(l.advert.description, 3)
    + Points(l.price > 0, 3) + Points(l.area, 3) + Points(l.bedrooms > 0, 3)

Total(l) == ScoreYield(l) + ScoreBelowMarket(l) + ScoreSellerMotivation(l)
            + ScoreStaleness(l) + ScoreDataQuality(l)

GradeFromLeadScore(n) ==
    IF n >= 80 THEN "A" ELSE IF n >= 60 THEN "B"
    ELSE IF n >= 40 THEN "C" ELSE "D"

\* explained is the sum of the points of the reasons: a data quality below 9
\* counts and has no reason.
LeadScore(l) ==
    LET value == IF Total(l) > 100 THEN 100 ELSE Total(l) IN
    [value |-> value,
     grade |-> GradeFromLeadScore(value),
     explained |-> Total(l) - Points(ScoreDataQuality(l) < 9, ScoreDataQuality(l))]

-----------------------------------------------------------------------------
(* internal/application/scorestrategies/usecase.go *)

\* Mutant: a missing yield counts as an acceptable one.
BuyToLetLenient(l) ==
    45 + (IF YieldIs(l, 80) THEN 35
          ELSE IF YieldIs(l, 60) THEN 25
          ELSE IF YieldIs(l, 45) THEN 10
          ELSE IF YieldIs(l, 0) THEN -15 ELSE 10)
       + Points(l.bedrooms \in 2 .. 4, 10)
       + Points(l.kind # {}, 5)

BuyToLet(l) ==
    45 + (IF YieldIs(l, 80) THEN 35
          ELSE IF YieldIs(l, 60) THEN 25
          ELSE IF YieldIs(l, 45) THEN 10
          ELSE Points(YieldIs(l, 0), -15))
       + Points(l.bedrooms \in 2 .. 4, 10)
       + Points(l.kind # {}, 5)

BRRRR(l) ==
    40 + Points(YieldIs(l, 70), 20)
       + Points(l.days >= 60, 15)
       + Points(l.bedrooms >= 3, 10)
       - Points(l.price > 0 /\ l.rent = 0, 10)

\* Mutant: the two age bonuses exclude each other, the wrong way round.
FlipExclusive(l) ==
    40 + Points(l.days >= 60 /\ l.days < 120, 20)
       + Points(l.days >= 120, 10)
       + Points("house" \in l.kind, 10)
       + Points(l.bedrooms >= 3, 10)

Flip(l) ==
    40 + Points(l.days >= 60, 20)
       + Points(l.days >= 120, 10)
       + Points("house" \in l.kind, 10)
       + Points(l.bedrooms >= 3, 10)

BuyAndHold(l) ==
    50 + Points(l.price > 0, 5)
       + Points(l.bedrooms >= 2, 10)
       + Points(l.city \/ l.area, 10)
       + Points(YieldIs(l, 50), 10)

\* Mutant: the two bedroom bonuses add up.
HMOTwice(l) ==
    35 + Points(l.bedrooms >= 4, 35)
       + (IF l.bedrooms >= 3 THEN 15 ELSE -10)
       + Points("house" \in l.kind, 15)
       + Points(YieldIs(l, 70), 10)

HMO(l) ==
    35 + (IF l.bedrooms >= 4 THEN 35 ELSE IF l.bedrooms = 3 THEN 15 ELSE -10)
       + Points("house" \in l.kind, 15)
       + Points(YieldIs(l, 70), 10)

Development(l) ==
    30 + Points("detached" \in l.kind, 20)
       + Points(l.bedrooms >= 3, 10)
       + Points(l.days >= 90, 10)

ClampScore(n) == IF n < 0 THEN 0 ELSE IF n > 100 THEN 100 ELSE n

CalculateStrategyScores(l) ==
    [buyToLet |-> ClampScore(BuyToLet(l)), brrrr |-> ClampScore(BRRRR(l)),
     flip |-> ClampScore(Flip(l)), buyAndHold |-> ClampScore(BuyAndHold(l)),
     hmo |-> ClampScore(HMO(l)), development |-> ClampScore(Development(l))]

-----------------------------------------------------------------------------
(* The ingest of one upload of the property *)

Ingest(l) ==
    /\ listing' = l
    /\ lead' = LeadScore(l)
    /\ strategies' = CalculateStrategyScores(l)

Init ==
    /\ \E p \in Prices, r \in Rents, m \in Markets, b \in Bedrooms, d \in Ages,
          a \in Adverts, k \in Kinds, place \in Places :
          listing = [price |-> p, rent |-> r, market |-> m, bedrooms |-> b,
                     days |-> d, advert |-> a, kind |-> k,
                     city |-> InferCity(place),
                     area |-> ExtractPostcodeArea(place)]
    /\ lead = LeadScore(listing)
    /\ strategies = CalculateStrategyScores(listing)

\* Scraped again: date_added stays, so the listing is older; the price may differ.
Relist ==
    \E p \in Prices, d \in Ages :
        d >= listing.days /\ Ingest([listing EXCEPT !.price = p, !.days = d])

\* The same with other estimates of its rent and of its market price.
Reappraise ==
    \E r \in Rents, m \in Markets :
        Ingest([listing EXCEPT !.rent = r, !.market = m])

\* The same with another advertisement.
Readvertise ==
    \E a \in Adverts : Ingest([listing EXCEPT !.advert = a])

Next == Relist \/ Reappraise \/ Readvertise

Spec == Init /\ [][Next]_vars

-----------------------------------------------------------------------------
(* Properties *)

LeadRow == [value: 0 .. 100, grade: {"A", "B", "C", "D"}, explained: 0 .. 100]
StrategyRows == [buyToLet: 0 .. 100, brrrr: 0 .. 100, flip: 0 .. 100,
                 buyAndHold: 0 .. 100, hmo: 0 .. 100, development: 0 .. 100]

TypeOK ==
    /\ listing \in Listings
    /\ lead \in LeadRow
    /\ strategies \in StrategyRows

\* Neither the cap of the lead score nor the clamp of a strategy score ever
\* bites, so the sums themselves are within 0 .. 100 (and the CHECK of
\* property_strategy_scores refuses none), and a stored score is the sum of what
\* its reasons stand for; of a lead score at most 6 points have no reason.
NothingIsCapped ==
    /\ lead.value = Total(listing)
    /\ lead.value - lead.explained \in 0 .. 6
    /\ strategies = [buyToLet |-> BuyToLet(listing), brrrr |-> BRRRR(listing),
                     flip |-> Flip(listing), buyAndHold |-> BuyAndHold(listing),
                     hmo |-> HMO(listing), development |-> Development(listing)]

\* No mix of soft signals (wording, age, completeness) makes a top lead: an A has
\* both a yield of 4% or more and a discount of 3% or more on a known market
\* price, and a listing without a price gets a C at best.
TopGradesNeedEvidence ==
    /\ lead.grade = "A" =>
          /\ listing.rent > 0 /\ 100 * 12 * listing.rent >= 4 * listing.price
          /\ listing.market > 0 /\ 100 * listing.price <= 97 * listing.market
    /\ lead.grade \in {"A", "B"} => listing.price > 0

\* m is l, cheaper or equal, at least as long on the market, with a rent and a
\* market estimate at least as high; a missing rent stays missing.
Improves(l, m) ==
    /\ m.price = l.price \/ m.price \in 1 .. l.price
    /\ m.days >= l.days
    /\ m.rent = l.rent \/ (l.rent > 0 /\ m.rent >= l.rent)
    /\ m.market >= l.market
    /\ m.bedrooms = l.bedrooms /\ m.kind = l.kind /\ m.advert = l.advert
    /\ m.city = l.city /\ m.area = l.area

NoneBelow(s, t) ==
    /\ t.buyToLet >= s.buyToLet /\ t.brrrr >= s.brrrr /\ t.flip >= s.flip
    /\ t.buyAndHold >= s.buyAndHold /\ t.hmo >= s.hmo
    /\ t.development >= s.development

\* A better deal never scores lower, on any of the seven scores: the tiers of the
\* switches are in the right order and no bonus is lost by passing the next one.
BetterDealNeverScoresLower ==
    [][Improves(listing, listing') =>
          lead'.value >= lead.value /\ NoneBelow(strategies, strategies')]_vars

RentEstimateArrives(l, m) ==
    l.rent <= 0 /\ m.rent > 0 /\ m = [l EXCEPT !.rent = m.rent]

\* A rent estimate that arrives later can cost a property at most 15 points of
\* its buy-to-let score (a weak yield counts below an unknown one), and nothing
\* on any other score.
RentEstimateCostsAtMostBuyToLet ==
    [][RentEstimateArrives(listing, listing') =>
          /\ lead'.value >= lead.value
          /\ strategies'.buyToLet >= strategies.buyToLet - 15
          /\ NoneBelow([strategies EXCEPT !.buyToLet = 0], strategies')]_vars


=============================================================================
