CONSTANTS
    Prices <- MCPrices
    Rents <- MCRents
    Markets <- MCMarkets
    Bedrooms <- MCBedrooms
    Ages <- MCAges
SPECIFICATION Spec
INVARIANTS
    TypeOK
    NothingIsCapped
    TopGradesNeedEvidence
PROPERTIES
    BetterDealNeverScoresLower
    RentEstimateCostsAtMostBuyToLet
