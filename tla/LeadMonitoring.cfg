SPECIFICATION FairSpec
CONSTANTS
    Leads = {"hot", "cold"}
    Hot = {"hot"}
    Pool <- MCPool
    Kinds <- MCKinds
    Offers <- MCOffers
    Limit = 2
    StaleWanted = TRUE
    LastDay = 200
    Step = 100
    MaxDeaths = 1
    MaxChanges = 1
INVARIANTS EvidenceCounts  AloneMovesTold
PROPERTIES SweepsCatchUp
