SPECIFICATION Spec
CONSTANTS
    Inputs <- MCInputs
    Postings <- MCPostings
    Aggregates <- MCAggregates
    a = a
    b = b
    Sessions = {a, b}
    Titles = {"t"}
    Urls = {"u", "v"}
    Missing = "-"
    Skills <- MCSkills
    Positions <- MCPositions
    Offers <- MCOffers
    Aggregate <- MCAggregate
    Headline = "headline"
    Place = "v"
    MaxRows = 3
    MaxRequests = 5
SYMMETRY Interchangeable
INVARIANTS AloneOneLead  ScoresAreFair
CHECK_DEADLOCK FALSE
