\* Sessions stopped and started again, and additions nested in one another.
SPECIFICATION FairSpec
CONSTANTS
    Dev = {1, 2, 3}
    Self = 2
    Account <- TwoAccounts
    Builds <- ThreeBuilds
    MaxDepth = 3
    MaxEvents = 7
INVARIANTS AddCountExact SessionStartsEmpty ReportedListed
PROPERTIES SameAccountOnly LeftReported
