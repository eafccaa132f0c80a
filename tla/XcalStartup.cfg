\* Crashes everywhere, also while a description is written; the addresses and
\* the account id of the gateway change.
SPECIFICATION BFairSpec
CONSTANTS
    MaxCrashes = 1
    Rounds = 2
    Client <- Clients
    AccountOf <- Accounts
    Account = {"A", "B"}
    MaxChanges = 2
INVARIANTS ProtectedIsMarked Reachable OwnAddress MocaFollowsAccount
PROPERTY ComesUpLinked
CHECK_DEADLOCK FALSE
