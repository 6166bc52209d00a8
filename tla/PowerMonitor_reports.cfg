CONSTANTS
    MaxSent = 5
    MaxFlips = 3
    Events = {"net", "slow", "battery"}
SPECIFICATION FairSpec
CHECK_DEADLOCK FALSE
INVARIANTS TypeOK SilenceExplained LossesHeardInTurn
PROPERTIES ImplementsPowerReports PowerLossHalts
