CONSTANT Chains = {c1, c2}
SPECIFICATION LiveSpec
INVARIANTS AfterWaits NoNullService
PROPERTY EverythingRuns
CHECK_DEADLOCK FALSE
