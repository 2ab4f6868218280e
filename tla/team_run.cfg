SPECIFICATION FairSpec
CONSTANTS
  Proposals <- MCProposals
  Suggestions <- MCSuggestions
  Signals <- MCSignals
  Caps = {5, 7}
  DefaultCap = 6
  MaxRetries = 1
  MaxTotalRepairs = 1
INVARIANTS DoneMeansChecked OrderFits
PROPERTIES GateSpec Termination
CHECK_DEADLOCK FALSE
