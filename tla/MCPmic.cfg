CONSTANTS
 AlwaysOn <- MCAlwaysOn
 Bucks <- MCBucks
 MaxFaults = 2
SPECIFICATION PmicSpec
INVARIANTS RailsOkMeansSet InStep
