CONSTANTS
    None = None
    Runtimes = {r1, r2}
    Agents = {a1}
    Policies <- MCPolicies
    Maximum <- MCMaximum
    Situations <- MCSituations
    Settings <- MCSettings
    Unsafe = {}
    MaxDeployments = 3
    MaxEpoch = 3
    MaxSources = 1
SPECIFICATION MCSpec
INVARIANTS CutoverIsWhole MissingFactsNeverHelp
PROPERTIES RelaxationIsSeen
SYMMETRY Alike
CHECK_DEADLOCK FALSE
