SPECIFICATION Spec
CONSTANTS
    None = None
    N = 2
    StableSeconds = 2
    SampleInterval = 2
    MaxDuration = 3
    MaxQuery = 1
    Counts = {1, 2}
    PeerSets = {{}, {p}}
    MaxChanges = 1
    MaxFailures = 1
INVARIANTS
    SamplerInv
    LedgerBalances
    StabilityWasObserved
    DiagnosisMatchesSamples
    OverrunBounded
PROPERTY StableOnlyOnWindow
