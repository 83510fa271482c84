CONSTANTS
    Live = {1, 2}
    MaxDrafts = 2
    MaxCalls = 2

SPECIFICATION Spec

INVARIANT SendsWhatIsShown
