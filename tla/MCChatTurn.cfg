CONSTANTS
    s1 = s1
    s2 = s2
    c1 = c1
    c2 = c2
    Streams <- MCStreams
    Confirms <- MCConfirms
    Recent = 1
    Past = 3
    MaxTokens = 2
    MaxTurns = 2
    MaxUpsets = 1
    MaxCrashes = 1
SPECIFICATION MCSpec
INVARIANTS CarriedOutOnConsent NothingForgotten
PROPERTIES StoredIsShown StreamsEnd
CHECK_DEADLOCK FALSE
