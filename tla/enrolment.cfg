\* The model stops when every token is issued and every request has ended.
SPECIFICATION FairSpec
CONSTANTS
    Issuers = {i1, i2}
    Handlers = {h1, h2}
    MaxTokens = 3
    MaxStops = 1
INVARIANTS OneUsableToken TokenYieldsOneCredential EnrolledAsAWhole
PROPERTIES SpentForGood RequestsEnd
CHECK_DEADLOCK FALSE
