SPECIFICATION ThrottleSpec
CONSTANTS
    None = None  req1 = req1  req2 = req2  req3 = req3
    Request = {req1, req2, req3}
    client = client  proxy = proxy  Blank = Blank  NoAddress = NoAddress
    Address = {client, proxy}  Inside = {proxy}
    Config <- MCConfig
    Defaults <- MCDefaults
    Token = 3
    IdleFor = 2
    MaxStall = 1
    MaxTime = 3
    MaxUpdates = 1
    MaxRequests = 4
SYMMETRY Symmetry
INVARIANTS TypeOK SettingsCurrentUnlessOvertaken FailuresBounded
PROPERTIES UnpaidOnlyIfRaced BlockedOnlyByFailures
CONSTRAINT LastComesLate
CHECK_DEADLOCK FALSE
