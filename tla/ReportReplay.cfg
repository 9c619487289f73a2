CONSTANTS
    Policies <- MCPolicies
    Observations <- MCMixed
    Qualities <- MCQualities
    Pushed = TRUE
    Replays = TRUE
    Resets = TRUE
    Epoch = 100
    ReplayIdle = 2
    MaxItems = 3
    LastOffer = 3
    MaxNow = 3
    MaxSource = 4
SPECIFICATION Spec
PROPERTIES InOrder ReplayRateLimited
