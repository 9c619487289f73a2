CONSTANTS
    Policies <- MCPolicies
    Observations <- MCNumbers
    Qualities <- MCQualities
    Pushed = TRUE
    Replays = FALSE
    Resets = FALSE
    Epoch = 100
    ReplayIdle = 2
    MaxItems = 3
    LastOffer = 3
    MaxNow = 7
    MaxSource = 0
SPECIFICATION FairSpec
PROPERTIES PolicyKept NewestReported
