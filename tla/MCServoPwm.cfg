SPECIFICATION PwmSpec
CONSTANTS
    DelayTimes <- MCDelayTimes
    PollTimes <- MCPollTimes
    LongestPoll = 18
    Stolen <- MCStolen
    MostStolen = 36
    Angles <- MCAngles
    ResetTimes <- MCResetTimes
    ResetPause = 500
    MaxDelay = 714
INVARIANTS
    PwmTypeOK
    PolledInTime
    ResetNoticed
    PulsesInTime
