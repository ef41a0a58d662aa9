SPECIFICATION PartsSpec
CONSTANTS
    Node = {n1, n2}
    MinConfirmations = 2
    MaxHeight = 2
    Bot = {1, 2, 3, 4}
    Scales = {0, 1, 2}
    Attempts = 2
    MaxFaults = 2
    Packet = {1, 2, 3}
    Ours = {2, 3}
    Unreadable = {3}
    PageLimit = 2
    Denom = {"adym", "usdc"}
    LP = {1, 2}
    Rollapp = {1, 2}
    Supported = {1}
    MinShare = 15
    Grant <- MCGrant
    Order <- MCOrder
    Width = 20
    Sample <- MCSample
    Foreign <- MCForeign
    Base = 5
    Separator = 2
    HeightLen = 3
INVARIANT SettledWhenAsked
CHECK_DEADLOCK FALSE
