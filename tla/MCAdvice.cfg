CONSTANTS
    None = None
    Cases <- MCCases
    WindowDistance = 6
    OffRoute = 5
SPECIFICATION Spec
INVARIANTS
    AdviceTypeOK
    WindowIsAhead
    SharesFollowTheWay
    SeatOutOfSun
    MirrorSwapsSides
CHECK_DEADLOCK FALSE
