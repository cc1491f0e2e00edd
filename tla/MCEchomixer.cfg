SPECIFICATION Spec
CONSTANTS
    Cards <- MCCards
    Gains <- MCGains
    AdatCard <- ADAT
    PlainWindows = {"Misc"}
    Clocks = {0, 1, 2}
    NoClock = NoClock
CONSTRAINT FewAreHigh
INVARIANT TypeOK
INVARIANT MetersFollowWindows
INVARIANT ClockIsCards
 
 
PROPERTY SelectionKeepsGains
PROPERTY DragsEnabledOnly
PROPERTY WindowsComeBack
 
