SPECIFICATION LimiterSpec
CONSTANTS
    Clients = {c1, c2}
    Rate = 2
    Capacity = 4
    Cost = 3
    Clock <- MCClock
INVARIANTS WindowBound
PROPERTY RefusedWhenUsedUp
