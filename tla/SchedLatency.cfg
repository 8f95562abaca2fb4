CONSTANT count = 50
SPECIFICATION LatencySpec
INVARIANT PairsAreWakeups
