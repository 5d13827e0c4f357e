CONSTANTS
    input = input
    output = output
    Series = {input, output}
    MaxExports = 3
    MaxEvents = 2
    MaxRestarts = 1
    MaxLost = 1
    MaxFails = 1
SPECIFICATION Spec
SYMMETRY AnySeries
INVARIANTS SumIsTotal NeverOver AckedStored
CHECK_DEADLOCK FALSE
