SPECIFICATION Spec
CONSTANTS
    short = short
    long = long
    Window = 3
    InitialCapacity = 2
    MinGrowth = 1
    Wires <- MCWires
    Size <- MCSize
    SeqNums = {0, 1, 2, 3, 4}
    MaxBytes = 7
INVARIANT TypeOK
INVARIANT SizeExact
INVARIANT RegionsApart
PROPERTY ImplementsMap
