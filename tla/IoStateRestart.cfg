\* An input and an output with time ranges, one stop.
CONSTANTS
    timed = timed
    input = input
    plain = plain
    bell = bell
    NoPin = NoPin
    Pins <- InputTimed
    OutputOrder <- OnlyTimed
    Outputs = {timed}
    Inputs = {input}
    Impulse = {}
    Inverted = {}
    UserMode = {timed}
    AutoMode = {timed}
    Timed = {timed}
    MaxSwitches = 1
    MaxStops = 1
    MaxEdges = 0
    MaxRanges = 1
SPECIFICATION Spec
PROPERTIES StartKeepsOutputs
