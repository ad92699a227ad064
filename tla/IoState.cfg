\* Safety and liveness: an output with time ranges, one without, an impulse and an
\* input whose changes may get lost; restarts and crashes.
CONSTANTS
    timed = timed
    input = input
    plain = plain
    bell = bell
    NoPin = NoPin
    Pins <- TimedInputPlainBell
    OutputOrder <- TimedPlainBell
    Outputs = {timed, plain, bell}
    Inputs = {input}
    Impulse = {bell}
    Inverted = {bell}
    UserMode = {timed, plain, bell}
    AutoMode = {timed}
    Timed = {timed}
    MaxSwitches = 1
    MaxStops = 2
    MaxEdges = 2
    MaxRanges = 1
SPECIFICATION Spec
INVARIANTS TypeOK PersistedWhileRunning
PROPERTIES StartKeepsState InputSeen TimesKept
