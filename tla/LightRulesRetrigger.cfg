\* One light with an off timer, a motion sensor, nothing is lost.
CONSTANTS
    l1 = l1
    l2 = l2
    g = g
    Lights = {l1}
    Groups = {}
    Members <- NoMembers
    Rules <- TimerOnly
    SkipWithin = 1
    CheckAfter = 2
    ConfirmAfter = 3
    MaxRetries = 2
    MaxDelay = 2
    MaxEvents = 2
    MaxHand = 0
    MaxFailed = 0
SPECIFICATION Spec
PROPERTIES LightGoesOff
