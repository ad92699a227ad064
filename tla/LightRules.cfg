\* One light, also in a group, a motion sensor with off timer and a toggle button; people
\* at the switches and in the web interface.  One touch of theirs and one failed command are
\* together as much as the two repetitions make good.
CONSTANTS
    l1 = l1
    l2 = l2
    g = g
    Lights = {l1}
    Groups = {g}
    Members <- GroupOfAll
    Rules <- FollowAndToggle
    SkipWithin = 1
    CheckAfter = 2
    ConfirmAfter = 3
    MaxRetries = 2
    MaxDelay = 2
    MaxEvents = 2
    MaxHand = 1
    MaxFailed = 1
SPECIFICATION Spec
INVARIANTS TypeOK
PROPERTIES RepeatsNewestCommand CommandTakesEffect
