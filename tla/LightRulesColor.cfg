\* One light, in no group, a rule that switches off, the color picker.
CONSTANTS
    l1 = l1
    l2 = l2
    g = g
    Lights = {l1}
    Groups = {}
    Members <- NoMembers
    Rules <- FollowAndToggle
    SkipWithin = 1
    CheckAfter = 2
    ConfirmAfter = 3
    MaxRetries = 2
    MaxDelay = 2
    MaxEvents = 1
    MaxHand = 2
    MaxFailed = 0
SPECIFICATION Spec
PROPERTIES WebifEndsCheck
