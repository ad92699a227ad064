---------------------------- MODULE MCLightRules ----------------------------
(* LightRules for TLC: a motion sensor with an off timer and a button.     *)
EXTENDS LightRules

CONSTANTS l1, l2, g

MotionTimer(targets, action) == [trigger |-> "motion", action |-> action, targets |-> targets,
                                 offAfter |-> 2, condition |-> TRUE]
ButtonToggle(targets) == [trigger |-> "button", action |-> "toggle", targets |-> targets,
                          offAfter |-> 0, condition |-> FALSE]

TimerOnly == <<MotionTimer({l1}, "on")>>
FollowAndToggle == <<MotionTimer({l1}, "follow"), ButtonToggle({l1})>>
NoMembers == [x \in {} |-> {}]
GroupOfAll == [x \in Groups |-> Lights]
=============================================================================
