----------------------------- MODULE LightRules -----------------------------
(***************************************************************************)
(* The light rules (lightrules.c): buttons and motion sensors switch the   *)
(* lights of deCONZ, an off timer switches them off again, and a command   *)
(* that got lost on the air is repeated.                                   *)
(*                                                                         *)
(* All of it runs in the main thread; what makes it hard is that the state *)
(* of a light is known only from the reports of deCONZ, which follow the   *)
(* switching late, that commands get lost, and that people switch the same *)
(* lights in the web interface and with the switches of deCONZ itself.     *)
(*                                                                         *)
(* Seconds are counted in ticks; the constants of the code (2, 5 and 80 s) *)
(* keep their order.  Brightness and transition are not modelled.          *)
(***************************************************************************)
EXTENDS Naturals, Sequences, FiniteSets

CONSTANTS
    Lights,        \* DZL
    Groups,        \* DZLG
    Members,       \* [Groups -> SUBSET Lights]
    Rules,         \* the rules of the sensor, a sequence of rules
    SkipWithin,    \* the same command is not sent again (2 s)
    CheckAfter,    \* a command is checked (5 s)
    ConfirmAfter,  \* a command is confirmed (80 s)
    MaxRetries,    \* repetitions of a command (2)
    MaxDelay,      \* ticks after which deCONZ has reported at the latest
    MaxEvents,     \* bound: events of the sensor
    MaxHand,       \* bound: switching by hand
    MaxFailed      \* bound: commands lost on the air or refused (light not reachable)

Targets == Lights \union Groups
Rule == [trigger : {"button", "motion"}, action : {"toggle", "on", "off", "follow"},
         targets : SUBSET Targets, offAfter : Nat, condition : BOOLEAN]

ASSUME LightAssumption ==
    /\ Lights \cap Groups = {} /\ IsFiniteSet(Targets)
    /\ Members \in [Groups -> SUBSET Lights]
    /\ Rules \in Seq(Rule) /\ Rules # <<>>
    /\ SkipWithin \in Nat /\ CheckAfter \in Nat /\ ConfirmAfter \in Nat
    /\ SkipWithin <= CheckAfter /\ CheckAfter < ConfirmAfter
    /\ MaxRetries \in Nat /\ MaxDelay \in Nat /\ MaxEvents \in Nat /\ MaxHand \in Nat
    /\ MaxFailed \in Nat

VARIABLES
    lamp,          \* whether the light is really on
    reports,       \* states reported by deCONZ, not yet dispatched
    state,         \* SensorData::state of the lights and groups
    late,          \* ticks since the state of a light or group is outdated
    air,           \* commands accepted by deCONZ, not yet at the lights
    events,        \* HomeCtl::lightRuleEvents
    commands,      \* HomeCtl::lightCommands
    timers,        \* HomeCtl::lightRuleTimers
    mainPc,        \* where performLightRules is
    ruleNo,        \* the rule it applies, or the timer it checks
    newSecond,     \* lastCheckAt # time(0)
    newest,        \* history: what a light was told or switched to last, and by whom
    budget         \* events, hands and failures so far

mainVars == <<events, commands, timers, mainPc, ruleNo, newSecond>>
vars == <<lamp, reports, state, late, air, mainVars, newest, budget>>

NoCommand == [sent |-> FALSE, on |-> FALSE, age |-> 0, retries |-> 0]
NoTimer == [active |-> FALSE, left |-> 0, on |-> {}, seen |-> {}]
LightsOf(t) == IF t \in Groups THEN Members[t] ELSE {t}
Lit(t) == IF t \in Lights THEN lamp[t] ELSE \E l \in Members[t] : lamp[l]

Spend(kind) == budget' = [budget EXCEPT ![kind] = @ + 1]

Told(on, by) == [on |-> on, by |-> by]

-----------------------------------------------------------------------------
(* deCONZ and the lights. *)

(* A command reaches the lights it is for, or is lost. *)
Arrive(lost) ==
    /\ air # <<>>
    /\ LET cmd  == Head(air)
           hit  == IF lost THEN {} ELSE LightsOf(cmd.target)
           goal == IF cmd.toggle THEN ~Lit(cmd.target) ELSE cmd.on
       IN lamp' = [l \in Lights |-> IF l \in hit THEN goal ELSE lamp[l]]
    /\ air' = Tail(air)
    /\ IF lost THEN budget.failed < MaxFailed /\ Spend("failed") ELSE UNCHANGED budget
    /\ UNCHANGED <<reports, state, late, mainVars, newest>>

(* Somebody uses a switch that deCONZ knows and the daemon does not. *)
SwitchByHand(l) ==
    /\ budget.hand < MaxHand /\ Spend("hand")
    /\ lamp' = [lamp EXCEPT ![l] = ~@]
    /\ newest' = [newest EXCEPT ![l] = Told(~lamp[l], "switch")]
    /\ UNCHANGED <<reports, state, late, air, mainVars>>

(* A light changed, or the poll of deCONZ finds it changed. *)
LastReported(t) == IF reports[t] # <<>> THEN reports[t][Len(reports[t])] ELSE state[t]

Report(t) ==
    /\ LastReported(t) # Lit(t) /\ Len(reports[t]) < 2
    /\ reports' = [reports EXCEPT ![t] = Append(@, Lit(t))]
    /\ UNCHANGED <<lamp, state, late, air, mainVars, newest, budget>>

-----------------------------------------------------------------------------
(* The main thread between two calls of performLightRules. *)

(* dispatchDeconz: a state of a light or group. *)
DispatchReport(t) ==
    /\ mainPc = "idle" /\ reports[t] # <<>>
    /\ state' = [state EXCEPT ![t] = Head(reports[t])]
    /\ reports' = [reports EXCEPT ![t] = Tail(@)]
    /\ UNCHANGED <<lamp, late, air, mainVars, newest, budget>>

(* dispatchDeconz: a button or a motion is an event, also the same again.  *)
DispatchEvent(e) ==
    /\ mainPc = "idle" /\ budget.event < MaxEvents /\ Spend("event")
    /\ events' = Append(events, e)
    /\ UNCHANGED <<lamp, reports, state, late, air, commands, timers, mainPc, ruleNo,
                   newSecond, newest>>

(* What toggleIo sends: a light gets the state, a group is toggled.        *)
SendToggle(t, on) ==
    /\ air' = Append(air, [target |-> t, on |-> on, toggle |-> t \in Groups])
    /\ newest' = [l \in Lights |-> IF l = t THEN Told(on, "webif")
                                   ELSE IF l \in LightsOf(t) THEN Told(on, "group")
                                   ELSE newest[l]]

(* Mutant: the switch of the web interface leaves the check running. *)
ToggleIoKeepsCheck(t, on) ==
    /\ mainPc = "idle" /\ budget.hand < MaxHand /\ Spend("hand")
    /\ SendToggle(t, on)
    /\ UNCHANGED <<lamp, reports, state, late, events, commands, timers, mainPc, ruleNo,
                   newSecond>>

(* toggleIo, from the web interface: the other state, or a brightness (off *)
(* below 5 %).  The check of the light ends.  A command deCONZ refuses is  *)
(* one that is lost.                                                       *)
ToggleIo(t, on) ==
    /\ mainPc = "idle" /\ budget.hand < MaxHand /\ Spend("hand")
    /\ commands' = [l \in Lights |-> IF l = t THEN NoCommand ELSE commands[l]]
    /\ SendToggle(t, on)
    /\ UNCHANGED <<lamp, reports, state, late, events, timers, mainPc, ruleNo, newSecond>>

(* toggleColor, from the web interface: switches on, and no check ends. *)
ToggleColor(l) ==
    /\ mainPc = "idle" /\ budget.hand < MaxHand /\ Spend("hand")
    /\ air' = Append(air, [target |-> l, on |-> TRUE, toggle |-> FALSE])
    /\ newest' = [newest EXCEPT ![l] = Told(TRUE, "color")]
    /\ UNCHANGED <<lamp, reports, state, late, events, commands, timers, mainPc, ruleNo,
                   newSecond>>

(* A second passes.  A command is transmitted or lost and the real state   *)
(* dispatched MaxDelay ticks after they differ, `latest after the next     *)
(* poll' of deCONZ.                                                        *)
Outdated(t) ==
    \/ state[t] # Lit(t) \/ reports[t] # <<>>
    \/ \E i \in DOMAIN air : LightsOf(air[i].target) \cap LightsOf(t) # {}

Tick ==
    /\ mainPc = "idle"
    /\ \A t \in Targets : Outdated(t) => late[t] < MaxDelay
    /\ late' = [t \in Targets |-> IF Outdated(t) THEN late[t] + 1 ELSE 0]
    /\ newSecond' = TRUE
    /\ commands' = [l \in Lights |-> IF commands[l].age < ConfirmAfter
                        THEN [commands[l] EXCEPT !.age = IF commands[l].sent THEN @ + 1 ELSE 0]
                        ELSE commands[l]]
    /\ timers' = [i \in DOMAIN timers |->
                    [timers[i] EXCEPT !.left = IF @ > 0 THEN @ - 1 ELSE 0]]
    /\ UNCHANGED <<lamp, reports, state, air, events, mainPc, ruleNo, newest, budget>>

-----------------------------------------------------------------------------
(* performLightRules. *)

(* lightCommand for each of the targets; deCONZ takes those in `accepted'. *)
(* Only a light has a state that can be checked, a group has not.          *)
JustSent(t, on) ==
    t \in Lights /\ commands[t].sent /\ commands[t].on = on
    /\ commands[t].retries = 0 /\ commands[t].age < SkipWithin

CommandsOf(targets, on) ==      \* in an order of its own
    LET order == CHOOSE s \in [1..Cardinality(targets) -> targets] :
                    \A i, j \in DOMAIN s : s[i] = s[j] => i = j
    IN [i \in DOMAIN order |-> [target |-> order[i], on |-> on, toggle |-> FALSE]]

LightCommand(targets, on, accepted) ==
    LET needed == {t \in targets : ~JustSent(t, on)}
    IN /\ commands' = [l \in Lights |->
             IF l \notin needed THEN commands[l]
             ELSE IF l \in accepted THEN [sent |-> TRUE, on |-> on, age |-> 0, retries |-> 0]
             ELSE NoCommand]
       /\ air' = air \o CommandsOf(needed \cap accepted, on)
       /\ newest' = [l \in Lights |->
             IF l \in needed \ accepted THEN Told(on, "nobody")
             ELSE IF l \in targets THEN Told(on, "rule")
             ELSE IF \E t \in needed \cap accepted : l \in LightsOf(t) THEN Told(on, "group")
             ELSE newest[l]]

Sends(targets, on) ==
    \E accepted \in SUBSET targets :
        /\ LightCommand(targets, on, accepted)
        /\ IF accepted = targets THEN UNCHANGED budget
           ELSE budget.failed < MaxFailed /\ Spend("failed")

SendsNothing == UNCHANGED <<commands, air, newest, budget>>

PerformBegin ==
    /\ mainPc = "idle" /\ (events # <<>> \/ newSecond)
    /\ mainPc' = "events" /\ ruleNo' = 1
    /\ UNCHANGED <<lamp, reports, state, late, air, events, commands, timers, newSecond,
                   newest, budget>>

Triggered(rule, e) ==
    \/ rule.trigger = "button" /\ e = "button"
    \/ rule.trigger = "motion" /\ (e = "motion" \/ (e = "nomotion" /\ rule.action = "follow"))

WantsOn(rule, e) ==
    CASE rule.action = "toggle" -> \A t \in rule.targets : ~state[t]
      [] rule.action = "follow" -> e = "motion"
      [] OTHER                  -> rule.action = "on"

(* lightRuleApply.  `inside' is the time range of the condition, which     *)
(* counts for switching on only.                                           *)
ApplyRule(inside) ==
    LET rule == Rules[ruleNo]
        e    == Head(events)
        on   == WantsOn(rule, e)
        off  == {t \in rule.targets : ~state[t]}
        skip == \/ ~Triggered(rule, e) \/ rule.targets = {}
                \/ on /\ rule.condition /\ ~inside
    IN IF skip THEN SendsNothing /\ UNCHANGED timers
       ELSE /\ Sends(rule.targets, on)
            /\ timers' =
                 IF on /\ rule.offAfter > 0
                 THEN [timers EXCEPT ![ruleNo] =
                         [active |-> TRUE, left |-> rule.offAfter,
                          on |-> @.on \union off, seen |-> @.seen \ off]]
                 ELSE IF ~on THEN [timers EXCEPT ![ruleNo] = NoTimer]
                 ELSE timers

HandleEvent ==
    /\ mainPc = "events" /\ events # <<>>
    /\ \E inside \in BOOLEAN : ApplyRule(inside)
    /\ IF ruleNo < Len(Rules)
       THEN ruleNo' = ruleNo + 1 /\ UNCHANGED events
       ELSE ruleNo' = 1 /\ events' = Tail(events)
    /\ UNCHANGED <<lamp, reports, state, late, mainPc, newSecond>>

EventsDone ==
    /\ mainPc = "events" /\ events = <<>>
    /\ mainPc' = IF newSecond THEN "commands" ELSE "idle"
    /\ newSecond' = FALSE
    /\ UNCHANGED <<lamp, reports, state, late, air, events, commands, timers, ruleNo,
                   newest, budget>>

(* lightCheckCommands *)
Confirmed(l) == state[l] = commands[l].on
Due(l) == commands[l].sent /\ ~Confirmed(l) /\ commands[l].age >= CheckAfter

(* Mutants: confirmed at once by a state from before the command; one      *)
(* repetition too many.                                                    *)
OverAtOnce(l) == commands[l].sent /\ Confirmed(l)
RepeatOnceMore(l) == Due(l) /\ commands[l].retries <= MaxRetries

Over(l) == commands[l].sent /\ Confirmed(l) /\ commands[l].age >= ConfirmAfter
Repeat(l) == Due(l) /\ commands[l].retries < MaxRetries

CheckCommands(accepted) ==
    /\ commands' = [l \in Lights |->
          IF Repeat(l) /\ l \in accepted
          THEN [commands[l] EXCEPT !.retries = @ + 1, !.age = 0]
          ELSE IF Due(l) \/ Over(l)
          THEN NoCommand
          ELSE commands[l]]
    /\ air' = air \o CommandsOf({l \in accepted : Repeat(l) /\ commands[l].on}, TRUE)
                  \o CommandsOf({l \in accepted : Repeat(l) /\ ~commands[l].on}, FALSE)

CheckCommandsStep ==
    /\ mainPc = "commands"
    /\ LET repeated == {l \in Lights : Repeat(l)}
       IN \E accepted \in SUBSET repeated :
            /\ CheckCommands(accepted)
            /\ newest' = [l \in Lights |-> IF l \in repeated \ accepted
                             THEN [newest[l] EXCEPT !.by = "nobody"] ELSE newest[l]]
            /\ IF accepted = repeated THEN UNCHANGED budget
               ELSE budget.failed < MaxFailed /\ Spend("failed")
    /\ mainPc' = "timers" /\ ruleNo' = 1
    /\ UNCHANGED <<lamp, reports, state, late, events, timers, newSecond>>

(* lightRuleCheckTimers, one timer: a target that was seen on and is off   *)
(* again is dropped, unless its `on' is still being repeated.              *)
RepeatingOn(t) == t \in Lights /\ commands[t].sent /\ commands[t].on
Kept(timer) == {t \in timer.on : state[t] \/ t \notin timer.seen \/ RepeatingOn(t)}
Seen(timer) == {t \in Kept(timer) : state[t] \/ t \in timer.seen}

CheckTimer ==
    /\ mainPc = "timers" /\ ruleNo <= Len(Rules)
    /\ LET timer == timers[ruleNo]
           kept  == Kept(timer)
       IN IF kept # {} /\ timer.left = 0
          THEN Sends(kept, FALSE) /\ timers' = [timers EXCEPT ![ruleNo] = NoTimer]
          ELSE /\ SendsNothing
               /\ timers' = [timers EXCEPT ![ruleNo] =
                    IF kept = {} THEN NoTimer
                    ELSE [@ EXCEPT !.on = kept, !.seen = Seen(timer)]]
    /\ ruleNo' = ruleNo + 1
    /\ UNCHANGED <<lamp, reports, state, late, events, mainPc, newSecond>>

TimersDone ==
    /\ mainPc = "timers" /\ ruleNo > Len(Rules)
    /\ mainPc' = "idle" /\ ruleNo' = 1
    /\ UNCHANGED <<lamp, reports, state, late, air, events, commands, timers, newSecond,
                   newest, budget>>

-----------------------------------------------------------------------------
Init ==
    /\ lamp = [l \in Lights |-> FALSE]
    /\ reports = [t \in Targets |-> <<>>]
    /\ state = [t \in Targets |-> FALSE]
    /\ late = [t \in Targets |-> 0]
    /\ air = <<>> /\ events = <<>>
    /\ commands = [l \in Lights |-> NoCommand]
    /\ timers = [i \in 1..Len(Rules) |-> NoTimer]
    /\ mainPc = "idle" /\ ruleNo = 1 /\ newSecond = FALSE
    /\ newest = [l \in Lights |-> Told(FALSE, "nobody")]
    /\ budget = [event |-> 0, hand |-> 0, failed |-> 0]

Perform == PerformBegin \/ HandleEvent \/ EventsDone \/ CheckCommandsStep
           \/ CheckTimer \/ TimersDone

Environment ==
    \/ \E lost \in BOOLEAN : Arrive(lost)
    \/ \E l \in Lights : SwitchByHand(l)
    \/ \E t \in Targets : Report(t)

Next ==
    \/ Environment \/ Tick \/ Perform
    \/ \E t \in Targets : DispatchReport(t) \/ \E on \in BOOLEAN : ToggleIo(t, on)
    \/ \E l \in Lights : ToggleColor(l)
    \/ \E e \in {"button", "motion", "nomotion"} : DispatchEvent(e)

(* Time passes, the main loop goes round, and deCONZ transmits what it     *)
(* accepted and reports what changed.  Nobody has to touch a switch.       *)
Fairness ==
    /\ WF_vars(Tick) /\ WF_vars(Perform) /\ WF_vars(\E lost \in BOOLEAN : Arrive(lost))
    /\ WF_vars(\E t \in Targets : Report(t)) /\ SF_vars(\E t \in Targets : DispatchReport(t))

Spec == Init /\ [][Next]_vars /\ Fairness

-----------------------------------------------------------------------------
CommandType == [sent : BOOLEAN, on : BOOLEAN, age : 0..ConfirmAfter, retries : 0..MaxRetries]
TimerType == [active : BOOLEAN, left : Nat, on : SUBSET Targets, seen : SUBSET Targets]

(* The types of the variables. *)
TypeOK ==
    /\ lamp \in [Lights -> BOOLEAN]
    /\ reports \in [Targets -> Seq(BOOLEAN)]
    /\ state \in [Targets -> BOOLEAN]
    /\ late \in [Targets -> 0..MaxDelay]
    /\ air \in Seq([target : Targets, on : BOOLEAN, toggle : BOOLEAN])
    /\ events \in Seq({"button", "motion", "nomotion"})
    /\ commands \in [Lights -> CommandType]
    /\ timers \in [1..Len(Rules) -> TimerType]
    /\ \A i \in 1..Len(Rules) : timers[i].seen \subseteq timers[i].on
    /\ mainPc \in {"idle", "events", "commands", "timers"}
    /\ ruleNo \in 1..(Len(Rules) + 1)
    /\ newSecond \in BOOLEAN
    /\ newest \in [Lights -> [on : BOOLEAN,
                             by : {"rule", "webif", "color", "group", "switch", "nobody"}]]
    /\ budget \in [event : 0..MaxEvents, hand : 0..MaxHand, failed : 0..MaxFailed]

(* A command is repeated only while it is the newest command of a rule to  *)
(* that light: another one replaces it, toggleIo ends the check.  Excepted *)
(* are the newer commands the check does not know of: of a switch, of the  *)
(* color picker, or to a group of the light.                               *)
Repeated(l) == commands[l].sent /\ commands'[l].sent
               /\ commands'[l].retries > commands[l].retries
Unchecked(l) == newest[l].by \in {"switch", "color", "group"}
RepeatsNewestCommand ==
    [][\A l \in Lights : Repeated(l) => \/ newest[l] = Told(commands[l].on, "rule")
                                       \/ Unchecked(l)]_vars

(* What a rule told a light last comes true although commands get lost,    *)
(* people switch and reports come late: no mix of timer, retrigger,        *)
(* skipped commands and repetitions leaves it in the other state for good. *)
CommandTakesEffect ==
    \A l \in Lights, on \in BOOLEAN : []<>(newest[l] = Told(on, "rule") => lamp[l] = on)

(* `Switching by the WEBIF ends the check': no command from before is      *)
(* repeated against what a light was switched to there.                    *)
WebifEndsCheck ==
    [][\A l \in Lights : Repeated(l) /\ newest[l].by \in {"webif", "color"}
                            => commands[l].on = newest[l].on]_vars

(* `At the end only the targets switched on by the rule are switched off': *)
(* a light that only rules with an off timer switch on gets dark again     *)
(* each time, as nobody else touches it and the sensor gets quiet.         *)
LightGoesOff == \A l \in Lights : []<>~lamp[l]
=============================================================================
