-------------------------- MODULE LightRulesProofs --------------------------
(***************************************************************************)
(* Proofs about LightRules, for any rules, lights, groups and delays: the  *)
(* types, and that only the newest command of a light is repeated.         *)
(***************************************************************************)
EXTENDS LightRules, FiniteSetTheorems, TLAPS

-----------------------------------------------------------------------------
(* The inductive invariant. *)

(* While events are handled ruleNo is the number of a rule. *)
AtRule == mainPc = "events" => ruleNo <= Len(Rules)

(* A command that is tracked is what a rule told the light last, unless    *)
(* the light was switched behind the back of the check.                    *)
TracksNewest ==
    \A l \in Lights : commands[l].sent => \/ newest[l] = Told(commands[l].on, "rule")
                                          \/ Unchecked(l)

IInv == TypeOK /\ AtRule /\ TracksNewest

-----------------------------------------------------------------------------
(* Lemmas on the data. *)

Command == [target : Targets, on : BOOLEAN, toggle : BOOLEAN]
BudgetType == [event : 0..MaxEvents, hand : 0..MaxHand, failed : 0..MaxFailed]
NewestType == [on : BOOLEAN, by : {"rule", "webif", "color", "group", "switch", "nobody"}]

LEMMA RuleFields ==
    ASSUME NEW i \in 1..Len(Rules)
    PROVE  /\ Rules[i] \in Rule /\ Rules[i].targets \subseteq Targets
           /\ Rules[i].offAfter \in Nat
  <1>1. Rules[i] \in Rule
    BY LightAssumption
  <1> QED
    BY <1>1 DEF Rule

LEMMA QueueOps ==
    ASSUME NEW T, NEW q \in Seq(T)
    PROVE  /\ Len(q) \in Nat
           /\ q # <<>> => Head(q) \in T /\ Tail(q) \in Seq(T)
           /\ \A e \in T : Append(q, e) \in Seq(T)
  OBVIOUS

LEMMA SpendType ==
    ASSUME budget \in BudgetType
    PROVE  /\ budget.event < MaxEvents /\ Spend("event") => budget' \in BudgetType
           /\ budget.hand < MaxHand /\ Spend("hand") => budget' \in BudgetType
           /\ budget.failed < MaxFailed /\ Spend("failed") => budget' \in BudgetType
  <1>0. MaxEvents \in Nat /\ MaxHand \in Nat /\ MaxFailed \in Nat
    BY LightAssumption
  <1>1. ASSUME budget.event < MaxEvents, Spend("event") PROVE budget' \in BudgetType
    <2>1. budget' = [budget EXCEPT !.event = budget.event + 1]
      BY <1>1 DEF Spend
    <2>2. budget.event \in 0..MaxEvents
      BY DEF BudgetType
    <2>3. budget.event + 1 \in 0..MaxEvents
      BY <1>0, <1>1, <2>2
    <2> QED
      BY <2>1, <2>3 DEF BudgetType
  <1>2. ASSUME budget.hand < MaxHand, Spend("hand") PROVE budget' \in BudgetType
    <2>1. budget' = [budget EXCEPT !.hand = budget.hand + 1]
      BY <1>2 DEF Spend
    <2>2. budget.hand \in 0..MaxHand
      BY DEF BudgetType
    <2>3. budget.hand + 1 \in 0..MaxHand
      BY <1>0, <1>2, <2>2
    <2> QED
      BY <2>1, <2>3 DEF BudgetType
  <1>3. ASSUME budget.failed < MaxFailed, Spend("failed") PROVE budget' \in BudgetType
    <2>1. budget' = [budget EXCEPT !.failed = budget.failed + 1]
      BY <1>3 DEF Spend
    <2>2. budget.failed \in 0..MaxFailed
      BY DEF BudgetType
    <2>3. budget.failed + 1 \in 0..MaxFailed
      BY <1>0, <1>3, <2>2
    <2> QED
      BY <2>1, <2>3 DEF BudgetType
  <1> QED
    BY <1>1, <1>2, <1>3

(* The commands to a set of targets, in the order deCONZ gets them. *)
LEMMA CommandsOfType ==
    ASSUME NEW targets \in SUBSET Targets, NEW on \in BOOLEAN
    PROVE  CommandsOf(targets, on) \in Seq(Command)
  <1> DEFINE n == Cardinality(targets)
             Enumerates(s) == \A i, j \in DOMAIN s : s[i] = s[j] => i = j
             order == CHOOSE s \in [1..n -> targets] : Enumerates(s)
  <1>1. IsFiniteSet(targets)
    BY LightAssumption, FS_Subset
  <1>2. n \in Nat /\ ExistsBijection(1..n, targets)
    BY <1>1, FS_CardinalityType
  <1>3. \E s \in [1..n -> targets] : Enumerates(s)
    <2>1. PICK f : f \in Bijection(1..n, targets)
      BY <1>2 DEF ExistsBijection
    <2>2. f \in [1..n -> targets] /\ \A i, j \in 1..n : f[i] = f[j] => i = j
      BY <2>1 DEF Bijection, Injection, IsInjective
    <2>3. DOMAIN f = 1..n
      BY <2>2
    <2> QED
      BY <2>2, <2>3
  <1>4. order \in [1..n -> targets]
    BY <1>3
  <1>5. CommandsOf(targets, on) = [i \in DOMAIN order |-> [target |-> order[i], on |-> on, toggle |-> FALSE]]
    BY DEF CommandsOf
  <1> HIDE DEF order, n
  <1>6. CommandsOf(targets, on) \in [1..n -> Command]
    BY <1>4, <1>5 DEF Command
  <1> QED
    BY <1>2, <1>6

LEMMA ToldType ==
    ASSUME NEW on \in BOOLEAN
    PROVE  \A by \in {"rule", "webif", "color", "group", "switch", "nobody"} :
               /\ Told(on, by) \in NewestType
               /\ Told(on, by).on = on /\ Told(on, by).by = by
  BY DEF Told, NewestType

(* lightCommand keeps the types and tracks what it sends. *)
LEMMA SendsEffect ==
    ASSUME IInv, NEW targets \in SUBSET Targets, NEW on \in BOOLEAN, Sends(targets, on)
    PROVE  /\ commands' \in [Lights -> CommandType]
           /\ air' \in Seq(Command)
           /\ newest' \in [Lights -> NewestType]
           /\ budget' \in BudgetType
           /\ TracksNewest'
  <1>0. /\ TypeOK /\ TracksNewest /\ budget \in BudgetType /\ air \in Seq(Command)
        /\ newest \in [Lights -> NewestType] /\ commands \in [Lights -> CommandType]
    BY DEF IInv, TypeOK, BudgetType, Command, NewestType
  <1>1. PICK accepted \in SUBSET targets : LightCommand(targets, on, accepted)
    BY DEF Sends
  <1>2. budget' \in BudgetType
    BY <1>0, SpendType DEF Sends
  <1> DEFINE needed == {t \in targets : ~JustSent(t, on)}
             sent == [sent |-> TRUE, on |-> on, age |-> 0, retries |-> 0]
             byGroup(l) == \E t \in needed \cap accepted : l \in LightsOf(t)
  <1>3. sent \in CommandType /\ NoCommand \in CommandType
    BY LightAssumption DEF CommandType, NoCommand
  <1>4. commands' = [l \in Lights |-> IF l \notin needed THEN commands[l]
                                      ELSE IF l \in accepted THEN sent ELSE NoCommand]
    BY <1>1 DEF LightCommand
  <1>5. commands' \in [Lights -> CommandType]
    BY <1>0, <1>3, <1>4
  <1>6. air' \in Seq(Command)
    <2>1. air' = air \o CommandsOf(needed \cap accepted, on)
      BY <1>1 DEF LightCommand
    <2>2. CommandsOf(needed \cap accepted, on) \in Seq(Command)
      BY CommandsOfType
    <2> QED
      BY <1>0, <2>1, <2>2
  <1>7. newest' = [l \in Lights |->
             IF l \in needed \ accepted THEN Told(on, "nobody")
             ELSE IF l \in targets THEN Told(on, "rule")
             ELSE IF byGroup(l) THEN Told(on, "group")
             ELSE newest[l]]
    BY <1>1 DEF LightCommand
  <1> HIDE DEF byGroup
  <1>8. newest' \in [Lights -> NewestType]
    BY <1>0, <1>7, ToldType
  <1>9. ASSUME NEW l \in Lights, commands'[l].sent
        PROVE  newest'[l] = Told(commands'[l].on, "rule") \/ Unchecked(l)'
    <2>1. CASE l \notin targets
      <3>1. commands'[l] = commands[l]
        BY <1>4, <2>1
      <3>2. newest'[l] = newest[l] \/ newest'[l] = Told(on, "group")
        BY <1>7, <2>1
      <3>3. newest'[l] = Told(on, "group") => Unchecked(l)'
        BY ToldType DEF Unchecked
      <3> QED
        BY <1>0, <1>9, <3>1, <3>2, <3>3 DEF TracksNewest, Unchecked
    <2>2. CASE l \in targets /\ l \notin needed
      <3>1. commands'[l] = commands[l] /\ commands[l].on = on
        BY <1>4, <2>2 DEF JustSent
      <3> QED
        BY <1>7, <2>2, <3>1
    <2>3. CASE l \in needed
      <3>1. sent.on = on /\ ~NoCommand.sent
        BY DEF NoCommand
      <3> HIDE DEF sent, needed
      <3>2. commands'[l] = sent /\ l \in accepted
        BY <1>4, <1>9, <2>3, <3>1
      <3>3. l \in targets
        BY <2>3 DEF needed
      <3> QED
        BY <1>7, <3>1, <3>2, <3>3
    <2> QED
      BY <2>1, <2>2, <2>3
  <1>10. TracksNewest'
    BY <1>9 DEF TracksNewest
  <1> QED
    BY <1>2, <1>5, <1>6, <1>8, <1>10

-----------------------------------------------------------------------------
(* The types. *)

LEMMA InitIInv == Init => IInv
  <1> SUFFICES ASSUME Init PROVE IInv
    OBVIOUS
  <1> USE LightAssumption DEF Init
  <1>1. commands \in [Lights -> CommandType]
    BY DEF CommandType, NoCommand
  <1>2. timers \in [1..Len(Rules) -> TimerType] /\ \A i \in 1..Len(Rules) : timers[i].seen \subseteq timers[i].on
    BY DEF TimerType, NoTimer
  <1>3. budget \in BudgetType
    BY DEF BudgetType
  <1>4. ruleNo \in 1..(Len(Rules) + 1)
    OBVIOUS
  <1>n. newest \in [Lights -> NewestType]
    BY ToldType
  <1>a. /\ lamp \in [Lights -> BOOLEAN]
        /\ reports \in [Targets -> Seq(BOOLEAN)]
        /\ state \in [Targets -> BOOLEAN] /\ late \in [Targets -> 0..MaxDelay]
    OBVIOUS
  <1>b. /\ air \in Seq([target : Targets, on : BOOLEAN, toggle : BOOLEAN])
        /\ events \in Seq({"button", "motion", "nomotion"})
    OBVIOUS
  <1>5. TypeOK
    <2>1. mainPc \in {"idle", "events", "commands", "timers"} /\ newSecond \in BOOLEAN
      OBVIOUS
    <2> QED
      BY <1>a, <1>b, <1>n, <1>1, <1>2, <1>3, <1>4, <2>1 DEF TypeOK, BudgetType, NewestType
  <1>6. AtRule /\ TracksNewest
    BY DEF AtRule, TracksNewest, NoCommand
  <1> QED
    BY <1>5, <1>6 DEF IInv

(* The timers of the rules. *)
TimersOK ==
    /\ timers \in [1..Len(Rules) -> TimerType]
    /\ \A i \in 1..Len(Rules) : timers[i].seen \subseteq timers[i].on

LEMMA TimerSet ==
    ASSUME TimersOK, NEW i \in 1..Len(Rules), NEW new \in TimerType, new.seen \subseteq new.on,
           timers' = [timers EXCEPT ![i] = new]
    PROVE  TimersOK'
  BY DEF TimersOK

(* A step that leaves the commands alone. *)
LEMMA NotTold ==
    ASSUME TracksNewest, UNCHANGED <<commands, newest>>
    PROVE  TracksNewest'
  BY DEF TracksNewest, Unchecked

LEMMA LitType ==
    ASSUME TypeOK, NEW t \in Targets
    PROVE  Lit(t) \in BOOLEAN
  BY DEF Lit, TypeOK, Targets

(* What deCONZ, the lights and people do to the state of the lights. *)
LEMMA EnvironmentStep ==
    ASSUME IInv, Environment
    PROVE  IInv'
  <1>0. TypeOK /\ AtRule /\ TracksNewest /\ budget \in BudgetType
    BY DEF IInv, TypeOK, BudgetType
  <1>1. ASSUME NEW lost \in BOOLEAN, Arrive(lost)
        PROVE  IInv'
    <2> DEFINE cmd  == Head(air)
               hit  == IF lost THEN {} ELSE LightsOf(cmd.target)
               goal == IF cmd.toggle THEN ~Lit(cmd.target) ELSE cmd.on
    <2>1. air \in Seq(Command) /\ air # <<>>
      BY <1>0, <1>1 DEF Arrive, TypeOK, Command
    <2>2. cmd \in Command /\ air' \in Seq(Command)
      BY <1>1, <2>1, QueueOps DEF Arrive
    <2>3. cmd.target \in Targets /\ cmd.on \in BOOLEAN
      BY <2>2 DEF Command
    <2>4. goal \in BOOLEAN
      BY <1>0, <2>3, LitType
    <2>5. lamp' = [l \in Lights |-> IF l \in hit THEN goal ELSE lamp[l]]
      BY <1>1 DEF Arrive
    <2> HIDE DEF goal, hit
    <2>6. lamp' \in [Lights -> BOOLEAN]
      BY <1>0, <2>4, <2>5 DEF TypeOK
    <2>7. budget' \in BudgetType
      BY <1>0, <1>1, SpendType DEF Arrive
    <2>8. UNCHANGED <<reports, state, late, events, commands, timers, mainPc, ruleNo, newSecond, newest>>
      BY <1>1 DEF Arrive, mainVars
    <2>9. TypeOK'
      BY <1>0, <2>2, <2>6, <2>7, <2>8 DEF TypeOK, Command, BudgetType
    <2> QED
      BY <1>0, <2>8, <2>9, NotTold DEF IInv, AtRule
  <1>2. ASSUME NEW l \in Lights, SwitchByHand(l)
        PROVE  IInv'
    <2>1. lamp' \in [Lights -> BOOLEAN]
      BY <1>0, <1>2 DEF SwitchByHand, TypeOK
    <2>2. budget' \in BudgetType
      BY <1>0, <1>2, SpendType DEF SwitchByHand
    <2>3. UNCHANGED <<reports, state, late, air, events, commands, timers, mainPc, ruleNo, newSecond>>
      BY <1>2 DEF SwitchByHand, mainVars
    <2>4. Told(~lamp[l], "switch") \in NewestType /\ Told(~lamp[l], "switch").by = "switch"
      BY ToldType
    <2>5. /\ newest' = [newest EXCEPT ![l] = Told(~lamp[l], "switch")]
          /\ newest \in [Lights -> NewestType]
      BY <1>0, <1>2 DEF SwitchByHand, TypeOK, NewestType
    <2>6. TypeOK'
      <3>1. newest' \in [Lights -> NewestType]
        BY <2>4, <2>5
      <3> QED
        BY <1>0, <2>1, <2>2, <2>3, <3>1 DEF TypeOK, BudgetType, NewestType
    <2>7. TracksNewest'
      BY <1>0, <2>3, <2>4, <2>5 DEF TracksNewest, Unchecked
    <2> QED
      BY <1>0, <2>3, <2>6, <2>7 DEF IInv, AtRule
  <1>3. ASSUME NEW t \in Targets, Report(t)
        PROVE  IInv'
    <2>1. Append(reports[t], Lit(t)) \in Seq(BOOLEAN)
      BY <1>0, LitType DEF TypeOK
    <2>2. reports' \in [Targets -> Seq(BOOLEAN)]
      BY <1>0, <1>3, <2>1 DEF Report, TypeOK
    <2>3. UNCHANGED <<lamp, state, late, air, events, commands, timers, mainPc, ruleNo, newSecond, newest, budget>>
      BY <1>3 DEF Report, mainVars
    <2>4. TypeOK'
      BY <1>0, <2>2, <2>3 DEF TypeOK
    <2> QED
      BY <1>0, <2>3, <2>4, NotTold DEF IInv, AtRule
  <1> QED
    BY <1>1, <1>2, <1>3 DEF Environment

(* A second passes. *)
LEMMA TickStep ==
    ASSUME IInv, Tick
    PROVE  IInv'
  <1>0. TypeOK /\ AtRule /\ TracksNewest
    BY DEF IInv
  <1>1. late' \in [Targets -> 0..MaxDelay]
    <2>1. MaxDelay \in Nat
      BY LightAssumption
    <2>2. ASSUME NEW t \in Targets
          PROVE  (IF Outdated(t) THEN late[t] + 1 ELSE 0) \in 0..MaxDelay
      <3>1. late[t] \in 0..MaxDelay
        BY <1>0 DEF TypeOK
      <3>2. Outdated(t) => late[t] < MaxDelay
        BY DEF Tick
      <3> QED
        BY <2>1, <3>1, <3>2
    <2>3. late' = [t \in Targets |-> IF Outdated(t) THEN late[t] + 1 ELSE 0]
      BY DEF Tick
    <2> QED
      BY <2>2, <2>3
  <1>2. ASSUME NEW l \in Lights
        PROVE  /\ commands'[l] \in CommandType
               /\ commands'[l].sent = commands[l].sent /\ commands'[l].on = commands[l].on
    <2>1. commands[l] \in CommandType
      BY <1>0 DEF TypeOK
    <2>2. \/ commands'[l] = commands[l]
          \/ /\ commands[l].age < ConfirmAfter
             /\ commands'[l] = [commands[l] EXCEPT !.age = IF commands[l].sent THEN @ + 1 ELSE 0]
      BY DEF Tick
    <2>3. ConfirmAfter \in Nat
      BY LightAssumption
    <2>4. CASE commands'[l] = commands[l]
      BY <2>1, <2>4
    <2>5. ASSUME commands[l].age < ConfirmAfter,
                 commands'[l] = [commands[l] EXCEPT !.age = IF commands[l].sent THEN @ + 1 ELSE 0]
          PROVE  /\ commands'[l] \in CommandType
                 /\ commands'[l].sent = commands[l].sent /\ commands'[l].on = commands[l].on
      <3>1. (IF commands[l].sent THEN commands[l].age + 1 ELSE 0) \in 0..ConfirmAfter
        BY <2>1, <2>3, <2>5 DEF CommandType
      <3> QED
        BY <2>1, <2>5, <3>1 DEF CommandType
    <2> QED
      BY <2>2, <2>4, <2>5
  <1>3. commands' \in [Lights -> CommandType]
    BY <1>2 DEF Tick
  <1>4. ASSUME NEW i \in 1..Len(Rules)
        PROVE  /\ timers'[i] \in TimerType /\ timers'[i].seen \subseteq timers'[i].on
    <2>1. timers[i] \in TimerType /\ timers[i].seen \subseteq timers[i].on /\ i \in DOMAIN timers
      BY <1>0 DEF TypeOK
    <2>2. timers'[i] = [timers[i] EXCEPT !.left = IF @ > 0 THEN @ - 1 ELSE 0]
      BY <2>1 DEF Tick
    <2> QED
      BY <2>1, <2>2 DEF TimerType
  <1>5. timers' \in [1..Len(Rules) -> TimerType]
    <2>1. DOMAIN timers = 1..Len(Rules)
      BY <1>0 DEF TypeOK
    <2>2. timers' = [i \in 1..Len(Rules) |-> timers'[i]]
      BY <2>1 DEF Tick
    <2> QED
      BY <1>4, <2>2
  <1>6. newSecond' = TRUE /\ UNCHANGED <<lamp, reports, state, air, events, mainPc, ruleNo, newest, budget>>
    BY DEF Tick
  <1>7. TypeOK'
    BY <1>0, <1>1, <1>3, <1>4, <1>5, <1>6 DEF TypeOK
  <1>8. TracksNewest'
    BY <1>0, <1>2, <1>6 DEF TracksNewest, Unchecked
  <1> QED
    BY <1>0, <1>6, <1>7, <1>8 DEF IInv, AtRule

(* Reports and events are dispatched, and a light or group is switched in  *)
(* the web interface.                                                      *)
LEMMA DispatchStep ==
    ASSUME IInv,
           \/ \E t \in Targets : DispatchReport(t) \/ \E on \in BOOLEAN : ToggleIo(t, on)
           \/ \E l \in Lights : ToggleColor(l)
           \/ \E e \in {"button", "motion", "nomotion"} : DispatchEvent(e)
    PROVE  IInv'
  <1>0. TypeOK /\ AtRule /\ TracksNewest /\ budget \in BudgetType
    BY DEF IInv, TypeOK, BudgetType
  <1>1. ASSUME NEW t \in Targets, DispatchReport(t)
        PROVE  IInv'
    <2>1. reports[t] \in Seq(BOOLEAN) /\ reports[t] # <<>>
      BY <1>0, <1>1 DEF DispatchReport, TypeOK
    <2>2. Head(reports[t]) \in BOOLEAN /\ Tail(reports[t]) \in Seq(BOOLEAN)
      BY <2>1, QueueOps
    <2>3. state' \in [Targets -> BOOLEAN] /\ reports' \in [Targets -> Seq(BOOLEAN)]
      BY <1>0, <1>1, <2>2 DEF DispatchReport, TypeOK
    <2>4. UNCHANGED <<lamp, late, air, events, commands, timers, mainPc, ruleNo, newSecond, newest, budget>>
      BY <1>1 DEF DispatchReport, mainVars
    <2>5. TypeOK'
      BY <1>0, <2>3, <2>4 DEF TypeOK
    <2> QED
      BY <1>0, <2>4, <2>5, NotTold DEF IInv, AtRule
  <1>2. ASSUME NEW e \in {"button", "motion", "nomotion"}, DispatchEvent(e)
        PROVE  IInv'
    <2>1. budget' \in BudgetType
      BY <1>0, <1>2, SpendType DEF DispatchEvent
    <2>2. events' \in Seq({"button", "motion", "nomotion"})
      BY <1>0, <1>2, QueueOps DEF DispatchEvent, TypeOK
    <2>3. UNCHANGED <<lamp, reports, state, late, air, commands, timers, mainPc, ruleNo, newSecond, newest>>
      BY <1>2 DEF DispatchEvent
    <2>4. TypeOK'
      BY <1>0, <2>1, <2>2, <2>3 DEF TypeOK, BudgetType
    <2> QED
      BY <1>0, <2>3, <2>4, NotTold DEF IInv, AtRule
  <1>3. ASSUME NEW t \in Targets, NEW on \in BOOLEAN, ToggleIo(t, on)
        PROVE  IInv'
    <2>1. budget' \in BudgetType
      BY <1>0, <1>3, SpendType DEF ToggleIo
    <2>2. NoCommand \in CommandType /\ ~NoCommand.sent
      BY LightAssumption DEF NoCommand, CommandType
    <2>3. commands' \in [Lights -> CommandType]
      BY <1>0, <1>3, <2>2 DEF ToggleIo, TypeOK
    <2>4. [target |-> t, on |-> on, toggle |-> t \in Groups] \in Command
      <3>0. (t \in Groups) \in BOOLEAN
        OBVIOUS
      <3>1. PICK toggle \in BOOLEAN : toggle = (t \in Groups)
        BY <3>0, Zenon
      <3>2. [target |-> t, on |-> on, toggle |-> toggle] \in Command
        BY DEF Command
      <3> QED
        BY <3>1, <3>2, Zenon
    <2>5. air' \in Seq(Command)
      BY <1>0, <1>3, <2>4, QueueOps DEF TypeOK, Command, ToggleIo, SendToggle
    <2>6. /\ newest \in [Lights -> NewestType]
          /\ newest' = [l \in Lights |-> IF l = t THEN Told(on, "webif")
                                        ELSE IF l \in LightsOf(t) THEN Told(on, "group")
                                        ELSE newest[l]]
      BY <1>0, <1>3 DEF ToggleIo, SendToggle, TypeOK, NewestType
    <2>7. newest' \in [Lights -> NewestType]
      BY <2>6, ToldType
    <2>8. UNCHANGED <<lamp, reports, state, late, events, timers, mainPc, ruleNo, newSecond>>
      BY <1>3 DEF ToggleIo
    <2>9. TypeOK'
      BY <1>0, <2>1, <2>3, <2>5, <2>7, <2>8 DEF TypeOK, BudgetType, Command, NewestType
    <2>10. ASSUME NEW l \in Lights, commands'[l].sent
           PROVE  newest'[l] = Told(commands'[l].on, "rule") \/ Unchecked(l)'
      <3>1. l # t /\ commands'[l] = commands[l]
        BY <1>3, <2>2, <2>10 DEF ToggleIo
      <3>2. newest'[l] = newest[l] \/ newest'[l] = Told(on, "group")
        BY <2>6, <3>1
      <3>3. newest'[l] = Told(on, "group") => Unchecked(l)'
        BY ToldType DEF Unchecked
      <3> QED
        BY <1>0, <2>10, <3>1, <3>2, <3>3 DEF TracksNewest, Unchecked
    <2>11. TracksNewest'
      BY <2>10 DEF TracksNewest
    <2> QED
      BY <1>0, <2>8, <2>9, <2>11 DEF IInv, AtRule
  <1>4. ASSUME NEW l \in Lights, ToggleColor(l)
        PROVE  IInv'
    <2>1. budget' \in BudgetType
      BY <1>0, <1>4, SpendType DEF ToggleColor
    <2>2. [target |-> l, on |-> TRUE, toggle |-> FALSE] \in Command
      BY DEF Command, Targets
    <2>3. air' \in Seq(Command)
      BY <1>0, <1>4, <2>2, QueueOps DEF TypeOK, Command, ToggleColor
    <2>4. Told(TRUE, "color") \in NewestType /\ Told(TRUE, "color").by = "color"
      BY ToldType
    <2>5. /\ newest' = [newest EXCEPT ![l] = Told(TRUE, "color")]
          /\ newest \in [Lights -> NewestType]
      BY <1>0, <1>4 DEF ToggleColor, TypeOK, NewestType
    <2>6. UNCHANGED <<lamp, reports, state, late, events, commands, timers, mainPc, ruleNo, newSecond>>
      BY <1>4 DEF ToggleColor
    <2>7. TypeOK'
      <3>1. newest' \in [Lights -> NewestType]
        BY <2>4, <2>5
      <3> QED
        BY <1>0, <2>1, <2>3, <2>6, <3>1 DEF TypeOK, BudgetType, Command, NewestType
    <2>8. TracksNewest'
      BY <1>0, <2>4, <2>5, <2>6 DEF TracksNewest, Unchecked
    <2> QED
      BY <1>0, <2>6, <2>7, <2>8 DEF IInv, AtRule
  <1> QED
    BY <1>1, <1>2, <1>3, <1>4

(* What lightRuleApply does to the timers of the rules. *)
LEMMA ApplyRuleTimers ==
    ASSUME IInv, mainPc = "events", NEW inside \in BOOLEAN, ApplyRule(inside)
    PROVE  /\ TimersOK'
           /\ \/ SendsNothing
              \/ \E on \in BOOLEAN : Sends(Rules[ruleNo].targets, on)
  <1> DEFINE rule == Rules[ruleNo]
             on   == WantsOn(rule, Head(events))
             off  == {t \in rule.targets : ~state[t]}
             started == [active |-> TRUE, left |-> rule.offAfter,
                         on |-> timers[ruleNo].on \union off, seen |-> timers[ruleNo].seen \ off]
  <1>1. ruleNo \in 1..Len(Rules) /\ TimersOK
    BY DEF IInv, AtRule, TypeOK, TimersOK
  <1>2. rule.targets \subseteq Targets /\ rule.offAfter \in Nat
    BY <1>1, RuleFields
  <1>3. on \in BOOLEAN
    BY DEF WantsOn
  <1>4. NoTimer \in TimerType /\ NoTimer.seen \subseteq NoTimer.on
    BY DEF NoTimer, TimerType
  <1>5. started \in TimerType /\ started.seen \subseteq started.on
    BY <1>1, <1>2 DEF TimersOK, TimerType
  <1>6. \/ SendsNothing /\ UNCHANGED timers
        \/ /\ Sends(rule.targets, on)
           /\ \/ timers' = [timers EXCEPT ![ruleNo] = started]
              \/ timers' = [timers EXCEPT ![ruleNo] = NoTimer]
              \/ timers' = timers
    BY DEF ApplyRule
  <1>7. SendsNothing \/ \E b \in BOOLEAN : Sends(rule.targets, b)
    BY <1>3, <1>6, Zenon
  <1>8. \/ timers' = [timers EXCEPT ![ruleNo] = started]
        \/ timers' = [timers EXCEPT ![ruleNo] = NoTimer]
        \/ timers' = timers
    BY <1>6
  <1> HIDE DEF started
  <1>9. TimersOK'
    <2>1. timers' = timers => TimersOK'
      BY <1>1 DEF TimersOK
    <2> QED
      BY <1>1, <1>4, <1>5, <1>8, <2>1, TimerSet
  <1> QED
    BY <1>7, <1>9

(* One step of performLightRules. *)
LEMMA PerformStep ==
    ASSUME IInv, Perform
    PROVE  IInv'
  <1>0. TypeOK /\ AtRule /\ TracksNewest /\ budget \in BudgetType /\ TimersOK
        /\ air \in Seq(Command) /\ Len(Rules) \in Nat \ {0}
    <2>1. Len(Rules) \in Nat \ {0}
      BY LightAssumption
    <2> QED
      BY <2>1 DEF IInv, TypeOK, BudgetType, TimersOK, Command
  <1>1. CASE PerformBegin
    <2>1. ruleNo' = 1 /\ mainPc' = "events"
          /\ UNCHANGED <<lamp, reports, state, late, air, events, commands, timers, newSecond, newest, budget>>
      BY <1>1 DEF PerformBegin
    <2>2. TypeOK'
      BY <1>0, <2>1 DEF TypeOK
    <2> QED
      BY <1>0, <2>1, <2>2, NotTold DEF IInv, AtRule
  <1>2. CASE HandleEvent
    <2>1. mainPc = "events" /\ events # <<>>
          /\ UNCHANGED <<lamp, reports, state, late, mainPc, newSecond>>
      BY <1>2 DEF HandleEvent
    <2>2. PICK inside \in BOOLEAN : ApplyRule(inside)
      BY <1>2 DEF HandleEvent
    <2>3. ruleNo' \in 1..Len(Rules) /\ events' \in Seq({"button", "motion", "nomotion"})
      <3>1. events \in Seq({"button", "motion", "nomotion"}) /\ ruleNo \in 1..(Len(Rules) + 1)
        BY <1>0 DEF TypeOK
      <3>2. Tail(events) \in Seq({"button", "motion", "nomotion"})
        BY <2>1, <3>1, QueueOps
      <3>3. events' = events \/ events' = Tail(events)
        BY <1>2 DEF HandleEvent
      <3>4. ruleNo' = 1 \/ (ruleNo < Len(Rules) /\ ruleNo' = ruleNo + 1)
        BY <1>2 DEF HandleEvent
      <3>5. Len(Rules) \in Nat \ {0}
        BY <1>0
      <3>6. ruleNo' \in 1..Len(Rules)
        BY <3>1, <3>4, <3>5
      <3> QED
        BY <3>1, <3>2, <3>3, <3>6
    <2>4. TimersOK' /\ (SendsNothing \/ \E on \in BOOLEAN : Sends(Rules[ruleNo].targets, on))
      BY <2>1, <2>2, ApplyRuleTimers
    <2>5. ruleNo \in 1..Len(Rules)
      BY <1>0, <2>1 DEF AtRule, TypeOK
    <2>6. /\ commands' \in [Lights -> CommandType] /\ air' \in Seq(Command)
          /\ newest' \in [Lights -> NewestType] /\ budget' \in BudgetType /\ TracksNewest'
      <3>1. CASE SendsNothing
        BY <1>0, <3>1, NotTold DEF SendsNothing, TypeOK, NewestType
      <3>2. CASE \E on \in BOOLEAN : Sends(Rules[ruleNo].targets, on)
        BY <2>5, <3>2, SendsEffect, RuleFields
      <3> QED
        BY <2>4, <3>1, <3>2
    <2>7. TypeOK'
      <3>1. ruleNo' \in 1..(Len(Rules) + 1)
        BY <1>0, <2>3
      <3>2. /\ lamp' = lamp /\ reports' = reports /\ state' = state /\ late' = late
            /\ mainPc' = mainPc /\ newSecond' = newSecond
        BY <2>1
      <3> QED
        BY <1>0, <2>3, <2>4, <2>6, <3>1, <3>2 DEF TypeOK, TimersOK, BudgetType, Command, NewestType
    <2>8. AtRule'
      BY <2>3 DEF AtRule
    <2> QED
      BY <2>6, <2>7, <2>8 DEF IInv
  <1>3. CASE EventsDone
    <2>1. /\ mainPc' \in {"idle", "commands"} /\ newSecond' = FALSE
          /\ UNCHANGED <<lamp, reports, state, late, air, events, commands, timers, ruleNo, newest, budget>>
      BY <1>3 DEF EventsDone
    <2>2. TypeOK'
      BY <1>0, <2>1 DEF TypeOK
    <2> QED
      BY <1>0, <2>1, <2>2, NotTold DEF IInv, AtRule
  <1>4. CASE CheckCommandsStep
    <2> DEFINE repeated == {l \in Lights : Repeat(l)}
    <2>1. PICK accepted \in SUBSET repeated :
              /\ CheckCommands(accepted)
              /\ newest' = [l \in Lights |-> IF l \in repeated \ accepted
                               THEN [newest[l] EXCEPT !.by = "nobody"] ELSE newest[l]]
      BY <1>4 DEF CheckCommandsStep
    <2>2. budget' \in BudgetType
      BY <1>0, <1>4, SpendType DEF CheckCommandsStep
    <2>3. mainPc' = "timers" /\ ruleNo' = 1
          /\ UNCHANGED <<lamp, reports, state, late, events, timers, newSecond>>
      BY <1>4 DEF CheckCommandsStep
    <2>4. ASSUME NEW l \in Lights
          PROVE  /\ commands'[l] \in CommandType
                 /\ commands'[l].sent => /\ commands[l].sent /\ commands'[l].on = commands[l].on
                                       /\ l \notin repeated \ accepted
      <3>1. commands[l] \in CommandType /\ NoCommand \in CommandType /\ ~NoCommand.sent
        BY <1>0, LightAssumption DEF TypeOK, NoCommand, CommandType
      <3>2. \/ /\ Repeat(l) /\ l \in accepted
               /\ commands'[l] = [commands[l] EXCEPT !.retries = @ + 1, !.age = 0]
            \/ commands'[l] = NoCommand
            \/ commands'[l] = commands[l] /\ ~Repeat(l)
        BY <2>1 DEF CheckCommands, Repeat
      <3>3. Repeat(l) => commands[l].retries < MaxRetries
        BY DEF Repeat
      <3>4. CASE Repeat(l) /\ l \in accepted /\ commands'[l] = [commands[l] EXCEPT !.retries = @ + 1, !.age = 0]
        <4>1. PICK c \in CommandType : c = commands[l]
          BY <3>1
        <4>2. commands'[l] = [c EXCEPT !.retries = c.retries + 1, !.age = 0] /\ c.retries < MaxRetries
          BY <3>3, <3>4, <4>1
        <4>3. c.retries + 1 \in 0..MaxRetries /\ 0 \in 0..ConfirmAfter
          BY <4>2, LightAssumption DEF CommandType
        <4>4. commands'[l] = [sent |-> c.sent, on |-> c.on, age |-> 0, retries |-> c.retries + 1]
          BY <4>2 DEF CommandType
        <4>5. commands'[l] \in CommandType
          BY <4>3, <4>4 DEF CommandType
        <4>6. commands'[l].sent = c.sent /\ commands'[l].on = c.on
          BY <4>4 DEF CommandType
        <4> QED
          BY <3>4, <4>1, <4>5, <4>6 DEF Repeat, Due
      <3>5. CASE commands'[l] = NoCommand
        BY <3>1, <3>5
      <3>6. CASE commands'[l] = commands[l] /\ ~Repeat(l)
        BY <3>1, <3>6
      <3> QED
        BY <3>2, <3>4, <3>5, <3>6
    <2>5. commands' \in [Lights -> CommandType]
      <3>1. commands' = [l \in Lights |-> commands'[l]]
        BY <2>1 DEF CheckCommands
      <3> QED
        BY <2>4, <3>1
    <2>6. air' \in Seq(Command)
      <3> DEFINE on  == {l \in accepted : Repeat(l) /\ commands[l].on}
                 off == {l \in accepted : Repeat(l) /\ ~commands[l].on}
      <3>1. on \in SUBSET Targets /\ off \in SUBSET Targets
        BY DEF Targets
      <3>2. CommandsOf(on, TRUE) \in Seq(Command) /\ CommandsOf(off, FALSE) \in Seq(Command)
        BY <3>1, CommandsOfType
      <3>3. air' = air \o CommandsOf(on, TRUE) \o CommandsOf(off, FALSE)
        BY <2>1 DEF CheckCommands
      <3> HIDE DEF on, off
      <3>4. \A q, m \in Seq(Command) : q \o m \in Seq(Command)
        OBVIOUS
      <3> QED
        BY <1>0, <3>2, <3>3, <3>4, Zenon
    <2>7. TypeOK'
      <3>1. newest \in [Lights -> NewestType]
        BY <1>0 DEF TypeOK, NewestType
      <3>2. ASSUME NEW l \in Lights PROVE [newest[l] EXCEPT !.by = "nobody"] \in NewestType
        BY <3>1 DEF NewestType
      <3>3. newest' \in [Lights -> NewestType]
        BY <2>1, <3>1, <3>2
      <3> QED
        BY <1>0, <2>2, <2>3, <2>5, <2>6, <3>3 DEF TypeOK, BudgetType, Command, NewestType
    <2>8. TracksNewest'
      <3>1. ASSUME NEW l \in Lights, commands'[l].sent
            PROVE  newest'[l] = newest[l]
        BY <2>1, <2>4, <3>1
      <3> HIDE DEF repeated
      <3> QED
        BY <1>0, <2>4, <3>1 DEF TracksNewest, Unchecked
    <2> QED
      BY <2>3, <2>7, <2>8 DEF IInv, AtRule
  <1>5. CASE CheckTimer
    <2> DEFINE timer == timers[ruleNo]
               kept  == Kept(timer)
               left  == [timer EXCEPT !.on = kept, !.seen = Seen(timer)]
    <2>1. mainPc = "timers" /\ ruleNo \in 1..Len(Rules) /\ ruleNo' = ruleNo + 1
          /\ UNCHANGED <<lamp, reports, state, late, events, mainPc, newSecond>>
      BY <1>0, <1>5 DEF CheckTimer, TypeOK
    <2>2. timer \in TimerType
      BY <1>0, <2>1 DEF TimersOK
    <2>3. kept \subseteq Targets /\ Seen(timer) \subseteq kept
      BY <2>2 DEF Kept, Seen, TimerType
    <2>4. left \in TimerType /\ left.seen \subseteq left.on
      BY <2>2, <2>3 DEF TimerType
    <2>5. NoTimer \in TimerType /\ NoTimer.seen \subseteq NoTimer.on
      BY DEF NoTimer, TimerType
    <2>6. /\ SendsNothing \/ Sends(kept, FALSE)
          /\ timers' = [timers EXCEPT ![ruleNo] = left] \/ timers' = [timers EXCEPT ![ruleNo] = NoTimer]
      BY <1>5 DEF CheckTimer
    <2> HIDE DEF left, kept
    <2>7. TimersOK'
      BY <1>0, <2>1, <2>4, <2>5, <2>6, TimerSet
    <2>8. /\ commands' \in [Lights -> CommandType] /\ air' \in Seq(Command)
          /\ newest' \in [Lights -> NewestType] /\ budget' \in BudgetType /\ TracksNewest'
      <3>1. CASE SendsNothing
        BY <1>0, <3>1, NotTold DEF SendsNothing, TypeOK, NewestType
      <3>2. CASE Sends(kept, FALSE)
        BY <2>3, <3>2, SendsEffect
      <3> QED
        BY <2>6, <3>1, <3>2
    <2>9. TypeOK'
      BY <1>0, <2>1, <2>7, <2>8 DEF TypeOK, TimersOK, BudgetType, Command, NewestType
    <2> QED
      BY <2>1, <2>8, <2>9 DEF IInv, AtRule
  <1>6. CASE TimersDone
    <2>1. ruleNo' = 1 /\ mainPc' = "idle"
          /\ UNCHANGED <<lamp, reports, state, late, air, events, commands, timers, newSecond, newest, budget>>
      BY <1>6 DEF TimersDone
    <2>2. TypeOK'
      BY <1>0, <2>1 DEF TypeOK
    <2> QED
      BY <1>0, <2>1, <2>2, NotTold DEF IInv, AtRule
  <1> QED
    BY <1>1, <1>2, <1>3, <1>4, <1>5, <1>6 DEF Perform

LEMMA Invariance == Spec => []IInv
  <1>1. Init => IInv
    BY InitIInv
  <1>2. IInv /\ UNCHANGED vars => IInv'
    BY DEF IInv, TypeOK, AtRule, TracksNewest, Unchecked, vars, mainVars
  <1>3. IInv /\ [Next]_vars => IInv'
    BY <1>2, EnvironmentStep, TickStep, DispatchStep, PerformStep DEF Next
  <1> QED
    BY <1>1, <1>3, PTL DEF Spec

-----------------------------------------------------------------------------
(* The theorems. *)

(* All variables keep their types; in particular no command is repeated    *)
(* more than MaxRetries times and no timer has a target marked as seen     *)
(* that it does not switch.                                                *)
THEOREM TypeCorrect == Spec => []TypeOK
  <1>1. IInv => TypeOK
    BY DEF IInv
  <1> QED
    BY <1>1, Invariance, PTL

(* What lightCheckCommands repeats is the newest command of a rule to the  *)
(* light, for any rules of the sensor and any groups, whatever is lost or  *)
(* refused; or the light was switched since then in a way the check does   *)
(* not see: by a switch, by the color picker, or with its group.           *)
THEOREM RepeatsNewest == Spec => RepeatsNewestCommand
  <1>1. IInv /\ [Next]_vars =>
            [\A l \in Lights : Repeated(l) => \/ newest[l] = Told(commands[l].on, "rule")
                                            \/ Unchecked(l)]_vars
    BY DEF IInv, TracksNewest, Repeated
  <1> QED
    BY <1>1, Invariance, PTL DEF Spec, RepeatsNewestCommand
=============================================================================
