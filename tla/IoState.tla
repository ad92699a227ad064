------------------------------ MODULE IoState ------------------------------
(***************************************************************************)
(* The inputs and outputs at the GPIO pins (daemon.c): reading the inputs, *)
(* switching the outputs by hand and by their time ranges, and keeping the *)
(* state and mode of the outputs in the table iostates over a restart.     *)
(*                                                                         *)
(* The main thread does all of it; a thread per input pin (gpio.c) queues  *)
(* the pins that changed without a lock.  The daemon may be stopped, or    *)
(* die, at every step.  What is at a pin is what the sensor's setting      *)
(* `invert' makes of it.  LUA scripts and the publishing of the states are *)
(* not modelled.                                                           *)
(***************************************************************************)
EXTENDS Naturals, Sequences, SequencesExt

CONSTANTS
    Pins,          \* the usable pins in the order of initGpioLine
    Outputs,       \* pins with fct `out'
    Inputs,        \* pins with fct `in'
    Impulse,       \* outputs that are only triggered
    Inverted,      \* impulse outputs that rest at true
    UserMode,      \* outputs whose outputModes have ooUser
    AutoMode,      \* ... ooAuto
    Timed,         \* outputs with time ranges
    OutputOrder,   \* the outputs in the order process() goes through valuefacts
    NoPin,         \* not a pin
    MaxSwitches,   \* bound: switches and mode changes by people and Node-RED
    MaxStops,      \* bound: times the daemon stops
    MaxEdges,      \* bound: changes at the inputs
    MaxRanges      \* bound: times a range begins or ends

ASSUME PinsAssumption ==
    /\ ToSet(Pins) = Outputs \union Inputs /\ Outputs \intersect Inputs = {}
    /\ Impulse \subseteq Outputs /\ Inverted \subseteq Impulse
    /\ UserMode \subseteq Outputs /\ AutoMode \subseteq Outputs /\ Timed \subseteq Outputs
    /\ Pins \in Seq(Outputs \union Inputs)
    /\ OutputOrder \in Seq(Outputs) /\ ToSet(OutputOrder) = Outputs
    /\ NoPin \notin ToSet(Pins)
    /\ MaxSwitches \in Nat /\ MaxStops \in Nat /\ MaxEdges \in Nat /\ MaxRanges \in Nat

VARIABLES
    pc,            \* where the main thread is
    line,          \* the pin next in initGpioLine and updateInputs
    todo,          \* outputs process() has still to look at
    back,          \* where process() returns to
    saving,        \* the output whose new state is not in the table yet
    state,         \* SensorData::state
    mode,          \* SensorData::mode
    dated,         \* sensors with a changedAt, that is set once since the start
    unstored,      \* outputs with SensorData::_unstored
    iostates,      \* the rows of the table iostates
    level,         \* what is at the input pins
    edges,         \* inputs whose thread has not noticed a change yet
    triggerGpioPins,
    inRange,       \* what the time ranges say now: in, out or (other days) none
    last,          \* what each output was told last, whoever was entitled to
    budget         \* counters of the bounds

ioVars == <<state, mode, dated, unstored, saving>>
worldVars == <<level, edges, triggerGpioPins, inRange>>
vars == <<pc, line, todo, back, ioVars, iostates, worldVars, last, budget>>

PinSet == Outputs \union Inputs
Restorable == UserMode \ Impulse        \* those loadIoStates restores
NoRow == [stored |-> FALSE, state |-> FALSE, mode |-> "auto"]
Spend(kind) == budget' = [budget EXCEPT ![kind] = @ + 1]

-----------------------------------------------------------------------------
(* gpioWrite up to storeIoState, which is a step of its own. *)
GpioWrite(o, on, save) ==
    /\ state' = [state EXCEPT ![o] = on \/ o \in Impulse]
    /\ dated' = dated \union {o}
    /\ unstored' = unstored \union {o}
    /\ saving' = IF save THEN o ELSE NoPin
    /\ UNCHANGED mode

(* Mutant: the mode is not stored. *)
StoreIoStateOnly ==
    /\ saving # NoPin
    /\ iostates' = [iostates EXCEPT ![saving] =
                      [stored |-> TRUE, state |-> state[saving], mode |-> @.mode]]
    /\ saving' = NoPin
    /\ UNCHANGED <<pc, line, todo, back, state, mode, dated, unstored, worldVars, last, budget>>

StoreIoState ==
    /\ saving # NoPin
    /\ iostates' = [iostates EXCEPT ![saving] =
                      [stored |-> TRUE, state |-> state[saving], mode |-> mode[saving]]]
    /\ saving' = NoPin
    /\ UNCHANGED <<pc, line, todo, back, state, mode, dated, unstored, worldVars, last, budget>>

ProcessThen(next) ==
    /\ pc' = "process" /\ back' = next
    /\ todo' = OutputOrder

(* gpioRead.  The first value always counts as a change. *)
GpioRead(p, check, next) ==
    LET quiet   == check /\ state[p] = level[p]
        changed == ~quiet /\ (state[p] # level[p] \/ p \notin dated)
    IN /\ state' = [state EXCEPT ![p] = level[p]]
       /\ dated' = IF quiet THEN dated ELSE dated \union {p}
       /\ IF changed THEN ProcessThen(next) ELSE pc' = next /\ UNCHANGED <<todo, back>>
       /\ UNCHANGED <<mode, unstored, saving, iostates>>

-----------------------------------------------------------------------------
(* The start: initSensorByFact, initGpioLine for each pin, the MQTT        *)
(* messages waiting for the daemon, loadIoStates.                          *)

Start ==
    /\ pc = "down"
    /\ pc' = "init" /\ line' = 1
    /\ state' = [p \in PinSet |-> p \in Inverted]
    /\ mode' = [o \in Outputs |-> "auto"]
    /\ dated' = {} /\ unstored' = {} /\ saving' = NoPin
    /\ edges' = {} /\ triggerGpioPins' = <<>>
    /\ UNCHANGED <<todo, back, iostates, level, inRange, last, budget>>

(* Mutant: the output is stored when it is reset. *)
InitGpioLineStores ==
    /\ pc = "init" /\ saving = NoPin /\ line <= Len(Pins)
    /\ line' = line + 1
    /\ LET p == Pins[line]
       IN IF p \in Inputs THEN GpioRead(p, FALSE, "init")
          ELSE /\ GpioWrite(p, FALSE, TRUE)
               /\ UNCHANGED <<pc, todo, back, iostates>>
    /\ UNCHANGED <<worldVars, last, budget>>

InitGpioLine ==
    /\ pc = "init" /\ saving = NoPin /\ line <= Len(Pins)
    /\ line' = line + 1
    /\ LET p == Pins[line]
       IN IF p \in Inputs THEN GpioRead(p, FALSE, "init")
          ELSE /\ IF p \in Impulse THEN UNCHANGED ioVars ELSE GpioWrite(p, FALSE, FALSE)
               /\ UNCHANGED <<pc, todo, back, iostates>>
    /\ UNCHANGED <<worldVars, last, budget>>

GpioDone ==
    /\ pc = "init" /\ saving = NoPin /\ line > Len(Pins)
    /\ pc' = "mqtt"
    /\ UNCHANGED <<line, todo, back, ioVars, iostates, worldVars, last, budget>>

MqttDone ==
    /\ pc = "mqtt" /\ saving = NoPin
    /\ pc' = "load"
    /\ UNCHANGED <<line, todo, back, ioVars, iostates, worldVars, last, budget>>

Restored == {o \in Restorable : iostates[o].stored}

LoadIoStates ==
    /\ pc = "load"
    /\ pc' = "idle"
    /\ state' = [p \in PinSet |-> IF p \in Restored THEN iostates[p].state ELSE state[p]]
    /\ mode' = [o \in Outputs |->
                  IF o \in Restored \intersect AutoMode THEN iostates[o].mode ELSE mode[o]]
    /\ dated' = dated \union Restored
    /\ unstored' = unstored \union Restored
    /\ UNCHANGED <<line, todo, back, saving, iostates, worldVars, last, budget>>

-----------------------------------------------------------------------------
(* Requests: toggleIo of the web interface, of Node-RED (also while the    *)
(* daemon starts), and toggleOutputMode.                                   *)

ToggleIo(o, on) ==
    /\ pc \in {"idle", "mqtt"} /\ saving = NoPin
    /\ budget.switches < MaxSwitches /\ Spend("switches")
    /\ GpioWrite(o, on, TRUE)
    /\ last' = [last EXCEPT ![o].state = on]
    /\ UNCHANGED <<pc, line, todo, back, iostates, worldVars>>

(* Who changes the mode has the state before his eyes: it counts as told.  *)
ToggleOutputMode(o) ==
    /\ pc = "idle" /\ saving = NoPin
    /\ o \in UserMode \intersect AutoMode
    /\ budget.switches < MaxSwitches /\ Spend("switches")
    /\ LET new == IF mode[o] = "auto" THEN "manual" ELSE "auto"
       IN /\ mode' = [mode EXCEPT ![o] = new]
          /\ last' = [last EXCEPT ![o] = [state |-> state[o], mode |-> new]]
    /\ saving' = o
    /\ UNCHANGED <<pc, line, todo, back, state, dated, unstored, iostates, worldVars>>

-----------------------------------------------------------------------------
(* process(): the time ranges of the outputs, one output after the other.  *)
(* The mutant never switches off.  An output that was told manual was not  *)
(* to be switched here, whatever its mode is now: `last' keeps that.       *)
DueOnly(o) ==
    /\ mode[o] = "auto" /\ o \in Timed /\ inRange = "in" /\ ~state[o]

Due(o) ==
    /\ mode[o] = "auto" /\ o \in Timed /\ inRange # "none"
    /\ state[o] # (inRange = "in")

ProcessOutput ==
    /\ pc = "process" /\ saving = NoPin /\ todo # <<>>
    /\ LET o == Head(todo)
       IN IF Due(o)
          THEN /\ GpioWrite(o, inRange = "in", TRUE)
               /\ last' = IF last[o].mode = "auto"
                          THEN [last EXCEPT ![o].state = (inRange = "in")] ELSE last
          ELSE /\ unstored' = IF mode[o] = "auto" THEN unstored \union {o} ELSE unstored
               /\ UNCHANGED <<state, mode, dated, saving, last>>
    /\ todo' = Tail(todo)
    /\ UNCHANGED <<pc, line, back, iostates, worldVars, budget>>

ProcessDone ==
    /\ pc = "process" /\ saving = NoPin /\ todo = <<>>
    /\ pc' = back
    /\ UNCHANGED <<line, todo, back, ioVars, iostates, worldVars, last, budget>>

(* meanwhile(): the pins queued by the threads, and process() when it was  *)
(* triggered by a sensor.                                                  *)
MeanwhileTrigger ==
    /\ pc \in {"idle", "triggers"} /\ saving = NoPin /\ triggerGpioPins # <<>>
    /\ GpioRead(Head(triggerGpioPins), FALSE, "pop")
    /\ UNCHANGED <<line, worldVars, last, budget>>

PopTrigger ==
    /\ pc = "pop"
    /\ triggerGpioPins' = Tail(triggerGpioPins)
    /\ pc' = IF Len(triggerGpioPins) = 1 THEN "idle" ELSE "triggers"
    /\ UNCHANGED <<line, todo, back, ioVars, iostates, level, edges, inRange, last, budget>>

MeanwhileProcess ==
    /\ pc = "idle" /\ saving = NoPin
    /\ ProcessThen("idle")
    /\ UNCHANGED <<line, ioVars, iostates, worldVars, last, budget>>

(* loop(), once in an interval: process, storeSamples, updateInputs. *)
LoopProcess ==
    /\ pc = "idle" /\ saving = NoPin
    /\ ProcessThen("samples")
    /\ UNCHANGED <<line, ioVars, iostates, worldVars, last, budget>>

StoreSamples ==
    /\ pc = "samples"
    /\ iostates' = [o \in Outputs |->
            IF o \in unstored
            THEN [stored |-> TRUE, state |-> state[o], mode |-> mode[o]] ELSE iostates[o]]
    /\ unstored' = {}
    /\ pc' = "inputs" /\ line' = 1
    /\ UNCHANGED <<todo, back, state, mode, dated, saving, worldVars, last, budget>>

(* Mutant: the inputs are left to their threads. *)
UpdateInputsNot ==
    /\ pc = "inputs" /\ line <= Len(Pins)
    /\ line' = line + 1
    /\ UNCHANGED <<pc, todo, back, ioVars, iostates, worldVars, last, budget>>

UpdateInputs ==
    /\ pc = "inputs" /\ line <= Len(Pins)
    /\ line' = line + 1
    /\ IF Pins[line] \in Inputs THEN GpioRead(Pins[line], TRUE, "inputs")
       ELSE UNCHANGED <<pc, todo, back, ioVars, iostates>>
    /\ UNCHANGED <<worldVars, last, budget>>

InputsDone ==
    /\ pc = "inputs" /\ line > Len(Pins)
    /\ pc' = "idle"
    /\ UNCHANGED <<line, todo, back, ioVars, iostates, worldVars, last, budget>>

-----------------------------------------------------------------------------
(* The end: exit() resets the outputs, a crash does nothing any more.  The *)
(* rest of the memory is not read again.                                   *)

Exit ==
    /\ pc = "idle" /\ saving = NoPin
    /\ budget.stops < MaxStops /\ Spend("stops")
    /\ state' = [p \in PinSet |-> p \in Inputs \union Impulse /\ state[p]]
    /\ pc' = "down"
    /\ UNCHANGED <<line, todo, back, mode, dated, unstored, saving, iostates, worldVars, last>>

(* What was not in the table yet may be forgotten. *)
Crash ==
    /\ pc # "down"
    /\ budget.stops < MaxStops /\ Spend("stops")
    /\ pc' = "down" /\ saving' = NoPin
    /\ last' = IF saving = NoPin THEN last
               ELSE [last EXCEPT ![saving] = [state |-> iostates[saving].state,
                                              mode |-> iostates[saving].mode]]
    /\ UNCHANGED <<line, todo, back, state, mode, dated, unstored, iostates, worldVars>>

(* Time, and the world at the inputs. *)
RangeChanges ==
    /\ budget.ranges < MaxRanges /\ Spend("ranges")
    /\ inRange' \in {"in", "out", "none"} \ {inRange}
    /\ UNCHANGED <<pc, line, todo, back, ioVars, iostates, level, edges, triggerGpioPins, last>>

LevelChanges(p) ==
    /\ budget.edges < MaxEdges /\ Spend("edges")
    /\ level' = [level EXCEPT ![p] = ~@]
    /\ edges' = IF pc = "down" THEN edges ELSE edges \union {p}
    /\ UNCHANGED <<pc, line, todo, back, ioVars, iostates, triggerGpioPins, inRange, last>>

(* Mutant: the value is queued, not the pin. *)
OnGpioChangeValue(p) ==
    /\ pc # "down" /\ p \in edges
    /\ edges' = edges \ {p}
    /\ triggerGpioPins' = Append(triggerGpioPins, level[p])
    /\ UNCHANGED <<pc, line, todo, back, ioVars, iostates, level, inRange, last, budget>>

(* onGpioChange in the thread of the pin, once for several changes at a    *)
(* time.  std::queue is not meant for two threads: a pin pushed while main *)
(* works on the queue may get lost.                                        *)
OnGpioChange(p) ==
    /\ pc # "down" /\ p \in edges
    /\ edges' = edges \ {p}
    /\ \/ triggerGpioPins' = Append(triggerGpioPins, p)
       \/ pc \in {"triggers", "pop"} /\ UNCHANGED triggerGpioPins
    /\ UNCHANGED <<pc, line, todo, back, ioVars, iostates, level, inRange, last, budget>>

-----------------------------------------------------------------------------
Init ==
    /\ pc = "down" /\ line = 1 /\ todo = <<>> /\ back = "idle" /\ saving = NoPin
    /\ state = [p \in PinSet |-> FALSE]
    /\ mode = [o \in Outputs |-> "auto"]
    /\ dated = {} /\ unstored = {}
    /\ iostates = [o \in Outputs |-> NoRow]
    /\ level \in [Inputs -> BOOLEAN] /\ edges = {} /\ triggerGpioPins = <<>>
    /\ inRange \in {"in", "out", "none"}
    /\ last = [o \in Outputs |-> [state |-> FALSE, mode |-> "auto"]]
    /\ budget = [switches |-> 0, stops |-> 0, edges |-> 0, ranges |-> 0]

Starting == Start \/ InitGpioLine \/ GpioDone \/ MqttDone \/ LoadIoStates

Running ==
    StoreIoState \/ ProcessOutput \/ ProcessDone \/ MeanwhileTrigger \/ PopTrigger
    \/ MeanwhileProcess \/ LoopProcess \/ StoreSamples \/ UpdateInputs \/ InputsDone

Requests ==
    \E o \in Outputs : ToggleOutputMode(o) \/ \E on \in BOOLEAN : ToggleIo(o, on)

Next ==
    \/ Starting \/ Running \/ Requests \/ Exit \/ Crash \/ RangeChanges
    \/ \E p \in Inputs : LevelChanges(p) \/ OnGpioChange(p)

(* The daemon is started again by systemd and its main thread runs; once   *)
(* in an interval standbyUntil ends, whatever meanwhile does until then.   *)
Fairness ==
    /\ WF_vars(Starting \/ Running) /\ SF_vars(LoopProcess)
    /\ \A p \in Inputs : WF_vars(OnGpioChange(p))

Spec == Init /\ [][Next]_vars /\ Fairness

-----------------------------------------------------------------------------
Pcs == {"down", "init", "mqtt", "load", "idle", "process", "triggers", "pop",
        "samples", "inputs"}
OutputState == [state : BOOLEAN, mode : {"auto", "manual"}]

(* The types of the variables. *)
TypeOK ==
    /\ pc \in Pcs /\ back \in Pcs
    /\ line \in 1..(Len(Pins) + 1)
    /\ todo \in Seq(Outputs)
    /\ saving \in Outputs \union {NoPin}
    /\ state \in [PinSet -> BOOLEAN]
    /\ mode \in [Outputs -> {"auto", "manual"}]
    /\ dated \subseteq PinSet /\ unstored \subseteq Outputs
    /\ iostates \in [Outputs -> [stored : BOOLEAN, state : BOOLEAN, mode : {"auto", "manual"}]]
    /\ level \in [Inputs -> BOOLEAN] /\ edges \subseteq Inputs
    /\ triggerGpioPins \in Seq(Inputs)
    /\ inRange \in {"in", "out", "none"}
    /\ last \in [Outputs -> OutputState]
    /\ budget \in [switches : 0..MaxSwitches, stops : 0..MaxStops,
                   edges : 0..MaxEdges, ranges : 0..MaxRanges]

(* What a start would make of the table now. *)
Recovered(o) ==
    [state |-> iostates[o].state, mode |-> IF o \in AutoMode THEN iostates[o].mode ELSE "auto"]

(* Whenever the running daemon dies, the table holds the state and mode of *)
(* each output that loadIoStates restores, but for one write under way.    *)
PersistedWhileRunning ==
    pc \in {"idle", "triggers", "pop", "samples", "inputs", "process"} /\ saving = NoPin
    /\ (pc = "process" => back # "init")
    => \A o \in Restorable : Recovered(o) = [state |-> state[o], mode |-> mode[o]]

(* No start, complete or broken off and begun again, switches an output    *)
(* that is not both timed and in manual mode: it comes back as it was told *)
(* last, before the stop or while the daemon started.                      *)
StartKeepsState ==
    [][pc = "load" /\ pc' = "idle" =>
        \A o \in Restorable :
            last[o].mode = "auto" \/ o \notin Timed => state'[o] = last[o].state]_vars

(* `Load states of outputs on last exit': state and mode of all of them.   *)
StartKeepsOutputs ==
    [][pc = "load" /\ pc' = "idle" =>
        \A o \in Restorable : state'[o] = last[o].state /\ mode'[o] = last[o].mode]_vars

(* The sensor of an input ends up with what is at the pin, although pins   *)
(* pushed by its thread may get lost: updateInputs finds out.              *)
InputSeen ==
    (<>[](pc # "down")) =>
        \A p \in Inputs : <>[](state[p] = level[p])

(* An output in automatic mode follows its time ranges again and again,    *)
(* also when it is switched against them or the daemon is restarted.       *)
TimesKept ==
    (<>[](pc # "down")) =>
        \A o \in Timed \ Impulse : \A r \in {"in", "out"} :
            <>[](inRange = r /\ mode[o] = "auto") => <>[](state[o] = (r = "in"))
=============================================================================
