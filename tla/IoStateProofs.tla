--------------------------- MODULE IoStateProofs ---------------------------
(***************************************************************************)
(* Proofs about IoState: whenever the running daemon dies, the table       *)
(* iostates holds what the outputs should come back to, and a start brings *)
(* it back.                                                                *)
(***************************************************************************)
EXTENDS IoState, TLAPS

-----------------------------------------------------------------------------
(* The inductive invariant.                                                *)

(* The daemon starts and has not read the table yet. *)
Beginning == pc \in {"init", "mqtt", "load"} \/ (pc = "process" /\ back = "init")

(* The daemon has read the table. *)
Loaded ==
    \/ pc \in {"idle", "triggers", "pop", "samples", "inputs"}
    \/ pc = "process" /\ back # "init"

(* A write is under way only where requests and process() leave it, and a  *)
(* pin stays in its queue until it is read.                                *)
Places ==
    /\ saving # NoPin => pc \in {"idle", "mqtt", "process"}
    /\ pc = "process" => back \in {"init", "idle", "pop", "samples", "inputs"}
    /\ pc = "pop" \/ (pc = "process" /\ back = "pop") => triggerGpioPins # <<>>

(* An output without ooAuto stays in the default mode. *)
DefaultMode == \A o \in Outputs \ AutoMode : mode[o] = "auto"

(* What is not stored has the defaults. *)
RowsWhole == \A o \in Outputs : ~iostates[o].stored => iostates[o] = NoRow

(* Until the table is read the modes are the default, and an output without *)
(* a row is off.                                                            *)
Fresh ==
    Beginning => \A o \in Outputs :
        /\ mode[o] = "auto"
        /\ o \in Restorable /\ o # saving /\ ~iostates[o].stored => ~state[o]

(* Afterwards the table has all outputs, but for the write under way. *)
InTable ==
    Loaded => \A o \in Restorable : o # saving =>
        /\ iostates[o].state = state[o]
        /\ o \in AutoMode => iostates[o].mode = mode[o]

(* A range may be in the way of what an output was told last. *)
Excused(o) == last[o].mode # "auto" /\ o \in Timed

(* The table holds what each output was told last; at the output whose row *)
(* is being written it is still in the memory only.                        *)
ToldKept ==
    \A o \in Restorable :
        \/ Excused(o)
        \/ saving = o /\ state[o] = last[o].state
        \/ saving # o /\ iostates[o].state = last[o].state

IInv == TypeOK /\ Places /\ DefaultMode /\ RowsWhole /\ Fresh /\ InTable /\ ToldKept

-----------------------------------------------------------------------------
LEMMA NoPinOutside == NoPin \notin Outputs /\ NoPin \notin Inputs
  BY PinsAssumption DEF ToSet

LEMMA RestorablePlain == Restorable \subseteq Outputs /\ Restorable \cap Impulse = {}
                         /\ Restorable \cap Inverted = {}  /\ Restorable \cap Inputs = {}
  BY PinsAssumption DEF Restorable

LEMMA PinAt == ASSUME NEW i \in 1..Len(Pins) PROVE Pins[i] \in PinSet
  BY PinsAssumption DEF PinSet

LEMMA InitTypeOK == Init => TypeOK
  <1> SUFFICES ASSUME Init PROVE TypeOK
    OBVIOUS
  <1> USE PinsAssumption DEF Init
  <1>1. pc \in Pcs /\ back \in Pcs /\ line \in 1..(Len(Pins) + 1)
    BY DEF Pcs
  <1>2. todo \in Seq(Outputs) /\ saving \in Outputs \union {NoPin}
    OBVIOUS
  <1>3. budget \in [switches : 0..MaxSwitches, stops : 0..MaxStops,
                   edges : 0..MaxEdges, ranges : 0..MaxRanges]
    OBVIOUS
  <1>4. iostates \in [Outputs -> [stored : BOOLEAN, state : BOOLEAN, mode : {"auto", "manual"}]]
    BY DEF NoRow
  <1>5. last \in [Outputs -> OutputState]
    BY DEF OutputState
  <1> QED
    BY <1>1, <1>2, <1>3, <1>4, <1>5 DEF TypeOK

-----------------------------------------------------------------------------
(* The types. *)

LEMMA QueueOps ==
    ASSUME NEW T, NEW q \in Seq(T)
    PROVE  /\ Len(q) \in Nat
           /\ q # <<>> => Head(q) \in T /\ Tail(q) \in Seq(T)
           /\ \A e \in T : Append(q, e) \in Seq(T)
  OBVIOUS

(* What gpioWrite does to the output, and that it leaves the others alone. *)
LEMMA GpioWriteEffect ==
    ASSUME TypeOK, NEW o \in Outputs, NEW on \in BOOLEAN, NEW save \in BOOLEAN,
           GpioWrite(o, on, save)
    PROVE  /\ state' \in [PinSet -> BOOLEAN] /\ mode' = mode
           /\ dated' \subseteq PinSet /\ unstored' \subseteq Outputs
           /\ saving' = (IF save THEN o ELSE NoPin)
           /\ o \notin Impulse => state'[o] = on
           /\ \A p \in PinSet : p # o => state'[p] = state[p]
  <1>1. o \in PinSet
    BY DEF PinSet
  <1>2. (on \/ o \in Impulse) \in BOOLEAN
    OBVIOUS
  <1> QED
    BY <1>1, <1>2 DEF GpioWrite, TypeOK

(* What gpioRead does to the input; the outputs may be processed then. *)
LEMMA GpioReadEffect ==
    ASSUME TypeOK, NEW p \in Inputs, NEW check \in BOOLEAN, NEW next \in Pcs,
           GpioRead(p, check, next)
    PROVE  /\ state' \in [PinSet -> BOOLEAN] /\ dated' \subseteq PinSet
           /\ \A o \in Outputs : state'[o] = state[o]
           /\ UNCHANGED <<mode, unstored, saving, iostates>>
           /\ todo' \in Seq(Outputs) /\ back' \in Pcs
           /\ \/ pc' = next /\ back' = back
              \/ pc' = "process" /\ back' = next
  <1>1. p \in PinSet /\ p \notin Outputs /\ level[p] \in BOOLEAN
    BY PinsAssumption DEF PinSet, TypeOK
  <1>2. state' = [state EXCEPT ![p] = level[p]] /\ UNCHANGED <<mode, unstored, saving, iostates>>
    BY DEF GpioRead
  <1>3. dated' = dated \/ dated' = dated \union {p}
    BY DEF GpioRead
  <1>4. \/ pc' = next /\ UNCHANGED <<todo, back>>
        \/ pc' = "process" /\ back' = next /\ todo' = OutputOrder
    BY DEF GpioRead, ProcessThen
  <1>5. \A o \in Outputs : o \in PinSet
    BY DEF PinSet
  <1> QED
    BY <1>1, <1>2, <1>3, <1>4, <1>5, PinsAssumption DEF TypeOK

BudgetType ==
    [switches : 0..MaxSwitches, stops : 0..MaxStops, edges : 0..MaxEdges, ranges : 0..MaxRanges]

LEMMA SpendType ==
    ASSUME budget \in BudgetType
    PROVE  /\ budget.switches < MaxSwitches /\ Spend("switches") => budget' \in BudgetType
           /\ budget.stops < MaxStops /\ Spend("stops") => budget' \in BudgetType
           /\ budget.edges < MaxEdges /\ Spend("edges") => budget' \in BudgetType
           /\ budget.ranges < MaxRanges /\ Spend("ranges") => budget' \in BudgetType
  <1>0. MaxSwitches \in Nat /\ MaxStops \in Nat /\ MaxEdges \in Nat /\ MaxRanges \in Nat
    BY PinsAssumption
  <1>1. ASSUME budget.switches < MaxSwitches, Spend("switches") PROVE budget' \in BudgetType
    <2>1. budget' = [budget EXCEPT !.switches = budget.switches + 1]
      BY <1>1 DEF Spend
    <2>2. budget.switches \in 0..MaxSwitches
      BY DEF BudgetType
    <2>3. budget.switches + 1 \in 0..MaxSwitches
      BY <1>0, <1>1, <2>2
    <2> QED
      BY <2>1, <2>3 DEF BudgetType
  <1>2. ASSUME budget.stops < MaxStops, Spend("stops") PROVE budget' \in BudgetType
    <2>1. budget' = [budget EXCEPT !.stops = budget.stops + 1]
      BY <1>2 DEF Spend
    <2>2. budget.stops \in 0..MaxStops
      BY DEF BudgetType
    <2>3. budget.stops + 1 \in 0..MaxStops
      BY <1>0, <1>2, <2>2
    <2> QED
      BY <2>1, <2>3 DEF BudgetType
  <1>3. ASSUME budget.edges < MaxEdges, Spend("edges") PROVE budget' \in BudgetType
    <2>1. budget' = [budget EXCEPT !.edges = budget.edges + 1]
      BY <1>3 DEF Spend
    <2>2. budget.edges \in 0..MaxEdges
      BY DEF BudgetType
    <2>3. budget.edges + 1 \in 0..MaxEdges
      BY <1>0, <1>3, <2>2
    <2> QED
      BY <2>1, <2>3 DEF BudgetType
  <1>4. ASSUME budget.ranges < MaxRanges, Spend("ranges") PROVE budget' \in BudgetType
    <2>1. budget' = [budget EXCEPT !.ranges = budget.ranges + 1]
      BY <1>4 DEF Spend
    <2>2. budget.ranges \in 0..MaxRanges
      BY DEF BudgetType
    <2>3. budget.ranges + 1 \in 0..MaxRanges
      BY <1>0, <1>4, <2>2
    <2> QED
      BY <2>1, <2>3 DEF BudgetType
  <1> QED
    BY <1>1, <1>2, <1>3, <1>4

LEMMA TypeStep ==
    ASSUME TypeOK, Places, [Next]_vars
    PROVE  TypeOK'
  <1> USE DEF TypeOK, ioVars, worldVars
  <1>0. budget \in BudgetType /\ (budget' \in BudgetType => budget' \in [switches : 0..MaxSwitches,
            stops : 0..MaxStops, edges : 0..MaxEdges, ranges : 0..MaxRanges])
    BY DEF BudgetType
  <1>a. Len(Pins) \in Nat /\ OutputOrder \in Seq(Outputs)
    BY PinsAssumption
  <1>b. \A o \in Outputs : o \in PinSet
    BY DEF PinSet
  <1>1. CASE Start
    <2>1. pc' \in Pcs /\ line' \in 1..(Len(Pins) + 1)
      BY <1>1, <1>a DEF Start, Pcs
    <2> QED
      BY <1>1, <2>1 DEF Start
  <1>2. CASE InitGpioLine
    <2> DEFINE p == Pins[line]
    <2>1. line' \in 1..(Len(Pins) + 1) /\ p \in PinSet
      BY <1>2, <1>a, PinAt DEF InitGpioLine
    <2>2. UNCHANGED <<worldVars, last, budget>> /\ saving = NoPin
      BY <1>2 DEF InitGpioLine
    <2>3. CASE p \in Inputs
      <3>1. GpioRead(p, FALSE, "init") /\ "init" \in Pcs
        BY <1>2, <2>3 DEF InitGpioLine, Pcs
      <3>2. "process" \in Pcs
        BY DEF Pcs
      <3> HIDE DEF p
      <3> QED
        BY <2>1, <2>2, <2>3, <3>1, <3>2, GpioReadEffect
    <2>4. CASE p \notin Inputs
      <3>1. p \in Outputs /\ UNCHANGED <<pc, todo, back, iostates>>
            /\ (IF p \in Impulse THEN UNCHANGED ioVars ELSE GpioWrite(p, FALSE, FALSE))
        BY <1>2, <2>1, <2>4 DEF InitGpioLine, PinSet
      <3> HIDE DEF p
      <3> QED
        BY <2>1, <2>2, <3>1, GpioWriteEffect
    <2> QED
      BY <2>3, <2>4
  <1>3. CASE GpioDone
    BY <1>3 DEF GpioDone, Pcs
  <1>4. CASE MqttDone
    BY <1>4 DEF MqttDone, Pcs
  <1>5. CASE LoadIoStates
    <2>1. Restored \subseteq Outputs /\ Restored \subseteq PinSet
      BY RestorablePlain, <1>b DEF Restored
    <2>2. \A o \in Outputs : iostates[o].state \in BOOLEAN /\ iostates[o].mode \in {"auto", "manual"}
      OBVIOUS
    <2>3. state' \in [PinSet -> BOOLEAN]
      BY <1>5, <2>1, <2>2 DEF LoadIoStates
    <2>4. mode' \in [Outputs -> {"auto", "manual"}]
      BY <1>5, <2>1, <2>2 DEF LoadIoStates
    <2> QED
      BY <1>5, <2>1, <2>3, <2>4 DEF LoadIoStates, Pcs
  <1>6. CASE StoreIoState
    <2>1. saving \in Outputs /\ state[saving] \in BOOLEAN /\ mode[saving] \in {"auto", "manual"}
      BY <1>6, <1>b DEF StoreIoState
    <2> QED
      BY <1>6, <2>1 DEF StoreIoState
  <1>7. CASE ProcessOutput
    <2>1. Head(todo) \in Outputs /\ Tail(todo) \in Seq(Outputs)
      BY <1>7, QueueOps DEF ProcessOutput
    <2>2. todo' \in Seq(Outputs) /\ UNCHANGED <<pc, line, back, iostates, worldVars, budget>>
      BY <1>7, <2>1 DEF ProcessOutput
    <2>3. CASE Due(Head(todo))
      <3>1. GpioWrite(Head(todo), inRange = "in", TRUE)
            /\ (last' = [last EXCEPT ![Head(todo)].state = (inRange = "in")] \/ last' = last)
        BY <1>7, <2>3 DEF ProcessOutput
      <3>2. PICK on \in BOOLEAN : on = (inRange = "in")
        OBVIOUS
      <3>3. last' = [last EXCEPT ![Head(todo)].state = on] \/ last' = last
        BY <3>1, <3>2, Zenon
      <3>4. last' \in [Outputs -> OutputState]
        <4>1. last[Head(todo)] \in OutputState
          BY <2>1
        <4>2. [last[Head(todo)] EXCEPT !.state = on] \in OutputState
          BY <4>1 DEF OutputState
        <4> HIDE DEF TypeOK
        <4> QED
          BY <2>1, <3>3, <4>2 DEF TypeOK
      <3>5. GpioWrite(Head(todo), on, TRUE)
        BY <3>1, <3>2, Zenon
      <3>6. state' \in [PinSet -> BOOLEAN] /\ mode' = mode /\ dated' \subseteq PinSet
            /\ unstored' \subseteq Outputs /\ saving' = Head(todo)
        BY <2>1, <3>5, GpioWriteEffect
      <3> QED
        BY <2>1, <2>2, <3>4, <3>6
    <2>4. CASE ~Due(Head(todo))
      BY <1>7, <2>1, <2>2, <2>4 DEF ProcessOutput
    <2> QED
      BY <2>3, <2>4
  <1>8. CASE ProcessDone
    BY <1>8 DEF ProcessDone
  <1>9. CASE MeanwhileTrigger
    <2>1. Head(triggerGpioPins) \in Inputs
      BY <1>9, QueueOps DEF MeanwhileTrigger
    <2>2. GpioRead(Head(triggerGpioPins), FALSE, "pop") /\ UNCHANGED <<line, worldVars, last, budget>>
      BY <1>9 DEF MeanwhileTrigger
    <2>3. "pop" \in Pcs /\ "process" \in Pcs
      BY DEF Pcs
    <2> QED
      BY <2>1, <2>2, <2>3, GpioReadEffect
  <1>10. CASE PopTrigger
    <2>1. triggerGpioPins' \in Seq(Inputs)
      BY <1>10, QueueOps DEF PopTrigger, Places
    <2> QED
      BY <1>10, <2>1 DEF PopTrigger, Pcs
  <1>11. CASE MeanwhileProcess
    BY <1>11, <1>a DEF MeanwhileProcess, ProcessThen, Pcs
  <1>12. CASE LoopProcess
    BY <1>12, <1>a DEF LoopProcess, ProcessThen, Pcs
  <1>13. CASE StoreSamples
    <2>1. iostates' \in [Outputs -> [stored : BOOLEAN, state : BOOLEAN, mode : {"auto", "manual"}]]
      BY <1>13, <1>b DEF StoreSamples
    <2>2. pc' \in Pcs /\ line' \in 1..(Len(Pins) + 1)
      BY <1>13, <1>a DEF StoreSamples, Pcs
    <2> QED
      BY <1>13, <2>1, <2>2 DEF StoreSamples
  <1>14. CASE UpdateInputs
    <2>1. line' \in 1..(Len(Pins) + 1) /\ UNCHANGED <<worldVars, last, budget>>
      BY <1>14, <1>a DEF UpdateInputs
    <2>2. CASE Pins[line] \in Inputs
      <3>1. GpioRead(Pins[line], TRUE, "inputs") /\ "inputs" \in Pcs /\ "process" \in Pcs
        BY <1>14, <2>2 DEF UpdateInputs, Pcs
      <3> QED
        BY <2>1, <2>2, <3>1, GpioReadEffect
    <2>3. CASE Pins[line] \notin Inputs
      BY <1>14, <2>1, <2>3 DEF UpdateInputs
    <2> QED
      BY <2>2, <2>3
  <1>15. CASE InputsDone
    BY <1>15 DEF InputsDone, Pcs
  <1>16. ASSUME NEW o \in Outputs, ToggleOutputMode(o)
         PROVE  TypeOK'
    <2>1. mode' \in [Outputs -> {"auto", "manual"}] /\ saving' = o
      BY <1>16 DEF ToggleOutputMode
    <2>2. last' \in [Outputs -> OutputState]
      BY <1>16, <1>b DEF ToggleOutputMode, OutputState
    <2>3. budget' \in BudgetType
      BY <1>16, <1>0, SpendType DEF ToggleOutputMode
    <2> QED
      BY <1>16, <1>0, <2>1, <2>2, <2>3 DEF ToggleOutputMode
  <1>17. ASSUME NEW o \in Outputs, NEW on \in BOOLEAN, ToggleIo(o, on)
         PROVE  TypeOK'
    <2>1. GpioWrite(o, on, TRUE) /\ UNCHANGED <<pc, line, todo, back, iostates, worldVars>>
      BY <1>17 DEF ToggleIo
    <2>2. last' \in [Outputs -> OutputState]
      BY <1>17 DEF ToggleIo, OutputState
    <2>3. budget' \in BudgetType
      BY <1>17, <1>0, SpendType DEF ToggleIo
    <2>4. state' \in [PinSet -> BOOLEAN] /\ mode' = mode /\ dated' \subseteq PinSet
          /\ unstored' \subseteq Outputs /\ saving' = o
      BY <2>1, GpioWriteEffect
    <2> QED
      BY <1>0, <2>1, <2>2, <2>3, <2>4
  <1>18. CASE Exit
    <2>1. budget' \in BudgetType
      BY <1>18, <1>0, SpendType DEF Exit
    <2>2. state' \in [PinSet -> BOOLEAN]
      BY <1>18 DEF Exit
    <2> QED
      BY <1>18, <1>0, <2>1, <2>2 DEF Exit, Pcs
  <1>19. CASE Crash
    <2>1. budget' \in BudgetType
      BY <1>19, <1>0, SpendType DEF Crash
    <2>2. last' \in [Outputs -> OutputState]
      BY <1>19 DEF Crash, OutputState
    <2> QED
      BY <1>19, <1>0, <2>1, <2>2 DEF Crash, Pcs
  <1>20. CASE RangeChanges
    <2>1. budget' \in BudgetType
      BY <1>20, <1>0, SpendType DEF RangeChanges
    <2> QED
      BY <1>20, <1>0, <2>1 DEF RangeChanges
  <1>21. ASSUME NEW p \in Inputs, LevelChanges(p)
         PROVE  TypeOK'
    <2>1. budget' \in BudgetType
      BY <1>21, <1>0, SpendType DEF LevelChanges
    <2> QED
      BY <1>21, <1>0, <2>1 DEF LevelChanges
  <1>22. ASSUME NEW p \in Inputs, OnGpioChange(p)
         PROVE  TypeOK'
    <2>1. Append(triggerGpioPins, p) \in Seq(Inputs)
      OBVIOUS
    <2>2. triggerGpioPins' = Append(triggerGpioPins, p) \/ triggerGpioPins' = triggerGpioPins
      BY <1>22 DEF OnGpioChange
    <2> QED
      BY <1>22, <2>1, <2>2 DEF OnGpioChange
  <1>23. CASE UNCHANGED vars
    BY <1>23 DEF vars
  <1> HIDE DEF TypeOK, ioVars, worldVars
  <1> QED
    BY <1>1, <1>2, <1>3, <1>4, <1>5, <1>6, <1>7, <1>8, <1>9, <1>10, <1>11, <1>12, <1>13,
       <1>14, <1>15, <1>16, <1>17, <1>18, <1>19, <1>20, <1>21, <1>22, <1>23
    DEF Next, Starting, Running, Requests

-----------------------------------------------------------------------------
(* The invariant is inductive. *)

Held == Places /\ DefaultMode /\ RowsWhole /\ Fresh /\ InTable /\ ToldKept

LEMMA InitIInv == Init => IInv
  <1> SUFFICES ASSUME Init PROVE IInv
    OBVIOUS
  <1>1. TypeOK
    BY InitTypeOK
  <1>2. Places /\ DefaultMode
    BY DEF Init, Places, DefaultMode
  <1>3. RowsWhole /\ Fresh /\ InTable
    BY DEF Init, RowsWhole, Fresh, InTable, Beginning, Loaded
  <1>4. ToldKept
    BY RestorablePlain, NoPinOutside DEF Init, ToldKept, NoRow, Excused
  <1> QED
    BY <1>1, <1>2, <1>3, <1>4 DEF IInv

(* Reading an input leaves the outputs and the table alone, and if it      *)
(* starts process() that comes back to the same part of the program.       *)
LEMMA GpioReadKeeps ==
    ASSUME IInv, NEW p \in Inputs, NEW check \in BOOLEAN,
           NEW next \in {"init", "pop", "inputs"},
           GpioRead(p, check, next), saving = NoPin, UNCHANGED <<triggerGpioPins, last>>,
           next = "init" => pc = "init", next # "init" => Loaded,
           next = "pop" => triggerGpioPins # <<>>
    PROVE  Held'
  <1>1. next \in Pcs
    BY DEF Pcs
  <1>2. /\ \A o \in Outputs : state'[o] = state[o]
        /\ UNCHANGED <<mode, saving, iostates>>
        /\ (pc' = next /\ back' = back) \/ (pc' = "process" /\ back' = next)
    BY <1>1, GpioReadEffect DEF IInv
  <1>3. Places'
    BY <1>2 DEF Places, IInv
  <1>4. DefaultMode' /\ RowsWhole'
    BY <1>2 DEF DefaultMode, RowsWhole, IInv
  <1>5. (Beginning' => Beginning) /\ (Loaded' => Loaded)
    BY <1>2 DEF Beginning, Loaded
  <1>6. Fresh' /\ InTable' /\ ToldKept'
    BY <1>2, <1>5, RestorablePlain DEF Fresh, InTable, ToldKept, Excused, IInv
  <1> QED
    BY <1>3, <1>4, <1>6 DEF Held

(* What only moves through the program keeps the invariant. *)
LEMMA MoveKeeps ==
    ASSUME IInv, UNCHANGED <<state, mode, saving, iostates, last>>, Places',
           Beginning' => Beginning, Loaded' => Loaded
    PROVE  Held'
  BY DEF IInv, Held, DefaultMode, RowsWhole, Fresh, InTable, ToldKept, Excused

(* An output is switched and its row will be written next.                 *)
LEMMA SwitchKeeps ==
    ASSUME IInv, NEW o \in Outputs, NEW on \in BOOLEAN, GpioWrite(o, on, TRUE),
           saving = NoPin, Places', UNCHANGED <<pc, back, iostates>>,
           \/ last' = [last EXCEPT ![o].state = on]
           \/ last' = last /\ Excused(o)
    PROVE  Held'
  <1>1. /\ mode' = mode /\ saving' = o
        /\ o \notin Impulse => state'[o] = on
        /\ \A p \in PinSet : p # o => state'[p] = state[p]
    BY GpioWriteEffect DEF IInv
  <1>2. Restorable \subseteq PinSet /\ NoPin \notin Restorable /\ o # NoPin
    BY RestorablePlain, NoPinOutside DEF PinSet
  <1>3. DefaultMode' /\ RowsWhole'
    BY <1>1 DEF DefaultMode, RowsWhole, IInv
  <1>4. (Beginning' <=> Beginning) /\ (Loaded' <=> Loaded)
    BY DEF Beginning, Loaded
  <1>5. Fresh'
    BY <1>1, <1>2, <1>4 DEF Fresh, IInv
  <1>6. InTable'
    BY <1>1, <1>2, <1>4 DEF InTable, IInv
  <1>7. ASSUME NEW r \in Restorable
        PROVE  \/ Excused(r)'
               \/ saving' = r /\ state'[r] = last'[r].state
               \/ saving' # r /\ iostates'[r].state = last'[r].state
    <2>1. r \in Outputs /\ last[r] \in OutputState /\ last \in [Outputs -> OutputState]
      BY RestorablePlain DEF IInv, TypeOK
    <2>2. CASE r = o
      <3>1. state'[r] = on
        BY <1>1, <2>2, RestorablePlain
      <3>2. last' = [last EXCEPT ![o].state = on] => last'[r].state = on
        BY <2>1, <2>2 DEF OutputState
      <3>3. last' = last /\ Excused(o) => Excused(r)'
        BY <2>2 DEF Excused
      <3> QED
        BY <1>1, <2>2, <3>1, <3>2, <3>3
    <2>3. CASE r # o
      <3>1. last'[r] = last[r]
        BY <2>1, <2>3
      <3>2. Excused(r) \/ iostates[r].state = last[r].state
        BY <1>2 DEF IInv, ToldKept
      <3> QED
        BY <1>1, <2>3, <3>1, <3>2 DEF Excused
    <2> QED
      BY <2>2, <2>3
  <1>8. ToldKept'
    BY <1>7 DEF ToldKept
  <1> QED
    BY <1>3, <1>5, <1>6, <1>8 DEF Held

LEMMA HeldStep ==
    ASSUME IInv, [Next]_vars
    PROVE  Held'
  <1> USE DEF ioVars, worldVars
  <1>0. TypeOK /\ Places
    BY DEF IInv
  <1>1. CASE Start
    <2>1. saving = NoPin /\ saving' = NoPin
      BY <1>0, <1>1 DEF Start, Places
    <2>2. Places' /\ DefaultMode' /\ RowsWhole'
      BY <1>1, <2>1 DEF Start, Places, DefaultMode, RowsWhole, IInv
    <2>3. \A o \in Outputs : mode'[o] = "auto" /\ (o \in Restorable => ~state'[o])
      BY <1>1, RestorablePlain DEF Start, PinSet
    <2>4. Fresh' /\ InTable'
      BY <1>1, <2>3 DEF Start, Fresh, InTable, Loaded
    <2>5. ToldKept'
      BY <1>1, <2>1, RestorablePlain, NoPinOutside DEF Start, ToldKept, Excused, IInv
    <2> QED
      BY <2>2, <2>4, <2>5 DEF Held
  <1>2. CASE InitGpioLine
    <2> DEFINE p == Pins[line]
    <2>1. p \in PinSet /\ pc = "init" /\ saving = NoPin /\ UNCHANGED <<triggerGpioPins, last>>
      BY <1>0, <1>2, PinAt, PinsAssumption DEF InitGpioLine, TypeOK
    <2>2. CASE p \in Inputs
      <3>1. GpioRead(p, FALSE, "init")
        BY <1>2, <2>2 DEF InitGpioLine
      <3> HIDE DEF p
      <3> QED
        BY <2>1, <2>2, <3>1, GpioReadKeeps
    <2>3. CASE p \notin Inputs
      <3>1. p \in Outputs /\ UNCHANGED <<pc, back, iostates>>
            /\ (IF p \in Impulse THEN UNCHANGED ioVars ELSE GpioWrite(p, FALSE, FALSE))
        BY <1>2, <2>1, <2>3 DEF InitGpioLine, PinSet
      <3> HIDE DEF p
      <3>2. UNCHANGED <<mode, saving>> /\ \A o \in Restorable : o # p => state'[o] = state[o]
        BY <1>0, <2>1, <3>1, GpioWriteEffect, RestorablePlain DEF PinSet
      <3>3. p \in Restorable => ~state'[p]
        BY <1>0, <3>1, GpioWriteEffect, RestorablePlain
      <3>4. Places' /\ DefaultMode' /\ RowsWhole'
        BY <2>1, <3>1, <3>2 DEF Places, DefaultMode, RowsWhole, IInv
      <3>5. Fresh'
        BY <2>1, <3>1, <3>2, <3>3 DEF Fresh, Beginning, IInv
      <3>6. InTable'
        BY <2>1, <3>1 DEF InTable, Loaded
      <3>7. ToldKept'
        BY <2>1, <3>1, <3>2, NoPinOutside, RestorablePlain DEF ToldKept, Excused, IInv
      <3> QED
        BY <3>4, <3>5, <3>6, <3>7 DEF Held
    <2> QED
      BY <2>2, <2>3
  <1>3. CASE GpioDone
    BY <1>0, <1>3, MoveKeeps DEF GpioDone, Places, Beginning, Loaded
  <1>4. CASE MqttDone
    BY <1>0, <1>4, MoveKeeps DEF MqttDone, Places, Beginning, Loaded
  <1>5. CASE LoadIoStates
    <2>1. saving = NoPin /\ saving' = NoPin /\ UNCHANGED <<iostates, last>> /\ pc' = "idle"
      BY <1>0, <1>5 DEF LoadIoStates, Places
    <2>2. Places' /\ Fresh' /\ RowsWhole'
      BY <2>1, <1>5 DEF Places, Fresh, Beginning, RowsWhole, IInv
    <2>3. DefaultMode'
      BY <1>5 DEF LoadIoStates, DefaultMode, IInv
    <2>4. Restorable \subseteq PinSet /\ Restorable \subseteq Outputs /\ NoPin \notin Restorable
      BY RestorablePlain, NoPinOutside DEF PinSet
    <2>5. \A o \in Restorable : mode[o] = "auto" /\ (~iostates[o].stored => ~state[o] /\ iostates[o] = NoRow)
      BY <1>5, <2>1, <2>4 DEF LoadIoStates, Fresh, Beginning, RowsWhole, IInv
    <2>6. \A o \in Restorable :
             /\ iostates[o].stored => o \in Restored
             /\ state[o] \in BOOLEAN /\ NoRow.state = FALSE /\ NoRow.mode = "auto"
      BY <1>0, <2>4 DEF Restored, TypeOK, NoRow
    <2>7. \A o \in Restorable : iostates[o].state = state'[o]
      BY <1>5, <2>4, <2>5, <2>6 DEF LoadIoStates, Restored
    <2>8. \A o \in Restorable : o \in AutoMode => iostates[o].mode = mode'[o]
      BY <1>5, <2>4, <2>5, <2>6 DEF LoadIoStates, Restored
    <2>9. InTable'
      BY <2>1, <2>7, <2>8 DEF InTable
    <2>10. ToldKept'
      BY <2>1, <2>4 DEF ToldKept, Excused, IInv
    <2> QED
      BY <2>2, <2>3, <2>9, <2>10 DEF Held
  <1>6. CASE StoreIoState
    <2> DEFINE s == saving
    <2>1. /\ s \in Outputs /\ saving' = NoPin /\ UNCHANGED <<pc, back, state, mode, last, triggerGpioPins>>
          /\ iostates'[s] = [stored |-> TRUE, state |-> state[s], mode |-> mode[s]]
          /\ \A o \in Outputs : o # s => iostates'[o] = iostates[o]
      BY <1>0, <1>6 DEF StoreIoState, TypeOK
    <2>2. NoPin \notin Restorable /\ Restorable \subseteq Outputs
      BY NoPinOutside, RestorablePlain
    <2>3. Places' /\ DefaultMode' /\ RowsWhole'
      BY <2>1 DEF Places, DefaultMode, RowsWhole, IInv
    <2>4. Fresh' /\ InTable'
      BY <2>1, <2>2 DEF Fresh, Beginning, InTable, Loaded, IInv
    <2>5. ToldKept'
      BY <2>1, <2>2 DEF ToldKept, Excused, IInv
    <2> QED
      BY <2>3, <2>4, <2>5 DEF Held
  <1>7. CASE ProcessOutput
    <2> DEFINE o == Head(todo)
    <2>1. o \in Outputs /\ pc = "process" /\ saving = NoPin /\ UNCHANGED <<pc, back, iostates, triggerGpioPins>>
      BY <1>0, <1>7, QueueOps DEF ProcessOutput, TypeOK
    <2>2. CASE Due(o)
      <3>1. PICK on \in BOOLEAN : on = (inRange = "in")
        OBVIOUS
      <3>2. GpioWrite(o, on, TRUE)
        BY <1>7, <2>2, <3>1, Zenon DEF ProcessOutput
      <3>3. \/ last[o].mode = "auto" /\ last' = [last EXCEPT ![o].state = (inRange = "in")]
            \/ last[o].mode # "auto" /\ last' = last
        BY <1>7, <2>2 DEF ProcessOutput
      <3>4. last' = [last EXCEPT ![o].state = on] \/ (last' = last /\ Excused(o))
        BY <2>2, <3>1, <3>3, Zenon DEF Due, Excused
      <3> HIDE DEF o
      <3>5. saving' = o
        BY <1>0, <2>1, <3>2, GpioWriteEffect
      <3>6. Places'
        BY <1>0, <2>1, <3>5 DEF Places
      <3> QED
        BY <2>1, <3>2, <3>4, <3>6, SwitchKeeps
    <2>3. CASE ~Due(o)
      BY <1>0, <1>7, <2>1, <2>3, MoveKeeps DEF ProcessOutput, Places, Beginning, Loaded
    <2> QED
      BY <2>2, <2>3
  <1>8. CASE ProcessDone
    BY <1>0, <1>8, MoveKeeps DEF ProcessDone, Places, Beginning, Loaded
  <1>9. CASE MeanwhileTrigger
    <2>1. Head(triggerGpioPins) \in Inputs
      BY <1>0, <1>9, QueueOps DEF MeanwhileTrigger, TypeOK
    <2>2. GpioRead(Head(triggerGpioPins), FALSE, "pop") /\ UNCHANGED <<triggerGpioPins, last>>
          /\ saving = NoPin /\ Loaded /\ triggerGpioPins # <<>>
      BY <1>9 DEF MeanwhileTrigger, Loaded
    <2> QED
      BY <2>1, <2>2, GpioReadKeeps
  <1>10. CASE PopTrigger
    BY <1>0, <1>10, MoveKeeps DEF PopTrigger, Places, Beginning, Loaded
  <1>11. CASE MeanwhileProcess
    BY <1>0, <1>11, MoveKeeps DEF MeanwhileProcess, ProcessThen, Places, Beginning, Loaded
  <1>12. CASE LoopProcess
    BY <1>0, <1>12, MoveKeeps DEF LoopProcess, ProcessThen, Places, Beginning, Loaded
  <1>13. CASE StoreSamples
    <2>1. saving = NoPin /\ Loaded /\ pc' = "inputs" /\ UNCHANGED <<back, state, mode, saving, last, triggerGpioPins>>
      BY <1>0, <1>13 DEF StoreSamples, Places, Loaded
    <2>2. \A o \in Outputs :
             \/ iostates'[o] = [stored |-> TRUE, state |-> state[o], mode |-> mode[o]]
             \/ iostates'[o] = iostates[o]
      BY <1>13 DEF StoreSamples
    <2>b. Outputs \subseteq PinSet
      BY DEF PinSet
    <2>a. ASSUME NEW o \in Outputs
          PROVE  \/ iostates'[o].stored /\ iostates'[o].state = state[o] /\ iostates'[o].mode = mode[o]
                 \/ iostates'[o] = iostates[o]
      <3>1. PICK s \in BOOLEAN : s = state[o]
        BY <1>0, <2>b DEF TypeOK
      <3>2. iostates'[o] = [stored |-> TRUE, state |-> s, mode |-> mode[o]] \/ iostates'[o] = iostates[o]
        BY <2>2, <3>1, Zenon
      <3> QED
        <4>1. ASSUME NEW r, r = [stored |-> TRUE, state |-> s, mode |-> mode[o]]
              PROVE  r.stored /\ r.state = s /\ r.mode = mode[o]
          BY <4>1
        <4> QED
          BY <3>1, <3>2, <4>1, Zenon
    <2>3. Places' /\ DefaultMode' /\ RowsWhole'
      BY <2>1, <2>a DEF Places, DefaultMode, RowsWhole, IInv
    <2>4. \A o \in Restorable : iostates'[o].state = state[o]
                               /\ (o \in AutoMode => iostates'[o].mode = mode[o])
      BY <2>1, <2>a, NoPinOutside, RestorablePlain DEF InTable, IInv
    <2>5. Fresh' /\ InTable'
      BY <2>1, <2>4 DEF Fresh, Beginning, InTable
    <2>6. \A o \in Restorable : iostates'[o].state = iostates[o].state
      BY <2>1, <2>4, NoPinOutside, RestorablePlain DEF InTable, IInv
    <2>7. ToldKept'
      BY <2>1, <2>6, NoPinOutside, RestorablePlain DEF ToldKept, Excused, IInv
    <2> QED
      BY <2>3, <2>5, <2>7 DEF Held
  <1>14. CASE UpdateInputs
    <2>1. pc = "inputs" /\ saving = NoPin /\ Loaded /\ UNCHANGED <<triggerGpioPins, last>>
      BY <1>0, <1>14 DEF UpdateInputs, Places, Loaded
    <2>2. CASE Pins[line] \in Inputs
      <3>1. GpioRead(Pins[line], TRUE, "inputs")
        BY <1>14, <2>2 DEF UpdateInputs
      <3> QED
        BY <2>1, <2>2, <3>1, GpioReadKeeps
    <2>3. CASE Pins[line] \notin Inputs
      BY <1>0, <1>14, <2>1, <2>3, MoveKeeps DEF UpdateInputs, Places, Beginning, Loaded
    <2> QED
      BY <2>2, <2>3
  <1>15. CASE InputsDone
    BY <1>0, <1>15, MoveKeeps DEF InputsDone, Places, Beginning, Loaded
  <1>16. ASSUME NEW o \in Outputs, ToggleOutputMode(o)
         PROVE  Held'
    <2>1. /\ pc = "idle" /\ saving = NoPin /\ saving' = o /\ o \in AutoMode
          /\ UNCHANGED <<pc, back, state, iostates, triggerGpioPins>>
          /\ \A r \in Outputs : r # o => mode'[r] = mode[r] /\ last'[r] = last[r]
          /\ last'[o].state = state[o]
      BY <1>0, <1>16 DEF ToggleOutputMode, TypeOK
    <2>2. Places' /\ DefaultMode' /\ RowsWhole' /\ Fresh'
      BY <2>1 DEF Places, DefaultMode, RowsWhole, Fresh, Beginning, IInv
    <2>3. InTable'
      BY <2>1, NoPinOutside, RestorablePlain DEF InTable, Loaded, IInv
    <2>4. ToldKept'
      BY <2>1, NoPinOutside, RestorablePlain DEF ToldKept, Excused, IInv
    <2> QED
      BY <2>2, <2>3, <2>4 DEF Held
  <1>17. ASSUME NEW o \in Outputs, NEW on \in BOOLEAN, ToggleIo(o, on)
         PROVE  Held'
    <2>1. /\ GpioWrite(o, on, TRUE) /\ saving = NoPin /\ pc \in {"idle", "mqtt"}
          /\ UNCHANGED <<pc, back, iostates, triggerGpioPins>>
          /\ last' = [last EXCEPT ![o].state = on]
      BY <1>17 DEF ToggleIo
    <2>2. Places'
      BY <1>0, <2>1 DEF Places
    <2> QED
      BY <2>1, <2>2, SwitchKeeps
  <1>18. CASE Exit
    <2>1. saving = NoPin /\ pc' = "down" /\ UNCHANGED <<mode, saving, iostates, last>>
      BY <1>18 DEF Exit
    <2>2. Places' /\ DefaultMode' /\ RowsWhole' /\ Fresh' /\ InTable'
      BY <2>1 DEF Places, DefaultMode, RowsWhole, Fresh, Beginning, InTable, Loaded, IInv
    <2>3. ToldKept'
      BY <2>1, NoPinOutside, RestorablePlain DEF ToldKept, Excused, IInv
    <2> QED
      BY <2>2, <2>3 DEF Held
  <1>19. CASE Crash
    <2>1. saving' = NoPin /\ pc' = "down" /\ UNCHANGED <<state, mode, iostates>>
      BY <1>19 DEF Crash
    <2>2. Places' /\ DefaultMode' /\ RowsWhole' /\ Fresh' /\ InTable'
      BY <2>1 DEF Places, DefaultMode, RowsWhole, Fresh, Beginning, InTable, Loaded, IInv
    <2>3. \A o \in Restorable :
             \/ o = saving /\ last'[o].state = iostates[o].state
             \/ o # saving /\ last'[o] = last[o]
      BY <1>0, <1>19, NoPinOutside, RestorablePlain DEF Crash, TypeOK
    <2>4. ToldKept'
      BY <2>1, <2>3, NoPinOutside, RestorablePlain DEF ToldKept, Excused, IInv
    <2> QED
      BY <2>2, <2>4 DEF Held
  <1>20. CASE RangeChanges
    BY <1>0, <1>20, MoveKeeps DEF RangeChanges, Places, Beginning, Loaded
  <1>21. ASSUME NEW p \in Inputs, LevelChanges(p)
         PROVE  Held'
    BY <1>0, <1>21, MoveKeeps DEF LevelChanges, Places, Beginning, Loaded
  <1>22. ASSUME NEW p \in Inputs, OnGpioChange(p)
         PROVE  Held'
    <2>1. triggerGpioPins # <<>> => triggerGpioPins' # <<>>
      BY <1>0, <1>22 DEF OnGpioChange, TypeOK
    <2> QED
      BY <1>0, <1>22, <2>1, MoveKeeps DEF OnGpioChange, Places, Beginning, Loaded
  <1>23. CASE UNCHANGED vars
    BY <1>0, <1>23, MoveKeeps DEF vars, Places, Beginning, Loaded
  <1> QED
    BY <1>1, <1>2, <1>3, <1>4, <1>5, <1>6, <1>7, <1>8, <1>9, <1>10, <1>11, <1>12, <1>13,
       <1>14, <1>15, <1>16, <1>17, <1>18, <1>19, <1>20, <1>21, <1>22, <1>23
    DEF Next, Starting, Running, Requests

LEMMA Invariance == Spec => []IInv
  <1>1. Init => IInv
    BY InitIInv
  <1>2. IInv /\ [Next]_vars => IInv'
    BY TypeStep, HeldStep DEF IInv, Held
  <1> QED
    BY <1>1, <1>2, PTL DEF Spec

-----------------------------------------------------------------------------
(* The theorems. *)

(* All variables keep their types. *)
THEOREM TypeCorrect == Spec => []TypeOK
  <1>1. IInv => TypeOK
    BY DEF IInv
  <1> QED
    BY <1>1, Invariance, PTL

(* Whenever the running daemon dies, at any step of any number of requests, *)
(* readings and restarts, the table iostates has the state and mode of each *)
(* output that loadIoStates restores, but for one write under way.          *)
THEOREM Persisted == Spec => []PersistedWhileRunning
  <1>1. IInv => PersistedWhileRunning
    <2> SUFFICES ASSUME IInv, Loaded, saving = NoPin, NEW o \in Restorable
                 PROVE  Recovered(o) = [state |-> state[o], mode |-> mode[o]]
      BY DEF PersistedWhileRunning, Loaded
    <2>1. o \in Outputs /\ o # NoPin
      BY RestorablePlain, NoPinOutside
    <2>2. iostates[o].state = state[o] /\ (o \in AutoMode => iostates[o].mode = mode[o])
      BY <2>1 DEF IInv, InTable
    <2>3. o \notin AutoMode => mode[o] = "auto"
      BY <2>1 DEF IInv, DefaultMode
    <2> QED
      BY <2>2, <2>3 DEF Recovered
  <1> QED
    BY <1>1, Invariance, PTL

(* A start gives each restored output the state it was told last, unless it *)
(* is timed and was left in manual mode; also when starts were broken off,  *)
(* and whatever was commanded while the daemon started.                     *)
THEOREM StartRestores == Spec => StartKeepsState
  <1>1. ASSUME IInv, [Next]_vars, pc = "load", pc' = "idle", NEW o \in Restorable,
               last[o].mode = "auto" \/ o \notin Timed
        PROVE  state'[o] = last[o].state
    <2>1. LoadIoStates
      <3>1. CASE \E p \in Inputs : LevelChanges(p) \/ OnGpioChange(p)
        BY <1>1, <3>1 DEF LevelChanges, OnGpioChange
      <3>2. CASE Requests \/ Exit \/ Crash \/ RangeChanges
        BY <1>1, <3>2 DEF Requests, ToggleOutputMode, ToggleIo, Exit, Crash, RangeChanges
      <3>3. CASE Starting
        BY <1>1, <3>3 DEF Starting, Start, InitGpioLine, GpioDone, MqttDone
      <3>4. ASSUME Running PROVE FALSE
        <4>1. saving = NoPin
          BY <1>1 DEF IInv, Places
        <4> QED
          BY <1>1, <3>4, <4>1 DEF Running, StoreIoState, ProcessOutput, ProcessDone, MeanwhileTrigger,
             PopTrigger, MeanwhileProcess, LoopProcess, StoreSamples, UpdateInputs, InputsDone
      <3> QED
        BY <1>1, <3>1, <3>2, <3>3, <3>4 DEF Next, vars
    <2>2. o \in Outputs /\ o \in PinSet /\ o # NoPin /\ saving = NoPin /\ state[o] \in BOOLEAN
      BY <1>1, RestorablePlain, NoPinOutside DEF PinSet, IInv, Places, TypeOK
    <2>3. iostates[o].state = last[o].state
      BY <1>1, <2>2 DEF IInv, ToldKept, Excused
    <2>4. CASE iostates[o].stored
      BY <2>1, <2>2, <2>3, <2>4 DEF LoadIoStates, Restored
    <2>5. CASE ~iostates[o].stored
      <3>1. ~state[o] /\ iostates[o] = NoRow
        BY <1>1, <2>2, <2>5 DEF IInv, Fresh, Beginning, RowsWhole
      <3>2. state'[o] = state[o]
        BY <2>1, <2>2, <2>5 DEF LoadIoStates, Restored
      <3>3. state[o] = FALSE
        BY <2>2, <3>1, Zenon
      <3>4. NoRow.state = FALSE
        BY DEF NoRow
      <3> QED
        BY <2>3, <3>1, <3>2, <3>3, <3>4, Zenon
    <2> QED
      BY <2>4, <2>5
  <1>2. IInv /\ [Next]_vars =>
          [pc = "load" /\ pc' = "idle" =>
              \A o \in Restorable :
                  last[o].mode = "auto" \/ o \notin Timed => state'[o] = last[o].state]_vars
    BY <1>1
  <1> QED
    BY <1>2, Invariance, PTL DEF Spec, StartKeepsState
=============================================================================
