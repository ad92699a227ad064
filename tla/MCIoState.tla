----------------------------- MODULE MCIoState -----------------------------
(* IoState for TLC: an input, an output with time ranges, one without and  *)
(* one that is only triggered, the input read between the outputs.         *)
EXTENDS IoState

CONSTANTS timed, input, plain, bell

TimedInputPlainBell == <<timed, input, plain, bell>>
TimedPlainBell == <<timed, plain, bell>>
InputTimed == <<input, timed>>
OnlyTimed == <<timed>>
=============================================================================
