-------------------------- MODULE MCMqttConnection --------------------------
(* MqttConnection for TLC: two threads for each object.                    *)
EXTENDS MqttConnection

CONSTANTS t1, t2
=============================================================================
