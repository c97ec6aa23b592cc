--------------------------- MODULE MCMqttClient ---------------------------
(* Small instances of MqttClient. *)
EXTENDS MqttClient, TLC

Symmetry == Permutations(Topic)
=============================================================================
