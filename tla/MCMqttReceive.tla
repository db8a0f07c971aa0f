---------------------------- MODULE MCMqttReceive ----------------------------
EXTENDS MqttReceive
MCStartTime ==
  {[hour |-> 9, min |-> 30, pm |-> TRUE], [hour |-> 12, min |-> 59, pm |-> FALSE],
   [hour |-> 1, min |-> 5, pm |-> FALSE], [hour |-> 12, min |-> 0, pm |-> TRUE]}
=============================================================================
