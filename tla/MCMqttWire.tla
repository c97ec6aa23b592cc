---------------------------- MODULE MCMqttWire ----------------------------
(* Small instances of MqttWire: buffers of 140 and 130 bytes, so that packets *)
(* with one and with two bytes of length fit, and packets at each limit.      *)
EXTENDS MqttWire

Filled(n) == [i \in 1..n |-> i % 200]

Published(qos, id, n) ==
  [type |-> "PUBLISH", dup |-> 0, qos |-> qos, retained |-> 0, topic |-> <<47, 97>>,
   id |-> id, payload |-> Filled(n)]

\* A payload of 132 bytes makes the longest packet that fits, 139 bytes.  The
\* rests of the longer ones are one less than a buffer, just a buffer, and more
\* than two buffers.
MCIncoming ==
  {[type |-> "SUBACK", id |-> 258, granted |-> <<128>>], [type |-> "PINGRESP"],
   Published(1, 300, 3), Published(0, 0, 132),
   Published(0, 0, 135), Published(0, 0, 136), Published(0, 0, 290)}

\* Rests of 127 and 128 bytes are the last with one and the first with two
\* bytes of length.
MCOutgoing ==
  {[type |-> "CONNECT", clean |-> TRUE, keepalive |-> 600, client |-> <<65>>, user |-> <<63, 83>>],
   [type |-> "SUBSCRIBE", id |-> 1, topic |-> <<47, 97>>, qos |-> 1],
   [type |-> "DISCONNECT"],
   Published(0, 0, 123), Published(0, 0, 124)}
=============================================================================
