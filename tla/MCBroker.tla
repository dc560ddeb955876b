------------------------------ MODULE MCBroker ------------------------------
(* Small instances of module Broker for TLC.                               *)
EXTENDS Broker

\* Acknowledgement timeouts with consumers that do not call on; consumers
\* that do, without timeouts.
SmallScenarios ==
  {[uses |-> "queue", drop |-> "drop_oldest", concurrency |-> 1, ackTimeout |-> 2, callsOn |-> FALSE],
   [uses |-> "queue", drop |-> "reject", concurrency |-> 2, ackTimeout |-> 2, callsOn |-> FALSE],
   [uses |-> "topic", drop |-> "block", concurrency |-> 2, ackTimeout |-> 2, callsOn |-> FALSE],
   [uses |-> "topic", drop |-> "drop_oldest", concurrency |-> 1, ackTimeout |-> 2, callsOn |-> FALSE],
   [uses |-> "topic", drop |-> "reject", concurrency |-> 2, ackTimeout |-> 0, callsOn |-> TRUE]}

OneGroup == <<"a">>
=============================================================================
