---- MODULE MCBrokerProcess ----
(* BrokerProcess on a small instance.                                      *)
EXTENDS BrokerProcess
====
