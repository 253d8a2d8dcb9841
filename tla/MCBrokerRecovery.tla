---------------------------- MODULE MCBrokerRecovery ----------------------------
EXTENDS BrokerRecovery

Broker(c, e) == [client |-> c, executable |-> e, publisher |-> 1]

\* A broker, its repair, and a change of the executable alone, which is none.
MCPins == {Broker(1, 1), Broker(2, 2), Broker(1, 2)}
=============================================================================
