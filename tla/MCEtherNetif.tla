---------------------------- MODULE MCEtherNetif ----------------------------
(* The callback list and the queue lengths of EtherNetif for TLC.          *)
EXTENDS EtherNetif

\* The order in which opener_port_instance.c opens the clients.
MCClients == <<"dlr", "lwip", "opener">>
MCQueueLength == [q \in Queues |-> 1]
=============================================================================
