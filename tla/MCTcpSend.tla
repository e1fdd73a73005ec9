----------------------------- MODULE MCTcpSend -----------------------------
(* TcpSend on two of its producers: tcp_handle_task above tcp_send_task    *)
(* and led_task below it.  The priorities are those of task_priority.h and *)
(* main.c.                                                                 *)
EXTENDS TcpSend

TwoProducers == {"handle", "led"}
Prio2 == [handle |-> 11, led |-> 17]
Addressee2 == [p \in TwoProducers |-> {"client", "server"}]
=============================================================================
