------------------------------- MODULE MCMbox -------------------------------
EXTENDS Mbox

TwoTimers == {"tcp", "arp"}
Periods == [tcp |-> 15, arp |-> 20]
=============================================================================
