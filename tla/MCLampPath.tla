----------------------------- MODULE MCLampPath -----------------------------
EXTENDS LampPath

Cmd(s, i) == [switch |-> s, id |-> i]
SomeAsked == {Cmd("ON", "0"), Cmd("OFF", "1"), Cmd("other", "0")}

\* What follows once led_task has freed a block of somebody else is not explored.
Unrobbed == ~robbed
=============================================================================
