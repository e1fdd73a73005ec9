---------------------------- MODULE MCServerLink ----------------------------
(* ServerLink for TLC.                                                     *)
EXTENDS ServerLink

\* Nothing is claimed of what follows a write that takes back isAccepted.
UntilCut == ~cut
=============================================================================
