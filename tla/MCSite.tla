------------------------------- MODULE MCSite --------------------------------
(* One case at a time with its evidence, its readers or its model calls    *)
(* varying, or the forms of one wallet: two of them, of the same contract  *)
(* or of two, one of which is paid in ether.                               *)
EXTENDS Site

CONSTANTS small, large

OnePartVaries == {{"evidence"}, {"readers"}, {"calls"}, {"forms"}}

Amounts == [f \in {small, large} |-> IF f = large THEN 2 ELSE 1]
=============================================================================
