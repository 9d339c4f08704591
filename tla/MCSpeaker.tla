------------------------------ MODULE MCSpeaker ------------------------------
(* Small instances of Speaker for TLC.                                      *)
EXTENDS Speaker, TLC

FaultBound == [e \in Engines |-> IF e = "openai" THEN 2 ELSE 1]

OneFault == [e \in Engines |-> 1]

=============================================================================
