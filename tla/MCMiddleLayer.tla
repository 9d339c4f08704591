--------------------------- MODULE MCMiddleLayer ---------------------------
(* Instance of MiddleLayer for TLC. *)
EXTENDS MiddleLayer

CONSTANTS c1, c2, c3

ThreeCalls == {c1, c2, c3}
BothEngines == {"vosk", "deepgram"}
AllCameras == {"depth", "local", "rpc"}

=============================================================================
