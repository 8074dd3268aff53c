---------------------------- MODULE MCTransport ----------------------------
(* Transport with small constants: two overlapping calls, and as many         *)
(* connection objects as they and their predecessors need.                    *)
EXTENDS Transport, TLC
=============================================================================
