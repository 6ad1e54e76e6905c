------------------------- MODULE MCOutputPublication -------------------------
(* A small instance of OutputPublication for TLC.  The processes are          *)
(* interchangeable, but the run checks liveness, so no symmetry is used.      *)
EXTENDS OutputPublication
=============================================================================
