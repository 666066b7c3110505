------------------------- MODULE MCWatermarkHandle -------------------------
(* WatermarkHandle for TLC: two workers, four tickets, points as model      *)
(* values. The points are interchangeable, but a liveness property is       *)
(* checked, so no symmetry is declared.                                    *)
EXTENDS WatermarkHandle
=============================================================================
