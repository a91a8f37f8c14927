------------------------- MODULE MCLaneScheduling -------------------------
(***************************************************************************)
(* Instances of LaneScheduling for TLC.                                    *)
(***************************************************************************)
EXTENDS LaneScheduling
=============================================================================
