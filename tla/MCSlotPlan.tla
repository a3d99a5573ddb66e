----------------------------- MODULE MCSlotPlan -----------------------------
(* Small instances of SlotPlan.                                             *)
EXTENDS SlotPlan
=============================================================================
