------------------------------ MODULE MCDetailPage ------------------------------
(* Instances of DetailPage for TLC. *)
EXTENDS DetailPage

CONSTANT s1
===============================================================================
