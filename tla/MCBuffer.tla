------------------------------ MODULE MCBuffer ------------------------------
(* Buffer for TLC: five cells and two bytes that differ.                   *)
EXTENDS Buffer

MCBytes == {"x", "y"}
=============================================================================
