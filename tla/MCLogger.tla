------------------------------ MODULE MCLogger ------------------------------
(* Logger for TLC: a buffer of three cells that may grow to six, lines up  *)
(* to one more than a line should take, and one that snprintf refuses.     *)
EXTENDS Logger

MCSizes == {-1, 1, 2, 3}
=============================================================================
