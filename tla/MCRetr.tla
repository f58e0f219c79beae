------------------------------- MODULE MCRetr -------------------------------
(* Retr for TLC.                                                            *)
EXTENDS Retr

(* Every message of up to four of these: lines that begin with dots, dots  *)
(* inside of lines, returns and feeds that end none.                       *)
Segments == {<<"x">>, <<".">>, <<"r">>, <<"n">>, <<"r", "n">>, <<"r", "n", ".">>}

MCHeading  == <<"x", "r", "n">>
MCMessages == {FlattenSeq(s) : s \in UNION {[1 .. k -> Segments] : k \in 0 .. 4}}
=============================================================================
