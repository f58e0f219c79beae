---------------------------- MODULE MCServerLoop ----------------------------
EXTENDS ServerLoop, TLC

CONSTANTS c1, c2

MCConns  == {c1, c2}
MCVia    == (c1 :> "server") @@ (c2 :> "server_6")
MCLimits == {6, 7}
=============================================================================
