---------------------------- MODULE MCPop3Parser ----------------------------
(* Pop3Parser for TLC: any byte that is not space, CR or LF is as good as  *)
(* another.                                                                *)
EXTENDS Pop3Parser

MCChars == {"x"}
=============================================================================
