------------------------------ MODULE MCPrintLog ------------------------------
(***************************************************************************)
(* PrintLog with the dates at the ends of a month.                         *)
(***************************************************************************)
EXTENDS PrintLog

Dates == {[tm_mon |-> 0, tm_mday |-> 31]}

=============================================================================
