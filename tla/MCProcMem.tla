----------------------------- MODULE MCProcMem -----------------------------
(* ProcMem on small instances: the .cfg files give the constants.          *)
EXTENDS ProcMem
=============================================================================
