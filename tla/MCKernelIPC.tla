----------------------------- MODULE MCKernelIPC ------------------------------
(***************************************************************************)
(* KernelIPC with two system services, which share the traps between them, *)
(* and user processes, which may make no trap but SENDREC (minix/priv.h).  *)
(***************************************************************************)
EXTENDS KernelIPC

Masks == [p \in Proc |-> CASE p = 1 -> {"SENDNB", "NOTIFY", "SENDREC", "RECEIVE"}
                           [] p = 2 -> {"SEND", "RECEIVE"}
                           [] OTHER -> {"SENDREC"}]

KernelCalls == [p \in Proc |-> IF p = 1 THEN {"SYS_STATECTL"} ELSE {}]

=============================================================================
