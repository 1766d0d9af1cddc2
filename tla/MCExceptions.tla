---------------------------- MODULE MCExceptions ----------------------------
(* Two interrupts, SysTick and the RTOS's PendSV and SVC, least urgent. *)
EXTENDS Exceptions

MCPrio == (SVC :> 3) @@ (PENDSV :> 3) @@ (SYSTICK :> 2) @@ (16 :> 1) @@ (17 :> 2)
=============================================================================
