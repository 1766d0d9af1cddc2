------------------------------ MODULE MCMcuLoop ------------------------------
(* One interrupt, more urgent than SysTick; no tasks. *)
EXTENDS McuLoop, TLC

MCPrio == (11 :> 3) @@ (14 :> 3) @@ (15 :> 2) @@ (16 :> 1)
=============================================================================
