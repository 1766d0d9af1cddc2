--------------------------- MODULE MCSerialPorts ---------------------------
(* An STM32, an nRF52 and a host in a ring: each talks to the next. *)
EXTENDS SerialPorts

CONSTANTS stm, nrf, host, up, down, back

MCTxNet == stm :> up @@ nrf :> down @@ host :> back
MCRxNet == stm :> back @@ nrf :> up @@ host :> down
MCByteTime == stm :> 1 @@ nrf :> 2 @@ host :> 1

Symmetry == Permutations(Byte) \cup Permutations(Buffer)
=============================================================================
