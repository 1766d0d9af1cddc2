------------------------------ MODULE ByteLine ------------------------------
(***************************************************************************)
(* What a serial transmitter promises: it is a shift register.  The bytes  *)
(* it was given leave in that order, each once, one byte time after the    *)
(* transmitter began with it, and it begins with the next one at once.     *)
(***************************************************************************)
EXTENDS Integers, Sequences

CONSTANTS Port, Byte, NoByte, ByteTime

VARIABLES line,    (* the bytes that a port still has to send *)
          shift,   (* ticks until the first of them has been sent *)
          heard    (* the byte that its receivers were given last *)

lineVars == <<line, shift, heard>>

LineInit ==
  /\ line = [p \in Port |-> <<>>]
  /\ shift = [p \in Port |-> 0]
  /\ heard = [p \in Port |-> NoByte]

Sending(p) == line[p] # <<>>

Accept(p, data) ==
  /\ data # <<>>
  /\ line' = [line EXCEPT ![p] = @ \o data]
  /\ shift' = [shift EXCEPT ![p] = IF Sending(p) THEN @ ELSE ByteTime[p]]
  /\ UNCHANGED heard

Emit(p) ==
  /\ Sending(p) /\ shift[p] = 0
  /\ line' = [line EXCEPT ![p] = Tail(@)]
  /\ shift' = [shift EXCEPT ![p] = IF Tail(line[p]) = <<>> THEN 0 ELSE ByteTime[p]]
  /\ heard' = [heard EXCEPT ![p] = Head(line[p])]

(* Time does not pass a byte that is due. *)
Elapse ==
  /\ \A p \in Port : Sending(p) => shift[p] > 0
  /\ shift' = [p \in Port |-> IF Sending(p) THEN shift[p] - 1 ELSE 0]
  /\ UNCHANGED <<line, heard>>

(* What was accepted is read off the next state, so that TLC can check     *)
(* this as a property of a detailed specification.                         *)
Accepted(p) == SubSeq(line'[p], Len(line[p]) + 1, Len(line'[p]))

LineNext ==
  \/ \E p \in Port : Accept(p, Accepted(p)) \/ Emit(p)
  \/ Elapse

LineSpec == LineInit /\ [][LineNext]_lineVars
=============================================================================
