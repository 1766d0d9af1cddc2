--------------------------- MODULE MCTrackerBoard ---------------------------
(* Two pins, which are also the selects; two sensors and an address that   *)
(* nothing answers; one line of EXTI with a net at two of three ports;     *)
(* short times.                                                            *)
EXTENDS TrackerBoard

MCWired == {<<"A", 5>>, <<"B", 5>>}
MCTtff == [cold |-> 3, warm |-> 2, hot |-> 1]
MCUntil == [u \in Uses |-> CASE u = "tim" -> 8 [] u \in {"flash", "accel", "exti"} -> 4 [] u \in {"gnss", "ble"} -> 0
                               [] OTHER -> 2]
MCSpiByte == [flash |-> {PageProgram, Wren}, accel |-> {127, 130}]
MCAttached == <<"flash", "accel">>
=============================================================================
