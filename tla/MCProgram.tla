------------------------------- MODULE MCProgram -------------------------------
(* Program on a small trace: the sum of any two ranges differs from that   *)
(* of any other two, and all of them together overflow an int of 4 bits.   *)
EXTENDS Program

EventsPerRange == <<1, 2, 4, 5>>
===============================================================================
