--------------------------- MODULE MCDispositivoIO ---------------------------
(* A small instance of DispositivoIO for TLC: numbers have two digits in base 4, *)
(* so that 5 "milliseconds" of 3 "microseconds" fit in one and 6 do not.         *)
EXTENDS DispositivoPruebas

=============================================================================
