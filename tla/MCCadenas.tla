------------------------------ MODULE MCCadenas ------------------------------
(* A small instance of Cadenas for TLC. *)
EXTENDS CadenasPruebas, TLC

CONSTANTS a, b, c

MCLargo == a :> 2 @@ b :> 3 @@ c :> 1

=============================================================================
