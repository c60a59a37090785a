----------------------------- MODULE MCProcesos -----------------------------
(* A small instance of Procesos for TLC. *)
EXTENDS Procesos, TLC

CONSTANTS h1, h2, h3, h4

Simetria == Permutations(Hilos)

=============================================================================
