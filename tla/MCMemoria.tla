------------------------------ MODULE MCMemoria ------------------------------
(* A small instance of Memoria for TLC. *)
EXTENDS Memoria, TLC

CONSTANTS kernel, cpu, otro

\* The kernel (kernel.c:42) and a CPU (cpu.c:37) send a message; another program
\* asks twice for a process.
MCPrograma ==
    kernel :> <<"MENSAJE">> @@ cpu :> <<"MENSAJE">>
        @@ otro :> <<"CREAR_PROCESO", "CREAR_PROCESO">>

=============================================================================
