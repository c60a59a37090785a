----------------------------- MODULE MCRegistro -----------------------------
(* Small instances of Registro for TLC. *)
EXTENDS RegistroPruebas, TLC

CONSTANTS c1, c2, i1, i2, i3

MCFds == 1 .. 4

\* The names of the clients are interchangeable.
MCSimetria == Permutations(Cpus) \cup Permutations(Ios)

\* An IO may be killed anywhere, also while the kernel waits for its greeting;
MCMuertesDeIo == {"conectarIo", "saludarIo", "esperandoPedido"}

\* any client, anywhere but while the kernel waits for its greeting.
MCMuertesTardias ==
    PuntosCliente \ ({"sinLanzar", "terminado"} \cup MuertesTempranas)

=============================================================================
