-------------------------- MODULE RegistroAbstracto --------------------------
(***************************************************************************)
(* What the kernel's registry of CPUs and IOs promises, without threads,   *)
(* packets or a descriptor table: connections are admitted in the order of *)
(* their arrival under a number no other open connection has; resources    *)
(* are listed in that order, the k-th CPU made of the k-th connections of  *)
(* its two ports and named after the process that opened the first; a      *)
(* connection is dropped only when it is listed and its process has ended. *)
(***************************************************************************)
EXTENDS Naturals, Sequences

CONSTANTS Conexiones, \* records with the process and the port
          Puertos, Fds, SinFd

VARIABLES
    llegadas,    \* connections of each port, in order of arrival
    numero,      \* the number each connection was admitted under
    abiertas,    \* admitted and not dropped
    concluidos,  \* processes that have ended
    recursosCpu,
    recursosIo

vars == <<llegadas, numero, abiertas, concluidos, recursosCpu, recursosIo>>

Llegada(s, k) == llegadas[s][k]

Admitida(s, k) == k <= Len(llegadas[s]) /\ numero[Llegada(s, k)] # SinFd

Listada(c) ==
    \/ \E k \in 1 .. Len(recursosCpu) :
          c \in {Llegada("envio", k), Llegada("interrupcion", k)}
    \/ \E k \in 1 .. Len(recursosIo) : c = Llegada("io", k)

Init ==
    /\ llegadas = [s \in Puertos |-> <<>>]
    /\ numero = [c \in Conexiones |-> SinFd]
    /\ abiertas = {}
    /\ concluidos = {}
    /\ recursosCpu = <<>>
    /\ recursosIo = <<>>

Llegar(c) ==
    /\ c.proc \notin concluidos
    /\ llegadas' = [llegadas EXCEPT ![c.puerto] = Append(@, c)]
    /\ UNCHANGED <<numero, abiertas, concluidos, recursosCpu, recursosIo>>

\* The next connection of its port gets a number that is not in use.
Admitir(s, k, f) ==
    /\ k \in 1 .. Len(llegadas[s])
    /\ ~Admitida(s, k)
    /\ \A j \in 1 .. k - 1 : Admitida(s, j)
    /\ \A c \in abiertas : numero[c] # f
    /\ numero' = [numero EXCEPT ![Llegada(s, k)] = f]
    /\ abiertas' = abiertas \cup {Llegada(s, k)}
    /\ UNCHANGED <<llegadas, concluidos, recursosCpu, recursosIo>>

ListarCpu ==
    LET k == Len(recursosCpu) + 1
    IN  /\ Admitida("envio", k) /\ Admitida("interrupcion", k)
        /\ recursosCpu' = Append(recursosCpu,
               [socket_envio        |-> numero[Llegada("envio", k)],
                socket_interrupcion |-> numero[Llegada("interrupcion", k)],
                disponible          |-> TRUE,
                nombre_cpu          |-> Llegada("envio", k).proc])
        /\ UNCHANGED <<llegadas, numero, abiertas, concluidos, recursosIo>>

ListarIo ==
    LET k == Len(recursosIo) + 1
    IN  /\ Admitida("io", k)
        /\ recursosIo' = Append(recursosIo,
               [socket     |-> numero[Llegada("io", k)],
                disponible |-> TRUE,
                nombre_io  |-> Llegada("io", k).proc])
        /\ UNCHANGED <<llegadas, numero, abiertas, concluidos, recursosCpu>>

Concluir(p) ==
    /\ p \notin concluidos
    /\ concluidos' = concluidos \cup {p}
    /\ UNCHANGED <<llegadas, numero, abiertas, recursosCpu, recursosIo>>

Soltar(c) ==
    /\ c \in abiertas
    /\ c.proc \in concluidos
    /\ Listada(c)
    /\ abiertas' = abiertas \ {c}
    /\ UNCHANGED <<llegadas, numero, concluidos, recursosCpu, recursosIo>>

Next ==
    \/ \E c \in Conexiones : Llegar(c) \/ Soltar(c)
    \/ \E s \in Puertos, f \in Fds : \E k \in 1 .. Len(llegadas[s]) : Admitir(s, k, f)
    \/ ListarCpu \/ ListarIo
    \/ \E p \in {c.proc : c \in Conexiones} : Concluir(p)

Spec == Init /\ [][Next]_vars

=============================================================================
