------------------------------- MODULE Cadenas -------------------------------
(***************************************************************************)
(* The string protocol and its two users: esperar_recursos_io, which       *)
(* accepts, reads a name, answers "OK" and lists the resource, one client  *)
(* at a time; and the clients, which call handshake_kernel.                *)
(*                                                                         *)
(* A string is its length and its bytes, and every recv waits for all it   *)
(* asked for (MSG_WAITALL), whatever the pieces the network delivers.      *)
(***************************************************************************)
EXTENDS Naturals, Sequences

CONSTANTS
    Clientes, \* programs that connect and greet, once each; their names
    Callados, \* clients that may stay connected and never greet
    Largo,    \* strlen + 1 of each name
    Ancho,    \* bytes of an int
    Basura    \* a name read from memory that nobody wrote

ASSUME Nombres == /\ Callados \subseteq Clientes /\ Basura \notin Clientes
                  /\ Largo \in [Clientes -> Nat \ {0}] /\ Ancho \in Nat \ {0}

VARIABLES
    caido,      \* the kernel has gone
    cliente,    \* "afuera", "conectado", "espera", "aceptado", "rechazado", "muerto"
    llegadas,   \* connections, in the order of arrival
    enRed,      \* bytes of each name under way
    socket,     \* bytes of it that have arrived and have not been read
    respuesta,  \* clients that were sent "OK"
    pc,         \* what the acceptor does next
    aceptadas,  \* how many connections accept has returned
    nombre,     \* what recibir_cadena made of the bytes
    recursos_io \* the list

varsCliente  == <<cliente, llegadas>>
varsAceptador == <<pc, aceptadas, nombre, recursos_io, respuesta>>
vars == <<caido, enRed, socket, varsCliente, varsAceptador>>

Actual == llegadas[aceptadas]

Init ==
    /\ caido = FALSE /\ cliente = [c \in Clientes |-> "afuera"] /\ llegadas = <<>>
    /\ enRed = [c \in Clientes |-> 0] /\ socket = enRed /\ respuesta = {}
    /\ pc = "accept" /\ aceptadas = 0 /\ nombre = Basura /\ recursos_io = <<>>

-----------------------------------------------------------------------------
(* esperar_recursos_io *)

\* Mutant: the answer is sent before the name is read.
AceptarConOk ==
    /\ pc = "accept" /\ ~caido /\ aceptadas < Len(llegadas)
    /\ aceptadas' = aceptadas + 1 /\ pc' = "longitud"
    /\ respuesta' = respuesta \cup {llegadas[aceptadas + 1]}
    /\ UNCHANGED <<caido, enRed, socket, varsCliente, nombre, recursos_io>>

Accept ==
    /\ pc = "accept" /\ ~caido /\ aceptadas < Len(llegadas)
    /\ aceptadas' = aceptadas + 1 /\ pc' = "longitud"
    /\ UNCHANGED <<caido, enRed, socket, varsCliente, nombre, recursos_io, respuesta>>

\* The end of what a client sends: nothing under way, and it does not run.
HayFin(c) == enRed[c] = 0 /\ cliente[c] = "muerto"

\* Mutant: recv takes what there is.
PuedeRecibirParte(c, n) == socket[c] > 0 \/ HayFin(c)

\* recv with MSG_WAITALL returns when all of it is there, or at the end.
PuedeRecibir(c, n) == socket[c] >= n \/ HayFin(c)

Tomado(c, n) == IF socket[c] < n THEN socket[c] ELSE n
Consumir(c, n) == socket' = [socket EXCEPT ![c] = @ - Tomado(c, n)]

\* recibir_cadena: the length, then the bytes.  A length that was not received is
\* unknown, and the other recv, into a block of any size, finds the end as well.
RecibirCadena ==
    LET n      == IF pc = "longitud" THEN Ancho ELSE Largo[Actual]
        entero == Tomado(Actual, n) = n
    IN  /\ pc \in {"longitud", "texto"} /\ ~caido /\ PuedeRecibir(Actual, n)
        /\ Consumir(Actual, n)
        /\ IF pc = "longitud" /\ entero
           THEN pc' = "texto" /\ UNCHANGED nombre
           ELSE pc' = "responder" /\ nombre' = IF entero THEN Actual ELSE Basura
        /\ UNCHANGED <<caido, enRed, varsCliente, aceptadas, recursos_io, respuesta>>

\* Mutant: a client without a name ends the acceptor.
EnviarOkOSalir ==
    /\ pc = "responder" /\ ~caido
    /\ IF nombre = Basura THEN pc' = "fin" /\ UNCHANGED respuesta
                          ELSE pc' = "agregar" /\ respuesta' = respuesta \cup {Actual}
    /\ UNCHANGED <<caido, enRed, socket, varsCliente, aceptadas, nombre, recursos_io>>

\* enviar_cadena ("OK"), whatever was received.
EnviarOk ==
    /\ pc = "responder" /\ ~caido
    /\ respuesta' = respuesta \cup {Actual} /\ pc' = "agregar"
    /\ UNCHANGED <<caido, enRed, socket, varsCliente, aceptadas, nombre, recursos_io>>

\* Mutant: the newest first (list_add_in_index 0).
AgregarAlPrincipio ==
    /\ pc = "agregar" /\ ~caido
    /\ recursos_io' = <<[socket |-> Actual, nombre_io |-> nombre]>> \o recursos_io
    /\ pc' = "accept"
    /\ UNCHANGED <<caido, enRed, socket, varsCliente, aceptadas, nombre, respuesta>>

\* list_add.
Agregar ==
    /\ pc = "agregar" /\ ~caido
    /\ recursos_io' = Append(recursos_io, [socket |-> Actual, nombre_io |-> nombre])
    /\ pc' = "accept"
    /\ UNCHANGED <<caido, enRed, socket, varsCliente, aceptadas, nombre, respuesta>>

EsperarRecursosIo == Accept \/ RecibirCadena \/ EnviarOk \/ Agregar

\* The kernel is killed.
Caer ==
    /\ ~caido /\ caido' = TRUE
    /\ UNCHANGED <<enRed, socket, varsCliente, varsAceptador>>

-----------------------------------------------------------------------------
(* The clients and the network *)

Pasar(c, desde, hasta) ==
    cliente[c] = desde /\ cliente' = [cliente EXCEPT ![c] = hasta]

Conectar(c) ==
    /\ Pasar(c, "afuera", IF caido THEN "muerto" ELSE "conectado")
    /\ llegadas' = IF caido THEN llegadas ELSE Append(llegadas, c)
    /\ UNCHANGED <<caido, enRed, socket, varsAceptador>>

\* handshake_kernel: enviar_cadena (nombre), a single send.
EnviarNombre(c) ==
    /\ Pasar(c, "conectado", "espera")
    /\ enRed' = [enRed EXCEPT ![c] = Ancho + Largo[c]]
    /\ UNCHANGED <<caido, socket, llegadas, varsAceptador>>

\* handshake_kernel: recibir_cadena is "OK" and it returns 0; or the kernel has
\* gone, and it compares with a string that nobody wrote.
RecibirRespuesta(c) ==
    /\ \/ c \in respuesta /\ Pasar(c, "espera", "aceptado")
       \/ /\ c \notin respuesta /\ caido
          /\ Pasar(c, "espera", "rechazado") \/ Pasar(c, "espera", "muerto")
    /\ UNCHANGED <<caido, enRed, socket, llegadas, varsAceptador>>

Morir(c) ==
    /\ cliente[c] \in {"conectado", "espera", "aceptado"}
    /\ cliente' = [cliente EXCEPT ![c] = "muerto"]
    /\ UNCHANGED <<caido, enRed, socket, llegadas, varsAceptador>>

\* In pieces, also what a client sent before it died.
Entregar(c) ==
    /\ \E n \in 1 .. enRed[c] :
          /\ enRed' = [enRed EXCEPT ![c] = @ - n]
          /\ socket' = [socket EXCEPT ![c] = @ + n]
    /\ UNCHANGED <<caido, varsCliente, varsAceptador>>

HandshakeKernel(c) == EnviarNombre(c) \/ RecibirRespuesta(c)

Next == \/ EsperarRecursosIo \/ Caer
        \/ \E c \in Clientes : Conectar(c) \/ HandshakeKernel(c) \/ Morir(c) \/ Entregar(c)

Spec == /\ Init /\ [][Next]_vars /\ WF_vars(EsperarRecursosIo)
        /\ \A c \in Clientes : WF_vars(Entregar(c)) /\ WF_vars(RecibirRespuesta(c))
        /\ \A c \in Clientes \ Callados : WF_vars(EnviarNombre(c))

-----------------------------------------------------------------------------
(* Properties *)

TypeOK ==
    /\ caido \in BOOLEAN /\ respuesta \subseteq Clientes
    /\ cliente \in [Clientes ->
          {"afuera", "conectado", "espera", "aceptado", "rechazado", "muerto"}]
    /\ llegadas \in Seq(Clientes) /\ aceptadas \in 0 .. Len(llegadas)
    /\ enRed \in [Clientes -> Nat] /\ socket \in [Clientes -> Nat]
    /\ pc \in {"accept", "longitud", "texto", "responder", "agregar"}
    /\ nombre \in Clientes \cup {Basura}
    /\ recursos_io \in Seq([socket : Clientes, nombre_io : Clientes \cup {Basura}])

\* However a name arrives in pieces, the resource is listed under it; a resource
\* without a name is one whose program has ended (recurso.c:12,
\* mensaje_cadena.c:25-27).
NombreEntero ==
    \A k \in 1 .. Len(recursos_io) :
        LET r == recursos_io[k]
        IN  /\ r.nombre_io \in {r.socket, Basura}
            /\ r.nombre_io = Basura => cliente[r.socket] = "muerto"

\* A client that was told "OK" is listed, or is the one being listed: the answer
\* is sent before list_add (hello.c:15-17, recurso.c:15-18).
AceptadoEsListado ==
    \A c \in Clientes :
        cliente[c] = "aceptado" =>
            \/ \E k \in 1 .. Len(recursos_io) : recursos_io[k].nombre_io = c
            \/ pc = "agregar" /\ Actual = c /\ nombre = c

Lista == INSTANCE Canal
    WITH Mensajes  <- Clientes,
         enviados  <- llegadas,
         recibidos <- [k \in 1 .. Len(recursos_io) |-> recursos_io[k].socket],
         cerrado   <- FALSE,
         terminado <- FALSE

\* The list is the channel that takes every connection, in the order of arrival
\* and once, also those of clients that died (recurso.c:6-19).
ListaEnOrden == Lista!Spec

\* Who greets is answered, unless the acceptor is kept by a client that connected
\* before and does not greet (recurso.c:12).
Retenido == /\ pc = "longitud" /\ cliente[Actual] = "conectado" /\ Actual \in Callados

SaludoRespondido ==
    \A c \in Clientes :
        cliente[c] = "espera" ~>
            cliente[c] \in {"aceptado", "rechazado", "muerto"} \/ Retenido

=============================================================================
