------------------------------- MODULE Enlace -------------------------------
(***************************************************************************)
(* One connection, byte by byte: a client that sends packets with          *)
(* enviar_handshake and enviar_mensaje, the network, and the thread that   *)
(* reads it, atender_cliente_kernel or atender_cliente_memoria.            *)
(*                                                                         *)
(* No recv of these loops asks to wait for all it wants (MSG_WAITALL), so  *)
(* it takes the bytes that have arrived, which need not be all those of    *)
(* the packet: the network may cut it.                                     *)
(***************************************************************************)
EXTENDS Protocolo

CONSTANTS
    Guiones,     \* what a client may do: where it connects to, its calls, and
                 \* how many times the network may cut what it sends
    BytesBasura, \* values that bytes of the stack nobody wrote may have
    TamBasura    \* sizes that an unwritten size may have

ASSUME Lectores == /\ BytesBasura \subseteq Byte /\ BytesBasura # {}
                   /\ TamBasura \subseteq Nat /\ TamBasura # {}

VARIABLES
    guion,     \* the program at the other end, and the calls the client makes
    hechas,    \* how many of them it has made
    emisor,    \* "abierto", or "cerrado" once the client has ended
    enRed,     \* bytes sent that have not arrived
    cortes,    \* how many times the network may still cut them
    socket,    \* bytes that have arrived and have not been read
    lector,    \* the recv the thread is at, "terminado", or "caido" with its process
    operacion, \* its paquete->codigo_operacion
    tam,       \* its paquete->buffer->size
    cerrado,   \* it has closed its descriptor
    recibidos, \* what it has deserialized
    corto      \* history: a recv took a part of what it asked for, the rest being
               \* on its way

vars == <<guion, hechas, emisor, enRed, cortes, socket, lector, operacion, tam, cerrado,
          recibidos, corto>>

varsEmisor == <<guion, hechas, emisor>>
varsLector == <<lector, operacion, tam, cerrado, recibidos, corto>>

-----------------------------------------------------------------------------
(* The calls of the client *)

\* enviar_handshake and enviar_mensaje, with the string they are given.
Llamadas == [funcion : {"enviar_handshake"}, recurso : {CPU, IO}, texto : Seq(Byte \ {0})]
              \cup [funcion : {"enviar_mensaje"}, texto : Seq(Byte \ {0})]

\* Strings so long that the size of their block does not fit in its field are left
\* out, and the code of a handshake fits in a byte.
ASSUME GuionesDelCodigo ==
    /\ 99 \in Byte
    /\ \A g \in Guiones :
          /\ g.destino \in {"kernel", "memoria"} /\ g.cortes \in Nat
          /\ g.llamadas \in Seq(Llamadas)
          /\ \A k \in 1 .. Len(g.llamadas) :
                3 * Ancho + Len(g.llamadas[k].texto) + 2 < Limite

\* The packet of a call: an enviar_handshake has a resource, an enviar_mensaje
\* has not.
Paquete(llamada) ==
    IF llamada.funcion = "enviar_handshake"
    THEN PaqueteHandshake(llamada.recurso, llamada.texto)
    ELSE PaqueteMensaje(llamada.texto)

\* What that packet says.
Contenido(llamada) ==
    IF llamada.funcion = "enviar_handshake"
    THEN [operacion |-> HANDSHAKE,
          datos |-> HandshakeDe(llamada.recurso, llamada.texto)]
    ELSE [operacion |-> MENSAJE, datos |-> MensajeDe(llamada.texto)]

\* The bytes that a recv of a code takes of a packet that has arrived whole, when i
\* of them have been read.
Palabra(paquete, i) ==
    SubSeq(paquete, i + 1, IF i + Ancho < Len(paquete) THEN i + Ancho ELSE Len(paquete))

\* Read as codes, none of the words of a packet is one that the memory acts on,
\* whatever the bytes that the last of them lacks.
SinCaso(paquete) ==
    \A j, i \in 0 .. Len(paquete) - 1 : i = j * Ancho =>
        \A resto \in [1 .. Ancho - Len(Palabra(paquete, i)) -> BytesBasura] :
            Valor(Palabra(paquete, i) \o resto) \notin {DESCONEXION, CREAR_PROCESO}

\* A program sends one message to the memory (kernel.c:42, cpu.c:37).
ASSUME PalabrasSinCaso ==
    \A g \in Guiones : g.destino = "memoria" =>
        /\ Len(g.llamadas) <= 1
        /\ \A k \in 1 .. Len(g.llamadas) : SinCaso(Paquete(g.llamadas[k]))

Init ==
    /\ guion \in Guiones /\ hechas = 0 /\ emisor = "abierto"
    /\ enRed = <<>> /\ cortes = guion.cortes /\ socket = <<>>
    /\ lector = "operacion" /\ operacion = Basura /\ tam = Basura
    /\ cerrado = FALSE /\ recibidos = <<>> /\ corto = FALSE

\* enviar_paquete: one send of the whole packet.
Enviar ==
    /\ emisor = "abierto" /\ hechas < Len(guion.llamadas)
    /\ enRed' = enRed \o Paquete(guion.llamadas[hechas + 1])
    /\ hechas' = hechas + 1
    /\ UNCHANGED <<guion, emisor, cortes, socket, varsLector>>

\* The client returns from main or is killed; what it sent still arrives.
Terminar ==
    /\ emisor = "abierto"
    /\ emisor' = "cerrado"
    /\ UNCHANGED <<guion, hechas, enRed, cortes, socket, varsLector>>

\* The network, in order: all that is under way, or only some of it.
Entregar ==
    /\ enRed # <<>>
    /\ \E n \in 1 .. Len(enRed) :
          /\ n < Len(enRed) => cortes > 0
          /\ socket' = socket \o SubSeq(enRed, 1, n)
          /\ enRed' = SubSeq(enRed, n + 1, Len(enRed))
          /\ cortes' = IF n < Len(enRed) THEN cortes - 1 ELSE cortes
    /\ UNCHANGED <<varsEmisor, varsLector>>

-----------------------------------------------------------------------------
(* The reading thread *)

\* recv waits for a byte or for the end, and takes what there is up to n bytes.
HayFin == socket = <<>> /\ enRed = <<>> /\ emisor = "cerrado"
PuedeRecibir == socket # <<>> \/ HayFin
Tomado(n) == IF Len(socket) < n THEN Len(socket) ELSE n
Recibido(n) == SubSeq(socket, 1, Tomado(n))
Consumir(n) ==
    /\ socket' = SubSeq(socket, Tomado(n) + 1, Len(socket))
    /\ corto' = (corto \/ (Tomado(n) < n /\ enRed # <<>>))

\* A number read with one recv: bytes that were missing keep what they had.
Recibe(numero) ==
    \E resto \in [1 .. Ancho - Tomado(Ancho) -> BytesBasura] :
        numero = Valor(Recibido(Ancho) \o resto)

\* Codes with a case that receives a buffer, in the program that reads.
ConBuffer == IF guion.destino = "kernel" THEN {HANDSHAKE, MENSAJE} ELSE {CREAR_PROCESO}

\* Mutants: no case for the end; a code without a case has a buffer.
TrasOperacionSinDesconexion(codigo) ==
    IF codigo \in ConBuffer THEN {"tamano"} ELSE {"operacion"}
TrasOperacionConBuffer(codigo) ==
    IF codigo = DESCONEXION THEN {"terminado"} ELSE {"tamano"}

\* The switch on the code.  A case that receives no buffer (and memoria.c has one,
\* CANTIDAD_ESPACIO_LIBRE, that does nothing else) frees a stream nobody wrote,
\* which may bring the process down.
TrasOperacion(codigo) ==
    CASE codigo \in ConBuffer -> {"tamano"}
      [] codigo = DESCONEXION -> {"terminado", "caido"}
      [] OTHER                -> {"operacion", "caido"}

\* Mutant: the end of the stream does not close the descriptor.
RecibirOperacionSinCerrar ==
    /\ lector = "operacion" /\ PuedeRecibir
    /\ IF HayFin THEN operacion' = DESCONEXION ELSE Recibe(operacion')
    /\ Consumir(Ancho)
    /\ lector' \in TrasOperacion(operacion')
    /\ UNCHANGED <<varsEmisor, enRed, cortes, tam, cerrado, recibidos>>

\* recibir_operacion: the code, or DESCONEXION after closing at the end.
RecibirOperacion ==
    /\ lector = "operacion" /\ PuedeRecibir
    /\ \/ /\ ~HayFin
          /\ Recibe(operacion')
          /\ UNCHANGED cerrado
       \/ /\ HayFin
          /\ operacion' = DESCONEXION
          /\ cerrado' = TRUE
    /\ Consumir(Ancho)
    /\ lector' \in TrasOperacion(operacion')
    /\ UNCHANGED <<varsEmisor, enRed, cortes, tam, recibidos>>

\* recibir_buffer: the size; a size that was not received is whatever it was.
RecibirTamano ==
    /\ lector = "tamano" /\ PuedeRecibir
    /\ IF HayFin THEN tam' \in TamBasura ELSE Recibe(tam')
    /\ Consumir(Ancho)
    /\ lector' = "contenido"
    /\ UNCHANGED <<varsEmisor, enRed, cortes, operacion, cerrado, recibidos>>

Deserializar(codigo, buffer) ==
    CASE codigo = HANDSHAKE     -> DeserializarHandshake(buffer)
      [] codigo = MENSAJE       -> DeserializarMensaje(buffer)
      [] codigo = CREAR_PROCESO -> DeserializarCrearProceso(buffer)

Texto(codigo, datos) ==
    CASE codigo = HANDSHAKE     -> datos.nombre.texto
      [] codigo = MENSAJE       -> datos.texto
      [] codigo = CREAR_PROCESO -> datos.nombre_archivo

\* recibir_buffer: the stream, in a block of the size received, with a recv that
\* waits for something even if the size is 0.  Bytes that were missing are unknown,
\* and a string made of them may be read outside its block; the name of a file is
\* appended to an array that has no room for it (memoria.c:164).
RecibirContenido ==
    /\ lector = "contenido" /\ PuedeRecibir
    /\ Consumir(tam)
    /\ \E buffer \in {Copiar(CrearBuffer(tam), Recibido(tam))} :
       \E datos \in {Deserializar(operacion, buffer)} :
          /\ recibidos' = Append(recibidos, [operacion |-> operacion, datos |-> datos])
          /\ \/ lector' = "operacion"
             \/ /\ operacion = CREAR_PROCESO \/ Texto(operacion, datos) = Basura
                /\ lector' = "caido"
    /\ UNCHANGED <<varsEmisor, enRed, cortes, operacion, tam, cerrado>>

AtenderCliente == RecibirOperacion \/ RecibirTamano \/ RecibirContenido

Next == Enviar \/ Terminar \/ Entregar \/ AtenderCliente

\* The network delivers and the thread is scheduled; the client need not go on.
Spec == Init /\ [][Next]_vars /\ WF_vars(Entregar) /\ WF_vars(AtenderCliente)

-----------------------------------------------------------------------------
(* Properties *)

TypeOK ==
    /\ guion \in Guiones /\ hechas \in 0 .. Len(guion.llamadas)
    /\ emisor \in {"abierto", "cerrado"}
    /\ cortes \in 0 .. guion.cortes /\ enRed \in Seq(Byte) /\ socket \in Seq(Byte)
    /\ lector \in {"operacion", "tamano", "contenido", "terminado", "caido"}
    /\ operacion \in Nat \cup {Basura} /\ tam \in Nat \cup {Basura}
    /\ cerrado \in BOOLEAN /\ corto \in BOOLEAN
    /\ \A k \in 1 .. Len(recibidos) : recibidos[k].operacion \in ConBuffer

\* What the client has sent, and the part of it that has a case in the reader: the
\* kernel has one for each call, the memory for none.
Contenidos == [k \in 1 .. hechas |-> Contenido(guion.llamadas[k])]
ConCaso    == IF {HANDSHAKE, MENSAJE} \subseteq ConBuffer THEN Contenidos ELSE <<>>

Posibles == UNION {{Contenido(g.llamadas[k]) : k \in 1 .. Len(g.llamadas)} : g \in Guiones}

Fifo == INSTANCE Canal
    WITH Mensajes  <- Posibles,
         enviados  <- ConCaso,
         cerrado   <- emisor = "cerrado",
         terminado <- lector = "terminado"

\* Until a recv takes a part of what it asked for, and with whole packets none
\* does, the thread deserializes what the client serialized, in order, and ends
\* after the last of it and not before (socket.c:257-276, kernel.c:217-255).  A
\* packet whose code has no case is read word by word, each as a code of its own,
\* and none of those words makes the thread do anything or miss the end
\* (memoria.c:68-106).
CanalHastaCorto ==
    /\ Fifo!Init
    /\ [][~corto' \/ guion.cortes = 0 => [Fifo!Next]_(Fifo!vars)]_vars

\* A thread that ends has closed its descriptor: unless a recv was cut, it took
\* no data for the end of the stream (socket.c:262-266, kernel.c:244-247,
\* memoria.c:96-99).
CierraAlTerminar == lector = "terminado" => cerrado \/ corto

\* A thread ends after its client, whatever it made of the bytes it got
\* (socket.c:264-266).
TerminaConElCliente ==
    emisor = "cerrado" ~> lector \in {"terminado", "caido"}

=============================================================================
