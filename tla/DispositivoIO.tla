---------------------------- MODULE DispositivoIO ----------------------------
(***************************************************************************)
(* The loop of io.c, byte by byte, and what the kernel's thread makes of   *)
(* its answers.  A request is a pid and a time, read with a recv each; its *)
(* end is announced with a number, which the thread reads as the code of a *)
(* packet, as a size or as contents.  The network may cut both streams,    *)
(* and no recv waits for all it wants.                                     *)
(*                                                                         *)
(* No code of src/ sends requests yet: Pedir follows what io.c receives.   *)
(***************************************************************************)
EXTENDS Protocolo

CONSTANTS
    Pids, Tiempos, \* what a request may carry
    MaxPedidos,    \* bound: requests in a run
    MaxCortes,     \* bound: how many times the network cuts what it carries
    Mil,           \* microseconds in a millisecond
    BytesBasura,   \* values that bytes the thread did not receive may have
    TamBasura      \* sizes that an unwritten size may have

ASSUME Medidas == /\ Pids \subseteq 0 .. Limite - 1 /\ Tiempos \subseteq 0 .. Limite - 1
                  /\ MaxPedidos \in Nat /\ MaxCortes \in Nat /\ Mil \in Nat
                  /\ BytesBasura \subseteq Byte /\ BytesBasura # {}
                  /\ TamBasura \subseteq Nat /\ TamBasura # {}

\* fin_io, and a mutant: it announces the end with a number other than 0.
FinIoUno == 1
FinIo == 0

VARIABLES
    pedidos,   \* requests sent
    enRed,     \* their bytes that have not arrived,
    socket,    \* and those that have, and have not been read
    enVuelta,  \* the bytes of the answers that have not arrived,
    avisos,    \* and those that have, and have not been read
    cortes,    \* how many times the network has cut either of them
    io,        \* the recv or the sleep the device is at, "terminado" or "muerto"
    pid,       \* the bytes of its variables
    tiempo,
    atendidos, \* the requests it took, with the microseconds of their sleep
    hilo,      \* the recv the kernel's thread is at, "terminado", or "caido" with
               \* the kernel
    tam,       \* its paquete->buffer->size
    roto       \* history: a recv took a part of a number, the rest being on its
               \* way, or the connection was reset with bytes in it

ida    == <<pedidos, enRed, socket>>
vuelta == <<enVuelta, avisos>>
varsIo == <<io, pid, tiempo, atendidos>>

vars == <<ida, vuelta, cortes, varsIo, hilo, tam, roto>>

Pedidos == [pid : Pids, tiempo : Tiempos]

Init ==
    /\ pedidos = <<>> /\ enRed = <<>> /\ socket = <<>>
    /\ enVuelta = <<>> /\ avisos = <<>> /\ cortes = 0
    /\ io = "pid" /\ atendidos = <<>>
    /\ pid = [i \in 1 .. Ancho |-> Basura] /\ tiempo = pid
    /\ hilo = "operacion" /\ tam = Basura /\ roto = FALSE

-----------------------------------------------------------------------------
(* The kernel that sends requests, and the network *)

Termino == io \in {"terminado", "muerto"}

Pedir(p) ==
    /\ hilo \notin {"terminado", "caido"} /\ Len(pedidos) < MaxPedidos
    /\ pedidos' = Append(pedidos, p)
    /\ enRed' = enRed \o EnBytes(p.pid) \o EnBytes(p.tiempo)
    /\ UNCHANGED <<socket, vuelta, cortes, varsIo, hilo, tam, roto>>

\* What is on its way arrives in order, all of it or a part.
Llega(n, enCamino, llegado) ==
    /\ n < Len(enCamino) => cortes < MaxCortes
    /\ llegado' = llegado \o SubSeq(enCamino, 1, n)
    /\ enCamino' = SubSeq(enCamino, n + 1, Len(enCamino))
    /\ cortes' = IF n < Len(enCamino) THEN cortes + 1 ELSE cortes

Entregar ==
    /\ \E n \in 1 .. Len(enRed) : Llega(n, enRed, socket)
    /\ UNCHANGED <<pedidos, vuelta, varsIo, hilo, tam, roto>>

EntregarAviso ==
    /\ \E n \in 1 .. Len(enVuelta) : Llega(n, enVuelta, avisos)
    /\ UNCHANGED <<ida, varsIo, hilo, tam, roto>>

\* The kernel falls.
CaidaKernel ==
    /\ hilo # "caido"
    /\ hilo' = "caido"
    /\ UNCHANGED <<ida, vuelta, cortes, varsIo, tam, roto>>

\* When an end has gone the connection may be reset: what it had sent and was not
\* read is lost.
Reiniciar ==
    /\ \/ /\ hilo = "caido" /\ enRed \o socket # <<>>
          /\ enRed' = <<>> /\ socket' = <<>> /\ roto' = TRUE
          /\ UNCHANGED vuelta
       \/ /\ Termino /\ enVuelta \o avisos # <<>>
          /\ enVuelta' = <<>> /\ avisos' = <<>>
          /\ UNCHANGED <<enRed, socket, roto>>
    /\ UNCHANGED <<pedidos, cortes, varsIo, hilo, tam>>

-----------------------------------------------------------------------------
(* The device *)

HayFin == socket = <<>> /\ enRed = <<>> /\ hilo = "caido"

\* One recv of a number: the bytes that were missing keep what they had.
Tomado == IF Len(socket) < Ancho THEN Len(socket) ELSE Ancho
Recibe(numero) ==
    /\ socket # <<>>
    /\ numero' = [i \in 1 .. Ancho |-> IF i <= Tomado THEN socket[i] ELSE numero[i]]
    /\ socket' = SubSeq(socket, Tomado + 1, Len(socket))
    /\ roto' = (roto \/ Tomado < Ancho)
    /\ UNCHANGED <<pedidos, enRed, vuelta, cortes, hilo, tam>>

RecibirPid ==
    /\ io = "pid" /\ Recibe(pid)
    /\ io' = "tiempo"
    /\ UNCHANGED <<tiempo, atendidos>>

\* Mutants: the product does not wrap, or is kept in a narrower number.
DormidoSinLimite(ms) == IF ms = Basura THEN Basura ELSE ms * Mil
DormidoAngosto(ms) == IF ms = Basura THEN Basura ELSE (ms * Mil) % (Limite \div 2)

\* tiempo * 1000, as an unsigned int.
Dormido(ms) == IF ms = Basura THEN Basura ELSE (ms * Mil) % Limite

\* Mutant: the pid is taken again from the time.
RecibirTiempoEnPid ==
    /\ io = "tiempo" /\ Recibe(tiempo)
    /\ io' = "duerme"
    /\ atendidos' = Append(atendidos, [pid |-> Valor(tiempo'), tiempo |-> Valor(tiempo'),
                                       dormido |-> Dormido(Valor(tiempo'))])
    /\ UNCHANGED pid

RecibirTiempo ==
    /\ io = "tiempo" /\ Recibe(tiempo)
    /\ io' = "duerme"
    /\ atendidos' = Append(atendidos, [pid |-> Valor(pid), tiempo |-> Valor(tiempo'),
                                       dormido |-> Dormido(Valor(tiempo'))])
    /\ UNCHANGED pid

\* usleep returns and send announces the end; to a kernel that has gone, it may
\* kill the device.
Despertar ==
    /\ io = "duerme"
    /\ \/ io' = "pid"
       \/ hilo = "caido" /\ io' = "muerto"
    /\ enVuelta' = enVuelta \o EnBytes(FinIo)
    /\ UNCHANGED <<ida, avisos, cortes, pid, tiempo, atendidos, hilo, tam, roto>>

\* Mutant: a failed recv is tried again.
RecvReintentado ==
    /\ io \in {"pid", "tiempo"} /\ HayFin
    /\ io' = "pid"
    /\ UNCHANGED <<ida, vuelta, cortes, pid, tiempo, atendidos, hilo, tam, roto>>

\* Either recv fails: close, and the end of main.
RecvFallido ==
    /\ io \in {"pid", "tiempo"} /\ HayFin
    /\ io' = "terminado"
    /\ UNCHANGED <<ida, vuelta, cortes, pid, tiempo, atendidos, hilo, tam, roto>>

MainIo == RecibirPid \/ RecibirTiempo \/ Despertar \/ RecvFallido

\* The device is killed.
Morir ==
    /\ ~Termino
    /\ io' = "muerto"
    /\ UNCHANGED <<ida, vuelta, cortes, pid, tiempo, atendidos, hilo, tam, roto>>

-----------------------------------------------------------------------------
(* The kernel's thread *)

HayFinAvisos == avisos = <<>> /\ enVuelta = <<>> /\ Termino
PuedeLeer == avisos # <<>> \/ HayFinAvisos

\* One recv of n bytes,
Llegado(n) == IF Len(avisos) < n THEN Len(avisos) ELSE n
Consumir(n) == avisos' = SubSeq(avisos, Llegado(n) + 1, Len(avisos))

\* and the numbers that one of Ancho may give.
Palabras ==
    {Valor(SubSeq(avisos, 1, Llegado(Ancho)) \o resto) :
        resto \in [1 .. Ancho - Llegado(Ancho) -> BytesBasura]}

\* recibir_operacion and the switch on the code.  DESCONEXION and the codes without
\* a case free a stream nobody wrote.
TrasOperacion(codigo) ==
    CASE codigo \in {HANDSHAKE, MENSAJE} -> {"tamano"}
      [] codigo = DESCONEXION            -> {"terminado", "caido"}
      [] OTHER                           -> {"operacion", "caido"}

LeerOperacion ==
    /\ hilo = "operacion" /\ PuedeLeer
    /\ \E codigo \in IF HayFinAvisos THEN {DESCONEXION} ELSE Palabras :
          hilo' \in TrasOperacion(codigo)
    /\ Consumir(Ancho)
    /\ UNCHANGED <<ida, enVuelta, cortes, varsIo, tam, roto>>

\* recibir_buffer: the size,
LeerTamano ==
    /\ hilo = "tamano" /\ PuedeLeer
    /\ tam' \in IF HayFinAvisos THEN TamBasura ELSE Palabras
    /\ Consumir(Ancho)
    /\ hilo' = "contenido"
    /\ UNCHANGED <<ida, enVuelta, cortes, varsIo, roto>>

\* and the contents, with a recv that waits for something even if the size is 0.
\* They are no greeting: deserialized from outside their block, with any outcome.
LeerContenido ==
    /\ hilo = "contenido" /\ PuedeLeer
    /\ Consumir(tam)
    /\ hilo' \in {"operacion", "caido"}
    /\ tam' = Basura
    /\ UNCHANGED <<ida, enVuelta, cortes, varsIo, roto>>

AtenderCliente == LeerOperacion \/ LeerTamano \/ LeerContenido

Next == \/ \E p \in Pedidos : Pedir(p)
        \/ Entregar \/ EntregarAviso \/ CaidaKernel \/ Reiniciar
        \/ MainIo \/ Morir \/ AtenderCliente

\* The network delivers, usleep returns and the threads are scheduled; the kernel
\* need not ask for anything.
Spec ==
    /\ Init /\ [][Next]_vars
    /\ WF_vars(Entregar) /\ WF_vars(EntregarAviso) /\ WF_vars(MainIo) /\ WF_vars(AtenderCliente)

-----------------------------------------------------------------------------
(* Properties *)

Numero == [1 .. Ancho -> Byte \cup {Basura}]
Algo   == Nat \cup {Basura}

\* What usleep may be given.
Siesta == 0 .. Limite - 1 \cup {Basura}

TypeOK ==
    /\ pedidos \in Seq(Pedidos) /\ enRed \in Seq(Byte) /\ socket \in Seq(Byte)
    /\ enVuelta \in Seq(Byte) /\ avisos \in Seq(Byte)
    /\ cortes \in 0 .. MaxCortes
    /\ io \in {"pid", "tiempo", "duerme", "terminado", "muerto"}
    /\ pid \in Numero /\ tiempo \in Numero
    /\ atendidos \in Seq([pid : Algo, tiempo : Algo, dormido : Siesta])
    /\ hilo \in {"operacion", "tamano", "contenido", "terminado", "caido"}
    /\ tam \in IF hilo = "contenido" THEN Nat ELSE Nat \cup {Basura}
    /\ roto \in BOOLEAN

Fifo == INSTANCE Canal
    WITH Mensajes  <- Pedidos,
         enviados  <- pedidos,
         recibidos <- [k \in DOMAIN atendidos |->
                          [pid |-> atendidos[k].pid, tiempo |-> atendidos[k].tiempo]],
         cerrado   <- hilo = "caido",
         terminado <- io = "terminado"

\* Until a recv takes a part of a number, the device serves the requests it was
\* sent, in order, and ends by itself only when the kernel has gone and all of them
\* are served: no pid is taken for a time (io.c:45-64).
CanalHastaRoto == Fifo!Init /\ [][~roto' => [Fifo!Next]_(Fifo!vars)]_vars

\* A request that was received whole is slept for as long as it says, if that many
\* microseconds fit in an unsigned int (io.c:50).
DuermeLoPedido ==
    ~roto => \A k \in DOMAIN atendidos :
                 pedidos[k].tiempo * Mil < Limite =>
                     atendidos[k].dormido = pedidos[k].tiempo * Mil

\* The kernel's thread attends the device for as long as it lives: it takes its
\* answers for greetings, sizes, contents and unknown codes, in the middle of a
\* number once one was cut, but none of them for the end (io.c:17-52,
\* socket.c:262-266, kernel.c:225-255).
AtiendeMientrasVive == hilo = "terminado" => Termino

\* Whichever end goes, the other one notices, in the middle of a request or of a
\* greeting too, however the bytes were cut (io.c:54-64, socket.c:264-266).
TerminanLosDos ==
    /\ hilo = "caido" ~> Termino
    /\ Termino ~> hilo \in {"terminado", "caido"}

=============================================================================
