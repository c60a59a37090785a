------------------------------ MODULE Registro ------------------------------
(***************************************************************************)
(* How CPU and IO processes become resources of the kernel.                *)
(*                                                                         *)
(* The kernel (kernel/src/kernel.c) opens three listening ports and starts *)
(* two accepting threads: atender_conexion_io fills recursos_io and        *)
(* atender_conexion_cpu fills recursos_cpu, pairing one connection of the  *)
(* dispatch port ("envio") with one of the interrupt port                  *)
(* ("interrupcion").  Every accepted connection then gets a thread of its  *)
(* own that runs atender_cliente_kernel until its recv fails.  All threads *)
(* share the process's descriptor table, in which accept takes the lowest  *)
(* free number and close frees one for reuse.                              *)
(*                                                                         *)
(* The clients are cpu/src/cpu.c and io/src/io.c, one program point per    *)
(* call.  Either side may die; a dying process closes all its sockets.     *)
(*                                                                         *)
(* A byte stream is abstracted to cells, two per packet: the operation     *)
(* code, and the buffer (size and payload).  What a client sends is fixed  *)
(* by its program, so a stream is its client's script with one position    *)
(* for what was sent and one for what was read.                            *)
(***************************************************************************)
EXTENDS Naturals, Sequences

CONSTANTS
    Cpus,           \* CPU processes, by the name given on their command line
    Ios,            \* IO processes, likewise
    Fds,            \* descriptor numbers the kernel can give to clients
    PuntosDeMuerte, \* program points at which a client may be killed
    EsperanKernel,  \* TRUE: clients are launched once the kernel has started
    Libre,          \* no connection behind a descriptor
    SinFd,          \* no descriptor given yet
    Basura          \* a name read from memory nobody wrote

Procesos == Cpus \cup Ios
Puertos  == {"envio", "interrupcion", "io"}
PuertosCpu == {"envio", "interrupcion"}

\* A connection is named by the process that opens it and the port it goes to.
Conexiones == [proc : Cpus, puerto : PuertosCpu] \cup [proc : Ios, puerto : {"io"}]

PuntosCliente ==
    {"sinLanzar", "conectarEnvio", "saludarEnvio", "conectarInterrupcion",
     "saludarInterrupcion", "conectarMemoria", "mensajeEnvio",
     "mensajeInterrupcion", "mensajeMemoria", "conectarIo", "saludarIo",
     "esperandoPedido", "terminado"}

\* The points between connecting and sending the handshake that an accepting
\* thread of the kernel waits for.
MuertesTempranas == {"saludarEnvio", "saludarIo"}

ASSUME Constantes ==
    /\ Cpus \cap Ios = {}
    /\ Fds \subseteq Nat
    /\ PuntosDeMuerte \subseteq PuntosCliente \ {"sinLanzar", "terminado"}
    /\ EsperanKernel \in BOOLEAN
    /\ Libre \notin Conexiones
    /\ SinFd \notin Fds
    /\ Basura \notin Procesos

VARIABLES
    pcMain,      \* main of the kernel
    caido,       \* the kernel process is gone; its state is frozen
    escucha,     \* ports with a listening socket
    pcCpu,       \* thread atender_conexion_cpu
    nombreCpu,   \* its handshake_cpu_envio->nombre.texto
    pcIo,        \* thread atender_conexion_io
    nombreIo,    \* its handshake_io->nombre.texto
    recursosCpu, \* t_list * recursos_cpu
    recursosIo,  \* t_list * recursos_io
    hilo,        \* thread atender_cliente_kernel of each connection
    tabla,       \* descriptor table: what each number refers to
    fdDe,        \* the number accept returned for each connection
    llegadas,    \* connections of each port, in the order they were made
    aceptadas,   \* how many of them accept has returned
    enviado,     \* cells the client has sent on each connection
    leido,       \* cells the kernel has read from each connection
    rotas,       \* connections whose packet boundaries the kernel has lost
    pcCliente    \* main of each client

vars == <<pcMain, caido, escucha, pcCpu, nombreCpu, pcIo, nombreIo, recursosCpu,
          recursosIo, hilo, tabla, fdDe, llegadas, aceptadas, enviado, leido,
          rotas, pcCliente>>

varsMain    == <<pcMain, escucha>>
varsHiloCpu == <<pcCpu, nombreCpu, recursosCpu>>
varsHiloIo  == <<pcIo, nombreIo, recursosIo>>
varsAcepta  == <<fdDe, aceptadas>>
varsLectura == <<leido, rotas>>
varsCliente == <<llegadas, enviado, pcCliente>>

-----------------------------------------------------------------------------
(* Streams and descriptors *)

\* What the client of c sends: a HANDSHAKE packet and, if it is a CPU, a
\* MENSAJE packet.
Celdas(c) == IF c.puerto = "io"
             THEN <<"HANDSHAKE", "buffer">>
             ELSE <<"HANDSHAKE", "buffer", "MENSAJE", "buffer">>

Terminado(p) == pcCliente[p] = "terminado"

\* recv on descriptor f would return bytes.
HayDatos(f) == /\ tabla[f] # Libre
               /\ leido[tabla[f]] < enviado[tabla[f]]

\* Mutant: a recv that finds nothing yet is taken for the end of the stream.
FinDeDatosSinEsperar(f) ==
    tabla[f] # Libre => leido[tabla[f]] = enviado[tabla[f]]

\* recv on descriptor f would return 0 (end of stream) or -1 (closed number).
FinDeDatos(f) ==
    tabla[f] # Libre => /\ leido[tabla[f]] = enviado[tabla[f]]
                        /\ Terminado(tabla[f].proc)

ProximaCelda(f) == Celdas(tabla[f])[leido[tabla[f]] + 1]

\* The next recv starts at an operation code, or at a buffer.
EnOperacion(f) == tabla[f] \notin rotas /\ ProximaCelda(f) # "buffer"
EnBuffer(f)    == tabla[f] \notin rotas /\ ProximaCelda(f) = "buffer"

ConsumirCelda(f) == /\ leido' = [leido EXCEPT ![tabla[f]] = @ + 1]
                    /\ UNCHANGED rotas

\* A recv cuts a packet elsewhere than between its fields: from here on nothing
\* is known of where the next one starts, only that bytes are not read twice.
Descuadrar(f) ==
    /\ rotas' = rotas \cup {tabla[f]}
    /\ \E n \in leido[tabla[f]] .. enviado[tabla[f]] :
          leido' = [leido EXCEPT ![tabla[f]] = n]

Cerrar(f) == tabla' = [tabla EXCEPT ![f] = Libre]

Operaciones == {"HANDSHAKE", "MENSAJE", "DESCONEXION", "desconocida"}

\* recibir_operacion: an operation code, or DESCONEXION after closing the
\* descriptor when recv fails.
RecibirOperacion(f, op) ==
    \/ /\ HayDatos(f) /\ EnOperacion(f)
       /\ op = ProximaCelda(f)
       /\ ConsumirCelda(f)
       /\ UNCHANGED tabla
    \/ /\ HayDatos(f) /\ ~EnOperacion(f)
       /\ op \in Operaciones
       /\ Descuadrar(f)
       /\ UNCHANGED tabla
    \/ /\ FinDeDatos(f)
       /\ op = "DESCONEXION"
       /\ Cerrar(f)
       /\ UNCHANGED <<leido, rotas>>

\* recibir_buffer and the deserialization that follows it: the name in a
\* handshake's buffer, or what the fresh heap block happened to hold when recv
\* fails or the bytes are not a handshake.
RecibirBuffer(f, nombre) ==
    \/ /\ HayDatos(f) /\ EnBuffer(f)
       /\ nombre = IF leido[tabla[f]] = 1 THEN tabla[f].proc ELSE Basura
       /\ ConsumirCelda(f)
    \/ /\ HayDatos(f) /\ ~EnBuffer(f)
       /\ nombre = Basura
       /\ Descuadrar(f)
    \/ /\ FinDeDatos(f)
       /\ nombre = Basura
       /\ UNCHANGED <<leido, rotas>>

-----------------------------------------------------------------------------
(* Initial state *)

Init ==
    /\ pcMain = "memoria"
    /\ caido = FALSE
    /\ escucha = {}
    /\ pcCpu = "sinCrear" /\ nombreCpu = Basura
    /\ pcIo = "sinCrear" /\ nombreIo = Basura
    /\ recursosCpu = <<>> /\ recursosIo = <<>>
    /\ hilo = [c \in Conexiones |-> "sinCrear"]
    /\ tabla = [f \in Fds |-> Libre]
    /\ fdDe = [c \in Conexiones |-> SinFd]
    /\ llegadas = [s \in Puertos |-> <<>>]
    /\ aceptadas = [s \in Puertos |-> 0]
    /\ enviado = [c \in Conexiones |-> 0]
    /\ leido = [c \in Conexiones |-> 0]
    /\ rotas = {}
    /\ pcCliente = [p \in Procesos |-> "sinLanzar"]

-----------------------------------------------------------------------------
(* main of the kernel *)

PasoMain(desde, hacia) ==
    /\ ~caido
    /\ pcMain = desde
    /\ pcMain' = hacia

\* Connect to the memory and send it the greeting; a failure is CaidaKernel.
ConectarMemoriaKernel ==
    /\ PasoMain("memoria", "escucharIo")
    /\ UNCHANGED <<caido, escucha, varsHiloCpu, varsHiloIo, hilo, tabla,
                   varsAcepta, varsLectura, varsCliente>>

\* iniciar_servidor: from the listen call on, clients can connect.
IniciarServidor(desde, puerto, hacia) ==
    /\ PasoMain(desde, hacia)
    /\ escucha' = escucha \cup {puerto}
    /\ UNCHANGED <<caido, varsHiloCpu, varsHiloIo, hilo, tabla, varsAcepta,
                   varsLectura, varsCliente>>

CrearHiloIo ==
    /\ PasoMain("crearHiloIo", "crearHiloCpu")
    /\ pcIo' = "aceptarIo"
    /\ UNCHANGED <<caido, escucha, varsHiloCpu, nombreIo, recursosIo, hilo,
                   tabla, varsAcepta, varsLectura, varsCliente>>

CrearHiloCpu ==
    /\ PasoMain("crearHiloCpu", "fin")
    /\ pcCpu' = "aceptarEnvio"
    /\ UNCHANGED <<caido, escucha, nombreCpu, recursosCpu, varsHiloIo, hilo,
                   tabla, varsAcepta, varsLectura, varsCliente>>

Main ==
    \/ ConectarMemoriaKernel
    \/ IniciarServidor("escucharIo", "io", "escucharEnvio")
    \/ IniciarServidor("escucharEnvio", "envio", "escucharInterrupcion")
    \/ IniciarServidor("escucharInterrupcion", "interrupcion", "crearHiloIo")
    \/ CrearHiloIo
    \/ CrearHiloCpu

\* The kernel process goes: a signal, an abort() of its start-up, or a fault in
\* the memory it reads or frees without having written it (recibir_buffer
\* after a failed recv, eliminar_paquete of a packet without a stream).
CaidaKernel ==
    /\ ~caido
    /\ caido' = TRUE
    /\ UNCHANGED <<varsMain, varsHiloCpu, varsHiloIo, hilo, tabla, varsAcepta,
                   varsLectura, varsCliente>>

-----------------------------------------------------------------------------
(* The accepting threads *)

HayLlegada(s) == aceptadas[s] < Len(llegadas[s])

\* The connection accept returned last on a port: the thread's local variable.
Actual(s) == llegadas[s][aceptadas[s]]

\* esperar_cliente: the oldest connection of the port, under the lowest free
\* descriptor number.
Aceptar(s) ==
    /\ HayLlegada(s)
    /\ aceptadas' = [aceptadas EXCEPT ![s] = @ + 1]
    /\ \E f \in Fds :
          /\ tabla[f] = Libre
          /\ \A g \in Fds : tabla[g] = Libre => f <= g
          /\ tabla' = [tabla EXCEPT ![f] = llegadas[s][aceptadas[s] + 1]]
          /\ fdDe' = [fdDe EXCEPT ![llegadas[s][aceptadas[s] + 1]] = f]

\* pthread_create of atender_cliente_kernel for a connection.
CrearHilo(c) == hilo' = [hilo EXCEPT ![c] = "operacion"]

PasoCpu(desde, hacia) ==
    /\ ~caido
    /\ pcCpu = desde
    /\ pcCpu' = hacia
    /\ UNCHANGED <<varsMain, caido, varsHiloIo, varsCliente>>

\* Mutant: the thread of the connection is created before its greeting is read.
AceptarEnvioConHilo ==
    /\ PasoCpu("aceptarEnvio", "operacionCpu")
    /\ Aceptar("envio")
    /\ CrearHilo(llegadas["envio"][aceptadas["envio"] + 1])
    /\ UNCHANGED <<nombreCpu, recursosCpu, varsLectura>>

AceptarEnvio ==
    /\ PasoCpu("aceptarEnvio", "operacionCpu")
    /\ Aceptar("envio")
    /\ UNCHANGED <<nombreCpu, recursosCpu, hilo, varsLectura>>

\* recibir_handshake does not look at the code it received.
OperacionHandshakeCpu ==
    /\ PasoCpu("operacionCpu", "bufferCpu")
    /\ \E op \in Operaciones : RecibirOperacion(fdDe[Actual("envio")], op)
    /\ UNCHANGED <<nombreCpu, recursosCpu, hilo, varsAcepta>>

\* Mutants: the descriptor is closed once the greeting was read; the name that was
\* read is not kept.
BufferHandshakeCpuCierra ==
    /\ PasoCpu("bufferCpu", "aceptarInterrupcion")
    /\ RecibirBuffer(fdDe[Actual("envio")], nombreCpu')
    /\ Cerrar(fdDe[Actual("envio")])
    /\ UNCHANGED <<recursosCpu, hilo, varsAcepta>>
BufferHandshakeCpuSinNombre ==
    /\ PasoCpu("bufferCpu", "aceptarInterrupcion")
    /\ \E nombre \in Cpus \cup {Basura} : RecibirBuffer(fdDe[Actual("envio")], nombre)
    /\ UNCHANGED <<nombreCpu, recursosCpu, hilo, tabla, varsAcepta>>

BufferHandshakeCpu ==
    /\ PasoCpu("bufferCpu", "aceptarInterrupcion")
    /\ RecibirBuffer(fdDe[Actual("envio")], nombreCpu')
    /\ UNCHANGED <<recursosCpu, hilo, tabla, varsAcepta>>

\* Mutant: the dispatch connection gets its thread before the CPU is listed.
AceptarInterrupcionConHilo ==
    /\ PasoCpu("aceptarInterrupcion", "registrarCpu")
    /\ Aceptar("interrupcion")
    /\ CrearHilo(Actual("envio"))
    /\ UNCHANGED <<nombreCpu, recursosCpu, varsLectura>>

AceptarInterrupcion ==
    /\ PasoCpu("aceptarInterrupcion", "registrarCpu")
    /\ Aceptar("interrupcion")
    /\ UNCHANGED <<nombreCpu, recursosCpu, hilo, varsLectura>>

AgregarCpu(envio, interrupcion) ==
    /\ PasoCpu("registrarCpu", "crearHiloEnvio")
    /\ recursosCpu' = Append(recursosCpu, [socket_envio        |-> fdDe[envio],
                                           socket_interrupcion |-> fdDe[interrupcion],
                                           disponible          |-> TRUE,
                                           nombre_cpu          |-> nombreCpu])
    /\ UNCHANGED <<nombreCpu, hilo, tabla, varsAcepta, varsLectura>>

\* Mutants: the two sockets are swapped; one is stored twice.
RegistrarCpuCruzado == AgregarCpu(Actual("interrupcion"), Actual("envio"))
RegistrarCpuRepetido == AgregarCpu(Actual("envio"), Actual("envio"))

RegistrarCpu == AgregarCpu(Actual("envio"), Actual("interrupcion"))

CrearHiloEnvio ==
    /\ PasoCpu("crearHiloEnvio", "crearHiloInterrupcion")
    /\ CrearHilo(Actual("envio"))
    /\ UNCHANGED <<nombreCpu, recursosCpu, tabla, varsAcepta, varsLectura>>

\* Mutants: the loop runs once; the second thread is forgotten.
CrearHiloInterrupcionYSalir ==
    /\ PasoCpu("crearHiloInterrupcion", "sinCrear")
    /\ CrearHilo(Actual("interrupcion"))
    /\ UNCHANGED <<nombreCpu, recursosCpu, tabla, varsAcepta, varsLectura>>
OlvidarHiloInterrupcion ==
    /\ PasoCpu("crearHiloInterrupcion", "aceptarEnvio")
    /\ UNCHANGED <<nombreCpu, recursosCpu, hilo, tabla, varsAcepta, varsLectura>>

CrearHiloInterrupcion ==
    /\ PasoCpu("crearHiloInterrupcion", "aceptarEnvio")
    /\ CrearHilo(Actual("interrupcion"))
    /\ UNCHANGED <<nombreCpu, recursosCpu, tabla, varsAcepta, varsLectura>>

AtenderConexionCpu ==
    \/ AceptarEnvio \/ OperacionHandshakeCpu \/ BufferHandshakeCpu
    \/ AceptarInterrupcion \/ RegistrarCpu
    \/ CrearHiloEnvio \/ CrearHiloInterrupcion

PasoIo(desde, hacia) ==
    /\ ~caido
    /\ pcIo = desde
    /\ pcIo' = hacia
    /\ UNCHANGED <<varsMain, caido, varsHiloCpu, varsCliente>>

\* Mutant: the thread of the connection is created before its greeting is read.
AceptarIoConHilo ==
    /\ PasoIo("aceptarIo", "operacionIo")
    /\ Aceptar("io")
    /\ CrearHilo(llegadas["io"][aceptadas["io"] + 1])
    /\ UNCHANGED <<nombreIo, recursosIo, varsLectura>>

AceptarIo ==
    /\ PasoIo("aceptarIo", "operacionIo")
    /\ Aceptar("io")
    /\ UNCHANGED <<nombreIo, recursosIo, hilo, varsLectura>>

OperacionHandshakeIo ==
    /\ PasoIo("operacionIo", "bufferIo")
    /\ \E op \in Operaciones : RecibirOperacion(fdDe[Actual("io")], op)
    /\ UNCHANGED <<nombreIo, recursosIo, hilo, varsAcepta>>

\* Mutant: the thread of the connection is created before the IO is listed.
BufferHandshakeIoConHilo ==
    /\ PasoIo("bufferIo", "registrarIo")
    /\ RecibirBuffer(fdDe[Actual("io")], nombreIo')
    /\ CrearHilo(Actual("io"))
    /\ UNCHANGED <<recursosIo, tabla, varsAcepta>>

BufferHandshakeIo ==
    /\ PasoIo("bufferIo", "registrarIo")
    /\ RecibirBuffer(fdDe[Actual("io")], nombreIo')
    /\ UNCHANGED <<recursosIo, hilo, tabla, varsAcepta>>

\* Mutant: the new resource goes to the front of the list.
RegistrarIoAlPrincipio ==
    /\ PasoIo("registrarIo", "crearHiloAtenderIo")
    /\ recursosIo' = <<[socket     |-> fdDe[Actual("io")],
                        disponible |-> TRUE,
                        nombre_io  |-> nombreIo]>> \o recursosIo
    /\ UNCHANGED <<nombreIo, hilo, tabla, varsAcepta, varsLectura>>

RegistrarIo ==
    /\ PasoIo("registrarIo", "crearHiloAtenderIo")
    /\ recursosIo' = Append(recursosIo, [socket     |-> fdDe[Actual("io")],
                                         disponible |-> TRUE,
                                         nombre_io  |-> nombreIo])
    /\ UNCHANGED <<nombreIo, hilo, tabla, varsAcepta, varsLectura>>

CrearHiloAtenderIo ==
    /\ PasoIo("crearHiloAtenderIo", "aceptarIo")
    /\ CrearHilo(Actual("io"))
    /\ UNCHANGED <<nombreIo, recursosIo, tabla, varsAcepta, varsLectura>>

AtenderConexionIo ==
    \/ AceptarIo \/ OperacionHandshakeIo \/ BufferHandshakeIo
    \/ RegistrarIo \/ CrearHiloAtenderIo

-----------------------------------------------------------------------------
(* atender_cliente_kernel, one thread per connection *)

PasoHilo(c, desde, hacia) ==
    /\ ~caido
    /\ hilo[c] = desde
    /\ hilo' = [hilo EXCEPT ![c] = hacia]
    /\ UNCHANGED <<varsMain, caido, varsHiloCpu, varsHiloIo, varsAcepta,
                   varsCliente>>

\* Mutant: no case for DESCONEXION.
TrasOperacionSinDesconexion(op) == IF op = "desconocida" THEN "operacion" ELSE op

\* An unknown code is logged and the loop goes on.
TrasOperacion(op) == CASE op = "DESCONEXION" -> "terminado"
                       [] op = "desconocida" -> "operacion"
                       [] OTHER              -> op

AtenderOperacion(c) ==
    \E op \in Operaciones :
        /\ PasoHilo(c, "operacion", TrasOperacion(op))
        /\ RecibirOperacion(fdDe[c], op)

AtenderBuffer(c) ==
    /\ \E op \in {"HANDSHAKE", "MENSAJE"} : PasoHilo(c, op, "operacion")
    /\ \E nombre \in Procesos \cup {Basura} : RecibirBuffer(fdDe[c], nombre)
    /\ UNCHANGED tabla

AtenderCliente(c) == AtenderOperacion(c) \/ AtenderBuffer(c)

-----------------------------------------------------------------------------
(* The clients: main of the CPU and of the IO *)

PasoCliente(p, desde, hacia) ==
    /\ pcCliente[p] = desde
    /\ pcCliente' = [pcCliente EXCEPT ![p] = hacia]
    /\ UNCHANGED <<varsMain, caido, varsHiloCpu, varsHiloIo, hilo, tabla,
                   varsAcepta, varsLectura>>

Conexion(p, s) == [proc |-> p, puerto |-> s]

Escuchando(s) == ~caido /\ s \in escucha

\* The kernel no longer holds its end of an established connection.
Cerrada(c) == \/ caido
              \/ fdDe[c] # SinFd /\ tabla[fdDe[c]] # c

Lanzar(p) ==
    /\ EsperanKernel => pcMain = "fin"
    /\ PasoCliente(p, "sinLanzar",
                   IF p \in Cpus THEN "conectarEnvio" ELSE "conectarIo")
    /\ UNCHANGED <<llegadas, enviado>>

\* crear_conexion: the connection is established by the listening socket,
\* before any accept; without one the client aborts.
Conectar(p, desde, s, hacia) ==
    \/ /\ Escuchando(s)
       /\ PasoCliente(p, desde, hacia)
       /\ llegadas' = [llegadas EXCEPT ![s] = Append(@, Conexion(p, s))]
       /\ UNCHANGED enviado
    \/ /\ ~Escuchando(s)
       /\ PasoCliente(p, desde, "terminado")
       /\ UNCHANGED <<llegadas, enviado>>

\* enviar_handshake, enviar_mensaje: one send of a whole packet.  With the other
\* end gone it is lost, or its SIGPIPE kills the client.
Enviar(p, desde, s, hacia) ==
    /\ UNCHANGED llegadas
    /\ \/ /\ PasoCliente(p, desde, hacia)
          /\ enviado' = [enviado EXCEPT ![Conexion(p, s)] = @ + 2]
       \/ /\ Cerrada(Conexion(p, s))
          /\ PasoCliente(p, desde, "terminado")
          /\ UNCHANGED enviado

\* The connection to the memory, which aborts the CPU when it is refused.
ConectarMemoria(p) ==
    /\ \E hacia \in {"mensajeEnvio", "terminado"} :
          PasoCliente(p, "conectarMemoria", hacia)
    /\ UNCHANGED <<llegadas, enviado>>

\* The last message goes to the memory; main returns and the sockets close.
MensajeMemoria(p) ==
    /\ PasoCliente(p, "mensajeMemoria", "terminado")
    /\ UNCHANGED <<llegadas, enviado>>

MainCpu(p) ==
    \/ Conectar(p, "conectarEnvio", "envio", "saludarEnvio")
    \/ Enviar(p, "saludarEnvio", "envio", "conectarInterrupcion")
    \/ Conectar(p, "conectarInterrupcion", "interrupcion", "saludarInterrupcion")
    \/ Enviar(p, "saludarInterrupcion", "interrupcion", "conectarMemoria")
    \/ ConectarMemoria(p)
    \/ Enviar(p, "mensajeEnvio", "envio", "mensajeInterrupcion")
    \/ Enviar(p, "mensajeInterrupcion", "interrupcion", "mensajeMemoria")
    \/ MensajeMemoria(p)

\* Mutant: a failed recv is tried again.
PedidoReintentado(p) ==
    /\ Cerrada(Conexion(p, "io"))
    /\ PasoCliente(p, "esperandoPedido", "esperandoPedido")
    /\ UNCHANGED <<llegadas, enviado>>

\* The kernel sends no request, so the IO's recv returns when it is closed.
PedidoFallido(p) ==
    /\ Cerrada(Conexion(p, "io"))
    /\ PasoCliente(p, "esperandoPedido", "terminado")
    /\ UNCHANGED <<llegadas, enviado>>

MainIo(p) ==
    \/ Conectar(p, "conectarIo", "io", "saludarIo")
    \/ Enviar(p, "saludarIo", "io", "esperandoPedido")
    \/ PedidoFallido(p)

MainCliente(p) == (p \in Cpus /\ MainCpu(p)) \/ (p \in Ios /\ MainIo(p))

\* The client is killed; its sockets close.
Morir(p) ==
    /\ pcCliente[p] \in PuntosDeMuerte
    /\ PasoCliente(p, pcCliente[p], "terminado")
    /\ UNCHANGED <<llegadas, enviado>>

-----------------------------------------------------------------------------
(* Specification *)

Next ==
    \/ Main \/ CaidaKernel
    \/ AtenderConexionCpu \/ AtenderConexionIo
    \/ \E c \in Conexiones : AtenderCliente(c)
    \/ \E p \in Procesos : Lanzar(p) \/ MainCliente(p) \/ Morir(p)

\* Every thread that can take a step takes it some time: the operating system
\* schedules it.  Nobody is bound to launch a client, to kill it, or to bring
\* the kernel down.
Fairness ==
    /\ WF_vars(Main)
    /\ WF_vars(AtenderConexionCpu)
    /\ WF_vars(AtenderConexionIo)
    /\ \A c \in Conexiones : WF_vars(AtenderCliente(c))
    /\ \A p \in Procesos : WF_vars(MainCliente(p))

Spec == Init /\ [][Next]_vars /\ Fairness

-----------------------------------------------------------------------------
(* Type invariant *)

RecursosCpu == [socket_envio : Fds, socket_interrupcion : Fds,
                disponible : BOOLEAN, nombre_cpu : Procesos \cup {Basura}]
RecursosIo  == [socket : Fds, disponible : BOOLEAN,
                nombre_io : Procesos \cup {Basura}]

\* The values every variable ranges over (the declarations of kernel.c).
TypeOK ==
    /\ pcMain \in {"memoria", "escucharIo", "escucharEnvio",
                   "escucharInterrupcion", "crearHiloIo", "crearHiloCpu", "fin"}
    /\ caido \in BOOLEAN
    /\ escucha \subseteq Puertos
    /\ pcCpu \in {"sinCrear", "aceptarEnvio", "operacionCpu", "bufferCpu",
                  "aceptarInterrupcion", "registrarCpu", "crearHiloEnvio",
                  "crearHiloInterrupcion"}
    /\ nombreCpu \in Procesos \cup {Basura}
    /\ pcIo \in {"sinCrear", "aceptarIo", "operacionIo", "bufferIo",
                 "registrarIo", "crearHiloAtenderIo"}
    /\ nombreIo \in Procesos \cup {Basura}
    /\ recursosCpu \in Seq(RecursosCpu)
    /\ recursosIo \in Seq(RecursosIo)
    /\ hilo \in [Conexiones -> {"sinCrear", "operacion", "HANDSHAKE", "MENSAJE",
                                "terminado"}]
    /\ tabla \in [Fds -> Conexiones \cup {Libre}]
    /\ fdDe \in [Conexiones -> Fds \cup {SinFd}]
    /\ llegadas \in [Puertos -> Seq(Conexiones)]
    /\ aceptadas \in [Puertos -> Nat]
    /\ enviado \in [Conexiones -> Nat]
    /\ leido \in [Conexiones -> Nat]
    /\ rotas \subseteq Conexiones
    /\ pcCliente \in [Procesos -> PuntosCliente]

-----------------------------------------------------------------------------
(* Safety *)

\* Descriptor numbers are reused, and the threads of atender_cliente_kernel keep
\* using the one they were given: until a thread ends, its number denotes the
\* connection it was created for (kernel.c:215, socket.c:265).
HiloConSuConexion ==
    \A c \in Conexiones :
        fdDe[c] # SinFd /\ hilo[c] # "terminado" => tabla[fdDe[c]] = c

\* A connection is read by one thread at a time and packet by packet: the
\* acceptor leaves the stream of a CPU or an IO between two packets for the
\* thread that takes over (kernel.c:153 and 170, 186 and 201).
EntrePaquetes ==
    /\ rotas = {}
    /\ \A c \in Conexiones :
          /\ hilo[c] = "operacion" => leido[c] % 2 = 0
          /\ hilo[c] \in {"HANDSHAKE", "MENSAJE"} =>
                leido[c] % 2 = 1 /\ Celdas(c)[leido[c]] = hilo[c]
          /\ hilo[c] = "sinCrear" /\ leido[c] # 0 =>
                \/ c.puerto = "envio" /\ pcCpu # "aceptarEnvio" /\ c = Actual("envio")
                \/ c.puerto = "io" /\ pcIo # "aceptarIo" /\ c = Actual("io")

\* recursos_cpu and recursos_io list the connections in the order of arrival at
\* their ports: the sockets of the k-th CPU are the k-th connections of the two
\* ports, the socket of the k-th IO is the k-th of its port, whoever made them and
\* whatever became of him: after a CPU that died early, each CPU is paired with the
\* one that follows (kernel.c:152-165, 185-195).
SocketsPorOrden ==
    /\ \A k \in 1 .. Len(recursosCpu) :
          /\ k <= aceptadas["envio"] /\ k <= aceptadas["interrupcion"]
          /\ recursosCpu[k].socket_envio = fdDe[llegadas["envio"][k]]
          /\ recursosCpu[k].socket_interrupcion = fdDe[llegadas["interrupcion"][k]]
    /\ \A k \in 1 .. Len(recursosIo) :
          /\ k <= aceptadas["io"]
          /\ recursosIo[k].socket = fdDe[llegadas["io"][k]]

\* Each resource carries the name of the process that opened its connection (the
\* dispatch one, for a CPU), by which the kernel can identify it (io.c:29,
\* kernel.c:162 and 192).
Identificados ==
    /\ \A k \in 1 .. Len(recursosCpu) :
          recursosCpu[k].nombre_cpu = llegadas["envio"][k].proc
    /\ \A k \in 1 .. Len(recursosIo) :
          recursosIo[k].nombre_io = llegadas["io"][k].proc

\* The pairing is right as long as the CPUs' connections arrive in the same
\* order at both ports.
MismoOrden ==
    \A k \in 1 .. Len(llegadas["interrupcion"]) :
        /\ k <= Len(llegadas["envio"])
        /\ llegadas["interrupcion"][k].proc = llegadas["envio"][k].proc

ParejaDelMismoCpu ==
    \A k \in 1 .. Len(recursosCpu) :
        \E p \in Cpus :
            /\ recursosCpu[k].nombre_cpu = p
            /\ recursosCpu[k].socket_envio = fdDe[Conexion(p, "envio")]
            /\ recursosCpu[k].socket_interrupcion = fdDe[Conexion(p, "interrupcion")]

ParejaSiMismoOrden == MismoOrden => ParejaDelMismoCpu

\* The kernel closes a descriptor once, from the thread of the connection behind
\* it, when that process is gone and every packet it sent was read: no message is
\* lost, and neither an acceptor nor another connection's thread closes it
\* (socket.c:262-266, kernel.c:215 and 237-241).
CierraSoloSuHilo ==
    [][\A f \in Fds :
          tabla[f] # Libre /\ tabla'[f] # tabla[f] =>
              /\ tabla'[f] = Libre
              /\ hilo[tabla[f]] = "operacion" /\ hilo'[tabla[f]] = "terminado"
              /\ Terminado(tabla[f].proc)
              /\ leido[tabla[f]] = enviado[tabla[f]]]_vars

-----------------------------------------------------------------------------
(* Refinement *)

\* The registry a user of the lists sees: the open connections are those in the
\* descriptor table, and the number of a connection is the one accept gave it.
Abstracto == INSTANCE RegistroAbstracto
    WITH numero     <- fdDe,
         abiertas   <- {tabla[f] : f \in Fds} \ {Libre},
         concluidos <- {p \in Procesos : Terminado(p)}

\* The threads of kernel.c implement that registry.
ImplementaAbstracto == Abstracto!Spec

-----------------------------------------------------------------------------
(* Liveness *)

CpuRegistrado(p) == \E k \in 1 .. Len(recursosCpu) : recursosCpu[k].nombre_cpu = p
IoRegistrado(p)  == \E k \in 1 .. Len(recursosIo) : recursosIo[k].nombre_io = p

Llego(c) == \E k \in 1 .. Len(llegadas[c.puerto]) : llegadas[c.puerto][k] = c

\* Every client that opens its first connection ends up in its list
\* (kernel.c:75-76), or the kernel goes.
TodosSeRegistran ==
    /\ \A p \in Cpus : Llego(Conexion(p, "envio")) ~> CpuRegistrado(p) \/ caido
    /\ \A p \in Ios : Llego(Conexion(p, "io")) ~> IoRegistrado(p) \/ caido

\* A CPU that opens both its connections is listed (kernel.c:75-76), whatever
\* happened to the CPUs before it, or the kernel goes.
CpuConectadoSeRegistra ==
    \A p \in Cpus :
        Llego(Conexion(p, "envio")) /\ Llego(Conexion(p, "interrupcion"))
            ~> CpuRegistrado(p) \/ caido

\* The connections of a client that ends are all read to the end and closed
\* (socket.c:262-266), whatever was left unread when it ended.
SeLiberanDescriptores ==
    \A p \in Procesos :
        Terminado(p)
            ~> \/ caido
               \/ \A c \in Conexiones :
                     c.proc = p /\ Llego(c)
                         => hilo[c] = "terminado" /\ leido[c] = enviado[c]

\* When the kernel goes, the clients end: no IO waits forever (io.c:45, 60-64).
ClientesTerminan ==
    caido ~> \A p \in Procesos : pcCliente[p] \in {"sinLanzar", "terminado"}

=============================================================================
