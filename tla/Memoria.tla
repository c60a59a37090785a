------------------------------- MODULE Memoria -------------------------------
(***************************************************************************)
(* The memory server: main accepts for ever and leaves each connection to  *)
(* a thread of its own, atender_cliente_memoria.  The table of descriptors *)
(* is shared by main, the threads, and the files the threads open          *)
(* (leer_archivo_pseudocodigo).                                            *)
(*                                                                         *)
(* Packets arrive whole, as Enlace describes; the clients are the kernel,  *)
(* the CPUs, and any program that asks for CREAR_PROCESO.                  *)
(***************************************************************************)
EXTENDS Naturals, Sequences

CONSTANTS
    Clientes,   \* programs that connect to the memory, once each
    Programa,   \* the codes of the packets each one sends, in order
    Terminan,   \* clients that send everything and end: all but the kernel
    Fds,        \* descriptor numbers left for connections and files
    MaxHuecos,  \* bound on the threads alive at a time without a connection
    Libre, Nada \* a free number; no number

ASSUME ClientesYNumeros ==
    /\ Programa \in [Clientes -> Seq({"MENSAJE", "CREAR_PROCESO"})]
    /\ Terminan \subseteq Clientes /\ MaxHuecos \in Nat /\ Fds \subseteq Nat
    /\ Nada \notin Fds /\ Libre \notin Clientes

VARIABLES
    escucha,    \* main has its listening socket
    caida,      \* the process has gone
    cliente,    \* "afuera", "conectado" or "cerrado"
    pendientes, \* connections that no accept has returned, in order
    enviados,   \* packets each client has sent
    leidos,     \* packets that were taken from each connection
    tabla,      \* what each number denotes: a connection, an open file, or Libre
    hilo,       \* thread of each connection: "ninguno", "recibe", "abre", "lee", "terminado"
    numero,     \* its *fd_conexion_ptr
    archivo,    \* the number its fopen took
    recibidos,  \* the packets it took
    huecos      \* threads whose accept returned -1, alive

varsCliente == <<cliente, enviados>>
varsHilo    == <<leidos, hilo, numero, archivo, recibidos>>
vars == <<escucha, caida, pendientes, tabla, huecos, varsCliente, varsHilo>>

Archivo(c)  == <<"archivo", c>>

ASSUME ArchivosAparte == \A c \in Clientes : Archivo(c) \notin Clientes \cup {Libre}

Libres      == {f \in Fds : tabla[f] = Libre}
MenorLibre  == CHOOSE f \in Libres : \A g \in Libres : f <= g
Tomar(f, x) == tabla' = [tabla EXCEPT ![f] = x]

\* close and fclose; a number that is already free stays so.
Soltar(f) == tabla' = [g \in Fds |-> IF g = f THEN Libre ELSE tabla[g]]

Init ==
    /\ escucha = FALSE /\ caida = FALSE /\ pendientes = <<>> /\ huecos = 0
    /\ cliente = [c \in Clientes |-> "afuera"]
    /\ enviados = [c \in Clientes |-> 0] /\ leidos = enviados
    /\ tabla = [f \in Fds |-> Libre]
    /\ hilo = [c \in Clientes |-> "ninguno"]
    /\ numero = [c \in Clientes |-> Nada] /\ archivo = numero
    /\ recibidos = [c \in Clientes |-> <<>>]

-----------------------------------------------------------------------------
(* main *)

\* iniciar_servidor listens or aborts.
IniciarServidor ==
    /\ ~escucha /\ ~caida
    /\ \/ escucha' = TRUE /\ UNCHANGED caida
       \/ caida' = TRUE /\ UNCHANGED escucha
    /\ UNCHANGED <<pendientes, tabla, huecos, varsCliente, varsHilo>>

\* Mutant: one variable for every connection, not one malloc each.
AceptarCompartido ==
    /\ escucha /\ ~caida /\ pendientes # <<>> /\ Libres # {}
    /\ LET c == Head(pendientes)
       IN  /\ pendientes' = Tail(pendientes) /\ Tomar(MenorLibre, c)
           /\ hilo' = [hilo EXCEPT ![c] = "recibe"]
           /\ numero' = [d \in Clientes |-> MenorLibre]
    /\ UNCHANGED <<escucha, caida, huecos, varsCliente, leidos, archivo, recibidos>>

\* accept, with the lowest free number, and pthread_create.
Aceptar ==
    /\ escucha /\ ~caida /\ pendientes # <<>> /\ Libres # {}
    /\ LET c == Head(pendientes)
       IN  /\ pendientes' = Tail(pendientes) /\ Tomar(MenorLibre, c)
           /\ hilo' = [hilo EXCEPT ![c] = "recibe"]
           /\ numero' = [numero EXCEPT ![c] = MenorLibre]
    /\ UNCHANGED <<escucha, caida, huecos, varsCliente, leidos, archivo, recibidos>>

\* Mutant: main stops when accept fails.
AceptarSinNumeroSale ==
    /\ escucha /\ ~caida /\ Libres = {} /\ escucha' = FALSE
    /\ UNCHANGED <<huecos, caida, pendientes, tabla, varsCliente, varsHilo>>

\* With a full table accept returns -1 at once, and main creates a thread for it.
AceptarSinNumero ==
    /\ escucha /\ ~caida /\ Libres = {} /\ huecos < MaxHuecos
    /\ huecos' = huecos + 1
    /\ UNCHANGED <<escucha, caida, pendientes, tabla, varsCliente, varsHilo>>

\* Its recv and its close fail, and it frees a stream that nobody wrote.
TerminarHueco ==
    /\ huecos > 0 /\ ~caida
    /\ huecos' = huecos - 1 /\ caida' \in BOOLEAN
    /\ UNCHANGED <<escucha, pendientes, tabla, varsCliente, varsHilo>>

-----------------------------------------------------------------------------
(* atender_cliente_memoria *)

\* Mutant: recv does not wait.
HayPaqueteSinEsperar(x) == x \in Clientes

HayPaquete(x) == x \in Clientes /\ leidos[x] < enviados[x]

\* recv returns 0, or fails because the number is not a connection.
HayFin(x) == x \in Clientes => leidos[x] = enviados[x] /\ cliente[x] = "cerrado"

\* Mutant: a code without a case ends the thread.
TrasPaqueteSale(op) == IF op = "CREAR_PROCESO" THEN "abre" ELSE "terminado"

\* The switch: only CREAR_PROCESO does something.
TrasPaquete(op) == IF op = "CREAR_PROCESO" THEN "abre" ELSE "recibe"

\* One packet of whatever connection the number denotes; eliminar_paquete after
\* a code without a case may bring the process down.
RecibirPaquete(c) ==
    LET x  == tabla[numero[c]]
        op == Programa[x][leidos[x] + 1]
    IN  /\ hilo[c] = "recibe" /\ ~caida /\ HayPaquete(x)
        /\ leidos' = [leidos EXCEPT ![x] = @ + 1]
        /\ recibidos' = [recibidos EXCEPT ![c] = Append(@, <<x, leidos[x] + 1>>)]
        /\ hilo' = [hilo EXCEPT ![c] = TrasPaquete(op)]
        /\ caida' \in IF op = "CREAR_PROCESO" THEN {FALSE} ELSE BOOLEAN
        /\ UNCHANGED <<escucha, pendientes, tabla, huecos, varsCliente, numero, archivo>>

\* The end: recibir_operacion closes, and the DESCONEXION case frees and returns.
RecibirFin(c) ==
    /\ hilo[c] = "recibe" /\ ~caida /\ HayFin(tabla[numero[c]])
    /\ Soltar(numero[c])
    /\ hilo' = [hilo EXCEPT ![c] = "terminado"]
    /\ caida' \in BOOLEAN
    /\ UNCHANGED <<escucha, pendientes, huecos, varsCliente, leidos, numero, archivo, recibidos>>

\* strcat writes the name past the end of folder[], which may bring the process
\* down; otherwise fopen takes a number, or finds no file, or no number.
AbrirArchivo(c) ==
    /\ hilo[c] = "abre" /\ ~caida
    /\ \/ /\ Libres # {}
          /\ Tomar(MenorLibre, Archivo(c))
          /\ archivo' = [archivo EXCEPT ![c] = MenorLibre]
          /\ hilo' = [hilo EXCEPT ![c] = "lee"]
          /\ UNCHANGED caida
       \/ /\ hilo' = [hilo EXCEPT ![c] = "recibe"]
          /\ caida' \in BOOLEAN
          /\ UNCHANGED <<tabla, archivo>>
    /\ UNCHANGED <<escucha, pendientes, huecos, varsCliente, leidos, numero, recibidos>>

\* Mutant: the file stays open.
CerrarArchivoSinFclose(c) ==
    /\ hilo[c] = "lee" /\ ~caida
    /\ hilo' = [hilo EXCEPT ![c] = "recibe"] /\ caida' \in BOOLEAN
    /\ UNCHANGED <<tabla, escucha, pendientes, huecos, varsCliente, leidos, numero, archivo, recibidos>>

\* The lines are printed, the file is closed, and the return looks at the stack.
CerrarArchivo(c) ==
    /\ hilo[c] = "lee" /\ ~caida
    /\ Soltar(archivo[c])
    /\ hilo' = [hilo EXCEPT ![c] = "recibe"] /\ caida' \in BOOLEAN
    /\ UNCHANGED <<escucha, pendientes, huecos, varsCliente, leidos, numero, archivo, recibidos>>

AtenderCliente(c) ==
    RecibirPaquete(c) \/ RecibirFin(c) \/ AbrirArchivo(c) \/ CerrarArchivo(c)

-----------------------------------------------------------------------------
(* The clients *)

\* crear_conexion: established by the listening socket, or refused and abort.
Conectar(c) ==
    /\ cliente[c] = "afuera"
    /\ IF escucha /\ ~caida
       THEN /\ cliente' = [cliente EXCEPT ![c] = "conectado"]
            /\ pendientes' = Append(pendientes, c)
       ELSE /\ cliente' = [cliente EXCEPT ![c] = "cerrado"]
            /\ UNCHANGED pendientes
    /\ UNCHANGED <<escucha, caida, tabla, huecos, enviados, varsHilo>>

Enviar(c) ==
    /\ cliente[c] = "conectado" /\ enviados[c] < Len(Programa[c])
    /\ enviados' = [enviados EXCEPT ![c] = @ + 1]
    /\ UNCHANGED <<escucha, caida, pendientes, tabla, huecos, cliente, varsHilo>>

\* It ends, or is killed: after any of its sends.
Cerrar(c) ==
    /\ cliente[c] = "conectado"
    /\ cliente' = [cliente EXCEPT ![c] = "cerrado"]
    /\ UNCHANGED <<escucha, caida, pendientes, tabla, huecos, enviados, varsHilo>>

-----------------------------------------------------------------------------

Main == Aceptar \/ AceptarSinNumero

Next ==
    \/ IniciarServidor \/ Main \/ TerminarHueco
    \/ \E c \in Clientes : AtenderCliente(c) \/ Conectar(c) \/ Enviar(c) \/ Cerrar(c)

\* Threads are scheduled, and clients that end do so; nobody has to connect.
Spec ==
    /\ Init /\ [][Next]_vars
    /\ WF_vars(Main) /\ WF_vars(TerminarHueco)
    /\ \A c \in Clientes : WF_vars(AtenderCliente(c))
    /\ \A c \in Terminan : WF_vars(Enviar(c) \/ Cerrar(c))

-----------------------------------------------------------------------------
(* Properties *)

TypeOK ==
    /\ escucha \in BOOLEAN /\ caida \in BOOLEAN /\ huecos \in Nat
    /\ cliente \in [Clientes -> {"afuera", "conectado", "cerrado"}]
    /\ pendientes \in Seq(Clientes)
    /\ enviados \in [Clientes -> Nat] /\ leidos \in [Clientes -> Nat]
    /\ \A c \in Clientes : leidos[c] <= enviados[c] /\ enviados[c] <= Len(Programa[c])
    /\ tabla \in [Fds -> Clientes \cup {Libre} \cup {Archivo(c) : c \in Clientes}]
    /\ hilo \in [Clientes -> {"ninguno", "recibe", "abre", "lee", "terminado"}]
    /\ numero \in [Clientes -> Fds \cup {Nada}] /\ archivo \in [Clientes -> Fds \cup {Nada}]
    /\ recibidos \in [Clientes -> Seq(Clientes \X Nat)]

\* While a thread runs, its number denotes its own connection, and the number of
\* the file it reads that file: nobody else closes them although accept, fopen,
\* close and fclose of every thread share one table (memoria.c:31-35, 166, 177,
\* socket.c:265).
NumerosPropios ==
    \A c \in Clientes :
        /\ hilo[c] \in {"recibe", "abre", "lee"} =>
              numero[c] \in Fds /\ tabla[numero[c]] = c
        /\ hilo[c] = "lee" => archivo[c] \in Fds /\ tabla[archivo[c]] = Archivo(c)

Promesa(c) == INSTANCE Canal
    WITH Mensajes  <- {c} \X (1 .. Len(Programa[c])),
         enviados  <- [k \in 1 .. enviados[c] |-> <<c, k>>],
         recibidos <- recibidos[c],
         cerrado   <- cliente[c] = "cerrado",
         terminado <- hilo[c] = "terminado"

\* Each client has the memory for itself: its thread takes its packets, all of
\* them, in order, whatever the others and their files do, and ends after the
\* last (memoria.c:30-46, 54-109).
ImplementaCanales ==
    /\ \A c \in Clientes : Promesa(c)!Init
    /\ [][\A c \in Clientes : [Promesa(c)!Next]_(Promesa(c)!vars)]_vars

\* A client that connects gets its thread, also if it finds the table full and
\* accept failing over and over (memoria.c:35-43), once others end.
TodosAtendidos ==
    \A c \in Clientes : cliente[c] = "conectado" ~> hilo[c] # "ninguno" \/ caida

\* What a client made the memory hold is given back for good after it ends: its
\* connection and its files (socket.c:265, memoria.c:166-177).
SeDevuelve ==
    \A c \in Clientes :
        cliente[c] = "cerrado" ~>
            [](caida \/ \A f \in Fds : tabla[f] \notin {c, Archivo(c)})

=============================================================================
