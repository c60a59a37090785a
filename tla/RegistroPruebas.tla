--------------------------- MODULE RegistroPruebas ---------------------------
(***************************************************************************)
(* Proofs about Registro, in three parts.                                  *)
(*                                                                         *)
(*   - Whatever its clients do: types, and the order of the lists of       *)
(*     resources.  The inductive invariant ColasInv relates the ports'     *)
(*     queues, the numbers accept gave and the lists.                      *)
(*   - When no client dies while the kernel waits for its greeting: who    *)
(*     reads each connection, and where in its stream (LecturaInv, which   *)
(*     stands on ColasInv).                                                *)
(*   - Then the threads implement the registry of RegistroAbstracto: every *)
(*     step is one of its steps, or changes nothing its users see.         *)
(***************************************************************************)
EXTENDS Registro, TLAPS

\* The points of the acceptor where it holds a dispatch connection whose thread
\* does not exist yet, and the same for the interrupt and the IO connections.
ConEnvio        == {"operacionCpu", "bufferCpu", "aceptarInterrupcion",
                    "registrarCpu", "crearHiloEnvio"}
ConInterrupcion == {"registrarCpu", "crearHiloEnvio", "crearHiloInterrupcion"}
ConIo           == {"operacionIo", "bufferIo", "registrarIo", "crearHiloAtenderIo"}

\* A client that has connected to a port is past these points.
Antes(s) == CASE s = "envio" -> {"sinLanzar", "conectarEnvio"}
              [] s = "interrupcion" -> {"sinLanzar", "conectarEnvio", "saludarEnvio",
                                        "conectarInterrupcion"}
              [] s = "io" -> {"sinLanzar", "conectarIo"}

-----------------------------------------------------------------------------
(* Queues, numbers and lists *)

\* A port's queue holds connections of that port, once each, of clients that are
\* past their connect.
Colas ==
    \A s \in Puertos :
        /\ aceptadas[s] <= Len(llegadas[s])
        /\ \A k \in 1 .. Len(llegadas[s]) :
              /\ llegadas[s][k].puerto = s
              /\ pcCliente[llegadas[s][k].proc] \notin Antes(s)
              /\ \A j \in 1 .. Len(llegadas[s]) :
                    llegadas[s][j] = llegadas[s][k] => j = k

\* The connections with a number are those that accept has returned.
Numeradas ==
    \A s \in Puertos : \A k \in 1 .. Len(llegadas[s]) :
        fdDe[llegadas[s][k]] # SinFd <=> k <= aceptadas[s]

\* Nothing else has a number, and a thread is only created for one that has.
Numerados ==
    \A c \in Conexiones :
        /\ fdDe[c] # SinFd => Llego(c)
        /\ hilo[c] # "sinCrear" => fdDe[c] # SinFd

\* How far the lists are behind the ports, by where the acceptors are.
Conteos ==
    /\ aceptadas["envio"] = Len(recursosCpu)
          + (IF pcCpu \in ConEnvio \ {"crearHiloEnvio"} THEN 1 ELSE 0)
    /\ aceptadas["interrupcion"] = Len(recursosCpu)
          + (IF pcCpu = "registrarCpu" THEN 1 ELSE 0)
    /\ pcCpu \in {"crearHiloEnvio", "crearHiloInterrupcion"} => Len(recursosCpu) > 0
    /\ aceptadas["io"] = Len(recursosIo)
          + (IF pcIo \in ConIo \ {"crearHiloAtenderIo"} THEN 1 ELSE 0)
    /\ pcIo = "crearHiloAtenderIo" => Len(recursosIo) > 0

\* main creates each accepting thread once.
Arranque ==
    /\ pcMain # "fin" => pcCpu = "sinCrear"
    /\ pcMain \notin {"crearHiloCpu", "fin"} => pcIo = "sinCrear"

ColasInv ==
    /\ TypeOK /\ Arranque
    /\ Colas /\ Numeradas /\ Numerados /\ Conteos /\ SocketsPorOrden

-----------------------------------------------------------------------------
(* Lemmas about connections, streams and accept *)

\* A connection has a process and a port, and is named by them.
LEMMA CamposDeConexion ==
    ASSUME NEW c \in Conexiones
    PROVE  c.proc \in Procesos /\ c.puerto \in Puertos
BY DEF Conexiones, Procesos, Puertos, PuertosCpu

\* Whatever recv returns, the variables that describe streams and descriptors
\* stay in their types.
LEMMA RecibirOperacionTipos ==
    ASSUME TypeOK, NEW f \in Fds, NEW op, RecibirOperacion(f, op)
    PROVE  /\ tabla' \in [Fds -> Conexiones \cup {Libre}]
           /\ leido' \in [Conexiones -> Nat]
           /\ rotas' \subseteq Conexiones
<1>1. ASSUME HayDatos(f), ConsumirCelda(f), UNCHANGED tabla
      PROVE  /\ tabla' \in [Fds -> Conexiones \cup {Libre}]
             /\ leido' \in [Conexiones -> Nat]
             /\ rotas' \subseteq Conexiones
  BY <1>1 DEF TypeOK, HayDatos, ConsumirCelda
<1>2. ASSUME HayDatos(f), Descuadrar(f), UNCHANGED tabla
      PROVE  /\ tabla' \in [Fds -> Conexiones \cup {Libre}]
             /\ leido' \in [Conexiones -> Nat]
             /\ rotas' \subseteq Conexiones
  BY <1>2 DEF TypeOK, HayDatos, Descuadrar
<1>3. ASSUME Cerrar(f), UNCHANGED <<leido, rotas>>
      PROVE  /\ tabla' \in [Fds -> Conexiones \cup {Libre}]
             /\ leido' \in [Conexiones -> Nat]
             /\ rotas' \subseteq Conexiones
  BY <1>3 DEF TypeOK, Cerrar
<1> QED BY <1>1, <1>2, <1>3 DEF RecibirOperacion

\* The same of a recv of a buffer, and of the name it gives.
LEMMA RecibirBufferTipos ==
    ASSUME TypeOK, NEW f \in Fds, NEW nombre, RecibirBuffer(f, nombre)
    PROVE  /\ nombre \in Procesos \cup {Basura}
           /\ leido' \in [Conexiones -> Nat]
           /\ rotas' \subseteq Conexiones
<1>1. CASE HayDatos(f) /\ EnBuffer(f) /\ ConsumirCelda(f)
           /\ nombre = IF leido[tabla[f]] = 1 THEN tabla[f].proc ELSE Basura
  BY <1>1, CamposDeConexion DEF TypeOK, HayDatos, ConsumirCelda
<1>2. CASE HayDatos(f) /\ Descuadrar(f) /\ nombre = Basura
  BY <1>2 DEF TypeOK, HayDatos, Descuadrar
<1>3. CASE nombre = Basura /\ UNCHANGED <<leido, rotas>>
  BY <1>3 DEF TypeOK
<1> QED BY <1>1, <1>2, <1>3 DEF RecibirBuffer

\* The connection accept returned last has a number.
LEMMA ActualNumerada ==
    ASSUME ColasInv, NEW s \in Puertos, aceptadas[s] > 0
    PROVE  /\ Actual(s) \in Conexiones
           /\ Actual(s).puerto = s
           /\ fdDe[Actual(s)] \in Fds
           /\ fdDe[Actual(s)] # SinFd
BY DEF ColasInv, TypeOK, Colas, Numeradas, Actual

\* accept numbers the connection that was next in line, and no other.
LEMMA AceptarHechos ==
    ASSUME ColasInv, NEW s \in Puertos, Aceptar(s)
    PROVE  /\ aceptadas[s] + 1 \in 1 .. Len(llegadas[s])
           /\ aceptadas' = [aceptadas EXCEPT ![s] = @ + 1]
           /\ llegadas[s][aceptadas[s] + 1] \in Conexiones
           /\ llegadas[s][aceptadas[s] + 1].puerto = s
           /\ fdDe[llegadas[s][aceptadas[s] + 1]] = SinFd
           /\ hilo[llegadas[s][aceptadas[s] + 1]] = "sinCrear"
           /\ \E f \in Fds :
                 /\ tabla[f] = Libre
                 /\ tabla' = [tabla EXCEPT ![f] = llegadas[s][aceptadas[s] + 1]]
                 /\ fdDe' = [fdDe EXCEPT ![llegadas[s][aceptadas[s] + 1]] = f]
<1>1. aceptadas[s] \in Nat /\ llegadas[s] \in Seq(Conexiones)
  BY DEF ColasInv, TypeOK
<1>2. aceptadas[s] + 1 \in 1 .. Len(llegadas[s])
  BY <1>1 DEF Aceptar, HayLlegada
<1>3. llegadas[s][aceptadas[s] + 1] \in Conexiones
  BY <1>1, <1>2
<1>4. fdDe[llegadas[s][aceptadas[s] + 1]] = SinFd
  BY <1>1, <1>2 DEF ColasInv, Numeradas
<1>5. hilo[llegadas[s][aceptadas[s] + 1]] = "sinCrear"
  BY <1>3, <1>4 DEF ColasInv, Numerados
<1>6. llegadas[s][aceptadas[s] + 1].puerto = s
  BY <1>2 DEF ColasInv, Colas
<1> QED BY <1>2, <1>3, <1>4, <1>5, <1>6 DEF Aceptar

-----------------------------------------------------------------------------
(* Types *)

USE DEF varsMain, varsHiloCpu, varsHiloIo, varsAcepta, varsLectura, varsCliente

\* The invariant holds before the kernel has done anything.
LEMMA InitColas == Init => ColasInv
<1> SUFFICES ASSUME Init PROVE ColasInv
  OBVIOUS
<1>1. TypeOK
  <2>1. recursosCpu \in Seq(RecursosCpu) /\ recursosIo \in Seq(RecursosIo)
    BY DEF Init
  <2>2. /\ llegadas \in [Puertos -> Seq(Conexiones)]
        /\ aceptadas \in [Puertos -> Nat]
    BY DEF Init
  <2>3. /\ enviado \in [Conexiones -> Nat] /\ leido \in [Conexiones -> Nat]
        /\ pcCliente \in [Procesos -> PuntosCliente]
        /\ tabla \in [Fds -> Conexiones \cup {Libre}]
        /\ fdDe \in [Conexiones -> Fds \cup {SinFd}]
        /\ hilo \in [Conexiones -> {"sinCrear", "operacion", "HANDSHAKE", "MENSAJE",
                                    "terminado"}]
    BY DEF Init, PuntosCliente
  <2> QED BY <2>1, <2>2, <2>3 DEF Init, TypeOK
<1>2. Arranque /\ Colas /\ Numeradas /\ Numerados /\ Conteos /\ SocketsPorOrden
  BY DEF Init, Arranque, Colas, Numeradas, Numerados, Conteos, SocketsPorOrden,
         ConEnvio, ConIo, Puertos
<1> QED BY <1>1, <1>2 DEF ColasInv

\* The main thread and a fall of the kernel keep the types.
LEMMA TiposMain == ASSUME TypeOK, Main \/ CaidaKernel PROVE TypeOK'
<1>1. CASE ConectarMemoriaKernel
  BY <1>1 DEF TypeOK, ConectarMemoriaKernel, PasoMain
<1>2. CASE IniciarServidor("escucharIo", "io", "escucharEnvio")
  BY <1>2 DEF TypeOK, IniciarServidor, PasoMain, Puertos
<1>3. CASE IniciarServidor("escucharEnvio", "envio", "escucharInterrupcion")
  BY <1>3 DEF TypeOK, IniciarServidor, PasoMain, Puertos
<1>4. CASE IniciarServidor("escucharInterrupcion", "interrupcion", "crearHiloIo")
  BY <1>4 DEF TypeOK, IniciarServidor, PasoMain, Puertos
<1>5. CASE CrearHiloIo
  BY <1>5 DEF TypeOK, CrearHiloIo, PasoMain
<1>6. CASE CrearHiloCpu
  BY <1>6 DEF TypeOK, CrearHiloCpu, PasoMain
<1>7. CASE CaidaKernel
  BY <1>7 DEF TypeOK, CaidaKernel
<1> QED BY <1>1, <1>2, <1>3, <1>4, <1>5, <1>6, <1>7 DEF Main

\* accept changes the table, the numbers and the count within their types.
LEMMA AceptarTipos ==
    ASSUME ColasInv, NEW s \in Puertos, Aceptar(s)
    PROVE  /\ aceptadas' \in [Puertos -> Nat]
           /\ fdDe' \in [Conexiones -> Fds \cup {SinFd}]
           /\ tabla' \in [Fds -> Conexiones \cup {Libre}]
<1> DEFINE c == llegadas[s][aceptadas[s] + 1]
<1>1. TypeOK /\ c \in Conexiones
  BY AceptarHechos DEF ColasInv
<1>2. PICK f \in Fds : /\ tabla' = [tabla EXCEPT ![f] = c]
                       /\ fdDe' = [fdDe EXCEPT ![c] = f]
  BY AceptarHechos
<1>3. aceptadas' = [aceptadas EXCEPT ![s] = @ + 1]
  BY AceptarHechos
<1> HIDE DEF c
<1> QED BY <1>1, <1>2, <1>3 DEF TypeOK

\* pthread_create keeps the type of hilo.
LEMMA CrearHiloTipos ==
    ASSUME TypeOK, NEW c, CrearHilo(c)
    PROVE  hilo' \in [Conexiones -> {"sinCrear", "operacion", "HANDSHAKE",
                                     "MENSAJE", "terminado"}]
BY DEF TypeOK, CrearHilo

\* The acceptor of CPUs keeps the types.
LEMMA TiposCpu == ASSUME ColasInv, AtenderConexionCpu PROVE TypeOK'
<1> USE DEF PasoCpu, ColasInv
<1>0. "envio" \in Puertos /\ "interrupcion" \in Puertos
  BY DEF Puertos
<1>1. CASE AceptarEnvio
  BY <1>0, <1>1, AceptarTipos DEF TypeOK, AceptarEnvio
<1>2. CASE OperacionHandshakeCpu
  <2>1. aceptadas["envio"] > 0
    BY <1>2 DEF OperacionHandshakeCpu, Conteos, ConEnvio, TypeOK
  <2>2. fdDe[Actual("envio")] \in Fds
    BY <1>0, <2>1, ActualNumerada
  <2>3. PICK op \in Operaciones : RecibirOperacion(fdDe[Actual("envio")], op)
    BY <1>2 DEF OperacionHandshakeCpu
  <2> QED BY <1>2, <2>2, <2>3, RecibirOperacionTipos
          DEF TypeOK, OperacionHandshakeCpu
<1>3. CASE BufferHandshakeCpu
  <2>1. aceptadas["envio"] > 0
    BY <1>3 DEF BufferHandshakeCpu, Conteos, ConEnvio, TypeOK
  <2>2. fdDe[Actual("envio")] \in Fds
    BY <1>0, <2>1, ActualNumerada
  <2>3. RecibirBuffer(fdDe[Actual("envio")], nombreCpu')
    BY <1>3 DEF BufferHandshakeCpu
  <2> QED BY <1>3, <2>2, <2>3, RecibirBufferTipos DEF TypeOK, BufferHandshakeCpu
<1>4. CASE AceptarInterrupcion
  BY <1>0, <1>4, AceptarTipos DEF TypeOK, AceptarInterrupcion
<1>5. CASE RegistrarCpu
  <2>1. aceptadas["envio"] > 0 /\ aceptadas["interrupcion"] > 0
    BY <1>5 DEF RegistrarCpu, AgregarCpu, Conteos, ConEnvio, TypeOK
  <2>2. fdDe[Actual("envio")] \in Fds /\ fdDe[Actual("interrupcion")] \in Fds
    BY <1>0, <2>1, ActualNumerada
  <2>3. recursosCpu' \in Seq(RecursosCpu)
    BY <1>5, <2>2 DEF RegistrarCpu, AgregarCpu, RecursosCpu, TypeOK
  <2> QED BY <1>5, <2>3 DEF TypeOK, RegistrarCpu, AgregarCpu
<1>6. CASE CrearHiloEnvio
  BY <1>6, CrearHiloTipos DEF TypeOK, CrearHiloEnvio
<1>7. CASE CrearHiloInterrupcion
  BY <1>7, CrearHiloTipos DEF TypeOK, CrearHiloInterrupcion
<1> QED BY <1>1, <1>2, <1>3, <1>4, <1>5, <1>6, <1>7 DEF AtenderConexionCpu

\* The acceptor of IOs keeps the types.
LEMMA TiposIo == ASSUME ColasInv, AtenderConexionIo PROVE TypeOK'
<1> USE DEF PasoIo, ColasInv
<1>0. "io" \in Puertos
  BY DEF Puertos
<1>00. pcIo \in ConIo => fdDe[Actual("io")] \in Fds
  <2>1. pcIo \in ConIo => aceptadas["io"] > 0
    BY DEF Conteos, ConIo, TypeOK
  <2> QED BY <1>0, <2>1, ActualNumerada
<1>1. CASE AceptarIo
  BY <1>0, <1>1, AceptarTipos DEF TypeOK, AceptarIo
<1>2. CASE OperacionHandshakeIo
  <2>1. PICK op \in Operaciones : RecibirOperacion(fdDe[Actual("io")], op)
    BY <1>2 DEF OperacionHandshakeIo
  <2>2. fdDe[Actual("io")] \in Fds
    BY <1>2, <1>00 DEF OperacionHandshakeIo, ConIo
  <2> QED BY <1>2, <2>1, <2>2, RecibirOperacionTipos DEF TypeOK, OperacionHandshakeIo
<1>3. CASE BufferHandshakeIo
  <2>1. RecibirBuffer(fdDe[Actual("io")], nombreIo')
    BY <1>3 DEF BufferHandshakeIo
  <2>2. fdDe[Actual("io")] \in Fds
    BY <1>3, <1>00 DEF BufferHandshakeIo, ConIo
  <2> QED BY <1>3, <2>1, <2>2, RecibirBufferTipos DEF TypeOK, BufferHandshakeIo
<1>4. CASE RegistrarIo
  <2>1. fdDe[Actual("io")] \in Fds
    BY <1>4, <1>00 DEF RegistrarIo, ConIo
  <2>2. recursosIo' \in Seq(RecursosIo)
    BY <1>4, <2>1 DEF RegistrarIo, RecursosIo, TypeOK
  <2> QED BY <1>4, <2>2 DEF TypeOK, RegistrarIo
<1>5. CASE CrearHiloAtenderIo
  BY <1>5, CrearHiloTipos DEF TypeOK, CrearHiloAtenderIo
<1> QED BY <1>1, <1>2, <1>3, <1>4, <1>5 DEF AtenderConexionIo

\* The thread of a connection keeps the types.
LEMMA TiposHilo ==
    ASSUME ColasInv, NEW c \in Conexiones, AtenderCliente(c)
    PROVE  TypeOK'
<1> USE DEF PasoHilo, ColasInv
<1>1. fdDe[c] \in Fds
  BY DEF AtenderCliente, AtenderOperacion, AtenderBuffer, Numerados, TypeOK
<1>2. CASE AtenderOperacion(c)
  <2>1. PICK op \in Operaciones : /\ PasoHilo(c, "operacion", TrasOperacion(op))
                                  /\ RecibirOperacion(fdDe[c], op)
    BY <1>2 DEF AtenderOperacion
  <2>2. TrasOperacion(op) \in {"operacion", "HANDSHAKE", "MENSAJE", "terminado"}
    BY <2>1 DEF TrasOperacion, Operaciones
  <2> QED BY <1>1, <2>1, <2>2, RecibirOperacionTipos DEF TypeOK
<1>3. CASE AtenderBuffer(c)
  <2>1. PICK nombre : RecibirBuffer(fdDe[c], nombre)
    BY <1>3 DEF AtenderBuffer
  <2> QED BY <1>1, <1>3, <2>1, RecibirBufferTipos DEF TypeOK, AtenderBuffer
<1> QED BY <1>2, <1>3 DEF AtenderCliente

-----------------------------------------------------------------------------
(* Steps of the clients: each moves one client forward and either connects it to
   a port, or leaves the queues alone. *)

Avanza(desde, hacia) ==
    /\ desde # "terminado" /\ hacia \in PuntosCliente
    /\ \A s \in Puertos : hacia \in Antes(s) => desde \in Antes(s)

PasoQuieto(p) ==
    \E desde, hacia :
        /\ PasoCliente(p, desde, hacia) /\ Avanza(desde, hacia)
        /\ UNCHANGED llegadas
        /\ \/ UNCHANGED enviado
           \/ \E s \in Puertos :
                 /\ Conexion(p, s) \in Conexiones
                 /\ enviado' = [enviado EXCEPT ![Conexion(p, s)] = @ + 2]

PasoConecta(p) ==
    \E desde, hacia : \E s \in Puertos :
        /\ PasoCliente(p, desde, hacia) /\ Avanza(desde, hacia)
        /\ Conexion(p, s) \in Conexiones
        /\ desde \in Antes(s) /\ hacia \notin Antes(s) \cup {"terminado"}
        /\ llegadas' = [llegadas EXCEPT ![s] = Append(@, Conexion(p, s))]
        /\ UNCHANGED enviado

\* The ports a client of each kind goes to.
LEMMA PuertosDeCliente ==
    ASSUME NEW p \in Procesos
    PROVE  /\ \A s \in Puertos : Conexion(p, s).proc = p /\ Conexion(p, s).puerto = s
           /\ p \in Cpus => /\ Conexion(p, "envio") \in Conexiones
                            /\ Conexion(p, "interrupcion") \in Conexiones
           /\ p \in Ios => Conexion(p, "io") \in Conexiones
BY DEF Conexion, Conexiones, PuertosCpu

\* A connect is a step that queues a connection, or one that queues none.
LEMMA ConectarEsPaso ==
    ASSUME NEW p \in Procesos, NEW s \in Puertos, NEW desde, NEW hacia,
           Conectar(p, desde, s, hacia), Conexion(p, s) \in Conexiones,
           desde \in Antes(s), hacia \notin Antes(s) \cup {"terminado"},
           Avanza(desde, hacia)
    PROVE  PasoQuieto(p) \/ PasoConecta(p)
<1>1. Avanza(desde, "terminado")
  BY DEF Avanza, Antes, PuntosCliente, Puertos
<1>2. CASE PasoCliente(p, desde, "terminado") /\ UNCHANGED <<llegadas, enviado>>
  BY <1>1, <1>2 DEF PasoQuieto
<1>3. CASE /\ PasoCliente(p, desde, hacia)
           /\ llegadas' = [llegadas EXCEPT ![s] = Append(@, Conexion(p, s))]
           /\ UNCHANGED enviado
  BY <1>3 DEF PasoConecta
<1> QED BY <1>2, <1>3 DEF Conectar

\* A send queues no connection.
LEMMA EnviarEsPaso ==
    ASSUME NEW p \in Procesos, NEW s \in Puertos, NEW desde, NEW hacia,
           Enviar(p, desde, s, hacia), Conexion(p, s) \in Conexiones,
           Avanza(desde, hacia)
    PROVE  PasoQuieto(p)
<1>1. Avanza(desde, "terminado")
  BY DEF Avanza, Antes, PuntosCliente, Puertos
<1> QED BY <1>1 DEF Enviar, PasoQuieto

\* Every step of a client is of one of those two kinds.
LEMMA PasosDeCliente ==
    ASSUME NEW p \in Procesos, Lanzar(p) \/ MainCliente(p) \/ Morir(p)
    PROVE  PasoQuieto(p) \/ PasoConecta(p)
<1> USE DEF Avanza, Antes, PuntosCliente, Puertos
<1>1. CASE Lanzar(p)
  <2>1. p \in Ios \/ p \in Cpus
    BY DEF Procesos
  <2>2. CASE p \in Cpus
    BY <1>1, <2>2 DEF Lanzar, PasoQuieto
  <2>3. CASE p \notin Cpus
    BY <1>1, <2>3 DEF Lanzar, PasoQuieto
  <2> QED BY <2>2, <2>3
<1>2. CASE Morir(p)
  BY <1>2, Constantes DEF Morir, PasoQuieto
<1>3. CASE p \in Cpus /\ MainCpu(p)
  <2> USE <1>3, PuertosDeCliente
  <2>1. CASE Conectar(p, "conectarEnvio", "envio", "saludarEnvio")
    BY <2>1, ConectarEsPaso
  <2>2. CASE Conectar(p, "conectarInterrupcion", "interrupcion", "saludarInterrupcion")
    BY <2>2, ConectarEsPaso
  <2>3. CASE Enviar(p, "saludarEnvio", "envio", "conectarInterrupcion")
    BY <2>3, EnviarEsPaso
  <2>4. CASE Enviar(p, "saludarInterrupcion", "interrupcion", "conectarMemoria")
    BY <2>4, EnviarEsPaso
  <2>5. CASE Enviar(p, "mensajeEnvio", "envio", "mensajeInterrupcion")
    BY <2>5, EnviarEsPaso
  <2>6. CASE Enviar(p, "mensajeInterrupcion", "interrupcion", "mensajeMemoria")
    BY <2>6, EnviarEsPaso
  <2>7. CASE ConectarMemoria(p)
    BY <2>7 DEF ConectarMemoria, PasoQuieto
  <2>8. CASE MensajeMemoria(p)
    BY <2>8 DEF MensajeMemoria, PasoQuieto
  <2> QED BY <1>3, <2>1, <2>2, <2>3, <2>4, <2>5, <2>6, <2>7, <2>8 DEF MainCpu
<1>4. CASE p \in Ios /\ MainIo(p)
  <2> USE <1>4, PuertosDeCliente
  <2>1. CASE Conectar(p, "conectarIo", "io", "saludarIo")
    BY <2>1, ConectarEsPaso
  <2>2. CASE Enviar(p, "saludarIo", "io", "esperandoPedido")
    BY <2>2, EnviarEsPaso
  <2>3. CASE PedidoFallido(p)
    BY <2>3 DEF PedidoFallido, PasoQuieto
  <2> QED BY <1>4, <2>1, <2>2, <2>3 DEF MainIo
<1> QED BY <1>1, <1>2, <1>3, <1>4 DEF MainCliente

\* The clients keep the types.
LEMMA TiposCliente ==
    ASSUME TypeOK, NEW p \in Procesos, PasoQuieto(p) \/ PasoConecta(p)
    PROVE  TypeOK'
<1>1. CASE PasoQuieto(p)
  <2>1. PICK desde, hacia :
            /\ PasoCliente(p, desde, hacia) /\ hacia \in PuntosCliente
            /\ UNCHANGED llegadas
            /\ \/ UNCHANGED enviado
               \/ \E c \in Conexiones : enviado' = [enviado EXCEPT ![c] = @ + 2]
    BY <1>1 DEF PasoQuieto, Avanza
  <2>2. enviado' \in [Conexiones -> Nat]
    <3>1. enviado \in [Conexiones -> Nat]
      BY DEF TypeOK
    <3>2. CASE \E c \in Conexiones : enviado' = [enviado EXCEPT ![c] = @ + 2]
      <4>1. PICK c \in Conexiones : enviado' = [enviado EXCEPT ![c] = @ + 2]
        BY <3>2
      <4>2. enviado[c] + 2 \in Nat
        BY <3>1
      <4> QED BY <3>1, <4>1, <4>2
    <3> QED BY <2>1, <3>1, <3>2
  <2>3. pcCliente' \in [Procesos -> PuntosCliente]
    BY <2>1 DEF TypeOK, PasoCliente
  <2> QED BY <2>1, <2>2, <2>3 DEF TypeOK, PasoCliente
<1>2. CASE PasoConecta(p)
  <2>1. PICK desde, hacia : \E s \in Puertos :
            /\ PasoCliente(p, desde, hacia) /\ hacia \in PuntosCliente
            /\ Conexion(p, s) \in Conexiones
            /\ llegadas' = [llegadas EXCEPT ![s] = Append(@, Conexion(p, s))]
            /\ UNCHANGED enviado
    BY <1>2 DEF PasoConecta, Avanza
  <2>2. llegadas' \in [Puertos -> Seq(Conexiones)]
    BY <2>1 DEF TypeOK
  <2>3. pcCliente' \in [Procesos -> PuntosCliente]
    BY <2>1 DEF TypeOK, PasoCliente
  <2> QED BY <2>1, <2>2, <2>3 DEF TypeOK, PasoCliente
<1> QED BY <1>1, <1>2

\* Every step keeps the types.
LEMMA TiposPaso == ASSUME ColasInv, [Next]_vars PROVE TypeOK'
<1>1. TypeOK
  BY DEF ColasInv
<1>2. CASE UNCHANGED vars
  BY <1>1, <1>2 DEF TypeOK, vars
<1>3. CASE Next
  BY <1>1, <1>3, TiposMain, TiposCpu, TiposIo, TiposHilo, PasosDeCliente,
     TiposCliente DEF Next
<1> QED BY <1>2, <1>3

-----------------------------------------------------------------------------
(* Queues, numbers and lists *)

Colas4 == Colas /\ Numeradas /\ Numerados /\ SocketsPorOrden

\* accept keeps the relation of queues, numbers and lists.
LEMMA AceptarColas ==
    ASSUME ColasInv, NEW s \in Puertos, Aceptar(s),
           UNCHANGED <<llegadas, pcCliente, hilo, recursosCpu, recursosIo>>
    PROVE  Colas4'
<1> DEFINE c == llegadas[s][aceptadas[s] + 1]
<1>1. /\ aceptadas[s] + 1 \in 1 .. Len(llegadas[s])
      /\ aceptadas' = [aceptadas EXCEPT ![s] = @ + 1]
      /\ c \in Conexiones /\ c.puerto = s /\ fdDe[c] = SinFd
  BY AceptarHechos
<1>2. PICK f \in Fds : fdDe' = [fdDe EXCEPT ![c] = f]
  BY AceptarHechos
<1>3. f # SinFd
  BY Constantes
<1>4. TypeOK /\ Colas /\ Numeradas /\ Numerados /\ SocketsPorOrden
  BY DEF ColasInv
<1>5. Colas'
  BY <1>1, <1>4 DEF Colas, TypeOK
<1>6. Numeradas'
  <2> SUFFICES ASSUME NEW t \in Puertos, NEW k \in 1 .. Len(llegadas[t])
               PROVE  fdDe'[llegadas[t][k]] # SinFd <=> k <= aceptadas'[t]
    BY DEF Numeradas
  <2>1. llegadas[t][k] = c => t = s /\ k = aceptadas[s] + 1
    <3>1. llegadas[t][k].puerto = t
      BY <1>4 DEF Colas
    <3>2. \A i, j \in 1 .. Len(llegadas[s]) : llegadas[s][i] = llegadas[s][j] => i = j
      BY <1>4 DEF Colas
    <3> QED BY <1>1, <3>1, <3>2
  <2>2. fdDe[llegadas[t][k]] # SinFd <=> k <= aceptadas[t]
    BY <1>4 DEF Numeradas
  <2>3. llegadas[t][k] \in Conexiones /\ k \in Nat /\ aceptadas[t] \in Nat
    BY <1>4 DEF TypeOK
  <2>4. CASE llegadas[t][k] = c
    BY <1>1, <1>2, <1>3, <1>4, <2>1, <2>4 DEF TypeOK
  <2>5. CASE llegadas[t][k] # c
    <3>1. fdDe'[llegadas[t][k]] = fdDe[llegadas[t][k]]
      BY <1>2, <1>4, <2>3, <2>5 DEF TypeOK
    <3>2. t = s => k # aceptadas[s] + 1
      BY <2>5, Zenon
    <3>3. k <= aceptadas'[t] <=> k <= aceptadas[t]
      <4>1. aceptadas'[t] = IF t = s THEN aceptadas[t] + 1 ELSE aceptadas[t]
        BY <1>1, <1>4 DEF TypeOK
      <4> QED BY <2>3, <3>2, <4>1
    <3> QED BY <2>2, <3>1, <3>3
  <2> QED BY <2>4, <2>5
<1>7. Numerados'
  <2>1. Llego(c)
    BY <1>1 DEF Llego
  <2> QED BY <1>1, <1>2, <1>3, <1>4, <2>1 DEF Numerados, Llego, TypeOK
<1>8. \A t \in Puertos : \A k \in 1 .. aceptadas[t] :
         /\ k \in 1 .. Len(llegadas[t])
         /\ fdDe'[llegadas[t][k]] = fdDe[llegadas[t][k]]
         /\ k <= aceptadas'[t]
  <2> SUFFICES ASSUME NEW t \in Puertos, NEW k \in 1 .. aceptadas[t]
               PROVE  /\ k \in 1 .. Len(llegadas[t])
                      /\ fdDe'[llegadas[t][k]] = fdDe[llegadas[t][k]]
                      /\ k <= aceptadas'[t]
    OBVIOUS
  <2>0. /\ llegadas[t] \in Seq(Conexiones) /\ aceptadas[t] \in Nat
        /\ aceptadas[t] <= Len(llegadas[t])
    BY <1>4 DEF Colas, TypeOK
  <2>1. k \in 1 .. Len(llegadas[t]) /\ llegadas[t][k] \in Conexiones
    BY <2>0
  <2>2. llegadas[t][k] # c
    <3>1. fdDe[llegadas[t][k]] # SinFd
      BY <1>4, <2>0, <2>1 DEF Numeradas
    <3> QED BY <1>1, <3>1
  <2>3. aceptadas'[t] >= aceptadas[t]
    BY <1>1, <1>4 DEF TypeOK
  <2>4. fdDe'[llegadas[t][k]] = fdDe[llegadas[t][k]]
    BY <1>2, <1>4, <2>1, <2>2 DEF TypeOK
  <2>5. aceptadas'[t] \in Nat
    BY <1>1, <1>4 DEF TypeOK
  <2> QED BY <2>0, <2>1, <2>3, <2>4, <2>5
<1>9. SocketsPorOrden'
  <2>1. {"envio", "interrupcion", "io"} \subseteq Puertos
    BY DEF Puertos
  <2>2. \A k \in 1 .. Len(recursosCpu) :
           k \in 1 .. aceptadas["envio"] /\ k \in 1 .. aceptadas["interrupcion"]
    BY <1>4, <2>1 DEF SocketsPorOrden, TypeOK
  <2>3. \A k \in 1 .. Len(recursosIo) : k \in 1 .. aceptadas["io"]
    BY <1>4, <2>1 DEF SocketsPorOrden, TypeOK
  <2> QED BY <1>4, <1>8, <2>1, <2>2, <2>3 DEF SocketsPorOrden
<1> QED BY <1>5, <1>6, <1>7, <1>9 DEF Colas4

\* Steps that leave the queues, the numbers and the lists as they are.
LEMMA QuietasColas ==
    ASSUME ColasInv,
           UNCHANGED <<llegadas, aceptadas, fdDe, pcCliente, recursosCpu, recursosIo>>,
           \A c \in Conexiones :
              hilo'[c] # "sinCrear" => hilo[c] # "sinCrear" \/ fdDe[c] # SinFd
    PROVE  Colas4'
BY DEF ColasInv, Colas4, Colas, Numeradas, Numerados, Llego, SocketsPorOrden

\* A client that moves forward stays past the connects it has made.
LEMMA AvanzarColas ==
    ASSUME ColasInv, NEW p \in Procesos, NEW desde, NEW hacia,
           PasoCliente(p, desde, hacia), Avanza(desde, hacia),
           NEW s \in Puertos, NEW k \in 1 .. Len(llegadas[s])
    PROVE  /\ llegadas[s][k] \in Conexiones
           /\ pcCliente'[llegadas[s][k].proc] \notin Antes(s)
<1>1. llegadas[s][k] \in Conexiones /\ llegadas[s][k].proc \in Procesos
  BY CamposDeConexion DEF ColasInv, TypeOK
<1>2. pcCliente[llegadas[s][k].proc] \notin Antes(s)
  BY DEF ColasInv, Colas
<1> QED BY <1>1, <1>2 DEF PasoCliente, Avanza, ColasInv, TypeOK

\* So does a client's step that queues no connection.
LEMMA QuietoColas ==
    ASSUME ColasInv, NEW p \in Procesos, PasoQuieto(p)
    PROVE  Colas4'
<1>1. PICK desde, hacia : /\ PasoCliente(p, desde, hacia) /\ Avanza(desde, hacia)
                          /\ UNCHANGED llegadas
  BY DEF PasoQuieto
<1>2. UNCHANGED <<aceptadas, fdDe, recursosCpu, recursosIo, hilo>>
  BY <1>1 DEF PasoCliente
<1>3. Colas'
  <2>1. \A s \in Puertos : \A k \in 1 .. Len(llegadas[s]) :
           pcCliente'[llegadas[s][k].proc] \notin Antes(s)
    BY <1>1, AvanzarColas
  <2> QED BY <1>1, <1>2, <2>1 DEF ColasInv, Colas
<1>4. Numeradas' /\ Numerados' /\ SocketsPorOrden'
  BY <1>1, <1>2 DEF ColasInv, Numeradas, Numerados, Llego, SocketsPorOrden
<1> QED BY <1>3, <1>4 DEF Colas4

\* So does one that queues a connection: it is new to its port.
LEMMA ConectaColas ==
    ASSUME ColasInv, NEW p \in Procesos, PasoConecta(p)
    PROVE  Colas4'
<1>1. PICK desde, hacia : \E s \in Puertos :
            /\ PasoCliente(p, desde, hacia) /\ Avanza(desde, hacia)
            /\ Conexion(p, s) \in Conexiones
            /\ desde \in Antes(s) /\ hacia \notin Antes(s)
            /\ llegadas' = [llegadas EXCEPT ![s] = Append(@, Conexion(p, s))]
  BY DEF PasoConecta
<1>2. PICK s \in Puertos :
            /\ PasoCliente(p, desde, hacia) /\ Avanza(desde, hacia)
            /\ Conexion(p, s) \in Conexiones
            /\ desde \in Antes(s) /\ hacia \notin Antes(s)
            /\ llegadas' = [llegadas EXCEPT ![s] = Append(@, Conexion(p, s))]
  BY <1>1
<1> DEFINE c == Conexion(p, s)
<1>3. c \in Conexiones /\ c.proc = p /\ c.puerto = s
  BY <1>2, PuertosDeCliente
<1> HIDE DEF c
<1>4. UNCHANGED <<aceptadas, fdDe, recursosCpu, recursosIo, hilo>>
  BY <1>2 DEF PasoCliente
<1>5. TypeOK /\ Colas /\ Numeradas /\ Numerados /\ SocketsPorOrden
  BY DEF ColasInv
<1>6. pcCliente[p] \in Antes(s) /\ pcCliente'[p] \notin Antes(s)
  BY <1>2, <1>5 DEF PasoCliente, TypeOK
\* The new connection was not in the queue yet.
<1>7. \A k \in 1 .. Len(llegadas[s]) : llegadas[s][k] # c
  BY <1>3, <1>5, <1>6 DEF Colas
<1>8. /\ llegadas'[s] = Append(llegadas[s], c)
      /\ \A t \in Puertos : t # s => llegadas'[t] = llegadas[t]
  BY <1>2, <1>5 DEF TypeOK, c
<1>9. \A t \in Puertos :
         /\ Len(llegadas[t]) \in Nat
         /\ Len(llegadas'[t]) = IF t = s THEN Len(llegadas[t]) + 1 ELSE Len(llegadas[t])
         /\ \A k \in 1 .. Len(llegadas[t]) : llegadas'[t][k] = llegadas[t][k]
  <2> SUFFICES ASSUME NEW t \in Puertos
               PROVE  /\ Len(llegadas[t]) \in Nat
                      /\ Len(llegadas'[t]) = IF t = s THEN Len(llegadas[t]) + 1
                                                     ELSE Len(llegadas[t])
                      /\ \A k \in 1 .. Len(llegadas[t]) :
                            llegadas'[t][k] = llegadas[t][k]
    OBVIOUS
  <2>1. llegadas[t] \in Seq(Conexiones)
    BY <1>5 DEF TypeOK
  <2>2. CASE t = s
    BY <1>3, <1>8, <2>1, <2>2
  <2>3. CASE t # s
    BY <1>8, <2>1, <2>3
  <2> QED BY <2>2, <2>3
<1>10. llegadas'[s][Len(llegadas[s]) + 1] = c
  BY <1>3, <1>5, <1>8 DEF TypeOK
<1>11. fdDe[c] = SinFd
  BY <1>3, <1>5, <1>7 DEF Numerados, Llego
<1>12. Colas'
  <2> SUFFICES ASSUME NEW t \in Puertos
               PROVE  /\ aceptadas[t] <= Len(llegadas'[t])
                      /\ \A k \in 1 .. Len(llegadas'[t]) :
                            /\ llegadas'[t][k].puerto = t
                            /\ pcCliente'[llegadas'[t][k].proc] \notin Antes(t)
                            /\ \A j \in 1 .. Len(llegadas'[t]) :
                                  llegadas'[t][j] = llegadas'[t][k] => j = k
    BY <1>4 DEF Colas
  <2>1. aceptadas[t] <= Len(llegadas'[t])
    <3>1. aceptadas[t] \in Nat /\ aceptadas[t] <= Len(llegadas[t])
      BY <1>5 DEF Colas, TypeOK
    <3> QED BY <1>9, <3>1
  <2>2. \A k \in 1 .. Len(llegadas[t]) :
           /\ llegadas[t][k].puerto = t
           /\ pcCliente'[llegadas[t][k].proc] \notin Antes(t)
    BY <1>2, <1>5, AvanzarColas DEF Colas
  <2>3. CASE t # s
    BY <1>5, <1>8, <2>1, <2>2, <2>3 DEF Colas
  <2>4. CASE t = s
    <3>1. \A k \in 1 .. Len(llegadas'[s]) :
             \/ k \in 1 .. Len(llegadas[s]) /\ llegadas'[s][k] = llegadas[s][k]
             \/ k = Len(llegadas[s]) + 1 /\ llegadas'[s][k] = c
      BY <1>9, <1>10
    <3>2. ASSUME NEW k \in 1 .. Len(llegadas'[s])
          PROVE  llegadas'[s][k].puerto = s /\ pcCliente'[llegadas'[s][k].proc] \notin Antes(s)
      BY <1>3, <1>6, <2>2, <2>4, <3>1
    <3>3. ASSUME NEW k \in 1 .. Len(llegadas'[s]), NEW j \in 1 .. Len(llegadas'[s]),
                 llegadas'[s][j] = llegadas'[s][k]
          PROVE  j = k
      <4>1. \A i, l \in 1 .. Len(llegadas[s]) : llegadas[s][i] = llegadas[s][l] => i = l
        BY <1>5 DEF Colas
      <4> QED BY <1>7, <3>1, <3>3, <4>1
    <3> QED BY <2>1, <2>4, <3>2, <3>3
  <2> QED BY <2>3, <2>4
<1>13. Numeradas'
  <2>1. aceptadas[s] <= Len(llegadas[s]) /\ aceptadas[s] \in Nat
    BY <1>5 DEF Colas, TypeOK
  <2> SUFFICES ASSUME NEW t \in Puertos, NEW k \in 1 .. Len(llegadas'[t])
               PROVE  fdDe[llegadas'[t][k]] # SinFd <=> k <= aceptadas[t]
    BY <1>4 DEF Numeradas
  <2>2. CASE k \in 1 .. Len(llegadas[t])
    BY <1>5, <1>9, <2>2 DEF Numeradas
  <2>3. CASE k \notin 1 .. Len(llegadas[t])
    <3>1. t = s /\ k = Len(llegadas[s]) + 1
      BY <1>9, <2>3
    <3> QED BY <1>9, <1>10, <1>11, <2>1, <3>1
  <2> QED BY <2>2, <2>3
<1>14. Numerados'
  <2>1. \A d \in Conexiones : Llego(d) => Llego(d)'
    BY <1>9, CamposDeConexion DEF Llego
  <2> QED BY <1>4, <1>5, <2>1 DEF Numerados
<1>15. SocketsPorOrden'
  <2>1. {"envio", "interrupcion", "io"} \subseteq Puertos
    BY DEF Puertos
  <2>2. \A t \in Puertos : \A k \in 1 .. aceptadas[t] : llegadas'[t][k] = llegadas[t][k]
    BY <1>5, <1>9 DEF Colas, TypeOK
  <2>3. \A k \in 1 .. Len(recursosCpu) :
           k \in 1 .. aceptadas["envio"] /\ k \in 1 .. aceptadas["interrupcion"]
    BY <1>5, <2>1 DEF SocketsPorOrden, TypeOK
  <2>4. \A k \in 1 .. Len(recursosIo) : k \in 1 .. aceptadas["io"]
    BY <1>5, <2>1 DEF SocketsPorOrden, TypeOK
  <2> QED BY <1>4, <1>5, <2>1, <2>2, <2>3, <2>4 DEF SocketsPorOrden
<1> QED BY <1>12, <1>13, <1>14, <1>15 DEF Colas4

\* The entry a list gets is made of the connections next in line.
LEMMA RegistrarCpuColas == ASSUME ColasInv, RegistrarCpu PROVE Colas4' /\ Conteos'
<1>1. TypeOK /\ Colas /\ Numeradas /\ Numerados /\ Conteos /\ SocketsPorOrden
  BY DEF ColasInv
<1>2. /\ pcCpu = "registrarCpu" /\ pcCpu' = "crearHiloEnvio"
      /\ UNCHANGED <<aceptadas, llegadas, fdDe, pcCliente, hilo, pcIo, recursosIo>>
      /\ recursosCpu' = Append(recursosCpu,
                               [socket_envio        |-> fdDe[Actual("envio")],
                                socket_interrupcion |-> fdDe[Actual("interrupcion")],
                                disponible          |-> TRUE,
                                nombre_cpu          |-> nombreCpu])
  BY DEF RegistrarCpu, AgregarCpu, PasoCpu
<1> DEFINE n == Len(recursosCpu)
<1>3. /\ recursosCpu \in Seq(RecursosCpu) /\ recursosCpu' \in Seq(RecursosCpu)
      /\ n \in Nat
  BY <1>1, TiposCpu DEF TypeOK, AtenderConexionCpu, ColasInv
<1>4. aceptadas["envio"] = n + 1 /\ aceptadas["interrupcion"] = n + 1
  BY <1>1, <1>2 DEF Conteos, ConEnvio
<1>5. /\ Len(recursosCpu') = n + 1
      /\ \A k \in 1 .. n : recursosCpu'[k] = recursosCpu[k]
      /\ recursosCpu'[n + 1].socket_envio = fdDe[llegadas["envio"][n + 1]]
      /\ recursosCpu'[n + 1].socket_interrupcion = fdDe[llegadas["interrupcion"][n + 1]]
  BY <1>2, <1>3, <1>4 DEF Actual
<1>6. Conteos'
  BY <1>1, <1>2, <1>3, <1>4, <1>5 DEF Conteos, ConEnvio, ConIo
<1>7. SocketsPorOrden'
  <2>1. \A k \in 1 .. n + 1 : k \in 1 .. n \/ k = n + 1
    BY <1>3
  <2> QED BY <1>1, <1>2, <1>3, <1>4, <1>5, <2>1 DEF SocketsPorOrden
<1>8. Colas' /\ Numeradas' /\ Numerados'
  BY <1>1, <1>2 DEF Colas, Numeradas, Numerados, Llego
<1> QED BY <1>6, <1>7, <1>8 DEF Colas4

\* The same for an IO.
LEMMA RegistrarIoColas == ASSUME ColasInv, RegistrarIo PROVE Colas4' /\ Conteos'
<1>1. TypeOK /\ Colas /\ Numeradas /\ Numerados /\ Conteos /\ SocketsPorOrden
  BY DEF ColasInv
<1>2. /\ pcIo = "registrarIo" /\ pcIo' = "crearHiloAtenderIo"
      /\ UNCHANGED <<aceptadas, llegadas, fdDe, pcCliente, hilo, pcCpu, recursosCpu>>
      /\ recursosIo' = Append(recursosIo, [socket     |-> fdDe[Actual("io")],
                                           disponible |-> TRUE,
                                           nombre_io  |-> nombreIo])
  BY DEF RegistrarIo, PasoIo
<1> DEFINE n == Len(recursosIo)
<1>3. recursosIo \in Seq(RecursosIo) /\ recursosIo' \in Seq(RecursosIo) /\ n \in Nat
  BY <1>1, TiposIo DEF TypeOK, AtenderConexionIo
<1>4. aceptadas["io"] = n + 1
  BY <1>1, <1>2 DEF Conteos, ConIo
<1>5. /\ Len(recursosIo') = n + 1
      /\ \A k \in 1 .. n : recursosIo'[k] = recursosIo[k]
      /\ recursosIo'[n + 1].socket = fdDe[llegadas["io"][n + 1]]
  BY <1>2, <1>3, <1>4 DEF Actual
<1>6. Conteos'
  BY <1>1, <1>2, <1>3, <1>4, <1>5 DEF Conteos, ConEnvio, ConIo
<1>7. SocketsPorOrden'
  <2>1. \A k \in 1 .. n + 1 : k \in 1 .. n \/ k = n + 1
    BY <1>3
  <2> QED BY <1>1, <1>2, <1>3, <1>4, <1>5, <2>1 DEF SocketsPorOrden
<1>8. Colas' /\ Numeradas' /\ Numerados'
  BY <1>1, <1>2 DEF Colas, Numeradas, Numerados, Llego
<1> QED BY <1>6, <1>7, <1>8 DEF Colas4

\* accept moves a port's count on with its acceptor.
LEMMA AceptarConteos ==
    ASSUME ColasInv, AceptarEnvio \/ AceptarInterrupcion \/ AceptarIo
    PROVE  Conteos'
<1>1. /\ aceptadas \in [Puertos -> Nat] /\ Conteos
      /\ "envio" \in Puertos /\ "interrupcion" \in Puertos /\ "io" \in Puertos
      /\ Len(recursosCpu) \in Nat
  BY DEF ColasInv, TypeOK, Puertos
<1>2. CASE AceptarEnvio
  <2>1. aceptadas' = [aceptadas EXCEPT !["envio"] = @ + 1]
    BY <1>2 DEF AceptarEnvio, Aceptar
  <2> QED BY <1>1, <1>2, <2>1 DEF AceptarEnvio, PasoCpu, Conteos, ConEnvio
<1>3. CASE AceptarInterrupcion
  <2>1. aceptadas' = [aceptadas EXCEPT !["interrupcion"] = @ + 1]
    BY <1>3 DEF AceptarInterrupcion, Aceptar
  <2> QED BY <1>1, <1>3, <2>1 DEF AceptarInterrupcion, PasoCpu, Conteos, ConEnvio
<1>4. CASE AceptarIo
  <2>1. aceptadas' = [aceptadas EXCEPT !["io"] = @ + 1]
    BY <1>4 DEF AceptarIo, Aceptar
  <2> QED BY <1>1, <1>4, <2>1 DEF AceptarIo, PasoIo, Conteos, ConIo
<1> QED BY <1>2, <1>3, <1>4

\* pthread_create starts the thread of a connection that has a number.
LEMMA CrearHiloNumerado ==
    ASSUME ColasInv, NEW s \in Puertos, aceptadas[s] > 0, CrearHilo(Actual(s))
    PROVE  \A c \in Conexiones :
              hilo'[c] # "sinCrear" => hilo[c] # "sinCrear" \/ fdDe[c] # SinFd
BY ActualNumerada DEF CrearHilo, ColasInv, TypeOK

\* The acceptor of CPUs keeps queues, numbers, lists and counts related.
LEMMA ColasCpu == ASSUME ColasInv, AtenderConexionCpu PROVE Colas4' /\ Conteos'
<1>0. "envio" \in Puertos /\ "interrupcion" \in Puertos /\ Conteos
  BY DEF Puertos, ColasInv
<1>1. CASE AceptarEnvio
  BY <1>0, <1>1, AceptarColas, AceptarConteos DEF AceptarEnvio, PasoCpu
<1>2. CASE OperacionHandshakeCpu \/ BufferHandshakeCpu
  <2>1. Colas4'
    BY <1>2, QuietasColas DEF OperacionHandshakeCpu, BufferHandshakeCpu, PasoCpu
  <2> QED BY <1>0, <1>2, <2>1
          DEF OperacionHandshakeCpu, BufferHandshakeCpu, PasoCpu, Conteos, ConEnvio
<1>4. CASE AceptarInterrupcion
  BY <1>0, <1>4, AceptarColas, AceptarConteos DEF AceptarInterrupcion, PasoCpu
<1>5. CASE RegistrarCpu
  BY <1>5, RegistrarCpuColas
<1>6. CASE CrearHiloEnvio
  <2>1. aceptadas["envio"] > 0
    BY <1>0, <1>6 DEF CrearHiloEnvio, PasoCpu, Conteos, ColasInv, TypeOK
  <2>2. Colas4'
    BY <1>0, <1>6, <2>1, CrearHiloNumerado, QuietasColas DEF CrearHiloEnvio, PasoCpu
  <2> QED BY <1>0, <1>6, <2>2 DEF CrearHiloEnvio, PasoCpu, Conteos, ConEnvio
<1>7. CASE CrearHiloInterrupcion
  <2>1. aceptadas["interrupcion"] > 0
    BY <1>0, <1>7 DEF CrearHiloInterrupcion, PasoCpu, Conteos, ColasInv, TypeOK
  <2>2. Colas4'
    BY <1>0, <1>7, <2>1, CrearHiloNumerado, QuietasColas
       DEF CrearHiloInterrupcion, PasoCpu
  <2> QED BY <1>0, <1>7, <2>2 DEF CrearHiloInterrupcion, PasoCpu, Conteos, ConEnvio
<1> QED BY <1>1, <1>2, <1>4, <1>5, <1>6, <1>7 DEF AtenderConexionCpu

\* The acceptor of IOs keeps them related.
LEMMA ColasIo == ASSUME ColasInv, AtenderConexionIo PROVE Colas4' /\ Conteos'
<1>0. "io" \in Puertos /\ Conteos
  BY DEF Puertos, ColasInv
<1>1. CASE AceptarIo
  BY <1>0, <1>1, AceptarColas, AceptarConteos DEF AceptarIo, PasoIo
<1>2. CASE OperacionHandshakeIo \/ BufferHandshakeIo
  <2>1. Colas4'
    BY <1>2, QuietasColas DEF OperacionHandshakeIo, BufferHandshakeIo, PasoIo
  <2> QED BY <1>0, <1>2, <2>1
          DEF OperacionHandshakeIo, BufferHandshakeIo, PasoIo, Conteos, ConIo
<1>3. CASE RegistrarIo
  BY <1>3, RegistrarIoColas
<1>4. CASE CrearHiloAtenderIo
  <2>1. aceptadas["io"] > 0
    BY <1>0, <1>4 DEF CrearHiloAtenderIo, PasoIo, Conteos, ConIo, ColasInv, TypeOK
  <2>2. Colas4'
    BY <1>0, <1>4, <2>1, CrearHiloNumerado, QuietasColas DEF CrearHiloAtenderIo, PasoIo
  <2> QED BY <1>0, <1>4, <2>2 DEF CrearHiloAtenderIo, PasoIo, Conteos, ConIo
<1> QED BY <1>1, <1>2, <1>3, <1>4 DEF AtenderConexionIo

\* The main thread and a fall of the kernel keep them related.
LEMMA ColasMain == ASSUME ColasInv, Main \/ CaidaKernel PROVE Colas4' /\ Conteos'
<1> USE DEF PasoMain
<1>1. /\ UNCHANGED <<llegadas, aceptadas, fdDe, pcCliente, recursosCpu, recursosIo, hilo>>
      /\ UNCHANGED pcCpu \/ (pcCpu = "sinCrear" /\ pcCpu' = "aceptarEnvio")
      /\ UNCHANGED pcIo \/ (pcIo = "sinCrear" /\ pcIo' = "aceptarIo")
  BY DEF Main, ConectarMemoriaKernel, IniciarServidor, CrearHiloIo, CrearHiloCpu,
         CaidaKernel, ColasInv, Arranque
<1>2. Conteos
  BY DEF ColasInv
<1>3. Conteos'
  BY <1>1, <1>2 DEF Conteos, ConEnvio, ConIo
<1> QED BY <1>1, <1>3, QuietasColas

\* The thread of a connection keeps them related.
LEMMA ColasHilo ==
    ASSUME ColasInv, NEW c \in Conexiones, AtenderCliente(c)
    PROVE  Colas4' /\ Conteos'
<1>1. /\ UNCHANGED <<llegadas, aceptadas, fdDe, pcCliente, recursosCpu, recursosIo,
                    pcCpu, pcIo>>
      /\ \A d \in Conexiones : hilo'[d] # "sinCrear" => hilo[d] # "sinCrear"
  BY DEF AtenderCliente, AtenderOperacion, AtenderBuffer, PasoHilo, ColasInv, TypeOK
<1>2. Conteos
  BY DEF ColasInv
<1>3. Conteos'
  BY <1>1, <1>2 DEF Conteos
<1> QED BY <1>1, <1>3, QuietasColas

\* The clients keep them related.
LEMMA ColasCliente ==
    ASSUME ColasInv, NEW p \in Procesos, PasoQuieto(p) \/ PasoConecta(p)
    PROVE  Colas4' /\ Conteos'
<1>1. Conteos'
  BY DEF PasoQuieto, PasoConecta, PasoCliente, ColasInv, Conteos
<1> QED BY <1>1, QuietoColas, ConectaColas

\* Every step keeps the order of the start-up.
LEMMA ArranquePaso == ASSUME ColasInv, [Next]_vars PROVE Arranque'
<1>1. Arranque
  BY DEF ColasInv
<1>2. CASE Main \/ CaidaKernel
  BY <1>1, <1>2 DEF Main, ConectarMemoriaKernel, IniciarServidor, CrearHiloIo,
     CrearHiloCpu, CaidaKernel, PasoMain, Arranque
<1>3. CASE AtenderConexionCpu
  <2>1. pcCpu # "sinCrear" /\ UNCHANGED <<pcMain, pcIo>>
    BY <1>3 DEF AtenderConexionCpu, AceptarEnvio, OperacionHandshakeCpu,
       BufferHandshakeCpu, AceptarInterrupcion, RegistrarCpu, AgregarCpu,
       CrearHiloEnvio, CrearHiloInterrupcion, PasoCpu
  <2> QED BY <1>1, <2>1 DEF Arranque
<1>4. CASE AtenderConexionIo
  <2>1. pcIo # "sinCrear" /\ UNCHANGED <<pcMain, pcCpu>>
    BY <1>4 DEF AtenderConexionIo, AceptarIo, OperacionHandshakeIo,
       BufferHandshakeIo, RegistrarIo, CrearHiloAtenderIo, PasoIo
  <2> QED BY <1>1, <2>1 DEF Arranque
<1>5. CASE \E c \in Conexiones : AtenderCliente(c)
  BY <1>1, <1>5 DEF AtenderCliente, AtenderOperacion, AtenderBuffer, PasoHilo, Arranque
<1>6. CASE \E p \in Procesos : Lanzar(p) \/ MainCliente(p) \/ Morir(p)
  <2>1. PICK p \in Procesos : PasoQuieto(p) \/ PasoConecta(p)
    BY <1>6, PasosDeCliente
  <2> QED BY <1>1, <2>1 DEF PasoQuieto, PasoConecta, PasoCliente, Arranque
<1>7. CASE UNCHANGED vars
  BY <1>1, <1>7 DEF Arranque, vars
<1> QED BY <1>2, <1>3, <1>4, <1>5, <1>6, <1>7 DEF Next

\* ColasInv is inductive: every step keeps it, for any constants.
LEMMA ColasPaso == ASSUME ColasInv, [Next]_vars PROVE ColasInv'
<1>1. TypeOK' /\ Arranque'
  BY TiposPaso, ArranquePaso
<1>2. CASE Next
  <2>1. Colas4' /\ Conteos'
    BY <1>2, ColasMain, ColasCpu, ColasIo, ColasHilo, ColasCliente, PasosDeCliente
       DEF Next
  <2> QED BY <1>1, <2>1 DEF ColasInv, Colas4
<1>3. CASE UNCHANGED vars
  BY <1>1, <1>3 DEF ColasInv, Colas, Numeradas, Numerados, Conteos, SocketsPorOrden,
     Llego, vars
<1> QED BY <1>2, <1>3

\* Queues, numbers and lists stay related in every behaviour (kernel.c:144-204).
THEOREM ColasSiempre == Spec => []ColasInv
BY InitColas, ColasPaso, PTL DEF Spec

\* Every variable keeps the values kernel.c, cpu.c and io.c declare for it.
THEOREM TiposSiempre == Spec => []TypeOK
BY ColasSiempre, PTL DEF ColasInv

\* The lists follow the order of arrival at the ports, whatever dies and whatever
\* descriptor is reused.
THEOREM SocketsSiempre == Spec => []SocketsPorOrden
BY ColasSiempre, PTL DEF ColasInv

-----------------------------------------------------------------------------
(* Who reads what *)

SinMuertesTempranas == PuntosDeMuerte \cap MuertesTempranas = {}

\* A descriptor denotes a connection under the number that connection was given.
Descriptores == \A f \in Fds : tabla[f] # Libre => fdDe[tabla[f]] = f

\* c is between its accept and the creation of its thread.
EnRegistro(c) ==
    \/ c.puerto = "envio" /\ pcCpu \in ConEnvio /\ c = Actual("envio")
    \/ c.puerto = "interrupcion" /\ pcCpu \in ConInterrupcion /\ c = Actual("interrupcion")
    \/ c.puerto = "io" /\ pcIo \in ConIo /\ c = Actual("io")

\* The connections being registered have no thread, and their greeting is read as
\* far as the acceptor has got; the others without a thread are untouched.
Saludos ==
    /\ \A c \in Conexiones : EnRegistro(c) => hilo[c] = "sinCrear"
    /\ \A c \in Conexiones :
          hilo[c] = "sinCrear" /\ (~EnRegistro(c) \/ c.puerto = "interrupcion")
              => leido[c] = 0
    /\ pcCpu = "operacionCpu" => leido[Actual("envio")] = 0
    /\ pcCpu = "bufferCpu" => leido[Actual("envio")] = 1
    /\ pcCpu \in {"aceptarInterrupcion", "registrarCpu", "crearHiloEnvio"} =>
          leido[Actual("envio")] = 2
    /\ pcIo = "operacionIo" => leido[Actual("io")] = 0
    /\ pcIo = "bufferIo" => leido[Actual("io")] = 1
    /\ pcIo \in {"registrarIo", "crearHiloAtenderIo"} => leido[Actual("io")] = 2

\* The threads read whole packets, in turns of code and buffer.
Turnos ==
    /\ rotas = {}
    /\ \A c \in Conexiones :
          /\ hilo[c] = "operacion" => leido[c] \in {0, 2, 4}
          /\ hilo[c] = "HANDSHAKE" => leido[c] = 1
          /\ hilo[c] = "MENSAJE" => leido[c] = 3
          /\ hilo[c] = "terminado" => Terminado(c.proc) /\ leido[c] = enviado[c]

\* What the client of c has sent on it, by where it is in its program.
Envio(c) ==
    /\ leido[c] <= enviado[c]
    /\ enviado[c] \in IF c.puerto = "io" THEN {0, 2} ELSE {0, 2, 4}
    /\ ~Llego(c) => enviado[c] = 0
    /\ pcCliente[c.proc] \notin Antes(c.puerto) \cup {"terminado"} => Llego(c)
    /\ c.puerto = "envio" =>
          /\ pcCliente[c.proc] = "saludarEnvio" => enviado[c] = 0
          /\ pcCliente[c.proc] \in {"conectarInterrupcion", "saludarInterrupcion",
                                    "conectarMemoria", "mensajeEnvio"}
                => enviado[c] = 2
    /\ c.puerto = "interrupcion" =>
          /\ pcCliente[c.proc] = "saludarInterrupcion" => enviado[c] = 0
          /\ pcCliente[c.proc] \in {"conectarMemoria", "mensajeEnvio",
                                    "mensajeInterrupcion"}
                => enviado[c] = 2
    /\ c.puerto = "io" /\ pcCliente[c.proc] = "saludarIo" => enviado[c] = 0

Envios == \A c \in Conexiones : Envio(c)

\* While the kernel is up, a client whose greeting it reads has sent it or is
\* about to.
Saluda(c) ==
    Llego(c) /\ c.puerto # "interrupcion" /\ enviado[c] = 0
        => pcCliente[c.proc] \in MuertesTempranas

Saludan == ~caido => \A c \in Conexiones : Saluda(c)

\* The name the acceptors hold is that of the process they are registering.
Nombres ==
    /\ pcCpu \in {"aceptarInterrupcion", "registrarCpu"} =>
          nombreCpu = Actual("envio").proc
    /\ pcIo = "registrarIo" => nombreIo = Actual("io").proc

LecturaInv ==
    /\ Descriptores /\ HiloConSuConexion /\ Saludos /\ Turnos /\ Envios /\ Saludan
    /\ Nombres /\ Identificados

-----------------------------------------------------------------------------
(* Lemmas about reading *)


\* The invariant holds before the kernel has done anything.
LEMMA InitLectura == Init => LecturaInv
<1> SUFFICES ASSUME Init PROVE LecturaInv
  OBVIOUS
<1>1. Descriptores /\ HiloConSuConexion /\ Turnos /\ Nombres /\ Identificados
  BY DEF Init, Descriptores, HiloConSuConexion, Turnos, Nombres, Identificados
<1>2. Saludos
  BY DEF Init, Saludos, EnRegistro, ConEnvio, ConInterrupcion, ConIo
<1>3. Envios
  BY CamposDeConexion DEF Init, Envios, Envio, Antes, Puertos
<1>4. Saludan
  BY DEF Init, Saludan, Saluda, Llego, Conexiones, PuertosCpu, Puertos
<1> QED BY <1>1, <1>2, <1>3, <1>4 DEF LecturaInv

\* What the client of c sends, cell by cell.
LEMMA CeldasHechos ==
    ASSUME ColasInv, LecturaInv, NEW c \in Conexiones
    PROVE  /\ leido[c] = 0 => Celdas(c)[leido[c] + 1] = "HANDSHAKE"
           /\ leido[c] = 2 /\ leido[c] < enviado[c] => Celdas(c)[leido[c] + 1] = "MENSAJE"
           /\ leido[c] = 1 => Celdas(c)[leido[c] + 1] = "buffer" /\ leido[c] < enviado[c]
           /\ leido[c] = 3 => Celdas(c)[leido[c] + 1] = "buffer" /\ leido[c] < enviado[c]
           /\ leido[c] = 4 => ~(leido[c] < enviado[c])
<1>1. /\ leido[c] <= enviado[c]
      /\ enviado[c] \in IF c.puerto = "io" THEN {0, 2} ELSE {0, 2, 4}
  BY DEF LecturaInv, Envios, Envio
<1> QED BY <1>1 DEF Celdas

\* A thread that reads at an operation code gets the code its client sent, or the
\* end of the stream once that client has ended and everything was read.
LEMMA LeerOperacion ==
    ASSUME ColasInv, LecturaInv, NEW c \in Conexiones, NEW op,
           tabla[fdDe[c]] = c, leido[c] \in {0, 2, 4},
           RecibirOperacion(fdDe[c], op)
    PROVE  /\ UNCHANGED rotas
           /\ \/ /\ op = IF leido[c] = 0 THEN "HANDSHAKE" ELSE "MENSAJE"
                 /\ leido[c] \in {0, 2} /\ leido[c] < enviado[c]
                 /\ leido' = [leido EXCEPT ![c] = @ + 1]
                 /\ UNCHANGED tabla
              \/ /\ op = "DESCONEXION"
                 /\ Terminado(c.proc) /\ leido[c] = enviado[c]
                 /\ tabla' = [tabla EXCEPT ![fdDe[c]] = Libre]
                 /\ UNCHANGED leido
<1>1. c # Libre /\ rotas = {}
  BY Constantes DEF LecturaInv, Turnos
<1>2. leido[c] < enviado[c] => leido[c] \in {0, 2} /\ EnOperacion(fdDe[c])
  BY <1>1, CeldasHechos DEF EnOperacion, ProximaCelda
<1>3. CASE HayDatos(fdDe[c])
  <2>1. leido[c] < enviado[c] /\ ~FinDeDatos(fdDe[c]) /\ EnOperacion(fdDe[c])
    <3>1. leido[c] \in Nat /\ enviado[c] \in Nat
      BY DEF ColasInv, TypeOK
    <3> QED BY <1>1, <1>2, <1>3, <3>1 DEF HayDatos, FinDeDatos
  <2>2. op = ProximaCelda(fdDe[c]) /\ ConsumirCelda(fdDe[c]) /\ UNCHANGED tabla
    BY <2>1 DEF RecibirOperacion
  <2>3. op = IF leido[c] = 0 THEN "HANDSHAKE" ELSE "MENSAJE"
    BY <1>2, <2>1, <2>2, CeldasHechos DEF ProximaCelda
  <2> QED BY <1>2, <2>1, <2>2, <2>3 DEF ConsumirCelda
<1>4. CASE ~HayDatos(fdDe[c])
  BY <1>1, <1>4 DEF RecibirOperacion, FinDeDatos, Cerrar
<1> QED BY <1>3, <1>4

\* A thread that reads at a buffer gets the whole buffer.
LEMMA LeerBuffer ==
    ASSUME ColasInv, LecturaInv, NEW c \in Conexiones, NEW nombre,
           tabla[fdDe[c]] = c, leido[c] \in {1, 3},
           RecibirBuffer(fdDe[c], nombre)
    PROVE  /\ UNCHANGED rotas
           /\ leido' = [leido EXCEPT ![c] = @ + 1]
           /\ leido[c] < enviado[c]
           /\ leido[c] = 1 => nombre = c.proc
<1>1. c # Libre /\ rotas = {}
  BY Constantes DEF LecturaInv, Turnos
<1>2. leido[c] < enviado[c] /\ EnBuffer(fdDe[c])
  BY <1>1, CeldasHechos DEF EnBuffer, ProximaCelda
<1>3. HayDatos(fdDe[c]) /\ ~FinDeDatos(fdDe[c])
  <2>1. leido[c] \in Nat /\ enviado[c] \in Nat
    BY DEF ColasInv, TypeOK
  <2> QED BY <1>1, <1>2, <2>1 DEF HayDatos, FinDeDatos
<1> QED BY <1>2, <1>3 DEF RecibirBuffer, ConsumirCelda

\* A connection with a number whose thread has not ended is behind that number.
LEMMA DetrasDeSuNumero ==
    ASSUME ColasInv, LecturaInv, NEW c \in Conexiones,
           fdDe[c] # SinFd, hilo[c] # "terminado"
    PROVE  fdDe[c] \in Fds /\ tabla[fdDe[c]] = c
BY DEF ColasInv, TypeOK, LecturaInv, HiloConSuConexion

\* The connection an acceptor is registering.
LEMMA EnRegistroHechos ==
    ASSUME ColasInv, LecturaInv
    PROVE  /\ pcCpu \in ConEnvio =>
                 /\ Actual("envio") \in Conexiones /\ Actual("envio").puerto = "envio"
                 /\ aceptadas["envio"] \in 1 .. Len(llegadas["envio"])
                 /\ fdDe[Actual("envio")] # SinFd /\ hilo[Actual("envio")] = "sinCrear"
           /\ pcCpu \in ConInterrupcion =>
                 /\ Actual("interrupcion") \in Conexiones
                 /\ Actual("interrupcion").puerto = "interrupcion"
                 /\ aceptadas["interrupcion"] \in 1 .. Len(llegadas["interrupcion"])
                 /\ fdDe[Actual("interrupcion")] # SinFd
                 /\ hilo[Actual("interrupcion")] = "sinCrear"
           /\ pcIo \in ConIo =>
                 /\ Actual("io") \in Conexiones /\ Actual("io").puerto = "io"
                 /\ aceptadas["io"] \in 1 .. Len(llegadas["io"])
                 /\ fdDe[Actual("io")] # SinFd /\ hilo[Actual("io")] = "sinCrear"
<1>1. Conteos /\ Colas /\ aceptadas \in [Puertos -> Nat] /\ Saludos
      /\ Len(recursosCpu) \in Nat /\ Len(recursosIo) \in Nat
      /\ "envio" \in Puertos /\ "interrupcion" \in Puertos /\ "io" \in Puertos
  BY DEF ColasInv, TypeOK, Puertos, LecturaInv
<1>2. pcCpu \in ConEnvio => aceptadas["envio"] > 0
  BY <1>1 DEF Conteos, ConEnvio
<1>3. pcCpu \in ConInterrupcion => aceptadas["interrupcion"] > 0
  BY <1>1 DEF Conteos, ConInterrupcion
<1>4. pcIo \in ConIo => aceptadas["io"] > 0
  BY <1>1 DEF Conteos, ConIo
<1>5. \A s \in Puertos : aceptadas[s] > 0 =>
         /\ Actual(s) \in Conexiones /\ Actual(s).puerto = s
         /\ aceptadas[s] \in 1 .. Len(llegadas[s]) /\ fdDe[Actual(s)] # SinFd
  <2> SUFFICES ASSUME NEW s \in Puertos, aceptadas[s] > 0
               PROVE  /\ Actual(s) \in Conexiones /\ Actual(s).puerto = s
                      /\ aceptadas[s] \in 1 .. Len(llegadas[s])
                      /\ fdDe[Actual(s)] # SinFd
    OBVIOUS
  <2>1. aceptadas[s] \in Nat /\ aceptadas[s] <= Len(llegadas[s])
        /\ Len(llegadas[s]) \in Nat
    BY <1>1 DEF Colas, ColasInv, TypeOK
  <2> QED BY <2>1, ActualNumerada
<1>6. \A c \in Conexiones : EnRegistro(c) => hilo[c] = "sinCrear"
  BY <1>1 DEF Saludos
<1> QED BY <1>1, <1>2, <1>3, <1>4, <1>5, <1>6 DEF EnRegistro

-----------------------------------------------------------------------------
(* main, and the end of the kernel *)

\* The main thread and a fall of the kernel keep it.
LEMMA LecturaMain == ASSUME ColasInv, LecturaInv, Main \/ CaidaKernel PROVE LecturaInv'
<1>1. /\ UNCHANGED <<llegadas, aceptadas, fdDe, pcCliente, recursosCpu, recursosIo,
                     hilo, tabla, enviado, leido, rotas, nombreCpu, nombreIo>>
      /\ UNCHANGED pcCpu \/ (pcCpu = "sinCrear" /\ pcCpu' = "aceptarEnvio")
      /\ UNCHANGED pcIo \/ (pcIo = "sinCrear" /\ pcIo' = "aceptarIo")
      /\ ~caido' => ~caido
  BY DEF Main, ConectarMemoriaKernel, IniciarServidor, CrearHiloIo, CrearHiloCpu,
         CaidaKernel, PasoMain, ColasInv, Arranque
<1>2. \A c : EnRegistro(c)' <=> EnRegistro(c)
  BY <1>1 DEF EnRegistro, Actual, ConEnvio, ConInterrupcion, ConIo
<1>3. Saludos'
  BY <1>1, <1>2 DEF LecturaInv, Saludos, Actual
<1>4. Descriptores' /\ HiloConSuConexion' /\ Turnos' /\ Identificados'
  BY <1>1 DEF LecturaInv, Descriptores, HiloConSuConexion, Turnos, Identificados, Terminado
<1>5. Envios' /\ Saludan'
  BY <1>1 DEF LecturaInv, Envios, Envio, Saludan, Saluda, Llego
<1>6. Nombres'
  BY <1>1 DEF LecturaInv, Nombres, Actual
<1> QED BY <1>3, <1>4, <1>5, <1>6 DEF LecturaInv

-----------------------------------------------------------------------------
(* accept *)

\* accept puts the new connection, and nothing else, behind a free number.
LEMMA AceptarLectura ==
    ASSUME ColasInv, LecturaInv, NEW s \in Puertos, Aceptar(s),
           UNCHANGED <<caido, hilo, llegadas, enviado, leido, rotas, pcCliente,
                       recursosCpu, recursosIo>>
    PROVE  /\ Descriptores' /\ HiloConSuConexion' /\ Turnos' /\ Envios'
           /\ Saludan' /\ Identificados'
<1> DEFINE c == llegadas[s][aceptadas[s] + 1]
<1>1. c \in Conexiones /\ fdDe[c] = SinFd
  BY AceptarHechos
<1>2. PICK f \in Fds : /\ tabla[f] = Libre
                       /\ tabla' = [tabla EXCEPT ![f] = c]
                       /\ fdDe' = [fdDe EXCEPT ![c] = f]
  BY AceptarHechos
<1> HIDE DEF c
<1>3. TypeOK /\ Libre \notin Conexiones /\ SinFd \notin Fds
  BY Constantes DEF ColasInv
<1>4. Descriptores'
  BY <1>1, <1>2, <1>3 DEF LecturaInv, Descriptores, TypeOK
<1>5. HiloConSuConexion'
  BY <1>1, <1>2, <1>3 DEF LecturaInv, HiloConSuConexion, TypeOK
<1>6. Turnos' /\ Envios' /\ Saludan' /\ Identificados'
  BY DEF LecturaInv, Turnos, Envios, Envio, Saludan, Saluda, Identificados, Terminado, Llego
<1> QED BY <1>4, <1>5, <1>6

\* Nobody has read the connection accept returns, and the acceptors' other
\* connections stay the same.
LEMMA AceptarActual ==
    ASSUME ColasInv, LecturaInv, NEW s \in Puertos, Aceptar(s), UNCHANGED llegadas
    PROVE  /\ Actual(s)' = llegadas[s][aceptadas[s] + 1]
           /\ Actual(s)' \in Conexiones /\ Actual(s)'.puerto = s
           /\ hilo[Actual(s)'] = "sinCrear"
           /\ ~EnRegistro(Actual(s)')
           /\ leido[Actual(s)'] = 0
           /\ \A t \in Puertos : t # s => Actual(t)' = Actual(t)
<1> DEFINE c == llegadas[s][aceptadas[s] + 1]
<1>1. /\ aceptadas' = [aceptadas EXCEPT ![s] = @ + 1]
      /\ c \in Conexiones /\ c.puerto = s /\ fdDe[c] = SinFd /\ hilo[c] = "sinCrear"
  BY AceptarHechos
<1>2. aceptadas \in [Puertos -> Nat]
  BY DEF ColasInv, TypeOK
<1>3. Actual(s)' = c /\ \A t \in Puertos : t # s => Actual(t)' = Actual(t)
  BY <1>1, <1>2 DEF Actual
<1>4. ~EnRegistro(c)
  BY <1>1, EnRegistroHechos DEF EnRegistro
<1>5. leido[c] = 0
  BY <1>1, <1>4 DEF LecturaInv, Saludos
<1> QED BY <1>1, <1>3, <1>4, <1>5

\* The accept of a dispatch connection keeps it.
LEMMA LecturaAceptarEnvio ==
    ASSUME ColasInv, LecturaInv, AceptarEnvio PROVE LecturaInv'
<1>1. /\ Aceptar("envio") /\ pcCpu = "aceptarEnvio" /\ pcCpu' = "operacionCpu"
      /\ UNCHANGED <<caido, pcIo, nombreIo, nombreCpu, hilo, llegadas, enviado, leido,
                     rotas, pcCliente, recursosCpu, recursosIo>>
      /\ {"envio", "interrupcion", "io"} \subseteq Puertos
  BY DEF AceptarEnvio, PasoCpu, Puertos
<1>2. /\ Actual("io")' = Actual("io")
      /\ leido[Actual("envio")'] = 0 /\ hilo[Actual("envio")'] = "sinCrear"
  BY <1>1, AceptarActual
<1>3. Saludos /\ Nombres
  BY DEF LecturaInv
<1>4. Saludos'
  <2>1. \A c \in Conexiones :
           EnRegistro(c)' <=> \/ EnRegistro(c)
                              \/ c.puerto = "envio" /\ c = Actual("envio")'
    BY <1>1, <1>2 DEF EnRegistro, ConEnvio, ConInterrupcion
  <2> QED BY <1>1, <1>2, <1>3, <2>1 DEF Saludos
<1>5. Nombres'
  BY <1>1, <1>2, <1>3 DEF Nombres
<1> QED BY <1>1, <1>4, <1>5, AceptarLectura DEF LecturaInv

\* The accept of an interrupt connection keeps it.
LEMMA LecturaAceptarInterrupcion ==
    ASSUME ColasInv, LecturaInv, AceptarInterrupcion PROVE LecturaInv'
<1>1. /\ Aceptar("interrupcion")
      /\ pcCpu = "aceptarInterrupcion" /\ pcCpu' = "registrarCpu"
      /\ UNCHANGED <<caido, pcIo, nombreIo, nombreCpu, hilo, llegadas, enviado, leido,
                     rotas, pcCliente, recursosCpu, recursosIo>>
      /\ {"envio", "interrupcion", "io"} \subseteq Puertos
  BY DEF AceptarInterrupcion, PasoCpu, Puertos
<1>2. /\ Actual("io")' = Actual("io") /\ Actual("envio")' = Actual("envio")
      /\ leido[Actual("interrupcion")'] = 0
      /\ hilo[Actual("interrupcion")'] = "sinCrear"
  BY <1>1, AceptarActual
<1>3. Saludos /\ Nombres
  BY DEF LecturaInv
<1>4. Saludos'
  <2>1. \A c \in Conexiones :
           EnRegistro(c)' <=> \/ EnRegistro(c)
                              \/ c.puerto = "interrupcion" /\ c = Actual("interrupcion")'
    BY <1>1, <1>2 DEF EnRegistro, ConEnvio, ConInterrupcion
  <2> QED BY <1>1, <1>2, <1>3, <2>1 DEF Saludos
<1>5. Nombres'
  BY <1>1, <1>2, <1>3 DEF Nombres
<1> QED BY <1>1, <1>4, <1>5, AceptarLectura DEF LecturaInv

\* The accept of an IO's connection keeps it.
LEMMA LecturaAceptarIo ==
    ASSUME ColasInv, LecturaInv, AceptarIo PROVE LecturaInv'
<1>1. /\ Aceptar("io") /\ pcIo = "aceptarIo" /\ pcIo' = "operacionIo"
      /\ UNCHANGED <<caido, pcCpu, nombreIo, nombreCpu, hilo, llegadas, enviado, leido,
                     rotas, pcCliente, recursosCpu, recursosIo>>
      /\ {"envio", "interrupcion", "io"} \subseteq Puertos
  BY DEF AceptarIo, PasoIo, Puertos
<1>2. /\ Actual("envio")' = Actual("envio")
      /\ Actual("interrupcion")' = Actual("interrupcion")
      /\ leido[Actual("io")'] = 0 /\ hilo[Actual("io")'] = "sinCrear"
  BY <1>1, AceptarActual
<1>3. Saludos /\ Nombres
  BY DEF LecturaInv
<1>4. Saludos'
  <2>1. \A c \in Conexiones :
           EnRegistro(c)' <=> \/ EnRegistro(c)
                              \/ c.puerto = "io" /\ c = Actual("io")'
    BY <1>1, <1>2 DEF EnRegistro, ConIo
  <2> QED BY <1>1, <1>2, <1>3, <2>1 DEF Saludos
<1>5. Nombres'
  BY <1>1, <1>2, <1>3 DEF Nombres
<1> QED BY <1>1, <1>4, <1>5, AceptarLectura DEF LecturaInv

-----------------------------------------------------------------------------
(* The greeting *)

\* While the kernel is up, a client whose greeting nobody has read has not ended
\* with everything read: it is about to send it, or has sent it.
LEMMA SaludoPendiente ==
    ASSUME ColasInv, LecturaInv, ~caido, NEW c \in Conexiones,
           fdDe[c] # SinFd, c.puerto # "interrupcion", leido[c] = 0
    PROVE  ~(Terminado(c.proc) /\ leido[c] = enviado[c])
BY DEF ColasInv, Numerados, LecturaInv, Saludan, Saluda, Terminado, MuertesTempranas

\* Reading one more cell of a connection that has no thread disturbs none of the
\* facts about descriptors, threads and clients.
LEMMA LeerSinHilo ==
    ASSUME ColasInv, LecturaInv, NEW c \in Conexiones,
           hilo[c] = "sinCrear", leido[c] < enviado[c],
           leido' = [leido EXCEPT ![c] = @ + 1],
           UNCHANGED <<caido, rotas, tabla, fdDe, hilo, llegadas, aceptadas, enviado,
                       pcCliente, recursosCpu, recursosIo>>
    PROVE  /\ Descriptores' /\ HiloConSuConexion' /\ Turnos' /\ Envios'
           /\ Saludan' /\ Identificados'
<1>1. leido \in [Conexiones -> Nat] /\ enviado[c] \in Nat /\ leido[c] \in Nat
  BY DEF ColasInv, TypeOK
<1>2. Turnos'
  BY <1>1 DEF LecturaInv, Turnos, Terminado
<1>3. Envios'
  <2>1. leido'[c] <= enviado[c] /\ \A d \in Conexiones : d # c => leido'[d] = leido[d]
    BY <1>1
  <2>2. \A d \in Conexiones : leido'[d] <= enviado[d]
    BY <2>1 DEF LecturaInv, Envios, Envio
  <2> QED BY <2>2 DEF LecturaInv, Envios, Envio, Llego
<1>4. Descriptores' /\ HiloConSuConexion' /\ Saludan' /\ Identificados'
  BY DEF LecturaInv, Descriptores, HiloConSuConexion, Saludan, Saluda, Identificados, Llego
<1> QED BY <1>2, <1>3, <1>4

\* Reading the code of a CPU's greeting keeps it.
LEMMA LecturaOperacionCpu ==
    ASSUME ColasInv, LecturaInv, OperacionHandshakeCpu PROVE LecturaInv'
<1> DEFINE c == Actual("envio")
<1>1. /\ pcCpu = "operacionCpu" /\ pcCpu' = "bufferCpu" /\ ~caido
      /\ UNCHANGED <<caido, pcIo, nombreIo, nombreCpu, hilo, llegadas, aceptadas, fdDe,
                     enviado, pcCliente, recursosCpu, recursosIo>>
  BY DEF OperacionHandshakeCpu, PasoCpu
<1>2. /\ c \in Conexiones /\ c.puerto = "envio" /\ fdDe[c] # SinFd
      /\ hilo[c] = "sinCrear" /\ leido[c] = 0
  BY <1>1, EnRegistroHechos DEF ConEnvio, LecturaInv, Saludos
<1>3. PICK op : RecibirOperacion(fdDe[c], op)
  BY DEF OperacionHandshakeCpu
<1>4. tabla[fdDe[c]] = c
  BY <1>2, DetrasDeSuNumero
<1>5. /\ UNCHANGED <<rotas, tabla>> /\ leido[c] < enviado[c]
      /\ leido' = [leido EXCEPT ![c] = @ + 1]
  BY <1>1, <1>2, <1>3, <1>4, LeerOperacion, SaludoPendiente
<1>6. Saludos'
  <2>1. \A d \in Conexiones : EnRegistro(d)' <=> EnRegistro(d)
    BY <1>1 DEF EnRegistro, Actual, ConEnvio, ConInterrupcion
  <2>2. EnRegistro(c) /\ leido'[c] = 1 /\ \A d \in Conexiones : d # c => leido'[d] = leido[d]
    BY <1>1, <1>2, <1>5 DEF EnRegistro, ConEnvio, ColasInv, TypeOK
  <2>3. pcIo \in ConIo => leido'[Actual("io")] = leido[Actual("io")]
    BY <1>2, <2>2, EnRegistroHechos
  <2> QED BY <1>1, <1>2, <2>1, <2>2, <2>3 DEF LecturaInv, Saludos, Actual, ConIo
<1>7. Nombres'
  BY <1>1 DEF LecturaInv, Nombres, Actual
<1> QED BY <1>1, <1>2, <1>5, <1>6, <1>7, LeerSinHilo DEF LecturaInv

\* Reading the contents of a CPU's greeting keeps it.
LEMMA LecturaBufferCpu ==
    ASSUME ColasInv, LecturaInv, BufferHandshakeCpu PROVE LecturaInv'
<1> DEFINE c == Actual("envio")
<1>1. /\ pcCpu = "bufferCpu" /\ pcCpu' = "aceptarInterrupcion" /\ ~caido
      /\ UNCHANGED <<caido, pcIo, nombreIo, tabla, hilo, llegadas, aceptadas, fdDe,
                     enviado, pcCliente, recursosCpu, recursosIo>>
  BY DEF BufferHandshakeCpu, PasoCpu
<1>2. /\ c \in Conexiones /\ c.puerto = "envio" /\ fdDe[c] # SinFd
      /\ hilo[c] = "sinCrear" /\ leido[c] = 1
  BY <1>1, EnRegistroHechos DEF ConEnvio, LecturaInv, Saludos
<1>3. RecibirBuffer(fdDe[c], nombreCpu')
  BY DEF BufferHandshakeCpu
<1>4. tabla[fdDe[c]] = c
  BY <1>2, DetrasDeSuNumero
<1>5. /\ UNCHANGED rotas /\ leido[c] < enviado[c]
      /\ leido' = [leido EXCEPT ![c] = @ + 1]
      /\ nombreCpu' = c.proc
  BY <1>2, <1>3, <1>4, LeerBuffer
<1>6. Saludos'
  <2>1. \A d \in Conexiones : EnRegistro(d)' <=> EnRegistro(d)
    BY <1>1 DEF EnRegistro, Actual, ConEnvio, ConInterrupcion
  <2>2. EnRegistro(c) /\ leido'[c] = 2 /\ \A d \in Conexiones : d # c => leido'[d] = leido[d]
    BY <1>1, <1>2, <1>5 DEF EnRegistro, ConEnvio, ColasInv, TypeOK
  <2>3. pcIo \in ConIo => leido'[Actual("io")] = leido[Actual("io")]
    BY <1>2, <2>2, EnRegistroHechos
  <2> QED BY <1>1, <1>2, <2>1, <2>2, <2>3 DEF LecturaInv, Saludos, Actual, ConIo
<1>7. Nombres'
  BY <1>1, <1>5 DEF LecturaInv, Nombres, Actual
<1> QED BY <1>1, <1>2, <1>5, <1>6, <1>7, LeerSinHilo DEF LecturaInv

\* Reading the code of an IO's greeting keeps it.
LEMMA LecturaOperacionIo ==
    ASSUME ColasInv, LecturaInv, OperacionHandshakeIo PROVE LecturaInv'
<1> DEFINE c == Actual("io")
<1>1. /\ pcIo = "operacionIo" /\ pcIo' = "bufferIo" /\ ~caido
      /\ UNCHANGED <<caido, pcCpu, nombreIo, nombreCpu, hilo, llegadas, aceptadas, fdDe,
                     enviado, pcCliente, recursosCpu, recursosIo>>
  BY DEF OperacionHandshakeIo, PasoIo
<1>2. /\ c \in Conexiones /\ c.puerto = "io" /\ fdDe[c] # SinFd
      /\ hilo[c] = "sinCrear" /\ leido[c] = 0
  BY <1>1, EnRegistroHechos DEF ConIo, LecturaInv, Saludos
<1>3. PICK op : RecibirOperacion(fdDe[c], op)
  BY DEF OperacionHandshakeIo
<1>4. tabla[fdDe[c]] = c
  BY <1>2, DetrasDeSuNumero
<1>5. /\ UNCHANGED <<rotas, tabla>> /\ leido[c] < enviado[c]
      /\ leido' = [leido EXCEPT ![c] = @ + 1]
  BY <1>1, <1>2, <1>3, <1>4, LeerOperacion, SaludoPendiente
<1>6. Saludos'
  <2>1. \A d \in Conexiones : EnRegistro(d)' <=> EnRegistro(d)
    BY <1>1 DEF EnRegistro, Actual, ConIo
  <2>2. EnRegistro(c) /\ leido'[c] = 1 /\ \A d \in Conexiones : d # c => leido'[d] = leido[d]
    BY <1>1, <1>2, <1>5 DEF EnRegistro, ConIo, ColasInv, TypeOK
  <2>3. pcCpu \in ConEnvio => leido'[Actual("envio")] = leido[Actual("envio")]
    BY <1>2, <2>2, EnRegistroHechos
  <2> QED BY <1>1, <1>2, <2>1, <2>2, <2>3 DEF LecturaInv, Saludos, Actual, ConEnvio
<1>7. Nombres'
  BY <1>1 DEF LecturaInv, Nombres, Actual
<1> QED BY <1>1, <1>2, <1>5, <1>6, <1>7, LeerSinHilo DEF LecturaInv

\* Reading the contents of an IO's greeting keeps it.
LEMMA LecturaBufferIo ==
    ASSUME ColasInv, LecturaInv, BufferHandshakeIo PROVE LecturaInv'
<1> DEFINE c == Actual("io")
<1>1. /\ pcIo = "bufferIo" /\ pcIo' = "registrarIo" /\ ~caido
      /\ UNCHANGED <<caido, pcCpu, nombreCpu, tabla, hilo, llegadas, aceptadas, fdDe,
                     enviado, pcCliente, recursosCpu, recursosIo>>
  BY DEF BufferHandshakeIo, PasoIo
<1>2. /\ c \in Conexiones /\ c.puerto = "io" /\ fdDe[c] # SinFd
      /\ hilo[c] = "sinCrear" /\ leido[c] = 1
  BY <1>1, EnRegistroHechos DEF ConIo, LecturaInv, Saludos
<1>3. RecibirBuffer(fdDe[c], nombreIo')
  BY DEF BufferHandshakeIo
<1>4. tabla[fdDe[c]] = c
  BY <1>2, DetrasDeSuNumero
<1>5. /\ UNCHANGED rotas /\ leido[c] < enviado[c]
      /\ leido' = [leido EXCEPT ![c] = @ + 1]
      /\ nombreIo' = c.proc
  BY <1>2, <1>3, <1>4, LeerBuffer
<1>6. Saludos'
  <2>1. \A d \in Conexiones : EnRegistro(d)' <=> EnRegistro(d)
    BY <1>1 DEF EnRegistro, Actual, ConIo
  <2>2. EnRegistro(c) /\ leido'[c] = 2 /\ \A d \in Conexiones : d # c => leido'[d] = leido[d]
    BY <1>1, <1>2, <1>5 DEF EnRegistro, ConIo, ColasInv, TypeOK
  <2>3. pcCpu \in ConEnvio => leido'[Actual("envio")] = leido[Actual("envio")]
    BY <1>2, <2>2, EnRegistroHechos
  <2> QED BY <1>1, <1>2, <2>1, <2>2, <2>3 DEF LecturaInv, Saludos, Actual, ConEnvio
<1>7. Nombres'
  BY <1>1, <1>5 DEF LecturaInv, Nombres, Actual
<1> QED BY <1>1, <1>2, <1>5, <1>6, <1>7, LeerSinHilo DEF LecturaInv

-----------------------------------------------------------------------------
(* Registering and creating threads *)

\* Listing a CPU keeps it: the name is that of the process.
LEMMA LecturaRegistrarCpu ==
    ASSUME ColasInv, ColasInv', LecturaInv, RegistrarCpu PROVE LecturaInv'
<1>1. /\ pcCpu = "registrarCpu" /\ pcCpu' = "crearHiloEnvio"
      /\ UNCHANGED <<caido, pcIo, nombreIo, nombreCpu, hilo, tabla, llegadas, aceptadas,
                     fdDe, enviado, leido, rotas, pcCliente, recursosIo>>
  BY DEF RegistrarCpu, AgregarCpu, PasoCpu
<1>2. Identificados'
  <2> DEFINE n == Len(recursosCpu)
  <2>1. recursosCpu \in Seq(RecursosCpu) /\ recursosCpu' \in Seq(RecursosCpu)
    BY DEF ColasInv, TypeOK
  <2>2. n \in Nat /\ aceptadas["envio"] = n + 1
    BY <1>1, <2>1 DEF ColasInv, Conteos, ConEnvio
  <2>3. nombreCpu = llegadas["envio"][n + 1].proc
    BY <1>1, <2>2 DEF LecturaInv, Nombres, Actual
  <2>4. /\ Len(recursosCpu') = n + 1
        /\ \A k \in 1 .. n : recursosCpu'[k] = recursosCpu[k]
        /\ recursosCpu'[n + 1].nombre_cpu = nombreCpu
    BY <2>1 DEF RegistrarCpu, AgregarCpu
  <2>5. \A k \in 1 .. n + 1 : k \in 1 .. n \/ k = n + 1
    BY <2>2
  <2> QED BY <1>1, <2>3, <2>4, <2>5 DEF LecturaInv, Identificados
<1>3. Saludos'
  <2>1. \A d \in Conexiones : EnRegistro(d)' <=> EnRegistro(d)
    BY <1>1 DEF EnRegistro, Actual, ConEnvio, ConInterrupcion
  <2> QED BY <1>1, <2>1 DEF LecturaInv, Saludos, Actual
<1>4. Descriptores' /\ HiloConSuConexion' /\ Turnos' /\ Envios' /\ Saludan' /\ Nombres'
  BY <1>1 DEF LecturaInv, Descriptores, HiloConSuConexion, Turnos, Envios, Envio, Saludan, Saluda,
     Nombres, Terminado, Llego, Actual
<1> QED BY <1>2, <1>3, <1>4 DEF LecturaInv

\* Listing an IO keeps it.
LEMMA LecturaRegistrarIo ==
    ASSUME ColasInv, ColasInv', LecturaInv, RegistrarIo PROVE LecturaInv'
<1>1. /\ pcIo = "registrarIo" /\ pcIo' = "crearHiloAtenderIo"
      /\ UNCHANGED <<caido, pcCpu, nombreIo, nombreCpu, hilo, tabla, llegadas, aceptadas,
                     fdDe, enviado, leido, rotas, pcCliente, recursosCpu>>
  BY DEF RegistrarIo, PasoIo
<1>2. Identificados'
  <2> DEFINE n == Len(recursosIo)
  <2>1. recursosIo \in Seq(RecursosIo) /\ recursosIo' \in Seq(RecursosIo)
    BY DEF ColasInv, TypeOK
  <2>2. n \in Nat /\ aceptadas["io"] = n + 1
    BY <1>1, <2>1 DEF ColasInv, Conteos, ConIo
  <2>3. nombreIo = llegadas["io"][n + 1].proc
    BY <1>1, <2>2 DEF LecturaInv, Nombres, Actual
  <2>4. /\ Len(recursosIo') = n + 1
        /\ \A k \in 1 .. n : recursosIo'[k] = recursosIo[k]
        /\ recursosIo'[n + 1].nombre_io = nombreIo
    BY <2>1 DEF RegistrarIo
  <2>5. \A k \in 1 .. n + 1 : k \in 1 .. n \/ k = n + 1
    BY <2>2
  <2> QED BY <1>1, <2>3, <2>4, <2>5 DEF LecturaInv, Identificados
<1>3. Saludos'
  <2>1. \A d \in Conexiones : EnRegistro(d)' <=> EnRegistro(d)
    BY <1>1 DEF EnRegistro, Actual, ConIo
  <2> QED BY <1>1, <2>1 DEF LecturaInv, Saludos, Actual
<1>4. Descriptores' /\ HiloConSuConexion' /\ Turnos' /\ Envios' /\ Saludan' /\ Nombres'
  BY <1>1 DEF LecturaInv, Descriptores, HiloConSuConexion, Turnos, Envios, Envio, Saludan, Saluda,
     Nombres, Terminado, Llego, Actual
<1> QED BY <1>2, <1>3, <1>4 DEF LecturaInv

\* A new thread starts between two packets of a connection that is behind its
\* number.
LEMMA CrearHiloLectura ==
    ASSUME ColasInv, LecturaInv, NEW c \in Conexiones, CrearHilo(c),
           hilo[c] = "sinCrear", leido[c] \in {0, 2},
           UNCHANGED <<caido, tabla, fdDe, llegadas, aceptadas, enviado, leido, rotas,
                       pcCliente, recursosCpu, recursosIo>>
    PROVE  /\ Descriptores' /\ HiloConSuConexion' /\ Turnos' /\ Envios'
           /\ Saludan' /\ Identificados'
           /\ hilo'[c] = "operacion"
           /\ \A d \in Conexiones : d # c => hilo'[d] = hilo[d]
<1>1. /\ hilo'[c] = "operacion"
      /\ \A d \in Conexiones : d # c => hilo'[d] = hilo[d]
  BY DEF CrearHilo, ColasInv, TypeOK
<1>2. HiloConSuConexion'
  BY <1>1 DEF LecturaInv, HiloConSuConexion
<1>3. Turnos'
  BY <1>1 DEF LecturaInv, Turnos, Terminado
<1>4. Descriptores' /\ Envios' /\ Saludan' /\ Identificados'
  BY DEF LecturaInv, Descriptores, Envios, Envio, Saludan, Saluda, Identificados, Llego
<1> QED BY <1>1, <1>2, <1>3, <1>4

\* Handing a connection over to its thread keeps it.
LEMMA LecturaCrearHilo ==
    ASSUME ColasInv, LecturaInv,
           CrearHiloEnvio \/ CrearHiloInterrupcion \/ CrearHiloAtenderIo
    PROVE  LecturaInv'
<1> USE DEF ConEnvio, ConInterrupcion, ConIo
<1>0. Saludos /\ Nombres
  BY DEF LecturaInv
<1>1. CASE CrearHiloEnvio
  <2> DEFINE c == Actual("envio")
  <2>1. /\ pcCpu = "crearHiloEnvio" /\ pcCpu' = "crearHiloInterrupcion"
        /\ CrearHilo(c)
        /\ UNCHANGED <<caido, pcIo, nombreIo, nombreCpu, tabla, llegadas, aceptadas,
                       fdDe, enviado, leido, rotas, pcCliente, recursosCpu, recursosIo>>
    BY <1>1 DEF CrearHiloEnvio, PasoCpu
  <2>2. /\ c \in Conexiones /\ c.puerto = "envio" /\ hilo[c] = "sinCrear"
        /\ leido[c] = 2 /\ EnRegistro(c)
    BY <1>0, <2>1, EnRegistroHechos DEF Saludos, EnRegistro
  <2>3. \A d \in Conexiones : EnRegistro(d)' <=> EnRegistro(d) /\ d # c
    BY <2>1, <2>2 DEF EnRegistro, Actual
  <2>4. /\ hilo'[c] = "operacion"
        /\ \A d \in Conexiones : d # c => hilo'[d] = hilo[d]
    BY <2>1, <2>2, CrearHiloLectura
  <2>5. Saludos'
    BY <1>0, <2>1, <2>2, <2>3, <2>4 DEF Saludos, Actual
  <2>6. Nombres'
    BY <1>0, <2>1 DEF Nombres, Actual
  <2> QED BY <2>1, <2>2, <2>5, <2>6, CrearHiloLectura DEF LecturaInv
<1>2. CASE CrearHiloInterrupcion
  <2> DEFINE c == Actual("interrupcion")
  <2>1. /\ pcCpu = "crearHiloInterrupcion" /\ pcCpu' = "aceptarEnvio"
        /\ CrearHilo(c)
        /\ UNCHANGED <<caido, pcIo, nombreIo, nombreCpu, tabla, llegadas, aceptadas,
                       fdDe, enviado, leido, rotas, pcCliente, recursosCpu, recursosIo>>
    BY <1>2 DEF CrearHiloInterrupcion, PasoCpu
  <2>2. /\ c \in Conexiones /\ c.puerto = "interrupcion" /\ hilo[c] = "sinCrear"
        /\ leido[c] = 0 /\ EnRegistro(c)
    BY <1>0, <2>1, EnRegistroHechos DEF Saludos, EnRegistro
  <2>3. \A d \in Conexiones : EnRegistro(d)' <=> EnRegistro(d) /\ d # c
    BY <2>1, <2>2 DEF EnRegistro, Actual
  <2>4. /\ hilo'[c] = "operacion"
        /\ \A d \in Conexiones : d # c => hilo'[d] = hilo[d]
    BY <2>1, <2>2, CrearHiloLectura
  <2>5. Saludos'
    BY <1>0, <2>1, <2>2, <2>3, <2>4 DEF Saludos, Actual
  <2>6. Nombres'
    BY <1>0, <2>1 DEF Nombres, Actual
  <2> QED BY <2>1, <2>2, <2>5, <2>6, CrearHiloLectura DEF LecturaInv
<1>3. CASE CrearHiloAtenderIo
  <2> DEFINE c == Actual("io")
  <2>1. /\ pcIo = "crearHiloAtenderIo" /\ pcIo' = "aceptarIo"
        /\ CrearHilo(c)
        /\ UNCHANGED <<caido, pcCpu, nombreIo, nombreCpu, tabla, llegadas, aceptadas,
                       fdDe, enviado, leido, rotas, pcCliente, recursosCpu, recursosIo>>
    BY <1>3 DEF CrearHiloAtenderIo, PasoIo
  <2>2. /\ c \in Conexiones /\ c.puerto = "io" /\ hilo[c] = "sinCrear"
        /\ leido[c] = 2 /\ EnRegistro(c)
    BY <1>0, <2>1, EnRegistroHechos DEF Saludos, EnRegistro
  <2>3. \A d \in Conexiones : EnRegistro(d)' <=> EnRegistro(d) /\ d # c
    BY <2>1, <2>2 DEF EnRegistro, Actual
  <2>4. /\ hilo'[c] = "operacion"
        /\ \A d \in Conexiones : d # c => hilo'[d] = hilo[d]
    BY <2>1, <2>2, CrearHiloLectura
  <2>5. Saludos'
    BY <1>0, <2>1, <2>2, <2>3, <2>4 DEF Saludos, Actual
  <2>6. Nombres'
    BY <1>0, <2>1 DEF Nombres, Actual
  <2> QED BY <2>1, <2>2, <2>5, <2>6, CrearHiloLectura DEF LecturaInv
<1> QED BY <1>1, <1>2, <1>3

-----------------------------------------------------------------------------
(* The threads of the connections *)

\* A step of the thread of c moves only c on: in its thread, in its stream and, at
\* the end of the stream, in the descriptor table.
LEMMA HiloLectura ==
    ASSUME ColasInv, LecturaInv, NEW c \in Conexiones, AtenderCliente(c)
    PROVE  LecturaInv'
<1>1. /\ UNCHANGED <<caido, pcCpu, pcIo, nombreCpu, nombreIo, llegadas, aceptadas, fdDe,
                     enviado, pcCliente, recursosCpu, recursosIo>>
      /\ hilo[c] \in {"operacion", "HANDSHAKE", "MENSAJE"}
  BY DEF AtenderCliente, AtenderOperacion, AtenderBuffer, PasoHilo
<1>2. /\ TypeOK /\ Descriptores /\ HiloConSuConexion /\ Saludos /\ Turnos /\ Envios
      /\ Saludan /\ Nombres /\ Identificados
  BY DEF ColasInv, LecturaInv
<1>3. fdDe[c] \in Fds /\ fdDe[c] # SinFd /\ tabla[fdDe[c]] = c
  BY <1>1, DetrasDeSuNumero DEF ColasInv, Numerados
<1>4. /\ hilo'[c] # "sinCrear"
      /\ \A d \in Conexiones : d # c => hilo'[d] = hilo[d] /\ leido'[d] = leido[d]
      /\ UNCHANGED rotas
      /\ leido'[c] <= enviado[c]
      /\ hilo'[c] = "operacion" => leido'[c] \in {0, 2, 4}
      /\ hilo'[c] = "HANDSHAKE" => leido'[c] = 1
      /\ hilo'[c] = "MENSAJE" => leido'[c] = 3
      /\ hilo'[c] = "terminado" => /\ Terminado(c.proc) /\ leido'[c] = enviado[c]
                                   /\ tabla' = [tabla EXCEPT ![fdDe[c]] = Libre]
      /\ hilo'[c] # "terminado" => UNCHANGED tabla
  <2>0. leido[c] \in Nat /\ enviado[c] \in Nat /\ leido[c] <= enviado[c]
    BY <1>2 DEF TypeOK, Envios, Envio
  <2>1. CASE AtenderOperacion(c)
    <3>1. PICK op : /\ PasoHilo(c, "operacion", TrasOperacion(op))
                    /\ RecibirOperacion(fdDe[c], op)
      BY <2>1 DEF AtenderOperacion
    <3>2. /\ hilo[c] = "operacion" /\ leido[c] \in {0, 2, 4}
          /\ hilo' = [hilo EXCEPT ![c] = TrasOperacion(op)]
      BY <1>2, <3>1 DEF PasoHilo, Turnos
    <3>3. CASE /\ op = IF leido[c] = 0 THEN "HANDSHAKE" ELSE "MENSAJE"
               /\ leido[c] \in {0, 2} /\ leido[c] < enviado[c]
               /\ leido' = [leido EXCEPT ![c] = @ + 1]
               /\ UNCHANGED <<rotas, tabla>>
      <4>1. hilo'[c] = (IF leido[c] = 0 THEN "HANDSHAKE" ELSE "MENSAJE")
        BY <1>2, <3>2, <3>3 DEF TypeOK, TrasOperacion
      <4> QED BY <1>2, <2>0, <3>2, <3>3, <4>1 DEF TypeOK
    <3>4. CASE /\ op = "DESCONEXION"
               /\ Terminado(c.proc) /\ leido[c] = enviado[c]
               /\ tabla' = [tabla EXCEPT ![fdDe[c]] = Libre]
               /\ UNCHANGED <<rotas, leido>>
      BY <1>2, <2>0, <3>2, <3>4 DEF TypeOK, TrasOperacion
    <3> QED BY <1>3, <3>1, <3>2, <3>3, <3>4, LeerOperacion
  <2>2. CASE AtenderBuffer(c)
    <3>1. PICK nombre : RecibirBuffer(fdDe[c], nombre)
      BY <2>2 DEF AtenderBuffer
    <3>2. /\ leido[c] \in {1, 3} /\ hilo' = [hilo EXCEPT ![c] = "operacion"]
          /\ UNCHANGED tabla
      BY <1>2, <2>2 DEF AtenderBuffer, PasoHilo, Turnos
    <3>3. /\ UNCHANGED rotas /\ leido[c] < enviado[c]
          /\ leido' = [leido EXCEPT ![c] = @ + 1]
      BY <1>3, <3>1, <3>2, LeerBuffer
    <3> QED BY <1>2, <2>0, <3>2, <3>3 DEF TypeOK
  <2> QED BY <2>1, <2>2 DEF AtenderCliente
<1>5. Turnos'
  BY <1>1, <1>2, <1>4 DEF Turnos, Terminado
<1>6. Envios' /\ Saludan' /\ Identificados'
  <2>1. \A d \in Conexiones : leido'[d] <= enviado[d]
    BY <1>2, <1>4 DEF Envios, Envio
  <2> QED BY <1>1, <1>2, <2>1 DEF Envios, Envio, Saludan, Saluda, Identificados, Llego
<1>7. HiloConSuConexion'
  <2>1. \A d \in Conexiones : d # c /\ fdDe[d] # SinFd /\ hilo[d] # "terminado" =>
           fdDe[d] # fdDe[c]
    BY <1>2, <1>3 DEF HiloConSuConexion
  <2> SUFFICES ASSUME NEW d \in Conexiones, fdDe[d] # SinFd, hilo'[d] # "terminado"
               PROVE  tabla'[fdDe[d]] = d
    BY <1>1 DEF HiloConSuConexion
  <2>2. CASE d = c
    BY <1>3, <1>4, <2>2
  <2>3. CASE d # c
    <3>1. hilo[d] # "terminado" /\ fdDe[d] # fdDe[c] /\ tabla[fdDe[d]] = d
      BY <1>2, <1>4, <2>1, <2>3 DEF HiloConSuConexion
    <3> QED BY <1>2, <1>4, <3>1 DEF TypeOK
  <2> QED BY <2>2, <2>3
<1>8. Descriptores'
  <2>1. \A f \in Fds : tabla'[f] # Libre => tabla'[f] = tabla[f]
    BY <1>2, <1>4 DEF TypeOK
  <2> QED BY <1>1, <1>2, <2>1 DEF Descriptores
<1>9. Saludos' /\ Nombres'
  <2>1. \A d \in Conexiones : EnRegistro(d)' <=> EnRegistro(d)
    BY <1>1 DEF EnRegistro, Actual
  <2>2. \A d \in Conexiones : EnRegistro(d) => d # c /\ leido'[d] = leido[d]
    BY <1>1, <1>2, <1>4 DEF Saludos
  <2>3. /\ pcCpu \in ConEnvio => leido'[Actual("envio")] = leido[Actual("envio")]
        /\ pcIo \in ConIo => leido'[Actual("io")] = leido[Actual("io")]
    BY <2>2, EnRegistroHechos DEF EnRegistro
  <2> QED BY <1>1, <1>2, <1>4, <2>1, <2>2, <2>3
          DEF Saludos, Nombres, Actual, ConEnvio, ConIo
<1> QED BY <1>5, <1>6, <1>7, <1>8, <1>9 DEF LecturaInv

-----------------------------------------------------------------------------
(* The clients *)

\* A client's step disturbs neither the kernel's threads nor their descriptors.
LEMMA ClienteMarco ==
    ASSUME ColasInv, LecturaInv, NEW p \in Procesos, PasoQuieto(p) \/ PasoConecta(p)
    PROVE  /\ Descriptores' /\ HiloConSuConexion' /\ Saludos' /\ Nombres'
           /\ Turnos' /\ Identificados'
<1>0. TypeOK /\ Colas /\ Conteos /\ SocketsPorOrden
  BY DEF ColasInv
<1>1. /\ UNCHANGED <<pcCpu, pcIo, nombreCpu, nombreIo, hilo, tabla, fdDe, aceptadas,
                     leido, rotas, recursosCpu, recursosIo>>
      /\ pcCliente[p] # "terminado"
      /\ \A q \in Procesos : q # p => pcCliente'[q] = pcCliente[q]
  BY <1>0 DEF PasoQuieto, PasoConecta, PasoCliente, Avanza, TypeOK
<1>2. \A c \in Conexiones : c.proc # p => enviado'[c] = enviado[c]
  <2>1. UNCHANGED enviado \/ \E s \in Puertos :
                               enviado' = [enviado EXCEPT ![Conexion(p, s)] = @ + 2]
    BY DEF PasoQuieto, PasoConecta
  <2> QED BY <1>0, <2>1, PuertosDeCliente DEF TypeOK
<1>3. \A s \in Puertos : \A k \in 1 .. Len(llegadas[s]) : llegadas'[s][k] = llegadas[s][k]
  <2>1. CASE UNCHANGED llegadas
    BY <2>1
  <2>2. CASE PasoConecta(p)
    <3>1. PICK s \in Puertos :
             /\ Conexion(p, s) \in Conexiones
             /\ llegadas' = [llegadas EXCEPT ![s] = Append(@, Conexion(p, s))]
      BY <2>2 DEF PasoConecta
    <3>2. \A t \in Puertos : llegadas[t] \in Seq(Conexiones)
      BY <1>0 DEF TypeOK
    <3>3. /\ llegadas'[s] = Append(llegadas[s], Conexion(p, s))
          /\ \A t \in Puertos : t # s => llegadas'[t] = llegadas[t]
      BY <1>0, <3>1 DEF TypeOK
    <3> QED BY <3>1, <3>2, <3>3
  <2> QED BY <2>1, <2>2 DEF PasoQuieto
<1>4. /\ pcCpu \in ConEnvio => Actual("envio")' = Actual("envio")
      /\ pcCpu \in ConInterrupcion => Actual("interrupcion")' = Actual("interrupcion")
      /\ pcIo \in ConIo => Actual("io")' = Actual("io")
  BY <1>1, <1>3, EnRegistroHechos DEF Actual, Puertos
<1>5. \A c \in Conexiones : EnRegistro(c)' <=> EnRegistro(c)
  BY <1>1, <1>4 DEF EnRegistro
<1>6. Saludos' /\ Nombres'
  BY <1>1, <1>4, <1>5 DEF LecturaInv, Saludos, Nombres, ConEnvio, ConIo
<1>7. Turnos'
  <2>1. \A c \in Conexiones : hilo[c] = "terminado" => c.proc # p
    BY <1>1 DEF LecturaInv, Turnos, Terminado
  <2> QED BY <1>1, <1>2, <2>1, CamposDeConexion DEF LecturaInv, Turnos, Terminado
<1>8. Identificados'
  <2>1. /\ \A k \in 1 .. Len(recursosCpu) : k \in 1 .. Len(llegadas["envio"])
        /\ \A k \in 1 .. Len(recursosIo) : k \in 1 .. Len(llegadas["io"])
    BY <1>0 DEF SocketsPorOrden, Colas, TypeOK, Puertos
  <2> QED BY <1>1, <1>3, <2>1 DEF LecturaInv, Identificados, Puertos
<1>9. Descriptores' /\ HiloConSuConexion'
  BY <1>1 DEF LecturaInv, Descriptores, HiloConSuConexion
<1> QED BY <1>6, <1>7, <1>8, <1>9

\* It is enough to look at the connections of the client that moves.
LEMMA ClienteEnvios ==
    ASSUME ColasInv, LecturaInv, NEW p \in Procesos, PasoQuieto(p) \/ PasoConecta(p),
           \A c \in Conexiones : c.proc = p => Envio(c)' /\ (~caido => Saluda(c)')
    PROVE  Envios' /\ Saludan'
<1>1. /\ UNCHANGED <<leido, caido>>
      /\ \A q \in Procesos : q # p => pcCliente'[q] = pcCliente[q]
  BY DEF PasoQuieto, PasoConecta, PasoCliente, ColasInv, TypeOK
<1>2. \A c \in Conexiones : c.proc # p => enviado'[c] = enviado[c]
  <2>1. UNCHANGED enviado \/ \E s \in Puertos :
                               enviado' = [enviado EXCEPT ![Conexion(p, s)] = @ + 2]
    BY DEF PasoQuieto, PasoConecta
  <2> QED BY <2>1, PuertosDeCliente DEF ColasInv, TypeOK
<1>3. ASSUME NEW c \in Conexiones, c.proc # p
      PROVE  Llego(c)' <=> Llego(c)
  <2>1. CASE PasoQuieto(p)
    BY <2>1 DEF PasoQuieto, Llego
  <2>2. CASE PasoConecta(p)
    <3>1. PICK s \in Puertos :
             /\ Conexion(p, s) \in Conexiones /\ Conexion(p, s) # c
             /\ llegadas' = [llegadas EXCEPT ![s] = Append(@, Conexion(p, s))]
      <4>1. PICK s \in Puertos :
               /\ Conexion(p, s) \in Conexiones
               /\ llegadas' = [llegadas EXCEPT ![s] = Append(@, Conexion(p, s))]
        BY <2>2 DEF PasoConecta
      <4>2. Conexion(p, s) # c
        BY <1>3, PuertosDeCliente
      <4> QED BY <4>1, <4>2
    <3>2. llegadas[c.puerto] \in Seq(Conexiones) /\ c.puerto \in Puertos
      BY CamposDeConexion DEF ColasInv, TypeOK
    <3>3. CASE c.puerto = s
      <4>1. llegadas'[c.puerto] = Append(llegadas[c.puerto], Conexion(p, s))
        BY <3>1, <3>2, <3>3 DEF ColasInv, TypeOK
      <4> QED BY <3>1, <3>2, <4>1 DEF Llego
    <3>4. CASE c.puerto # s
      BY <3>1, <3>2, <3>4 DEF Llego, ColasInv, TypeOK
    <3> QED BY <3>3, <3>4
  <2> QED BY <2>1, <2>2
<1>4. \A c \in Conexiones : c.proc # p => (Envio(c)' <=> Envio(c)) /\ (Saluda(c)' <=> Saluda(c))
  BY <1>1, <1>2, <1>3, CamposDeConexion DEF Envio, Saluda
<1> QED BY <1>1, <1>4 DEF LecturaInv, Envios, Saludan

\* A client that has arrived at a port is past its connect.
LEMMA LlegoDespues ==
    ASSUME ColasInv, NEW c \in Conexiones, Llego(c)
    PROVE  pcCliente[c.proc] \notin Antes(c.puerto)
BY CamposDeConexion DEF ColasInv, Colas, Llego

\* While the kernel is up it holds the connections of every client that is alive.
LEMMA NoCerrada ==
    ASSUME ColasInv, LecturaInv, NEW c \in Conexiones, ~caido, ~Terminado(c.proc)
    PROVE  ~Cerrada(c)
BY DEF LecturaInv, HiloConSuConexion, Turnos, Cerrada

\* What is known of a connection of the client that moves.
LEMMA ClienteHechos ==
    ASSUME ColasInv, LecturaInv, NEW c \in Conexiones, NEW desde, NEW hacia,
           PasoCliente(c.proc, desde, hacia)
    PROVE  /\ pcCliente[c.proc] = desde /\ pcCliente'[c.proc] = hacia
           /\ UNCHANGED <<leido, caido>>
           /\ Envio(c) /\ (~caido => Saluda(c))
           /\ Llego(c) => desde \notin Antes(c.puerto)
           /\ c.puerto \in Puertos
           /\ leido[c] \in Nat /\ enviado[c] \in Nat
BY CamposDeConexion, LlegoDespues
   DEF PasoCliente, ColasInv, TypeOK, LecturaInv, Envios, Saludan

\* A process has connections to the ports of CPUs or to that of IOs.
LEMMA PuertosJuntos ==
    ASSUME NEW c \in Conexiones, NEW s \in Puertos, Conexion(c.proc, s) \in Conexiones
    PROVE  c.puerto = "io" <=> s = "io"
<1>1. CASE c \in [proc : Cpus, puerto : PuertosCpu]
  BY <1>1, Constantes DEF Conexiones, Conexion, PuertosCpu
<1>2. CASE c \in [proc : Ios, puerto : {"io"}]
  BY <1>2, Constantes DEF Conexiones, Conexion, PuertosCpu
<1> QED BY <1>1, <1>2 DEF Conexiones

\* Steps that send nothing: Enviado(c) and Llego(c) stay.
LEMMA EnviosSinEnviar ==
    ASSUME ColasInv, LecturaInv, NEW c \in Conexiones, NEW desde, NEW hacia,
           PasoCliente(c.proc, desde, hacia), UNCHANGED <<llegadas, enviado>>,
           \/ /\ desde = "sinLanzar"
              /\ hacia = IF c.puerto = "io" THEN "conectarIo" ELSE "conectarEnvio"
           \/ desde = "conectarMemoria" /\ hacia = "mensajeEnvio"
           \/ hacia = "terminado" /\ desde \notin MuertesTempranas
           \/ hacia = "terminado" /\ caido
    PROVE  Envio(c)' /\ (~caido => Saluda(c)')
<1>1. Llego(c)' <=> Llego(c)
  BY DEF Llego
<1>2. /\ pcCliente[c.proc] = desde /\ pcCliente'[c.proc] = hacia
      /\ UNCHANGED <<leido, caido>>
      /\ Envio(c) /\ (~caido => Saluda(c))
      /\ Llego(c) => desde \notin Antes(c.puerto)
      /\ c.puerto \in Puertos
  BY ClienteHechos
<1>3. Envio(c)'
  BY <1>1, <1>2 DEF Envio, Antes, Puertos
<1>4. ~caido => Saluda(c)'
  BY <1>1, <1>2 DEF Saluda, MuertesTempranas
<1> QED BY <1>3, <1>4

\* The three connects, when the port is listening.
LEMMA EnviosConectar ==
    ASSUME ColasInv, LecturaInv, NEW c \in Conexiones, NEW desde, NEW hacia,
           NEW s \in Puertos, Conexion(c.proc, s) \in Conexiones,
           PasoCliente(c.proc, desde, hacia), UNCHANGED enviado,
           llegadas' = [llegadas EXCEPT ![s] = Append(@, Conexion(c.proc, s))],
           \/ s = "envio" /\ desde = "conectarEnvio" /\ hacia = "saludarEnvio"
           \/ /\ s = "interrupcion"
              /\ desde = "conectarInterrupcion" /\ hacia = "saludarInterrupcion"
           \/ s = "io" /\ desde = "conectarIo" /\ hacia = "saludarIo"
    PROVE  Envio(c)' /\ (~caido => Saluda(c)')
<1>1. /\ pcCliente[c.proc] = desde /\ pcCliente'[c.proc] = hacia
      /\ UNCHANGED <<leido, caido>>
      /\ Envio(c) /\ (~caido => Saluda(c))
      /\ Llego(c) => desde \notin Antes(c.puerto)
      /\ c.puerto \in Puertos
  BY ClienteHechos
<1>2. Llego(c)' <=> Llego(c) \/ c.puerto = s
  <2>1. /\ llegadas \in [Puertos -> Seq(Conexiones)] /\ llegadas[c.puerto] \in Seq(Conexiones)
        /\ llegadas'[s] = Append(llegadas[s], Conexion(c.proc, s))
    BY <1>1 DEF ColasInv, TypeOK
  <2>2. CASE c.puerto = s
    <3>1. c = Conexion(c.proc, s)
      BY <2>2 DEF Conexiones, Conexion
    <3>2. /\ Len(llegadas'[s]) = Len(llegadas[s]) + 1
          /\ llegadas'[s][Len(llegadas[s]) + 1] = c
      BY <2>1, <2>2, <3>1
    <3> QED BY <2>1, <2>2, <3>2 DEF Llego
  <2>3. CASE c.puerto # s
    BY <1>1, <2>1, <2>3 DEF Llego
  <2> QED BY <2>2, <2>3
<1>3. c.puerto = "io" <=> s = "io"
  BY PuertosJuntos
<1>4. Envio(c)'
  BY <1>1, <1>2, <1>3 DEF Envio, Antes, Puertos
<1>5. ~caido => Saluda(c)'
  BY <1>1, <1>2, <1>3 DEF Saluda, Envio, MuertesTempranas, Puertos
<1> QED BY <1>4, <1>5

\* The five packets, when they are sent.
LEMMA EnviosEnviar ==
    ASSUME ColasInv, LecturaInv, NEW c \in Conexiones, NEW desde, NEW hacia,
           NEW s \in Puertos, Conexion(c.proc, s) \in Conexiones,
           PasoCliente(c.proc, desde, hacia), UNCHANGED llegadas,
           enviado' = [enviado EXCEPT ![Conexion(c.proc, s)] = @ + 2],
           \/ s = "envio" /\ desde = "saludarEnvio" /\ hacia = "conectarInterrupcion"
           \/ /\ s = "interrupcion"
              /\ desde = "saludarInterrupcion" /\ hacia = "conectarMemoria"
           \/ s = "envio" /\ desde = "mensajeEnvio" /\ hacia = "mensajeInterrupcion"
           \/ /\ s = "interrupcion"
              /\ desde = "mensajeInterrupcion" /\ hacia = "mensajeMemoria"
           \/ s = "io" /\ desde = "saludarIo" /\ hacia = "esperandoPedido"
    PROVE  Envio(c)' /\ (~caido => Saluda(c)')
<1>1. /\ pcCliente[c.proc] = desde /\ pcCliente'[c.proc] = hacia
      /\ UNCHANGED <<leido, caido>>
      /\ Envio(c) /\ (~caido => Saluda(c))
      /\ leido[c] \in Nat /\ enviado[c] \in Nat
      /\ c.puerto \in Puertos
  BY ClienteHechos
<1>2. enviado'[c] = IF c.puerto = s THEN enviado[c] + 2 ELSE enviado[c]
  <2>1. c = Conexion(c.proc, s) <=> c.puerto = s
    BY DEF Conexiones, Conexion
  <2> QED BY <2>1 DEF ColasInv, TypeOK
<1>3. Llego(c)' <=> Llego(c)
  BY DEF Llego
<1>4. c.puerto = "io" <=> s = "io"
  BY PuertosJuntos
\* A connect comes before, so the connection sent on has arrived.
<1>5. c.puerto = s => Llego(c)
  BY <1>1 DEF Envio, Antes
<1>6. Envio(c)'
  <2>1. CASE c.puerto = "io"
    BY <1>1, <1>2, <1>3, <1>4, <1>5, <2>1 DEF Envio, Antes
  <2>2. CASE c.puerto = "envio"
    BY <1>1, <1>2, <1>3, <1>4, <1>5, <2>2 DEF Envio, Antes
  <2>3. CASE c.puerto = "interrupcion"
    BY <1>1, <1>2, <1>3, <1>4, <1>5, <2>3 DEF Envio, Antes
  <2> QED BY <1>1, <2>1, <2>2, <2>3 DEF Puertos
<1>7. ~caido => Saluda(c)'
  BY <1>1, <1>2, <1>3, <1>4 DEF Saluda, MuertesTempranas, Puertos
<1> QED BY <1>6, <1>7

\* What a step of a client does to its connections.
LEMMA ConectarEnvios ==
    ASSUME ColasInv, LecturaInv, NEW p \in Procesos, NEW c \in Conexiones, c.proc = p,
           NEW s \in Puertos, Conexion(p, s) \in Conexiones, NEW desde, NEW hacia,
           Conectar(p, desde, s, hacia),
           \/ s = "envio" /\ desde = "conectarEnvio" /\ hacia = "saludarEnvio"
           \/ /\ s = "interrupcion"
              /\ desde = "conectarInterrupcion" /\ hacia = "saludarInterrupcion"
           \/ s = "io" /\ desde = "conectarIo" /\ hacia = "saludarIo"
    PROVE  Envio(c)' /\ (~caido => Saluda(c)')
<1>1. CASE PasoCliente(p, desde, "terminado") /\ UNCHANGED <<llegadas, enviado>>
  <2>1. desde \notin MuertesTempranas
    BY DEF MuertesTempranas
  <2> QED BY <1>1, <2>1, EnviosSinEnviar
<1>2. CASE /\ PasoCliente(p, desde, hacia) /\ UNCHANGED enviado
           /\ llegadas' = [llegadas EXCEPT ![s] = Append(@, Conexion(p, s))]
  BY <1>2, EnviosConectar
<1> QED BY <1>1, <1>2 DEF Conectar

\* The same when it sends.
LEMMA EnviarEnvios ==
    ASSUME ColasInv, LecturaInv, NEW p \in Procesos, NEW c \in Conexiones, c.proc = p,
           NEW s \in Puertos, Conexion(p, s) \in Conexiones, NEW desde, NEW hacia,
           Enviar(p, desde, s, hacia),
           \/ s = "envio" /\ desde = "saludarEnvio" /\ hacia = "conectarInterrupcion"
           \/ /\ s = "interrupcion"
              /\ desde = "saludarInterrupcion" /\ hacia = "conectarMemoria"
           \/ s = "envio" /\ desde = "mensajeEnvio" /\ hacia = "mensajeInterrupcion"
           \/ /\ s = "interrupcion"
              /\ desde = "mensajeInterrupcion" /\ hacia = "mensajeMemoria"
           \/ s = "io" /\ desde = "saludarIo" /\ hacia = "esperandoPedido"
    PROVE  Envio(c)' /\ (~caido => Saluda(c)')
<1>1. CASE /\ PasoCliente(p, desde, hacia)
           /\ enviado' = [enviado EXCEPT ![Conexion(p, s)] = @ + 2]
  BY <1>1, EnviosEnviar DEF Enviar
<1>2. CASE /\ Cerrada(Conexion(p, s)) /\ UNCHANGED enviado
           /\ PasoCliente(p, desde, "terminado")
  <2>1. ~Terminado(p) /\ Conexion(p, s).proc = p
    BY <1>2 DEF PasoCliente, Terminado, Conexion
  <2>2. caido
    BY <1>2, <2>1, NoCerrada
  <2> QED BY <1>2, <2>2, EnviosSinEnviar DEF Enviar
<1> QED BY <1>1, <1>2 DEF Enviar

\* The clients keep LecturaInv.
LEMMA LecturaCliente ==
    ASSUME SinMuertesTempranas, ColasInv, LecturaInv, NEW p \in Procesos,
           Lanzar(p) \/ MainCliente(p) \/ Morir(p)
    PROVE  LecturaInv'
<1>1. PasoQuieto(p) \/ PasoConecta(p)
  BY PasosDeCliente
<1>2. ASSUME NEW c \in Conexiones, c.proc = p
      PROVE  Envio(c)' /\ (~caido => Saluda(c)')
  <2> USE <1>2
  <2>1. /\ p \in Cpus => c.puerto # "io"
        /\ p \in Ios => c.puerto = "io"
    BY Constantes DEF Conexiones, PuertosCpu
  <2>2. CASE Lanzar(p)
    BY <2>1, <2>2, EnviosSinEnviar DEF Lanzar, Procesos
  <2>3. CASE Morir(p)
    <3>1. pcCliente[p] \notin MuertesTempranas
      BY <2>3 DEF Morir, SinMuertesTempranas
    <3> QED BY <2>3, <3>1, EnviosSinEnviar DEF Morir
  <2>4. CASE p \in Cpus /\ MainCpu(p)
    <3> USE <2>4, PuertosDeCliente DEF Puertos
    <3>1. CASE Conectar(p, "conectarEnvio", "envio", "saludarEnvio")
      BY <3>1, ConectarEnvios
    <3>2. CASE Conectar(p, "conectarInterrupcion", "interrupcion", "saludarInterrupcion")
      BY <3>2, ConectarEnvios
    <3>3. CASE Enviar(p, "saludarEnvio", "envio", "conectarInterrupcion")
      BY <3>3, EnviarEnvios
    <3>4. CASE Enviar(p, "saludarInterrupcion", "interrupcion", "conectarMemoria")
      BY <3>4, EnviarEnvios
    <3>5. CASE Enviar(p, "mensajeEnvio", "envio", "mensajeInterrupcion")
      BY <3>5, EnviarEnvios
    <3>6. CASE Enviar(p, "mensajeInterrupcion", "interrupcion", "mensajeMemoria")
      BY <3>6, EnviarEnvios
    <3>7. CASE ConectarMemoria(p)
      <4>1. PICK hacia \in {"mensajeEnvio", "terminado"} :
               PasoCliente(p, "conectarMemoria", hacia)
        BY <3>7 DEF ConectarMemoria
      <4> QED BY <3>7, <4>1, EnviosSinEnviar DEF ConectarMemoria, MuertesTempranas
    <3>8. CASE MensajeMemoria(p)
      BY <3>8, EnviosSinEnviar DEF MensajeMemoria, MuertesTempranas
    <3> QED BY <2>4, <3>1, <3>2, <3>3, <3>4, <3>5, <3>6, <3>7, <3>8 DEF MainCpu
  <2>5. CASE p \in Ios /\ MainIo(p)
    <3> USE <2>5, PuertosDeCliente DEF Puertos
    <3>1. CASE Conectar(p, "conectarIo", "io", "saludarIo")
      BY <3>1, ConectarEnvios
    <3>2. CASE Enviar(p, "saludarIo", "io", "esperandoPedido")
      BY <3>2, EnviarEnvios
    <3>3. CASE PedidoFallido(p)
      BY <3>3, EnviosSinEnviar DEF PedidoFallido, MuertesTempranas
    <3> QED BY <2>5, <3>1, <3>2, <3>3 DEF MainIo
  <2> QED BY <2>2, <2>3, <2>4, <2>5 DEF MainCliente
<1> QED BY <1>1, <1>2, ClienteMarco, ClienteEnvios DEF LecturaInv

-----------------------------------------------------------------------------
(* The theorems *)

\* LecturaInv is inductive when no client dies before its greeting.
LEMMA LecturaPaso ==
    ASSUME SinMuertesTempranas, ColasInv, ColasInv', LecturaInv, [Next]_vars
    PROVE  LecturaInv'
<1>1. CASE AtenderConexionCpu
  BY <1>1, LecturaAceptarEnvio, LecturaOperacionCpu, LecturaBufferCpu,
     LecturaAceptarInterrupcion, LecturaRegistrarCpu, LecturaCrearHilo
     DEF AtenderConexionCpu
<1>2. CASE AtenderConexionIo
  BY <1>2, LecturaAceptarIo, LecturaOperacionIo, LecturaBufferIo, LecturaRegistrarIo,
     LecturaCrearHilo DEF AtenderConexionIo
<1>3. CASE UNCHANGED vars
  BY <1>3 DEF vars, LecturaInv, Descriptores, HiloConSuConexion, Saludos, EnRegistro,
     Turnos, Terminado, Envios, Envio, Saludan, Saluda, Nombres, Identificados,
     Actual, Llego
<1> QED BY <1>1, <1>2, <1>3, LecturaMain, HiloLectura, LecturaCliente DEF Next

\* Both invariants hold in every behaviour without early deaths.
LEMMA LecturaSiempre ==
    ASSUME SinMuertesTempranas
    PROVE  Spec => [](ColasInv /\ LecturaInv)
<1>1. Init => ColasInv /\ LecturaInv
  BY InitColas, InitLectura
<1>2. ColasInv /\ LecturaInv /\ [Next]_vars => (ColasInv /\ LecturaInv)'
  BY ColasPaso, LecturaPaso
<1> QED BY <1>1, <1>2, PTL DEF Spec

\* Until its thread ends, the number a connection was given denotes it
\* (kernel.c:215, socket.c:265).
THEOREM HilosSiempre ==
    ASSUME SinMuertesTempranas PROVE Spec => []HiloConSuConexion
BY LecturaSiempre, PTL DEF LecturaInv

\* Each resource is listed under the name of the process that opened its
\* connection (kernel.c:162 and 192).
THEOREM NombresSiempre ==
    ASSUME SinMuertesTempranas PROVE Spec => []Identificados
BY LecturaSiempre, PTL DEF LecturaInv

\* Whose turn it is to read, and where, gives the packet boundaries.
LEMMA LecturaEntrePaquetes == ASSUME ColasInv, LecturaInv PROVE EntrePaquetes
<1>1. ASSUME NEW c \in Conexiones, hilo[c] \in {"HANDSHAKE", "MENSAJE"}
      PROVE  leido[c] % 2 = 1 /\ Celdas(c)[leido[c]] = hilo[c]
  <2>1. /\ leido[c] <= enviado[c] /\ leido[c] \in Nat
        /\ enviado[c] \in IF c.puerto = "io" THEN {0, 2} ELSE {0, 2, 4}
    BY DEF LecturaInv, Envios, Envio, ColasInv, TypeOK
  <2>2. CASE hilo[c] = "HANDSHAKE"
    BY <2>2 DEF LecturaInv, Turnos, Celdas
  <2>3. CASE hilo[c] = "MENSAJE"
    BY <2>1, <2>3 DEF LecturaInv, Turnos, Celdas
  <2> QED BY <1>1, <2>2, <2>3
<1>2. ASSUME NEW c \in Conexiones, hilo[c] = "sinCrear", leido[c] # 0
      PROVE  \/ c.puerto = "envio" /\ pcCpu # "aceptarEnvio" /\ c = Actual("envio")
             \/ c.puerto = "io" /\ pcIo # "aceptarIo" /\ c = Actual("io")
  <2>1. EnRegistro(c) /\ c.puerto # "interrupcion"
    BY <1>2 DEF LecturaInv, Saludos
  <2> QED BY <2>1 DEF EnRegistro, ConEnvio, ConIo
<1>3. \A c \in Conexiones : hilo[c] = "operacion" => leido[c] % 2 = 0
  BY DEF LecturaInv, Turnos
<1> QED BY <1>1, <1>2, <1>3 DEF EntrePaquetes, LecturaInv, Turnos

\* One thread at a time reads a connection, and it reads whole packets
\* (kernel.c:153 and 170, 186 and 201).
THEOREM PaquetesSiempre ==
    ASSUME SinMuertesTempranas PROVE Spec => []EntrePaquetes
BY LecturaSiempre, LecturaEntrePaquetes, PTL

\* Lists in the order of arrival, and equal orders, give right pairs.
LEMMA LecturaPareja == ASSUME ColasInv, Identificados, MismoOrden PROVE ParejaDelMismoCpu
<1> SUFFICES ASSUME NEW k \in 1 .. Len(recursosCpu)
             PROVE  \E p \in Cpus :
                /\ recursosCpu[k].nombre_cpu = p
                /\ recursosCpu[k].socket_envio = fdDe[Conexion(p, "envio")]
                /\ recursosCpu[k].socket_interrupcion = fdDe[Conexion(p, "interrupcion")]
  BY DEF ParejaDelMismoCpu
<1> DEFINE e == llegadas["envio"][k]
           i == llegadas["interrupcion"][k]
<1>1. /\ k \in 1 .. Len(llegadas["envio"]) /\ k \in 1 .. Len(llegadas["interrupcion"])
      /\ recursosCpu[k].socket_envio = fdDe[e]
      /\ recursosCpu[k].socket_interrupcion = fdDe[i]
  <2>1. /\ llegadas["envio"] \in Seq(Conexiones) /\ llegadas["interrupcion"] \in Seq(Conexiones)
        /\ aceptadas["envio"] \in Nat /\ aceptadas["interrupcion"] \in Nat
        /\ recursosCpu \in Seq(RecursosCpu)
    BY DEF ColasInv, TypeOK, Puertos
  <2>2. /\ aceptadas["envio"] <= Len(llegadas["envio"])
        /\ aceptadas["interrupcion"] <= Len(llegadas["interrupcion"])
    BY DEF ColasInv, Colas, Puertos
  <2>3. /\ k <= aceptadas["envio"] /\ k <= aceptadas["interrupcion"]
        /\ recursosCpu[k].socket_envio = fdDe[e]
        /\ recursosCpu[k].socket_interrupcion = fdDe[i]
    BY DEF ColasInv, SocketsPorOrden
  <2> QED BY <2>1, <2>2, <2>3
<1>2. /\ e \in Conexiones /\ e.puerto = "envio"
      /\ i \in Conexiones /\ i.puerto = "interrupcion"
  <2>1. llegadas["envio"] \in Seq(Conexiones) /\ llegadas["interrupcion"] \in Seq(Conexiones)
    BY DEF ColasInv, TypeOK, Puertos
  <2> QED BY <1>1, <2>1 DEF ColasInv, Colas, Puertos
<1>3. i.proc = e.proc
  BY <1>1 DEF MismoOrden
<1>4. recursosCpu[k].nombre_cpu = e.proc
  BY DEF Identificados
<1>5. /\ e = Conexion(e.proc, "envio") /\ i = Conexion(e.proc, "interrupcion")
      /\ e.proc \in Cpus
  BY <1>2, <1>3 DEF Conexiones, Conexion, PuertosCpu
<1> QED BY <1>1, <1>4, <1>5

\* When the CPUs' connections reach both ports in the same order, the two sockets
\* of each resource and its name are of one CPU (kernel.c:152-165).
THEOREM ParejasSiempre ==
    ASSUME SinMuertesTempranas PROVE Spec => []ParejaSiMismoOrden
<1>1. ColasInv /\ LecturaInv => ParejaSiMismoOrden
  BY LecturaPareja DEF ParejaSiMismoOrden, LecturaInv
<1> QED BY <1>1, LecturaSiempre, PTL

\* An acceptor reads a greeting that is there, or still to come: it closes nothing.
LEMMA SaludoNoCierra ==
    ASSUME ColasInv, LecturaInv, OperacionHandshakeCpu \/ OperacionHandshakeIo
    PROVE  UNCHANGED tabla
<1>1. CASE OperacionHandshakeCpu
  <2> DEFINE c == Actual("envio")
  <2>1. pcCpu = "operacionCpu" /\ ~caido
    BY <1>1 DEF OperacionHandshakeCpu, PasoCpu
  <2>2. /\ c \in Conexiones /\ c.puerto = "envio" /\ fdDe[c] # SinFd
        /\ hilo[c] = "sinCrear" /\ leido[c] = 0
    BY <2>1, EnRegistroHechos DEF ConEnvio, LecturaInv, Saludos
  <2>3. tabla[fdDe[c]] = c
    BY <2>2, DetrasDeSuNumero
  <2> QED BY <1>1, <2>1, <2>2, <2>3, LeerOperacion, SaludoPendiente DEF OperacionHandshakeCpu
<1>2. CASE OperacionHandshakeIo
  <2> DEFINE c == Actual("io")
  <2>1. pcIo = "operacionIo" /\ ~caido
    BY <1>2 DEF OperacionHandshakeIo, PasoIo
  <2>2. /\ c \in Conexiones /\ c.puerto = "io" /\ fdDe[c] # SinFd
        /\ hilo[c] = "sinCrear" /\ leido[c] = 0
    BY <2>1, EnRegistroHechos DEF ConIo, LecturaInv, Saludos
  <2>3. tabla[fdDe[c]] = c
    BY <2>2, DetrasDeSuNumero
  <2> QED BY <1>2, <2>1, <2>2, <2>3, LeerOperacion, SaludoPendiente DEF OperacionHandshakeIo
<1> QED BY <1>1, <1>2

\* accept only fills numbers that are free.
LEMMA AceptarNoCierra ==
    ASSUME TypeOK, NEW s \in Puertos, Aceptar(s), NEW f \in Fds, tabla[f] # Libre
    PROVE  tabla'[f] = tabla[f]
BY DEF Aceptar, TypeOK

\* What a step of any thread that closes a number closes.
Cierra(f) == /\ tabla'[f] = Libre
             /\ hilo[tabla[f]] = "operacion" /\ hilo'[tabla[f]] = "terminado"
             /\ Terminado(tabla[f].proc)
             /\ leido[tabla[f]] = enviado[tabla[f]]

\* The thread of a connection closes its own number, at the end of its stream.
LEMMA HiloCierra ==
    ASSUME ColasInv, LecturaInv, NEW c \in Conexiones, AtenderCliente(c),
           NEW f \in Fds, tabla[f] # Libre, tabla'[f] # tabla[f]
    PROVE  Cierra(f)
<1>1. AtenderOperacion(c)
  BY DEF AtenderCliente, AtenderBuffer
<1>2. PICK op : /\ PasoHilo(c, "operacion", TrasOperacion(op))
                /\ RecibirOperacion(fdDe[c], op)
  BY <1>1 DEF AtenderOperacion
<1>3. tabla[fdDe[c]] = c /\ leido[c] \in {0, 2, 4}
  BY <1>2, DetrasDeSuNumero DEF PasoHilo, ColasInv, Numerados, LecturaInv, Turnos
<1>4. /\ op = "DESCONEXION"
      /\ Terminado(c.proc) /\ leido[c] = enviado[c]
      /\ tabla' = [tabla EXCEPT ![fdDe[c]] = Libre]
  BY <1>2, <1>3, LeerOperacion
<1>5. f = fdDe[c] /\ tabla'[f] = Libre
  BY <1>4 DEF ColasInv, TypeOK
<1> QED BY <1>2, <1>3, <1>4, <1>5 DEF Cierra, PasoHilo, TrasOperacion, ColasInv, TypeOK

\* No step closes a number in another way.
LEMMA CierraPaso ==
    ASSUME ColasInv, LecturaInv, [Next]_vars, NEW f \in Fds,
           tabla[f] # Libre, tabla'[f] # tabla[f]
    PROVE  Cierra(f)
<1>1. CASE \E c \in Conexiones : AtenderCliente(c)
  BY <1>1, HiloCierra
<1>2. CASE AtenderConexionCpu
  <2>1. CASE AceptarEnvio \/ AceptarInterrupcion
    BY <2>1, AceptarNoCierra DEF AceptarEnvio, AceptarInterrupcion, ColasInv, Puertos
  <2>2. CASE OperacionHandshakeCpu
    BY <2>2, SaludoNoCierra
  <2> QED BY <1>2, <2>1, <2>2 DEF AtenderConexionCpu, BufferHandshakeCpu, RegistrarCpu,
             AgregarCpu, CrearHiloEnvio, CrearHiloInterrupcion
<1>3. CASE AtenderConexionIo
  <2>1. CASE AceptarIo
    BY <2>1, AceptarNoCierra DEF AceptarIo, ColasInv, Puertos
  <2>2. CASE OperacionHandshakeIo
    BY <2>2, SaludoNoCierra
  <2> QED BY <1>3, <2>1, <2>2 DEF AtenderConexionIo, BufferHandshakeIo, RegistrarIo,
             CrearHiloAtenderIo
<1>4. CASE Main \/ CaidaKernel
  BY <1>4 DEF Main, ConectarMemoriaKernel, IniciarServidor, CrearHiloIo, CrearHiloCpu,
     CaidaKernel
<1>5. CASE \E p \in Procesos : Lanzar(p) \/ MainCliente(p) \/ Morir(p)
  BY <1>5, PasosDeCliente DEF PasoQuieto, PasoConecta, PasoCliente
<1>6. CASE UNCHANGED vars
  BY <1>6 DEF vars
<1> QED BY <1>1, <1>2, <1>3, <1>4, <1>5, <1>6 DEF Next

\* A descriptor is closed once, by the thread of its connection, after its process
\* has ended and everything it sent was read (socket.c:262-266, kernel.c:237-241).
THEOREM CierresSiempre ==
    ASSUME SinMuertesTempranas PROVE Spec => CierraSoloSuHilo
<1>1. ColasInv /\ LecturaInv /\ [Next]_vars =>
         [\A f \in Fds : tabla[f] # Libre /\ tabla'[f] # tabla[f] => Cierra(f)]_vars
  BY CierraPaso
<1> QED BY <1>1, LecturaSiempre, PTL DEF Spec, CierraSoloSuHilo, Cierra

-----------------------------------------------------------------------------
(* The variables of the abstract registry *)

Abiertas   == {tabla[f] : f \in Fds} \ {Libre}
Concluidos == {p \in Procesos : Terminado(p)}

\* An open connection is in the descriptor table once, under its number.
LEMMA AbiertasHechos ==
    ASSUME ColasInv, LecturaInv
    PROVE  /\ \A c \in Abiertas : /\ c \in Conexiones /\ fdDe[c] \in Fds
                                  /\ tabla[fdDe[c]] = c
           /\ \A f \in Fds : tabla[f] # Libre => tabla[f] \in Abiertas
BY DEF Abiertas, ColasInv, TypeOK, LecturaInv, Descriptores

\* A connection whose thread exists is in the list of its kind: what accept
\* returned and is not listed yet is the connection an acceptor holds.
LEMMA ConHiloListada ==
    ASSUME ColasInv, LecturaInv, NEW c \in Conexiones, hilo[c] # "sinCrear"
    PROVE  Abstracto!Listada(c)
<1>1. Llego(c) /\ fdDe[c] # SinFd /\ ~EnRegistro(c)
  BY DEF ColasInv, Numerados, LecturaInv, Saludos
<1>2. PICK k \in 1 .. Len(llegadas[c.puerto]) : llegadas[c.puerto][k] = c
  BY <1>1 DEF Llego
<1>3. /\ c.puerto \in Puertos /\ k \in Nat /\ k >= 1
      /\ aceptadas[c.puerto] \in Nat /\ k <= aceptadas[c.puerto]
      /\ Len(recursosCpu) \in Nat /\ Len(recursosIo) \in Nat
  BY <1>1, <1>2, CamposDeConexion, SMTT(30) DEF ColasInv, TypeOK, Numeradas
<1>4. k = aceptadas[c.puerto] => c = Actual(c.puerto)
  BY <1>2 DEF Actual
<1>5. CASE c.puerto = "io"
  <2>1. k \in 1 .. Len(recursosIo)
    BY <1>1, <1>3, <1>4, <1>5 DEF ColasInv, Conteos, EnRegistro, ConIo
  <2> QED BY <1>2, <1>5, <2>1 DEF Abstracto!Listada, Abstracto!Llegada
<1>6. CASE c.puerto = "envio"
  <2>1. k \in 1 .. Len(recursosCpu)
    BY <1>1, <1>3, <1>4, <1>6 DEF ColasInv, Conteos, EnRegistro, ConEnvio
  <2> QED BY <1>2, <1>6, <2>1 DEF Abstracto!Listada, Abstracto!Llegada
<1>7. CASE c.puerto = "interrupcion"
  <2>1. k \in 1 .. Len(recursosCpu)
    BY <1>1, <1>3, <1>4, <1>7 DEF ColasInv, Conteos, EnRegistro, ConInterrupcion
  <2> QED BY <1>2, <1>7, <2>1 DEF Abstracto!Listada, Abstracto!Llegada
<1> QED BY <1>3, <1>5, <1>6, <1>7 DEF Puertos

-----------------------------------------------------------------------------
(* Initial state and stuttering *)

\* The kernel starts with an empty registry.
LEMMA InitRefina == Init => Abstracto!Init
BY DEF Init, Abstracto!Init, Terminado

\* What a user of the registry sees does not change.
LEMMA NadaVisible ==
    ASSUME UNCHANGED <<llegadas, fdDe, tabla, pcCliente, recursosCpu, recursosIo>>
    PROVE  UNCHANGED Abstracto!vars
BY DEF Abstracto!vars, Terminado

-----------------------------------------------------------------------------
(* The kernel *)

\* accept admits the next connection of its port under a number no other open
\* connection has.
LEMMA AceptarRefina ==
    ASSUME ColasInv, LecturaInv, NEW s \in Puertos, Aceptar(s),
           UNCHANGED <<llegadas, pcCliente, recursosCpu, recursosIo>>
    PROVE  Abstracto!Next
<1> DEFINE k == aceptadas[s] + 1
           c == llegadas[s][k]
<1>1. k \in 1 .. Len(llegadas[s]) /\ c \in Conexiones /\ fdDe[c] = SinFd
  BY AceptarHechos
<1>2. PICK f \in Fds : /\ tabla[f] = Libre
                       /\ tabla' = [tabla EXCEPT ![f] = c]
                       /\ fdDe' = [fdDe EXCEPT ![c] = f]
  BY AceptarHechos
<1>3. tabla \in [Fds -> Conexiones \cup {Libre}] /\ c # Libre
  BY <1>1, Constantes DEF ColasInv, TypeOK
<1>4. Abiertas' = Abiertas \cup {c}
  <2>1. \A g \in Fds : tabla'[g] = IF g = f THEN c ELSE tabla[g]
    BY <1>2, <1>3
  <2> QED BY <1>2, <1>3, <2>1 DEF Abiertas
<1>5. \A d \in Abiertas : fdDe[d] # f
  BY <1>2, AbiertasHechos DEF Abiertas
<1>6. \A j \in 1 .. k - 1 : Abstracto!Admitida(s, j)
  <2>1. aceptadas[s] \in Nat /\ aceptadas[s] <= Len(llegadas[s]) /\ Len(llegadas[s]) \in Nat
    BY DEF ColasInv, Colas, TypeOK
  <2> QED BY <2>1 DEF Abstracto!Admitida, Abstracto!Llegada, ColasInv, Numeradas
<1>7. ~Abstracto!Admitida(s, k)
  BY <1>1 DEF Abstracto!Admitida, Abstracto!Llegada
<1>8. Concluidos' = Concluidos
  BY DEF Concluidos, Terminado
<1>9. Abstracto!Admitir(s, k, f)
  BY <1>1, <1>2, <1>4, <1>5, <1>6, <1>7, <1>8
     DEF Abstracto!Admitir, Abstracto!Llegada, Abiertas, Concluidos
<1> QED BY <1>1, <1>9 DEF Abstracto!Next

\* Listing a CPU takes the next connection of each of its ports, and the name of
\* the process behind the first.
LEMMA RegistrarCpuRefina ==
    ASSUME ColasInv, LecturaInv, RegistrarCpu PROVE Abstracto!Next
<1> DEFINE k == Len(recursosCpu) + 1
<1>1. /\ pcCpu = "registrarCpu"
      /\ UNCHANGED <<llegadas, fdDe, tabla, pcCliente, recursosIo>>
      /\ recursosCpu' = Append(recursosCpu,
                               [socket_envio        |-> fdDe[Actual("envio")],
                                socket_interrupcion |-> fdDe[Actual("interrupcion")],
                                disponible          |-> TRUE,
                                nombre_cpu          |-> nombreCpu])
  BY DEF RegistrarCpu, AgregarCpu, PasoCpu
<1>2. aceptadas["envio"] = k /\ aceptadas["interrupcion"] = k
  BY <1>1 DEF ColasInv, Conteos, ConEnvio
<1>3. /\ Actual("envio") = llegadas["envio"][k]
      /\ Actual("interrupcion") = llegadas["interrupcion"][k]
  BY <1>2 DEF Actual
<1>4. /\ k <= Len(llegadas["envio"]) /\ k <= Len(llegadas["interrupcion"])
      /\ fdDe[Actual("envio")] # SinFd /\ fdDe[Actual("interrupcion")] # SinFd
  BY <1>1, <1>2, EnRegistroHechos DEF ConEnvio, ConInterrupcion
<1>5. nombreCpu = llegadas["envio"][k].proc
  BY <1>1, <1>3 DEF LecturaInv, Nombres
<1>6. Abiertas' = Abiertas /\ Concluidos' = Concluidos
  BY <1>1 DEF Abiertas, Concluidos, Terminado
<1>7. Abstracto!ListarCpu
  BY <1>1, <1>3, <1>4, <1>5, <1>6
     DEF Abstracto!ListarCpu, Abstracto!Admitida, Abstracto!Llegada, Abiertas, Concluidos
<1> QED BY <1>7 DEF Abstracto!Next

\* The same for an IO.
LEMMA RegistrarIoRefina ==
    ASSUME ColasInv, LecturaInv, RegistrarIo PROVE Abstracto!Next
<1> DEFINE k == Len(recursosIo) + 1
<1>1. /\ pcIo = "registrarIo"
      /\ UNCHANGED <<llegadas, fdDe, tabla, pcCliente, recursosCpu>>
      /\ recursosIo' = Append(recursosIo, [socket     |-> fdDe[Actual("io")],
                                           disponible |-> TRUE,
                                           nombre_io  |-> nombreIo])
  BY DEF RegistrarIo, PasoIo
<1>2. aceptadas["io"] = k
  BY <1>1 DEF ColasInv, Conteos, ConIo
<1>3. Actual("io") = llegadas["io"][k]
  BY <1>2 DEF Actual
<1>4. k <= Len(llegadas["io"]) /\ fdDe[Actual("io")] # SinFd
  BY <1>1, <1>2, EnRegistroHechos DEF ConIo
<1>5. nombreIo = llegadas["io"][k].proc
  BY <1>1, <1>3 DEF LecturaInv, Nombres
<1>6. Abiertas' = Abiertas /\ Concluidos' = Concluidos
  BY <1>1 DEF Abiertas, Concluidos, Terminado
<1>7. Abstracto!ListarIo
  BY <1>1, <1>3, <1>4, <1>5, <1>6
     DEF Abstracto!ListarIo, Abstracto!Admitida, Abstracto!Llegada, Abiertas, Concluidos
<1> QED BY <1>7 DEF Abstracto!Next

\* The thread of a connection either only reads, or drops its connection: it is
\* listed and its process has ended.
LEMMA HiloRefina ==
    ASSUME ColasInv, LecturaInv, NEW c \in Conexiones, AtenderCliente(c)
    PROVE  Abstracto!Next \/ UNCHANGED Abstracto!vars
<1>1. /\ UNCHANGED <<llegadas, fdDe, pcCliente, recursosCpu, recursosIo>>
      /\ hilo[c] \in {"operacion", "HANDSHAKE", "MENSAJE"}
  BY DEF AtenderCliente, AtenderOperacion, AtenderBuffer, PasoHilo
<1>2. CASE UNCHANGED tabla
  BY <1>1, <1>2, NadaVisible
<1>3. CASE ~UNCHANGED tabla
  <2>1. PICK op : /\ PasoHilo(c, "operacion", TrasOperacion(op))
                  /\ RecibirOperacion(fdDe[c], op)
    BY <1>3 DEF AtenderCliente, AtenderOperacion, AtenderBuffer
  <2>2. fdDe[c] \in Fds /\ tabla[fdDe[c]] = c /\ leido[c] \in {0, 2, 4}
    BY <2>1, DetrasDeSuNumero DEF PasoHilo, ColasInv, Numerados, LecturaInv, Turnos
  <2>3. Terminado(c.proc) /\ tabla' = [tabla EXCEPT ![fdDe[c]] = Libre]
    BY <1>3, <2>1, <2>2, LeerOperacion
  <2>4. c \in Abiertas
    BY <2>2, AbiertasHechos, Constantes
  <2>5. Abiertas' = Abiertas \ {c}
    <3>1. \A f \in Fds : tabla'[f] = IF f = fdDe[c] THEN Libre ELSE tabla[f]
      BY <2>2, <2>3 DEF ColasInv, TypeOK
    <3>2. \A f \in Fds : tabla[f] = c => f = fdDe[c]
      BY Constantes DEF LecturaInv, Descriptores
    <3> QED BY <2>2, <3>1, <3>2 DEF Abiertas
  <2>6. c.proc \in Concluidos /\ Concluidos' = Concluidos
    BY <1>1, <2>3, CamposDeConexion DEF Concluidos, Terminado
  <2>7. Abstracto!Listada(c)
    BY <1>1, ConHiloListada
  <2>8. Abstracto!Soltar(c)
    BY <1>1, <2>4, <2>5, <2>6, <2>7 DEF Abstracto!Soltar, Abiertas, Concluidos
  <2> QED BY <2>8 DEF Abstracto!Next
<1> QED BY <1>2, <1>3

-----------------------------------------------------------------------------
(* The clients *)

\* A client's step ends it, brings one of its connections to a port, or is not
\* seen.
LEMMA ClienteRefina ==
    ASSUME ColasInv, NEW p \in Procesos, PasoQuieto(p) \/ PasoConecta(p)
    PROVE  Abstracto!Next \/ UNCHANGED Abstracto!vars
<1>1. PICK desde, hacia : PasoCliente(p, desde, hacia) /\ desde # "terminado"
                          /\ (PasoQuieto(p) \/ hacia # "terminado")
  BY DEF PasoQuieto, PasoConecta, Avanza
<1>2. /\ UNCHANGED <<fdDe, tabla, recursosCpu, recursosIo>>
      /\ p \notin Concluidos
      /\ \A q \in Procesos : pcCliente'[q] = IF q = p THEN hacia ELSE pcCliente[q]
  BY <1>1 DEF PasoCliente, Concluidos, Terminado, ColasInv, TypeOK
<1>3. Concluidos' = IF hacia = "terminado" THEN Concluidos \cup {p} ELSE Concluidos
  BY <1>2 DEF Concluidos, Terminado
<1>4. Abiertas' = Abiertas
  BY <1>2 DEF Abiertas
<1>5. CASE PasoQuieto(p)
  <2>1. UNCHANGED llegadas
    BY <1>5 DEF PasoQuieto
  <2>2. CASE hacia = "terminado"
    <3>1. Abstracto!Concluir(p)
      BY <1>2, <1>3, <1>4, <2>1, <2>2 DEF Abstracto!Concluir, Abiertas, Concluidos
    <3>2. p \in {c.proc : c \in Conexiones}
      BY PuertosDeCliente DEF Procesos, Puertos
    <3> QED BY <3>1, <3>2 DEF Abstracto!Next
  <2>3. CASE hacia # "terminado"
    BY <1>2, <1>3, <1>4, <2>1, <2>3 DEF Abstracto!vars, Abiertas, Concluidos
  <2> QED BY <2>2, <2>3
<1>6. CASE PasoConecta(p)
  <2>1. PICK s \in Puertos :
           /\ Conexion(p, s) \in Conexiones
           /\ llegadas' = [llegadas EXCEPT ![s] = Append(@, Conexion(p, s))]
    BY <1>6 DEF PasoConecta
  <2>2. Conexion(p, s).proc = p /\ Conexion(p, s).puerto = s
    BY PuertosDeCliente
  <2>3. Concluidos' = Concluidos
    <3>1. PICK otro : pcCliente' = [pcCliente EXCEPT ![p] = otro] /\ otro # "terminado"
      BY <1>6 DEF PasoConecta, PasoCliente
    <3> QED BY <1>2, <3>1 DEF Concluidos, Terminado, ColasInv, TypeOK
  <2>4. Abstracto!Llegar(Conexion(p, s))
    BY <1>2, <1>4, <2>1, <2>2, <2>3 DEF Abstracto!Llegar, Abiertas, Concluidos
  <2> QED BY <2>1, <2>4 DEF Abstracto!Next
<1> QED BY <1>5, <1>6

-----------------------------------------------------------------------------
(* The theorem *)

\* Every step of the kernel and its clients is a step of the abstract registry,
\* or is not seen by its users.
LEMMA PasoRefina ==
    ASSUME ColasInv, LecturaInv, [Next]_vars
    PROVE  Abstracto!Next \/ UNCHANGED Abstracto!vars
<1>1. CASE Main \/ CaidaKernel
  BY <1>1, NadaVisible DEF Main, ConectarMemoriaKernel, IniciarServidor, CrearHiloIo,
     CrearHiloCpu, CaidaKernel
<1>2. CASE AtenderConexionCpu
  <2>1. CASE AceptarEnvio \/ AceptarInterrupcion
    BY <2>1, AceptarRefina DEF AceptarEnvio, AceptarInterrupcion, PasoCpu, Puertos
  <2>2. CASE OperacionHandshakeCpu
    BY <2>2, SaludoNoCierra, NadaVisible DEF OperacionHandshakeCpu, PasoCpu
  <2>3. CASE BufferHandshakeCpu \/ CrearHiloEnvio \/ CrearHiloInterrupcion
    BY <2>3, NadaVisible DEF BufferHandshakeCpu, CrearHiloEnvio, CrearHiloInterrupcion,
       PasoCpu
  <2> QED BY <1>2, <2>1, <2>2, <2>3, RegistrarCpuRefina DEF AtenderConexionCpu
<1>3. CASE AtenderConexionIo
  <2>1. CASE AceptarIo
    BY <2>1, AceptarRefina DEF AceptarIo, PasoIo, Puertos
  <2>2. CASE OperacionHandshakeIo
    BY <2>2, SaludoNoCierra, NadaVisible DEF OperacionHandshakeIo, PasoIo
  <2>3. CASE BufferHandshakeIo \/ CrearHiloAtenderIo
    BY <2>3, NadaVisible DEF BufferHandshakeIo, CrearHiloAtenderIo, PasoIo
  <2> QED BY <1>3, <2>1, <2>2, <2>3, RegistrarIoRefina DEF AtenderConexionIo
<1>4. CASE \E c \in Conexiones : AtenderCliente(c)
  BY <1>4, HiloRefina
<1>5. CASE \E p \in Procesos : Lanzar(p) \/ MainCliente(p) \/ Morir(p)
  BY <1>5, PasosDeCliente, ClienteRefina
<1>6. CASE UNCHANGED vars
  BY <1>6, NadaVisible DEF vars
<1> QED BY <1>1, <1>2, <1>3, <1>4, <1>5, <1>6 DEF Next

\* The threads of kernel.c implement the registry: connections are admitted in
\* order under numbers of their own, listed in that order with their names, and
\* dropped only when listed and abandoned (kernel.c:144-204 and 206-245).
THEOREM RefinamientoSiempre ==
    ASSUME SinMuertesTempranas PROVE Spec => ImplementaAbstracto
<1>1. Init => Abstracto!Init
  BY InitRefina
<1>2. ColasInv /\ LecturaInv /\ [Next]_vars => [Abstracto!Next]_(Abstracto!vars)
  BY PasoRefina
<1> QED BY <1>1, <1>2, LecturaSiempre, PTL DEF Spec, ImplementaAbstracto, Abstracto!Spec

=============================================================================
