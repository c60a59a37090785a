# A model of SO_C1_2025 in TLA+

The repository is a course operating system in four C programs (`kernel`, `cpu`,
`io`, `memoria`) and a library (`utils`) that talk over TCP. In this commit the
scheduler, the instructions and the page tables are still to come; what works is
the part everything else will stand on: processes find each other, greet, are
listed as resources of the kernel, and exchange packets. That is what these
modules model, check and prove. Definitions keep the names of the code, in
Spanish; comments are in English and give `file:line`.

Contents: [inventory](#1-inventory), [the models](#2-the-models-and-the-code),
[properties and runs](#3-properties-and-runs), [bounds](#4-bounds),
[fairness](#5-fairness), [proofs](#6-proofs), [what the code does
otherwise](#7-where-the-code-does-something-else),
[what is not modelled](#8-what-is-not-modelled), [plan](#9-plan).

## 1. Inventory

| part | source | state | operations |
|---|---|---|---|
| kernel, start-up | `kernel.c:12-93` | listening sockets, the two lists, the connection to the memory | connect, `iniciar_servidor` three times, create two threads |
| kernel, registry | `kernel.c:144-204`, `259-276` | `recursos_cpu`, `recursos_io`, the process's descriptor table | `atender_conexion_cpu`, `atender_conexion_io`, `recibir_handshake` |
| kernel, connection threads | `kernel.c:206-257` | one descriptor number, one packet each | `atender_cliente_kernel` |
| kernel, processes | `kernel.c:112-142` | `next_pid`, `cola_new` | `init_proc` (no caller) |
| kernel, earlier acceptor | `recurso.c` | `recursos_io` | `esperar_recursos_io` (its thread is commented out) |
| cpu | `cpu.c:8-155` | three sockets | connect, greet, send |
| cpu, instructions | `cpu.c:158-254` | none | `parsear_instruccion`, `procesar_instruccion` (no caller) |
| io | `io.c:12-73` | one socket, the pid and the time of a request | connect, greet, serve requests until the kernel goes |
| memoria | `memoria.c` | one thread and one descriptor per client | accept, `atender_cliente_memoria`, `leer_archivo_pseudocodigo` |
| wire format | `protocolo.c`, `protocolo_comunicacion_memoria.c` | `t_buffer`: block, size, offset | add, read, serialize, deserialize, `enviar_*` |
| sockets | `socket.c` | none | `iniciar_servidor`, `esperar_cliente`, `recibir_operacion`, `recibir_buffer`, `crear_conexion` |
| string protocol | `mensaje_cadena.c`, `hello.c` | none | `enviar_cadena`, `recibir_cadena`, `handshake_kernel` (only commented-out callers) |
| configuration, logs | `auxiliar.c`, `*.config` | files | wrappers of the commons library |

How they interact. The memory listens on one port. The kernel connects to it,
opens three ports (IO, dispatch or *envio*, *interrupcion*) and starts two
accepting threads. A CPU connects to *envio* and greets, connects to
*interrupcion* and greets, connects to the memory, sends one message on each
connection and ends. An IO connects, greets and waits for requests. Each
acceptor waits for a connection, reads a greeting from it, appends a record with
the descriptor numbers and the name to its list, and creates a detached thread
per connection that reads packets until its `recv` fails. Nothing is locked: the
lists have one writer each, but the descriptor table of the process is shared by
every thread.

What is hard, and what it takes to be correct:

* **Two ports, one CPU** (`kernel.c:152-154`): the acceptor takes one connection
  of each port and assumes that they are of the same CPU. Right: each entry has
  the two sockets and the name of one CPU, and everyone who connects is listed.
* **Reused numbers** (`socket.c:94`, `265`): `close` in one thread lets `accept`
  in another return the same number. Right: as long as a thread uses a number it
  denotes its own connection; a number is closed once, by its own thread, after
  the last packet.
* **One stream, two readers in turn** (`kernel.c:153` and `170`): the acceptor
  reads the greeting, the thread the rest. Right: no byte is read twice, no
  packet is cut.
* **Deaths** (`socket.c:262-266`): any process may end between any two calls.
  Right: threads end, descriptors are closed, an IO does not wait for ever.
* **One table for everything** (`memoria.c:33`, `166`, `177`): connections and
  the files the memory opens take numbers from one table, which may be full.
  Right: nobody touches another's number, all of them are given back, and a
  client that found the table full is attended later.
* **Globals without locks** (`kernel.c:123`, `136-139`): `next_pid`, `cola_new`
  and the list behind it. Right: what does not overlap is not lost.
* **Partial `recv`** (`socket.c:262`, `273`, `275`, `io.c:45-47`): nothing asks for
  `MSG_WAITALL` or looks at a count. Right: what is deserialized was sent.
* **Sizes added up by hand** (`protocolo.c:229-233` and so on). Right: a
  serializer fills its block exactly, and the deserializer inverts it.

Every such place, with its line and the properties that watch it, is in
`PROJECT.json` under "hazards".

## 2. The models and the code

| module | what it is |
|---|---|
| `Registro` | the kernel's main, acceptors and connection threads, and the mains of CPUs and IOs, with their connections |
| `RegistroAbstracto` | what the registry promises, without threads, packets or reused numbers |
| `RegistroPruebas` | theorems about `Registro`, its refinement of `RegistroAbstracto` among them |
| `Memoria` | the memory's main, its threads, the files they open and its clients |
| `MemoriaPruebas` | theorems about `Memoria` |
| `Procesos` | `init_proc`, called by several threads |
| `ProcesosPruebas` | theorems about `Procesos` |
| `DispositivoIO` | the loop of an IO and the kernel's thread that reads its answers, byte by byte |
| `DispositivoPruebas` | theorems about `DispositivoIO` |
| `Cadenas` | the string protocol: `esperar_recursos_io` and the clients that call `handshake_kernel` |
| `CadenasPruebas` | theorems about `Cadenas` |
| `Protocolo` | the wire format, byte by byte, as operators |
| `ProtocoloPruebas` | what a number, a string, a block and a packet written with those operators are when they are read: lemmas for `EnlacePruebas`, `FormatosPruebas` and `DispositivoPruebas` |
| `Enlace` | one connection byte by byte: sender, network, reading thread |
| `EnlacePruebas` | theorems about `Enlace` |
| `Canal` | a FIFO channel: what `Enlace`, `Memoria`, `DispositivoIO` and the list of `Cadenas` promise |
| `Instrucciones` | `parsear_instruccion` and `procesar_instruccion`, as operators |
| `Formatos` | each serializer followed by its deserializer, and each line of an instruction executed |
| `FormatosPruebas` | theorems about `Formatos` |
| `MC*` | small instances for TLC |

How they compose: `DispositivoIO` and `Enlace` extend `Protocolo`; `Formatos`
extends `Protocolo` and `Instrucciones`; `Canal` is instantiated with a
refinement mapping by the four modules above, and `RegistroAbstracto` by
`Registro`. `Registro` and `Memoria` take from `Enlace` that a packet is read
whole when it arrives whole.

### Registro

One action per call that another thread can tell apart. The program points of
`main`, of the two acceptors, of each connection's thread and of each client are
`pcMain`, `pcCpu`, `pcIo`, `hilo[c]` and `pcCliente[p]`.

| code | model |
|---|---|
| `t_list * recursos_cpu`, `recursos_io` | sequences of records with the struct's fields |
| descriptor table | `tabla`: the connection behind each number, or `Libre`; `fdDe[c]` is the number `accept` returned, which threads and lists keep |
| `accept` | `Aceptar(s)`: the oldest connection of the port, under the lowest free number |
| `recibir_operacion` | `RecibirOperacion(f, op)`: a code, or `DESCONEXION` and the number is closed; on a number that is already free, the same (`recv` and `close` fail) |
| `recibir_buffer`, `deserializar_handshake` | `RecibirBuffer(f, nombre)`: the name sent, or `Basura` when `recv` failed or the bytes are not a greeting |
| `recibir_handshake` | two steps of the acceptor, one per `recv` that can block |
| `atender_cliente_kernel` | `AtenderOperacion`, `AtenderBuffer` |
| `crear_conexion` | `Conectar`: established by the listening socket before any `accept`; refused, the client aborts |
| `send` | `Enviar`: a whole packet; to a closed connection it is lost or kills the client (SIGPIPE) |
| a signal, `abort`, a fault in freed or unwritten memory | `Morir(p)`, `CaidaKernel` |

A packet is two cells of a stream, its code and its buffer. What a client sends
is fixed by its program (`Celdas`), so a stream is two counters, `enviado` and
`leido`. When a `recv` takes a code for a buffer, or the reverse, the connection
joins `rotas` and nothing is known of its boundaries any more: later reads
return any code and any number of cells. Data of a packet arrives whole here;
`Enlace` says when that is so.

### Protocolo, Enlace, Formatos

A `t_buffer` is a record of `size`, `offset` and `stream`, where `stream` maps
the addresses written to their bytes: writing past the end of the block or
leaving a hole is visible, and reading an address nobody wrote gives `Basura`.
`buffer_add_string` and `buffer_read_string` leave the offset at the string, as
the code does. `Instrucciones` has a line as the sequence of its words:
`campos[k]` past the last word is `NULL`, and past that `NoEscrito`, which
`strdup` (`cpu.c:180`) may take for `NULL`, for the address of some text, or of no
memory: `PuedeCaer` says which lines may bring the CPU down there.

`Enlace` has one client that runs a script of `enviar_handshake` and
`enviar_mensaje` calls, a network that delivers in order and may cut what is under
way a number of times (`cortes`, part of the script), and the thread with its
three `recv`: the kernel's or the memory's, by where the client is connected to,
which differ in the codes that have a case (`ConBuffer`). A short or failed `recv`
of a number leaves the bytes the variable had (`BytesBasura`, `TamBasura`).
`eliminar_paquete` of a packet whose stream was never allocated, and a string read
outside its block, may bring the process down (`lector = "caido"`). The history
variable `corto` says that some `recv` took less than it asked for with the rest
on its way, which is the only thing the properties excuse.

The calls of a script are the records of `Llamadas`, with texts of any length that
fits (`GuionesDelCodigo`). What a client of this commit sends to the memory is one
message; the memory has no case for it and skips it word by word, and
`PalabrasSinCaso` says that no word of it, read as a code, is one the memory acts
on. The texts of `kernel.c:42` and `cpu.c:37` have 24 and 27 bytes: their words are
the code, two lengths and letters, and the last one starts with the 0 that ends the
string.

`Formatos` chooses a struct, serializes it, carries it through a packet and
deserializes it; or chooses a line, parses it and executes it, or falls with it. No
property is about lines: the program may fall with any line of one word, and when it
does not, what it executes is what the line says.

### Memoria

| code | model |
|---|---|
| `*fd_conexion_ptr = accept(...)`, `pthread_create` | `Aceptar`: the oldest connection, under the lowest free number; `AceptarSinNumero` when there is none: -1 and a thread all the same, which ends by itself (`TerminarHueco`) |
| `atender_cliente_memoria` | `RecibirPaquete`, `RecibirFin`: of whatever connection the thread's number denotes in `tabla`, which is what the properties are about |
| `leer_archivo_pseudocodigo` | `AbrirArchivo` (`fopen` takes a number of the same table, or finds none or no file) and `CerrarArchivo` |
| `strcat` past the end of `folder[]`, `eliminar_paquete` without a stream | may bring the process down (`caida`), or not |

Only the clients of this commit and one that asks for CREAR_PROCESO (the case the
memory has and nobody uses yet) connect to it.

### Procesos

A step is one read or one write of what the threads share: the read and the write
of `next_pid++`, the test of `cola_new`, its creation, and `list_add` as the
commons library does it, a walk to the last element and a link after it. Two
threads that found the same last element leave one process out, and a count that
is greater than the chain (`rota`), in which the next walk may fall. `solapados`
remembers which calls overlapped another.

### DispositivoIO

The two `recv` and the `usleep` of `io.c:45-52`, and the thread of the kernel at
the other end, for which the answer (a word of 0) is the code HANDSHAKE
(`LeerOperacion`), the next answer the size of its buffer (`LeerTamano`), and the
`recv` of 0 bytes of that buffer (`socket.c:275`) waits for one more to arrive
(`LeerContenido`). Both streams are bytes and both may be cut: the thread may take
the end of an answer and the start of the next for a number, and the bytes that a
short `recv` leaves have any value of `BytesBasura`. The contents are no greeting
and are deserialized from outside their block, which may bring the kernel down.
The requests (`Pedir`) are external: they are what `io.c` is written to receive.
`roto` remembers that a `recv` of the device took a part of a number, or that the
connection was reset with requests in it.

### Cadenas

The acceptor's `recv` calls wait for all they ask for (`MSG_WAITALL`), so a string
is a count of bytes under way and arrived; a name is read whole or, if its sender
died, is a block nobody wrote (`Basura`). The client is told "OK" before it is
listed, in the order of `recurso.c:15-18`. Only one acceptor step can block, and
it blocks on one client.

## 3. Properties and runs

| run | instance | properties | what it shows |
|---|---|---|---|
| `registro_cpus` | two CPUs, deaths anywhere but before a greeting | `TypeOK`, `HiloConSuConexion`, `EntrePaquetes`, `Identificados`, `ParejaSiMismoOrden`, `SocketsPorOrden`, `CierraSoloSuHilo`, `ImplementaAbstracto` | numbers, boundaries, names and pairs are right, and the list takes both ports in order; `Registro` implements `RegistroAbstracto` |
| `registro_ios` | a CPU and two IOs launched while the kernel starts | `EntrePaquetes`, `ImplementaAbstracto` | the two acceptors do not disturb each other, whatever ports are open yet |
| `registro_muertes` | three IOs, killed anywhere, before their greeting too, and a kernel that falls | `SocketsPorOrden`, `ClientesTerminan` | the acceptor closes numbers that are then reused and boundaries are lost, but the list follows the order of arrival; clients do not outlive the kernel |
| `registro_vivos` | two CPUs racing, dying once connected to both ports | `TodosSeRegistran`, `SeLiberanDescriptores` | whoever opens its first connection is listed; connections of the dead are drained and their threads end |
| `enlace` | scripts of a CPU and an IO to the kernel, of kernel and CPU to the memory, whole; one of each cut up to twice anywhere | `TypeOK`, `CierraAlTerminar`, `CanalHastaCorto`, `TerminaConElCliente` | until a `recv` is short the thread is the reader of a FIFO channel of the structs it has a case for, a packet without a case is skipped word by word and does nothing; misread or not, the thread ends after its client |
| `formatos` | the five formats, and lines with few and many words | `LlenaSuBloque`, `IdaYVuelta` | blocks are filled exactly and read back |
| `memoria` | kernel, CPU and a third program, two numbers | `TypeOK`, `NumerosPropios`, `ImplementaCanales`, `TodosAtendidos`, `SeDevuelve` | threads and files share the table undisturbed; each client has a FIFO channel; a full table loses nobody; numbers come back |
| `cadenas` | three clients, one of which may stay silent | `TypeOK`, `NombreEntero`, `AceptadoEsListado`, `ListaEnOrden`, `SaludoRespondido` | names are whole or nobody's; "OK" means listed, or about to be; one entry per connection in order; only a silent client can delay an answer for ever |
| `dispositivo` | three requests, they and their answers cut up to twice anywhere, the kernel or the device killed | `TypeOK`, `DuermeLoPedido`, `AtiendeMientrasVive`, `CanalHastaRoto`, `TerminanLosDos` | requests are served in order with their own times until a number is cut; no answer, whole or cut, is taken for the end of a device that lives; both ends notice |
| `procesos` | four threads | `TypeOK`, `PidsEnOrden`, `SolosNoSePierden`, `ListadosCompletos` | what overlapping calls lose, and never more than that |

The `viola_*` runs are in [section 7](#7-where-the-code-does-something-else).

The refinement of `RegistroAbstracto` maps `numero` to `fdDe`, `abiertas` to the
connections in `tabla` and `concluidos` to the clients that have ended. It says
in one formula that connections are admitted in order under numbers not in use,
that entries are made of the k-th connections of each port under the right name,
and that a connection is only dropped once it is listed and its process is gone.
It needs no early deaths, as the theorems do: with them an entry has a name
nobody wrote.

Each property of a passing run has a mutant in `PROJECT.json`: the definition of
the model with a plausible mistake (a thread created too early, a descriptor
closed by the acceptor, a forgotten case, a file left open), defined next to it
under a name that says what it breaks; the property then fails in that run.

Deadlock is not checked: clients end, and a system whose clients have ended
stops.

## 4. Bounds

* **Clients.** Two CPUs are what it takes to race for the pairing and to reuse a
  number; two IOs and a CPU make both acceptors work on the table at once. Each
  client is launched once: `Cpus` and `Ios` are names, and more of them stand
  for restarts.
* **`Fds = 1..4`** in `Registro`, as many as connections. Numbers are reused all
  the same, since `accept` takes the lowest free one. `accept` never fails there for
  lack of numbers (`socket.c:94` does not check it); in `Memoria` it does.
* **`PuntosDeMuerte`** is where a client may be killed. `MCMuertesTardias` is
  everywhere but the points where an acceptor waits for that client's greeting
  (`MuertesTempranas`). The deaths there are the run `registro_muertes`, where
  only what survives them is checked, on IOs: one that dies early is listed, under
  a number that is closed and given again; of three, two can come after it. A CPU
  that dies early stops its acceptor, or shifts the pairs; that the order of arrival
  survives it too is `SocketsSiempre`, which assumes nothing of deaths. A CPU never
  waits for the kernel, so there is no more to `ClientesTerminan` with CPUs.
  `registro_vivos` also spares the points between the two connections of a CPU,
  after which the acceptor waits for a partner (compare `viola_conectado`).
* **`EsperanKernel`** FALSE lets clients start while the kernel is opening its
  ports.
* **Symmetry** permutes CPUs and IOs, in the runs of safety properties alone.
* **Bytes.** `Enlace` uses ASCII (`Base = 128`) and numbers of 4 bytes, with at most
  two cuts: one is enough to misread a packet, the second to cut what is read out
  of step. `BytesBasura` and `TamBasura` sample what unwritten memory may hold.
  `Formatos` and `DispositivoIO` use `Base = 4` and 2 bytes, so that numbers and
  sizes of one and two bytes, 0 and the greatest all occur, and, with `Mil = 3`,
  times whose product fits and does not.
* **Texts** have up to 3 bytes in `Formatos` and 2 in `enlace`; the messages to the
  memory have their real length, which decides where their words fall.
  `CanalHastaCorto` and `CierraAlTerminar` depend on it: a message of one character
  would be read as DESCONEXION (its length, 1) and an empty one as CREAR_PROCESO
  (the size of its block, 5), but no program sends these.
* **`memoria`**: two numbers for three clients and their files, so that `accept` and
  `fopen` both find the table full. `MaxHuecos = 1` thread without a connection is
  alive at a time: they neither read nor write what others do.
* **`dispositivo`**: three requests leave an odd and an even number of answers
  after a cut; two cuts can shift a stream and shift it back, or shift both.
  `Tiempos` has the last time whose microseconds fit and the first whose do not.
  `TamBasura` has the size an unwritten variable may happen to have, 0 or one that
  spans answers.
* **`cadenas`**: three clients put one behind a silent one and one before it.
* **`procesos`**: four threads, each calling once: two overlap, one has called
  before and one comes after. Symmetry permutes them.

## 5. Fairness

Weak fairness on each thread of the kernel and of the memory, on each
connection's thread and on each client's main (`Registro`, `Memoria`), on the
network, the reading threads, the device and the acceptor of `Cadenas`: the
operating system schedules every thread that can run, and TCP delivers what was
sent. There is none on launching or killing a client, nor on the fall of a server,
nor on what a client of `Enlace` sends or when it ends, nor on the requests of
`DispositivoIO`. In `Memoria` the clients in `Terminan` send what they have and end, as
the CPU does; the kernel need not. In `Cadenas` the clients in `Callados` need not
greet. A thread blocked in `recv` or `accept` is one whose action is not
enabled, so weak fairness asks nothing of it. `TodosSeRegistran`,
`SeLiberanDescriptores`, `CpuConectadoSeRegistra`, `TodosAtendidos` and `SeDevuelve`
allow for the fall of the server, which the code can cause by itself
(`eliminar_paquete`).

`TodosAtendidos` needs no strong fairness: clients send finitely many packets, so
files stop being opened, and the room that a client leaves stays until `accept`
takes it for the next one in the queue.

## 6. Proofs

TLAPS proves the following for any value of the constants: any sets of CPUs, IOs,
clients, threads and numbers, any `PuntosDeMuerte` or launch order, any packets,
texts and requests, any cuts of the network, any base and width of a number. Every
safety property and every refinement that a passing run checks is here.

| theorem | states | assumes |
|---|---|---|
| `RegistroPruebas!TiposSiempre` | `Spec => []TypeOK` | |
| `RegistroPruebas!SocketsSiempre` | `Spec => []SocketsPorOrden` | |
| `RegistroPruebas!HilosSiempre` | `Spec => []HiloConSuConexion` | `SinMuertesTempranas` |
| `RegistroPruebas!NombresSiempre` | `Spec => []Identificados` | `SinMuertesTempranas` |
| `RegistroPruebas!PaquetesSiempre` | `Spec => []EntrePaquetes` | `SinMuertesTempranas` |
| `RegistroPruebas!ParejasSiempre` | `Spec => []ParejaSiMismoOrden` | `SinMuertesTempranas` |
| `RegistroPruebas!CierresSiempre` | `Spec => CierraSoloSuHilo` | `SinMuertesTempranas` |
| `RegistroPruebas!RefinamientoSiempre` | `Spec => ImplementaAbstracto` | `SinMuertesTempranas` |
| `MemoriaPruebas!TiposSiempre` | `Spec => []TypeOK` | |
| `MemoriaPruebas!NumerosSiempre` | `Spec => []NumerosPropios` | |
| `MemoriaPruebas!CanalesSiempre` | `Spec => ImplementaCanales` | |
| `ProcesosPruebas!TiposSiempre` | `Spec => []TypeOK` | |
| `ProcesosPruebas!PidsSiempre` | `Spec => []PidsEnOrden` | |
| `ProcesosPruebas!SolosSiempre` | `Spec => []SolosNoSePierden` | |
| `ProcesosPruebas!ListadosSiempre` | `Spec => []ListadosCompletos` | |
| `CadenasPruebas!TiposSiempre` | `Spec => []TypeOK` | |
| `CadenasPruebas!NombresSiempre` | `Spec => []NombreEntero` | |
| `CadenasPruebas!AceptadosSiempre` | `Spec => []AceptadoEsListado` | |
| `CadenasPruebas!ListaSiempre` | `Spec => ListaEnOrden` | |
| `ProtocoloPruebas!IdaYVueltaDeNumeros` | `Valor(EnBytes(v)) = v` for every `v` below `Limite` | |
| `FormatosPruebas!BloquesSiempre` | `Spec => []LlenaSuBloque` | |
| `FormatosPruebas!LecturasSiempre` | `Spec => []IdaYVuelta` | |
| `EnlacePruebas!TiposSiempre` | `Spec => []TypeOK` | |
| `EnlacePruebas!CierreSiempre` | `Spec => []CierraAlTerminar` | |
| `EnlacePruebas!CanalSiempre` | `Spec => CanalHastaCorto` | |
| `DispositivoPruebas!TiposSiempre` | `Spec => []TypeOK` | |
| `DispositivoPruebas!AtencionSiempre` | `Spec => []AtiendeMientrasVive` | |
| `DispositivoPruebas!DuermeSiempre` | `Spec => []DuermeLoPedido` | |
| `DispositivoPruebas!CanalSiempre` | `Spec => CanalHastaRoto` | |

Assumptions about constants are named in the module that declares them, and TLC
evaluates each in the runs of that module. Most say that names are disjoint from the
sentinels and that numbers are naturals that fit (`Constantes`, `ClientesYNumeros`,
`ArchivosAparte`, `NULLNoEsHilo`, `Nombres`, `Anchos`, `Lectores`, `Valores`,
`Medidas`). Three say more:

* `BloquesCaben` (`Formatos`) and the last part of `GuionesDelCodigo` (`Enlace`): a
  text is short enough for the size of its block to fit in its field, of 32 bits in
  the code. A longer one would be cut by the sum of `protocolo.c:229-233`.
* `PalabrasSinCaso` (`Enlace`): the messages to the memory are those that
  [section 2](#protocolo-enlace-formatos) describes. It is about bytes that are
  constants of the program, so it is an assumption about the scripts and not about
  what happens to them.

`SinMuertesTempranas` says that no client is *killed* between connecting and
sending the greeting an acceptor reads. It is needed: without it the acceptor
closes the number and goes on ([section 7](#7-where-the-code-does-something-else)).
It says nothing of the fall of the kernel, of deaths anywhere else, or of
refused connections.

**Types and order** (`ColasInv`). `TypeOK` is not inductive: `Actual(s)`, the
connection an acceptor works on, is an entry of a queue, and its number is one
only if it was accepted. So `ColasInv` adds: `Colas` (a queue holds connections
of its port, once each, of clients past their `connect`), `Numeradas` and
`Numerados` (a connection has a number exactly when `accept` has returned it),
`Conteos` (how far the lists are behind the ports, by the acceptors' program
points), `Arranque` (each acceptor is created once) and `SocketsPorOrden`
itself. A client's steps are reduced to two shapes by `PasosDeCliente`: those
that append a connection to a queue and those that do not; each is past the
`connect` from then on, so no connection is queued twice.

**Reading** (`LecturaInv`, on top of `ColasInv`). That a number denotes the right
connection depends on who may close it, which depends on where in the stream the
reader is, which depends on what the client has sent, which depends on whether
the kernel still holds its connection. The invariant closes that circle:
`Descriptores` (the table and the numbers agree), `HiloConSuConexion`, `Saludos`
(how much of a greeting was read, by the acceptor's program point), `Turnos` (the
threads read codes at even positions and buffers at odd ones), `Envios` (what was
sent, by the client's program point), `Saludan` (while the kernel is up, a
greeting not sent yet is about to be), `Nombres` and `Identificados`. The crucial
lemma is `SaludoNoCierra`: an acceptor never sees the end of a stream.
`EntrePaquetes`, `ParejaSiMismoOrden` and the step property `CierraSoloSuHilo`
follow.

**Memory** (`MemoriaPruebas!Inv`). `NumerosPropios` alone is not inductive: `accept`
must not give a number to a connection whose thread already runs, so `Esperan`
says that a queued connection has no thread, is queued once, and belongs to a
client that has connected, and `SinConectar` that the others have none. A step that
takes or gives back a number changes the table at a place that holds nothing of
any other thread (`AjenoIgual`); `MenorEsLibre` says that the `CHOOSE` of the lowest
free number finds one. With `Tomados` (what a thread took are its client's packets,
in order) each step is one of that client's `Canal` or a stutter (`PasoPromesa`).

**Processes** (`ProcesosPruebas!Inv`). `SolosNoSePierden` needs to know where other
threads may link: `Firmes` says that a process whose call overlapped no other is in
the list before, or at, the element any thread under way will link after, and that
no thread is about to create a list; `Solitaria` that what a lonely call read is
still so. `Cuentas` ties `next_pid`, the pids and the length of the list while
nothing has overlapped.

**The registry's refinement** (`PasoRefina`). `ColasInv` and `LecturaInv` hold of
both ends of a step. A step that writes nothing the abstract registry sees is a
stutter (`NadaVisible`); each acceptance is an admission, since a number that is
free in the table belongs to no open connection; each registration appends the
entry of the next connections of the ports under the right name, by
`SocketsPorOrden` and `Nombres`; and the end of a thread is the closing of a listed
connection whose client is gone (`ConHiloListada`; by `SaludoNoCierra` no acceptor
closes one).

**Strings** (`CadenasInv`). `NombreEntero` needs to know that a name under way is
there to the last byte or not at all, however it has been delivered (`Bytes`), and
that what the acceptor holds is the name of the connection it works on
(`NombreActual`); `AceptadoEsListado` that the answered ones are listed or at hand
(`Respondidos`, `Listados`).

**Numbers and blocks** (`ProtocoloPruebas`). `Peso` and `Valor` are recursive
functions, and what they are for every argument is proved from the facts of the
library about well-founded orders that have no operator parameter: the set of the
arguments at which a claim fails has a least element (`Induccion`), and a function
given step by step exists (`Recursion`). So a number that fits comes back from its
bytes, a buffer to which the parts of a struct have been added in order is full
(`Lleno`), and whoever reads the parts in order from any full block with those
bytes finds them, wherever the writer left its offset. `PaqueteEscrito` and
`BloqueRecibido` carry that through a packet. `FormatosInv` is these lemmas as
states: between the serializer and the deserializer there is a full block from
which the value is read (`Escrita`).

**Device** (`DispositivoInv`). `EnCamino`: until a number is cut, what is in the
connection are the numbers of the requests not read yet, one after the other
(`Faltan`), whatever part of them has arrived. Each `recv` takes the first. Then
`Servidos`, the requests taken are the first ones sent with their own sleeps,
`DuermeLoPedido` and the channel follow.
`AtiendeMientrasVive` needs to know what is in the other direction: nothing but
zeros (`SoloCeros`), wherever the thread is in them. Of a number made of them and of
the bytes a short `recv` leaves the lowest digit is 0, so it is a multiple of `Base`
(`Multiplo`), and DESCONEXION, 1, is not (`NoEsElFin`).

**A connection** (`EnlaceInv`). `CierraAlTerminar` and `CanalHastaCorto` are about
where in the bytes the thread is, so the invariant rebuilds it. For the kernel there
is a function `g` with `g[k]` the bytes sent by the calls after the k-th
(`EsCola`); until a `recv` is cut, what is in the connection is the rest of one
packet, from the part the thread is to read on (code, size or block), followed by
`g[m + 1]`, where `m` structs have been deserialized (`EnKernel`). A packet is whole
in the socket when the network cuts nothing, because then all that is under way is
`g[j]` for some `j`; this is why `corto` stays false. For the memory the connection
is empty or holds its packet from a word boundary on (`EnMemoria`), and
`PalabrasSinCaso` says what each word is worth. In `TypeOK` after a cut, any bytes
may be taken for a code, a size and a string; the lemmas on `Valor` bound what they
can be.

**Model-checked only.** The liveness properties: `ClientesTerminan`,
`TodosSeRegistran`, `SeLiberanDescriptores`, `TodosAtendidos`, `SeDevuelve`,
`SaludoRespondido`, `TerminanLosDos` and `TerminaConElCliente`. They depend on
fairness, hence on ENABLED, which the prover does not reason about. The two
properties of the `viola_*` runs are false.

## 7. Where the code does something else

Two runs check a statement of the repository that the code does not keep.

| run | property | what happens |
|---|---|---|
| `viola_pareja` | `ParejaDelMismoCpu` | two CPUs reach the ports in opposite orders and get each other's interrupt socket (`kernel.c:154`); the greeting that would tell is not read (`kernel.c:155`, commented out) |
| `viola_conectado` | `CpuConectadoSeRegistra` | a CPU launched between the listen calls of `kernel.c:50-51` queues one connection and is refused the other; the next CPU is paired with it and then waits for ever. Nobody is killed |

Others were met on the way and have no run of their own:

* After DESCONEXION (`kernel.c:244-247`) the entry of a resource stays `disponible`,
  with numbers that are closed or someone else's, although `kernel.c:76` keeps the
  lists "PARA SER USADOS".
* `recibir_handshake` goes on after a failed `recv` and lists a name nobody wrote
  (`kernel.c:264-275`); `Identificados` fails when `PuntosDeMuerte` has early deaths.
* A packet in two pieces is taken for whole (`socket.c:262-275`): `CanalHastaCorto`
  excuses exactly that, and fails without the excuse. So does a request of an IO
  (`io.c:45-47`, `CanalHastaRoto`).
* `enviar_handshake` stores `IO` whatever `recurso` it is given (`protocolo.c:355`,
  against `protocolo.c:319` "tipo de recurso"); `HandshakeDe` does the same.
* `deserializar_crear_proceso_memoria` reads the length of the file's name into a
  local variable (`protocolo_comunicacion_memoria.c:23-24`), and the memory logs a
  field nobody wrote (`memoria.c:78`).
* The kernel's thread reads the answers of an IO as greetings of size 0
  (`kernel.c:220-224`, `LeerTamano`, `LeerContenido`).
* With a full table the memory's main creates threads without a connection in a
  loop (`memoria.c:33-43`, `AceptarSinNumero`).
* Three of the instructions listed at `cpu.c:110-117` have one word: `campos[2]` is
  then past the end of the array (`cpu.c:171`) and `strdup` follows whatever is
  there (`cpu.c:180`), which may bring the CPU down (`PuedeCaer`).
* Two calls of `init_proc` that overlap may both create the list, and the processes
  of the first are lost (`kernel.c:136-137`, `SolosNoSePierden` excuses it).

`Registro` and `Memoria` abstract from cuts: their packets arrive whole, as they do
when one small `send` is one segment, but the code does not insist on it.

## 8. What is not modelled

* The requests of an IO as the kernel will send them: only its side is written
  (`io.c:45-52`). In `Registro` an IO waits until its connection is closed.
* The contents of pseudocode files: the memory prints and forgets them
  (`memoria.c:173-175`); a line longer than `cadena` is printed in parts.
* `esperar_recursos_memoria` (`memoria.c:182`): no caller, accepts and keeps nothing.
* A full descriptor table in the kernel; failures of `pthread_create` and `socket`,
  of `malloc` other than in `init_proc`, and a `bind` that fails other than by
  aborting the process.
* The mismatch of the ports in the configuration (`memoria.config:1` listens on
  8087; `kernel.config:2` and `cpu.config:2` connect to 8002): connecting to the
  memory succeeds or aborts in the models.
* `auxiliar.c`, logs, formatting, the `.config` parser, the build.

## 9. Plan

1. Done: `Registro` and its theorems; `Protocolo`, `Enlace`, `Formatos`; `Memoria` and
   `Procesos` with theirs; `DispositivoIO`, `Cadenas`, `Instrucciones`.
2. Done: the refinement of the registry, and the safety properties of `Cadenas`,
   `Formatos`, `DispositivoIO` and `Enlace`, proved for every value of the constants.
3. Lemmas about the abstract specifications themselves (what `RegistroAbstracto` and
   `Canal` promise follows from them alone).
4. `accept` with a full table in `Registro`, if the code comes to check it.

The project keeps to a dozen runs, one per question.

## Running

    tlc -workers 2 -config memoria.cfg MCMemoria
    tlapm MemoriaPruebas.tla

and so for the other runs (their modules are in `PROJECT.json`) and the other proof
modules. The longest run (`registro_vivos`) takes about two minutes; the proofs, some
minutes each.
