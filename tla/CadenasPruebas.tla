---------------------------- MODULE CadenasPruebas ----------------------------
(***************************************************************************)
(* Proofs about Cadenas, for any clients, names and widths: types, names   *)
(* that arrive whole or not at all, answers only to what is listed, and a  *)
(* list in the order of arrival.  The inductive invariant CadenasInv       *)
(* relates the queue, the list and the bytes of each name.                 *)
(***************************************************************************)
EXTENDS Cadenas, TLAPS

-----------------------------------------------------------------------------
(* The inductive invariant *)

\* Each client is queued once, after it has connected.
Cola ==
    /\ \A k \in 1 .. Len(llegadas) : cliente[llegadas[k]] # "afuera"
    /\ \A j, k \in 1 .. Len(llegadas) : llegadas[j] = llegadas[k] => j = k

\* The list is the accepted part of the queue, but for the connection at hand.
Listados ==
    /\ aceptadas = Len(recursos_io) + (IF pc = "accept" THEN 0 ELSE 1)
    /\ \A k \in 1 .. Len(recursos_io) : recursos_io[k].socket = llegadas[k]

Listado(c) == \E k \in 1 .. Len(recursos_io) : recursos_io[k].socket = c

\* Who was answered is listed, or is the one at hand.
Respondidos ==
    /\ \A c \in respuesta : Listado(c) \/ (pc = "agregar" /\ Actual = c)
    /\ \A c \in Clientes : cliente[c] = "aceptado" => c \in respuesta

\* Nothing that c sends has been read.
SinLeer(c) == \/ \A k \in 1 .. aceptadas : llegadas[k] # c
              \/ (pc = "longitud" /\ Actual = c)

\* A name is sent whole: its bytes are all there, under way or not, or none is.
Bytes ==
    \A c \in Clientes :
        /\ cliente[c] \in {"afuera", "conectado"} => enRed[c] = 0 /\ socket[c] = 0
        /\ SinLeer(c) =>
              \/ enRed[c] + socket[c] = Ancho + Largo[c]
              \/ /\ enRed[c] = 0 /\ socket[c] = 0
                 /\ cliente[c] \in {"afuera", "conectado", "muerto"}
        /\ pc = "texto" /\ Actual = c => enRed[c] + socket[c] = Largo[c]

\* The name at hand is that of the client, or nobody's if it has ended.
NombreActual ==
    pc \in {"responder", "agregar"} =>
        /\ nombre \in {Actual, Basura}
        /\ nombre = Basura => cliente[Actual] = "muerto"

CadenasInv ==
    /\ TypeOK /\ Cola /\ Listados /\ Respondidos /\ Bytes /\ NombreActual
    /\ NombreEntero

-----------------------------------------------------------------------------
(* Lemmas about the connection at hand and what recv takes *)

USE DEF varsCliente, varsAceptador

\* An entry of the list has the connection of a client and perhaps a name.
LEMMA EntradaTipos ==
    ASSUME TypeOK, NEW k \in 1 .. Len(recursos_io)
    PROVE  /\ recursos_io[k].socket \in Clientes
           /\ recursos_io[k].nombre_io \in Clientes \cup {Basura}
<1> DEFINE Entradas == [socket : Clientes, nombre_io : Clientes \cup {Basura}]
<1>1. recursos_io \in Seq(Entradas)
  BY DEF TypeOK
<1>2. \A e \in Entradas : e.socket \in Clientes /\ e.nombre_io \in Clientes \cup {Basura}
  OBVIOUS
<1> HIDE DEF Entradas
<1> QED BY <1>1, <1>2

\* While the acceptor attends a connection, it is the last one accepted, and it
\* is not listed.
LEMMA ActualHechos ==
    ASSUME CadenasInv, pc # "accept"
    PROVE  /\ aceptadas \in 1 .. Len(llegadas)
           /\ aceptadas = Len(recursos_io) + 1
           /\ Actual = llegadas[aceptadas] /\ Actual \in Clientes
           /\ ~Listado(Actual)
<1>1. /\ aceptadas = Len(recursos_io) + 1 /\ Len(recursos_io) \in Nat
      /\ aceptadas \in 0 .. Len(llegadas) /\ llegadas \in Seq(Clientes)
  BY DEF CadenasInv, Listados, TypeOK
<1>2. aceptadas \in 1 .. Len(llegadas)
  BY <1>1
<1>3. Actual = llegadas[aceptadas] /\ Actual \in Clientes
  BY <1>1, <1>2 DEF Actual
<1>4. ~Listado(Actual)
  <2>1. \A k \in 1 .. Len(recursos_io) :
           k \in 1 .. Len(llegadas) /\ k # aceptadas /\ recursos_io[k].socket = llegadas[k]
    BY <1>1 DEF CadenasInv, Listados
  <2> QED BY <1>2, <1>3, <2>1 DEF CadenasInv, Cola, Listado
<1> QED BY <1>1, <1>2, <1>3, <1>4

\* recv gives the whole length or nothing, and after the length the whole name.
LEMMA RecibirForma ==
    ASSUME CadenasInv, RecibirCadena
    PROVE  /\ Actual \in Clientes
           /\ UNCHANGED <<caido, enRed, varsCliente, aceptadas, recursos_io, respuesta>>
           /\ \/ /\ pc = "longitud" /\ pc' = "texto" /\ UNCHANGED nombre
                 /\ socket[Actual] >= Ancho
                 /\ socket' = [socket EXCEPT ![Actual] = @ - Ancho]
              \/ /\ pc = "longitud" /\ pc' = "responder" /\ nombre' = Basura
                 /\ cliente[Actual] = "muerto" /\ UNCHANGED socket
              \/ /\ pc = "texto" /\ pc' = "responder" /\ nombre' = Actual
                 /\ socket[Actual] >= Largo[Actual]
                 /\ socket' = [socket EXCEPT ![Actual] = @ - Largo[Actual]]
<1>1. pc \in {"longitud", "texto"}
      /\ UNCHANGED <<caido, enRed, varsCliente, aceptadas, recursos_io, respuesta>>
  BY DEF RecibirCadena
<1>2. /\ Actual \in Clientes /\ enRed[Actual] \in Nat /\ socket[Actual] \in Nat
      /\ Largo[Actual] \in Nat \ {0} /\ Ancho \in Nat \ {0}
      /\ socket \in [Clientes -> Nat]
  BY <1>1, ActualHechos, Nombres DEF CadenasInv, TypeOK
<1>3. CASE pc = "longitud"
  <2>1. /\ PuedeRecibir(Actual, Ancho) /\ Consumir(Actual, Ancho)
        /\ Tomado(Actual, Ancho) = Ancho => pc' = "texto" /\ UNCHANGED nombre
        /\ Tomado(Actual, Ancho) # Ancho => pc' = "responder" /\ nombre' = Basura
    BY <1>3 DEF RecibirCadena
  <2>2. enRed[Actual] + socket[Actual] = Ancho + Largo[Actual]
        \/ (enRed[Actual] = 0 /\ socket[Actual] = 0)
    BY <1>2, <1>3 DEF CadenasInv, Bytes, SinLeer
  <2>3. CASE socket[Actual] >= Ancho
    <3>1. Tomado(Actual, Ancho) = Ancho
      BY <1>2, <2>3 DEF Tomado
    <3>2. socket' = [socket EXCEPT ![Actual] = @ - Ancho]
      BY <2>1, <3>1 DEF Consumir
    <3> QED BY <1>1, <1>2, <1>3, <2>1, <2>3, <3>1, <3>2
  <2>4. CASE ~(socket[Actual] >= Ancho)
    <3>1. enRed[Actual] = 0 /\ cliente[Actual] = "muerto" /\ socket[Actual] = 0
      BY <1>2, <2>1, <2>2, <2>4 DEF PuedeRecibir, HayFin
    <3>2. Tomado(Actual, Ancho) = 0
      BY <1>2, <2>4, <3>1 DEF Tomado
    <3>3. UNCHANGED socket
      BY <1>2, <2>1, <3>1, <3>2 DEF Consumir
    <3> QED BY <1>1, <1>2, <1>3, <2>1, <3>1, <3>2, <3>3
  <2> QED BY <2>3, <2>4
<1>4. CASE pc = "texto"
  <2>1. /\ PuedeRecibir(Actual, Largo[Actual]) /\ Consumir(Actual, Largo[Actual])
        /\ pc' = "responder"
        /\ Tomado(Actual, Largo[Actual]) = Largo[Actual] => nombre' = Actual
    BY <1>4 DEF RecibirCadena
  <2>2. enRed[Actual] + socket[Actual] = Largo[Actual]
    BY <1>2, <1>4 DEF CadenasInv, Bytes
  <2>3. socket[Actual] >= Largo[Actual]
    BY <1>2, <2>1, <2>2 DEF PuedeRecibir, HayFin
  <2>4. Tomado(Actual, Largo[Actual]) = Largo[Actual]
    BY <1>2, <2>3 DEF Tomado
  <2> QED BY <1>1, <1>2, <1>4, <2>1, <2>3, <2>4 DEF Consumir
<1> QED BY <1>1, <1>3, <1>4

-----------------------------------------------------------------------------
(* The acceptor *)

\* The invariant holds before anybody has connected.
LEMMA InitCadenas == Init => CadenasInv
<1> SUFFICES ASSUME Init PROVE CadenasInv
  OBVIOUS
<1>1. /\ enRed = [c \in Clientes |-> 0] /\ socket = [c \in Clientes |-> 0]
      /\ llegadas = <<>> /\ recursos_io = <<>> /\ aceptadas = 0 /\ respuesta = {}
      /\ cliente = [c \in Clientes |-> "afuera"] /\ pc = "accept"
  BY DEF Init
<1>2. TypeOK
  <2>1. /\ llegadas \in Seq(Clientes) /\ aceptadas \in 0 .. Len(llegadas)
        /\ recursos_io \in Seq([socket : Clientes, nombre_io : Clientes \cup {Basura}])
    BY <1>1
  <2>2. /\ enRed \in [Clientes -> Nat] /\ socket \in [Clientes -> Nat]
        /\ cliente \in [Clientes -> {"afuera", "conectado", "espera", "aceptado",
                                     "rechazado", "muerto"}]
    BY <1>1
  <2> QED BY <1>1, <2>1, <2>2 DEF Init, TypeOK
<1>3. Cola /\ Listados /\ Respondidos /\ NombreActual /\ NombreEntero
  BY <1>1 DEF Cola, Listados, Respondidos, NombreActual, NombreEntero
<1>4. Bytes
  BY <1>1 DEF Bytes
<1> QED BY <1>2, <1>3, <1>4 DEF CadenasInv

\* accept takes the next connection, of which nothing has been read.
LEMMA CadenasAccept == ASSUME CadenasInv, Accept PROVE CadenasInv'
<1>1. /\ pc = "accept" /\ pc' = "longitud" /\ aceptadas' = aceptadas + 1
      /\ aceptadas < Len(llegadas)
      /\ UNCHANGED <<caido, enRed, socket, cliente, llegadas, nombre, recursos_io, respuesta>>
  BY DEF Accept
<1>2. TypeOK /\ Cola /\ Listados /\ Respondidos /\ Bytes /\ NombreEntero
  BY DEF CadenasInv
<1>3. /\ llegadas \in Seq(Clientes) /\ aceptadas \in 0 .. Len(llegadas)
      /\ Len(llegadas) \in Nat /\ Len(recursos_io) \in Nat
      /\ aceptadas + 1 \in 1 .. Len(llegadas)
  BY <1>1, <1>2 DEF TypeOK
<1>4. TypeOK'
  BY <1>1, <1>2, <1>3 DEF TypeOK
<1>5. Cola' /\ Listados' /\ Respondidos' /\ NombreActual' /\ NombreEntero'
  BY <1>1, <1>2, <1>3 DEF Cola, Listados, Respondidos, Listado, NombreActual, NombreEntero
<1>6. Bytes'
  <2> SUFFICES ASSUME NEW c \in Clientes
               PROVE  SinLeer(c)' => SinLeer(c)
    BY <1>1, <1>2 DEF Bytes
  <2>1. \A k \in 1 .. aceptadas : k \in 1 .. aceptadas + 1 /\ k # aceptadas + 1
                                  /\ k \in 1 .. Len(llegadas)
    BY <1>3
  <2>2. CASE Actual' = c
    BY <1>1, <1>2, <1>3, <2>1, <2>2 DEF SinLeer, Actual, Cola
  <2>3. CASE Actual' # c
    BY <1>1, <2>1, <2>3 DEF SinLeer
  <2> QED BY <2>2, <2>3
<1> QED BY <1>4, <1>5, <1>6 DEF CadenasInv

\* recibir_cadena gives the name of the connection, or nobody's when its client
\* has ended without sending one.
LEMMA CadenasRecibir == ASSUME CadenasInv, RecibirCadena PROVE CadenasInv'
<1>1. /\ Actual \in Clientes /\ pc # "accept"
      /\ UNCHANGED <<caido, enRed, cliente, llegadas, aceptadas, recursos_io, respuesta>>
      /\ pc \in {"longitud", "texto"} /\ pc' \in {"texto", "responder"}
      /\ Actual' = Actual
  BY RecibirForma DEF RecibirCadena, Actual
<1>2. TypeOK /\ Cola /\ Listados /\ Respondidos /\ Bytes /\ NombreEntero
  BY DEF CadenasInv
<1>3. /\ enRed \in [Clientes -> Nat] /\ socket \in [Clientes -> Nat]
      /\ Largo[Actual] \in Nat \ {0} /\ Ancho \in Nat \ {0}
  BY <1>1, <1>2, Nombres DEF TypeOK
<1>4. /\ socket' \in [Clientes -> Nat] /\ nombre' \in Clientes \cup {Basura}
      /\ \A c \in Clientes : socket[c] = 0 => socket'[c] = 0
      /\ \A c \in Clientes : c # Actual => socket'[c] = socket[c]
      /\ pc' = "texto" => /\ pc = "longitud"
                          /\ socket'[Actual] = socket[Actual] - Ancho
                          /\ socket[Actual] >= Ancho
      /\ pc' = "responder" => /\ nombre' \in {Actual, Basura}
                              /\ nombre' = Basura => cliente[Actual] = "muerto"
  <2>1. CASE /\ pc = "longitud" /\ pc' = "texto" /\ UNCHANGED nombre
             /\ socket[Actual] >= Ancho
             /\ socket' = [socket EXCEPT ![Actual] = @ - Ancho]
    BY <1>1, <1>2, <1>3, <2>1 DEF TypeOK
  <2>2. CASE /\ pc = "longitud" /\ pc' = "responder" /\ nombre' = Basura
             /\ cliente[Actual] = "muerto" /\ UNCHANGED socket
    BY <1>1, <1>2, <1>3, <2>2 DEF TypeOK
  <2>3. CASE /\ pc = "texto" /\ pc' = "responder" /\ nombre' = Actual
             /\ socket[Actual] >= Largo[Actual]
             /\ socket' = [socket EXCEPT ![Actual] = @ - Largo[Actual]]
    BY <1>1, <1>2, <1>3, <2>3, Nombres DEF TypeOK
  <2> QED BY <2>1, <2>2, <2>3, RecibirForma
<1>5. TypeOK'
  BY <1>1, <1>2, <1>4 DEF TypeOK
<1>6. Cola' /\ Listados' /\ NombreEntero'
  BY <1>1, <1>2 DEF Cola, Listados, NombreEntero
<1>7. Respondidos'
  BY <1>1, <1>2 DEF Respondidos, Listado
<1>8. NombreActual'
  BY <1>1, <1>4 DEF NombreActual
<1>9. Bytes'
  <2> SUFFICES ASSUME NEW c \in Clientes
               PROVE  /\ cliente[c] \in {"afuera", "conectado"} =>
                            enRed[c] = 0 /\ socket'[c] = 0
                      /\ SinLeer(c)' =>
                            \/ enRed[c] + socket'[c] = Ancho + Largo[c]
                            \/ /\ enRed[c] = 0 /\ socket'[c] = 0
                               /\ cliente[c] \in {"afuera", "conectado", "muerto"}
                      /\ pc' = "texto" /\ Actual = c => enRed[c] + socket'[c] = Largo[c]
    BY <1>1 DEF Bytes
  <2>1. cliente[c] \in {"afuera", "conectado"} => enRed[c] = 0 /\ socket'[c] = 0
    BY <1>2, <1>4 DEF Bytes
  <2>2. SinLeer(c)' => SinLeer(c) /\ c # Actual
    <3>1. aceptadas \in 1 .. aceptadas /\ Actual = llegadas[aceptadas]
      BY <1>1, ActualHechos
    <3> QED BY <1>1, <3>1 DEF SinLeer
  <2>3. pc' = "texto" /\ Actual = c => enRed[c] + socket'[c] = Largo[c]
    <3>1. SUFFICES ASSUME pc' = "texto", Actual = c
                   PROVE  enRed[c] + socket'[c] = Largo[c]
      OBVIOUS
    <3>2. SinLeer(c) /\ socket'[c] = socket[c] - Ancho /\ socket[c] >= Ancho
      BY <1>4, <3>1 DEF SinLeer
    <3>3. enRed[c] + socket[c] = Ancho + Largo[c]
      BY <1>2, <1>3, <3>2 DEF Bytes
    <3>4. /\ enRed[c] \in Nat /\ socket[c] \in Nat /\ Ancho \in Nat
          /\ Largo[c] \in Nat
      BY <1>3, <3>1
    <3> QED BY <3>2, <3>3, <3>4
  <2>4. SinLeer(c) /\ c # Actual =>
            \/ enRed[c] + socket'[c] = Ancho + Largo[c]
            \/ /\ enRed[c] = 0 /\ socket'[c] = 0
               /\ cliente[c] \in {"afuera", "conectado", "muerto"}
    BY <1>2, <1>4 DEF Bytes
  <2> QED BY <2>1, <2>2, <2>3, <2>4
<1> QED BY <1>5, <1>6, <1>7, <1>8, <1>9 DEF CadenasInv

\* The answer goes to the connection at hand.
LEMMA CadenasEnviarOk == ASSUME CadenasInv, EnviarOk PROVE CadenasInv'
<1>1. /\ pc = "responder" /\ pc' = "agregar" /\ respuesta' = respuesta \cup {Actual}
      /\ UNCHANGED <<caido, enRed, socket, cliente, llegadas, aceptadas, nombre, recursos_io>>
      /\ Actual \in Clientes /\ Actual' = Actual
  BY ActualHechos DEF EnviarOk, Actual
<1>2. TypeOK'
  BY <1>1 DEF CadenasInv, TypeOK
<1>3. Cola' /\ Listados' /\ NombreEntero' /\ NombreActual'
  BY <1>1 DEF CadenasInv, Cola, Listados, NombreEntero, NombreActual
<1>4. Respondidos'
  BY <1>1 DEF CadenasInv, Respondidos, Listado
<1>5. Bytes'
  BY <1>1 DEF CadenasInv, Bytes, SinLeer
<1> QED BY <1>2, <1>3, <1>4, <1>5 DEF CadenasInv

\* list_add lists the connection at hand, after those accepted before it.
LEMMA CadenasAgregar == ASSUME CadenasInv, Agregar PROVE CadenasInv'
<1>1. /\ pc = "agregar" /\ pc' = "accept"
      /\ recursos_io' = Append(recursos_io, [socket |-> Actual, nombre_io |-> nombre])
      /\ UNCHANGED <<caido, enRed, socket, cliente, llegadas, aceptadas, nombre, respuesta>>
      /\ Actual' = Actual
  BY DEF Agregar, Actual
<1>2. TypeOK /\ Cola /\ Listados /\ Respondidos /\ Bytes /\ NombreEntero /\ NombreActual
  BY DEF CadenasInv
<1>3. /\ Actual \in Clientes /\ Actual = llegadas[aceptadas]
      /\ aceptadas = Len(recursos_io) + 1 /\ Len(recursos_io) \in Nat
  BY <1>1, <1>2, ActualHechos DEF TypeOK
<1>4. recursos_io' \in Seq([socket : Clientes, nombre_io : Clientes \cup {Basura}])
  BY <1>1, <1>2, <1>3 DEF TypeOK
<1>5. /\ Len(recursos_io') = Len(recursos_io) + 1
      /\ \A k \in 1 .. Len(recursos_io) : recursos_io'[k] = recursos_io[k]
      /\ recursos_io'[Len(recursos_io) + 1] = [socket |-> Actual, nombre_io |-> nombre]
      /\ \A k \in 1 .. Len(recursos_io') :
            k \in 1 .. Len(recursos_io) \/ k = Len(recursos_io) + 1
      /\ \A k \in 1 .. Len(recursos_io) : k \in 1 .. Len(recursos_io')
      /\ Len(recursos_io) + 1 \in 1 .. Len(recursos_io')
  BY <1>1, <1>2, <1>3 DEF TypeOK
<1>6. TypeOK'
  BY <1>1, <1>2, <1>4 DEF TypeOK
<1>7. Cola' /\ NombreActual'
  BY <1>1, <1>2 DEF Cola, NombreActual
<1>8. Listados'
  BY <1>1, <1>2, <1>3, <1>5 DEF Listados
<1>9. NombreEntero'
  BY <1>1, <1>2, <1>5 DEF NombreEntero, NombreActual
<1>10. Respondidos'
  <2>1. Listado(Actual)' /\ \A c : Listado(c) => Listado(c)'
    BY <1>1, <1>5 DEF Listado
  <2> QED BY <1>1, <1>2, <2>1 DEF Respondidos
<1>11. Bytes'
  BY <1>1, <1>2 DEF Bytes, SinLeer
<1> QED BY <1>6, <1>7, <1>8, <1>9, <1>10, <1>11 DEF CadenasInv

-----------------------------------------------------------------------------
(* The clients and the network *)

\* A client that goes on after connecting disturbs neither the queue nor the list.
LEMMA ClienteMarco ==
    ASSUME CadenasInv, NEW c \in Clientes, NEW hasta,
           cliente[c] \notin {"afuera", "muerto"},
           hasta \in {"espera", "aceptado", "rechazado", "muerto"},
           hasta = "aceptado" => c \in respuesta,
           cliente' = [cliente EXCEPT ![c] = hasta],
           UNCHANGED <<llegadas, varsAceptador>>
    PROVE  /\ cliente' \in [Clientes -> {"afuera", "conectado", "espera", "aceptado",
                                         "rechazado", "muerto"}]
           /\ Cola' /\ Listados' /\ Respondidos' /\ NombreActual' /\ NombreEntero'
<1>1. /\ TypeOK /\ Cola /\ Listados /\ Respondidos /\ NombreActual /\ NombreEntero
      /\ Actual' = Actual
  BY DEF CadenasInv, Actual
<1>2. /\ cliente'[c] = hasta
      /\ \A d \in Clientes : d # c => cliente'[d] = cliente[d]
      /\ \A d \in Clientes : cliente[d] = "muerto" => cliente'[d] = "muerto"
      /\ \A d \in Clientes : cliente[d] # "afuera" => cliente'[d] # "afuera"
  BY <1>1 DEF TypeOK
<1>3. cliente' \in [Clientes -> {"afuera", "conectado", "espera", "aceptado",
                                 "rechazado", "muerto"}]
  BY <1>1 DEF TypeOK
<1>4. Cola' /\ Listados'
  BY <1>1, <1>2 DEF Cola, Listados, TypeOK
<1>5. Respondidos'
  BY <1>1, <1>2 DEF Respondidos, Listado
<1>6. NombreActual'
  BY <1>1, <1>2, ActualHechos DEF NombreActual
<1>7. NombreEntero'
  <2>1. \A k \in 1 .. Len(recursos_io) : recursos_io[k].socket \in Clientes
    BY <1>1, EntradaTipos
  <2> QED BY <1>1, <1>2, <2>1 DEF NombreEntero
<1> QED BY <1>3, <1>4, <1>5, <1>6, <1>7

\* A connect queues a client that was not queued.
LEMMA CadenasConectar ==
    ASSUME CadenasInv, NEW c \in Clientes, Conectar(c) PROVE CadenasInv'
<1>1. /\ cliente[c] = "afuera"
      /\ UNCHANGED <<caido, enRed, socket, pc, aceptadas, nombre, recursos_io, respuesta>>
  BY DEF Conectar, Pasar
<1>2. TypeOK /\ Cola /\ Listados /\ Respondidos /\ Bytes /\ NombreEntero /\ NombreActual
  BY DEF CadenasInv
<1>3. /\ \A d \in Clientes : d # c => cliente'[d] = cliente[d]
      /\ cliente'[c] \in {"conectado", "muerto"}
      /\ cliente' \in [Clientes -> {"afuera", "conectado", "espera", "aceptado",
                                    "rechazado", "muerto"}]
  BY <1>2 DEF Conectar, Pasar, TypeOK
<1>4. /\ llegadas \in Seq(Clientes) /\ Len(llegadas) \in Nat
      /\ aceptadas \in 0 .. Len(llegadas)
  BY <1>2 DEF TypeOK
<1>5. /\ llegadas' \in Seq(Clientes) /\ Len(llegadas') \in Nat
      /\ Len(llegadas) <= Len(llegadas')
      /\ \A k \in 1 .. Len(llegadas) : llegadas'[k] = llegadas[k]
      /\ \A k \in 1 .. Len(llegadas') :
            \/ k \in 1 .. Len(llegadas)
            \/ k = Len(llegadas) + 1 /\ llegadas'[k] = c
  BY <1>4 DEF Conectar
<1>6. \A k \in 1 .. Len(llegadas) : llegadas[k] \in Clientes /\ llegadas[k] # c
  BY <1>1, <1>2, <1>4 DEF Cola
<1>7. TypeOK'
  BY <1>1, <1>2, <1>3, <1>4, <1>5 DEF TypeOK
<1>8. Cola'
  <2>1. \A k \in 1 .. Len(llegadas') : cliente'[llegadas'[k]] # "afuera"
    BY <1>2, <1>3, <1>5, <1>6 DEF Cola
  <2>2. \A j, k \in 1 .. Len(llegadas) : llegadas[j] = llegadas[k] => j = k
    BY <1>2 DEF Cola
  <2>3. \A j, k \in 1 .. Len(llegadas') : llegadas'[j] = llegadas'[k] => j = k
    BY <1>5, <1>6, <2>2
  <2> QED BY <2>1, <2>3 DEF Cola
<1>9. \A k \in 1 .. aceptadas : k \in 1 .. Len(llegadas) /\ llegadas'[k] = llegadas[k]
  BY <1>4, <1>5
<1>10. pc # "accept" => Actual' = Actual /\ Actual # c /\ Actual \in Clientes
  BY <1>1, <1>5, <1>6, ActualHechos DEF Actual
<1>11. Listados'
  <2>1. \A k \in 1 .. Len(recursos_io) : k \in 1 .. aceptadas
    BY <1>2, <1>4 DEF Listados, TypeOK
  <2> QED BY <1>1, <1>2, <1>9, <2>1 DEF Listados
<1>12. Respondidos'
  BY <1>1, <1>2, <1>3, <1>10 DEF Respondidos, Listado
<1>13. NombreActual' /\ NombreEntero'
  <2>1. \A k \in 1 .. Len(recursos_io) : recursos_io[k].socket \in Clientes
    BY <1>2, EntradaTipos
  <2> QED BY <1>1, <1>2, <1>3, <1>10, <2>1 DEF NombreActual, NombreEntero
<1>14. Bytes'
  <2>1. \A d \in Clientes : SinLeer(d)' => SinLeer(d)
    BY <1>1, <1>9, <1>10 DEF SinLeer
  <2>2. enRed[c] = 0 /\ socket[c] = 0
    BY <1>1, <1>2 DEF Bytes
  <2>3. ASSUME NEW d \in Clientes
        PROVE  /\ cliente'[d] \in {"afuera", "conectado"} => enRed[d] = 0 /\ socket[d] = 0
               /\ SinLeer(d)' =>
                     \/ enRed[d] + socket[d] = Ancho + Largo[d]
                     \/ /\ enRed[d] = 0 /\ socket[d] = 0
                        /\ cliente'[d] \in {"afuera", "conectado", "muerto"}
               /\ pc = "texto" /\ Actual' = d => enRed[d] + socket[d] = Largo[d]
    <3>1. CASE d = c
      BY <1>1, <1>3, <1>10, <2>2, <3>1
    <3>2. CASE d # c
      BY <1>1, <1>2, <1>3, <1>10, <2>1, <3>2 DEF Bytes
    <3> QED BY <3>1, <3>2
  <2> QED BY <1>1, <2>3 DEF Bytes
<1> QED BY <1>7, <1>8, <1>11, <1>12, <1>13, <1>14 DEF CadenasInv

\* A name is sent by a client of which nothing was read.
LEMMA CadenasEnviarNombre ==
    ASSUME CadenasInv, NEW c \in Clientes, EnviarNombre(c) PROVE CadenasInv'
<1>1. /\ cliente[c] = "conectado" /\ cliente' = [cliente EXCEPT ![c] = "espera"]
      /\ enRed' = [enRed EXCEPT ![c] = Ancho + Largo[c]]
      /\ UNCHANGED <<caido, socket, llegadas, varsAceptador>>
  BY DEF EnviarNombre, Pasar
<1>2. TypeOK /\ Bytes /\ Ancho \in Nat \ {0} /\ Largo[c] \in Nat \ {0}
  BY Nombres DEF CadenasInv
<1>3. /\ enRed'[c] = Ancho + Largo[c] /\ cliente'[c] = "espera"
      /\ \A d \in Clientes : d # c => enRed'[d] = enRed[d] /\ cliente'[d] = cliente[d]
      /\ enRed' \in [Clientes -> Nat]
  BY <1>1, <1>2 DEF TypeOK
<1>4. enRed[c] = 0 /\ socket[c] = 0
  BY <1>1, <1>2 DEF Bytes
<1>5. ~(pc = "texto" /\ Actual = c)
  BY <1>2, <1>4 DEF Bytes
<1>6. /\ cliente' \in [Clientes -> {"afuera", "conectado", "espera", "aceptado",
                                    "rechazado", "muerto"}]
      /\ Cola' /\ Listados' /\ Respondidos' /\ NombreActual' /\ NombreEntero'
  BY <1>1, ClienteMarco
<1>7. TypeOK'
  BY <1>1, <1>2, <1>3, <1>6 DEF TypeOK
<1>8. Bytes'
  <2>1. ASSUME NEW d \in Clientes
        PROVE  /\ cliente'[d] \in {"afuera", "conectado"} => enRed'[d] = 0 /\ socket[d] = 0
               /\ SinLeer(d) =>
                     \/ enRed'[d] + socket[d] = Ancho + Largo[d]
                     \/ /\ enRed'[d] = 0 /\ socket[d] = 0
                        /\ cliente'[d] \in {"afuera", "conectado", "muerto"}
               /\ pc = "texto" /\ Actual = d => enRed'[d] + socket[d] = Largo[d]
    <3>1. CASE d = c
      BY <1>2, <1>3, <1>4, <1>5, <3>1
    <3>2. CASE d # c
      BY <1>2, <1>3, <3>2 DEF Bytes
    <3> QED BY <3>1, <3>2
  <2> QED BY <1>1, <2>1 DEF Bytes, SinLeer, Actual
<1> QED BY <1>6, <1>7, <1>8 DEF CadenasInv

\* An answer, and a death, change what a client is, not what it sent.
LEMMA CadenasSeguir ==
    ASSUME CadenasInv, NEW c \in Clientes, RecibirRespuesta(c) \/ Morir(c)
    PROVE  CadenasInv'
<1>1. PICK hasta \in {"aceptado", "rechazado", "muerto"} :
         /\ cliente[c] \notin {"afuera", "muerto"}
         /\ hasta = "aceptado" => c \in respuesta
         /\ cliente[c] = "conectado" => hasta = "muerto"
         /\ cliente' = [cliente EXCEPT ![c] = hasta]
         /\ UNCHANGED <<caido, enRed, socket, llegadas, varsAceptador>>
  BY DEF RecibirRespuesta, Morir, Pasar
<1>2. TypeOK /\ Bytes
  BY DEF CadenasInv
<1>3. /\ cliente' \in [Clientes -> {"afuera", "conectado", "espera", "aceptado",
                                    "rechazado", "muerto"}]
      /\ Cola' /\ Listados' /\ Respondidos' /\ NombreActual' /\ NombreEntero'
  BY <1>1, ClienteMarco
<1>4. TypeOK'
  BY <1>1, <1>2, <1>3 DEF TypeOK
<1>5. \A d \in Clientes :
         /\ cliente'[d] \in {"afuera", "conectado"} => cliente'[d] = cliente[d]
         /\ cliente[d] \in {"afuera", "conectado", "muerto"} =>
               cliente'[d] \in {"afuera", "conectado", "muerto"}
  BY <1>1, <1>2 DEF TypeOK
<1>6. Bytes'
  BY <1>1, <1>2, <1>5 DEF Bytes, SinLeer, Actual
<1> QED BY <1>3, <1>4, <1>6 DEF CadenasInv

\* The network moves bytes and loses none.
LEMMA CadenasEntregar ==
    ASSUME CadenasInv, NEW c \in Clientes, Entregar(c) PROVE CadenasInv'
<1>1. PICK n \in 1 .. enRed[c] : /\ enRed' = [enRed EXCEPT ![c] = @ - n]
                                 /\ socket' = [socket EXCEPT ![c] = @ + n]
  BY DEF Entregar
<1>2. UNCHANGED <<caido, cliente, llegadas, pc, aceptadas, nombre, recursos_io, respuesta>>
  BY DEF Entregar
<1>3. /\ TypeOK /\ Bytes /\ enRed[c] \in Nat /\ socket[c] \in Nat /\ n \in Nat
      /\ n >= 1 /\ n <= enRed[c]
  BY DEF CadenasInv, TypeOK
<1>4. /\ enRed'[c] = enRed[c] - n /\ socket'[c] = socket[c] + n
      /\ \A d \in Clientes : d # c => enRed'[d] = enRed[d] /\ socket'[d] = socket[d]
      /\ enRed' \in [Clientes -> Nat] /\ socket' \in [Clientes -> Nat]
  BY <1>1, <1>3 DEF TypeOK
<1>5. TypeOK'
  BY <1>2, <1>3, <1>4 DEF TypeOK
<1>6. Cola' /\ Listados' /\ Respondidos' /\ NombreActual' /\ NombreEntero'
  BY <1>2 DEF CadenasInv, Cola, Listados, Respondidos, Listado, NombreActual,
     NombreEntero, Actual
<1>7. Bytes'
  <2>1. /\ enRed'[c] + socket'[c] = enRed[c] + socket[c]
        /\ ~(enRed[c] = 0)
    BY <1>3, <1>4
  <2>2. \A d \in Clientes :
           /\ enRed'[d] + socket'[d] = enRed[d] + socket[d]
           /\ enRed[d] = 0 => enRed'[d] = 0 /\ socket'[d] = socket[d]
    BY <1>4, <2>1
  <2> QED BY <1>2, <1>3, <2>2 DEF Bytes, SinLeer, Actual
<1> QED BY <1>5, <1>6, <1>7 DEF CadenasInv

-----------------------------------------------------------------------------
(* The theorems *)

\* CadenasInv is inductive.
LEMMA CadenasPaso == ASSUME CadenasInv, [Next]_vars PROVE CadenasInv'
<1>1. CASE UNCHANGED vars
  BY <1>1 DEF vars, CadenasInv, TypeOK, Cola, Listados, Respondidos, Listado, Bytes,
     SinLeer, NombreActual, NombreEntero, Actual
<1>2. CASE Caer
  BY <1>2 DEF Caer, CadenasInv, TypeOK, Cola, Listados, Respondidos, Listado, Bytes,
     SinLeer, NombreActual, NombreEntero, Actual
<1>3. CASE EsperarRecursosIo
  BY <1>3, CadenasAccept, CadenasRecibir, CadenasEnviarOk, CadenasAgregar
     DEF EsperarRecursosIo
<1>4. CASE \E c \in Clientes : Conectar(c) \/ HandshakeKernel(c) \/ Morir(c) \/ Entregar(c)
  BY <1>4, CadenasConectar, CadenasEnviarNombre, CadenasSeguir, CadenasEntregar
     DEF HandshakeKernel
<1> QED BY <1>1, <1>2, <1>3, <1>4 DEF Next

\* The invariant holds in every behaviour.
LEMMA CadenasSiempre == Spec => []CadenasInv
BY InitCadenas, CadenasPaso, PTL DEF Spec

\* Every variable keeps the values recurso.c and hello.c declare for it.
THEOREM TiposSiempre == Spec => []TypeOK
BY CadenasSiempre, PTL DEF CadenasInv

\* Whatever pieces a name arrives in, a resource has it whole, or has none and its
\* program had ended (recurso.c:12, mensaje_cadena.c:25-27).
THEOREM NombresSiempre == Spec => []NombreEntero
BY CadenasSiempre, PTL DEF CadenasInv

\* Who takes itself for accepted was answered, so it is listed or at hand, under a
\* name that is its own because it is alive.
LEMMA RespondidoEsListado == ASSUME CadenasInv PROVE AceptadoEsListado
<1> SUFFICES ASSUME NEW c \in Clientes, cliente[c] = "aceptado"
             PROVE  \/ \E k \in 1 .. Len(recursos_io) : recursos_io[k].nombre_io = c
                    \/ (pc = "agregar" /\ Actual = c /\ nombre = c)
  BY DEF AceptadoEsListado
<1>1. Listado(c) \/ (pc = "agregar" /\ Actual = c)
  BY DEF CadenasInv, Respondidos
<1>2. CASE Listado(c)
  BY <1>2 DEF Listado, CadenasInv, NombreEntero
<1>3. CASE pc = "agregar" /\ Actual = c
  BY <1>3 DEF CadenasInv, NombreActual
<1> QED BY <1>1, <1>2, <1>3

\* A client that was told "OK" is in the list, or is being put into it
\* (hello.c:15-17, recurso.c:15-18).
THEOREM AceptadosSiempre == Spec => []AceptadoEsListado
BY CadenasSiempre, RespondidoEsListado, PTL

\* Every step of the acceptor and its clients is a step of the channel whose
\* messages are the connections, or is not seen in it.
LEMMA PasoLista ==
    ASSUME CadenasInv, CadenasInv', [Next]_vars
    PROVE  Lista!Next \/ UNCHANGED Lista!vars
<1> DEFINE Lis == [k \in 1 .. Len(recursos_io) |-> recursos_io[k].socket]
<1>1. CASE UNCHANGED <<llegadas, recursos_io>>
  BY <1>1 DEF Lista!vars
<1>2. CASE Agregar
  <2>1. /\ recursos_io' = Append(recursos_io, [socket |-> Actual, nombre_io |-> nombre])
        /\ UNCHANGED llegadas /\ pc # "accept"
    BY <1>2 DEF Agregar
  <2>2. /\ aceptadas \in 1 .. Len(llegadas) /\ aceptadas = Len(recursos_io) + 1
        /\ Actual = llegadas[aceptadas]
        /\ Len(llegadas) \in Nat
    BY <2>1, ActualHechos DEF CadenasInv, TypeOK
  <2>3. /\ recursos_io \in Seq([socket : Clientes, nombre_io : Clientes \cup {Basura}])
         /\ Len(recursos_io) \in Nat
    BY DEF CadenasInv, TypeOK
  <2>4. Lis \in Seq(Clientes) /\ Len(Lis) = Len(recursos_io)
    <3>1. \A k \in 1 .. Len(recursos_io) : recursos_io[k].socket \in Clientes
      BY EntradaTipos DEF CadenasInv
    <3> QED BY <2>3, <3>1
  <2>5. Lis' = Append(Lis, Actual)
    <3>1. /\ Len(recursos_io') = Len(recursos_io) + 1
          /\ \A k \in 1 .. Len(recursos_io) : recursos_io'[k] = recursos_io[k]
          /\ recursos_io'[Len(recursos_io) + 1].socket = Actual
      BY <2>1, <2>3
    <3> QED BY <2>2, <2>3, <2>4, <3>1
  <2>6. Lista!Recibir
    BY <2>1, <2>2, <2>3, <2>4, <2>5 DEF Lista!Recibir
  <2> QED BY <2>6 DEF Lista!Next
<1>3. CASE \E c \in Clientes : Conectar(c)
  <2>1. PICK c \in Clientes : Conectar(c)
    BY <1>3
  <2>2. UNCHANGED recursos_io
    BY <2>1 DEF Conectar
  <2>3. CASE UNCHANGED llegadas
    BY <1>1, <2>2, <2>3
  <2>4. CASE llegadas' = Append(llegadas, c)
    <3>1. Lista!Enviar
      BY <2>2, <2>4 DEF Lista!Enviar
    <3> QED BY <3>1 DEF Lista!Next
  <2> QED BY <2>1, <2>3, <2>4 DEF Conectar
<1>4. CASE UNCHANGED vars
  BY <1>1, <1>4 DEF vars
<1>5. CASE Caer \/ Accept \/ RecibirCadena \/ EnviarOk
  BY <1>1, <1>5 DEF Caer, Accept, RecibirCadena, EnviarOk
<1>6. CASE \E c \in Clientes : HandshakeKernel(c) \/ Morir(c) \/ Entregar(c)
  BY <1>1, <1>6 DEF HandshakeKernel, EnviarNombre, RecibirRespuesta, Morir, Entregar
<1> QED BY <1>2, <1>3, <1>4, <1>5, <1>6 DEF Next, EsperarRecursosIo

\* The list is the channel that takes every connection, in the order of arrival
\* and once (recurso.c:6-19).
THEOREM ListaSiempre == Spec => ListaEnOrden
<1>1. Init => Lista!Init
  BY DEF Init, Lista!Init
<1>2. CadenasInv /\ CadenasInv' /\ [Next]_vars => [Lista!Next]_(Lista!vars)
  BY PasoLista
<1> QED BY <1>1, <1>2, CadenasSiempre, PTL DEF Spec, ListaEnOrden, Lista!Spec

=============================================================================
