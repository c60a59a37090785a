--------------------------- MODULE MemoriaPruebas ---------------------------
(***************************************************************************)
(* Proofs about Memoria, for any clients, packets and numbers: while a     *)
(* thread runs its number is its own, and so the table that all of them    *)
(* share is, for each client, a channel of its own.                        *)
(***************************************************************************)
EXTENDS Memoria, WellFoundedInduction, SequenceTheorems, TLAPS

\* A connection that waits has no thread, and waits once.
Esperan ==
    \A k \in 1 .. Len(pendientes) :
        /\ hilo[pendientes[k]] = "ninguno"
        /\ cliente[pendientes[k]] # "afuera"
        /\ \A j \in 1 .. Len(pendientes) : pendientes[j] = pendientes[k] => j = k

\* A program that has not connected has no thread.
SinConectar == \A c \in Clientes : cliente[c] = "afuera" => hilo[c] = "ninguno"

\* A thread has taken the first packets of its client, in order.
Tomados == \A c \in Clientes : recibidos[c] = [k \in 1 .. leidos[c] |-> <<c, k>>]

Inv == TypeOK /\ Esperan /\ SinConectar /\ NumerosPropios /\ Tomados

-----------------------------------------------------------------------------
(* Types *)

\* The lowest free number is free.
LEMMA MenorEsLibre == ASSUME Libres # {} PROVE MenorLibre \in Libres
<1> DEFINE R == OpToRel(<, Nat)
<1>1. Libres \subseteq Nat
  BY ClientesYNumeros DEF Libres
<1>2. IsWellFoundedOn(R, Nat)
  BY NatLessThanWellFounded
<1> HIDE DEF R
<1>3. PICK f \in Libres : \A g \in Libres : ~(<<g, f>> \in R)
  BY <1>1, <1>2, WFMin
<1>4. \A g \in Libres : ~(g < f)
  <2> SUFFICES ASSUME NEW g \in Libres, g < f PROVE FALSE
    OBVIOUS
  <2>1. <<g, f>> \in R
    BY <1>1 DEF R, OpToRel
  <2> QED
    BY <1>3, <2>1
<1>5. \E x \in Libres : \A g \in Libres : x <= g
  BY <1>1, <1>4
<1> QED
  BY <1>5 DEF MenorLibre

\* What a connection holds when it is taken by accept.
LEMMA AceptarForma ==
    ASSUME TypeOK, Aceptar
    PROVE  /\ pendientes # <<>> /\ Head(pendientes) \in Clientes
           /\ pendientes' = Tail(pendientes) /\ pendientes' \in Seq(Clientes)
           /\ MenorLibre \in Fds /\ tabla[MenorLibre] = Libre
           /\ tabla' = [tabla EXCEPT ![MenorLibre] = Head(pendientes)]
           /\ hilo' = [hilo EXCEPT ![Head(pendientes)] = "recibe"]
           /\ numero' = [numero EXCEPT ![Head(pendientes)] = MenorLibre]
<1>1. MenorLibre \in Libres
  BY MenorEsLibre DEF Aceptar
<1>2. pendientes \in Seq(Clientes) /\ pendientes # <<>>
  BY DEF TypeOK, Aceptar
<1>3. Head(pendientes) \in Clientes /\ Tail(pendientes) \in Seq(Clientes)
  BY <1>2
<1> QED
  BY <1>1, <1>2, <1>3 DEF Aceptar, Tomar, Libres

\* A thread that runs reads its own connection (memoria.c:33-37).
LEMMA RecibirForma ==
    ASSUME TypeOK, NumerosPropios, NEW c \in Clientes, RecibirPaquete(c)
    PROVE  /\ numero[c] \in Fds /\ tabla[numero[c]] = c
           /\ leidos[c] < enviados[c]
           /\ leidos' = [leidos EXCEPT ![c] = @ + 1]
           /\ recibidos' = [recibidos EXCEPT ![c] = Append(@, <<c, leidos[c] + 1>>)]
           /\ hilo[c] = "recibe"
           /\ \E h \in {"abre", "recibe"} : hilo' = [hilo EXCEPT ![c] = h]
           /\ caida' \in BOOLEAN
<1>1. numero[c] \in Fds /\ tabla[numero[c]] = c /\ hilo[c] = "recibe"
  BY DEF RecibirPaquete, NumerosPropios
<1>2. caida' \in BOOLEAN
  BY DEF RecibirPaquete
<1> QED
  BY <1>1, <1>2 DEF RecibirPaquete, HayPaquete, TrasPaquete

\* And so it ends with its own client (socket.c:262-266).
LEMMA FinForma ==
    ASSUME TypeOK, NumerosPropios, NEW c \in Clientes, RecibirFin(c)
    PROVE  /\ numero[c] \in Fds /\ tabla[numero[c]] = c
           /\ leidos[c] = enviados[c] /\ cliente[c] = "cerrado"
           /\ hilo[c] = "recibe" /\ hilo' = [hilo EXCEPT ![c] = "terminado"]
<1>1. numero[c] \in Fds /\ tabla[numero[c]] = c /\ hilo[c] = "recibe"
  BY DEF RecibirFin, NumerosPropios
<1> QED
  BY <1>1 DEF RecibirFin, HayFin

\* A client that connects waits at the end of the queue (socket.c:305-345).
LEMMA ConectarForma ==
    ASSUME TypeOK, NEW c \in Clientes, Conectar(c)
    PROVE  /\ cliente[c] = "afuera" /\ pendientes' \in Seq(Clientes)
           /\ \/ /\ cliente' = [cliente EXCEPT ![c] = "conectado"]
                 /\ Len(pendientes') = Len(pendientes) + 1
                 /\ \A k \in 1 .. Len(pendientes) : pendientes'[k] = pendientes[k]
                 /\ pendientes'[Len(pendientes) + 1] = c
              \/ /\ cliente' = [cliente EXCEPT ![c] = "cerrado"]
                 /\ pendientes' = pendientes
<1>1. \/ /\ cliente' = [cliente EXCEPT ![c] = "conectado"]
         /\ pendientes' = Append(pendientes, c)
      \/ /\ cliente' = [cliente EXCEPT ![c] = "cerrado"]
         /\ pendientes' = pendientes
  BY DEF Conectar
<1>2. \A q \in Seq(Clientes) :
         /\ Append(q, c) \in Seq(Clientes) /\ Len(Append(q, c)) = Len(q) + 1
         /\ \A k \in 1 .. Len(q) : Append(q, c)[k] = q[k]
         /\ Append(q, c)[Len(q) + 1] = c
  OBVIOUS
<1>3. pendientes \in Seq(Clientes) /\ cliente[c] = "afuera"
  BY DEF TypeOK, Conectar
<1> QED
  BY <1>1, <1>2, <1>3

\* Every step keeps the types (memoria.c:12-109, 157-180).
LEMMA PasoTipos == TypeOK /\ NumerosPropios /\ [Next]_vars => TypeOK'
<1> SUFFICES ASSUME TypeOK, NumerosPropios, [Next]_vars PROVE TypeOK'
  OBVIOUS
<1> DEFINE Cosas == Clientes \cup {Libre} \cup {Archivo(c) : c \in Clientes}
<1>0. \A f : Soltar(f) => tabla' \in [Fds -> Cosas]
  BY DEF Soltar, TypeOK
<1>1. CASE UNCHANGED vars
  BY <1>1 DEF vars, varsCliente, varsHilo, TypeOK
<1>2. CASE IniciarServidor
  BY <1>2 DEF IniciarServidor, varsCliente, varsHilo, TypeOK
<1>3. CASE Aceptar
  <2> DEFINE x == Head(pendientes)
             m == MenorLibre
  <2>0. /\ x \in Clientes /\ m \in Fds /\ pendientes' \in Seq(Clientes)
        /\ tabla' = [tabla EXCEPT ![m] = x]
        /\ hilo' = [hilo EXCEPT ![x] = "recibe"]
        /\ numero' = [numero EXCEPT ![x] = m]
    BY <1>3, AceptarForma
  <2> HIDE DEF x, m
  <2>1. tabla' \in [Fds -> Cosas]
    BY <2>0 DEF TypeOK
  <2>2. /\ hilo' \in [Clientes -> {"ninguno", "recibe", "abre", "lee", "terminado"}]
        /\ numero' \in [Clientes -> Fds \cup {Nada}] /\ pendientes' \in Seq(Clientes)
    BY <2>0 DEF TypeOK
  <2> QED
    BY <1>3, <2>1, <2>2 DEF Aceptar, varsCliente, TypeOK
<1>4. CASE AceptarSinNumero
  BY <1>4 DEF AceptarSinNumero, varsCliente, varsHilo, TypeOK
<1>5. CASE TerminarHueco
  BY <1>5 DEF TerminarHueco, varsCliente, varsHilo, TypeOK
<1>6. ASSUME NEW c \in Clientes, RecibirPaquete(c) PROVE TypeOK'
  <2>1. recibidos[c] \in Seq(Clientes \X Nat) /\ <<c, leidos[c] + 1>> \in Clientes \X Nat
    BY DEF TypeOK
  <2>2. Append(recibidos[c], <<c, leidos[c] + 1>>) \in Seq(Clientes \X Nat)
    BY <2>1
  <2>3. recibidos' \in [Clientes -> Seq(Clientes \X Nat)]
    <3> DEFINE r == Append(recibidos[c], <<c, leidos[c] + 1>>)
    <3>1. r \in Seq(Clientes \X Nat) /\ recibidos' = [recibidos EXCEPT ![c] = r]
      BY <1>6, <2>2, RecibirForma
    <3> HIDE DEF r
    <3> QED
      BY <3>1 DEF TypeOK
  <2>4. /\ leidos' \in [Clientes -> Nat]
        /\ hilo' \in [Clientes -> {"ninguno", "recibe", "abre", "lee", "terminado"}]
        /\ \A d \in Clientes : leidos'[d] <= enviados[d]
    <3>1. PICK h \in {"abre", "recibe"} : hilo' = [hilo EXCEPT ![c] = h]
      BY <1>6, RecibirForma
    <3>2. hilo' \in [Clientes -> {"ninguno", "recibe", "abre", "lee", "terminado"}]
      BY <3>1 DEF TypeOK
    <3>3. /\ leidos[c] \in Nat /\ enviados[c] \in Nat /\ leidos[c] < enviados[c]
          /\ leidos' = [leidos EXCEPT ![c] = @ + 1]
      BY <1>6, RecibirForma DEF TypeOK
    <3>4. leidos' \in [Clientes -> Nat] /\ \A d \in Clientes : leidos'[d] <= enviados[d]
      BY <3>3 DEF TypeOK
    <3> QED
      BY <3>2, <3>4
  <2>5. caida' \in BOOLEAN
    BY <1>6, RecibirForma
  <2> QED
    BY <1>6, <2>3, <2>4, <2>5 DEF RecibirPaquete, varsCliente, TypeOK
<1>7. ASSUME NEW c \in Clientes, RecibirFin(c) PROVE TypeOK'
  BY <1>0, <1>7 DEF RecibirFin, varsCliente, TypeOK
<1>8. ASSUME NEW c \in Clientes, AbrirArchivo(c) PROVE TypeOK'
  <2>1. CASE hilo' = [hilo EXCEPT ![c] = "recibe"]
             /\ caida' \in BOOLEAN /\ UNCHANGED <<tabla, archivo>>
    BY <1>8, <2>1 DEF AbrirArchivo, varsCliente, TypeOK
  <2>2. CASE /\ Libres # {} /\ Tomar(MenorLibre, Archivo(c))
             /\ archivo' = [archivo EXCEPT ![c] = MenorLibre]
             /\ hilo' = [hilo EXCEPT ![c] = "lee"] /\ UNCHANGED caida
    <3>1. MenorLibre \in Fds
      BY <2>2, MenorEsLibre DEF Libres
    <3>2. tabla' \in [Fds -> Cosas]
      BY <2>2, <3>1 DEF Tomar, TypeOK
    <3> QED
      BY <1>8, <2>2, <3>1, <3>2 DEF AbrirArchivo, varsCliente, TypeOK
  <2> QED
    BY <1>8, <2>1, <2>2 DEF AbrirArchivo
<1>9. ASSUME NEW c \in Clientes, CerrarArchivo(c) PROVE TypeOK'
  BY <1>0, <1>9 DEF CerrarArchivo, varsCliente, TypeOK
<1>10. ASSUME NEW c \in Clientes, Conectar(c) PROVE TypeOK'
  <2>1. pendientes' \in Seq(Clientes) /\ cliente' \in [Clientes -> {"afuera", "conectado", "cerrado"}]
    BY <1>10, ConectarForma DEF TypeOK
  <2> QED
    BY <1>10, <2>1 DEF Conectar, varsHilo, TypeOK
<1>11. ASSUME NEW c \in Clientes, Enviar(c) PROVE TypeOK'
  <2>1. Len(Programa[c]) \in Nat
    BY ClientesYNumeros
  <2>2. enviados' \in [Clientes -> Nat]
        /\ \A d \in Clientes : leidos[d] <= enviados'[d] /\ enviados'[d] <= Len(Programa[d])
    BY <1>11, <2>1 DEF Enviar, TypeOK
  <2> QED
    BY <1>11, <2>2 DEF Enviar, varsHilo, TypeOK
<1>12. ASSUME NEW c \in Clientes, Cerrar(c) PROVE TypeOK'
  BY <1>12 DEF Cerrar, varsHilo, TypeOK
<1> QED
  BY <1>1, <1>2, <1>3, <1>4, <1>5, <1>6, <1>7, <1>8, <1>9, <1>10, <1>11, <1>12
  DEF Next, Main, AtenderCliente

-----------------------------------------------------------------------------
(* The queue of the listening socket *)

\* What the tail of a queue holds.
LEMMA ColaForma ==
    ASSUME TypeOK, pendientes # <<>>
    PROVE  /\ Len(pendientes) \in Nat /\ Len(pendientes) > 0
           /\ Head(pendientes) = pendientes[1]
           /\ Len(Tail(pendientes)) = Len(pendientes) - 1
           /\ \A k \in 1 .. Len(pendientes) - 1 : Tail(pendientes)[k] = pendientes[k + 1]
<1>1. pendientes \in Seq(Clientes)
  BY DEF TypeOK
<1> QED
  BY <1>1

\* Steps of the threads that exist leave the queue and the other threads alone.
LEMMA PasoHilo ==
    ASSUME TypeOK, NumerosPropios, NEW c \in Clientes, AtenderCliente(c)
    PROVE  /\ hilo[c] \in {"recibe", "abre", "lee"} /\ hilo'[c] # "ninguno"
           /\ pendientes' = pendientes /\ cliente' = cliente /\ enviados' = enviados
           /\ \A d \in Clientes \ {c} : hilo'[d] = hilo[d] /\ archivo'[d] = archivo[d]
           /\ numero' = numero
<1>1. CASE RecibirPaquete(c)
  <2>1. PICK h \in {"abre", "recibe"} : hilo' = [hilo EXCEPT ![c] = h]
    BY <1>1, RecibirForma
  <2> QED
    BY <1>1, <2>1 DEF RecibirPaquete, varsCliente, TypeOK
<1>2. CASE RecibirFin(c)
  BY <1>2 DEF RecibirFin, varsCliente, TypeOK
<1>3. CASE AbrirArchivo(c)
  BY <1>3 DEF AbrirArchivo, varsCliente, TypeOK
<1>4. CASE CerrarArchivo(c)
  BY <1>4 DEF CerrarArchivo, varsCliente, TypeOK
<1> QED
  BY <1>1, <1>2, <1>3, <1>4 DEF AtenderCliente

\* Every step keeps the queue (memoria.c:27-44).
LEMMA PasoEsperan ==
    TypeOK /\ Esperan /\ SinConectar /\ NumerosPropios /\ [Next]_vars => Esperan' /\ SinConectar'
<1> SUFFICES ASSUME TypeOK, Esperan, SinConectar, NumerosPropios, [Next]_vars
             PROVE  Esperan' /\ SinConectar'
  OBVIOUS
<1>0. \A k \in 1 .. Len(pendientes) : pendientes[k] \in Clientes
  BY DEF TypeOK
<1>1. CASE UNCHANGED <<pendientes, hilo, cliente>>
  BY <1>1 DEF Esperan, SinConectar
<1>2. CASE Aceptar
  <2> DEFINE x == Head(pendientes)
  <2>1. /\ x \in Clientes /\ pendientes # <<>> /\ pendientes' = Tail(pendientes)
        /\ hilo' = [hilo EXCEPT ![x] = "recibe"] /\ cliente' = cliente
    BY <1>2, AceptarForma DEF Aceptar, varsCliente
  <2>2. /\ Len(pendientes) \in Nat /\ Len(pendientes) > 0 /\ x = pendientes[1]
        /\ Len(pendientes') = Len(pendientes) - 1
        /\ \A k \in 1 .. Len(pendientes') :
              pendientes'[k] = pendientes[k + 1] /\ k + 1 \in 1 .. Len(pendientes)
    BY <2>1, ColaForma
  <2> HIDE DEF x
  <2>3. cliente[x] # "afuera" /\ 1 \in 1 .. Len(pendientes)
    BY <2>2 DEF Esperan
  <2>4. SinConectar'
    BY <2>1, <2>3 DEF SinConectar, TypeOK
  <2>5. ASSUME NEW k \in 1 .. Len(pendientes')
        PROVE  /\ hilo'[pendientes'[k]] = "ninguno"
               /\ cliente'[pendientes'[k]] # "afuera"
               /\ \A j \in 1 .. Len(pendientes') : pendientes'[j] = pendientes'[k] => j = k
    <3>1. pendientes'[k] # x /\ pendientes'[k] \in Clientes
      <4>1. k + 1 # 1
        BY <2>2
      <4> QED
        BY <1>0, <2>2, <2>3, <4>1 DEF Esperan
    <3>2. hilo'[pendientes'[k]] = hilo[pendientes'[k]]
      BY <2>1, <3>1 DEF TypeOK
    <3>3. \A j \in 1 .. Len(pendientes') : pendientes'[j] = pendientes'[k] => j + 1 = k + 1
      <4> SUFFICES ASSUME NEW j \in 1 .. Len(pendientes'), pendientes'[j] = pendientes'[k]
                   PROVE  j + 1 = k + 1
        OBVIOUS
      <4>1. /\ j + 1 \in 1 .. Len(pendientes) /\ k + 1 \in 1 .. Len(pendientes)
            /\ pendientes[j + 1] = pendientes[k + 1]
        BY <2>2
      <4> QED
        BY <4>1 DEF Esperan
    <3>4. \A j \in 1 .. Len(pendientes') : j + 1 = k + 1 => j = k
      BY <2>2
    <3> QED
      BY <2>1, <2>2, <3>2, <3>3, <3>4 DEF Esperan
  <2> QED
    BY <2>4, <2>5 DEF Esperan
<1>3. ASSUME NEW c \in Clientes, AtenderCliente(c) PROVE Esperan' /\ SinConectar'
  <2>1. \A d \in Clientes : hilo[d] = "ninguno" => hilo'[d] = "ninguno"
    BY <1>3, PasoHilo
  <2>2. \A d \in Clientes : cliente[d] = "afuera" => hilo'[d] = "ninguno"
    BY <1>3, <2>1 DEF SinConectar
  <2> QED
    BY <1>0, <1>3, <2>1, <2>2, PasoHilo DEF Esperan, SinConectar
<1>4. ASSUME NEW c \in Clientes, Conectar(c) PROVE Esperan' /\ SinConectar'
  <2>1. hilo' = hilo /\ hilo[c] = "ninguno" /\ cliente[c] = "afuera"
    BY <1>4 DEF Conectar, varsHilo, SinConectar
  <2>2. \A k \in 1 .. Len(pendientes) : pendientes[k] # c
    BY <2>1 DEF Esperan
  <2>3. \A d \in Clientes : cliente'[d] # cliente[d] => d = c /\ cliente'[d] # "afuera"
    BY <1>4, ConectarForma DEF TypeOK
  <2>4. SinConectar'
    BY <2>1, <2>3 DEF SinConectar
  <2>5. CASE pendientes' = pendientes
    <3>1. \A d \in Clientes : cliente[d] # "afuera" => cliente'[d] # "afuera"
      BY <2>3
    <3>2. Esperan'
      BY <1>0, <2>1, <2>5, <3>1 DEF Esperan
    <3> QED
      BY <2>4, <3>2
  <2>6. CASE /\ cliente' = [cliente EXCEPT ![c] = "conectado"]
             /\ Len(pendientes') = Len(pendientes) + 1
             /\ \A k \in 1 .. Len(pendientes) : pendientes'[k] = pendientes[k]
             /\ pendientes'[Len(pendientes) + 1] = c
    <3>1. \A k \in 1 .. Len(pendientes') :
             k \in 1 .. Len(pendientes) \/ (k = Len(pendientes) + 1 /\ pendientes'[k] = c)
      <4>1. Len(pendientes) \in Nat
        BY DEF TypeOK
      <4> QED
        BY <2>6, <4>1
    <3>2. cliente'[c] # "afuera"
      BY <2>6 DEF TypeOK
    <3>3. Esperan'
      BY <1>0, <2>1, <2>2, <2>3, <2>6, <3>1, <3>2 DEF Esperan
    <3> QED
      BY <2>4, <3>3
  <2> QED
    BY <1>4, <2>4, <2>5, <2>6, ConectarForma
<1>5. ASSUME NEW c \in Clientes, Cerrar(c) PROVE Esperan' /\ SinConectar'
  <2>1. /\ hilo' = hilo /\ pendientes' = pendientes
        /\ \A d \in Clientes : cliente[d] # "afuera" <=> cliente'[d] # "afuera"
    BY <1>5 DEF Cerrar, varsHilo, TypeOK
  <2> QED
    BY <1>0, <2>1 DEF Esperan, SinConectar
<1>6. CASE IniciarServidor \/ AceptarSinNumero \/ TerminarHueco
  BY <1>1, <1>6 DEF IniciarServidor, AceptarSinNumero, TerminarHueco, varsCliente, varsHilo
<1>7. ASSUME NEW c \in Clientes, Enviar(c) PROVE Esperan' /\ SinConectar'
  BY <1>1, <1>7 DEF Enviar, varsHilo
<1>8. CASE UNCHANGED vars
  BY <1>1, <1>8 DEF vars, varsCliente, varsHilo
<1> QED
  BY <1>2, <1>3, <1>4, <1>5, <1>6, <1>7, <1>8 DEF Next, Main

-----------------------------------------------------------------------------
(* The numbers *)

\* What the table holds at a number tells whose it is.
LEMMA Distintos ==
    /\ \A c \in Clientes : c # Libre /\ Archivo(c) # Libre
    /\ \A c, d \in Clientes : Archivo(c) # d /\ (Archivo(c) = Archivo(d) => c = d)
<1>1. \A c, d \in Clientes : Archivo(c) = Archivo(d) => c = d
  BY DEF Archivo
<1> QED
  BY <1>1, ClientesYNumeros, ArchivosAparte

\* What one thread's numbers must denote.
Propio(c) ==
    /\ hilo[c] \in {"recibe", "abre", "lee"} => numero[c] \in Fds /\ tabla[numero[c]] = c
    /\ hilo[c] = "lee" => archivo[c] \in Fds /\ tabla[archivo[c]] = Archivo(c)

\* A thread that does not move keeps its numbers when the table changes only at
\* a number that holds nothing of its own.
LEMMA AjenoIgual ==
    ASSUME TypeOK, NEW d \in Clientes, Propio(d), NEW f \in Fds,
           tabla[f] \notin {d, Archivo(d)},
           \A g \in Fds \ {f} : tabla'[g] = tabla[g],
           hilo'[d] = hilo[d], numero'[d] = numero[d], archivo'[d] = archivo[d]
    PROVE  Propio(d)'
<1>1. Archivo(d)' = Archivo(d)
  BY DEF Archivo
<1>2. ASSUME hilo[d] \in {"recibe", "abre", "lee"}
      PROVE  numero'[d] \in Fds /\ tabla'[numero'[d]] = d
  BY <1>2 DEF Propio
<1>3. ASSUME hilo[d] = "lee"
      PROVE  archivo'[d] \in Fds /\ tabla'[archivo'[d]] = Archivo(d)
  BY <1>3 DEF Propio
<1> QED
  BY <1>1, <1>2, <1>3 DEF Propio

\* Every step keeps the numbers apart (memoria.c:31-37, 166, 177, socket.c:265).
LEMMA PasoNumeros ==
    TypeOK /\ Esperan /\ NumerosPropios /\ [Next]_vars => NumerosPropios'
<1> SUFFICES ASSUME TypeOK, Esperan, NumerosPropios, [Next]_vars PROVE NumerosPropios'
  OBVIOUS
<1>0. (NumerosPropios <=> \A d \in Clientes : Propio(d))
      /\ (NumerosPropios' <=> \A d \in Clientes : Propio(d)')
  BY DEF NumerosPropios, Propio
<1>1. CASE UNCHANGED <<hilo, numero, archivo, tabla>>
  BY <1>1 DEF NumerosPropios
<1>2. CASE Aceptar
  <2>1. PICK x \in Clientes, m \in Fds :
        /\ tabla[m] = Libre /\ tabla' = [tabla EXCEPT ![m] = x]
        /\ hilo' = [hilo EXCEPT ![x] = "recibe"]
        /\ numero' = [numero EXCEPT ![x] = m] /\ archivo' = archivo
    BY <1>2, AceptarForma DEF Aceptar
  <2>2. ASSUME NEW d \in Clientes, d # x PROVE Propio(d)'
    <3>1. tabla[m] \notin {d, Archivo(d)} /\ \A g \in Fds \ {m} : tabla'[g] = tabla[g]
      BY <2>1, Distintos DEF TypeOK
    <3>2. hilo'[d] = hilo[d] /\ numero'[d] = numero[d] /\ archivo'[d] = archivo[d]
      BY <2>1, <2>2 DEF TypeOK
    <3> QED
      BY <1>0, <2>1, <3>1, <3>2, AjenoIgual
  <2>3. Propio(x)'
    <3>1. hilo'[x] = "recibe" /\ numero'[x] = m /\ tabla'[m] = x
      BY <2>1 DEF TypeOK
    <3> QED
      BY <2>1, <3>1 DEF Propio
  <2> QED
    BY <1>0, <2>2, <2>3
<1>3. ASSUME NEW c \in Clientes, RecibirPaquete(c) PROVE NumerosPropios'
  <2>1. PICK h \in {"abre", "recibe"} : hilo' = [hilo EXCEPT ![c] = h]
    BY <1>3, RecibirForma
  <2>2. hilo[c] = "recibe" /\ UNCHANGED <<tabla, numero, archivo>>
    BY <1>3 DEF RecibirPaquete
  <2> QED
    BY <2>1, <2>2 DEF NumerosPropios, TypeOK
<1>4. ASSUME NEW c \in Clientes, RecibirFin(c) PROVE NumerosPropios'
  <2>1. /\ numero[c] \in Fds /\ tabla[numero[c]] = c
        /\ hilo' = [hilo EXCEPT ![c] = "terminado"]
        /\ Soltar(numero[c]) /\ UNCHANGED <<numero, archivo>>
    BY <1>4, FinForma DEF RecibirFin
  <2>2. ASSUME NEW d \in Clientes, d # c PROVE Propio(d)'
    <3>1. tabla[numero[c]] \notin {d, Archivo(d)}
          /\ \A g \in Fds \ {numero[c]} : tabla'[g] = tabla[g]
      BY <2>1, <2>2, Distintos DEF Soltar
    <3>2. hilo'[d] = hilo[d] /\ numero'[d] = numero[d] /\ archivo'[d] = archivo[d]
      BY <2>1, <2>2 DEF TypeOK
    <3> QED
      BY <1>0, <2>1, <3>1, <3>2, AjenoIgual
  <2>3. Propio(c)'
    BY <2>1 DEF Propio, TypeOK
  <2> QED
    BY <1>0, <2>2, <2>3
<1>5. ASSUME NEW c \in Clientes, AbrirArchivo(c) PROVE NumerosPropios'
  <2>1. hilo[c] = "abre" /\ numero' = numero /\ numero[c] \in Fds /\ tabla[numero[c]] = c
    BY <1>5 DEF AbrirArchivo, NumerosPropios
  <2>2. CASE hilo' = [hilo EXCEPT ![c] = "recibe"] /\ UNCHANGED <<tabla, archivo>>
    BY <2>1, <2>2 DEF NumerosPropios, TypeOK
  <2>3. CASE /\ Libres # {} /\ Tomar(MenorLibre, Archivo(c))
             /\ archivo' = [archivo EXCEPT ![c] = MenorLibre]
             /\ hilo' = [hilo EXCEPT ![c] = "lee"]
    <3> DEFINE m == MenorLibre
    <3>1. /\ m \in Fds /\ tabla[m] = Libre /\ tabla' = [tabla EXCEPT ![m] = Archivo(c)]
          /\ archivo' = [archivo EXCEPT ![c] = m]
      BY <2>3, MenorEsLibre DEF Libres, Tomar
    <3> HIDE DEF m
    <3>2. \A g \in Fds \ {m} : tabla'[g] = tabla[g]
      BY <3>1 DEF TypeOK
    <3>3. ASSUME NEW d \in Clientes, d # c PROVE Propio(d)'
      <4>1. tabla[m] \notin {d, Archivo(d)}
        BY <3>1, Distintos
      <4>2. hilo'[d] = hilo[d] /\ numero'[d] = numero[d] /\ archivo'[d] = archivo[d]
        BY <2>1, <2>3, <3>1, <3>3 DEF TypeOK
      <4> QED
        BY <1>0, <3>1, <3>2, <4>1, <4>2, AjenoIgual
    <3>4. numero[c] # m
      BY <2>1, <3>1, Distintos
    <3>5. /\ tabla'[numero[c]] = c /\ tabla'[m] = Archivo(c) /\ Archivo(c)' = Archivo(c)
          /\ archivo'[c] = m
      BY <2>1, <3>1, <3>2, <3>4 DEF TypeOK, Archivo
    <3>6. Propio(c)'
      BY <2>1, <3>1, <3>5 DEF Propio
    <3> QED
      BY <1>0, <3>3, <3>6
  <2> QED
    BY <1>5, <2>2, <2>3 DEF AbrirArchivo
<1>6. ASSUME NEW c \in Clientes, CerrarArchivo(c) PROVE NumerosPropios'
  <2>1. /\ hilo[c] = "lee" /\ Soltar(archivo[c]) /\ UNCHANGED <<numero, archivo>>
        /\ hilo' = [hilo EXCEPT ![c] = "recibe"]
    BY <1>6 DEF CerrarArchivo
  <2>2. /\ archivo[c] \in Fds /\ tabla[archivo[c]] = Archivo(c)
        /\ numero[c] \in Fds /\ tabla[numero[c]] = c
    BY <2>1 DEF NumerosPropios
  <2>3. \A g \in Fds \ {archivo[c]} : tabla'[g] = tabla[g]
    BY <2>1 DEF Soltar
  <2>4. ASSUME NEW d \in Clientes, d # c PROVE Propio(d)'
    <3>1. tabla[archivo[c]] \notin {d, Archivo(d)}
      BY <2>2, <2>4, Distintos
    <3>2. hilo'[d] = hilo[d] /\ numero'[d] = numero[d] /\ archivo'[d] = archivo[d]
      BY <2>1, <2>4 DEF TypeOK
    <3> QED
      BY <1>0, <2>2, <2>3, <3>1, <3>2, AjenoIgual
  <2>5. Propio(c)'
    <3>1. numero[c] # archivo[c]
      BY <2>2, Distintos
    <3>2. tabla'[numero[c]] = c /\ hilo'[c] = "recibe"
      BY <2>1, <2>2, <2>3, <3>1 DEF TypeOK
    <3> QED
      BY <2>1, <2>2, <3>2 DEF Propio
  <2> QED
    BY <1>0, <2>4, <2>5
<1>7. CASE IniciarServidor \/ AceptarSinNumero \/ TerminarHueco
  BY <1>1, <1>7 DEF IniciarServidor, AceptarSinNumero, TerminarHueco, varsCliente, varsHilo
<1>8. ASSUME NEW c \in Clientes, Conectar(c) \/ Enviar(c) \/ Cerrar(c) PROVE NumerosPropios'
  BY <1>1, <1>8 DEF Conectar, Enviar, Cerrar, varsHilo
<1>9. CASE UNCHANGED vars
  BY <1>1, <1>9 DEF vars, varsHilo
<1> QED
  BY <1>2, <1>3, <1>4, <1>5, <1>6, <1>7, <1>8, <1>9 DEF Next, Main, AtenderCliente

-----------------------------------------------------------------------------
(* What each thread takes *)

\* Appending the next packet.
LEMMA UnoMas ==
    ASSUME NEW c, NEW n \in Nat
    PROVE  Append([k \in 1 .. n |-> <<c, k>>], <<c, n + 1>>) = [k \in 1 .. n + 1 |-> <<c, k>>]
<1> DEFINE s == [k \in 1 .. n |-> <<c, k>>]
           u == [k \in 1 .. n + 1 |-> <<c, k>>]
           S == {c} \X Nat
<1>1. s \in Seq(S) /\ u \in Seq(S) /\ Len(s) = n /\ Len(u) = n + 1 /\ <<c, n + 1>> \in S
  BY SMTT(30)
<1>2. /\ Append(s, <<c, n + 1>>) \in Seq(S) /\ Len(Append(s, <<c, n + 1>>)) = Len(u)
      /\ \A k \in 1 .. n : Append(s, <<c, n + 1>>)[k] = s[k]
      /\ Append(s, <<c, n + 1>>)[n + 1] = <<c, n + 1>>
  BY <1>1
<1>3. \A k \in 1 .. n + 1 : Append(s, <<c, n + 1>>)[k] = u[k]
  <2> SUFFICES ASSUME NEW k \in 1 .. n + 1 PROVE Append(s, <<c, n + 1>>)[k] = u[k]
    OBVIOUS
  <2>1. k \in 1 .. n \/ k = n + 1
    OBVIOUS
  <2> QED
    BY <1>2, <2>1
<1> HIDE DEF s, u, S
<1>4. Append(s, <<c, n + 1>>) = u
  BY <1>1, <1>2, <1>3, SeqEqual
<1> QED
  BY <1>4 DEF s, u

\* Every step keeps them (memoria.c:54-109).
LEMMA PasoTomados ==
    TypeOK /\ NumerosPropios /\ Tomados /\ [Next]_vars => Tomados'
<1> SUFFICES ASSUME TypeOK, NumerosPropios, Tomados, [Next]_vars PROVE Tomados'
  OBVIOUS
<1>1. CASE UNCHANGED <<leidos, recibidos>>
  BY <1>1 DEF Tomados
<1>2. ASSUME NEW c \in Clientes, RecibirPaquete(c) PROVE Tomados'
  <2>1. /\ leidos' = [leidos EXCEPT ![c] = @ + 1] /\ leidos[c] \in Nat
        /\ recibidos' = [recibidos EXCEPT ![c] = Append(@, <<c, leidos[c] + 1>>)]
    BY <1>2, RecibirForma DEF TypeOK
  <2>2. Append(recibidos[c], <<c, leidos[c] + 1>>) = [k \in 1 .. leidos[c] + 1 |-> <<c, k>>]
    <3>1. Append([k \in 1 .. leidos[c] |-> <<c, k>>], <<c, leidos[c] + 1>>)
          = [k \in 1 .. leidos[c] + 1 |-> <<c, k>>]
      BY <2>1, UnoMas
    <3>2. recibidos[c] = [k \in 1 .. leidos[c] |-> <<c, k>>]
      BY DEF Tomados
    <3> QED
      BY <3>1, <3>2, Zenon
  <2>3. recibidos'[c] = [k \in 1 .. leidos'[c] |-> <<c, k>>]
    BY <2>1, <2>2 DEF TypeOK
  <2>4. \A d \in Clientes \ {c} : recibidos'[d] = recibidos[d] /\ leidos'[d] = leidos[d]
    BY <2>1 DEF TypeOK
  <2> QED
    BY <2>3, <2>4 DEF Tomados
<1>3. CASE \/ IniciarServidor \/ Aceptar \/ AceptarSinNumero \/ TerminarHueco
           \/ \E c \in Clientes : \/ RecibirFin(c) \/ AbrirArchivo(c) \/ CerrarArchivo(c)
                                  \/ Conectar(c) \/ Enviar(c) \/ Cerrar(c)
  BY <1>1, <1>3 DEF IniciarServidor, Aceptar, AceptarSinNumero, TerminarHueco, RecibirFin,
     AbrirArchivo, CerrarArchivo, Conectar, Enviar, Cerrar, varsHilo
<1>4. CASE UNCHANGED vars
  BY <1>1, <1>4 DEF vars, varsHilo
<1> QED
  BY <1>2, <1>3, <1>4 DEF Next, Main, AtenderCliente

-----------------------------------------------------------------------------
(* The theorems *)

\* The server starts with all of it.
LEMMA InvAlPrincipio == Init => Inv
<1> SUFFICES ASSUME Init PROVE Inv
  OBVIOUS
<1>1. \A c \in Clientes : Len(Programa[c]) \in Nat
  BY ClientesYNumeros
<1>2. TypeOK
  <2>1. /\ \A c \in Clientes : leidos[c] = 0 /\ enviados[c] = 0
        /\ enviados \in [Clientes -> Nat] /\ leidos \in [Clientes -> Nat]
    BY DEF Init
  <2>2. \A c \in Clientes : leidos[c] <= enviados[c] /\ enviados[c] <= Len(Programa[c])
    <3> SUFFICES ASSUME NEW c \in Clientes
                 PROVE  leidos[c] <= enviados[c] /\ enviados[c] <= Len(Programa[c])
      OBVIOUS
    <3>1. \A n \in Nat : 0 <= n
      OBVIOUS
    <3> QED
      BY <1>1, <2>1, <3>1, Zenon
  <2>3. recibidos \in [Clientes -> Seq(Clientes \X Nat)] /\ pendientes \in Seq(Clientes)
    <3>1. <<>> \in Seq(Clientes \X Nat) /\ <<>> \in Seq(Clientes)
      OBVIOUS
    <3> QED
      BY <3>1 DEF Init
  <2>4. /\ tabla \in [Fds -> Clientes \cup {Libre} \cup {Archivo(c) : c \in Clientes}]
        /\ numero \in [Clientes -> Fds \cup {Nada}] /\ archivo \in [Clientes -> Fds \cup {Nada}]
    BY DEF Init
  <2>5. /\ escucha \in BOOLEAN /\ caida \in BOOLEAN /\ huecos \in Nat
        /\ cliente \in [Clientes -> {"afuera", "conectado", "cerrado"}]
        /\ hilo \in [Clientes -> {"ninguno", "recibe", "abre", "lee", "terminado"}]
    BY DEF Init
  <2> QED
    BY <2>1, <2>2, <2>3, <2>4, <2>5 DEF TypeOK
<1>3. \A c \in Clientes : recibidos[c] = [k \in 1 .. leidos[c] |-> <<c, k>>]
  <2> SUFFICES ASSUME NEW c \in Clientes PROVE recibidos[c] = [k \in 1 .. leidos[c] |-> <<c, k>>]
    OBVIOUS
  <2>1. recibidos[c] = <<>> /\ leidos[c] = 0
    BY DEF Init
  <2>2. [k \in 1 .. 0 |-> <<c, k>>] = <<>>
    OBVIOUS
  <2> QED
    BY <2>1, <2>2
<1> QED
  BY <1>2, <1>3 DEF Init, Inv, Esperan, SinConectar, NumerosPropios, Tomados

\* Whatever the clients send and whenever they go, all of it holds for ever.
THEOREM InvSiempre == Spec => []Inv
<1>1. Inv /\ [Next]_vars => Inv'
  BY PasoTipos, PasoEsperan, PasoNumeros, PasoTomados DEF Inv
<1> QED
  BY <1>1, InvAlPrincipio, PTL DEF Spec

\* The types of the server's variables (memoria.c:12-109).
THEOREM TiposSiempre == Spec => []TypeOK
<1>1. Inv => TypeOK
  BY DEF Inv
<1> QED
  BY <1>1, InvSiempre, PTL

\* No thread ever reads, or closes, what belongs to another (memoria.c:31-37,
\* 166, 177, socket.c:265), for any number of clients, packets and descriptors.
THEOREM NumerosSiempre == Spec => []NumerosPropios
<1>1. Inv => NumerosPropios
  BY DEF Inv
<1> QED
  BY <1>1, InvSiempre, PTL

-----------------------------------------------------------------------------
(* The server implements, for each client, a channel of its own *)

\* A step that neither sends, takes, closes nor ends for a client is a stutter
\* of its channel.
LEMMA Quieto ==
    ASSUME NEW c \in Clientes,
           enviados'[c] = enviados[c], recibidos'[c] = recibidos[c],
           cliente'[c] = "cerrado" <=> cliente[c] = "cerrado",
           hilo'[c] = "terminado" <=> hilo[c] = "terminado"
    PROVE  [Promesa(c)!Next]_(Promesa(c)!vars)
BY DEF Promesa!vars

\* The lengths of what was sent and taken.
LEMMA Largos ==
    ASSUME Inv, NEW c \in Clientes
    PROVE  /\ Len([k \in 1 .. enviados[c] |-> <<c, k>>]) = enviados[c]
           /\ Len(recibidos[c]) = leidos[c]
<1>1. \A n \in Nat : Len([k \in 1 .. n |-> <<c, k>>]) = n
  OBVIOUS
<1>2. enviados[c] \in Nat /\ leidos[c] \in Nat /\ recibidos[c] = [k \in 1 .. leidos[c] |-> <<c, k>>]
  BY DEF Inv, TypeOK, Tomados
<1> QED
  BY <1>1, <1>2

\* Every step is, for each client, one of its channel or a stutter (memoria.c:54-109).
LEMMA PasoPromesa ==
    ASSUME Inv, [Next]_vars, NEW c \in Clientes
    PROVE  [Promesa(c)!Next]_(Promesa(c)!vars)
<1> USE DEF Inv
<1>1. CASE UNCHANGED <<varsCliente, varsHilo>>
  BY <1>1, Quieto DEF varsCliente, varsHilo
<1>2. CASE IniciarServidor \/ AceptarSinNumero \/ TerminarHueco \/ UNCHANGED vars
  BY <1>1, <1>2 DEF IniciarServidor, AceptarSinNumero, TerminarHueco, vars
<1>3. CASE Aceptar
  <2>1. PICK x \in Clientes : hilo' = [hilo EXCEPT ![x] = "recibe"] /\ hilo[x] = "ninguno"
    <3>1. Head(pendientes) \in Clientes /\ hilo' = [hilo EXCEPT ![Head(pendientes)] = "recibe"]
      BY <1>3, AceptarForma
    <3>2. hilo[Head(pendientes)] = "ninguno"
      BY <1>3, AceptarForma, ColaForma DEF Esperan
    <3> QED
      BY <3>1, <3>2
  <2>2. hilo'[c] = "terminado" <=> hilo[c] = "terminado"
    BY <2>1 DEF TypeOK
  <2> QED
    BY <1>3, <2>2, Quieto DEF Aceptar, varsCliente
<1>4. ASSUME NEW d \in Clientes, d # c, AtenderCliente(d)
      PROVE  [Promesa(c)!Next]_(Promesa(c)!vars)
  <2>1. recibidos'[c] = recibidos[c]
    <3>1. CASE RecibirPaquete(d)
      BY <1>4, <3>1, RecibirForma DEF TypeOK
    <3>2. CASE ~RecibirPaquete(d)
      BY <1>4, <3>2 DEF AtenderCliente, RecibirFin, AbrirArchivo, CerrarArchivo
    <3> QED
      BY <3>1, <3>2
  <2> QED
    BY <1>4, <2>1, PasoHilo, Quieto
<1>5. CASE RecibirPaquete(c)
  <2>1. /\ hilo[c] = "recibe" /\ leidos[c] < enviados[c]
        /\ recibidos'[c] = Append(recibidos[c], <<c, leidos[c] + 1>>)
        /\ enviados' = enviados /\ cliente' = cliente
    BY <1>5, RecibirForma DEF TypeOK, RecibirPaquete, varsCliente
  <2>2. hilo'[c] # "terminado"
    <3>1. PICK h \in {"abre", "recibe"} : hilo' = [hilo EXCEPT ![c] = h]
      BY <1>5, RecibirForma
    <3> QED
      BY <3>1 DEF TypeOK
  <2>3. [k \in 1 .. enviados[c] |-> <<c, k>>][leidos[c] + 1] = <<c, leidos[c] + 1>>
    BY <2>1 DEF TypeOK
  <2>4. Promesa(c)!Recibir
    BY <2>1, <2>2, <2>3, Largos DEF Promesa!Recibir
  <2> QED
    BY <2>4 DEF Promesa!Next
<1>6. CASE RecibirFin(c)
  <2>1. /\ hilo[c] = "recibe" /\ hilo'[c] = "terminado" /\ leidos[c] = enviados[c]
        /\ cliente[c] = "cerrado" /\ UNCHANGED <<recibidos, varsCliente>>
    BY <1>6, FinForma DEF TypeOK, RecibirFin
  <2>2. recibidos[c] = [k \in 1 .. enviados[c] |-> <<c, k>>]
    BY <2>1 DEF Tomados
  <2>3. Promesa(c)!Terminar
    BY <2>1, <2>2 DEF Promesa!Terminar, varsCliente
  <2> QED
    BY <2>3 DEF Promesa!Next
<1>7. CASE AbrirArchivo(c) \/ CerrarArchivo(c)
  <2>1. hilo[c] \in {"abre", "lee"} /\ hilo'[c] \in {"recibe", "lee"}
    BY <1>7 DEF AbrirArchivo, CerrarArchivo, TypeOK
  <2> QED
    BY <1>7, <2>1, Quieto DEF AbrirArchivo, CerrarArchivo, varsCliente
<1>8. ASSUME NEW d \in Clientes, Conectar(d) PROVE [Promesa(c)!Next]_(Promesa(c)!vars)
  <2>1. UNCHANGED <<enviados, recibidos, hilo>> /\ cliente[d] = "afuera"
    BY <1>8 DEF Conectar, varsHilo
  <2>2. \/ cliente' = [cliente EXCEPT ![d] = "conectado"]
        \/ cliente' = [cliente EXCEPT ![d] = "cerrado"]
    BY <1>8, ConectarForma
  <2>3. CASE cliente'[c] = "cerrado"
    BY <2>1, <2>3 DEF Promesa!Next, Promesa!Cerrar
  <2>4. CASE cliente'[c] # "cerrado"
    <3>1. cliente[c] # "cerrado"
      BY <2>1, <2>2, <2>4 DEF TypeOK
    <3> QED
      BY <2>1, <2>4, <3>1, Quieto
  <2> QED
    BY <2>3, <2>4
<1>9. ASSUME NEW d \in Clientes, Cerrar(d) PROVE [Promesa(c)!Next]_(Promesa(c)!vars)
  <2>1. UNCHANGED <<enviados, recibidos, hilo>> /\ cliente' = [cliente EXCEPT ![d] = "cerrado"]
    BY <1>9 DEF Cerrar, varsHilo
  <2>2. CASE d = c
    <3>1. cliente'[c] = "cerrado"
      BY <2>1, <2>2 DEF TypeOK
    <3> QED
      BY <2>1, <3>1 DEF Promesa!Next, Promesa!Cerrar
  <2>3. CASE d # c
    <3>1. cliente'[c] = cliente[c]
      BY <2>1, <2>3 DEF TypeOK
    <3> QED
      BY <2>1, <3>1, Quieto
  <2> QED
    BY <2>2, <2>3
<1>10. ASSUME NEW d \in Clientes, Enviar(d) PROVE [Promesa(c)!Next]_(Promesa(c)!vars)
  <2>1. /\ UNCHANGED <<cliente, recibidos, hilo>> /\ enviados' = [enviados EXCEPT ![d] = @ + 1]
        /\ cliente[d] = "conectado" /\ enviados[d] < Len(Programa[d])
    BY <1>10 DEF Enviar, varsHilo
  <2>2. CASE d = c
    <3>1. enviados[c] \in Nat /\ enviados'[c] = enviados[c] + 1 /\ Len(Programa[c]) \in Nat
      BY <2>1, <2>2, ClientesYNumeros DEF TypeOK
    <3>2. [k \in 1 .. enviados'[c] |-> <<c, k>>]
          = Append([k \in 1 .. enviados[c] |-> <<c, k>>], <<c, enviados[c] + 1>>)
      <4>1. [k \in 1 .. enviados[c] + 1 |-> <<c, k>>]
            = Append([k \in 1 .. enviados[c] |-> <<c, k>>], <<c, enviados[c] + 1>>)
        BY <3>1, UnoMas
      <4> QED
        BY <3>1, <4>1, Zenon
    <3>3. <<c, enviados[c] + 1>> \in {c} \X (1 .. Len(Programa[c]))
      BY <2>1, <2>2, <3>1
    <3>4. Promesa(c)!Enviar
      BY <2>1, <2>2, <3>2, <3>3, Zenon DEF Promesa!Enviar
    <3> QED
      BY <3>4 DEF Promesa!Next
  <2>3. CASE d # c
    <3>1. enviados'[c] = enviados[c]
      BY <2>1, <2>3 DEF TypeOK
    <3> QED
      BY <2>1, <3>1, Quieto
  <2> QED
    BY <2>2, <2>3
<1> QED
  BY <1>2, <1>3, <1>4, <1>5, <1>6, <1>7, <1>8, <1>9, <1>10 DEF Next, Main, AtenderCliente

\* The table, the files and the other threads never come between a client and
\* its thread: each pair keeps the promise of Canal (memoria.c:30-46, 54-109).
THEOREM CanalesSiempre == Spec => ImplementaCanales
<1>1. ASSUME Init PROVE \A c \in Clientes : Promesa(c)!Init
  <2> SUFFICES ASSUME NEW c \in Clientes PROVE Promesa(c)!Init
    OBVIOUS
  <2>1. [k \in 1 .. 0 |-> <<c, k>>] = <<>>
    OBVIOUS
  <2>2. enviados[c] = 0 /\ recibidos[c] = <<>> /\ cliente[c] = "afuera" /\ hilo[c] = "ninguno"
    BY <1>1 DEF Init
  <2> QED
    BY <2>1, <2>2 DEF Promesa!Init
<1>2. Inv /\ [Next]_vars => [\A c \in Clientes : [Promesa(c)!Next]_(Promesa(c)!vars)]_vars
  BY PasoPromesa
<1> QED
  BY <1>1, <1>2, InvSiempre, PTL DEF Spec, ImplementaCanales

=============================================================================
