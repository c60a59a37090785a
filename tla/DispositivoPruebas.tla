------------------------- MODULE DispositivoPruebas -------------------------
(***************************************************************************)
(* Proofs about DispositivoIO, for any requests and any cuts of the        *)
(* network: what the device has not read yet are the bytes of the requests *)
(* it has not served, and so it serves them as they were sent; and its     *)
(* answers are nothing but zeros, none of which is taken for the end.      *)
(***************************************************************************)
EXTENDS DispositivoIO, ProtocoloPruebas

USE DEF ida, vuelta, varsIo

\* The k-th number that was sent, and how many of them the device has read.
Enviado(k) == IF k % 2 = 1 THEN pedidos[(k + 1) \div 2].pid ELSE pedidos[k \div 2].tiempo
Leidos == 2 * Len(atendidos) + (IF io = "tiempo" THEN 1 ELSE 0)

\* The others.
Faltan == [j \in 1 .. 2 * Len(pedidos) - Leidos |-> Enviado(Leidos + j)]

\* Until a recv takes a part of a number, they are what is in the connection.
EnCamino ==
    ~roto /\ ~Termino =>
        /\ Leidos <= 2 * Len(pedidos)
        /\ Escrito(socket \o enRed, Faltan)

\* The pid that was read is that of the request being taken.
PidLeido ==
    ~roto /\ io = "tiempo" => pid = EnBytes(pedidos[Len(atendidos) + 1].pid)

\* The requests taken are the first ones sent.
Servidos ==
    ~roto =>
        /\ Len(atendidos) <= Len(pedidos)
        /\ \A k \in 1 .. Len(atendidos) :
              atendidos[k] = [pid |-> pedidos[k].pid, tiempo |-> pedidos[k].tiempo,
                              dormido |-> Dormido(pedidos[k].tiempo)]

\* The bytes of the answers.
SoloCeros == enVuelta \in Seq({0}) /\ avisos \in Seq({0})

DispositivoInv ==
    /\ TypeOK
    /\ SoloCeros /\ AtiendeMientrasVive
    /\ EnCamino /\ PidLeido /\ Servidos

-----------------------------------------------------------------------------
(* Types *)

\* What a uint32_t holds, and the numbers of a request with it.
LEMMA MedidasForma == Limite \in Nat /\ Limite > 0 /\ Pids \subseteq Nat /\ Tiempos \subseteq Nat
  BY PesoDef, Anchos, Medidas DEF Limite

\* A stream of bytes of some kind is still one when part of another arrives.
LEMMA Partir ==
    ASSUME NEW S, NEW a \in Seq(S), NEW b \in Seq(S), NEW n \in 1 .. Len(b)
    PROVE  a \o SubSeq(b, 1, n) \in Seq(S) /\ SubSeq(b, n + 1, Len(b)) \in Seq(S)
<1>1. SubSeq(b, 1, n) \in Seq(S) /\ SubSeq(b, n + 1, Len(b)) \in Seq(S)
  OBVIOUS
<1> DEFINE c == SubSeq(b, 1, n)
<1> HIDE DEF c
<1>2. c \in Seq(S)
  BY <1>1 DEF c
<1>3. a \o c \in Seq(S)
  BY <1>2
<1> QED
  BY <1>1, <1>3 DEF c

\* And when a recv takes part of it.
LEMMA Sobra ==
    ASSUME NEW S, NEW a \in Seq(S), NEW n \in Nat
    PROVE  SubSeq(a, (IF Len(a) < n THEN Len(a) ELSE n) + 1, Len(a)) \in Seq(S)
<1>1. PICK t \in 0 .. Len(a) : t = IF Len(a) < n THEN Len(a) ELSE n
  OBVIOUS
<1>2. SubSeq(a, t + 1, Len(a)) \in Seq(S)
  OBVIOUS
<1> QED
  BY <1>1, <1>2

\* The bytes a recv of a number leaves in it (io.c:45-46).
LEMMA RecibeForma ==
    ASSUME TypeOK, NEW b \in Numero
    PROVE  /\ [i \in 1 .. Ancho |-> IF i <= Tomado THEN socket[i] ELSE b[i]] \in Numero
           /\ SubSeq(socket, Tomado + 1, Len(socket)) \in Seq(Byte)
<1>1. socket \in Seq(Byte) /\ Len(socket) \in Nat /\ Ancho \in Nat
  BY Anchos DEF TypeOK
<1>2. Tomado \in 0 .. Len(socket)
  BY <1>1 DEF Tomado
<1> DEFINE t == Tomado
<1> HIDE DEF t
<1>3. \A i \in 1 .. Ancho : (IF i <= t THEN socket[i] ELSE b[i]) \in Byte \cup {Basura}
  <2> TAKE i \in 1 .. Ancho
  <2>1. CASE i <= t
    BY <1>1, <1>2, <2>1 DEF t
  <2>2. CASE ~(i <= t)
    BY <2>2 DEF Numero
  <2> QED
    BY <2>1, <2>2
<1>4. [i \in 1 .. Ancho |-> IF i <= t THEN socket[i] ELSE b[i]] \in Numero
  BY <1>3 DEF Numero
<1>5. SubSeq(socket, t + 1, Len(socket)) \in Seq(Byte)
  BY <1>1, <1>2 DEF t
<1> QED
  BY <1>4, <1>5 DEF t

\* A number that was received, whole or not, is some number or an unknown one.
LEMMA AlgoForma ==
    ASSUME NEW b \in Numero
    PROVE  Valor(b) \in Algo /\ Dormido(Valor(b)) \in Siesta
<1>1. Valor(b) \in Nat \cup {Basura}
  BY ValorForma, Anchos, Ancho <= Ancho DEF Numero
<1>2. \A ms \in Nat : (ms * Mil) % Limite \in 0 .. Limite - 1
  <2> TAKE ms \in Nat
  <2>1. ms * Mil \in Nat
    BY Medidas
  <2> QED
    BY <2>1, MedidasForma, Division
<1> QED
  BY <1>1, <1>2 DEF Algo, Siesta, Dormido

\* What a recv of a number gives the thread (socket.c:262, 273).
LEMMA PalabrasForma ==
    ASSUME avisos \in Seq(Byte), NEW w \in Palabras
    PROVE  \E b \in [1 .. Ancho -> Byte] :
              w = Valor(b) /\ (avisos # <<>> => b[1] = avisos[1])
<1>1. Ancho \in Nat /\ Ancho > 0 /\ BytesBasura \subseteq Byte
  BY Anchos, Medidas
<1>2. PICK t \in Nat : t = Llegado(Ancho) /\ t <= Ancho /\ t <= Len(avisos)
                      /\ (avisos # <<>> => t > 0)
  <2>1. Len(avisos) \in Nat /\ (avisos # <<>> => Len(avisos) > 0)
    BY EmptySeq
  <2> QED
    BY <1>1, <2>1 DEF Llegado
<1>3. PICK resto \in [1 .. Ancho - t -> BytesBasura] : w = Valor(SubSeq(avisos, 1, t) \o resto)
  BY <1>2 DEF Palabras
<1>4. PICK m \in Nat : m = Ancho - t
  BY <1>1, <1>2
<1>5. resto \in Seq(Byte) /\ Len(resto) = m
  BY <1>1, <1>3, <1>4
<1>6. PICK a \in Seq(Byte) : a = SubSeq(avisos, 1, t) /\ Len(a) = t /\ (t > 0 => a[1] = avisos[1])
  <2>1. SubSeq(avisos, 1, t) \in Seq(Byte) /\ Len(SubSeq(avisos, 1, t)) = t
    BY <1>2
  <2>2. t > 0 => SubSeq(avisos, 1, t)[1] = avisos[1]
    BY <1>2
  <2> QED
    BY <2>1, <2>2
<1>7. PICK b : b = a \o resto
  OBVIOUS
<1>8. b \in Seq(Byte) /\ Len(b) = t + m /\ (t > 0 => b[1] = a[1])
  BY <1>2, <1>4, <1>5, <1>6, <1>7
<1>9. Len(b) = Ancho
  BY <1>1, <1>2, <1>4, <1>8
<1>10. b \in [1 .. Ancho -> Byte]
  BY <1>8, <1>9
<1>11. avisos # <<>> => b[1] = avisos[1]
  BY <1>2, <1>6, <1>8
<1>12. w = Valor(b)
  BY <1>3, <1>6, <1>7
<1> QED
  BY <1>10, <1>11, <1>12

\* The network, in order.
LEMMA EntregarForma ==
    ASSUME TypeOK, Entregar
    PROVE  /\ socket' \in Seq(Byte) /\ enRed' \in Seq(Byte) /\ cortes' \in 0 .. MaxCortes
           /\ socket' \o enRed' = socket \o enRed
<1>1. PICK n \in 1 .. Len(enRed) :
         /\ n < Len(enRed) => cortes < MaxCortes
         /\ socket' = socket \o SubSeq(enRed, 1, n)
         /\ enRed' = SubSeq(enRed, n + 1, Len(enRed))
         /\ cortes' = IF n < Len(enRed) THEN cortes + 1 ELSE cortes
  BY DEF Entregar, Llega
<1>2. socket \in Seq(Byte) /\ enRed \in Seq(Byte) /\ cortes \in 0 .. MaxCortes
  BY DEF TypeOK
<1> DEFINE a == SubSeq(enRed, 1, n)
           b == SubSeq(enRed, n + 1, Len(enRed))
<1>3. /\ a \in Seq(Byte) /\ b \in Seq(Byte) /\ Len(a) = n /\ Len(b) = Len(enRed) - n
      /\ \A k \in 1 .. n : a[k] = enRed[k]
      /\ \A k \in 1 .. Len(enRed) - n : b[k] = enRed[n + k]
  BY <1>2
<1>4. a \o b = enRed
  BY <1>2, <1>3
<1> HIDE DEF a, b
<1>5. (socket \o a) \o b = socket \o (a \o b)
  BY <1>2, <1>3, SMTT(30)
<1>6. cortes' \in 0 .. MaxCortes
  BY <1>1, <1>2, Medidas
<1>7. socket \o a \in Seq(Byte) /\ socket' = socket \o a /\ enRed' = b
  BY <1>1, <1>2, <1>3 DEF a, b
<1>8. socket' \o enRed' = socket \o enRed
  BY <1>4, <1>5, <1>7
<1> QED
  BY <1>3, <1>6, <1>7, <1>8

\* And in the other direction, whatever kind of bytes there are in it.
LEMMA EntregarAvisoForma ==
    ASSUME TypeOK, EntregarAviso, NEW S, enVuelta \in Seq(S), avisos \in Seq(S)
    PROVE  avisos' \in Seq(S) /\ enVuelta' \in Seq(S) /\ cortes' \in 0 .. MaxCortes
<1>1. PICK n \in 1 .. Len(enVuelta) :
         /\ n < Len(enVuelta) => cortes < MaxCortes
         /\ avisos' = avisos \o SubSeq(enVuelta, 1, n)
         /\ enVuelta' = SubSeq(enVuelta, n + 1, Len(enVuelta))
         /\ cortes' = IF n < Len(enVuelta) THEN cortes + 1 ELSE cortes
  BY DEF EntregarAviso, Llega
<1>2. cortes' \in 0 .. MaxCortes
  BY <1>1, Medidas DEF TypeOK
<1> QED
  BY <1>1, <1>2, Partir

\* What the thread leaves in it.
LEMMA ConsumirForma ==
    ASSUME NEW S, avisos \in Seq(S), NEW n \in Nat, Consumir(n)
    PROVE  avisos' \in Seq(S)
  BY Sobra DEF Consumir, Llegado

\* A request, in bytes (io.c:45-46).
LEMMA PedirForma ==
    ASSUME TypeOK, NEW p \in Pedidos, Pedir(p)
    PROVE  /\ pedidos' \in Seq(Pedidos) /\ Len(pedidos') = Len(pedidos) + 1
           /\ pedidos'[Len(pedidos) + 1] = p
           /\ \A k \in 1 .. Len(pedidos) : pedidos'[k] = pedidos[k]
           /\ p.pid \in Nat /\ p.tiempo \in Nat /\ enRed' \in Seq(Byte)
           /\ socket' \o enRed' = ((socket \o enRed) \o EnBytes(p.pid)) \o EnBytes(p.tiempo)
<1>1. p.pid \in Nat /\ p.tiempo \in Nat
  BY MedidasForma DEF Pedidos
<1>2. EnBytes(p.pid) \in Seq(Byte) /\ EnBytes(p.tiempo) \in Seq(Byte)
  BY <1>1, EnBytesForma
<1>3. socket \in Seq(Byte) /\ enRed \in Seq(Byte) /\ pedidos \in Seq(Pedidos)
  BY DEF TypeOK
<1>4. \A a, b, c, d \in Seq(Byte) :
         /\ (b \o c) \o d \in Seq(Byte)
         /\ a \o ((b \o c) \o d) = ((a \o b) \o c) \o d
  OBVIOUS
<1>5. pedidos' = Append(pedidos, p) /\ socket' = socket
      /\ enRed' = (enRed \o EnBytes(p.pid)) \o EnBytes(p.tiempo)
  BY DEF Pedir
<1>6. /\ Append(pedidos, p) \in Seq(Pedidos) /\ Len(Append(pedidos, p)) = Len(pedidos) + 1
      /\ Append(pedidos, p)[Len(pedidos) + 1] = p
      /\ \A k \in 1 .. Len(pedidos) : Append(pedidos, p)[k] = pedidos[k]
  BY <1>3
<1>7. enRed' \in Seq(Byte)
  BY <1>2, <1>3, <1>4, <1>5
<1>8. socket' \o enRed' = ((socket \o enRed) \o EnBytes(p.pid)) \o EnBytes(p.tiempo)
  <2> DEFINE x == EnBytes(p.pid)
             y == EnBytes(p.tiempo)
  <2>1. x \in Seq(Byte) /\ y \in Seq(Byte)
    BY <1>2
  <2> HIDE DEF x, y
  <2> DEFINE a == socket
             b == enRed
  <2>2. a \in Seq(Byte) /\ b \in Seq(Byte) /\ b \o x \in Seq(Byte)
    BY <1>3, <2>1
  <2> HIDE DEF a, b
  <2>3. (a \o (b \o x)) \o y = a \o ((b \o x) \o y)
    <3> DEFINE c == b \o x
    <3> HIDE DEF c
    <3>1. c \in Seq(Byte)
      BY <2>2 DEF c
    <3>2. (a \o c) \o y = a \o (c \o y)
      BY <2>1, <2>2, <3>1, ConcatAssociative, SMTT(30)
    <3> QED
      BY <3>2 DEF c
  <2>4. (a \o b) \o x = a \o (b \o x)
    BY <2>1, <2>2, ConcatAssociative, SMTT(30)
  <2>5. socket \o ((enRed \o x) \o y) = ((socket \o enRed) \o x) \o y
    BY <2>3, <2>4 DEF a, b
  <2> QED
    BY <1>5, <2>5 DEF x, y
<1> QED
  BY <1>1, <1>5, <1>6, <1>7, <1>8

\* What is added to the requests taken (io.c:45-50).
LEMMA RecibirTiempoForma ==
    ASSUME TypeOK, RecibirTiempo
    PROVE  /\ tiempo' \in Numero
           /\ atendidos' \in Seq([pid : Algo, tiempo : Algo, dormido : Siesta])
           /\ Len(atendidos') = Len(atendidos) + 1
           /\ atendidos'[Len(atendidos) + 1] =
                 [pid |-> Valor(pid), tiempo |-> Valor(tiempo'),
                  dormido |-> Dormido(Valor(tiempo'))]
           /\ \A k \in 1 .. Len(atendidos) : atendidos'[k] = atendidos[k]
<1> DEFINE T == [pid : Algo, tiempo : Algo, dormido : Siesta]
           e == [pid |-> Valor(pid), tiempo |-> Valor(tiempo'),
                 dormido |-> Dormido(Valor(tiempo'))]
<1>1. pid \in Numero /\ tiempo \in Numero /\ atendidos \in Seq(T)
  BY DEF TypeOK
<1>2. tiempo' \in Numero
  <2>1. tiempo' = [i \in 1 .. Ancho |-> IF i <= Tomado THEN socket[i] ELSE tiempo[i]]
    BY DEF RecibirTiempo, Recibe
  <2> QED
    BY <1>1, <2>1, RecibeForma
<1>3. e \in T
  BY <1>1, <1>2, AlgoForma
<1>4. atendidos' = Append(atendidos, e)
  BY DEF RecibirTiempo
<1> HIDE DEF T, e
<1>5. /\ Append(atendidos, e) \in Seq(T) /\ Len(Append(atendidos, e)) = Len(atendidos) + 1
      /\ Append(atendidos, e)[Len(atendidos) + 1] = e
      /\ \A k \in 1 .. Len(atendidos) : Append(atendidos, e)[k] = atendidos[k]
  BY <1>1, <1>3
<1> QED
  BY <1>2, <1>4, <1>5 DEF T, e

\* Every step keeps the types (io.c:42-64, kernel.c:217-255).
LEMMA PasoTipos == TypeOK /\ [Next]_vars => TypeOK'
<1> SUFFICES ASSUME TypeOK, [Next]_vars PROVE TypeOK'
  OBVIOUS
<1>0. /\ pid \in Numero /\ tiempo \in Numero /\ Ancho \in Nat
      /\ enVuelta \in Seq(Byte) /\ avisos \in Seq(Byte)
  BY Anchos DEF TypeOK
<1>1. ASSUME NEW p \in Pedidos, Pedir(p) PROVE TypeOK'
  <2>1. pedidos' \in Seq(Pedidos) /\ enRed' \in Seq(Byte)
    BY <1>1, PedirForma
  <2> QED
    BY <1>1, <2>1 DEF Pedir, TypeOK
<1>2. CASE Entregar
  <2>1. socket' \in Seq(Byte) /\ enRed' \in Seq(Byte) /\ cortes' \in 0 .. MaxCortes
    BY <1>2, EntregarForma
  <2> QED
    BY <1>2, <2>1 DEF Entregar, TypeOK
<1>3. CASE EntregarAviso
  <2>1. avisos' \in Seq(Byte) /\ enVuelta' \in Seq(Byte) /\ cortes' \in 0 .. MaxCortes
    BY <1>0, <1>3, EntregarAvisoForma
  <2> QED
    BY <1>3, <2>1 DEF EntregarAviso, TypeOK
<1>4. CASE CaidaKernel
  BY <1>4 DEF CaidaKernel, TypeOK
<1>5. CASE Reiniciar
  <2>1. /\ socket' \in Seq(Byte) /\ enRed' \in Seq(Byte) /\ roto' \in BOOLEAN
        /\ avisos' \in Seq(Byte) /\ enVuelta' \in Seq(Byte)
    BY <1>5, <1>0, EmptySeq DEF Reiniciar, TypeOK
  <2> QED
    BY <1>5, <2>1 DEF Reiniciar, TypeOK
<1>6. CASE RecibirPid
  <2>1. pid' \in Numero /\ socket' \in Seq(Byte)
    BY <1>0, <1>6, RecibeForma DEF RecibirPid, Recibe
  <2>2. roto' \in BOOLEAN
    BY <1>6 DEF RecibirPid, Recibe
  <2> QED
    BY <1>6, <2>1, <2>2 DEF RecibirPid, Recibe, TypeOK
<1>7. CASE RecibirTiempo
  <2>1. /\ tiempo' \in Numero
        /\ atendidos' \in Seq([pid : Algo, tiempo : Algo, dormido : Siesta])
    BY <1>7, RecibirTiempoForma
  <2>2. socket' \in Seq(Byte)
    BY <1>0, <1>7, RecibeForma DEF RecibirTiempo, Recibe
  <2>3. roto' \in BOOLEAN
    BY <1>7 DEF RecibirTiempo, Recibe
  <2> QED
    BY <1>7, <2>1, <2>2, <2>3 DEF RecibirTiempo, Recibe, TypeOK
<1>8. CASE Despertar
  <2>1. io' \in {"pid", "muerto"}
    BY <1>8 DEF Despertar
  <2>2. PICK a \in Seq(Byte) : a = EnBytes(FinIo)
    BY EnBytesForma DEF FinIo
  <2>3. enVuelta' = enVuelta \o a
    BY <1>8, <2>2 DEF Despertar
  <2>4. enVuelta' \in Seq(Byte)
    BY <1>0, <2>3
  <2> QED
    BY <1>8, <2>1, <2>4 DEF Despertar, TypeOK
<1>9. CASE RecvFallido
  BY <1>9 DEF RecvFallido, TypeOK
<1>10. CASE Morir
  BY <1>10 DEF Morir, TypeOK
<1>11. CASE LeerOperacion
  <2>1. avisos' \in Seq(Byte)
    BY <1>0, <1>11, ConsumirForma DEF LeerOperacion
  <2>2. hilo' \in {"operacion", "tamano", "terminado", "caido"}
    BY <1>11 DEF LeerOperacion, TrasOperacion
  <2> QED
    BY <1>11, <2>1, <2>2 DEF LeerOperacion, TypeOK
<1>12. CASE LeerTamano
  <2>1. avisos' \in Seq(Byte)
    BY <1>0, <1>12, ConsumirForma DEF LeerTamano
  <2>2. \A w \in Palabras : w \in Nat
    <3> TAKE w \in Palabras
    <3>1. PICK b \in [1 .. Ancho -> Byte] : w = Valor(b)
      BY <1>0, PalabrasForma
    <3> QED
      BY <1>0, <3>1, ValorNumero, Ancho <= Ancho
  <2>3. tam' \in Nat
    BY <1>12, <2>2, Medidas DEF LeerTamano
  <2> QED
    BY <1>12, <2>1, <2>3 DEF LeerTamano, TypeOK
<1>13. CASE LeerContenido
  <2>1. tam \in Nat
    BY <1>13 DEF LeerContenido, TypeOK
  <2>2. avisos' \in Seq(Byte)
    BY <1>0, <1>13, <2>1, ConsumirForma DEF LeerContenido
  <2> QED
    BY <1>13, <2>2 DEF LeerContenido, TypeOK
<1>14. CASE UNCHANGED vars
  BY <1>14 DEF vars, TypeOK
<1> QED
  BY <1>1, <1>2, <1>3, <1>4, <1>5, <1>6, <1>7, <1>8, <1>9, <1>10, <1>11, <1>12, <1>13, <1>14
     DEF Next, MainIo, AtenderCliente

-----------------------------------------------------------------------------
(* The answers *)

\* fin_io is written as zeros (io.c:17).
LEMMA AvisoDeCeros == EnBytes(FinIo) \in Seq({0})
<1>1. \A b \in Nat : b > 0 => 0 \div b = 0 /\ 0 % b = 0
  OBVIOUS
<1>2. \A i \in 1 .. Ancho : (0 \div Peso[i - 1]) % Base = 0
  <2> TAKE i \in 1 .. Ancho
  <2>1. Peso[i - 1] \in Nat /\ Peso[i - 1] > 0
    BY PesoDef, Anchos
  <2>2. 0 \div Peso[i - 1] = 0
    BY <1>1, <2>1
  <2> QED
    BY <1>1, <2>2, Anchos
<1>3. EnBytes(FinIo) = [i \in 1 .. Ancho |-> (0 \div Peso[i - 1]) % Base]
  BY DEF EnBytes, FinIo
<1>4. EnBytes(FinIo) \in [1 .. Ancho -> {0}]
  BY <1>2, <1>3
<1> QED
  BY <1>4, Anchos

\* A number whose first byte is 0 is a multiple of what a byte holds, whatever the
\* other bytes are.
LEMMA Multiplo ==
    ASSUME NEW b \in [1 .. Ancho -> Byte], b[1] = 0
    PROVE  \E q \in Nat : Valor(b) = Base * q
<1>0. Ancho \in Nat /\ Ancho > 0 /\ Base \in Nat
  BY Anchos
<1>1. PICK s \in [0 .. Ancho -> Nat] :
         /\ s[0] = 0 /\ \A i \in 1 .. Ancho : s[i] = s[i - 1] + b[i] * Peso[i - 1]
         /\ Valor(b) = s[Ancho]
  BY <1>0, ValorDef, Ancho <= Ancho
<1> DEFINE S == {i \in 0 .. Ancho : \E q \in Nat : s[i] = Base * q}
<1>2. 0 \in S
  <2>1. 0 \in 0 .. Ancho /\ 0 \in Nat /\ s[0] = Base * 0
    BY <1>0, <1>1
  <2> QED
    BY <2>1
<1>3. \A i \in 0 .. Ancho - 1 : i \in S => i + 1 \in S
  <2> SUFFICES ASSUME NEW i \in 0 .. Ancho - 1, NEW q \in Nat, s[i] = Base * q
               PROVE  i + 1 \in S
    OBVIOUS
  <2>1. i + 1 \in 1 .. Ancho /\ (i + 1) - 1 = i
    BY <1>0
  <2>2. s[i + 1] = s[i] + b[i + 1] * Peso[i]
    BY <1>1, <2>1
  <2>3. CASE i = 0
    <3>1. s[i + 1] = 0
      BY <1>1, <2>2, <2>3, PesoDef
    <3> QED
      BY <1>0, <2>1, <3>1, 0 = Base * 0
  <2>4. CASE i # 0
    <3>1. i \in 1 .. Ancho /\ i - 1 \in 0 .. Ancho
      BY <1>0, <2>4
    <3>2. Peso[i] = Base * Peso[i - 1] /\ Peso[i - 1] \in Nat
      BY <3>1, PesoDef
    <3>3. b[i + 1] \in Nat
      BY <2>1, Anchos DEF Byte
    <3>4. PICK x \in Nat, y \in Nat : x = b[i + 1] /\ y = Peso[i - 1]
      BY <3>2, <3>3
    <3>5. s[i + 1] = Base * q + x * (Base * y)
      BY <2>2, <3>2, <3>4
    <3>6. Base * q + x * (Base * y) = Base * (q + x * y) /\ q + x * y \in Nat
      BY <1>0
    <3> QED
      BY <2>1, <3>5, <3>6
  <2> QED
    BY <2>3, <2>4
<1> HIDE DEF S
<1>4. Ancho \in S
  <2>1. \A i \in 0 .. Ancho : i \in S
    BY <1>0, <1>2, <1>3, Induccion
  <2> QED
    BY <1>0, <2>1
<1> QED
  BY <1>1, <1>4 DEF S

\* And so none of them is DESCONEXION (protocolo.h:18, socket.c:262-266).
LEMMA NoEsElFin ==
    ASSUME TypeOK, SoloCeros, avisos # <<>>
    PROVE  DESCONEXION \notin Palabras
<1> SUFFICES ASSUME DESCONEXION \in Palabras PROVE FALSE
  OBVIOUS
<1>1. avisos \in Seq(Byte) /\ avisos[1] = 0
  <2>1. avisos \in Seq(Byte) /\ avisos \in Seq({0})
    BY DEF TypeOK, SoloCeros
  <2>2. Len(avisos) \in Nat /\ Len(avisos) > 0
    BY <2>1, EmptySeq
  <2> QED
    BY <2>1, <2>2
<1>2. PICK b \in [1 .. Ancho -> Byte] : DESCONEXION = Valor(b) /\ b[1] = 0
  BY <1>1, PalabrasForma
<1>3. PICK q \in Nat : 1 = Base * q
  BY <1>2, Multiplo DEF DESCONEXION
<1>4. Base \in Nat /\ Base > 1
  BY Anchos
<1>5. CASE q = 0
  BY <1>3, <1>4, <1>5
<1>6. CASE q >= 1
  <2>1. Base * q >= Base * 1
    BY <1>4, <1>6
  <2> QED
    BY <1>3, <1>4, <2>1
<1> QED
  BY <1>5, <1>6

\* Every step keeps the answers made of zeros, and the thread with its device
\* (io.c:52, kernel.c:225-255).
LEMMA PasoAtiende ==
    TypeOK /\ SoloCeros /\ AtiendeMientrasVive /\ [Next]_vars
        => SoloCeros' /\ AtiendeMientrasVive'
<1> SUFFICES ASSUME TypeOK, SoloCeros, AtiendeMientrasVive, [Next]_vars
             PROVE  SoloCeros' /\ AtiendeMientrasVive'
  OBVIOUS
<1>0. enVuelta \in Seq({0}) /\ avisos \in Seq({0}) /\ Ancho \in Nat
  BY Anchos DEF SoloCeros
<1>1. ASSUME NEW p \in Pedidos, Pedir(p) PROVE SoloCeros' /\ AtiendeMientrasVive'
  BY <1>1 DEF Pedir, SoloCeros, AtiendeMientrasVive, Termino
<1>2. CASE Entregar
  BY <1>2 DEF Entregar, SoloCeros, AtiendeMientrasVive, Termino
<1>3. CASE EntregarAviso
  <2>1. avisos' \in Seq({0}) /\ enVuelta' \in Seq({0})
    BY <1>0, <1>3, EntregarAvisoForma
  <2> QED
    BY <1>3, <2>1 DEF EntregarAviso, SoloCeros, AtiendeMientrasVive, Termino
<1>4. CASE CaidaKernel
  BY <1>4 DEF CaidaKernel, SoloCeros, AtiendeMientrasVive, Termino
<1>5. CASE Reiniciar
  <2>1. avisos' \in Seq({0}) /\ enVuelta' \in Seq({0})
    BY <1>0, <1>5, EmptySeq DEF Reiniciar
  <2> QED
    BY <1>5, <2>1 DEF Reiniciar, SoloCeros, AtiendeMientrasVive, Termino
<1>6. CASE RecibirPid
  BY <1>6 DEF RecibirPid, Recibe, SoloCeros, AtiendeMientrasVive, Termino
<1>7. CASE RecibirTiempo
  BY <1>7 DEF RecibirTiempo, Recibe, SoloCeros, AtiendeMientrasVive, Termino
<1>8. CASE Despertar
  <2>1. PICK a \in Seq({0}) : a = EnBytes(FinIo)
    BY AvisoDeCeros
  <2>2. enVuelta' = enVuelta \o a
    BY <1>8, <2>1 DEF Despertar
  <2>3. enVuelta' \in Seq({0})
    BY <1>0, <2>2
  <2> QED
    BY <1>8, <2>3 DEF Despertar, SoloCeros, AtiendeMientrasVive, Termino
<1>9. CASE RecvFallido
  BY <1>9 DEF RecvFallido, SoloCeros, AtiendeMientrasVive, Termino
<1>10. CASE Morir
  BY <1>10 DEF Morir, SoloCeros, AtiendeMientrasVive, Termino
<1>11. CASE LeerOperacion
  <2>1. avisos' \in Seq({0})
    BY <1>0, <1>11, ConsumirForma DEF LeerOperacion
  <2>2. UNCHANGED <<io, enVuelta>>
    BY <1>11 DEF LeerOperacion
  <2>3. hilo' = "terminado" => Termino
    <3> SUFFICES ASSUME hilo' = "terminado", ~HayFinAvisos PROVE FALSE
      BY DEF HayFinAvisos
    <3>1. avisos # <<>>
      BY <1>11 DEF LeerOperacion, PuedeLeer
    <3>2. PICK codigo \in Palabras : hilo' \in TrasOperacion(codigo)
      BY <1>11 DEF LeerOperacion
    <3>3. codigo # DESCONEXION
      BY <3>1, <3>2, NoEsElFin
    <3> QED
      BY <3>2, <3>3 DEF TrasOperacion
  <2> QED
    BY <1>0, <2>1, <2>2, <2>3 DEF SoloCeros, AtiendeMientrasVive, Termino
<1>12. CASE LeerTamano
  <2>1. avisos' \in Seq({0})
    BY <1>0, <1>12, ConsumirForma DEF LeerTamano
  <2> QED
    BY <1>0, <1>12, <2>1 DEF LeerTamano, SoloCeros, AtiendeMientrasVive, Termino
<1>13. CASE LeerContenido
  <2>1. tam \in Nat
    BY <1>13 DEF LeerContenido, TypeOK
  <2>2. avisos' \in Seq({0})
    BY <1>0, <1>13, <2>1, ConsumirForma DEF LeerContenido
  <2> QED
    BY <1>0, <1>13, <2>2 DEF LeerContenido, SoloCeros, AtiendeMientrasVive
<1>14. CASE UNCHANGED vars
  BY <1>14 DEF vars, SoloCeros, AtiendeMientrasVive, Termino
<1> QED
  BY <1>1, <1>2, <1>3, <1>4, <1>5, <1>6, <1>7, <1>8, <1>9, <1>10, <1>11, <1>12, <1>13, <1>14
     DEF Next, MainIo, AtenderCliente

-----------------------------------------------------------------------------
(* What is on its way *)

\* The numbers that have not been read, one by one.
LEMMA FaltanForma ==
    ASSUME TypeOK, Leidos <= 2 * Len(pedidos)
    PROVE  /\ Faltan \in Seq(Nat) /\ Len(Faltan) = 2 * Len(pedidos) - Leidos
           /\ Leidos \in Nat
           /\ \A j \in 1 .. Len(Faltan) :
                 Faltan[j] = Enviado(Leidos + j) /\ Enviado(Leidos + j) \in 0 .. Limite - 1
<1>1. Leidos \in Nat /\ Len(pedidos) \in Nat
  BY DEF Leidos, TypeOK
<1>2. \A k \in 1 .. Len(pedidos) :
         pedidos[k].pid \in 0 .. Limite - 1 /\ pedidos[k].tiempo \in 0 .. Limite - 1
  <2> TAKE k \in 1 .. Len(pedidos)
  <2>1. pedidos[k] \in Pedidos
    BY DEF TypeOK
  <2> QED
    BY <2>1, Medidas DEF Pedidos
<1> DEFINE n == 2 * Len(pedidos) - Leidos
<1>3. n \in Nat
  BY <1>1
<1>4. \A k \in 1 .. 2 * Len(pedidos) : Enviado(k) \in 0 .. Limite - 1
  <2> TAKE k \in 1 .. 2 * Len(pedidos)
  <2>1. CASE k % 2 = 1
    <3>1. (k + 1) \div 2 \in 1 .. Len(pedidos)
      BY <1>1, <2>1
    <3> QED
      BY <1>2, <2>1, <3>1 DEF Enviado
  <2>2. CASE k % 2 # 1
    <3>1. k \div 2 \in 1 .. Len(pedidos)
      BY <1>1, <2>2
    <3> QED
      BY <1>2, <2>2, <3>1 DEF Enviado
  <2> QED
    BY <2>1, <2>2
<1>5. \A j \in 1 .. n : Enviado(Leidos + j) \in 0 .. Limite - 1
  <2> TAKE j \in 1 .. n
  <2>1. Leidos + j \in 1 .. 2 * Len(pedidos)
    BY <1>1
  <2> QED
    BY <1>4, <2>1
<1>6. \A j \in 1 .. n : Enviado(Leidos + j) \in Nat
  BY <1>5, MedidasForma
<1>7. Faltan = [j \in 1 .. n |-> Enviado(Leidos + j)]
  BY DEF Faltan
<1> HIDE DEF n
<1>8. Faltan \in Seq(Nat) /\ Len(Faltan) = n /\ \A j \in 1 .. n : Faltan[j] = Enviado(Leidos + j)
  BY <1>3, <1>6, <1>7
<1> QED
  BY <1>1, <1>5, <1>8 DEF n

\* A recv that takes a whole number takes the next one, and the others are left
\* (io.c:45-46).
LEMMA RecibeEntero ==
    ASSUME TypeOK, EnCamino, ~roto, ~Termino, socket # <<>>, Len(socket) >= Ancho
    PROVE  /\ Leidos < 2 * Len(pedidos)
           /\ Tomado = Ancho
           /\ [i \in 1 .. Ancho |-> socket[i]] = EnBytes(Enviado(Leidos + 1))
           /\ Valor(EnBytes(Enviado(Leidos + 1))) = Enviado(Leidos + 1)
           /\ Escrito(SubSeq(socket, Ancho + 1, Len(socket)) \o enRed, Tail(Faltan))
<1> DEFINE q == socket \o enRed
           v == Enviado(Leidos + 1)
           s == SubSeq(socket, Ancho + 1, Len(socket))
<1>0. /\ socket \in Seq(Byte) /\ enRed \in Seq(Byte) /\ Ancho \in Nat /\ Ancho > 0
      /\ Leidos <= 2 * Len(pedidos) /\ Len(pedidos) \in Nat
      /\ Escrito(q, Faltan) /\ Faltan \in Seq(Nat)
      /\ Len(Faltan) = 2 * Len(pedidos) - Leidos /\ Leidos \in Nat
  BY Anchos, FaltanForma DEF TypeOK, EnCamino
<1>1. /\ q \in Seq(Byte) /\ Len(q) = Len(socket) + Len(enRed)
      /\ \A k \in 1 .. Len(socket) : q[k] = socket[k]
      /\ SubSeq(q, Ancho + 1, Len(q)) = s \o enRed
  <2>1. /\ q \in Seq(Byte) /\ Len(q) = Len(socket) + Len(enRed)
        /\ \A k \in 1 .. Len(socket) : q[k] = socket[k]
    BY <1>0
  <2>2. Ancho \in 0 .. Len(socket)
    BY <1>0
  <2>3. SubSeq(q, Ancho + 1, Len(q)) = s \o enRed
    BY <1>0, <2>2, QuitarDelPrimero
  <2> QED
    BY <2>1, <2>3
<1>2. Faltan # <<>>
  <2> SUFFICES ASSUME Faltan = <<>> PROVE FALSE
    OBVIOUS
  <2>1. Len(q) = Ancho * 0
    BY <1>0 DEF Escrito
  <2>2. Len(q) = 0
    BY <1>0, <2>1
  <2> HIDE DEF q
  <2> QED
    BY <1>0, <1>1, <2>2
<1> HIDE DEF q, s
<1>3. /\ \A i \in 1 .. Ancho : q[i] = EnBytes(Faltan[1])[i]
      /\ Escrito(SubSeq(q, Ancho + 1, Len(q)), Tail(Faltan))
  BY <1>0, <1>1, <1>2, EscritoQuita
<1>4. Leidos < 2 * Len(pedidos) /\ Faltan[1] = v /\ v \in 0 .. Limite - 1
  <2>1. Len(Faltan) > 0
    BY <1>0, <1>2
  <2>2. 1 \in 1 .. Len(Faltan)
    BY <1>0, <2>1
  <2>3. Faltan[1] = v /\ v \in 0 .. Limite - 1
    BY <1>0, <2>2, FaltanForma
  <2> QED
    BY <1>0, <2>1, <2>3
<1>5. v \in Nat
  BY <1>4, MedidasForma
<1> HIDE DEF v
<1>6. EnBytes(v) = [i \in 1 .. Ancho |-> socket[i]]
  <2>1. EnBytes(v) \in [1 .. Ancho -> Byte]
    BY <1>5, EnBytesForma
  <2>2. \A i \in 1 .. Ancho : socket[i] = EnBytes(v)[i]
    BY <1>0, <1>1, <1>3, <1>4
  <2> QED
    BY <2>1, <2>2
<1>7. Tomado = Ancho
  BY <1>0 DEF Tomado
<1>8. Valor(EnBytes(v)) = v
  BY <1>4, IdaYVueltaDeNumeros
<1> QED
  BY <1>1, <1>3, <1>4, <1>6, <1>7, <1>8 DEF v, s

\* A number read is one that is not missing any more.
LEMMA FaltanUnoMenos ==
    ASSUME TypeOK, pedidos' = pedidos, Leidos' = Leidos + 1, Leidos < 2 * Len(pedidos)
    PROVE  Faltan' = Tail(Faltan)
<1> DEFINE n == 2 * Len(pedidos) - Leidos
           t == Tail(Faltan)
<1>1. /\ Faltan \in Seq(Nat) /\ Len(Faltan) = n /\ n \in Nat /\ n > 0
      /\ Leidos \in Nat /\ Len(pedidos) \in Nat
      /\ \A j \in 1 .. n : Faltan[j] = Enviado(Leidos + j)
  <2>1. Leidos \in Nat /\ Len(pedidos) \in Nat
    BY DEF Leidos, TypeOK
  <2> QED
    BY <2>1, FaltanForma
<1>2. /\ t \in Seq(Nat) /\ Len(t) = n - 1
      /\ \A j \in 1 .. n - 1 : t[j] = Faltan[j + 1]
  BY <1>1
<1>3. \A k : Enviado(k)' = Enviado(k)
  BY DEF Enviado
<1>4. Faltan' = [j \in 1 .. n - 1 |-> Enviado(Leidos + (j + 1))]
  <2>1. Faltan' = [j \in 1 .. 2 * Len(pedidos) - (Leidos + 1) |-> Enviado((Leidos + 1) + j)]
    BY <1>3 DEF Faltan
  <2>2. 2 * Len(pedidos) - (Leidos + 1) = n - 1
    BY <1>1
  <2>3. \A j \in 1 .. n - 1 : (Leidos + 1) + j = Leidos + (j + 1)
    BY <1>1
  <2> QED
    BY <2>1, <2>2, <2>3
<1>5. \A j \in 1 .. n - 1 : t[j] = Enviado(Leidos + (j + 1))
  BY <1>1, <1>2
<1>6. t = [j \in 1 .. n - 1 |-> t[j]]
  <2> HIDE DEF t, n
  <2> QED
    BY <1>1, <1>2
<1> HIDE DEF t, n
<1>7. t = [j \in 1 .. n - 1 |-> Enviado(Leidos + (j + 1))]
  BY <1>5, <1>6
<1> QED
  BY <1>4, <1>7 DEF t

\* A request is two numbers more.
LEMMA FaltanDosMas ==
    ASSUME TypeOK, Leidos <= 2 * Len(pedidos), Leidos' = Leidos, NEW p \in Pedidos, Pedir(p)
    PROVE  Faltan' = Append(Append(Faltan, p.pid), p.tiempo)
<1>0. PICK m \in Nat, l \in Nat : m = Len(pedidos) /\ l = Leidos
  BY DEF Leidos, TypeOK
<1> DEFINE n == 2 * m - l
           w == Append(Append(Faltan, p.pid), p.tiempo)
           Luego == [k \in 1 .. 2 * m + 2 |-> Enviado(k)']
<1>1. /\ Faltan \in Seq(Nat) /\ Len(Faltan) = n /\ n \in Nat
      /\ \A j \in 1 .. n : Faltan[j] = Enviado(l + j)
  BY <1>0, FaltanForma
<1>2. /\ Len(pedidos') = m + 1 /\ pedidos'[m + 1] = p
      /\ \A k \in 1 .. m : pedidos'[k] = pedidos[k]
      /\ p.pid \in Nat /\ p.tiempo \in Nat
  BY <1>0, PedirForma
<1>3. /\ w \in Seq(Nat) /\ Len(w) = n + 2
      /\ \A j \in 1 .. n : w[j] = Faltan[j]
      /\ w[n + 1] = p.pid /\ w[n + 2] = p.tiempo
  <2> DEFINE a == Append(Faltan, p.pid)
  <2> HIDE DEF n
  <2>1. /\ a \in Seq(Nat) /\ Len(a) = n + 1
        /\ \A j \in 1 .. n : a[j] = Faltan[j]
        /\ a[n + 1] = p.pid
    BY <1>1, <1>2, AppendProperties
  <2> HIDE DEF a
  <2>2. /\ Append(a, p.tiempo) \in Seq(Nat) /\ Len(Append(a, p.tiempo)) = (n + 1) + 1
        /\ \A j \in 1 .. n + 1 : Append(a, p.tiempo)[j] = a[j]
        /\ Append(a, p.tiempo)[(n + 1) + 1] = p.tiempo
    BY <1>2, <2>1, AppendProperties
  <2> QED
    BY <1>1, <2>1, <2>2 DEF a
<1>4. \A k \in 1 .. 2 * m : Enviado(k)' = Enviado(k)
  <2> TAKE k \in 1 .. 2 * m
  <2>1. CASE k % 2 = 1
    <3>1. (k + 1) \div 2 \in 1 .. m
      BY <2>1
    <3> QED
      BY <1>2, <2>1, <3>1 DEF Enviado
  <2>2. CASE k % 2 # 1
    <3>1. k \div 2 \in 1 .. m
      BY <2>2
    <3> QED
      BY <1>2, <2>2, <3>1 DEF Enviado
  <2> QED
    BY <2>1, <2>2
<1>5. Enviado(2 * m + 1)' = p.pid
  <2>1. (2 * m + 1) % 2 = 1 /\ ((2 * m + 1) + 1) \div 2 = m + 1
    OBVIOUS
  <2> QED
    BY <1>2, <2>1 DEF Enviado
<1>6. Enviado(2 * m + 2)' = p.tiempo
  <2>1. (2 * m + 2) % 2 # 1 /\ (2 * m + 2) \div 2 = m + 1
    OBVIOUS
  <2> QED
    BY <1>2, <2>1 DEF Enviado
<1>7. Faltan' = [j \in 1 .. n + 2 |-> Luego[l + j]]
  <2>1. Faltan' = [j \in 1 .. 2 * (m + 1) - l |-> Enviado(l + j)']
    BY <1>0, <1>2 DEF Faltan
  <2>2. 2 * (m + 1) - l = n + 2
    OBVIOUS
  <2>3. \A j \in 1 .. n + 2 : l + j \in 1 .. 2 * m + 2
    BY <1>1
  <2>4. \A j \in 1 .. n + 2 : Luego[l + j] = Enviado(l + j)'
    BY <2>3
  <2> HIDE DEF n, Luego
  <2> QED
    BY <2>1, <2>2, <2>4
<1>8. \A k \in 1 .. 2 * m : Luego[k] = Enviado(k)
  BY <1>4
<1>9. Luego[2 * m + 1] = p.pid /\ Luego[2 * m + 2] = p.tiempo
  BY <1>5, <1>6
<1>10. n \in Nat /\ l + n = 2 * m
  BY <1>1
<1> HIDE DEF w, n, Luego
<1>11. \A j \in 1 .. n + 2 : w[j] = Luego[l + j]
  <2> TAKE j \in 1 .. n + 2
  <2>1. CASE j \in 1 .. n
    <3>1. l + j \in 1 .. 2 * m
      BY <1>10, <2>1
    <3> QED
      BY <1>1, <1>3, <1>8, <2>1, <3>1
  <2>2. CASE j = n + 1
    <3>1. l + j = 2 * m + 1
      BY <1>10, <2>2
    <3> QED
      BY <1>3, <1>9, <2>2, <3>1
  <2>3. CASE j = n + 2
    <3>1. l + j = 2 * m + 2
      BY <1>10, <2>3
    <3> QED
      BY <1>3, <1>9, <2>3, <3>1
  <2> QED
    BY <1>10, <2>1, <2>2, <2>3
<1>12. w = [j \in 1 .. n + 2 |-> w[j]]
  BY <1>3, <1>10
<1>13. w = [j \in 1 .. n + 2 |-> Luego[l + j]]
  BY <1>11, <1>12
<1> QED
  BY <1>7, <1>13 DEF w

\* A step that neither reads nor asks.
LEMMA NadaNuevo ==
    ASSUME EnCamino, PidLeido, Servidos,
           pedidos' = pedidos, atendidos' = atendidos, pid' = pid,
           ~roto' => ~roto /\ socket' \o enRed' = socket \o enRed,
           io' = "tiempo" => io = "tiempo",
           ~Termino' => ~Termino /\ (io = "tiempo" => io' = "tiempo")
    PROVE  EnCamino' /\ PidLeido' /\ Servidos'
<1>1. \A k : Enviado(k)' = Enviado(k)
  BY DEF Enviado
<1>2. ~Termino' => Leidos' = Leidos
  BY DEF Leidos
<1>3. ~Termino' => Faltan' = Faltan
  BY <1>1, <1>2 DEF Faltan
<1>4. EnCamino'
  <2> SUFFICES ASSUME ~roto', ~Termino'
               PROVE  /\ Leidos' <= 2 * Len(pedidos')
                      /\ Escrito(socket' \o enRed', Faltan')
    BY DEF EnCamino
  <2> QED
    BY <1>2, <1>3 DEF EnCamino
<1>5. PidLeido'
  BY DEF PidLeido
<1>6. Servidos'
  BY DEF Servidos
<1> QED
  BY <1>4, <1>5, <1>6

-----------------------------------------------------------------------------
(* The requests are served as they were sent *)

\* A request more is at the end of what is missing.
LEMMA PedirSigue ==
    ASSUME TypeOK, EnCamino, PidLeido, Servidos, NEW p \in Pedidos, Pedir(p)
    PROVE  EnCamino' /\ PidLeido' /\ Servidos'
<1>0. Len(pedidos) \in Nat /\ Len(atendidos) \in Nat
  BY DEF TypeOK
<1>1. /\ Len(pedidos') = Len(pedidos) + 1
      /\ \A k \in 1 .. Len(pedidos) : pedidos'[k] = pedidos[k]
      /\ p.pid \in Nat /\ p.tiempo \in Nat
      /\ socket' \o enRed' = ((socket \o enRed) \o EnBytes(p.pid)) \o EnBytes(p.tiempo)
  BY PedirForma
<1>2. /\ UNCHANGED <<io, atendidos, pid, roto>> /\ Leidos' = Leidos
      /\ Leidos \in Nat
  BY DEF Pedir, Leidos, TypeOK
<1>3. EnCamino'
  <2> SUFFICES ASSUME ~roto, ~Termino
               PROVE  /\ Leidos' <= 2 * Len(pedidos')
                      /\ Escrito(socket' \o enRed', Faltan')
    BY <1>2 DEF EnCamino, Termino
  <2> DEFINE q == socket \o enRed
             x == EnBytes(p.pid)
             y == EnBytes(p.tiempo)
  <2>1. Leidos <= 2 * Len(pedidos) /\ Escrito(q, Faltan) /\ Faltan \in Seq(Nat)
    BY FaltanForma DEF EnCamino
  <2>2. q \in Seq(Byte) /\ x \in Seq(Byte)
    BY <1>1, EnBytesForma DEF TypeOK
  <2> HIDE DEF q
  <2>3. Escrito(q \o x, Append(Faltan, p.pid))
    BY <1>1, <2>1, <2>2, EscritoAgrega
  <2>4. q \o x \in Seq(Byte) /\ Append(Faltan, p.pid) \in Seq(Nat)
    <3> HIDE DEF x
    <3> QED
      BY <1>1, <2>1, <2>2
  <2> DEFINE r == q \o x
             w == Append(Faltan, p.pid)
  <2> HIDE DEF r, w
  <2>5. Escrito(r \o y, Append(w, p.tiempo))
    BY <1>1, <2>3, <2>4, EscritoAgrega DEF r, w
  <2>6. Faltan' = Append(w, p.tiempo)
    BY <1>2, <2>1, FaltanDosMas DEF w
  <2>7. socket' \o enRed' = r \o y
    BY <1>1 DEF r, q
  <2>8. Escrito(socket' \o enRed', Faltan')
    BY <2>5, <2>6, <2>7
  <2> QED
    BY <1>0, <1>1, <1>2, <2>1, <2>8
<1>4. PidLeido'
  <2> SUFFICES ASSUME ~roto, io = "tiempo"
               PROVE  pid = EnBytes(pedidos'[Len(atendidos) + 1].pid)
    BY <1>2 DEF PidLeido
  <2>1. 2 * Len(atendidos) + 1 <= 2 * Len(pedidos)
    BY DEF EnCamino, Termino, Leidos
  <2>2. Len(atendidos) + 1 \in 1 .. Len(pedidos)
    BY <1>0, <1>1, <2>1
  <2> QED
    BY <1>0, <1>1, <2>2 DEF PidLeido
<1>5. Servidos'
  BY <1>0, <1>1, <1>2 DEF Servidos
<1> QED
  BY <1>3, <1>4, <1>5

\* A recv that took a whole number (io.c:45-46): the rest is still in order.
LEMMA RecibeSigue ==
    ASSUME TypeOK, EnCamino, ~roto, ~Termino, socket # <<>>, ~(Tomado < Ancho),
           socket' = SubSeq(socket, Tomado + 1, Len(socket)),
           enRed' = enRed, pedidos' = pedidos, Leidos' = Leidos + 1
    PROVE  /\ Leidos < 2 * Len(pedidos)
           /\ \A b : [i \in 1 .. Ancho |-> IF i <= Tomado THEN socket[i] ELSE b[i]]
                        = EnBytes(Enviado(Leidos + 1))
           /\ Valor(EnBytes(Enviado(Leidos + 1))) = Enviado(Leidos + 1)
           /\ Leidos' <= 2 * Len(pedidos') /\ Escrito(socket' \o enRed', Faltan')
<1>0. Len(socket) \in Nat /\ Ancho \in Nat /\ Leidos \in Nat /\ Len(pedidos) \in Nat
  BY Anchos DEF TypeOK, Leidos
<1>1. Len(socket) >= Ancho
  BY <1>0 DEF Tomado
<1>2. /\ Leidos < 2 * Len(pedidos) /\ Tomado = Ancho
      /\ [i \in 1 .. Ancho |-> socket[i]] = EnBytes(Enviado(Leidos + 1))
      /\ Valor(EnBytes(Enviado(Leidos + 1))) = Enviado(Leidos + 1)
      /\ Escrito(SubSeq(socket, Ancho + 1, Len(socket)) \o enRed, Tail(Faltan))
  BY <1>1, RecibeEntero
<1>3. ASSUME NEW b
      PROVE  [i \in 1 .. Ancho |-> IF i <= Tomado THEN socket[i] ELSE b[i]]
                = EnBytes(Enviado(Leidos + 1))
  <2>1. \A i \in 1 .. Ancho : (IF i <= Ancho THEN socket[i] ELSE b[i]) = socket[i]
    BY <1>0
  <2>2. [i \in 1 .. Ancho |-> IF i <= Ancho THEN socket[i] ELSE b[i]]
           = [i \in 1 .. Ancho |-> socket[i]]
    BY <2>1
  <2> QED
    BY <1>2, <2>2
<1>4. Faltan' = Tail(Faltan)
  BY <1>2, FaltanUnoMenos
<1>5. Leidos' <= 2 * Len(pedidos')
  BY <1>0, <1>2
<1> QED
  BY <1>2, <1>3, <1>4, <1>5

\* The pid of the next request is read (io.c:45).
LEMMA RecibirPidSigue ==
    ASSUME TypeOK, EnCamino, PidLeido, Servidos, RecibirPid
    PROVE  EnCamino' /\ PidLeido' /\ Servidos'
<1> DEFINE N == Len(atendidos)
<1>0. N \in Nat /\ Len(pedidos) \in Nat /\ roto \in BOOLEAN
  BY DEF TypeOK
<1>1. /\ io = "pid" /\ io' = "tiempo" /\ socket # <<>>
      /\ pid' = [i \in 1 .. Ancho |-> IF i <= Tomado THEN socket[i] ELSE pid[i]]
      /\ socket' = SubSeq(socket, Tomado + 1, Len(socket))
      /\ roto' = (roto \/ Tomado < Ancho)
      /\ UNCHANGED <<pedidos, enRed, atendidos>>
  BY DEF RecibirPid, Recibe
<1>2. Leidos = 2 * N /\ Leidos' = Leidos + 1
  BY <1>0, <1>1 DEF Leidos
<1>3. ASSUME ~roto'
      PROVE  /\ Leidos' <= 2 * Len(pedidos') /\ Escrito(socket' \o enRed', Faltan')
             /\ pid' = EnBytes(pedidos[N + 1].pid)
  <2>1. ~roto /\ ~(Tomado < Ancho) /\ ~Termino
    BY <1>1, <1>3 DEF Termino
  <2>2. /\ Leidos' <= 2 * Len(pedidos') /\ Escrito(socket' \o enRed', Faltan')
        /\ pid' = EnBytes(Enviado(Leidos + 1))
    BY <1>1, <1>2, <2>1, RecibeSigue
  <2>3. (2 * N + 1) % 2 = 1 /\ ((2 * N + 1) + 1) \div 2 = N + 1
    BY <1>0
  <2>4. Enviado(Leidos + 1) = pedidos[N + 1].pid
    BY <1>2, <2>3 DEF Enviado
  <2> QED
    BY <2>2, <2>4
<1>4. EnCamino' /\ PidLeido'
  BY <1>1, <1>3 DEF EnCamino, PidLeido
<1>5. Servidos'
  BY <1>1 DEF Servidos
<1> QED
  BY <1>4, <1>5

\* Its time is read, and it is served (io.c:46-50).
LEMMA RecibirTiempoSigue ==
    ASSUME TypeOK, EnCamino, PidLeido, Servidos, RecibirTiempo
    PROVE  EnCamino' /\ PidLeido' /\ Servidos'
<1> DEFINE N == Len(atendidos)
<1>0. N \in Nat /\ Len(pedidos) \in Nat /\ roto \in BOOLEAN
  BY DEF TypeOK
<1>1. /\ io = "tiempo" /\ io' = "duerme" /\ socket # <<>>
      /\ tiempo' = [i \in 1 .. Ancho |-> IF i <= Tomado THEN socket[i] ELSE tiempo[i]]
      /\ socket' = SubSeq(socket, Tomado + 1, Len(socket))
      /\ roto' = (roto \/ Tomado < Ancho)
      /\ UNCHANGED <<pedidos, enRed>>
  BY DEF RecibirTiempo, Recibe
<1>2. /\ Len(atendidos') = N + 1
      /\ atendidos'[N + 1] = [pid |-> Valor(pid), tiempo |-> Valor(tiempo'),
                              dormido |-> Dormido(Valor(tiempo'))]
      /\ \A k \in 1 .. N : atendidos'[k] = atendidos[k]
  BY RecibirTiempoForma
<1>3. Leidos = 2 * N + 1 /\ Leidos' = Leidos + 1
  BY <1>0, <1>1, <1>2 DEF Leidos
<1>4. ASSUME ~roto'
      PROVE  /\ ~roto /\ N + 1 <= Len(pedidos)
             /\ Leidos' <= 2 * Len(pedidos') /\ Escrito(socket' \o enRed', Faltan')
             /\ Valor(pid) = pedidos[N + 1].pid
             /\ Valor(tiempo') = pedidos[N + 1].tiempo
  <2>1. ~roto /\ ~(Tomado < Ancho) /\ ~Termino
    BY <1>1, <1>4 DEF Termino
  <2>2. /\ Leidos < 2 * Len(pedidos)
        /\ Leidos' <= 2 * Len(pedidos') /\ Escrito(socket' \o enRed', Faltan')
        /\ tiempo' = EnBytes(Enviado(Leidos + 1))
        /\ Valor(EnBytes(Enviado(Leidos + 1))) = Enviado(Leidos + 1)
    BY <1>1, <1>3, <2>1, RecibeSigue
  <2>3. (2 * N + 2) % 2 # 1 /\ (2 * N + 2) \div 2 = N + 1 /\ Leidos + 1 = 2 * N + 2
    BY <1>0, <1>3
  <2>4. Enviado(Leidos + 1) = pedidos[N + 1].tiempo
    BY <2>3 DEF Enviado
  <2>5. N + 1 \in 1 .. Len(pedidos)
    BY <1>0, <1>3, <2>2
  <2>6. Valor(pid) = pedidos[N + 1].pid
    <3>1. pedidos[N + 1] \in Pedidos
      BY <2>5 DEF TypeOK
    <3>2. pedidos[N + 1].pid \in 0 .. Limite - 1
      BY <3>1, Medidas DEF Pedidos
    <3>3. pid = EnBytes(pedidos[N + 1].pid)
      BY <1>1, <2>1 DEF PidLeido
    <3> QED
      BY <3>2, <3>3, IdaYVueltaDeNumeros
  <2> QED
    BY <2>1, <2>2, <2>4, <2>5, <2>6
<1>5. EnCamino' /\ PidLeido'
  BY <1>1, <1>4 DEF EnCamino, PidLeido
<1>6. Servidos'
  <2> SUFFICES ASSUME ~roto'
               PROVE  /\ Len(atendidos') <= Len(pedidos')
                      /\ \A k \in 1 .. Len(atendidos') :
                            atendidos'[k] = [pid |-> pedidos'[k].pid,
                                             tiempo |-> pedidos'[k].tiempo,
                                             dormido |-> Dormido(pedidos'[k].tiempo)]
    BY DEF Servidos
  <2>1. \A k \in 1 .. N :
           atendidos'[k] = [pid |-> pedidos[k].pid, tiempo |-> pedidos[k].tiempo,
                            dormido |-> Dormido(pedidos[k].tiempo)]
    BY <1>2, <1>4 DEF Servidos
  <2>2. atendidos'[N + 1] =
           [pid |-> pedidos[N + 1].pid, tiempo |-> pedidos[N + 1].tiempo,
            dormido |-> Dormido(pedidos[N + 1].tiempo)]
    BY <1>2, <1>4
  <2>3. \A k \in 1 .. N + 1 : k \in 1 .. N \/ k = N + 1
    BY <1>0
  <2> HIDE DEF N
  <2> QED
    BY <1>1, <1>2, <1>4, <2>1, <2>2, <2>3
<1> QED
  BY <1>5, <1>6

\* Every step keeps what is on its way and what was served in order.
LEMMA PasoSirve ==
    TypeOK /\ EnCamino /\ PidLeido /\ Servidos /\ [Next]_vars
        => EnCamino' /\ PidLeido' /\ Servidos'
<1> SUFFICES ASSUME TypeOK, EnCamino, PidLeido, Servidos, [Next]_vars
             PROVE  EnCamino' /\ PidLeido' /\ Servidos'
  OBVIOUS
<1>0. roto \in BOOLEAN
  BY DEF TypeOK
<1>1. ASSUME NEW p \in Pedidos, Pedir(p) PROVE EnCamino' /\ PidLeido' /\ Servidos'
  BY <1>1, PedirSigue
<1>2. CASE Entregar
  <2>1. socket' \o enRed' = socket \o enRed
    BY <1>2, EntregarForma
  <2>2. UNCHANGED <<pedidos, atendidos, pid, roto, io>>
    BY <1>2 DEF Entregar
  <2> QED
    BY <2>1, <2>2, NadaNuevo DEF Termino
<1>3. CASE EntregarAviso
  BY <1>3, NadaNuevo DEF EntregarAviso, Termino
<1>4. CASE CaidaKernel
  BY <1>4, NadaNuevo DEF CaidaKernel, Termino
<1>5. CASE Reiniciar
  <2>1. ~roto' => ~roto /\ socket' \o enRed' = socket \o enRed
    BY <1>5 DEF Reiniciar
  <2>2. UNCHANGED <<pedidos, atendidos, pid, io>>
    BY <1>5 DEF Reiniciar
  <2> QED
    BY <2>1, <2>2, NadaNuevo DEF Termino
<1>6. CASE RecibirPid
  BY <1>6, RecibirPidSigue
<1>7. CASE RecibirTiempo
  BY <1>7, RecibirTiempoSigue
<1>8. CASE Despertar
  <2>1. /\ UNCHANGED <<pedidos, atendidos, pid, roto, socket, enRed>>
        /\ io = "duerme" /\ io' \in {"pid", "muerto"}
    BY <1>8 DEF Despertar
  <2> QED
    BY <2>1, NadaNuevo DEF Termino
<1>9. CASE RecvFallido
  BY <1>9, NadaNuevo DEF RecvFallido, Termino
<1>10. CASE Morir
  BY <1>10, NadaNuevo DEF Morir, Termino
<1>11. CASE AtenderCliente
  <2>1. UNCHANGED <<pedidos, atendidos, pid, roto, socket, enRed, io>>
    BY <1>11 DEF AtenderCliente, LeerOperacion, LeerTamano, LeerContenido
  <2> QED
    BY <2>1, NadaNuevo DEF Termino
<1>12. CASE UNCHANGED vars
  BY <1>12, NadaNuevo DEF vars, Termino
<1> QED
  BY <1>1, <1>2, <1>3, <1>4, <1>5, <1>6, <1>7, <1>8, <1>9, <1>10, <1>11, <1>12
     DEF Next, MainIo

-----------------------------------------------------------------------------
(* The channel *)

\* A step that does not touch what the device took, as one of the channel.
LEMMA CanalIgual ==
    ASSUME UNCHANGED <<pedidos, atendidos>>, io' = "terminado" <=> io = "terminado",
           hilo = "caido" => hilo' = "caido"
    PROVE  [Fifo!Next]_(Fifo!vars)
<1> DEFINE R == [k \in DOMAIN atendidos |->
                    [pid |-> atendidos[k].pid, tiempo |-> atendidos[k].tiempo]]
<1>1. R' = R
  OBVIOUS
<1> HIDE DEF R
<1>2. (io' = "terminado") = (io = "terminado")
  OBVIOUS
<1>3. CASE hilo' = "caido" /\ hilo # "caido"
  <2>1. (hilo' = "caido") = TRUE
    BY <1>3
  <2>2. Fifo!Cerrar
    BY <1>1, <1>2, <2>1 DEF Fifo!Cerrar, R
  <2> QED
    BY <2>2 DEF Fifo!Next
<1>4. CASE ~(hilo' = "caido" /\ hilo # "caido")
  <2>1. (hilo' = "caido") = (hilo = "caido")
    BY <1>4
  <2> QED
    BY <1>1, <1>2, <2>1 DEF Fifo!vars, R
<1> QED
  BY <1>3, <1>4

\* A request is sent.
LEMMA CanalEnvia ==
    ASSUME TypeOK, NEW p \in Pedidos, Pedir(p)
    PROVE  Fifo!Next
<1>1. /\ pedidos' = Append(pedidos, p) /\ hilo # "caido"
      /\ UNCHANGED <<atendidos, io, hilo>>
  BY DEF Pedir
<1>2. Fifo!Enviar
  BY <1>1 DEF Fifo!Enviar
<1> QED
  BY <1>2 DEF Fifo!Next

\* A request is received (io.c:45-46).
LEMMA CanalRecibe ==
    ASSUME TypeOK, Servidos', ~roto', RecibirTiempo
    PROVE  Fifo!Next
<1> DEFINE N == Len(atendidos)
           E(k) == [pid |-> pedidos[k].pid, tiempo |-> pedidos[k].tiempo]
           R == [k \in DOMAIN atendidos |->
                    [pid |-> atendidos[k].pid, tiempo |-> atendidos[k].tiempo]]
<1>1. PICK n \in Nat : n = N
  BY DEF TypeOK
<1>2. /\ Len(atendidos') = n + 1 /\ DOMAIN atendidos' = 1 .. n + 1
      /\ DOMAIN atendidos = 1 .. n
      /\ \A k \in 1 .. n : atendidos'[k] = atendidos[k]
  <2>1. atendidos \in Seq([pid : Algo, tiempo : Algo, dormido : Siesta])
    BY DEF TypeOK
  <2>2. atendidos' \in Seq([pid : Algo, tiempo : Algo, dormido : Siesta])
    BY RecibirTiempoForma
  <2>3. DOMAIN atendidos = 1 .. Len(atendidos) /\ DOMAIN atendidos' = 1 .. Len(atendidos')
    BY <2>1, <2>2, LenProperties
  <2> QED
    BY <1>1, <2>3, RecibirTiempoForma
<1>3. UNCHANGED <<pedidos, hilo>> /\ io = "tiempo" /\ io' = "duerme"
  BY DEF RecibirTiempo, Recibe
<1>4. n + 1 <= Len(pedidos) /\ Len(pedidos) \in Nat
  BY <1>2, <1>3 DEF Servidos, TypeOK
<1>5. /\ atendidos'[n + 1].pid = pedidos[n + 1].pid
      /\ atendidos'[n + 1].tiempo = pedidos[n + 1].tiempo
  BY <1>2, <1>3 DEF Servidos
<1>6. pedidos[n + 1] \in Pedidos
  BY <1>4 DEF TypeOK
<1>7. E(n + 1) = pedidos[n + 1]
  BY <1>6 DEF Pedidos
<1>8. R \in Seq({R[k] : k \in 1 .. n}) /\ Len(R) = n
  <2>1. R = [k \in 1 .. n |-> R[k]]
    BY <1>2
  <2> HIDE DEF R
  <2> QED
    BY <2>1
<1>9. R' = Append(R, pedidos[n + 1])
  <2> DEFINE A == Append(R, pedidos[n + 1])
             B == [k \in 1 .. n + 1 |->
                      [pid |-> atendidos'[k].pid, tiempo |-> atendidos'[k].tiempo]]
  <2>1. R' = B
    BY <1>2
  <2>2. \A k \in 1 .. n : R[k] = B[k]
    BY <1>2
  <2>3. B[n + 1] = pedidos[n + 1]
    BY <1>5, <1>7
  <2>4. B = [k \in 1 .. n + 1 |-> B[k]]
    OBVIOUS
  <2> HIDE DEF R, B
  <2>5. A = [k \in 1 .. n + 1 |-> IF k <= n THEN R[k] ELSE pedidos[n + 1]]
    BY <1>8
  <2>6. \A k \in 1 .. n + 1 : (IF k <= n THEN R[k] ELSE pedidos[n + 1]) = B[k]
    BY <2>2, <2>3
  <2> HIDE DEF A
  <2>7. A = B
    BY <2>4, <2>5, <2>6
  <2> QED
    BY <2>1, <2>7 DEF A
<1>10. /\ (io' = "terminado") = (io = "terminado") /\ io # "terminado"
       /\ (hilo' = "caido") = (hilo = "caido")
  BY <1>3
<1>11. Len(R) < Len(pedidos) /\ Len(R) + 1 = n + 1
  BY <1>4, <1>8
<1> HIDE DEF R
<1>12. R' = Append(R, pedidos[Len(R) + 1])
  BY <1>9, <1>11
<1>13. Fifo!Recibir
  BY <1>3, <1>10, <1>11, <1>12 DEF Fifo!Recibir, R
<1> QED
  BY <1>13 DEF Fifo!Next

\* The device ends by itself, and nothing is left (io.c:54-64).
LEMMA CanalTermina ==
    ASSUME TypeOK, EnCamino, Servidos, ~roto, RecvFallido
    PROVE  Fifo!Next
<1> DEFINE R == [k \in DOMAIN atendidos |->
                    [pid |-> atendidos[k].pid, tiempo |-> atendidos[k].tiempo]]
<1>1. /\ io \in {"pid", "tiempo"} /\ io' = "terminado" /\ hilo = "caido"
      /\ socket = <<>> /\ enRed = <<>>
      /\ UNCHANGED <<pedidos, atendidos, hilo>>
  BY DEF RecvFallido, HayFin
<1>2. PICK n \in Nat, m \in Nat : n = Len(atendidos) /\ m = Len(pedidos)
  BY DEF TypeOK
<1>3. Leidos <= 2 * m /\ Escrito(<<>>, Faltan)
  BY <1>1, <1>2 DEF EnCamino, Termino
<1>4. Len(Faltan) = 2 * m - Leidos /\ Leidos \in Nat
  BY <1>2, <1>3, FaltanForma
<1>5. Leidos = 2 * m
  <2>1. 0 = Ancho * Len(Faltan) /\ Len(Faltan) \in Nat
    BY <1>3, <1>4 DEF Escrito
  <2>2. \A x \in Nat : Ancho * x = 0 => x = 0
    BY Anchos
  <2>3. Len(Faltan) = 0
    BY <2>1, <2>2
  <2> QED
    BY <1>2, <1>3, <1>4, <2>3
<1>6. n = m
  BY <1>2, <1>5 DEF Leidos
<1>7. R = pedidos
  <2>1. pedidos = [k \in 1 .. m |-> pedidos[k]]
    BY <1>2 DEF TypeOK
  <2>2. DOMAIN atendidos = 1 .. m
    <3>1. atendidos \in Seq([pid : Algo, tiempo : Algo, dormido : Siesta])
      BY DEF TypeOK
    <3> QED
      BY <1>2, <1>6, <3>1, LenProperties
  <2>3. \A k \in 1 .. m :
           [pid |-> atendidos[k].pid, tiempo |-> atendidos[k].tiempo] = pedidos[k]
    <3> TAKE k \in 1 .. m
    <3>1. atendidos[k].pid = pedidos[k].pid /\ atendidos[k].tiempo = pedidos[k].tiempo
      <4>1. k \in 1 .. Len(atendidos)
        BY <1>2, <1>6
      <4>2. atendidos[k] = [pid |-> pedidos[k].pid, tiempo |-> pedidos[k].tiempo,
                            dormido |-> Dormido(pedidos[k].tiempo)]
        BY <4>1 DEF Servidos
      <4> QED
        BY <4>2
    <3>2. pedidos[k] \in [pid : Pids, tiempo : Tiempos]
      <4>1. pedidos[k] \in Pedidos
        BY <1>2 DEF TypeOK
      <4> QED
        BY <4>1 DEF Pedidos
    <3> QED
      BY <3>1, <3>2
  <2> QED
    BY <2>1, <2>2, <2>3
<1>8. R' = R
  BY <1>1
<1>9. /\ (io' = "terminado") = TRUE /\ (io = "terminado") = FALSE
      /\ (hilo' = "caido") = (hilo = "caido")
  BY <1>1
<1> HIDE DEF R
<1>10. Fifo!Terminar
  BY <1>1, <1>7, <1>8, <1>9 DEF Fifo!Terminar, R
<1> QED
  BY <1>10 DEF Fifo!Next

\* Until a recv takes a part of a number, a step is one of the channel.
LEMMA PasoCanal ==
    TypeOK /\ EnCamino /\ Servidos /\ Servidos' /\ [Next]_vars
        => [~roto' => [Fifo!Next]_(Fifo!vars)]_vars
<1> SUFFICES ASSUME TypeOK, EnCamino, Servidos, Servidos', [Next]_vars, ~roto'
             PROVE  [Fifo!Next]_(Fifo!vars)
  OBVIOUS
<1>0. roto \in BOOLEAN
  BY DEF TypeOK
<1>1. ASSUME NEW p \in Pedidos, Pedir(p) PROVE Fifo!Next
  BY <1>1, CanalEnvia
<1>2. CASE Entregar
  BY <1>2, CanalIgual DEF Entregar
<1>3. CASE EntregarAviso
  BY <1>3, CanalIgual DEF EntregarAviso
<1>4. CASE CaidaKernel
  BY <1>4, CanalIgual DEF CaidaKernel
<1>5. CASE Reiniciar
  BY <1>5, CanalIgual DEF Reiniciar
<1>6. CASE RecibirPid
  BY <1>6, CanalIgual DEF RecibirPid, Recibe
<1>7. CASE RecibirTiempo
  BY <1>7, CanalRecibe
<1>8. CASE Despertar
  <2>1. /\ UNCHANGED <<pedidos, atendidos, hilo>>
        /\ io = "duerme" /\ io' \in {"pid", "muerto"}
    BY <1>8 DEF Despertar
  <2> QED
    BY <2>1, CanalIgual
<1>9. CASE RecvFallido
  <2>1. ~roto
    BY <1>9 DEF RecvFallido
  <2> QED
    BY <1>9, <2>1, CanalTermina
<1>10. CASE Morir
  <2>1. UNCHANGED <<pedidos, atendidos, hilo>> /\ io # "terminado" /\ io' = "muerto"
    BY <1>10 DEF Morir, Termino
  <2> QED
    BY <2>1, CanalIgual
<1>11. CASE AtenderCliente
  <2>1. UNCHANGED <<pedidos, atendidos, io>> /\ hilo # "caido"
    BY <1>11 DEF AtenderCliente, LeerOperacion, LeerTamano, LeerContenido
  <2> QED
    BY <2>1, CanalIgual
<1>12. CASE UNCHANGED vars
  BY <1>12, CanalIgual DEF vars
<1> QED
  BY <1>1, <1>2, <1>3, <1>4, <1>5, <1>6, <1>7, <1>8, <1>9, <1>10, <1>11, <1>12
     DEF Next, MainIo

-----------------------------------------------------------------------------
(* Theorems *)

\* It holds at the start.
LEMMA InicioInv == Init => DispositivoInv
<1> SUFFICES ASSUME Init PROVE DispositivoInv
  OBVIOUS
<1>1. TypeOK
  <2>1. pid \in Numero /\ tiempo \in Numero
    BY DEF Init, Numero
  <2>2. /\ pedidos \in Seq(Pedidos) /\ enRed \in Seq(Byte) /\ socket \in Seq(Byte)
        /\ atendidos \in Seq([pid : Algo, tiempo : Algo, dormido : Siesta])
        /\ Len(atendidos) = 0
    BY EmptySeq DEF Init
  <2>3. cortes \in 0 .. MaxCortes
    BY Medidas DEF Init
  <2>4. enVuelta \in Seq(Byte) /\ avisos \in Seq(Byte)
    BY EmptySeq DEF Init
  <2>5. /\ io \in {"pid", "tiempo", "duerme", "terminado", "muerto"}
        /\ hilo = "operacion" /\ tam = Basura /\ roto \in BOOLEAN
    BY DEF Init
  <2> QED
    BY <2>1, <2>2, <2>3, <2>4, <2>5 DEF TypeOK
<1>2. Len(pedidos) = 0 /\ Len(atendidos) = 0 /\ Leidos = 0
  BY DEF Init, Leidos
<1>3. SoloCeros /\ AtiendeMientrasVive
  BY EmptySeq DEF Init, SoloCeros, AtiendeMientrasVive
<1>4. EnCamino
  <2>1. Len(Faltan) = 0
    BY <1>1, <1>2, FaltanForma
  <2>2. socket \o enRed = <<>>
    BY DEF Init
  <2>3. Len(<<>>) = Ancho * 0
    BY Anchos
  <2>4. Escrito(<<>>, Faltan)
    BY <2>1, <2>3 DEF Escrito
  <2> QED
    BY <1>2, <2>2, <2>4 DEF EnCamino
<1>5. PidLeido /\ Servidos
  BY <1>2 DEF Init, PidLeido, Servidos
<1> QED
  BY <1>1, <1>3, <1>4, <1>5 DEF DispositivoInv

\* And every step keeps it.
LEMMA PasoInv == DispositivoInv /\ [Next]_vars => DispositivoInv'
  BY PasoTipos, PasoAtiende, PasoSirve DEF DispositivoInv

\* What the requests are is in the connection or has been taken.
THEOREM DispositivoSiempre == Spec => []DispositivoInv
  BY InicioInv, PasoInv, PTL DEF Spec

\* The variables of the device, of the network and of the thread have their types.
THEOREM TiposSiempre == Spec => []TypeOK
  BY DispositivoSiempre, PTL DEF DispositivoInv

\* However its answers are cut, and wherever in a packet the thread takes them to be,
\* none is the end of a device that lives (io.c:17-52, socket.c:262-266,
\* kernel.c:225-255): for any requests, cuts, width and base.
THEOREM AtencionSiempre == Spec => []AtiendeMientrasVive
  BY DispositivoSiempre, PTL DEF DispositivoInv

\* A request that was received whole is slept for as long as it says, if it fits in
\* an unsigned int (io.c:50).
THEOREM DuermeSiempre == Spec => []DuermeLoPedido
<1>1. DispositivoInv => DuermeLoPedido
  <2> SUFFICES ASSUME TypeOK, Servidos, ~roto, NEW k \in DOMAIN atendidos,
                      pedidos[k].tiempo * Mil < Limite
               PROVE  atendidos[k].dormido = pedidos[k].tiempo * Mil
    BY DEF DispositivoInv, DuermeLoPedido
  <2>1. k \in 1 .. Len(atendidos) /\ k \in 1 .. Len(pedidos)
    <3>1. atendidos \in Seq([pid : Algo, tiempo : Algo, dormido : Siesta])
          /\ pedidos \in Seq(Pedidos)
      BY DEF TypeOK
    <3>2. k \in 1 .. Len(atendidos) /\ Len(atendidos) \in Nat /\ Len(pedidos) \in Nat
      BY <3>1, LenProperties
    <3> QED
      BY <3>2 DEF Servidos
  <2>2. atendidos[k].dormido = Dormido(pedidos[k].tiempo)
    <3>1. atendidos[k] = [pid |-> pedidos[k].pid, tiempo |-> pedidos[k].tiempo,
                          dormido |-> Dormido(pedidos[k].tiempo)]
      BY <2>1 DEF Servidos
    <3> QED
      BY <3>1
  <2>3. pedidos[k].tiempo \in Nat
    <3>1. pedidos[k] \in Pedidos
      BY <2>1 DEF TypeOK
    <3> QED
      BY <3>1, MedidasForma DEF Pedidos
  <2> DEFINE t == pedidos[k].tiempo
  <2> HIDE DEF t
  <2>4. Dormido(t) = (t * Mil) % Limite
    BY <2>3, Anchos DEF Dormido, t
  <2>5. t * Mil \in Nat /\ t * Mil < Limite
    BY <2>3, Medidas DEF t
  <2>6. \A x \in Nat : x < Limite => x % Limite = x
    BY MedidasForma
  <2> QED
    BY <2>2, <2>4, <2>5, <2>6 DEF t
<1> QED
  BY <1>1, DispositivoSiempre, PTL

\* And so the connection is the channel Canal until a recv takes a part of a number
\* (io.c:45-64).
THEOREM CanalSiempre == Spec => CanalHastaRoto
<1>1. Init => Fifo!Init
  BY DEF Init, Fifo!Init
<1>2. DispositivoInv /\ DispositivoInv' /\ [Next]_vars
        => [~roto' => [Fifo!Next]_(Fifo!vars)]_vars
  BY PasoCanal DEF DispositivoInv
<1> QED
  BY <1>1, <1>2, DispositivoSiempre, PTL DEF Spec, CanalHastaRoto

=============================================================================
