---------------------------- MODULE EnlacePruebas ----------------------------
(***************************************************************************)
(* Proofs about Enlace: TypeOK, CierraAlTerminar and CanalHastaCorto.      *)
(***************************************************************************)
EXTENDS Enlace, ProtocoloPruebas

-----------------------------------------------------------------------------
(* Sequences cut in two *)

Principio(s, n) == SubSeq(s, 1, n)
Final(s, n)     == SubSeq(s, n + 1, Len(s))

\* What comes before a place and what comes after.
LEMMA Partida ==
    ASSUME NEW s \in Seq(Byte), NEW n \in 0 .. Len(s)
    PROVE  /\ Principio(s, n) \in Seq(Byte) /\ Len(Principio(s, n)) = n
           /\ Final(s, n) \in Seq(Byte) /\ Len(Final(s, n)) = Len(s) - n
           /\ \A i \in 1 .. n : Principio(s, n)[i] = s[i]
           /\ \A i \in 1 .. Len(s) - n : Final(s, n)[i] = s[n + i]
           /\ Tras(Principio(s, n), Final(s, n)) = s
<1>1. PICK m \in Nat : m = Len(s)
  OBVIOUS
<1>2. \A i \in 1 .. m : s[i] \in Byte
  BY <1>1
<1>3. n \in Nat /\ n <= m /\ n \in Int /\ m \in Int /\ n + 1 \in Int /\ 1 \in Int
  BY <1>1
<1>4. /\ Principio(s, n) \in Seq(Byte) /\ Len(Principio(s, n)) = n
      /\ \A i \in 1 .. n : Principio(s, n)[i] = s[i]
  <2>1. \A i \in 1 .. n : s[i] \in Byte
    BY <1>2, <1>3
  <2>2. /\ SubSeq(s, 1, n) \in Seq(Byte)
        /\ Len(SubSeq(s, 1, n)) = IF 1 <= n THEN n - 1 + 1 ELSE 0
        /\ \A i \in 1 .. n - 1 + 1 : SubSeq(s, 1, n)[i] = s[1 + i - 1]
    BY <1>3, <2>1, SubSeqProperties
  <2> QED
    BY <1>3, <2>2 DEF Principio
<1>5. /\ Final(s, n) \in Seq(Byte) /\ Len(Final(s, n)) = m - n
      /\ \A i \in 1 .. m - n : Final(s, n)[i] = s[n + i]
  <2>1. PICK u \in Int : u = n + 1
    BY <1>3
  <2>2. \A i \in u .. m : s[i] \in Byte
    BY <1>2, <1>3, <2>1
  <2>3. /\ SubSeq(s, u, m) \in Seq(Byte)
        /\ Len(SubSeq(s, u, m)) = IF u <= m THEN m - u + 1 ELSE 0
        /\ \A i \in 1 .. m - u + 1 : SubSeq(s, u, m)[i] = s[u + i - 1]
    BY <1>3, <2>2, SubSeqProperties
  <2>4. PICK q : q = SubSeq(s, u, m) /\ q = Final(s, n)
    BY <1>1, <2>1 DEF Final
  <2>5. q \in Seq(Byte) /\ \A i \in 1 .. m - u + 1 : q[i] = s[u + i - 1]
    BY <2>3, <2>4
  <2>6. Len(q) = m - n
    BY <1>3, <2>1, <2>3, <2>4
  <2>7. ASSUME NEW i \in 1 .. m - n PROVE q[i] = s[n + i]
    <3>1. i \in 1 .. m - u + 1 /\ u + i - 1 = n + i
      BY <1>3, <2>1
    <3> QED
      BY <2>5, <3>1
  <2> QED
    BY <2>4, <2>5, <2>6, <2>7
<1>6. Tras(Principio(s, n), Final(s, n)) = s
  <2>1. PICK a \in Seq(Byte), b \in Seq(Byte) : a = Principio(s, n) /\ b = Final(s, n)
    BY <1>4, <1>5
  <2>2. /\ Len(a) = n /\ Len(b) = m - n
        /\ \A i \in 1 .. n : a[i] = s[i]
        /\ \A i \in 1 .. m - n : b[i] = s[n + i]
    BY <1>4, <1>5, <2>1
  <2>3. PICK q \in Seq(Byte) :
          /\ q = a \o b /\ Len(q) = n + (m - n)
          /\ \A i \in 1 .. n + (m - n) : q[i] = IF i <= n THEN a[i] ELSE b[i - n]
    <3>1. PICK v, w : v = Len(a) /\ w = Len(b)
      OBVIOUS
    <3>2. PICK q : q = a \o b
      OBVIOUS
    <3>3. /\ q \in Seq(Byte) /\ Len(q) = v + w
          /\ \A i \in 1 .. v + w : q[i] = IF i <= v THEN a[i] ELSE b[i - v]
      BY <3>1, <3>2, ConcatProperties
    <3>4. v = n /\ w = m - n
      BY <2>2, <3>1
    <3> QED
      BY <3>2, <3>3, <3>4
  <2>4. \A i \in 1 .. m : q[i] = s[i]
    <3> TAKE i \in 1 .. m
    <3>1. i \in 1 .. n + (m - n)
      BY <1>3
    <3>2. CASE i <= n
      BY <2>2, <2>3, <3>1, <3>2
    <3>3. CASE i > n
      <4>1. i - n \in 1 .. m - n /\ n + (i - n) = i /\ ~(i <= n)
        BY <1>3, <3>3
      <4>2. b[i - n] = s[i]
        BY <2>2, <4>1
      <4> QED
        BY <2>3, <3>1, <4>1, <4>2
    <3> QED
      BY <1>3, <3>2, <3>3
  <2>5. Len(q) = m
    BY <1>3, <2>3
  <2>6. q = s
    BY <1>1, <2>4, <2>5, SeqEqual
  <2> QED
    BY <2>1, <2>3, <2>6 DEF Tras
<1> QED
  BY <1>1, <1>4, <1>5, <1>6

\* Two ways to cut the same bytes at the same place are the same.
LEMMA MismoCorte ==
    ASSUME NEW a \in Seq(Byte), NEW b \in Seq(Byte), NEW c \in Seq(Byte), NEW d \in Seq(Byte),
           Tras(a, b) = Tras(c, d), Len(a) = Len(c)
    PROVE  a = c /\ b = d
<1>1. PICK n \in Nat, m \in Nat : n = Len(a) /\ m = Len(b)
  OBVIOUS
<1>2. Len(c) = n /\ Len(d) = m
  <2>1. Len(a \o b) = n + m /\ Len(c \o d) = n + Len(d) /\ Len(d) \in Nat
    BY <1>1
  <2> QED
    BY <1>1, <2>1 DEF Tras
<1>3. \A i \in 1 .. n : a[i] = c[i]
  <2> TAKE i \in 1 .. n
  <2>1. (a \o b)[i] = a[i] /\ (c \o d)[i] = c[i]
    BY <1>1, <1>2
  <2> QED
    BY <2>1 DEF Tras
<1>4. \A i \in 1 .. m : b[i] = d[i]
  <2> TAKE i \in 1 .. m
  <2>1. (a \o b)[n + i] = b[i] /\ (c \o d)[n + i] = d[i]
    BY <1>1, <1>2, SMTT(30)
  <2> QED
    BY <2>1 DEF Tras
<1> QED
  BY <1>1, <1>2, <1>3, <1>4, SeqEqual

\* Bytes may be joined in any grouping, and none before or after change nothing.
LEMMA Juntar ==
    /\ \A a, b, c \in Seq(Byte) : Tras(Tras(a, b), c) = Tras(a, Tras(b, c))
    /\ <<>> \in Seq(Byte) /\ Len(<<>>) = 0
    /\ \A a \in Seq(Byte) : Tras(a, <<>>) = a /\ Tras(<<>>, a) = a /\ (Len(a) = 0 => a = <<>>)
    /\ \A a, b \in Seq(Byte) : Tras(a, b) \in Seq(Byte) /\ Len(Tras(a, b)) = Len(a) + Len(b)
<1>1. \A a, b, c \in Seq(Byte) : Tras(Tras(a, b), c) = Tras(a, Tras(b, c))
  BY ConcatAssociative DEF Tras
<1>2. <<>> \in Seq(Byte) /\ Len(<<>>) = 0
  OBVIOUS
<1>3. ASSUME NEW a \in Seq(Byte)
      PROVE  Tras(a, <<>>) = a /\ Tras(<<>>, a) = a /\ (Len(a) = 0 => a = <<>>)
  <2>1. PICK v \in Seq(Byte) : v = <<>>
    BY <1>2
  <2>2. a \o v = a /\ v \o a = a
    BY <2>1
  <2> QED
    BY <2>1, <2>2 DEF Tras
<1>4. \A a, b \in Seq(Byte) : Tras(a, b) \in Seq(Byte) /\ Len(Tras(a, b)) = Len(a) + Len(b)
  BY DEF Tras
<1> QED
  BY <1>1, <1>2, <1>3, <1>4

-----------------------------------------------------------------------------
(* Packets *)

\* The three parts of the packet of a call.
Codigo(c) == EnBytes(Contenido(c).operacion)
Cuerpo(c) == SubSeq(Paquete(c), 2 * Ancho + 1, Len(Paquete(c)))
Tamano(c) == EnBytes(Len(Cuerpo(c)))

\* A call whose string fits.
EsLlamada(c) == c.funcion \in {"enviar_handshake", "enviar_mensaje"} /\ Corta(c.texto)

\* Every call of a script is one (kernel.c:42, cpu.c:28-37).
LEMMA LlamadaForma ==
    ASSUME NEW g \in Guiones, NEW k \in 1 .. Len(g.llamadas)
    PROVE  EsLlamada(g.llamadas[k]) /\ Len(g.llamadas) \in Nat
<1>1. /\ g.llamadas \in Seq(Llamadas)
      /\ 3 * Ancho + Len(g.llamadas[k].texto) + 2 < Limite
  BY GuionesDelCodigo
<1>2. g.llamadas[k] \in Llamadas /\ Len(g.llamadas) \in Nat
  BY <1>1
<1>3. /\ g.llamadas[k].funcion \in {"enviar_handshake", "enviar_mensaje"}
      /\ g.llamadas[k].texto \in Seq(Byte \ {0})
  BY <1>2 DEF Llamadas
<1> QED
  BY <1>1, <1>2, <1>3 DEF EsLlamada, Corta

\* What a call sends, and what the reader of all of it has (protocolo.c:350-399,
\* kernel.c:217-242).
LEMMA PaqueteForma ==
    ASSUME NEW c, EsLlamada(c)
    PROVE  /\ Codigo(c) \in Seq(Byte) /\ Len(Codigo(c)) = Ancho
           /\ Tamano(c) \in Seq(Byte) /\ Len(Tamano(c)) = Ancho
           /\ Cuerpo(c) \in Seq(Byte)
           /\ Paquete(c) = Tras(Tras(Codigo(c), Tamano(c)), Cuerpo(c))
           /\ Contenido(c).operacion \in {HANDSHAKE, MENSAJE}
           /\ Valor(Codigo(c)) = Contenido(c).operacion
           /\ Valor(Tamano(c)) = Len(Cuerpo(c))
           /\ Deserializar(Contenido(c).operacion,
                           Copiar(CrearBuffer(Len(Cuerpo(c))), Cuerpo(c)))
                 = Contenido(c).datos
           /\ Contenido(c) = [operacion |-> Contenido(c).operacion,
                              datos |-> Contenido(c).datos]
<1>1. PICK t : t = c.texto
  OBVIOUS
<1>2. Corta(t) /\ 1 < Limite /\ 3 < Limite /\ Limite \in Nat
  <2>1. Corta(t)
    BY <1>1 DEF EsLlamada
  <2>2. t \in Seq(Byte \ {0}) /\ 3 * Ancho + Len(t) + 2 < Limite
    BY <2>1 DEF Corta
  <2>3. PICK n \in Nat : n = Len(t)
    BY <2>2
  <2>4. Ancho \in Nat /\ Ancho > 0 /\ Limite \in Nat
    BY LimiteForma
  <2> QED
    BY <2>1, <2>2, <2>3, <2>4
<1>3. PICK op \in Nat, s \in Seq(Byte), o \in Nat :
        /\ op \in {HANDSHAKE, MENSAJE} /\ Contenido(c).operacion = op
        /\ Paquete(c) = SerializarPaquete(op, Lleno(Len(s), o, s))
        /\ Len(s) < Limite
        /\ Deserializar(op, Lleno(Len(s), 0, s)) = Contenido(c).datos
        /\ Contenido(c) = [operacion |-> op, datos |-> Contenido(c).datos]
  <2>1. CASE c.funcion = "enviar_handshake"
    <3>1. PICK valor : valor = HandshakeDe(c.recurso, t)
      OBVIOUS
    <3>2. valor = [codigo |-> 99, recurso |-> IO, nombre |-> MensajeDe(t)]
      BY <3>1 DEF HandshakeDe, MensajeDe
    <3>3. 99 \in Byte /\ IO \in Nat /\ IO < Limite
      BY <1>2, GuionesDelCodigo DEF IO
    <3>4. PICK s \in Seq(Byte), o \in Nat :
            /\ SerializarHandshake(valor) = Lleno(Len(s), o, s) /\ Len(s) < Limite
            /\ \A i \in Nat : DeserializarHandshake(Lleno(Len(s), i, s)) = valor
      BY <1>2, <3>2, <3>3, HandshakeForma
    <3>5. Paquete(c) = SerializarPaquete(HANDSHAKE, Lleno(Len(s), o, s))
      BY <1>1, <2>1, <3>1, <3>4 DEF Paquete, PaqueteHandshake
    <3>6. Contenido(c) = [operacion |-> HANDSHAKE, datos |-> valor]
      BY <1>1, <2>1, <3>1 DEF Contenido
    <3>7. Deserializar(HANDSHAKE, Lleno(Len(s), 0, s)) = valor
      BY <3>4 DEF Deserializar, HANDSHAKE, MENSAJE, CREAR_PROCESO
    <3>8. /\ HANDSHAKE \in Nat /\ Contenido(c).operacion = HANDSHAKE
          /\ Contenido(c).datos = valor
      BY <3>6 DEF HANDSHAKE
    <3> QED
      BY <3>4, <3>5, <3>6, <3>7, <3>8
  <2>2. CASE c.funcion = "enviar_mensaje"
    <3>1. PICK s \in Seq(Byte), o \in Nat :
            /\ SerializarMensaje(MensajeDe(t)) = Lleno(Len(s), o, s) /\ Len(s) < Limite
            /\ \A i \in Nat : DeserializarMensaje(Lleno(Len(s), i, s)) = MensajeDe(t)
      BY <1>2, MensajeForma
    <3>2. c.funcion # "enviar_handshake"
      BY <2>2
    <3>3. Paquete(c) = SerializarPaquete(MENSAJE, Lleno(Len(s), o, s))
      BY <1>1, <3>1, <3>2 DEF Paquete, PaqueteMensaje
    <3>4. Contenido(c) = [operacion |-> MENSAJE, datos |-> MensajeDe(t)]
      BY <1>1, <3>2 DEF Contenido
    <3>5. Deserializar(MENSAJE, Lleno(Len(s), 0, s)) = MensajeDe(t)
      BY <3>1 DEF Deserializar, HANDSHAKE, MENSAJE, CREAR_PROCESO
    <3>6. /\ MENSAJE \in Nat /\ Contenido(c).operacion = MENSAJE
          /\ Contenido(c).datos = MensajeDe(t)
      BY <3>4 DEF MENSAJE
    <3> QED
      BY <3>1, <3>3, <3>4, <3>5, <3>6
  <2> QED
    BY <2>1, <2>2 DEF EsLlamada
<1>4. /\ Paquete(c) = Tras(Tras(EnBytes(op), EnBytes(Len(s))), s)
      /\ SubSeq(Paquete(c), 2 * Ancho + 1, Len(Paquete(c))) = s
  <2>1. EsPaquete(Paquete(c), op, s)
    BY <1>3, PaqueteEscrito
  <2> QED
    BY <2>1 DEF EsPaquete
<1>5. Cuerpo(c) = s /\ Codigo(c) = EnBytes(op) /\ Tamano(c) = EnBytes(Len(s))
  BY <1>3, <1>4 DEF Cuerpo, Codigo, Tamano
<1>6. /\ EnBytes(op) \in Seq(Byte) /\ Len(EnBytes(op)) = Ancho
      /\ EnBytes(Len(s)) \in Seq(Byte) /\ Len(EnBytes(Len(s))) = Ancho
  BY Partes
<1>7. Valor(EnBytes(op)) = op /\ Valor(EnBytes(Len(s))) = Len(s)
  <2>1. op \in 0 .. Limite - 1 /\ Len(s) \in 0 .. Limite - 1
    BY <1>2, <1>3 DEF HANDSHAKE, MENSAJE
  <2> QED
    BY <2>1, IdaYVueltaDeNumeros
<1>8. Copiar(CrearBuffer(Len(s)), s) = Lleno(Len(s), 0, s)
  BY <1>3, BloqueRecibido
<1> QED
  BY <1>3, <1>4, <1>5, <1>6, <1>7, <1>8

\* A packet before others: its code, its size, its stream and theirs.
LEMMA PaqueteAntes ==
    ASSUME NEW c, EsLlamada(c)
    PROVE  /\ Paquete(c) \in Seq(Byte) /\ Len(Paquete(c)) \in Nat /\ Len(Paquete(c)) > 0
           /\ \A r \in Seq(Byte) :
                 /\ Tras(Paquete(c), r) \in Seq(Byte)
                 /\ Len(Tras(Paquete(c), r)) = Len(Paquete(c)) + Len(r)
                 /\ Tras(Tamano(c), Tras(Cuerpo(c), r)) \in Seq(Byte)
                 /\ Tras(Cuerpo(c), r) \in Seq(Byte)
                 /\ Len(Tras(Tamano(c), Tras(Cuerpo(c), r))) >= Len(r)
                 /\ Len(Tras(Cuerpo(c), r)) >= Len(r)
                 /\ Tras(Paquete(c), r)
                       = Tras(Codigo(c), Tras(Tamano(c), Tras(Cuerpo(c), r)))
<1>1. PICK x \in Seq(Byte), y \in Seq(Byte), z \in Seq(Byte) :
        /\ x = Codigo(c) /\ y = Tamano(c) /\ z = Cuerpo(c) /\ Len(x) = Ancho /\ Len(y) = Ancho
        /\ Paquete(c) = Tras(Tras(x, y), z)
  BY PaqueteForma
<1>2. PICK q \in Seq(Byte) : q = Tras(x, y) /\ Len(q) = Ancho + Ancho
  <2>1. Tras(x, y) \in Seq(Byte) /\ Len(Tras(x, y)) = Len(x) + Len(y)
    BY Juntar
  <2> QED
    BY <1>1, <2>1
<1>3. PICK p \in Seq(Byte), l \in Nat :
        /\ p = Tras(q, z) /\ p = Paquete(c) /\ Len(p) = l /\ l = Ancho + Ancho + Len(z)
  <2>1. Tras(q, z) \in Seq(Byte) /\ Len(Tras(q, z)) = Len(q) + Len(z)
    BY Juntar
  <2>2. Len(Tras(q, z)) \in Nat
    BY <2>1
  <2>3. Tras(q, z) = Paquete(c)
    BY <1>1, <1>2
  <2> QED
    BY <1>2, <2>1, <2>2, <2>3
<1>4. l > 0
  <2>1. Len(z) \in Nat
    OBVIOUS
  <2> QED
    BY <1>3, <2>1, Anchos
<1>5. ASSUME NEW r \in Seq(Byte)
      PROVE  /\ Tras(p, r) \in Seq(Byte) /\ Len(Tras(p, r)) = l + Len(r)
             /\ Tras(y, Tras(z, r)) \in Seq(Byte) /\ Tras(z, r) \in Seq(Byte)
             /\ Len(Tras(y, Tras(z, r))) >= Len(r) /\ Len(Tras(z, r)) >= Len(r)
             /\ Tras(p, r) = Tras(x, Tras(y, Tras(z, r)))
  <2>1. PICK u \in Seq(Byte) : u = Tras(z, r) /\ Len(u) = Len(z) + Len(r)
    <3>1. Tras(z, r) \in Seq(Byte) /\ Len(Tras(z, r)) = Len(z) + Len(r)
      BY Juntar
    <3> QED
      BY <3>1
  <2>2. Tras(y, u) \in Seq(Byte) /\ Len(Tras(y, u)) = Len(y) + Len(u)
    BY Juntar
  <2>3. Len(r) \in Nat /\ Len(y) \in Nat /\ Len(z) \in Nat
    OBVIOUS
  <2>4. Tras(p, r) \in Seq(Byte) /\ Len(Tras(p, r)) = l + Len(r)
    <3>1. Tras(p, r) \in Seq(Byte) /\ Len(Tras(p, r)) = Len(p) + Len(r)
      BY Juntar
    <3> QED
      BY <1>3, <3>1
  <2>5. Tras(p, r) = Tras(q, u)
    <3>1. Tras(Tras(q, z), r) = Tras(q, Tras(z, r))
      BY Juntar
    <3> QED
      BY <1>3, <2>1, <3>1
  <2>6. Tras(q, u) = Tras(x, Tras(y, u))
    <3>1. Tras(Tras(x, y), u) = Tras(x, Tras(y, u))
      BY Juntar
    <3> QED
      BY <1>2, <3>1
  <2> QED
    BY <2>1, <2>2, <2>3, <2>4, <2>5, <2>6
<1> QED
  BY <1>1, <1>3, <1>4, <1>5

\* Whatever bytes a recv gets, they stand for a number.
LEMMA ValorNatural ==
    ASSUME NEW n \in 0 .. Ancho, NEW s \in Seq(Byte), Len(s) = n,
           NEW resto \in [1 .. Ancho - n -> BytesBasura]
    PROVE  Valor(s \o resto) \in Nat
<1>1. PICK m \in Nat : m = Ancho - n /\ n + m = Ancho /\ n \in Nat /\ Ancho \in Nat
  BY Anchos
<1>2. PICK r \in Seq(Byte) : r = resto /\ Len(r) = m
  <2>1. resto \in [1 .. m -> Byte]
    BY <1>1, Lectores
  <2> QED
    BY <1>1, <2>1
<1>3. PICK q \in Seq(Byte) : q = s \o r /\ Len(q) = Ancho
  <2>1. s \o r \in Seq(Byte) /\ Len(s \o r) = Len(s) + Len(r)
    BY ConcatProperties
  <2> QED
    BY <1>1, <1>2, <2>1
<1>4. q \in [1 .. Ancho -> Byte]
  <2>1. q \in [1 .. Len(q) -> Byte]
    BY LenProperties
  <2> QED
    BY <1>3, <2>1
<1>5. PICK k \in Nat : k = Ancho /\ k <= Ancho
  BY <1>1
<1>6. Valor(q) \in Nat
  <2>1. q \in [1 .. k -> Byte]
    BY <1>4, <1>5
  <2> QED
    BY <1>5, <2>1, ValorNumero
<1>7. s \o resto = q
  BY <1>2, <1>3
<1> QED
  BY <1>6, <1>7

-----------------------------------------------------------------------------
(* Types *)

\* With what the reader knows at each recv.
Tipos ==
    /\ TypeOK
    /\ lector \in {"tamano", "contenido"} => operacion \in ConBuffer
    /\ lector = "contenido" => tam \in Nat

\* Bytes that have been delivered and taken are bytes of the sequences.
LEMMA TomadoForma ==
    ASSUME NEW n \in Nat, socket \in Seq(Byte)
    PROVE  /\ Tomado(n) \in Nat /\ Tomado(n) <= n /\ Tomado(n) <= Len(socket)
           /\ Tomado(n) < n => Tomado(n) = Len(socket)
           /\ Recibido(n) = Principio(socket, Tomado(n)) /\ Len(Recibido(n)) = Tomado(n)
           /\ Recibido(n) \in Seq(Byte) /\ Final(socket, Tomado(n)) \in Seq(Byte)
           /\ Len(Final(socket, Tomado(n))) = Len(socket) - Tomado(n)
           /\ socket = Tras(Recibido(n), Final(socket, Tomado(n)))
<1>1. PICK k \in Nat, m \in Nat : m = Len(socket) /\ k = Tomado(n) /\ k <= n /\ k <= m /\ (k < n => k = m)
  BY DEF Tomado
<1>2. k \in 0 .. Len(socket)
  BY <1>1
<1>3. Recibido(n) = Principio(socket, k)
  BY <1>1 DEF Recibido, Principio
<1>4. /\ Principio(socket, k) \in Seq(Byte) /\ Len(Principio(socket, k)) = k
      /\ Final(socket, k) \in Seq(Byte) /\ Len(Final(socket, k)) = Len(socket) - k
      /\ Tras(Principio(socket, k), Final(socket, k)) = socket
  BY <1>2, Partida
<1> QED
  BY <1>1, <1>3, <1>4

\* A number that a recv leaves is a natural, be it made of unwritten bytes.
LEMMA RecibeForma ==
    ASSUME socket \in Seq(Byte), NEW numero, Recibe(numero)
    PROVE  numero \in Nat
<1>1. PICK resto \in [1 .. Ancho - Tomado(Ancho) -> BytesBasura] :
        numero = Valor(Recibido(Ancho) \o resto)
  BY DEF Recibe
<1>2. PICK k \in 0 .. Ancho, s \in Seq(Byte) :
        k = Tomado(Ancho) /\ s = Recibido(Ancho) /\ Len(s) = k
  <2>1. Ancho \in Nat
    BY Anchos
  <2> QED
    BY <2>1, TomadoForma
<1>3. resto \in [1 .. Ancho - k -> BytesBasura] /\ numero = Valor(s \o resto)
  BY <1>1, <1>2
<1> QED
  BY <1>2, <1>3, ValorNatural

\* Where the reader goes for each code (kernel.c:217-255, memoria.c:64-106).
LEMMA TrasOperacionForma ==
    ASSUME NEW codigo, codigo \in Nat
    PROVE  /\ TrasOperacion(codigo) \subseteq {"operacion", "tamano", "terminado", "caido"}
           /\ "tamano" \in TrasOperacion(codigo) => codigo \in ConBuffer
           /\ "terminado" \in TrasOperacion(codigo) => codigo = DESCONEXION
           /\ codigo \in ConBuffer => TrasOperacion(codigo) = {"tamano"}
           /\ codigo = DESCONEXION => TrasOperacion(codigo) = {"terminado", "caido"}
<1>1. DESCONEXION \notin ConBuffer
  BY DEF ConBuffer, DESCONEXION, HANDSHAKE, MENSAJE, CREAR_PROCESO
<1>2. CASE codigo \in ConBuffer
  <2>1. TrasOperacion(codigo) = {"tamano"}
    BY <1>1, <1>2 DEF TrasOperacion
  <2> QED
    BY <1>1, <1>2, <2>1
<1>3. CASE codigo = DESCONEXION
  <2>1. TrasOperacion(codigo) = {"terminado", "caido"}
    BY <1>1, <1>3 DEF TrasOperacion
  <2> QED
    BY <1>1, <1>3, <2>1
<1>4. CASE codigo \notin ConBuffer /\ codigo # DESCONEXION
  <2>1. TrasOperacion(codigo) = {"operacion", "caido"}
    BY <1>4 DEF TrasOperacion
  <2> QED
    BY <1>4, <2>1
<1> QED
  BY <1>2, <1>3, <1>4

\* The types hold when the connection is made.
LEMMA TiposInicio == Init => Tipos
<1> SUFFICES ASSUME Init PROVE Tipos
  OBVIOUS
<1>1. guion \in Guiones /\ guion.cortes \in Nat /\ guion.llamadas \in Seq(Llamadas)
  BY GuionesDelCodigo DEF Init
<1>2. Len(guion.llamadas) \in Nat /\ Len(recibidos) = 0
  BY <1>1 DEF Init
<1>3. hechas \in 0 .. Len(guion.llamadas) /\ cortes \in 0 .. guion.cortes
  BY <1>1, <1>2 DEF Init
<1>4. enRed \in Seq(Byte) /\ socket \in Seq(Byte)
  BY Juntar DEF Init
<1>5. \A k \in 1 .. Len(recibidos) : recibidos[k].operacion \in ConBuffer
  BY <1>2
<1> QED
  BY <1>1, <1>3, <1>4, <1>5 DEF Init, Tipos, TypeOK

\* One step per action.
LEMMA TiposPaso == Tipos /\ [Next]_vars => Tipos'
<1> SUFFICES ASSUME Tipos, [Next]_vars PROVE Tipos'
  OBVIOUS
<1> USE DEF Tipos, TypeOK
<1>1. PICK c \in Nat : c = guion.cortes
  BY GuionesDelCodigo
<1>2. PICK l \in Nat : l = Len(guion.llamadas)
  BY GuionesDelCodigo
<1>3. CASE Enviar
  <2>1. EsLlamada(guion.llamadas[hechas + 1])
    <3>1. PICK k : k = hechas + 1
      OBVIOUS
    <3>2. k \in 1 .. Len(guion.llamadas)
      BY <1>2, <1>3, <3>1 DEF Enviar
    <3>3. EsLlamada(guion.llamadas[k])
      BY <3>2, LlamadaForma
    <3> QED
      BY <3>1, <3>3
  <2>2. Paquete(guion.llamadas[hechas + 1]) \in Seq(Byte)
    BY <2>1, PaqueteAntes
  <2>3. enRed' \in Seq(Byte)
    BY <1>3, <2>2 DEF Enviar
  <2>4. hechas' \in 0 .. Len(guion.llamadas)
    BY <1>2, <1>3 DEF Enviar
  <2> QED
    BY <1>3, <2>3, <2>4 DEF Enviar, varsLector, ConBuffer
<1>4. CASE Terminar
  BY <1>4 DEF Terminar, varsLector, ConBuffer
<1>5. CASE Entregar
  <2>1. PICK n \in 1 .. Len(enRed) :
          /\ n < Len(enRed) => cortes > 0
          /\ socket' = socket \o Principio(enRed, n) /\ enRed' = Final(enRed, n)
          /\ cortes' = IF n < Len(enRed) THEN cortes - 1 ELSE cortes
    BY <1>5 DEF Entregar, Principio, Final
  <2>2. n \in 0 .. Len(enRed)
    OBVIOUS
  <2>3. Principio(enRed, n) \in Seq(Byte) /\ Final(enRed, n) \in Seq(Byte)
    BY <2>2, Partida
  <2>4. cortes' \in 0 .. guion.cortes
    BY <1>1, <2>1
  <2>5. socket' \in Seq(Byte) /\ enRed' \in Seq(Byte)
    BY <2>1, <2>3
  <2> QED
    BY <1>5, <2>4, <2>5 DEF Entregar, varsEmisor, varsLector, ConBuffer
<1>6. ASSUME NEW n \in Nat, Consumir(n) PROVE socket' \in Seq(Byte) /\ corto' \in BOOLEAN
  <2>1. socket' = Final(socket, Tomado(n)) /\ corto' \in BOOLEAN
    BY <1>6 DEF Consumir, Final
  <2> QED
    BY <2>1, TomadoForma
<1>7. CASE RecibirOperacion
  <2>1. operacion' \in Nat
    <3>1. CASE HayFin
      BY <1>7, <3>1 DEF RecibirOperacion, DESCONEXION
    <3>2. CASE ~HayFin
      <4>1. Recibe(operacion')
        BY <1>7, <3>2 DEF RecibirOperacion
      <4> QED
        BY <4>1, RecibeForma
    <3> QED
      BY <3>1, <3>2
  <2>2. lector' \in TrasOperacion(operacion')
    BY <1>7 DEF RecibirOperacion
  <2>3. /\ lector' \in {"operacion", "tamano", "terminado", "caido"}
        /\ lector' = "tamano" => operacion' \in ConBuffer
    BY <2>1, <2>2, TrasOperacionForma
  <2>4. socket' \in Seq(Byte) /\ corto' \in BOOLEAN /\ cerrado' \in BOOLEAN
    <3>1. Ancho \in Nat /\ Consumir(Ancho)
      BY <1>7, Anchos DEF RecibirOperacion
    <3>2. cerrado' \in BOOLEAN
      BY <1>7 DEF RecibirOperacion
    <3> QED
      BY <1>6, <3>1, <3>2
  <2> QED
    BY <1>7, <2>1, <2>3, <2>4 DEF RecibirOperacion, varsEmisor, ConBuffer
<1>8. CASE RecibirTamano
  <2>1. tam' \in Nat
    <3>1. CASE HayFin
      BY <1>8, <3>1, Lectores DEF RecibirTamano
    <3>2. CASE ~HayFin
      <4>1. Recibe(tam')
        BY <1>8, <3>2 DEF RecibirTamano
      <4> QED
        BY <4>1, RecibeForma
    <3> QED
      BY <3>1, <3>2
  <2>2. socket' \in Seq(Byte) /\ corto' \in BOOLEAN
    <3>1. Ancho \in Nat /\ Consumir(Ancho)
      BY <1>8, Anchos DEF RecibirTamano
    <3> QED
      BY <1>6, <3>1
  <2> QED
    BY <1>8, <2>1, <2>2 DEF RecibirTamano, varsEmisor, ConBuffer
<1>9. CASE RecibirContenido
  <2>1. socket' \in Seq(Byte) /\ corto' \in BOOLEAN
    <3>1. tam \in Nat /\ Consumir(tam)
      BY <1>9 DEF RecibirContenido
    <3> QED
      BY <1>6, <3>1
  <2>2. PICK datos :
          /\ recibidos' = Append(recibidos, [operacion |-> operacion, datos |-> datos])
          /\ lector' \in {"operacion", "caido"}
    BY <1>9 DEF RecibirContenido
  <2> QED
    BY <1>9, <2>1, <2>2 DEF RecibirContenido, varsEmisor, ConBuffer
<1>10. CASE UNCHANGED vars
  BY <1>10 DEF vars, ConBuffer
<1> QED
  BY <1>3, <1>4, <1>5, <1>7, <1>8, <1>9, <1>10 DEF Next, AtenderCliente

-----------------------------------------------------------------------------
(* What is on its way to the reader *)

\* Bytes that have been sent and have not been read.
Flujo == Tras(socket, enRed)

\* g[k] is what calls k + 1 to n have sent.
EsCola(llamadas, g, n) ==
    /\ g \in [0 .. n -> Seq(Byte)] /\ g[n] = <<>>
    /\ \A k \in 0 .. n - 1 : g[k] = Tras(Paquete(llamadas[k + 1]), g[k + 1])
    /\ \A i, j \in 0 .. n : i <= j => Len(g[j]) <= Len(g[i])

\* One more call adds its packet to all of them (protocolo.c:153-168).
ConOtro(g, n, p) == [k \in 0 .. n + 1 |-> IF k <= n THEN Tras(g[k], p) ELSE <<>>]

\* What they have sent is still a queue of packets.
LEMMA ColaMas ==
    ASSUME NEW llamadas, NEW n \in Nat, NEW g, EsCola(llamadas, g, n),
           \A k \in 1 .. n + 1 : EsLlamada(llamadas[k])
    PROVE  EsCola(llamadas, ConOtro(g, n, Paquete(llamadas[n + 1])), n + 1)
<1>1. PICK p \in Seq(Byte), z \in Nat : p = Paquete(llamadas[n + 1]) /\ Len(p) = z
  <2>1. EsLlamada(llamadas[n + 1])
    OBVIOUS
  <2>2. Paquete(llamadas[n + 1]) \in Seq(Byte)
    BY <2>1, PaqueteAntes
  <2>3. Len(Paquete(llamadas[n + 1])) \in Nat
    BY <2>2
  <2> QED
    BY <2>2, <2>3
<1>2. PICK h : h = ConOtro(g, n, p)
  OBVIOUS
<1>3. ASSUME NEW k \in 0 .. n
      PROVE  /\ g[k] \in Seq(Byte) /\ Len(g[k]) \in Nat /\ h[k] = Tras(g[k], p)
             /\ h[k] \in Seq(Byte) /\ Len(h[k]) = Len(g[k]) + z
  <2>1. PICK x \in Seq(Byte) : x = g[k]
    BY DEF EsCola
  <2>2. k \in 0 .. n + 1 /\ k <= n
    OBVIOUS
  <2>3. h[k] = Tras(x, p)
    BY <1>2, <2>1, <2>2 DEF ConOtro
  <2>4. Tras(x, p) \in Seq(Byte) /\ Len(Tras(x, p)) = Len(x) + Len(p)
    BY Juntar
  <2> QED
    BY <1>1, <2>1, <2>3, <2>4
<1>4. h[n + 1] = <<>> /\ h[n + 1] \in Seq(Byte) /\ Len(h[n + 1]) = 0
  <2>1. n + 1 \in 0 .. n + 1 /\ ~(n + 1 <= n)
    OBVIOUS
  <2>2. h[n + 1] = <<>>
    BY <1>2, <2>1 DEF ConOtro
  <2> QED
    BY <2>2, Juntar
<1>5. \A k \in 0 .. n + 1 : k \in 0 .. n \/ k = n + 1
  OBVIOUS
<1>6. h \in [0 .. n + 1 -> Seq(Byte)]
  <2>1. \A k \in 0 .. n + 1 : h[k] \in Seq(Byte)
    BY <1>3, <1>4, <1>5
  <2>2. h = [k \in 0 .. n + 1 |-> h[k]]
    BY <1>2 DEF ConOtro
  <2> QED
    BY <2>1, <2>2
<1>7. ASSUME NEW k \in 0 .. n PROVE h[k] = Tras(Paquete(llamadas[k + 1]), h[k + 1])
  <2>1. CASE k = n
    <3>1. h[n] = Tras(<<>>, p) /\ h[n + 1] = <<>>
      <4>1. n \in 0 .. n
        OBVIOUS
      <4> QED
        BY <1>3, <1>4, <4>1 DEF EsCola
    <3>2. Tras(<<>>, p) = p /\ Tras(p, <<>>) = p
      BY Juntar
    <3> QED
      BY <1>1, <2>1, <3>1, <3>2
  <2>2. CASE k # n
    <3>1. k \in 0 .. n - 1 /\ k + 1 \in 0 .. n /\ k + 1 \in 1 .. n + 1
      BY <2>2
    <3>2. PICK q \in Seq(Byte) : q = Paquete(llamadas[k + 1])
      BY <3>1, PaqueteAntes
    <3>3. PICK x \in Seq(Byte) : x = g[k + 1] /\ g[k] = Tras(q, x)
      BY <3>1, <3>2 DEF EsCola
    <3>4. h[k] = Tras(Tras(q, x), p) /\ h[k + 1] = Tras(x, p)
      BY <1>3, <3>1, <3>3
    <3>5. Tras(Tras(q, x), p) = Tras(q, Tras(x, p))
      BY Juntar
    <3> QED
      BY <3>2, <3>4, <3>5
  <2> QED
    BY <2>1, <2>2
<1>8. ASSUME NEW i \in 0 .. n + 1, NEW j \in 0 .. n + 1, i <= j PROVE Len(h[j]) <= Len(h[i])
  <2>1. CASE j \in 0 .. n
    <3>1. i \in 0 .. n
      BY <1>8, <2>1
    <3>2. Len(g[j]) <= Len(g[i])
      BY <1>8, <2>1, <3>1 DEF EsCola
    <3> QED
      BY <1>1, <1>3, <2>1, <3>1, <3>2
  <2>2. CASE j = n + 1
    <3>1. Len(h[i]) \in Nat
      BY <1>1, <1>3, <1>4, <1>5
    <3> QED
      BY <1>4, <2>2, <3>1
  <2> QED
    BY <1>5, <2>1, <2>2
<1>9. \A k \in 0 .. (n + 1) - 1 : k \in 0 .. n
  OBVIOUS
<1>10. EsCola(llamadas, h, n + 1)
  BY <1>4, <1>6, <1>7, <1>8, <1>9 DEF EsCola
<1> QED
  BY <1>1, <1>2, <1>10

\* Of the bytes of a packet and those after it, a recv that gets what it asks for
\* takes its part; it gets it when all of it has arrived (socket.c:257-276).
LEMMA RecvEntero ==
    ASSUME Tipos, NEW n \in Nat, NEW a \in Seq(Byte), NEW r \in Seq(Byte),
           Flujo = Tras(a, r), Len(a) = n, Consumir(n), enRed' = enRed, ~corto,
           ~corto' \/ Len(enRed) <= Len(r)
    PROVE  Tomado(n) = n /\ Recibido(n) = a /\ ~corto' /\ Flujo' = r
<1>1. socket \in Seq(Byte) /\ enRed \in Seq(Byte)
  BY DEF Tipos, TypeOK
<1>2. PICK t \in Nat, x \in Seq(Byte), y \in Seq(Byte) :
        /\ t = Tomado(n) /\ x = Recibido(n) /\ y = Final(socket, t)
        /\ t <= n /\ (t < n => t = Len(socket)) /\ Len(x) = t /\ socket = Tras(x, y)
  <2>1. /\ Tomado(n) \in Nat /\ Tomado(n) <= n /\ (Tomado(n) < n => Tomado(n) = Len(socket))
        /\ Len(Recibido(n)) = Tomado(n) /\ Recibido(n) \in Seq(Byte)
        /\ Final(socket, Tomado(n)) \in Seq(Byte)
        /\ socket = Tras(Recibido(n), Final(socket, Tomado(n)))
    BY <1>1, TomadoForma
  <2> QED
    BY <2>1
<1>3. socket' = y /\ (corto' <=> (t < n /\ enRed # <<>>))
  BY <1>2 DEF Consumir, Final
<1>4. PICK e \in Nat, z \in Nat, w \in Nat :
        e = Len(enRed) /\ z = Len(r) /\ w = Len(socket) /\ w + e = n + z
  <2>1. Len(Tras(socket, enRed)) = Len(socket) + Len(enRed) /\ Len(Tras(a, r)) = Len(a) + Len(r)
    BY <1>1, Juntar
  <2>2. Len(socket) \in Nat /\ Len(enRed) \in Nat /\ Len(r) \in Nat
    BY <1>1
  <2> QED
    BY <2>1, <2>2 DEF Flujo
<1>5. t = n
  <2> SUFFICES ASSUME t < n PROVE FALSE
    BY <1>2
  <2>1. w < n
    BY <1>2, <1>4
  <2>2. CASE ~corto'
    <3>1. e = 0
      BY <1>3, <1>4, <2>2
    <3> QED
      BY <1>4, <2>1, <3>1
  <2>3. CASE Len(enRed) <= Len(r)
    BY <1>4, <2>1, <2>3
  <2> QED
    BY <2>2, <2>3
<1>6. ~corto'
  BY <1>3, <1>5
<1>7. PICK u \in Seq(Byte) : u = Tras(y, enRed)
  <2>1. Tras(y, enRed) \in Seq(Byte)
    BY <1>1, Juntar
  <2> QED
    BY <2>1
<1>8. Tras(x, u) = Tras(a, r)
  <2>1. Tras(Tras(x, y), enRed) = Tras(x, Tras(y, enRed))
    BY <1>1, Juntar
  <2> QED
    BY <1>2, <1>7, <2>1 DEF Flujo
<1>9. x = a /\ u = r
  BY <1>2, <1>5, <1>8, MismoCorte
<1>10. Flujo' = u
  BY <1>3, <1>7 DEF Flujo
<1> QED
  BY <1>2, <1>5, <1>6, <1>9, <1>10

\* A number that a recv gets whole is what its bytes stand for (socket.c:260, 273).
LEMMA RecibeEntero ==
    ASSUME NEW numero, Recibe(numero), Tomado(Ancho) = Ancho,
           NEW a \in Seq(Byte), Recibido(Ancho) = a
    PROVE  numero = Valor(a)
<1>1. PICK resto \in [1 .. Ancho - Ancho -> BytesBasura] : numero = Valor(a \o resto)
  BY DEF Recibe
<1>2. Ancho - Ancho = 0
  BY Anchos
<1>3. resto = <<>>
  <2>1. resto \in [1 .. 0 -> BytesBasura]
    BY <1>1, <1>2
  <2> QED
    BY <2>1
<1>4. a \o <<>> = a
  BY ConcatEmptySeq
<1> QED
  BY <1>1, <1>3, <1>4

-----------------------------------------------------------------------------
(* The thread of the kernel *)

\* The thread has deserialized m calls and what it is to read is the rest of the
\* packet it is at, and then the packets of the calls left.  If the network cuts
\* nothing, what has not arrived is whole packets after that one.
EnKernel(g, m) ==
    /\ m \in 0 .. hechas /\ recibidos = [k \in 1 .. m |-> Contenido(guion.llamadas[k])]
    /\ lector = "operacion" => Flujo = g[m]
    /\ lector \in {"tamano", "contenido"} =>
          m < hechas /\ operacion = Contenido(guion.llamadas[m + 1]).operacion
    /\ lector = "tamano" =>
          Flujo = Tras(Tamano(guion.llamadas[m + 1]),
                       Tras(Cuerpo(guion.llamadas[m + 1]), g[m + 1]))
    /\ lector = "contenido" =>
          /\ tam = Len(Cuerpo(guion.llamadas[m + 1]))
          /\ Flujo = Tras(Cuerpo(guion.llamadas[m + 1]), g[m + 1])
    /\ lector = "terminado" => m = hechas /\ cerrado /\ emisor = "cerrado"
    /\ guion.cortes = 0 =>
          \E j \in m .. hechas :
             enRed = g[j] /\ (lector \in {"tamano", "contenido"} => m < j)

\* The calls made are calls.
LEMMA Hechas ==
    ASSUME Tipos
    PROVE  /\ hechas \in Nat /\ Len(guion.llamadas) \in Nat /\ hechas <= Len(guion.llamadas)
           /\ guion.cortes \in Nat /\ guion.destino \in {"kernel", "memoria"}
           /\ \A k \in 1 .. Len(guion.llamadas) : EsLlamada(guion.llamadas[k])
<1>1. /\ guion \in Guiones /\ guion.cortes \in Nat /\ guion.llamadas \in Seq(Llamadas)
      /\ guion.destino \in {"kernel", "memoria"}
  BY GuionesDelCodigo DEF Tipos, TypeOK
<1>2. Len(guion.llamadas) \in Nat
  BY <1>1
<1>3. \A k \in 1 .. Len(guion.llamadas) : EsLlamada(guion.llamadas[k])
  BY <1>1, LlamadaForma
<1> QED
  BY <1>1, <1>2, <1>3 DEF Tipos, TypeOK

\* enviar_handshake and enviar_mensaje (protocolo.c:153-168).
LEMMA KernelEnviar ==
    ASSUME Tipos, Enviar, NEW g, NEW m, EsCola(guion.llamadas, g, hechas), EnKernel(g, m)
    PROVE  \E h : EsCola(guion.llamadas, h, hechas)' /\ EnKernel(h, m)'
<1>0. PICK ls : ls = guion.llamadas
  OBVIOUS
<1>1. PICK n \in Nat : n = hechas /\ ls = guion.llamadas
  BY <1>0, Hechas
<1>2. hechas' = n + 1 /\ guion'.llamadas = ls /\ n + 1 <= Len(ls)
  BY <1>1, Hechas DEF Enviar
<1>3. \A k \in 1 .. n + 1 : EsLlamada(ls[k])
  BY <1>1, <1>2, Hechas
<1>4. PICK p \in Seq(Byte) : p = Paquete(ls[n + 1])
  <2>1. EsLlamada(ls[n + 1])
    BY <1>3
  <2> QED
    BY <2>1, PaqueteAntes
<1>5. PICK h : h = ConOtro(g, n, p)
  OBVIOUS
<1>6. EsCola(guion.llamadas, h, hechas)'
  <2>1. EsCola(ls, g, n)
    BY <1>1
  <2>2. EsCola(ls, h, n + 1)
    BY <1>3, <1>4, <1>5, <2>1, ColaMas
  <2> QED
    BY <1>2, <2>2 DEF EsCola
<1>7. \A k \in 0 .. n : g[k] \in Seq(Byte) /\ h[k] = Tras(g[k], p)
  <2>1. \A k \in 0 .. n : k \in 0 .. n + 1
    OBVIOUS
  <2> QED
    BY <1>1, <1>5, <2>1 DEF ConOtro, EsCola
<1>8. socket \in Seq(Byte) /\ enRed \in Seq(Byte) /\ enRed' = Tras(enRed, p) /\ Flujo' = Tras(Flujo, p)
  <2>1. socket \in Seq(Byte) /\ enRed \in Seq(Byte)
    BY DEF Tipos, TypeOK
  <2>2. enRed' = Tras(enRed, p) /\ socket' = socket
    BY <1>1, <1>4 DEF Enviar, Tras
  <2>3. Tras(Tras(socket, enRed), p) = Tras(socket, Tras(enRed, p))
    BY <2>1, Juntar
  <2> QED
    BY <2>1, <2>2, <2>3 DEF Flujo
<1>9. m \in 0 .. n /\ lector # "terminado"
  BY <1>1 DEF EnKernel, Enviar
<1>10. lector = "operacion" => Flujo' = h[m]
  BY <1>7, <1>8, <1>9 DEF EnKernel
<1>11. ASSUME lector \in {"tamano", "contenido"}
       PROVE  /\ lector = "tamano" =>
                    Flujo' = Tras(Tamano(ls[m + 1]), Tras(Cuerpo(ls[m + 1]), h[m + 1]))
              /\ lector = "contenido" =>
                    Flujo' = Tras(Cuerpo(ls[m + 1]), h[m + 1]) /\ tam = Len(Cuerpo(ls[m + 1]))
  <2>1. PICK c : c = ls[m + 1] /\ EsLlamada(c)
    BY <1>1, <1>2, <1>3, <1>9, <1>11 DEF EnKernel
  <2>2. PICK t \in Seq(Byte), b \in Seq(Byte) : t = Tamano(c) /\ b = Cuerpo(c)
    BY <2>1, PaqueteForma
  <2>3. PICK x \in Seq(Byte) : x = g[m + 1] /\ h[m + 1] = Tras(x, p)
    <3>1. m + 1 \in 0 .. n
      BY <1>1, <1>9, <1>11 DEF EnKernel
    <3> QED
      BY <1>7, <3>1
  <2>4. PICK y \in Seq(Byte) : y = Tras(b, x)
    <3>1. Tras(b, x) \in Seq(Byte)
      BY Juntar
    <3> QED
      BY <3>1
  <2>5. Tras(y, p) = Tras(b, Tras(x, p)) /\ Tras(Tras(t, y), p) = Tras(t, Tras(y, p))
    <3>1. Tras(Tras(b, x), p) = Tras(b, Tras(x, p))
      BY Juntar
    <3>2. Tras(Tras(t, y), p) = Tras(t, Tras(y, p))
      BY Juntar
    <3> QED
      BY <2>4, <3>1, <3>2
  <2>6. lector = "tamano" => Flujo' = Tras(t, Tras(b, h[m + 1]))
    <3>1. lector = "tamano" => Flujo = Tras(t, y)
      BY <1>1, <2>1, <2>2, <2>3, <2>4 DEF EnKernel
    <3> QED
      BY <1>8, <2>3, <2>5, <3>1
  <2>7. lector = "contenido" => Flujo' = Tras(b, h[m + 1]) /\ tam = Len(b)
    <3>1. lector = "contenido" => Flujo = y /\ tam = Len(b)
      BY <1>1, <2>1, <2>2, <2>3, <2>4 DEF EnKernel
    <3> QED
      BY <1>8, <2>3, <2>5, <3>1
  <2> QED
    BY <2>1, <2>2, <2>6, <2>7
<1>12. guion'.cortes = 0 =>
         \E j \in m .. n + 1 : enRed' = h[j] /\ (lector \in {"tamano", "contenido"} => m < j)
  <2> SUFFICES ASSUME guion'.cortes = 0
               PROVE  \E j \in m .. n + 1 :
                         enRed' = h[j] /\ (lector \in {"tamano", "contenido"} => m < j)
    OBVIOUS
  <2>1. guion.cortes = 0
    BY DEF Enviar
  <2>2. PICK j \in m .. n : enRed = g[j] /\ (lector \in {"tamano", "contenido"} => m < j)
    BY <1>1, <2>1 DEF EnKernel
  <2>3. j \in 0 .. n /\ j \in m .. n + 1
    BY <1>1, <1>9
  <2>4. enRed' = h[j]
    BY <1>7, <1>8, <2>2, <2>3
  <2> QED
    BY <2>2, <2>3, <2>4
<1>13. m \in 0 .. n + 1 /\ (m < n => m < n + 1)
  BY <1>1, <1>9
<1>14. /\ lector' = lector /\ operacion' = operacion /\ tam' = tam /\ recibidos' = recibidos
       /\ cerrado' = cerrado
  BY DEF Enviar, varsLector
<1>15. EnKernel(h, m)'
  BY <1>1, <1>2, <1>9, <1>10, <1>11, <1>12, <1>13, <1>14 DEF EnKernel
<1> QED
  BY <1>6, <1>15

\* The network keeps the order of the bytes; if it cuts nothing, all of them arrive
\* (TCP).
LEMMA Entregado ==
    ASSUME Tipos, Entregar
    PROVE  Flujo' = Flujo /\ (guion.cortes = 0 => enRed' = <<>>)
<1>1. socket \in Seq(Byte) /\ enRed \in Seq(Byte) /\ cortes \in 0 .. guion.cortes
  BY DEF Tipos, TypeOK
<1>2. PICK z \in Nat : z = Len(enRed)
  BY <1>1
<1>3. PICK n \in 1 .. z :
        /\ n < z => cortes > 0
        /\ socket' = Tras(socket, Principio(enRed, n)) /\ enRed' = Final(enRed, n)
  BY <1>2 DEF Entregar, Principio, Final, Tras
<1>4. PICK x \in Seq(Byte), y \in Seq(Byte) :
        /\ x = Principio(enRed, n) /\ y = Final(enRed, n) /\ Tras(x, y) = enRed
        /\ Len(y) = z - n
  <2>1. n \in 0 .. Len(enRed)
    BY <1>2
  <2>2. /\ Principio(enRed, n) \in Seq(Byte) /\ Final(enRed, n) \in Seq(Byte)
        /\ Tras(Principio(enRed, n), Final(enRed, n)) = enRed
        /\ Len(Final(enRed, n)) = Len(enRed) - n
    BY <1>1, <2>1, Partida
  <2> QED
    BY <1>2, <2>2
<1>5. Flujo' = Flujo
  <2>1. Tras(Tras(socket, x), y) = Tras(socket, Tras(x, y))
    BY <1>1, Juntar
  <2> QED
    BY <1>3, <1>4, <2>1 DEF Flujo
<1>6. ASSUME guion.cortes = 0 PROVE enRed' = <<>>
  <2>1. n = z
    BY <1>1, <1>3, <1>6
  <2>2. Len(y) = 0
    BY <1>4, <2>1
  <2>3. y = <<>>
    BY <2>2, Juntar
  <2> QED
    BY <1>3, <1>4, <2>3
<1> QED
  BY <1>5, <1>6

\* The network, for the kernel.
LEMMA KernelEntregar ==
    ASSUME Tipos, Entregar, NEW g, NEW m, EsCola(guion.llamadas, g, hechas), EnKernel(g, m)
    PROVE  EsCola(guion.llamadas, g, hechas)' /\ EnKernel(g, m)'
<1>1. /\ guion' = guion /\ hechas' = hechas /\ lector' = lector /\ operacion' = operacion
      /\ tam' = tam /\ recibidos' = recibidos /\ cerrado' = cerrado /\ emisor' = emisor
  BY DEF Entregar, varsEmisor, varsLector
<1>2. Flujo' = Flujo /\ (guion.cortes = 0 => enRed' = <<>>)
  BY Entregado
<1>3. guion'.cortes = 0 =>
         \E j \in m .. hechas : enRed' = g[j] /\ (lector \in {"tamano", "contenido"} => m < j)
  <2>1. g[hechas] = <<>>
    BY DEF EsCola
  <2>2. hechas \in m .. hechas /\ (lector \in {"tamano", "contenido"} => m < hechas)
    BY Hechas DEF EnKernel
  <2> QED
    BY <1>1, <1>2, <2>1, <2>2
<1>4. EsCola(guion.llamadas, g, hechas)'
  BY <1>1 DEF EsCola
<1>5. EnKernel(g, m)'
  BY <1>1, <1>2, <1>3 DEF EnKernel
<1> QED
  BY <1>4, <1>5

\* The end of the client.
LEMMA KernelTerminar ==
    ASSUME Tipos, Terminar, NEW g, NEW m, EsCola(guion.llamadas, g, hechas), EnKernel(g, m)
    PROVE  EsCola(guion.llamadas, g, hechas)' /\ EnKernel(g, m)'
<1>1. /\ guion' = guion /\ hechas' = hechas /\ lector' = lector /\ operacion' = operacion
      /\ tam' = tam /\ recibidos' = recibidos /\ cerrado' = cerrado /\ emisor' = "cerrado"
      /\ socket' = socket /\ enRed' = enRed
  BY DEF Terminar, varsLector
<1>2. Flujo' = Flujo
  BY <1>1 DEF Flujo
<1>3. EsCola(guion.llamadas, g, hechas)'
  BY <1>1 DEF EsCola
<1>4. EnKernel(g, m)'
  BY <1>1, <1>2 DEF EnKernel
<1> QED
  BY <1>3, <1>4

\* The call whose packet the thread is at, or is to read next.
LEMMA Actual ==
    ASSUME Tipos, NEW g, NEW m \in Nat, m < hechas, EsCola(guion.llamadas, g, hechas),
           NEW c, c = guion.llamadas[m + 1]
    PROVE  \E x \in Seq(Byte), y \in Seq(Byte), z \in Seq(Byte) :
              /\ EsLlamada(c)
              /\ x = g[m + 1] /\ y = Tras(Cuerpo(c), x) /\ z = Tras(Tamano(c), y)
              /\ g[m] = Tras(Codigo(c), z)
              /\ Len(x) <= Len(y) /\ Len(x) <= Len(z) /\ Len(x) < Len(g[m])
<1>1. EsLlamada(c)
  <2>1. m + 1 \in 1 .. Len(guion.llamadas)
    BY Hechas
  <2> QED
    BY <2>1, Hechas
<1>2. PICK x \in Seq(Byte) : x = g[m + 1] /\ g[m] = Tras(Paquete(c), x)
  <2>1. m \in 0 .. hechas - 1 /\ m + 1 \in 0 .. hechas
    BY Hechas
  <2> QED
    BY <1>1, <2>1 DEF EsCola
<1>3. /\ Len(Paquete(c)) \in Nat /\ Len(Paquete(c)) > 0
      /\ Len(Tras(Paquete(c), x)) = Len(Paquete(c)) + Len(x)
      /\ Tras(Tamano(c), Tras(Cuerpo(c), x)) \in Seq(Byte)
      /\ Tras(Cuerpo(c), x) \in Seq(Byte)
      /\ Len(Tras(Tamano(c), Tras(Cuerpo(c), x))) >= Len(x)
      /\ Len(Tras(Cuerpo(c), x)) >= Len(x)
      /\ Tras(Paquete(c), x) = Tras(Codigo(c), Tras(Tamano(c), Tras(Cuerpo(c), x)))
  BY <1>1, PaqueteAntes
<1>4. PICK y \in Seq(Byte) : y = Tras(Cuerpo(c), x)
  BY <1>3
<1>5. PICK z \in Seq(Byte) : z = Tras(Tamano(c), y)
  BY <1>3, <1>4
<1>6. Len(x) \in Nat /\ Len(y) \in Nat /\ Len(z) \in Nat
  OBVIOUS
<1>7. Len(x) <= Len(y) /\ Len(x) <= Len(z) /\ Len(x) < Len(g[m])
  <2>1. Len(y) >= Len(x) /\ Len(z) >= Len(x)
    BY <1>3, <1>4, <1>5
  <2>2. PICK l \in Nat : l = Len(Paquete(c)) /\ l > 0
    BY <1>3
  <2>3. Len(g[m]) = l + Len(x)
    BY <1>2, <1>3, <2>2
  <2> QED
    BY <1>6, <2>1, <2>2, <2>3
<1>8. g[m] = Tras(Codigo(c), z)
  BY <1>2, <1>3, <1>4, <1>5
<1> QED
  BY <1>1, <1>2, <1>4, <1>5, <1>7, <1>8

\* If nothing is cut, only whole packets after the one the thread is at are under way.
LEMMA NadaCortado ==
    ASSUME Tipos, NEW g, NEW m \in Nat, NEW j \in m .. hechas, m < j,
           EsCola(guion.llamadas, g, hechas), enRed = g[j], NEW x, x = g[m + 1]
    PROVE  Len(enRed) <= Len(x)
<1>1. j \in 0 .. hechas /\ m + 1 \in 0 .. hechas /\ m + 1 <= j
  BY Hechas
<1> QED
  BY <1>1 DEF EsCola

\* recibir_operacion, with the switch of the kernel (socket.c:257-268, kernel.c:217-255).
LEMMA KernelOperacion ==
    ASSUME Tipos, RecibirOperacion, guion.destino = "kernel", ~corto,
           guion.cortes = 0 \/ ~corto',
           NEW g, NEW m, EsCola(guion.llamadas, g, hechas), EnKernel(g, m)
    PROVE  ~corto' /\ EsCola(guion.llamadas, g, hechas)' /\ EnKernel(g, m)'
<1>1. /\ guion' = guion /\ hechas' = hechas /\ emisor' = emisor /\ enRed' = enRed /\ tam' = tam
      /\ recibidos' = recibidos /\ lector = "operacion" /\ PuedeRecibir
      /\ Consumir(Ancho) /\ lector' \in TrasOperacion(operacion')
  BY DEF RecibirOperacion, varsEmisor
<1>2. EsCola(guion.llamadas, g, hechas)'
  BY <1>1 DEF EsCola
<1>3. m \in Nat /\ m <= hechas /\ hechas \in Nat /\ Flujo = g[m] /\ Ancho \in Nat /\ Ancho > 0
  BY <1>1, Hechas, Anchos DEF EnKernel
<1>4. socket \in Seq(Byte) /\ enRed \in Seq(Byte)
  BY DEF Tipos, TypeOK
<1>5. PICK c : c = guion.llamadas[m + 1]
  OBVIOUS
<1>6. CASE HayFin
  <2>1. Flujo = <<>> /\ Len(Flujo) = 0
    <3>1. Tras(<<>>, <<>>) = <<>> /\ Len(<<>>) = 0
      BY Juntar
    <3> QED
      BY <1>6, <3>1 DEF Flujo, HayFin
  <2>2. m = hechas
    <3> SUFFICES ASSUME m < hechas PROVE FALSE
      BY <1>3
    <3>1. PICK x \in Seq(Byte) : Len(x) < Len(g[m])
      BY <1>3, <1>5, Actual
    <3>2. Len(x) \in Nat
      OBVIOUS
    <3> QED
      BY <1>3, <2>1, <3>1, <3>2
  <2>3. ~corto'
    BY <1>1, <1>6 DEF Consumir, HayFin
  <2>4. operacion' = DESCONEXION /\ cerrado' = TRUE /\ emisor' = "cerrado"
    BY <1>1, <1>6 DEF RecibirOperacion, HayFin
  <2>5. lector' \in {"terminado", "caido"}
    BY <1>1, <2>4, TrasOperacionForma DEF DESCONEXION
  <2>6. guion'.cortes = 0 => \E j \in m .. hechas : enRed = g[j]
    BY <1>1 DEF EnKernel
  <2>7. EnKernel(g, m)'
    BY <1>1, <2>2, <2>4, <2>5, <2>6 DEF EnKernel
  <2> QED
    BY <1>2, <2>3, <2>7
<1>7. CASE ~HayFin
  <2>1. socket # <<>>
    BY <1>1, <1>7 DEF PuedeRecibir
  <2>2. PICK w \in Nat, e \in Nat : w = Len(socket) /\ e = Len(enRed) /\ w > 0 /\ Len(Flujo) = w + e
    <3>1. Len(Tras(socket, enRed)) = Len(socket) + Len(enRed)
      BY <1>4, Juntar
    <3>2. Len(socket) # 0
      BY <1>4, <2>1, Juntar
    <3> QED
      BY <1>4, <3>1, <3>2 DEF Flujo
  <2>3. m < hechas
    <3> SUFFICES ASSUME m = hechas PROVE FALSE
      BY <1>3
    <3>1. Flujo = <<>> /\ Len(<<>>) = 0
      BY <1>3, Juntar DEF EsCola
    <3> QED
      BY <2>2, <3>1
  <2>4. PICK x \in Seq(Byte), y \in Seq(Byte), z \in Seq(Byte) :
          /\ EsLlamada(c)
          /\ x = g[m + 1] /\ y = Tras(Cuerpo(c), x) /\ z = Tras(Tamano(c), y)
          /\ g[m] = Tras(Codigo(c), z)
          /\ Len(x) <= Len(y) /\ Len(x) <= Len(z) /\ Len(x) < Len(g[m])
    BY <1>3, <1>5, <2>3, Actual
  <2>5. guion.cortes = 0 => \E j \in m .. hechas : enRed = g[j] /\ m < j
    <3> SUFFICES ASSUME guion.cortes = 0 PROVE \E j \in m .. hechas : enRed = g[j] /\ m < j
      OBVIOUS
    <3>1. PICK j \in m .. hechas : enRed = g[j]
      BY DEF EnKernel
    <3>2. j # m
      BY <1>3, <2>2, <3>1
    <3> QED
      BY <1>3, <3>1, <3>2
  <2>6. ~corto' \/ Len(enRed) <= Len(z)
    <3> SUFFICES ASSUME guion.cortes = 0 PROVE Len(enRed) <= Len(z)
      OBVIOUS
    <3>1. PICK j \in m .. hechas : enRed = g[j] /\ m < j
      BY <2>5
    <3>2. Len(enRed) <= Len(x)
      BY <1>3, <2>4, <3>1, NadaCortado
    <3>3. Len(x) \in Nat /\ Len(z) \in Nat /\ Len(enRed) \in Nat
      BY <1>4
    <3> QED
      BY <2>4, <3>2, <3>3
  <2>7. /\ Codigo(c) \in Seq(Byte) /\ Len(Codigo(c)) = Ancho
        /\ Contenido(c).operacion \in {HANDSHAKE, MENSAJE}
        /\ Valor(Codigo(c)) = Contenido(c).operacion
    BY <2>4, PaqueteForma
  <2>8. Tomado(Ancho) = Ancho /\ Recibido(Ancho) = Codigo(c) /\ ~corto' /\ Flujo' = z
    <3>1. Flujo = Tras(Codigo(c), z)
      BY <1>3, <2>4
    <3> QED
      BY <1>1, <1>3, <2>6, <2>7, <3>1, RecvEntero
  <2>9. operacion' = Contenido(c).operacion
    <3>1. Recibe(operacion')
      BY <1>7 DEF RecibirOperacion
    <3>2. operacion' = Valor(Codigo(c))
      BY <2>7, <2>8, <3>1, RecibeEntero
    <3> QED
      BY <2>7, <3>2
  <2>10. lector' = "tamano"
    <3>1. operacion' \in ConBuffer /\ operacion' \in Nat
      BY <2>7, <2>9 DEF ConBuffer, HANDSHAKE, MENSAJE
    <3> QED
      BY <1>1, <3>1, TrasOperacionForma
  <2>11. EnKernel(g, m)'
    <3>1. Flujo' = Tras(Tamano(c), Tras(Cuerpo(c), g[m + 1]))
      BY <2>4, <2>8
    <3> QED
      BY <1>1, <1>5, <2>3, <2>5, <2>9, <2>10, <3>1 DEF EnKernel
  <2> QED
    BY <1>2, <2>8, <2>11
<1> QED
  BY <1>6, <1>7

\* recibir_buffer, the size (socket.c:271-274).
LEMMA KernelTamano ==
    ASSUME Tipos, RecibirTamano, ~corto, guion.cortes = 0 \/ ~corto',
           NEW g, NEW m, EsCola(guion.llamadas, g, hechas), EnKernel(g, m)
    PROVE  ~corto' /\ EsCola(guion.llamadas, g, hechas)' /\ EnKernel(g, m)'
<1>1. /\ guion' = guion /\ hechas' = hechas /\ emisor' = emisor /\ enRed' = enRed
      /\ operacion' = operacion /\ cerrado' = cerrado /\ recibidos' = recibidos
      /\ lector = "tamano" /\ lector' = "contenido" /\ Consumir(Ancho)
  BY DEF RecibirTamano, varsEmisor
<1>2. EsCola(guion.llamadas, g, hechas)'
  BY <1>1 DEF EsCola
<1>3. m \in Nat /\ m < hechas /\ hechas \in Nat /\ Ancho \in Nat /\ Ancho > 0
  BY <1>1, Hechas, Anchos DEF EnKernel
<1>4. socket \in Seq(Byte) /\ enRed \in Seq(Byte)
  BY DEF Tipos, TypeOK
<1>5. PICK c : c = guion.llamadas[m + 1]
  OBVIOUS
<1>6. PICK x \in Seq(Byte), y \in Seq(Byte), z \in Seq(Byte) :
        /\ EsLlamada(c)
        /\ x = g[m + 1] /\ y = Tras(Cuerpo(c), x) /\ z = Tras(Tamano(c), y)
        /\ g[m] = Tras(Codigo(c), z)
        /\ Len(x) <= Len(y) /\ Len(x) <= Len(z) /\ Len(x) < Len(g[m])
  BY <1>3, <1>5, Actual
<1>7. Flujo = Tras(Tamano(c), y) /\ operacion = Contenido(c).operacion
  BY <1>1, <1>5, <1>6 DEF EnKernel
<1>8. guion.cortes = 0 => \E j \in m .. hechas : enRed = g[j] /\ m < j
  BY <1>1 DEF EnKernel
<1>9. ~corto' \/ Len(enRed) <= Len(y)
  <2> SUFFICES ASSUME guion.cortes = 0 PROVE Len(enRed) <= Len(y)
    OBVIOUS
  <2>1. PICK j \in m .. hechas : enRed = g[j] /\ m < j
    BY <1>8
  <2>2. Len(enRed) <= Len(x)
    BY <1>3, <1>6, <2>1, NadaCortado
  <2>3. Len(x) \in Nat /\ Len(y) \in Nat /\ Len(enRed) \in Nat
    BY <1>4
  <2> QED
    BY <1>6, <2>2, <2>3
<1>10. /\ Tamano(c) \in Seq(Byte) /\ Len(Tamano(c)) = Ancho
       /\ Valor(Tamano(c)) = Len(Cuerpo(c))
  BY <1>6, PaqueteForma
<1>11. Tomado(Ancho) = Ancho /\ Recibido(Ancho) = Tamano(c) /\ ~corto' /\ Flujo' = y
  BY <1>1, <1>3, <1>7, <1>9, <1>10, RecvEntero
<1>12. ~HayFin
  <2> SUFFICES ASSUME HayFin PROVE FALSE
    OBVIOUS
  <2>1. socket = <<>> /\ Len(<<>>) = 0
    BY Juntar DEF HayFin
  <2> QED
    BY <1>3, <1>11, <2>1 DEF Tomado
<1>13. tam' = Len(Cuerpo(c))
  <2>1. Recibe(tam')
    BY <1>12 DEF RecibirTamano
  <2>2. tam' = Valor(Tamano(c))
    BY <1>10, <1>11, <2>1, RecibeEntero
  <2> QED
    BY <1>10, <2>2
<1>14. EnKernel(g, m)'
  <2>1. Flujo' = Tras(Cuerpo(c), g[m + 1])
    BY <1>6, <1>11
  <2>2. m \in 0 .. hechas /\ recibidos = [k \in 1 .. m |-> Contenido(guion.llamadas[k])]
    BY DEF EnKernel
  <2> QED
    BY <1>1, <1>3, <1>5, <1>7, <1>8, <1>13, <2>1, <2>2 DEF EnKernel
<1> QED
  BY <1>2, <1>11, <1>14

\* recibir_buffer, the stream, and what is made of it (socket.c:274-276,
\* kernel.c:218-242).
LEMMA KernelContenido ==
    ASSUME Tipos, RecibirContenido, ~corto, guion.cortes = 0 \/ ~corto',
           NEW g, NEW m, EsCola(guion.llamadas, g, hechas), EnKernel(g, m)
    PROVE  /\ ~corto' /\ EsCola(guion.llamadas, g, hechas)' /\ EnKernel(g, m + 1)'
           /\ m < hechas /\ recibidos' = Append(recibidos, Contenido(guion.llamadas[m + 1]))
           /\ lector' # "terminado" /\ lector # "terminado"
<1>1. /\ guion' = guion /\ hechas' = hechas /\ emisor' = emisor /\ enRed' = enRed
      /\ operacion' = operacion /\ cerrado' = cerrado /\ tam' = tam
      /\ lector = "contenido" /\ Consumir(tam)
  BY DEF RecibirContenido, varsEmisor
<1>2. EsCola(guion.llamadas, g, hechas)'
  BY <1>1 DEF EsCola
<1>3. m \in Nat /\ m < hechas /\ hechas \in Nat /\ tam \in Nat
  BY <1>1, Hechas DEF EnKernel, Tipos
<1>4. socket \in Seq(Byte) /\ enRed \in Seq(Byte)
  BY DEF Tipos, TypeOK
<1>5. PICK c : c = guion.llamadas[m + 1]
  OBVIOUS
<1>6. PICK x \in Seq(Byte), y \in Seq(Byte), z \in Seq(Byte) :
        /\ EsLlamada(c)
        /\ x = g[m + 1] /\ y = Tras(Cuerpo(c), x) /\ z = Tras(Tamano(c), y)
        /\ g[m] = Tras(Codigo(c), z)
        /\ Len(x) <= Len(y) /\ Len(x) <= Len(z) /\ Len(x) < Len(g[m])
  BY <1>3, <1>5, Actual
<1>7. /\ Flujo = Tras(Cuerpo(c), x) /\ operacion = Contenido(c).operacion
      /\ tam = Len(Cuerpo(c))
  BY <1>1, <1>5, <1>6 DEF EnKernel
<1>8. guion.cortes = 0 => \E j \in m .. hechas : enRed = g[j] /\ m < j
  BY <1>1 DEF EnKernel
<1>9. ~corto' \/ Len(enRed) <= Len(x)
  <2> SUFFICES ASSUME guion.cortes = 0 PROVE Len(enRed) <= Len(x)
    OBVIOUS
  <2>1. PICK j \in m .. hechas : enRed = g[j] /\ m < j
    BY <1>8
  <2> QED
    BY <1>3, <1>6, <2>1, NadaCortado
<1>10. /\ Cuerpo(c) \in Seq(Byte)
       /\ Deserializar(Contenido(c).operacion,
                       Copiar(CrearBuffer(Len(Cuerpo(c))), Cuerpo(c))) = Contenido(c).datos
       /\ Contenido(c) = [operacion |-> Contenido(c).operacion, datos |-> Contenido(c).datos]
  BY <1>6, PaqueteForma
<1>11. Tomado(tam) = tam /\ Recibido(tam) = Cuerpo(c) /\ ~corto' /\ Flujo' = x
  BY <1>1, <1>3, <1>7, <1>9, <1>10, RecvEntero
<1>12. recibidos' = Append(recibidos, Contenido(c)) /\ lector' \in {"operacion", "caido"}
  <2>1. PICK buffer, datos :
          /\ buffer = Copiar(CrearBuffer(tam), Recibido(tam))
          /\ datos = Deserializar(operacion, buffer)
          /\ recibidos' = Append(recibidos, [operacion |-> operacion, datos |-> datos])
          /\ lector' \in {"operacion", "caido"}
    BY DEF RecibirContenido
  <2>2. datos = Contenido(c).datos
    BY <1>7, <1>10, <1>11, <2>1
  <2> QED
    BY <1>7, <1>10, <2>1, <2>2
<1>13. recibidos' = [k \in 1 .. m + 1 |-> Contenido(guion.llamadas[k])]
  <2>1. PICK r : r = recibidos /\ r = [k \in 1 .. m |-> Contenido(guion.llamadas[k])]
    BY DEF EnKernel
  <2>2. Len(r) = m
    BY <1>3, <2>1
  <2> QED
    BY <1>3, <1>5, <1>12, <2>1, <2>2
<1>14. m + 1 \in 0 .. hechas
  BY <1>3
<1>15. guion.cortes = 0 => \E j \in m + 1 .. hechas : enRed = g[j]
  <2> SUFFICES ASSUME guion.cortes = 0 PROVE \E j \in m + 1 .. hechas : enRed = g[j]
    OBVIOUS
  <2>1. PICK j \in m .. hechas : enRed = g[j] /\ m < j
    BY <1>8
  <2>2. j \in m + 1 .. hechas
    BY <1>3, <2>1
  <2> QED
    BY <2>1, <2>2
<1>16. EnKernel(g, m + 1)'
  BY <1>1, <1>6, <1>11, <1>12, <1>13, <1>14, <1>15 DEF EnKernel
<1> QED
  BY <1>1, <1>2, <1>3, <1>5, <1>11, <1>12, <1>16

-----------------------------------------------------------------------------
(* The thread of the memory *)

\* The thread has deserialized nothing, and what it is to read is the packet of the
\* only call, from the start of a word on.
EnMemoria ==
    /\ recibidos = <<>> /\ lector \in {"operacion", "terminado", "caido"}
    /\ lector = "terminado" => cerrado /\ emisor = "cerrado"
    /\ hechas \in {0, 1}
    /\ \/ Flujo = <<>>
       \/ /\ hechas = 1
          /\ \E j, i \in 0 .. Len(Paquete(guion.llamadas[1])) - 1 :
                i = j * Ancho /\ Flujo = Final(Paquete(guion.llamadas[1]), i)
    /\ guion.cortes = 0 => enRed = <<>> \/ socket = <<>>

\* The kernel and a CPU send one message (kernel.c:42, cpu.c:37).
LEMMA MemoriaEnviar ==
    ASSUME Tipos, Enviar, EnMemoria, guion.destino = "memoria"
    PROVE  EnMemoria'
<1>1. /\ guion' = guion /\ hechas' = hechas + 1 /\ lector' = lector /\ recibidos' = recibidos
      /\ cerrado' = cerrado /\ emisor' = emisor /\ socket' = socket
      /\ enRed' = Tras(enRed, Paquete(guion.llamadas[hechas + 1]))
  BY DEF Enviar, varsLector, Tras
<1>2. hechas = 0 /\ 1 \in 1 .. Len(guion.llamadas)
  <2>1. Len(guion.llamadas) <= 1
    BY PalabrasSinCaso DEF Tipos, TypeOK
  <2> QED
    BY <2>1, Hechas DEF Enviar, EnMemoria
<1>3. PICK p \in Seq(Byte) : p = Paquete(guion.llamadas[1]) /\ Len(p) > 0
  <2>1. EsLlamada(guion.llamadas[1])
    BY <1>2, Hechas
  <2> QED
    BY <2>1, PaqueteAntes
<1>4. socket = <<>> /\ enRed = <<>>
  <2>1. socket \in Seq(Byte) /\ enRed \in Seq(Byte) /\ socket \o enRed = <<>>
    BY <1>2 DEF EnMemoria, Tipos, TypeOK, Flujo, Tras
  <2> QED
    BY <2>1, ConcatSimplifications
<1>5. Tras(<<>>, p) = p
  BY Juntar
<1>6. enRed' = p
  BY <1>1, <1>2, <1>3, <1>4, <1>5
<1>7. Flujo' = p
  BY <1>1, <1>4, <1>5, <1>6 DEF Flujo
<1>8. p = Final(p, 0)
  <2>1. 0 \in 0 .. Len(p)
    OBVIOUS
  <2>2. PICK x \in Seq(Byte), y \in Seq(Byte) :
          x = Principio(p, 0) /\ y = Final(p, 0) /\ Len(x) = 0 /\ Tras(x, y) = p
    BY <2>1, Partida
  <2>3. x = <<>> /\ Tras(<<>>, y) = y
    BY <2>2, Juntar
  <2> QED
    BY <2>2, <2>3
<1>9. 0 \in 0 .. Len(p) - 1 /\ 0 = 0 * Ancho
  BY <1>3, Anchos
<1> QED
  BY <1>1, <1>2, <1>3, <1>4, <1>7, <1>8, <1>9 DEF EnMemoria

\* The network, for the memory.
LEMMA MemoriaEntregar ==
    ASSUME Tipos, Entregar, EnMemoria
    PROVE  EnMemoria'
<1>1. /\ guion' = guion /\ hechas' = hechas /\ lector' = lector /\ recibidos' = recibidos
      /\ cerrado' = cerrado /\ emisor' = emisor
  BY DEF Entregar, varsEmisor, varsLector
<1> QED
  BY <1>1, Entregado DEF EnMemoria

\* The end of the client.
LEMMA MemoriaTerminar ==
    ASSUME Tipos, Terminar, EnMemoria
    PROVE  EnMemoria'
<1>1. /\ guion' = guion /\ hechas' = hechas /\ lector' = lector /\ recibidos' = recibidos
      /\ cerrado' = cerrado /\ emisor' = "cerrado" /\ socket' = socket /\ enRed' = enRed
  BY DEF Terminar, varsLector
<1>2. Flujo' = Flujo
  BY <1>1 DEF Flujo
<1> QED
  BY <1>1, <1>2 DEF EnMemoria

\* A place of a place is a place, and a word that was taken is one of the packet.
LEMMA Sigue ==
    ASSUME NEW p \in Seq(Byte), NEW i \in 0 .. Len(p), NEW t \in 0 .. Ancho,
           i + t <= Len(p), t = Ancho \/ i + t = Len(p)
    PROVE  /\ Final(Final(p, i), t) = Final(p, i + t)
           /\ Principio(Final(p, i), t) = Palabra(p, i) /\ Len(Palabra(p, i)) = t
<1>1. PICK z \in Nat, a \in Nat : z = Len(p) /\ a = Ancho /\ i \in Nat /\ t \in Nat /\ t <= a
  BY Anchos
<1>2. PICK f \in Seq(Byte) :
        f = Final(p, i) /\ Len(f) = z - i /\ \A k \in 1 .. z - i : f[k] = p[i + k]
  <2>1. /\ Final(p, i) \in Seq(Byte) /\ Len(Final(p, i)) = Len(p) - i
        /\ \A k \in 1 .. Len(p) - i : Final(p, i)[k] = p[i + k]
    BY Partida
  <2> QED
    BY <1>1, <2>1
<1>3. PICK x \in Seq(Byte), y \in Seq(Byte) :
        /\ x = Principio(f, t) /\ y = Final(f, t) /\ Len(x) = t /\ Len(y) = z - i - t
        /\ \A k \in 1 .. t : x[k] = f[k]
        /\ \A k \in 1 .. z - i - t : y[k] = f[t + k]
  <2>1. t \in 0 .. Len(f)
    BY <1>1, <1>2
  <2>2. /\ Principio(f, t) \in Seq(Byte) /\ Len(Principio(f, t)) = t
        /\ Final(f, t) \in Seq(Byte) /\ Len(Final(f, t)) = Len(f) - t
        /\ \A k \in 1 .. t : Principio(f, t)[k] = f[k]
        /\ \A k \in 1 .. Len(f) - t : Final(f, t)[k] = f[t + k]
    BY <2>1, Partida
  <2> QED
    BY <1>2, <2>2
<1>4. y = Final(p, i + t)
  <2>1. PICK w \in Seq(Byte) :
          /\ w = Final(p, i + t) /\ Len(w) = z - (i + t)
          /\ \A k \in 1 .. z - (i + t) : w[k] = p[(i + t) + k]
    <3>1. i + t \in 0 .. Len(p)
      BY <1>1
    <3>2. /\ Final(p, i + t) \in Seq(Byte) /\ Len(Final(p, i + t)) = Len(p) - (i + t)
          /\ \A k \in 1 .. Len(p) - (i + t) : Final(p, i + t)[k] = p[(i + t) + k]
      BY <3>1, Partida
    <3> QED
      BY <1>1, <3>2
  <2>2. ASSUME NEW k \in 1 .. z - i - t PROVE y[k] = w[k]
    <3>1. /\ k \in 1 .. z - (i + t) /\ t + k \in 1 .. z - i /\ i + (t + k) = (i + t) + k
      BY <1>1
    <3>2. y[k] = f[t + k] /\ f[t + k] = p[i + (t + k)] /\ w[k] = p[(i + t) + k]
      BY <1>2, <1>3, <2>1, <3>1
    <3> QED
      BY <3>1, <3>2
  <2>3. Len(y) = Len(w)
    BY <1>1, <1>3, <2>1
  <2> QED
    BY <1>3, <2>1, <2>2, <2>3, SeqEqual
<1>5. PICK q \in Seq(Byte) :
        q = Palabra(p, i) /\ Len(q) = t /\ \A k \in 1 .. t : q[k] = p[i + k]
  <2>1. PICK u \in Int, v \in Int : u = i + 1 /\ v = i + t
    BY <1>1
  <2>2. Palabra(p, i) = SubSeq(p, u, v)
    <3>1. (t = a \/ i + t = z) /\ i + t <= z
      BY <1>1
    <3>2. CASE i + a < z
      <4>1. v = i + a
        BY <1>1, <2>1, <3>1, <3>2
      <4> QED
        BY <1>1, <2>1, <3>2, <4>1 DEF Palabra
    <3>3. CASE ~(i + a < z)
      <4>1. v = z
        BY <1>1, <2>1, <3>1, <3>3
      <4> QED
        BY <1>1, <2>1, <3>3, <4>1 DEF Palabra
    <3> QED
      BY <3>2, <3>3
  <2>3. \A k \in u .. v : p[k] \in Byte
    <3>1. \A k \in u .. v : k \in 1 .. z
      BY <1>1, <2>1
    <3>2. \A k \in 1 .. z : p[k] \in Byte
      BY <1>1
    <3> QED
      BY <3>1, <3>2
  <2>4. /\ SubSeq(p, u, v) \in Seq(Byte)
        /\ Len(SubSeq(p, u, v)) = IF u <= v THEN v - u + 1 ELSE 0
        /\ \A k \in 1 .. v - u + 1 : SubSeq(p, u, v)[k] = p[u + k - 1]
    BY <2>3, SubSeqProperties
  <2>5. PICK q \in Seq(Byte) : q = SubSeq(p, u, v) /\ \A k \in 1 .. v - u + 1 : q[k] = p[u + k - 1]
    BY <2>4
  <2>6. Len(q) = t
    BY <1>1, <2>1, <2>4, <2>5
  <2>7. ASSUME NEW k \in 1 .. t PROVE q[k] = p[i + k]
    <3>1. k \in 1 .. v - u + 1 /\ u + k - 1 = i + k
      BY <1>1, <2>1
    <3> QED
      BY <2>5, <3>1
  <2> QED
    BY <2>2, <2>5, <2>6, <2>7
<1>6. x = q
  <2>1. ASSUME NEW k \in 1 .. t PROVE x[k] = q[k]
    <3>1. k \in 1 .. z - i
      BY <1>1
    <3> QED
      BY <1>2, <1>3, <1>5, <3>1
  <2> QED
    BY <1>3, <1>5, <2>1, SeqEqual
<1> QED
  BY <1>2, <1>3, <1>4, <1>5, <1>6

\* recibir_operacion, with the switch of the memory (socket.c:257-268,
\* memoria.c:60-107).
LEMMA MemoriaOperacion ==
    ASSUME Tipos, RecibirOperacion, guion.destino = "memoria", ~corto,
           guion.cortes = 0 \/ ~corto', EnMemoria
    PROVE  ~corto' /\ EnMemoria'
<1>1. /\ guion' = guion /\ hechas' = hechas /\ emisor' = emisor /\ enRed' = enRed
      /\ recibidos' = recibidos /\ PuedeRecibir
      /\ Consumir(Ancho) /\ lector' \in TrasOperacion(operacion')
  BY DEF RecibirOperacion, varsEmisor
<1>2. socket \in Seq(Byte) /\ enRed \in Seq(Byte)
  BY DEF Tipos, TypeOK
<1>3. ConBuffer = {CREAR_PROCESO}
  BY DEF ConBuffer
<1>4. CASE HayFin
  <2>1. ~corto'
    BY <1>1, <1>4 DEF Consumir, HayFin
  <2>2. operacion' = DESCONEXION /\ cerrado' = TRUE /\ emisor' = "cerrado"
    BY <1>1, <1>4 DEF RecibirOperacion, HayFin
  <2>3. lector' \in {"terminado", "caido"}
    BY <1>1, <2>2, TrasOperacionForma DEF DESCONEXION
  <2>4. Flujo' = <<>> /\ enRed' = <<>>
    <3>1. socket = <<>> /\ enRed = <<>>
      BY <1>4 DEF HayFin
    <3>2. PICK k \in Nat, y \in Seq(Byte) :
            /\ k = Tomado(Ancho) /\ y = Final(socket, k) /\ k <= 0 /\ Len(y) = 0 - k
      <4>1. Ancho \in Nat /\ Len(socket) = 0
        BY <3>1, Anchos, Juntar
      <4>2. /\ Tomado(Ancho) \in Nat /\ Tomado(Ancho) <= Len(socket)
            /\ Final(socket, Tomado(Ancho)) \in Seq(Byte)
            /\ Len(Final(socket, Tomado(Ancho))) = Len(socket) - Tomado(Ancho)
        BY <1>2, <4>1, TomadoForma
      <4> QED
        BY <4>1, <4>2
    <3>3. Len(y) = 0
      BY <3>2
    <3>4. y = <<>> /\ Tras(<<>>, <<>>) = <<>>
      BY <3>3, Juntar
    <3>5. socket' = y
      BY <1>1, <3>2 DEF Consumir, Final
    <3> QED
      BY <1>1, <3>1, <3>4, <3>5 DEF Flujo
  <2>5. recibidos = <<>> /\ hechas \in {0, 1}
    BY DEF EnMemoria
  <2> QED
    BY <1>1, <2>1, <2>2, <2>3, <2>4, <2>5 DEF EnMemoria
<1>5. CASE ~HayFin
  <2>1. socket # <<>>
    BY <1>1, <1>5 DEF PuedeRecibir
  <2>2. PICK w \in Nat, e \in Nat : w = Len(socket) /\ e = Len(enRed) /\ w > 0 /\ Len(Flujo) = w + e
    <3>1. Len(Tras(socket, enRed)) = Len(socket) + Len(enRed)
      BY <1>2, Juntar
    <3>2. Len(socket) # 0
      BY <1>2, <2>1, Juntar
    <3> QED
      BY <1>2, <3>1, <3>2 DEF Flujo
  <2>3. Flujo # <<>>
    BY <2>2, Juntar
  <2>4. hechas = 1 /\ 1 \in 1 .. Len(guion.llamadas) /\ EsLlamada(guion.llamadas[1])
    <3>1. hechas = 1
      BY <2>3 DEF EnMemoria
    <3>2. 1 \in 1 .. Len(guion.llamadas)
      BY <3>1, Hechas
    <3> QED
      BY <3>1, <3>2, Hechas
  <2>5. PICK p \in Seq(Byte), z \in Nat : p = Paquete(guion.llamadas[1]) /\ z = Len(p)
    <3>1. Paquete(guion.llamadas[1]) \in Seq(Byte)
      BY <2>4, PaqueteAntes
    <3> QED
      BY <3>1
  <2>6. PICK j \in 0 .. z - 1, i \in 0 .. z - 1 : i = j * Ancho /\ Flujo = Final(p, i)
    BY <2>3, <2>5 DEF EnMemoria
  <2>7. Len(Flujo) = z - i /\ Flujo \in Seq(Byte)
    <3>1. i \in 0 .. Len(p)
      BY <2>5
    <3> QED
      BY <2>5, <2>6, <3>1, Partida
  <2>8. guion.cortes = 0 => enRed = <<>>
    BY <2>1 DEF EnMemoria
  <2>9. PICK a \in Nat, t \in Nat, x \in Seq(Byte), y \in Seq(Byte) :
          /\ a = Ancho /\ a > 0 /\ t = Tomado(Ancho) /\ x = Recibido(Ancho) /\ y = Final(socket, t)
          /\ t <= a /\ t <= w /\ (t < a => t = w) /\ Len(x) = t /\ socket = Tras(x, y)
    <3>1. Ancho \in Nat /\ Ancho > 0
      BY Anchos
    <3>2. /\ Tomado(Ancho) \in Nat /\ Tomado(Ancho) <= Ancho /\ Tomado(Ancho) <= Len(socket)
          /\ (Tomado(Ancho) < Ancho => Tomado(Ancho) = Len(socket))
          /\ Len(Recibido(Ancho)) = Tomado(Ancho) /\ Recibido(Ancho) \in Seq(Byte)
          /\ Final(socket, Tomado(Ancho)) \in Seq(Byte)
          /\ socket = Tras(Recibido(Ancho), Final(socket, Tomado(Ancho)))
      BY <1>2, <3>1, TomadoForma
    <3> QED
      BY <2>2, <3>1, <3>2
  <2>10. socket' = y /\ (corto' <=> (t < a /\ enRed # <<>>))
    BY <1>1, <2>9 DEF Consumir, Final
  <2>11. ~corto' /\ (t < a => enRed = <<>>)
    BY <2>8, <2>10
  <2>12. t \in 0 .. Ancho /\ i + t <= z /\ (t = Ancho \/ i + t = z)
    <3>1. w + e = z - i /\ i \in Nat
      <4>1. w + e = Len(Flujo) /\ Len(Flujo) = z - i
        BY <2>2, <2>7
      <4> QED
        BY <4>1
    <3>2. t < a => e = 0
      BY <2>2, <2>11, Juntar
    <3> QED
      BY <2>9, <3>1, <3>2
  <2>13. /\ Final(Final(p, i), t) = Final(p, i + t)
         /\ Principio(Final(p, i), t) = Palabra(p, i) /\ Len(Palabra(p, i)) = t
    <3>1. i \in 0 .. Len(p) /\ i + t <= Len(p) /\ (t = Ancho \/ i + t = Len(p))
      BY <2>5, <2>12
    <3> QED
      BY <2>12, <3>1, Sigue
  <2>14. x = Palabra(p, i) /\ Flujo' = Final(p, i + t)
    <3>1. PICK u \in Seq(Byte) : u = Tras(y, enRed)
      <4>1. Tras(y, enRed) \in Seq(Byte)
        BY <1>2, Juntar
      <4> QED
        BY <4>1
    <3>2. Flujo = Tras(x, u)
      <4>1. Tras(Tras(x, y), enRed) = Tras(x, Tras(y, enRed))
        BY <1>2, Juntar
      <4> QED
        BY <2>9, <3>1, <4>1 DEF Flujo
    <3>3. PICK c \in Seq(Byte), d \in Seq(Byte) :
            /\ c = Principio(Flujo, t) /\ d = Final(Flujo, t) /\ Len(c) = t /\ Tras(c, d) = Flujo
      <4>1. t \in 0 .. Len(Flujo)
        BY <2>2, <2>9
      <4> QED
        BY <2>7, <4>1, Partida
    <3>4. x = c /\ u = d
      BY <2>9, <3>2, <3>3, MismoCorte
    <3>5. Flujo' = u
      BY <1>1, <2>10, <3>1 DEF Flujo
    <3> QED
      BY <2>6, <2>13, <3>3, <3>4, <3>5
  <2>15. operacion' \in Nat /\ operacion' \notin {DESCONEXION, CREAR_PROCESO}
    <3>1. Recibe(operacion')
      BY <1>5 DEF RecibirOperacion
    <3>2. operacion' \in Nat
      BY <1>2, <3>1, RecibeForma
    <3>3. PICK resto \in [1 .. Ancho - Len(Palabra(p, i)) -> BytesBasura] :
            operacion' = Valor(Palabra(p, i) \o resto)
      <4>1. PICK resto \in [1 .. Ancho - Tomado(Ancho) -> BytesBasura] :
              operacion' = Valor(Recibido(Ancho) \o resto)
        BY <3>1 DEF Recibe
      <4>2. Tomado(Ancho) = Len(Palabra(p, i)) /\ Recibido(Ancho) = Palabra(p, i)
        BY <2>9, <2>13, <2>14
      <4> QED
        BY <4>1, <4>2
    <3>4. guion \in Guiones
      BY DEF Tipos, TypeOK
    <3>5. \A k, l \in 0 .. Len(p) - 1 : l = k * Ancho =>
             \A r \in [1 .. Ancho - Len(Palabra(p, l)) -> BytesBasura] :
                Valor(Palabra(p, l) \o r) \notin {DESCONEXION, CREAR_PROCESO}
      <4>1. SinCaso(p)
        BY <2>4, <2>5, <3>4, PalabrasSinCaso
      <4> QED
        BY <4>1 DEF SinCaso
    <3>6. operacion' \notin {DESCONEXION, CREAR_PROCESO}
      BY <2>5, <2>6, <3>3, <3>5
    <3> QED
      BY <3>2, <3>6
  <2>16. lector' \in {"operacion", "caido"}
    BY <1>1, <1>3, <2>15, TrasOperacionForma
  <2>17. \/ Flujo' = <<>>
         \/ \E k, l \in 0 .. z - 1 : l = k * Ancho /\ Flujo' = Final(p, l)
    <3>1. CASE i + t = z
      <4>1. z \in 0 .. Len(p)
        BY <2>5
      <4>2. Final(p, z) \in Seq(Byte) /\ Len(Final(p, z)) = Len(p) - z
        BY <4>1, Partida
      <4>3. Len(Final(p, z)) = 0
        BY <2>5, <4>2
      <4>4. Final(p, z) = <<>>
        BY <4>2, <4>3, Juntar
      <4> QED
        BY <2>14, <3>1, <4>4
    <3>2. CASE i + t # z
      <4>1. t = a /\ i + a < z
        BY <2>9, <2>12, <3>2
      <4>2. i + a = (j + 1) * a
        BY <2>6, <2>9
      <4>3. j + 1 <= i + a
        <5>1. PICK b \in Nat : a = b + 1
          <6>1. a - 1 \in Nat /\ a = (a - 1) + 1
            BY <2>9
          <6> QED
            BY <6>1
        <5>2. (j + 1) * (b + 1) = (j + 1) * b + (j + 1)
          OBVIOUS
        <5>3. (j + 1) * b \in Nat
          OBVIOUS
        <5> QED
          BY <4>2, <5>1, <5>2, <5>3
      <4>4. j + 1 \in 0 .. z - 1 /\ i + t \in 0 .. z - 1 /\ i + t = (j + 1) * Ancho
        BY <2>9, <4>1, <4>2, <4>3
      <4> QED
        BY <2>14, <4>4
    <3> QED
      BY <3>1, <3>2
  <2>18. guion'.cortes = 0 => enRed' = <<>> \/ socket' = <<>>
    BY <1>1, <2>8
  <2>19. recibidos = <<>>
    BY DEF EnMemoria
  <2>20. EnMemoria'
    BY <1>1, <2>4, <2>5, <2>16, <2>17, <2>18, <2>19 DEF EnMemoria
  <2> QED
    BY <2>11, <2>20
<1> QED
  BY <1>4, <1>5

-----------------------------------------------------------------------------
(* The inductive invariant *)

\* Until a recv takes a part of what it asked for, what is on its way is what the
\* thread has not deserialized of what the client has sent, from the part it is to
\* read on; and if the network cuts nothing that is always so.
EnlaceInv ==
    /\ Tipos
    /\ guion.cortes = 0 => ~corto
    /\ \/ corto
       \/ /\ guion.destino = "kernel"
          /\ \E g, m : EsCola(guion.llamadas, g, hechas) /\ EnKernel(g, m)
       \/ guion.destino = "memoria" /\ EnMemoria

\* The invariant holds when the connection is made.
LEMMA InvInicio == Init => EnlaceInv
<1> SUFFICES ASSUME Init PROVE EnlaceInv
  OBVIOUS
<1>1. Tipos
  BY TiposInicio
<1>2. hechas = 0 /\ lector = "operacion" /\ recibidos = <<>> /\ enRed = <<>> /\ ~corto
  BY DEF Init
<1>3. Flujo = <<>>
  BY Juntar DEF Init, Flujo
<1>4. CASE guion.destino = "kernel"
  <2>1. PICK g : g = [k \in 0 .. 0 |-> <<>>]
    OBVIOUS
  <2>2. EsCola(guion.llamadas, g, hechas)
    <3>1. g \in [0 .. 0 -> Seq(Byte)] /\ g[0] = <<>>
      BY <2>1, Juntar
    <3>2. \A i, j \in 0 .. 0 : Len(g[j]) <= Len(g[i])
      BY <2>1, Juntar
    <3>3. \A k \in 0 .. 0 - 1 : FALSE
      OBVIOUS
    <3> QED
      BY <1>2, <3>1, <3>2, <3>3 DEF EsCola
  <2>3. EnKernel(g, 0)
    <3>1. recibidos = [k \in 1 .. 0 |-> Contenido(guion.llamadas[k])]
      BY <1>2
    <3>2. 0 \in 0 .. 0 /\ g[0] = <<>>
      BY <2>1
    <3> QED
      BY <1>2, <1>3, <3>1, <3>2 DEF EnKernel
  <2> QED
    BY <1>1, <1>2, <1>4, <2>2, <2>3 DEF EnlaceInv
<1>5. CASE guion.destino = "memoria"
  <2>1. EnMemoria
    BY <1>2, <1>3 DEF EnMemoria
  <2> QED
    BY <1>1, <1>2, <1>5, <2>1 DEF EnlaceInv
<1> QED
  BY <1>1, <1>4, <1>5, Hechas

\* One step per action.
LEMMA InvPaso == EnlaceInv /\ [Next]_vars => EnlaceInv'
<1> SUFFICES ASSUME EnlaceInv, [Next]_vars PROVE EnlaceInv'
  OBVIOUS
<1>1. Tipos /\ Tipos'
  BY TiposPaso DEF EnlaceInv
<1>2. guion' = guion /\ (corto => corto')
  <2>1. \A n : Consumir(n) => (corto => corto')
    BY DEF Consumir
  <2>2. CASE Enviar \/ Terminar \/ Entregar \/ UNCHANGED vars
    BY <2>2 DEF Enviar, Terminar, Entregar, varsEmisor, varsLector, vars
  <2>3. CASE AtenderCliente
    <3>1. guion' = guion /\ (Consumir(Ancho) \/ Consumir(tam))
      BY <2>3 DEF AtenderCliente, RecibirOperacion, RecibirTamano, RecibirContenido, varsEmisor
    <3> QED
      BY <2>1, <3>1
  <2> QED
    BY <2>2, <2>3 DEF Next
<1>3. CASE corto
  BY <1>1, <1>2, <1>3 DEF EnlaceInv
<1>4. CASE ~corto /\ guion.destino = "kernel"
  <2>1. PICK g, m : EsCola(guion.llamadas, g, hechas) /\ EnKernel(g, m)
    BY <1>4 DEF EnlaceInv
  <2>2. SUFFICES ASSUME guion.cortes = 0 \/ ~corto'
                 PROVE  ~corto' /\ \E h, n : EsCola(guion.llamadas, h, hechas)' /\ EnKernel(h, n)'
    BY <1>1, <1>2, <1>4 DEF EnlaceInv
  <2>3. CASE Enviar
    <3>1. ~corto'
      BY <1>4, <2>3 DEF Enviar, varsLector
    <3> QED
      BY <1>1, <2>1, <2>3, <3>1, KernelEnviar
  <2>4. CASE Terminar
    <3>1. ~corto'
      BY <1>4, <2>4 DEF Terminar, varsLector
    <3> QED
      BY <1>1, <2>1, <2>4, <3>1, KernelTerminar
  <2>5. CASE Entregar
    <3>1. ~corto'
      BY <1>4, <2>5 DEF Entregar, varsLector
    <3> QED
      BY <1>1, <2>1, <2>5, <3>1, KernelEntregar
  <2>6. CASE RecibirOperacion
    BY <1>1, <1>4, <2>1, <2>2, <2>6, KernelOperacion
  <2>7. CASE RecibirTamano
    BY <1>1, <1>4, <2>1, <2>2, <2>7, KernelTamano
  <2>8. CASE RecibirContenido
    BY <1>1, <1>4, <2>1, <2>2, <2>8, KernelContenido
  <2>9. CASE UNCHANGED vars
    <3>1. EsCola(guion.llamadas, g, hechas)' /\ EnKernel(g, m)' /\ ~corto'
      BY <1>4, <2>1, <2>9 DEF vars, EsCola, EnKernel, Flujo
    <3> QED
      BY <3>1
  <2> QED
    BY <2>3, <2>4, <2>5, <2>6, <2>7, <2>8, <2>9 DEF Next, AtenderCliente
<1>5. CASE ~corto /\ guion.destino = "memoria"
  <2>1. EnMemoria
    BY <1>5 DEF EnlaceInv
  <2>2. SUFFICES ASSUME guion.cortes = 0 \/ ~corto' PROVE ~corto' /\ EnMemoria'
    BY <1>1, <1>2, <1>5 DEF EnlaceInv
  <2>3. CASE Enviar
    <3>1. ~corto'
      BY <1>5, <2>3 DEF Enviar, varsLector
    <3> QED
      BY <1>1, <1>5, <2>1, <2>3, <3>1, MemoriaEnviar
  <2>4. CASE Terminar
    <3>1. ~corto'
      BY <1>5, <2>4 DEF Terminar, varsLector
    <3> QED
      BY <1>1, <2>1, <2>4, <3>1, MemoriaTerminar
  <2>5. CASE Entregar
    <3>1. ~corto'
      BY <1>5, <2>5 DEF Entregar, varsLector
    <3> QED
      BY <1>1, <2>1, <2>5, <3>1, MemoriaEntregar
  <2>6. CASE RecibirOperacion
    BY <1>1, <1>5, <2>1, <2>2, <2>6, MemoriaOperacion
  <2>7. CASE RecibirTamano \/ RecibirContenido
    BY <2>1, <2>7 DEF RecibirTamano, RecibirContenido, EnMemoria
  <2>8. CASE UNCHANGED vars
    BY <1>5, <2>1, <2>8 DEF vars, EnMemoria, Flujo
  <2> QED
    BY <2>3, <2>4, <2>5, <2>6, <2>7, <2>8 DEF Next, AtenderCliente
<1> QED
  BY <1>1, <1>3, <1>4, <1>5, Hechas

\* The invariant holds for any scripts, bytes and garbage.
THEOREM EnlaceSiempre == Spec => []EnlaceInv
  BY InvInicio, InvPaso, PTL DEF Spec

\* Every variable keeps its type, whatever bytes the thread takes for numbers.
THEOREM TiposSiempre == Spec => []TypeOK
<1>1. EnlaceInv => TypeOK
  BY DEF EnlaceInv, Tipos
<1> QED
  BY <1>1, EnlaceSiempre, PTL

\* A thread that ends has closed its descriptor, unless a recv was cut
\* (socket.c:262-266).
THEOREM CierreSiempre == Spec => []CierraAlTerminar
<1>1. EnlaceInv => CierraAlTerminar
  BY DEF EnlaceInv, EnKernel, EnMemoria, CierraAlTerminar
<1> QED
  BY <1>1, EnlaceSiempre, PTL

-----------------------------------------------------------------------------
(* The channel *)

\* What is sent has a case in the kernel and has none in the memory.
LEMMA ConCasoForma ==
    ASSUME guion.destino \in {"kernel", "memoria"}
    PROVE  /\ guion.destino = "kernel" =>
                 ConCaso = [k \in 1 .. hechas |-> Contenido(guion.llamadas[k])]
           /\ guion.destino = "memoria" => ConCaso = <<>>
<1>1. guion.destino = "kernel" => {HANDSHAKE, MENSAJE} \subseteq ConBuffer
  BY DEF ConBuffer
<1>2. guion.destino = "memoria" => ~({HANDSHAKE, MENSAJE} \subseteq ConBuffer)
  BY DEF ConBuffer, HANDSHAKE, MENSAJE, CREAR_PROCESO
<1> QED
  BY <1>1, <1>2 DEF ConCaso, Contenidos

\* A step that neither sends nor deserializes nor ends anything.
LEMMA CanalIgual ==
    ASSUME ConCaso' = ConCaso, recibidos' = recibidos,
           emisor' = "cerrado" <=> emisor = "cerrado",
           lector' = "terminado" <=> lector = "terminado"
    PROVE  UNCHANGED Fifo!vars
<1>1. (emisor' = "cerrado") = (emisor = "cerrado") /\ (lector' = "terminado") = (lector = "terminado")
  OBVIOUS
<1> QED
  BY <1>1 DEF Fifo!vars

\* enviar_handshake and enviar_mensaje send the kernel one more of what it has a
\* case for, and the memory none (protocolo.c:350-399).
LEMMA CanalEnviar ==
    ASSUME Tipos, Enviar
    PROVE  [Fifo!Next]_(Fifo!vars)
<1>1. PICK n \in Nat : n = hechas /\ hechas' = n + 1 /\ n + 1 \in 1 .. Len(guion.llamadas)
  BY Hechas DEF Enviar
<1>2. /\ guion' = guion /\ guion \in Guiones /\ recibidos' = recibidos /\ lector' = lector
      /\ emisor' = emisor /\ emisor = "abierto"
  BY DEF Enviar, varsLector, Tipos, TypeOK
<1>3. guion.destino \in {"kernel", "memoria"} /\ guion'.destino \in {"kernel", "memoria"}
  BY <1>2, Hechas
<1>4. CASE guion.destino = "memoria"
  <2>1. ConCaso = <<>>
    BY <1>3, <1>4, ConCasoForma
  <2>2. ConCaso' = <<>>
    <3>1. ~({HANDSHAKE, MENSAJE} \subseteq ConBuffer')
      BY <1>2, <1>4 DEF ConBuffer, HANDSHAKE, MENSAJE, CREAR_PROCESO
    <3> QED
      BY <3>1 DEF ConCaso
  <2> QED
    BY <1>2, <2>1, <2>2, CanalIgual
<1>5. CASE guion.destino = "kernel"
  <2>1. PICK r, c : /\ r = [k \in 1 .. n |-> Contenido(guion.llamadas[k])] /\ r = ConCaso
                    /\ c = Contenido(guion.llamadas[n + 1])
    BY <1>1, <1>3, <1>5, ConCasoForma
  <2>2. ConCaso' = [k \in 1 .. n + 1 |-> Contenido(guion.llamadas[k])]
    <3>1. {HANDSHAKE, MENSAJE} \subseteq ConBuffer'
      BY <1>2, <1>5 DEF ConBuffer
    <3> QED
      BY <1>1, <1>2, <3>1 DEF ConCaso, Contenidos
  <2>3. Len(r) = n
    BY <2>1
  <2>4. ConCaso' = Append(ConCaso, c)
    BY <2>1, <2>2, <2>3
  <2>5. c \in Posibles
    BY <1>1, <1>2, <2>1 DEF Posibles
  <2>6. (emisor' = "cerrado") = (emisor = "cerrado") /\ (lector' = "terminado") = (lector = "terminado")
    BY <1>2
  <2>7. ~(emisor = "cerrado")
    BY <1>2
  <2>8. Fifo!Enviar
    BY <1>2, <2>4, <2>5, <2>6, <2>7 DEF Fifo!Enviar
  <2> QED
    BY <2>8 DEF Fifo!Next
<1> QED
  BY <1>3, <1>4, <1>5

\* The end of the client closes the channel.
LEMMA CanalTerminar ==
    ASSUME Terminar
    PROVE  [Fifo!Next]_(Fifo!vars)
<1>1. /\ guion' = guion /\ hechas' = hechas /\ recibidos' = recibidos /\ lector' = lector
      /\ emisor' = "cerrado"
  BY DEF Terminar, varsLector
<1>2. ConCaso' = ConCaso
  BY <1>1 DEF ConCaso, Contenidos, ConBuffer
<1>3. (emisor' = "cerrado") = TRUE /\ (lector' = "terminado") = (lector = "terminado")
  BY <1>1
<1>4. Fifo!Cerrar
  BY <1>1, <1>2, <1>3 DEF Fifo!Cerrar
<1> QED
  BY <1>4 DEF Fifo!Next

\* The end of the stream ends the channel, and nothing else does (socket.c:262-266).
LEMMA CanalOperacion ==
    ASSUME EnlaceInv', Tipos, RecibirOperacion, ~corto'
    PROVE  [Fifo!Next]_(Fifo!vars)
<1>1. /\ guion' = guion /\ hechas' = hechas /\ recibidos' = recibidos /\ emisor' = emisor
      /\ lector = "operacion"
  BY DEF RecibirOperacion, varsEmisor
<1>2. ConCaso' = ConCaso
  BY <1>1 DEF ConCaso, Contenidos, ConBuffer
<1>3. CASE lector' # "terminado"
  BY <1>1, <1>2, <1>3, CanalIgual
<1>4. CASE lector' = "terminado"
  <2>1. guion.destino \in {"kernel", "memoria"}
    BY Hechas
  <2>2. recibidos' = ConCaso /\ emisor' = "cerrado"
    <3>1. CASE guion.destino = "kernel"
      <4>1. PICK g, m : EnKernel(g, m)'
        BY <1>1, <3>1 DEF EnlaceInv
      <4>2. m = hechas' /\ emisor' = "cerrado" /\ recibidos' = [k \in 1 .. m |-> Contenido(guion'.llamadas[k])]
        BY <1>4, <4>1 DEF EnKernel
      <4> QED
        BY <1>1, <2>1, <3>1, <4>2, ConCasoForma
    <3>2. CASE guion.destino = "memoria"
      <4>1. EnMemoria'
        BY <1>1, <3>2 DEF EnlaceInv
      <4>2. recibidos' = <<>> /\ emisor' = "cerrado"
        BY <1>4, <4>1 DEF EnMemoria
      <4> QED
        BY <2>1, <3>2, <4>2, ConCasoForma
    <3> QED
      BY <2>1, <3>1, <3>2
  <2>3. (emisor' = "cerrado") = (emisor = "cerrado") /\ emisor = "cerrado"
    BY <1>1, <2>2
  <2>4. (lector' = "terminado") = TRUE /\ ~(lector = "terminado")
    BY <1>1, <1>4
  <2>5. Fifo!Terminar
    BY <1>1, <1>2, <2>2, <2>3, <2>4 DEF Fifo!Terminar
  <2> QED
    BY <2>5 DEF Fifo!Next
<1> QED
  BY <1>3, <1>4

\* What is deserialized is the next of what was sent (kernel.c:218-242).
LEMMA CanalContenido ==
    ASSUME EnlaceInv, RecibirContenido, ~corto, guion.cortes = 0 \/ ~corto'
    PROVE  [Fifo!Next]_(Fifo!vars)
<1>1. Tipos /\ lector = "contenido"
  BY DEF EnlaceInv, RecibirContenido
<1>2. guion.destino = "kernel"
  BY <1>1 DEF EnlaceInv, EnMemoria
<1>3. PICK g, m : EsCola(guion.llamadas, g, hechas) /\ EnKernel(g, m)
  BY <1>2 DEF EnlaceInv, EnMemoria
<1>4. /\ m < hechas /\ recibidos' = Append(recibidos, Contenido(guion.llamadas[m + 1]))
      /\ lector' # "terminado" /\ lector # "terminado"
  BY <1>1, <1>3, KernelContenido
<1>5. m \in Nat /\ hechas \in Nat /\ recibidos = [k \in 1 .. m |-> Contenido(guion.llamadas[k])]
  BY <1>1, <1>3, Hechas DEF EnKernel
<1>6. /\ guion' = guion /\ hechas' = hechas /\ emisor' = emisor
  BY DEF RecibirContenido, varsEmisor
<1>7. ConCaso' = ConCaso
  BY <1>6 DEF ConCaso, Contenidos, ConBuffer
<1>8. ConCaso = [k \in 1 .. hechas |-> Contenido(guion.llamadas[k])]
  BY <1>2, ConCasoForma
<1>9. Len(recibidos) = m /\ Len(ConCaso) = hechas
  BY <1>5, <1>8
<1>10. ConCaso[m + 1] = Contenido(guion.llamadas[m + 1])
  <2>1. m + 1 \in 1 .. hechas
    BY <1>4, <1>5
  <2> QED
    BY <1>8, <2>1
<1>11. recibidos' = Append(recibidos, ConCaso[Len(recibidos) + 1]) /\ Len(recibidos) < Len(ConCaso)
  BY <1>4, <1>9, <1>10
<1>12. (emisor' = "cerrado") = (emisor = "cerrado") /\ (lector' = "terminado") = (lector = "terminado")
  BY <1>4, <1>6
<1>13. Fifo!Recibir
  BY <1>4, <1>7, <1>11, <1>12 DEF Fifo!Recibir
<1> QED
  BY <1>13 DEF Fifo!Next

\* Every step is one of the channel or leaves it.
LEMMA CanalPaso ==
    EnlaceInv /\ EnlaceInv' /\ [Next]_vars
        => [~corto' \/ guion.cortes = 0 => [Fifo!Next]_(Fifo!vars)]_vars
<1> SUFFICES ASSUME EnlaceInv, EnlaceInv', Next, ~corto' \/ guion.cortes = 0
             PROVE  [Fifo!Next]_(Fifo!vars)
  OBVIOUS
<1>1. Tipos
  BY DEF EnlaceInv
<1>2. CASE Enviar
  BY <1>1, <1>2, CanalEnviar
<1>3. CASE Terminar
  BY <1>3, CanalTerminar
<1>4. CASE Entregar
  <2>1. ConCaso' = ConCaso
    BY <1>4 DEF Entregar, varsEmisor, ConCaso, Contenidos, ConBuffer
  <2> QED
    BY <1>4, <2>1, CanalIgual DEF Entregar, varsEmisor, varsLector
<1>5. CASE AtenderCliente
  <2>1. guion' = guion /\ (Consumir(Ancho) \/ Consumir(tam))
    BY <1>5 DEF AtenderCliente, RecibirOperacion, RecibirTamano, RecibirContenido, varsEmisor
  <2>2. ~corto /\ ~corto'
    BY <2>1 DEF EnlaceInv, Consumir
  <2>3. CASE RecibirOperacion
    BY <1>1, <2>2, <2>3, CanalOperacion
  <2>4. CASE RecibirTamano
    <3>1. ConCaso' = ConCaso
      BY <2>4 DEF RecibirTamano, varsEmisor, ConCaso, Contenidos, ConBuffer
    <3> QED
      BY <2>4, <3>1, CanalIgual DEF RecibirTamano, varsEmisor
  <2>5. CASE RecibirContenido
    BY <2>2, <2>5, CanalContenido
  <2> QED
    BY <1>5, <2>3, <2>4, <2>5 DEF AtenderCliente
<1> QED
  BY <1>2, <1>3, <1>4, <1>5 DEF Next

\* Until a recv takes a part of what it asked for, and with whole packets always, a
\* connection is a FIFO channel of the structs that its two ends use (socket.c:257-276,
\* kernel.c:217-255, memoria.c:60-107).
THEOREM CanalSiempre == Spec => CanalHastaCorto
<1>1. Init => Fifo!Init
  <2> SUFFICES ASSUME Init PROVE Fifo!Init
    OBVIOUS
  <2>1. Tipos
    BY TiposInicio
  <2>2. ConCaso = <<>>
    <3>1. hechas = 0
      BY DEF Init
    <3>2. [k \in 1 .. 0 |-> Contenido(guion.llamadas[k])] = <<>>
      OBVIOUS
    <3> QED
      BY <2>1, <3>1, <3>2, Hechas, ConCasoForma
  <2>3. (emisor = "cerrado") = FALSE /\ (lector = "terminado") = FALSE /\ recibidos = <<>>
    BY DEF Init
  <2> QED
    BY <2>2, <2>3 DEF Fifo!Init
<1> QED
  BY <1>1, CanalPaso, EnlaceSiempre, PTL DEF Spec, CanalHastaCorto

=============================================================================
