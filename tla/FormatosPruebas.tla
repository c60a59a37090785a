--------------------------- MODULE FormatosPruebas ---------------------------
(***************************************************************************)
(* Proofs about Formatos: every serializer fills the block it asked for,   *)
(* and its deserializer reads back what was serialized.                    *)
(***************************************************************************)
EXTENDS Formatos, ProtocoloPruebas

\* The sizes of the strings (protocolo.h:11-16).
LEMMA Medidas ==
    /\ Limite \in Nat /\ Ancho \in Nat /\ Ancho > 0 /\ 3 * Ancho + 2 < Limite
    /\ \A t \in Textos : Corta(t) /\ Len(t) \in Nat /\ 3 * Ancho + Len(t) + 2 < Limite
<1>1. Len(<<>>) = 0
  OBVIOUS
<1> QED
  BY <1>1, LimiteForma, Valores, BloquesCaben DEF Corta

-----------------------------------------------------------------------------
(* Each kind of contents *)

USE DEF HANDSHAKE, PERSONA, MENSAJE, INSTRUCCION, CREAR_PROCESO, LINEA, CANTIDAD_ESPACIO_LIBRE

\* What Interpretar must find.
Leido(codigo, valor, resultado) ==
    IF codigo = CREAR_PROCESO THEN resultado.nombre_archivo = valor ELSE resultado = valor

\* A full block from which a value is read, wherever its offset was left.
Guarda(codigo, valor, s) ==
    /\ s \in Seq(Byte) /\ Len(s) < Limite
    /\ \A o \in Nat : Leido(codigo, valor, Deserializar(codigo, Lleno(Len(s), o, s)))

Escrita(codigo, valor, bloque) ==
    \E s \in Seq(Byte), o \in Nat : bloque = Lleno(Len(s), o, s) /\ Guarda(codigo, valor, s)

\* A message, and a handshake (protocolo.c:244-253, 287-298, 315-348).
LEMMA MensajeEscrito ==
    ASSUME NEW valor \in Datos(MENSAJE)
    PROVE  Escrita(MENSAJE, valor, Serializar(MENSAJE, valor))
<1>1. PICK t \in Textos : valor = MensajeDe(t)
  BY DEF Datos, Mensajes
<1>2. PICK s \in Seq(Byte), o \in Nat :
        /\ SerializarMensaje(valor) = Lleno(Len(s), o, s) /\ Len(s) < Limite
        /\ \A i \in Nat : DeserializarMensaje(Lleno(Len(s), i, s)) = valor
  BY <1>1, Medidas, MensajeForma
<1> QED
  BY <1>2 DEF Escrita, Guarda, Leido, Serializar, Deserializar

\* The block that an enviar_handshake writes (protocolo.c:350-375).
LEMMA HandshakeEscrito ==
    ASSUME NEW valor \in Datos(HANDSHAKE)
    PROVE  Escrita(HANDSHAKE, valor, Serializar(HANDSHAKE, valor))
<1>1. PICK cod \in Byte, rec \in {CPU, IO}, t \in Textos :
        valor = [codigo |-> cod, recurso |-> rec, nombre |-> MensajeDe(t)]
  BY DEF Datos, Mensajes
<1>2. rec \in Nat /\ rec < Limite
  BY Medidas DEF CPU, IO
<1>3. PICK s \in Seq(Byte), o \in Nat :
        /\ SerializarHandshake(valor) = Lleno(Len(s), o, s) /\ Len(s) < Limite
        /\ \A i \in Nat : DeserializarHandshake(Lleno(Len(s), i, s)) = valor
  BY <1>1, <1>2, Medidas, HandshakeForma
<1> QED
  BY <1>3 DEF Escrita, Guarda, Leido, Serializar, Deserializar

\* The name of a file (protocolo_comunicacion_memoria.c:1-29).
LEMMA CrearProcesoEscrito ==
    ASSUME NEW valor \in Datos(CREAR_PROCESO)
    PROVE  Escrita(CREAR_PROCESO, valor, Serializar(CREAR_PROCESO, valor))
<1>1. valor \in Textos
  BY DEF Datos
<1>2. PICK s \in Seq(Byte), i \in Nat :
        /\ BufferAddString(CrearBuffer(Ancho + Len(valor) + 1), Len(valor), valor)
              = Lleno(Len(s), i, s)
        /\ Len(s) < Limite
        /\ BufferReadString(Lleno(Len(s), 0, s)) = MensajeDe(valor)
  BY <1>1, Medidas, CadenaEscrita
<1>3. Serializar(CREAR_PROCESO, valor) = Lleno(Len(s), i, s)
  BY <1>2 DEF Serializar, SerializarCrearProceso
<1>4. ASSUME NEW o \in Nat
      PROVE  Deserializar(CREAR_PROCESO, Lleno(Len(s), o, s)).nombre_archivo = valor
  <2>1. Deserializar(CREAR_PROCESO, Lleno(Len(s), o, s))
           = DeserializarCrearProceso(Lleno(Len(s), o, s))
    BY DEF Deserializar
  <2>3. [Lleno(Len(s), o, s) EXCEPT !.offset = 0] = Lleno(Len(s), 0, s)
    BY DEF Lleno
  <2>2. DeserializarCrearProceso(Lleno(Len(s), o, s)).nombre_archivo
           = BufferReadString(Lleno(Len(s), 0, s)).texto
    BY <2>3 DEF DeserializarCrearProceso
  <2> QED
    BY <1>2, <2>1, <2>2 DEF MensajeDe
<1> QED
  BY <1>2, <1>3, <1>4, Medidas DEF Escrita, Guarda, Leido

\* An instruction (protocolo.c:255-266, 300-312).
LEMMA InstruccionEscrita ==
    ASSUME NEW valor \in Datos(INSTRUCCION)
    PROVE  Escrita(INSTRUCCION, valor, Serializar(INSTRUCCION, valor))
<1>1. Limite \in Nat /\ Ancho \in Nat /\ 3 * Ancho + 2 < Limite
  BY Medidas
<1>0. PICK z \in Nat : z = Ancho * 2
  BY <1>1
<1>2. PICK pid \in Nat, pc \in Nat :
        pid < Limite /\ pc < Limite /\ valor = [pid |-> pid, pc |-> pc]
  <2>1. \A v \in Numeros : v \in Nat /\ v < Limite
    BY <1>1, Valores
  <2> QED
    BY <2>1 DEF Datos
<1>3. z \in Nat /\ z < Limite
  BY <1>0, <1>1
<1>4. PICK s0 \in Seq(Byte) : Len(s0) = 0 /\ CrearBuffer(z) = Lleno(z, Len(s0), s0)
  BY <1>3, Creado
<1>5. PICK s1, s2 : s1 = Tras(s0, EnBytes(pid)) /\ s2 = Tras(s1, EnBytes(pc))
  OBVIOUS
<1>6. /\ s1 \in Seq(Byte) /\ Len(s1) = Len(s0) + Ancho
      /\ Tiene(s1, Len(s0), EnBytes(pid))
      /\ BufferAddUint32(Lleno(z, Len(s0), s0), pid) = Lleno(z, Len(s1), s1)
  BY <1>5, ConNumero
<1>7. /\ s2 \in Seq(Byte) /\ Len(s2) = Len(s1) + Ancho /\ Conserva(s2, s1)
      /\ Tiene(s2, Len(s1), EnBytes(pc))
      /\ BufferAddUint32(Lleno(z, Len(s1), s1), pc) = Lleno(z, Len(s2), s2)
  BY <1>5, <1>6, ConNumero
<1>8. Len(s1) = Ancho /\ Len(s2) = z
  BY <1>0, <1>1, <1>4, <1>6, <1>7
<1>9. Tiene(s2, 0, EnBytes(pid)) /\ Tiene(s2, Ancho, EnBytes(pc))
  BY <1>4, <1>6, <1>7, <1>8, Partes DEF Conserva
<1>10. Serializar(INSTRUCCION, valor) = Lleno(Len(s2), Len(s2), s2)
  <2>1. Serializar(INSTRUCCION, valor) = SerializarInstruccion(valor)
    BY DEF Serializar
  <2>2. SerializarInstruccion(valor) = BufferAddUint32(BufferAddUint32(CrearBuffer(z), pid), pc)
    BY <1>0, <1>2 DEF SerializarInstruccion
  <2> QED
    BY <1>4, <1>6, <1>7, <1>8, <2>1, <2>2
<1>11. ASSUME NEW o \in Nat PROVE Deserializar(INSTRUCCION, Lleno(Len(s2), o, s2)) = valor
  <2> DEFINE b == Lleno(Len(s2), 0, s2)
  <2>1. Deserializar(INSTRUCCION, Lleno(Len(s2), o, s2))
           = DeserializarInstruccion(Lleno(Len(s2), o, s2))
    BY DEF Deserializar
  <2>5. [Lleno(Len(s2), o, s2) EXCEPT !.offset = 0] = b
    BY DEF Lleno
  <2>2. DeserializarInstruccion(Lleno(Len(s2), o, s2))
           = [pid |-> BufferReadUint32(b), pc |-> BufferReadUint32(Avanzar(b, Ancho))]
    BY <2>5 DEF DeserializarInstruccion
  <2>3. Avanzar(b, Ancho) = Lleno(Len(s2), Ancho, s2)
    <3>1. 0 + Ancho = Ancho
      BY <1>1
    <3> QED
      BY <3>1 DEF Avanzar, Lleno
  <2>4. BufferReadUint32(b) = pid /\ BufferReadUint32(Lleno(Len(s2), Ancho, s2)) = pc
    BY <1>1, <1>2, <1>7, <1>9, LeerNumero
  <2> HIDE DEF b
  <2> QED
    BY <1>2, <2>1, <2>2, <2>3, <2>4
<1> QED
  BY <1>1, <1>3, <1>7, <1>8, <1>10, <1>11 DEF Escrita, Guarda, Leido

\* A persona (protocolo.c:225-241, 268-284).
LEMMA PersonaEscrita ==
    ASSUME NEW valor \in Datos(PERSONA)
    PROVE  Escrita(PERSONA, valor, Serializar(PERSONA, valor))
<1>1. Limite \in Nat /\ Ancho \in Nat /\ Byte \subseteq Nat
  BY Medidas, Anchos DEF Byte
<1>2. PICK dni \in Nat, edad \in Byte, pas \in Nat, t \in Textos :
        /\ dni < Limite /\ pas < Limite
        /\ valor = [dni |-> dni, edad |-> edad, pasaporte |-> pas,
                    nombre_length |-> Len(t), nombre |-> t]
  <2>1. \A v \in Numeros : v \in Nat /\ v < Limite
    BY <1>1, Valores
  <2>2. PICK dni \in Numeros, edad \in Byte, pas \in Numeros, t \in Textos :
          valor = [dni |-> dni, edad |-> edad, pasaporte |-> pas,
                   nombre_length |-> Len(t), nombre |-> t]
    BY DEF Datos
  <2> QED
    BY <2>1, <2>2
<1>3. Len(t) \in Nat /\ 3 * Ancho + Len(t) + 2 < Limite
  BY Medidas
<1>4. PICK z \in Nat : z = Ancho * 2 + 1 + Ancho + Len(t) + 1 /\ z < Limite
  BY <1>1, <1>3
<1>5. PICK s0 \in Seq(Byte) : Len(s0) = 0 /\ CrearBuffer(z) = Lleno(z, Len(s0), s0)
  BY <1>4, Creado
<1>6. PICK s1, s2, s3, s4 : /\ s1 = Tras(s0, EnBytes(dni)) /\ s2 = Tras(s1, <<edad>>)
                            /\ s3 = Tras(s2, EnBytes(pas)) /\ s4 = ConTexto(s3, t)
  OBVIOUS
<1>7. /\ s1 \in Seq(Byte) /\ Len(s1) = Len(s0) + Ancho
      /\ Tiene(s1, Len(s0), EnBytes(dni))
      /\ BufferAddUint32(Lleno(z, Len(s0), s0), dni) = Lleno(z, Len(s1), s1)
  BY <1>6, ConNumero
<1>8. /\ s2 \in Seq(Byte) /\ Len(s2) = Len(s1) + 1 /\ Conserva(s2, s1)
      /\ Tiene(s2, Len(s1), <<edad>>)
      /\ BufferAddUint8(Lleno(z, Len(s1), s1), edad) = Lleno(z, Len(s2), s2)
  BY <1>6, <1>7, ConByte
<1>9. /\ s3 \in Seq(Byte) /\ Len(s3) = Len(s2) + Ancho /\ Conserva(s3, s2)
      /\ Tiene(s3, Len(s2), EnBytes(pas))
      /\ BufferAddUint32(Lleno(z, Len(s2), s2), pas) = Lleno(z, Len(s3), s3)
  BY <1>6, <1>8, ConNumero
<1>10. /\ s4 \in Seq(Byte) /\ Len(s4) = Len(s3) + Ancho + Len(t) + 1 /\ Conserva(s4, s3)
       /\ BufferAddString(Lleno(z, Len(s3), s3), Len(t), t) = Lleno(z, Len(s3) + Ancho, s4)
       /\ BufferReadString(Lleno(Len(s4), Len(s3), s4)) = MensajeDe(t)
  BY <1>6, <1>9, Medidas, ConCadena
<1>11. /\ Len(s1) = Ancho /\ Len(s2) = Ancho + 1 /\ Len(s3) = 2 * Ancho + 1 /\ Len(s4) = z
       /\ Len(s3) + Ancho \in Nat
  BY <1>1, <1>3, <1>4, <1>5, <1>7, <1>8, <1>9, <1>10
<1>12. Tiene(s4, 0, EnBytes(dni)) /\ Tiene(s4, Ancho, <<edad>>) /\ Tiene(s4, Ancho + 1, EnBytes(pas))
  <2>1. EnBytes(dni) \in Seq(Byte) /\ EnBytes(pas) \in Seq(Byte) /\ <<edad>> \in Seq(Byte)
    BY Partes
  <2>2. Ancho \in Nat /\ Ancho + 1 \in Nat /\ 0 \in Nat
    BY <1>1
  <2>3. Tiene(s3, 0, EnBytes(dni)) /\ Tiene(s3, Ancho, <<edad>>)
    BY <1>5, <1>7, <1>8, <1>9, <1>11, <2>1, <2>2 DEF Conserva
  <2> QED
    BY <1>9, <1>10, <1>11, <2>1, <2>2, <2>3 DEF Conserva
<1>13. Serializar(PERSONA, valor) = Lleno(Len(s4), Len(s3) + Ancho, s4)
  <2>1. Serializar(PERSONA, valor) = SerializarPersona(valor)
    BY DEF Serializar
  <2>2. SerializarPersona(valor)
           = BufferAddString(BufferAddUint32(BufferAddUint8(BufferAddUint32(
                CrearBuffer(z), dni), edad), pas), Len(t), t)
    BY <1>2, <1>4 DEF SerializarPersona
  <2> QED
    BY <1>5, <1>7, <1>8, <1>9, <1>10, <1>11, <2>1, <2>2
<1>14. ASSUME NEW o \in Nat PROVE Deserializar(PERSONA, Lleno(Len(s4), o, s4)) = valor
  <2> DEFINE b(i) == Lleno(Len(s4), i, s4)
  <2>1. Deserializar(PERSONA, b(o)) = DeserializarPersona(b(o))
    BY DEF Deserializar
  <2>2. [b(o) EXCEPT !.offset = 0] = b(0)
    BY DEF Lleno
  <2>3. /\ Avanzar(b(0), Ancho) = b(Ancho) /\ Avanzar(b(0), Ancho + 1) = b(Ancho + 1)
        /\ Avanzar(b(0), 2 * Ancho + 1) = b(2 * Ancho + 1)
    <3>1. 0 + Ancho = Ancho /\ 0 + (Ancho + 1) = Ancho + 1 /\ 0 + (2 * Ancho + 1) = 2 * Ancho + 1
      BY <1>1
    <3> QED
      BY <3>1 DEF Avanzar, Lleno
  <2>4. BufferReadUint32(b(0)) = dni /\ BufferReadUint32(b(Ancho + 1)) = pas
    <3>1. /\ dni \in 0 .. Limite - 1 /\ pas \in 0 .. Limite - 1
          /\ 0 \in Nat /\ Ancho + 1 \in Nat
      BY <1>1, <1>2
    <3> QED
      BY <1>10, <1>12, <3>1, LeerNumero
  <2>5. BufferReadUint8(b(Ancho)) = edad
    BY <1>1, <1>10, <1>12, LeerByte
  <2>6. BufferReadString(b(2 * Ancho + 1)) = [longitud |-> Len(t), texto |-> t]
    BY <1>10, <1>11 DEF MensajeDe
  <2> HIDE DEF b
  <2>7. DeserializarPersona(b(o))
           = [dni           |-> BufferReadUint32(b(0)),
              edad          |-> BufferReadUint8(b(Ancho)),
              pasaporte     |-> BufferReadUint32(b(Ancho + 1)),
              nombre_length |-> BufferReadString(b(2 * Ancho + 1)).longitud,
              nombre        |-> BufferReadString(b(2 * Ancho + 1)).texto]
    BY <2>2, <2>3 DEF DeserializarPersona
  <2>8. DeserializarPersona(b(o)) = valor
    BY <1>2, <2>4, <2>5, <2>6, <2>7
  <2> QED
    BY <2>1, <2>8 DEF b
<1>15. s4 \in Seq(Byte) /\ Len(s4) < Limite /\ Len(s3) + Ancho \in Nat
  BY <1>4, <1>10, <1>11
<1>16. Guarda(PERSONA, valor, s4)
  <2>1. \A o \in Nat : Leido(PERSONA, valor, Deserializar(PERSONA, Lleno(Len(s4), o, s4)))
    BY <1>14 DEF Leido
  <2> QED
    BY <1>15, <2>1 DEF Guarda
<1> QED
  BY <1>13, <1>15, <1>16 DEF Escrita

\* Every serializer fills its block, and its deserializer undoes it.
LEMMA Escritos ==
    ASSUME NEW codigo \in {HANDSHAKE, PERSONA, MENSAJE, INSTRUCCION, CREAR_PROCESO},
           NEW valor \in Datos(codigo)
    PROVE  Escrita(codigo, valor, Serializar(codigo, valor))
BY HandshakeEscrito, PersonaEscrita, MensajeEscrito, InstruccionEscrita, CrearProcesoEscrito

-----------------------------------------------------------------------------
(* The invariant *)

\* Between a serializer and its deserializer there is a full block from which the
\* value is read.
FormatosInv ==
    /\ clase \in {HANDSHAKE, PERSONA, MENSAJE, INSTRUCCION, CREAR_PROCESO, LINEA}
    /\ dato \in Datos(clase)
    /\ clase = LINEA => fase \in {"dato", "leido", "caido"}
    /\ fase \in {"serializado", "recibido"} => Escrita(clase, dato, buffer)
    /\ fase = "leido" /\ clase # LINEA => Leido(clase, dato, leido)

\* Nothing has been written.
LEMMA InitInv == Init => FormatosInv
BY DEF Init, FormatosInv

\* Serializing fills the block of what is written (protocolo.c:227-328).
LEMMA EscribirInv == FormatosInv /\ Escribir => FormatosInv'
<1> SUFFICES ASSUME FormatosInv, Escribir PROVE FormatosInv'
  OBVIOUS
<1>1. clase \in {HANDSHAKE, PERSONA, MENSAJE, INSTRUCCION, CREAR_PROCESO}
  BY DEF FormatosInv, Escribir
<1>2. Escrita(clase, dato, Serializar(clase, dato))
  BY <1>1, Escritos DEF FormatosInv
<1> QED
  BY <1>2 DEF FormatosInv, Escribir

\* A packet takes the block to the other end (protocolo.c:136-168).
LEMMA TransmitirInv == FormatosInv /\ Transmitir => FormatosInv'
<1> SUFFICES ASSUME FormatosInv, Transmitir PROVE FormatosInv'
  OBVIOUS
<1>1. clase \in {HANDSHAKE, PERSONA, MENSAJE, INSTRUCCION, CREAR_PROCESO} /\ clase \in Nat
  BY DEF FormatosInv, Transmitir
<1>2. PICK s \in Seq(Byte), o \in Nat :
        buffer = Lleno(Len(s), o, s) /\ Guarda(clase, dato, s)
  BY DEF FormatosInv, Transmitir, Escrita
<1>3. Len(s) < Limite
  BY <1>2 DEF Guarda
<1>4. PICK p : p = SerializarPaquete(clase, buffer)
  OBVIOUS
<1>5. buffer' = Copiar(CrearBuffer(Valor(SubSeq(p, Ancho + 1, 2 * Ancho))),
                       SubSeq(p, 2 * Ancho + 1, Len(p)))
  BY <1>4 DEF Transmitir
<1>6. buffer' = Lleno(Len(s), 0, s)
  BY <1>1, <1>2, <1>3, <1>4, <1>5, Transmitido
<1>7. 0 \in Nat
  OBVIOUS
<1>8. Escrita(clase, dato, buffer')
  BY <1>2, <1>6, <1>7 DEF Escrita
<1> QED
  BY <1>1, <1>8 DEF FormatosInv, Transmitir

\* What is deserialized is what was written (protocolo.c:243-348).
LEMMA InterpretarInv == FormatosInv /\ Interpretar => FormatosInv'
<1> SUFFICES ASSUME FormatosInv, Interpretar PROVE FormatosInv'
  OBVIOUS
<1>1. PICK s \in Seq(Byte), o \in Nat :
        buffer = Lleno(Len(s), o, s) /\ Guarda(clase, dato, s)
  BY DEF FormatosInv, Interpretar, Escrita
<1>2. Leido(clase, dato, leido')
  BY <1>1 DEF Guarda, Interpretar
<1> QED
  BY <1>2 DEF FormatosInv, Interpretar

\* A line has no block (cpu.c:158-216).
LEMMA EjecutarInv == FormatosInv /\ Ejecutar => FormatosInv'
BY DEF FormatosInv, Ejecutar

\* What the invariant says holds of every value, in every state.
THEOREM FormatosSiempre == Spec => []FormatosInv
<1>1. FormatosInv /\ [Next]_vars => FormatosInv'
  <2> SUFFICES ASSUME FormatosInv, [Next]_vars PROVE FormatosInv'
    OBVIOUS
  <2>1. CASE UNCHANGED vars
    BY <2>1 DEF FormatosInv, vars
  <2> QED
    BY <2>1, EscribirInv, TransmitirInv, InterpretarInv, EjecutarInv DEF Next
<1> QED
  BY <1>1, InitInv, PTL DEF Spec

\* Every serializer asks for the block it fills, whatever the lengths of its strings
\* (protocolo.c:225-266, 314-328).
THEOREM BloquesSiempre == Spec => []LlenaSuBloque
<1>1. FormatosInv => LlenaSuBloque
  <2> SUFFICES ASSUME FormatosInv, fase = "serializado" PROVE LlenaSuBloque
    BY DEF LlenaSuBloque
  <2>1. PICK s \in Seq(Byte), o \in Nat : buffer = Lleno(Len(s), o, s)
    BY DEF FormatosInv, Escrita
  <2>2. \A k \in 0 .. Len(s) - 1 : s[k + 1] \in Byte
    OBVIOUS
  <2> QED
    BY <2>1, <2>2 DEF LlenaSuBloque, Lleno, Bloque
<1> QED
  BY <1>1, FormatosSiempre, PTL

\* Every struct that is sent is read back field by field (protocolo.c:225-348), for
\* bytes and numbers of any size.
THEOREM LecturasSiempre == Spec => []IdaYVuelta
<1>1. FormatosInv => IdaYVuelta
  BY DEF FormatosInv, IdaYVuelta, Leido
<1> QED
  BY <1>1, FormatosSiempre, PTL

=============================================================================
