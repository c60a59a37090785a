------------------------------ MODULE Protocolo ------------------------------
(***************************************************************************)
(* The wire format of utils/src/utils/protocolo.c: buffers, the four kinds *)
(* of contents that are serialized into them (and the one of               *)
(* protocolo_comunicacion_memoria.c), and packets.                         *)
(*                                                                         *)
(* A string is the sequence of its bytes without the '\0'.  The fields of  *)
(* the C structs keep their names, with the length of a string beside it.  *)
(***************************************************************************)
EXTENDS Naturals, Sequences

CONSTANTS
    Base,   \* values of a byte
    Ancho,  \* bytes of a uint32_t, and of the enums
    Basura  \* a byte, or a value, read from memory nobody wrote

ASSUME Anchos == /\ Base \in Nat /\ Base > 1
                 /\ Ancho \in Nat /\ Ancho > 0
                 /\ Basura \notin Nat

Byte == 0 .. Base - 1

\* t_operacion and t_recurso, as the enums number them.
HANDSHAKE              == 0
DESCONEXION            == 1
PERSONA                == 2
MENSAJE                == 3
INSTRUCCION            == 4
CREAR_PROCESO          == 5
CANTIDAD_ESPACIO_LIBRE == 15

CPU == 0
IO  == 1

-----------------------------------------------------------------------------
(* Numbers in memory, least significant byte first *)

\* What the byte i + 1 counts for, and what does not fit in Ancho of them.
Peso[i \in 0 .. Ancho] == IF i = 0 THEN 1 ELSE Base * Peso[i - 1]
Limite == Peso[Ancho]

EnBytes(v) == [i \in 1 .. Ancho |-> (v \div Peso[i - 1]) % Base]

\* The number some bytes stand for; one unwritten byte makes it unknown.
Valor(bytes) ==
    LET suma[i \in 0 .. Len(bytes)] ==
            IF i = 0 THEN 0 ELSE suma[i - 1] + bytes[i] * Peso[i - 1]
    IN  IF \E i \in 1 .. Len(bytes) : bytes[i] = Basura
        THEN Basura
        ELSE suma[Len(bytes)]

-----------------------------------------------------------------------------
(* Buffers: t_buffer, whose stream maps the addresses written to their bytes *)

CrearBuffer(longitud) ==
    [size |-> longitud % Limite, offset |-> 0, stream |-> <<>>]

\* memcpy to the offset, even past the end of the block.
Copiar(buffer, datos) ==
    LET destino == buffer.offset .. buffer.offset + Len(datos) - 1
    IN  [buffer EXCEPT !.stream =
            [k \in DOMAIN @ \cup destino |->
                IF k \in destino THEN datos[k - buffer.offset + 1] ELSE @[k]]]

BufferAdd(buffer, datos) ==
    [Copiar(buffer, datos) EXCEPT !.offset = @ + Len(datos)]

BufferAddUint32(buffer, valor) == BufferAdd(buffer, EnBytes(valor))
BufferAddUint8(buffer, valor)  == BufferAdd(buffer, <<valor % Base>>)

\* Mutant: the sentinel is not copied.
BufferAddStringSinCentinela(buffer, length, string) ==
    Copiar(BufferAddUint32(buffer, length), string)

\* The length and the string with its sentinel; the offset stays at the string.
BufferAddString(buffer, length, string) ==
    Copiar(BufferAddUint32(buffer, length), Append(string, 0))

En(buffer, k) == IF k \in DOMAIN buffer.stream THEN buffer.stream[k] ELSE Basura

\* n bytes from the offset.
Leer(buffer, n) == [i \in 1 .. n |-> En(buffer, buffer.offset + i - 1)]

Avanzar(buffer, n) == [buffer EXCEPT !.offset = @ + n]

BufferReadUint32(buffer) == Valor(Leer(buffer, Ancho))
BufferReadUint8(buffer)  == Valor(Leer(buffer, 1))

\* The C string that starts at the offset, if a '\0' is among the first n bytes.
Cadena(buffer, n) ==
    LET ceros == {k \in DOMAIN buffer.stream :
                    k \in buffer.offset .. buffer.offset + n - 1 /\ buffer.stream[k] = 0}
        fin   == CHOOSE k \in ceros : \A j \in ceros : k <= j
        bytes == Leer(buffer, fin - buffer.offset)
    IN  IF ceros = {} \/ \E i \in DOMAIN bytes : bytes[i] = Basura
        THEN Basura
        ELSE bytes

\* The length, and the string of that length and its sentinel, if the block has it.
BufferReadString(buffer) ==
    LET length == BufferReadUint32(buffer)
        resto  == Avanzar(buffer, Ancho)
    IN  [longitud |-> length,
         texto    |-> IF length = Basura \/ resto.offset + length >= buffer.size
                      THEN Basura
                      ELSE Cadena(resto, length + 1)]

-----------------------------------------------------------------------------
(* Contents *)

SerializarPersona(persona) ==
    LET creado == CrearBuffer(Ancho * 2 + 1 + Ancho + persona.nombre_length + 1)
        dni    == BufferAddUint32(creado, persona.dni)
        edad   == BufferAddUint8(dni, persona.edad)
        pasa   == BufferAddUint32(edad, persona.pasaporte)
    IN  BufferAddString(pasa, persona.nombre_length, persona.nombre)

\* Mutant: the block has no room for the sentinel.
SerializarMensajeSinCentinela(mensaje) ==
    BufferAddString(CrearBuffer(Ancho + mensaje.longitud),
                    mensaje.longitud, mensaje.texto)

SerializarMensaje(mensaje) ==
    BufferAddString(CrearBuffer(Ancho + mensaje.longitud + 1),
                    mensaje.longitud, mensaje.texto)

SerializarInstruccion(instruccion) ==
    BufferAddUint32(BufferAddUint32(CrearBuffer(Ancho * 2), instruccion.pid),
                    instruccion.pc)

SerializarHandshake(handshake) ==
    LET creado  == CrearBuffer(1 + Ancho + Ancho + handshake.nombre.longitud + 1)
        codigo  == BufferAddUint8(creado, handshake.codigo)
        recurso == BufferAdd(codigo, EnBytes(handshake.recurso))
    IN  BufferAddString(recurso, handshake.nombre.longitud, handshake.nombre.texto)

SerializarCrearProceso(nombre_archivo) ==
    BufferAddString(CrearBuffer(Ancho + Len(nombre_archivo) + 1),
                    Len(nombre_archivo), nombre_archivo)

\* Mutant: two fields are read in the wrong order.
DeserializarPersonaDesordenada(recibido) ==
    LET buffer == [recibido EXCEPT !.offset = 0]
        nombre == BufferReadString(Avanzar(buffer, 2 * Ancho + 1))
    IN  [dni           |-> BufferReadUint32(buffer),
         edad          |-> BufferReadUint8(Avanzar(buffer, 2 * Ancho)),
         pasaporte     |-> BufferReadUint32(Avanzar(buffer, Ancho)),
         nombre_length |-> nombre.longitud,
         nombre        |-> nombre.texto]

DeserializarPersona(recibido) ==
    LET buffer == [recibido EXCEPT !.offset = 0]
        nombre == BufferReadString(Avanzar(buffer, 2 * Ancho + 1))
    IN  [dni           |-> BufferReadUint32(buffer),
         edad          |-> BufferReadUint8(Avanzar(buffer, Ancho)),
         pasaporte     |-> BufferReadUint32(Avanzar(buffer, Ancho + 1)),
         nombre_length |-> nombre.longitud,
         nombre        |-> nombre.texto]

DeserializarMensaje(recibido) ==
    BufferReadString([recibido EXCEPT !.offset = 0])

DeserializarInstruccion(recibido) ==
    LET buffer == [recibido EXCEPT !.offset = 0]
    IN  [pid |-> BufferReadUint32(buffer),
         pc  |-> BufferReadUint32(Avanzar(buffer, Ancho))]

DeserializarHandshake(recibido) ==
    LET buffer == [recibido EXCEPT !.offset = 0]
    IN  [codigo  |-> BufferReadUint8(buffer),
         recurso |-> BufferReadUint32(Avanzar(buffer, 1)),
         nombre  |-> BufferReadString(Avanzar(buffer, 1 + Ancho))]

\* The length that was read stays in a local variable.
DeserializarCrearProceso(recibido) ==
    [length_nombre_archivo |-> Basura,
     nombre_archivo |-> BufferReadString([recibido EXCEPT !.offset = 0]).texto]

-----------------------------------------------------------------------------
(* Packets *)

\* What goes through the socket: the code, the size and the stream.
SerializarPaquete(codigo, buffer) ==
    EnBytes(codigo) \o EnBytes(buffer.size)
        \o [i \in 1 .. buffer.size |-> En(buffer, i - 1)]

\* enviar_handshake fills the resource in itself, whatever it was given.
HandshakeDe(recurso, nombre) ==
    [codigo |-> 99, recurso |-> IO, nombre |-> [longitud |-> Len(nombre), texto |-> nombre]]

MensajeDe(texto) == [longitud |-> Len(texto), texto |-> texto]

PaqueteHandshake(recurso, nombre) ==
    SerializarPaquete(HANDSHAKE, SerializarHandshake(HandshakeDe(recurso, nombre)))

PaqueteMensaje(texto) ==
    SerializarPaquete(MENSAJE, SerializarMensaje(MensajeDe(texto)))

=============================================================================
