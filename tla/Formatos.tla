------------------------------ MODULE Formatos ------------------------------
(***************************************************************************)
(* Every serializer of protocolo.c and of protocolo_comunicacion_memoria.c *)
(* followed by its deserializer, over bounded values: a value is chosen,   *)
(* serialized into a block, and read back from a block with the same bytes *)
(* (enviar_paquete, recibir_buffer); and the lines of instructions, which  *)
(* cpu.c interprets as they are.                                           *)
(***************************************************************************)
EXTENDS Protocolo, Instrucciones

CONSTANTS
    Numeros, \* values of uint32_t and enum fields
    Textos,  \* strings
    Lineas   \* instructions, by words

ASSUME Valores ==
    /\ Numeros \subseteq 0 .. Limite - 1
    /\ \A t \in Textos : t \in Seq(Byte \ {0})
    /\ \A l \in Lineas : l \in Seq(STRING) /\ l # <<>>

\* The size of a block, the greatest of which is a persona's, fits in its field.
ASSUME BloquesCaben == \A t \in Textos \cup {<<>>} : 3 * Ancho + Len(t) + 2 < Limite

\* Not an operation code.
LINEA == CANTIDAD_ESPACIO_LIBRE + 1

VARIABLES
    clase,  \* operation code of what is serialized, or LINEA
    dato,   \* the struct given to the serializer, or the line
    buffer, \* what it returned, and then what the other end received
    fase,   \* "dato", "serializado", "recibido", "leido", or "caido" with the program
    leido   \* the struct the deserializer returned, or what was executed

vars == <<clase, dato, buffer, fase, leido>>

Mensajes == {MensajeDe(t) : t \in Textos}

Datos(codigo) ==
    CASE codigo = HANDSHAKE ->
            [codigo : Byte, recurso : {CPU, IO}, nombre : Mensajes]
      [] codigo = PERSONA ->
            {[dni |-> d, edad |-> e, pasaporte |-> p, nombre_length |-> Len(t),
              nombre |-> t] : d \in Numeros, e \in Byte, p \in Numeros, t \in Textos}
      [] codigo = MENSAJE       -> Mensajes
      [] codigo = INSTRUCCION   -> [pid : Numeros, pc : Numeros]
      [] codigo = CREAR_PROCESO -> Textos
      [] codigo = LINEA         -> Lineas

Serializar(codigo, valor) ==
    CASE codigo = HANDSHAKE     -> SerializarHandshake(valor)
      [] codigo = PERSONA       -> SerializarPersona(valor)
      [] codigo = MENSAJE       -> SerializarMensaje(valor)
      [] codigo = INSTRUCCION   -> SerializarInstruccion(valor)
      [] codigo = CREAR_PROCESO -> SerializarCrearProceso(valor)

Deserializar(codigo, recibido) ==
    CASE codigo = HANDSHAKE     -> DeserializarHandshake(recibido)
      [] codigo = PERSONA       -> DeserializarPersona(recibido)
      [] codigo = MENSAJE       -> DeserializarMensaje(recibido)
      [] codigo = INSTRUCCION   -> DeserializarInstruccion(recibido)
      [] codigo = CREAR_PROCESO -> DeserializarCrearProceso(recibido)

Init ==
    /\ \/ clase \in {HANDSHAKE, PERSONA, MENSAJE, INSTRUCCION, CREAR_PROCESO}
       \/ clase = LINEA
    /\ dato \in Datos(clase)
    /\ buffer = CrearBuffer(0) /\ fase = "dato" /\ leido = Basura

Escribir ==
    /\ fase = "dato" /\ clase # LINEA /\ fase' = "serializado"
    /\ buffer' = Serializar(clase, dato)
    /\ UNCHANGED <<clase, dato, leido>>

\* serializar_paquete at one end; at the other, the size and a block filled with
\* the rest of the packet.
Transmitir ==
    /\ fase = "serializado" /\ fase' = "recibido"
    /\ LET paquete == SerializarPaquete(clase, buffer)
           tam     == Valor(SubSeq(paquete, Ancho + 1, 2 * Ancho))
       IN  buffer' = Copiar(CrearBuffer(tam), SubSeq(paquete, 2 * Ancho + 1, Len(paquete)))
    /\ UNCHANGED <<clase, dato, leido>>

Interpretar ==
    /\ fase = "recibido" /\ fase' = "leido"
    /\ leido' = Deserializar(clase, buffer)
    /\ UNCHANGED <<clase, dato, buffer>>

\* parsear_instruccion and procesar_instruccion.
Ejecutar ==
    /\ fase = "dato" /\ clase = LINEA
    /\ \/ /\ fase' = "leido"
          /\ \E instruccion \in ParsearInstruccion(dato) :
                leido' = ProcesarInstruccion(instruccion)
       \/ /\ PuedeCaer(dato) /\ fase' = "caido"
          /\ UNCHANGED leido
    /\ UNCHANGED <<clase, dato, buffer>>

Next == Escribir \/ Transmitir \/ Interpretar \/ Ejecutar

Spec == Init /\ [][Next]_vars

-----------------------------------------------------------------------------

\* A serializer asks for the block it fills: it writes every byte of it and none
\* past its end, although each one adds up its own sizes (protocolo.c:229-233,
\* 246-248, 258-260, 317-321).
LlenaSuBloque ==
    fase = "serializado" =>
        /\ DOMAIN buffer.stream = 0 .. buffer.size - 1
        /\ \A k \in DOMAIN buffer.stream : buffer.stream[k] \in Byte

\* What was serialized is read back field by field (protocolo.c:268-348); for
\* CREAR_PROCESO, the name of the file: its length stays in a local variable
\* (protocolo_comunicacion_memoria.c:23-24) and the field keeps what it had.
IdaYVuelta ==
    fase = "leido" /\ clase # LINEA =>
        IF clase = CREAR_PROCESO THEN leido.nombre_archivo = dato ELSE leido = dato

=============================================================================
