---------------------------- MODULE Instrucciones ----------------------------
(***************************************************************************)
(* What cpu.c makes of the line of an instruction: parsear_instruccion and *)
(* procesar_instruccion.  A line is the sequence of its words, of which    *)
(* string_split makes an array with a NULL after the last.                 *)
(***************************************************************************)
EXTENDS Sequences, Naturals

CONSTANTS
    NULL,      \* the pointer after the last word
    NoEscrito  \* what lies past the array

Conocidas == {"NOOP", "WRITE", "READ", "GOTO"}

\* campos[k - 1].  Nothing looks at how many words there are.
Campo(palabras, k) ==
    CASE k <= Len(palabras)     -> palabras[k]
      [] k = Len(palabras) + 1  -> NULL
      [] OTHER                  -> NoEscrito

\* strdup of a parameter.  What lies past the array is taken for a pointer: it may be
\* NULL, or the address of some text,
Copias(param) == IF param = NoEscrito THEN {NULL, NoEscrito} ELSE {param}

\* or of no memory, and then strdup brings the CPU down.
PuedeCaer(palabras) == NoEscrito \in {Campo(palabras, 2), Campo(palabras, 3)}

\* What is returned, if it returns.
ParsearInstruccion(palabras) ==
    [tipo   : {IF Campo(palabras, 1) \in Conocidas THEN Campo(palabras, 1) ELSE "-1"},
     param1 : Copias(Campo(palabras, 2)),
     param2 : Copias(Campo(palabras, 3))]

\* The function that is called, with its arguments; none for an unknown type.
ProcesarInstruccion(instruccion) ==
    CASE instruccion.tipo = "NOOP"  -> <<"ejecutar_noop">>
      [] instruccion.tipo = "GOTO"  -> <<"ejecutar_goto">>
      [] instruccion.tipo = "READ"  -> <<"ejecutar_read", instruccion.param1, instruccion.param2>>
      [] instruccion.tipo = "WRITE" -> <<"ejecutar_write", instruccion.param1, instruccion.param2>>
      [] OTHER                      -> <<>>

=============================================================================
