----------------------------- MODULE MCFormatos -----------------------------
(* A small instance of Formatos for TLC: bytes of two bits, numbers of two bytes. *)
EXTENDS FormatosPruebas, TLC

\* Zero, numbers of one and of two bytes, and the greatest.
MCNumeros == {0, 1, 3, 4, 9, 15}

\* Strings up to length 3, the longest whose blocks have a size of two bytes.
MCTextos == {<<>>, <<1>>, <<3>>, <<2, 1>>, <<1, 2, 3>>}

\* The instructions that the comment of cpu.c:109-118 lists, and some with parameters
\* missing or left over.
MCLineas ==
    {<<"NOOP">>, <<"WRITE", "0", "EJEMPLO_DE_ENUNCIADO">>, <<"READ", "0", "20">>,
     <<"GOTO", "0">>, <<"IO", "25000">>, <<"INIT_PROC", "proceso1", "256">>,
     <<"DUMP_MEMORY">>, <<"EXIT">>,
     <<"READ">>, <<"WRITE">>, <<"WRITE", "0">>, <<"READ", "0", "20", "20">>}

=============================================================================
