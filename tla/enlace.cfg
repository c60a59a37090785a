\* The threads of the kernel and of the memory, with packets that arrive whole and
\* in pieces.
SPECIFICATION Spec
CONSTANTS
    Base = 128
    Ancho = 4
    Basura = Basura
    Guiones <- MCGuiones
    BytesBasura = {0, 1}
    TamBasura = {0, 3}
INVARIANTS
    TypeOK
    CierraAlTerminar
PROPERTIES
    CanalHastaCorto
    TerminaConElCliente
CHECK_DEADLOCK FALSE
