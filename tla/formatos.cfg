\* Every serializer followed by its deserializer, and the lines of instructions.
SPECIFICATION Spec
CONSTANTS
    Base = 4
    Ancho = 2
    Basura = Basura
    Numeros <- MCNumeros
    Textos <- MCTextos
    Lineas <- MCLineas
    NULL = NULL
    NoEscrito = NoEscrito
INVARIANTS
    LlenaSuBloque
    IdaYVuelta
CHECK_DEADLOCK FALSE
