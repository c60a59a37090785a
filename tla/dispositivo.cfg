\* Up to three requests; they and their answers are cut up to two times.
SPECIFICATION Spec
CONSTANTS
    Base = 4
    Ancho = 2
    Basura = Basura
    Pids = {9}
    Tiempos = {5, 6}
    MaxPedidos = 3
    MaxCortes = 2
    Mil = 3
    BytesBasura = {0, 1}
    TamBasura = {0, 3}
INVARIANTS
    TypeOK
    DuermeLoPedido
    AtiendeMientrasVive
PROPERTIES
    CanalHastaRoto
    TerminanLosDos
CHECK_DEADLOCK FALSE
