\* Four threads that call init_proc.
SPECIFICATION Spec
CONSTANTS
    h1 = h1
    h2 = h2
    h3 = h3
    h4 = h4
    Hilos = {h1, h2, h3, h4}
    NULL = NULL
SYMMETRY Simetria
INVARIANTS
    TypeOK
    PidsEnOrden
    SolosNoSePierden
    ListadosCompletos
CHECK_DEADLOCK FALSE
