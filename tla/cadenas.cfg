\* Three clients, one of which may stay silent; names of 1 to 3 bytes, in pieces.
SPECIFICATION Spec
CONSTANTS
    a = a
    b = b
    c = c
    Clientes = {a, b, c}
    Callados = {c}
    Largo <- MCLargo
    Ancho = 2
    Basura = Basura
INVARIANTS
    TypeOK
    NombreEntero
    AceptadoEsListado
PROPERTIES
    ListaEnOrden
    SaludoRespondido
CHECK_DEADLOCK FALSE
