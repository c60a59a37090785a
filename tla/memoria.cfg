\* Three clients and two numbers: the table is full when the kernel, which never
\* leaves, and another are connected, or one reads a file.
SPECIFICATION Spec
CONSTANTS
    kernel = kernel
    cpu = cpu
    otro = otro
    Clientes = {kernel, cpu, otro}
    Programa <- MCPrograma
    Terminan = {cpu, otro}
    Fds = {1, 2}
    MaxHuecos = 1
    Libre = Libre
    Nada = Nada
INVARIANTS
    TypeOK
    NumerosPropios
PROPERTIES
    ImplementaCanales
    TodosAtendidos
    SeDevuelve
CHECK_DEADLOCK FALSE
