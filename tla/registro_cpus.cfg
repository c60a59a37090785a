\* Two CPUs, killed anywhere but before their greetings.
SPECIFICATION Spec
CONSTANTS
    c1 = c1
    c2 = c2
    i1 = i1
    i2 = i2
    i3 = i3
    Cpus = {c1, c2}
    Ios = {}
    Fds <- MCFds
    PuntosDeMuerte <- MCMuertesTardias
    EsperanKernel = TRUE
    Libre = Libre
    SinFd = SinFd
    Basura = Basura
SYMMETRY MCSimetria
INVARIANTS
    TypeOK
    HiloConSuConexion
    EntrePaquetes
    Identificados
    ParejaSiMismoOrden
    SocketsPorOrden
PROPERTIES
    CierraSoloSuHilo
    ImplementaAbstracto
CHECK_DEADLOCK FALSE
