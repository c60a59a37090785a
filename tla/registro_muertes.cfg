\* Three IOs, killed anywhere, before their greeting too, while a kernel that may
\* fall opens its ports.
SPECIFICATION Spec
CONSTANTS
    c1 = c1
    c2 = c2
    i1 = i1
    i2 = i2
    i3 = i3
    Cpus = {}
    Ios = {i1, i2, i3}
    Fds <- MCFds
    PuntosDeMuerte <- MCMuertesDeIo
    EsperanKernel = FALSE
    Libre = Libre
    SinFd = SinFd
    Basura = Basura
INVARIANTS
    SocketsPorOrden
PROPERTIES
    ClientesTerminan
CHECK_DEADLOCK FALSE
