\* A CPU and two IOs, launched while the kernel starts.
SPECIFICATION Spec
CONSTANTS
    c1 = c1
    c2 = c2
    i1 = i1
    i2 = i2
    i3 = i3
    Cpus = {c1}
    Ios = {i1, i2}
    Fds <- MCFds
    PuntosDeMuerte <- MCMuertesTardias
    EsperanKernel = FALSE
    Libre = Libre
    SinFd = SinFd
    Basura = Basura
SYMMETRY MCSimetria
INVARIANTS
    EntrePaquetes
PROPERTIES
    ImplementaAbstracto
CHECK_DEADLOCK FALSE
