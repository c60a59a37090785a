\* Two CPUs connect at the same time.
SPECIFICATION Spec
CONSTANTS
    c1 = c1
    c2 = c2
    i1 = i1
    i2 = i2
    i3 = i3
    Cpus = {c1, c2}
    Ios = {}
    Fds <- MCFds
    PuntosDeMuerte = {}
    EsperanKernel = TRUE
    Libre = Libre
    SinFd = SinFd
    Basura = Basura
INVARIANTS
    ParejaDelMismoCpu
CHECK_DEADLOCK FALSE
