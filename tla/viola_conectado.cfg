\* A CPU is launched between the listen calls of its two ports: nobody is killed.
SPECIFICATION Spec
CONSTANTS
    c1 = c1
    c2 = c2
    i1 = i1
    i2 = i2
    i3 = i3
    Cpus = {c1, c2}
    Ios = {}
    Fds <- MCFds
    PuntosDeMuerte = {}
    EsperanKernel = FALSE
    Libre = Libre
    SinFd = SinFd
    Basura = Basura
PROPERTIES
    CpuConectadoSeRegistra
CHECK_DEADLOCK FALSE
