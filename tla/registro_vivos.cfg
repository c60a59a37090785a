\* Two CPUs that race to both ports are listed, and their connections closed.
SPECIFICATION Spec
CONSTANTS
    c1 = c1
    c2 = c2
    i1 = i1
    i2 = i2
    i3 = i3
    Cpus = {c1, c2}
    Ios = {}
    Fds <- MCFds
    PuntosDeMuerte = {"saludarInterrupcion"}
    EsperanKernel = TRUE
    Libre = Libre
    SinFd = SinFd
    Basura = Basura
PROPERTIES
    TodosSeRegistran
    SeLiberanDescriptores
CHECK_DEADLOCK FALSE
