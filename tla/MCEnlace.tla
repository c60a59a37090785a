------------------------------ MODULE MCEnlace ------------------------------
(* Small instances of Enlace for TLC: bytes are ASCII, numbers have 4 bytes. *)
EXTENDS Enlace, TLC

Saludo(recurso, texto) ==
    [funcion |-> "enviar_handshake", recurso |-> recurso, texto |-> texto]
Aviso(texto) == [funcion |-> "enviar_mensaje", texto |-> texto]

Textos(n) == {[i \in 1 .. k |-> 104 + i] : k \in 0 .. n}

Guion(destino, n, llamadas) ==
    [destino |-> destino, cortes |-> n, llamadas |-> llamadas]

\* What a CPU sends on each of its connections to the kernel, and what an IO does.
GuionesKernel ==
    {Guion("kernel", 0, <<Saludo(CPU, t), Aviso(u)>>) : t \in Textos(2), u \in Textos(2)}
        \cup {Guion("kernel", 0, <<Saludo(IO, t)>>) : t \in Textos(2)}

\* What the kernel (kernel.c:42) and a CPU (cpu.c:37) send to the memory, by its
\* length.
GuionesMemoria ==
    {Guion("memoria", 0, <<Aviso([i \in 1 .. n |-> 104])>>) : n \in {24, 27}}

\* A greeting and a message, and the shorter message to the memory, cut twice.
GuionesCortados ==
    {Guion("kernel", 2, <<Saludo(IO, <<105>>), Aviso(<<104>>)>>),
     Guion("memoria", 2, <<Aviso([i \in 1 .. 24 |-> 104])>>)}

MCGuiones == GuionesKernel \cup GuionesMemoria \cup GuionesCortados

=============================================================================
