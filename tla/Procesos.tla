------------------------------ MODULE Procesos ------------------------------
(***************************************************************************)
(* init_proc, called once by each of some threads: next_pid and cola_new   *)
(* are global and nothing locks them.  A step is one read or one write of  *)
(* what the threads share; the fields of the new process are private until *)
(* it is in the list.                                                      *)
(***************************************************************************)
EXTENDS Naturals, Sequences

CONSTANTS Hilos, NULL

ASSUME NULLNoEsHilo == NULL \notin Hilos

VARIABLES
    next_pid,
    cola_new,  \* NULL or a list, named after the thread that created it
    elementos, \* the processes in each list, named after their threads
    rota,      \* lists whose elements_count may not be the length of their chain
    pc,        \* next step of each thread
    pid,       \* nuevo->pcb.pid
    lista,     \* the list that list_add was given,
    tras,      \* and the element it found last, or NULL
    caido,     \* the process has fallen
    solapados  \* history: threads whose call overlapped another

vars == <<next_pid, cola_new, elementos, rota, pc, pid, lista, tras, caido, solapados>>

Init ==
    /\ next_pid = 0 /\ cola_new = NULL
    /\ elementos = [h \in Hilos |-> <<>>] /\ rota = {}
    /\ pc = [h \in Hilos |-> "afuera"] /\ pid = [h \in Hilos |-> 0]
    /\ lista = [h \in Hilos |-> NULL] /\ tras = [h \in Hilos |-> NULL]
    /\ caido = FALSE /\ solapados = {}

\* Threads inside init_proc.
Adentro == {h \in Hilos : pc[h] \notin {"afuera", "return", "NULL"}}

Paso(h, desde, hasta) ==
    pc[h] = desde /\ ~caido /\ pc' = [pc EXCEPT ![h] = hasta]

\* malloc fails.
SinMemoria(h) ==
    /\ Paso(h, "afuera", "NULL")
    /\ UNCHANGED <<next_pid, cola_new, elementos, rota, pid, lista, tras, caido, solapados>>

\* next_pid++, the read.
LeerPid(h) ==
    /\ Paso(h, "afuera", "next_pid")
    /\ pid' = [pid EXCEPT ![h] = next_pid]
    /\ solapados' = solapados \cup (IF Adentro = {} THEN {} ELSE Adentro \cup {h})
    /\ UNCHANGED <<next_pid, cola_new, elementos, rota, lista, tras, caido>>

\* Mutant: next_pid--.
EscribirPidAtras(h) ==
    /\ Paso(h, "next_pid", "cola_new")
    /\ next_pid' = pid[h] - 1
    /\ UNCHANGED <<cola_new, elementos, rota, pid, lista, tras, caido, solapados>>

\* next_pid++, the write.
EscribirPid(h) ==
    /\ Paso(h, "next_pid", "cola_new")
    /\ next_pid' = pid[h] + 1
    /\ UNCHANGED <<cola_new, elementos, rota, pid, lista, tras, caido, solapados>>

\* Mutant: the list is created for every process.
MirarColaSiempre(h) ==
    /\ Paso(h, "cola_new", "list_create")
    /\ UNCHANGED <<next_pid, cola_new, elementos, rota, pid, lista, tras, caido, solapados>>

\* if (!cola_new)
MirarCola(h) ==
    /\ Paso(h, "cola_new", IF cola_new = NULL THEN "list_create" ELSE "list_add")
    /\ UNCHANGED <<next_pid, cola_new, elementos, rota, pid, lista, tras, caido, solapados>>

CrearCola(h) ==
    /\ Paso(h, "list_create", "list_add")
    /\ cola_new' = h
    /\ UNCHANGED <<next_pid, elementos, rota, pid, lista, tras, caido, solapados>>

\* The last element of a chain.
Ultimo(s) == IF s = <<>> THEN NULL ELSE s[Len(s)]

\* list_add walks to the last element that elements_count tells, which may not
\* exist in a list that lost one,
BuscarUltimo(h) ==
    /\ Paso(h, "list_add", "enlazar")
    /\ lista' = [lista EXCEPT ![h] = cola_new]
    /\ tras' = [tras EXCEPT ![h] = Ultimo(elementos[cola_new])]
    /\ caido' \in IF cola_new \in rota THEN BOOLEAN ELSE {FALSE}
    /\ UNCHANGED <<next_pid, cola_new, elementos, rota, pid, solapados>>

\* The chain s once h is linked after t, which may not be its last element any
\* more, or not be in it.
Enlazada(s, t, h) ==
    IF t = NULL THEN <<h>>
    ELSE IF \E k \in DOMAIN s : s[k] = t
         THEN Append(SubSeq(s, 1, CHOOSE k \in DOMAIN s : s[k] = t), h)
         ELSE s

\* Mutant: an element is linked again if it is the first.
EnlazarDosVeces(h) ==
    /\ Paso(h, "enlazar", IF elementos[lista[h]] = <<>> THEN "list_add" ELSE "return")
    /\ elementos' = [elementos EXCEPT ![lista[h]] = Append(@, h)]
    /\ UNCHANGED <<next_pid, cola_new, rota, pid, lista, tras, caido, solapados>>

\* and links the new one after it.
Enlazar(h) ==
    LET l == lista[h]
        s == elementos[l]
    IN  /\ Paso(h, "enlazar", "return")
        /\ elementos' = [elementos EXCEPT ![l] = Enlazada(s, tras[h], h)]
        /\ rota' = IF Len(elementos'[l]) = Len(s) + 1 THEN rota ELSE rota \cup {l}
        /\ UNCHANGED <<next_pid, cola_new, pid, lista, tras, caido, solapados>>

InitProc(h) == \/ SinMemoria(h) \/ LeerPid(h) \/ EscribirPid(h) \/ MirarCola(h)
               \/ CrearCola(h) \/ BuscarUltimo(h) \/ Enlazar(h)

Next == \E h \in Hilos : InitProc(h)

Spec == Init /\ [][Next]_vars

-----------------------------------------------------------------------------
(* Properties *)

TypeOK ==
    /\ next_pid \in Nat /\ cola_new \in Hilos \cup {NULL} /\ rota \subseteq Hilos
    /\ elementos \in [Hilos -> Seq(Hilos)]
    /\ pc \in [Hilos -> {"afuera", "next_pid", "cola_new", "list_create",
                         "list_add", "enlazar", "return", "NULL"}]
    /\ pid \in [Hilos -> Nat]
    /\ lista \in [Hilos -> Hilos \cup {NULL}] /\ tras \in [Hilos -> Hilos \cup {NULL}]
    /\ caido \in BOOLEAN /\ solapados \subseteq Hilos

Creados == {h \in Hilos : pc[h] = "return"}

\* What init_proc promises when no calls overlap: cola_new lists every process
\* created, in the order of the pids, which count from 0 (kernel.c:119-141).
PidsEnOrden ==
    solapados = {} /\ Adentro = {} =>
        \A h \in Creados : /\ cola_new \in Hilos
                           /\ pid[h] + 1 \in DOMAIN elementos[cola_new]
                           /\ elementos[cola_new][pid[h] + 1] = h

\* Calls that overlap may lose each other's processes, and never one whose own
\* call did not overlap: it stays in cola_new, whatever comes later
\* (kernel.c:136-139).
SolosNoSePierden ==
    \A h \in Creados \ solapados :
        cola_new \in Hilos /\ \E k \in DOMAIN elementos[cola_new] : elementos[cola_new][k] = h

\* Even when they overlap, a process is in one list at most, once, and by then it
\* has its pid and its fields (kernel.c:123-139).
ListadosCompletos ==
    \A l \in Hilos : \A k \in DOMAIN elementos[l] :
        LET h == elementos[l][k]
        IN  /\ h \in Creados /\ lista[h] = l
            /\ \A j \in DOMAIN elementos[l] : elementos[l][j] = h => j = k

=============================================================================
