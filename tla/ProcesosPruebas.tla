--------------------------- MODULE ProcesosPruebas ---------------------------
(***************************************************************************)
(* Proofs about Procesos, for any number of threads.  The inductive        *)
(* invariant says where a call that overlaps no other stands (Solitaria),  *)
(* and that what such a call listed is before the place where any call     *)
(* under way may link (Firmes).                                            *)
(***************************************************************************)
EXTENDS Procesos, SequenceTheorems, TLAPS

\* Who has passed the creation of the list finds one.
HayCola ==
    \A h \in Hilos :
        /\ pc[h] \in {"list_add", "enlazar", "return"} => cola_new \in Hilos
        /\ pc[h] = "enlazar" => lista[h] \in Hilos

\* A call that overlaps no other is the only one inside, and what it read of the
\* list is still so.
Solitaria ==
    \A h \in Adentro \ solapados :
        /\ Adentro = {h}
        /\ pc[h] = "list_create" => cola_new = NULL
        /\ pc[h] = "enlazar" => /\ lista[h] = cola_new
                                /\ tras[h] = Ultimo(elementos[cola_new])

\* Nobody can replace the list of h, nor link before it.
Protegido(h) ==
    \E k \in DOMAIN elementos[cola_new] :
        /\ elementos[cola_new][k] = h
        /\ \A g \in Hilos :
              pc[g] = "enlazar" /\ lista[g] = cola_new =>
                  /\ tras[g] # NULL
                  /\ \A j \in DOMAIN elementos[cola_new] :
                        elementos[cola_new][j] = tras[g] => k <= j

Firmes ==
    \A h \in Creados \ solapados :
        /\ cola_new \in Hilos
        /\ \A g \in Hilos : pc[g] # "list_create"
        /\ Protegido(h)

\* The processes listed, also before there is a list.
Listados == IF cola_new = NULL THEN <<>> ELSE elementos[cola_new]

\* Without overlaps, next_pid counts the processes listed, or is about to.
Cuentas ==
    solapados = {} =>
        /\ \A h \in Creados : /\ pid[h] + 1 \in DOMAIN Listados
                              /\ Listados[pid[h] + 1] = h
        /\ Adentro = {} => next_pid = Len(Listados)
        /\ \A h \in Adentro :
              /\ pid[h] = Len(Listados)
              /\ next_pid = pid[h] + (IF pc[h] = "next_pid" THEN 0 ELSE 1)

Inv == TypeOK /\ HayCola /\ ListadosCompletos /\ Solitaria /\ Firmes /\ Cuentas

-----------------------------------------------------------------------------
(* Linking an element *)

\* The chain that results keeps what it had up to some place and ends in the new
\* element, or is the chain that was.
LEMMA EnlazadaForma ==
    ASSUME NEW s \in Seq(Hilos), NEW t \in Hilos \cup {NULL}, NEW h \in Hilos
    PROVE  \/ /\ Enlazada(s, t, h) = s
              /\ t # NULL /\ \A k \in DOMAIN s : s[k] # t
           \/ \E p \in 0 .. Len(s) :
                 /\ Enlazada(s, t, h) \in Seq(Hilos)
                 /\ Len(Enlazada(s, t, h)) = p + 1
                 /\ \A i \in 1 .. p : Enlazada(s, t, h)[i] = s[i]
                 /\ Enlazada(s, t, h)[p + 1] = h
                 /\ IF t = NULL THEN p = 0 ELSE p \in DOMAIN s /\ s[p] = t
<1>1. CASE t = NULL
  <2>1. Enlazada(s, t, h) = <<h>>
    BY <1>1 DEF Enlazada
  <2>2. <<h>> \in Seq(Hilos) /\ Len(<<h>>) = 0 + 1 /\ <<h>>[0 + 1] = h
    OBVIOUS
  <2> QED
    BY <1>1, <2>1, <2>2
<1>2. CASE t # NULL /\ \E k \in DOMAIN s : s[k] = t
  <2> DEFINE p == CHOOSE k \in DOMAIN s : s[k] = t
             m == SubSeq(s, 1, p)
  <2>1. p \in DOMAIN s /\ s[p] = t
    BY <1>2
  <2>2. DOMAIN s = 1 .. Len(s) /\ Len(s) \in Nat
    OBVIOUS
  <2>3. p \in 1 .. Len(s)
    BY <2>1, <2>2
  <2>4. Enlazada(s, t, h) = Append(m, h)
    BY <1>2 DEF Enlazada
  <2> HIDE DEF p
  <2>5. /\ m \in Seq(Hilos) /\ Len(m) = p
        /\ \A i \in 1 .. p : m[i] = s[i]
    <3>1. \A i \in 1 .. p + 1 : i - 1 + 1 = i /\ i \in Int
      BY <2>3
    <3> QED
      BY <2>3, <3>1, SubSeqProperties, SMTT(30)
  <2> HIDE DEF m
  <2>6. /\ Append(m, h) \in Seq(Hilos) /\ Len(Append(m, h)) = p + 1
        /\ \A i \in 1 .. p : Append(m, h)[i] = m[i]
        /\ Append(m, h)[p + 1] = h
    BY <2>3, <2>5
  <2> QED
    BY <1>2, <2>1, <2>3, <2>4, <2>5, <2>6
<1>3. CASE t # NULL /\ ~\E k \in DOMAIN s : s[k] = t
  BY <1>3 DEF Enlazada
<1> QED
  BY <1>1, <1>2, <1>3

\* What is last in a chain is in it.
LEMMA UltimoForma ==
    ASSUME NEW s \in Seq(Hilos)
    PROVE  \/ s = <<>> /\ Len(s) = 0 /\ Ultimo(s) = NULL
           \/ Len(s) \in DOMAIN s /\ Ultimo(s) = s[Len(s)] /\ Ultimo(s) \in Hilos
BY NULLNoEsHilo DEF Ultimo

-----------------------------------------------------------------------------
(* Types *)

\* Every step keeps the types (kernel.c:119-142).
LEMMA PasoTipos == TypeOK /\ HayCola /\ [Next]_vars => TypeOK'
<1> SUFFICES ASSUME TypeOK, HayCola, [Next]_vars PROVE TypeOK'
  OBVIOUS
<1> USE DEF TypeOK, Paso
<1>1. CASE UNCHANGED vars
  BY <1>1 DEF vars
<1>2. ASSUME NEW h \in Hilos, SinMemoria(h) PROVE TypeOK'
  BY <1>2 DEF SinMemoria
<1>3. ASSUME NEW h \in Hilos, LeerPid(h) PROVE TypeOK'
  BY <1>3 DEF LeerPid, Adentro
<1>4. ASSUME NEW h \in Hilos, EscribirPid(h) PROVE TypeOK'
  BY <1>4 DEF EscribirPid
<1>5. ASSUME NEW h \in Hilos, MirarCola(h) PROVE TypeOK'
  BY <1>5 DEF MirarCola
<1>6. ASSUME NEW h \in Hilos, CrearCola(h) PROVE TypeOK'
  BY <1>6 DEF CrearCola
<1>7. ASSUME NEW h \in Hilos, BuscarUltimo(h) PROVE TypeOK'
  <2>1. cola_new \in Hilos
    BY <1>7 DEF BuscarUltimo, HayCola
  <2>2. Ultimo(elementos[cola_new]) \in Hilos \cup {NULL}
    BY <2>1, UltimoForma
  <2> QED
    BY <1>7, <2>1, <2>2 DEF BuscarUltimo
<1>8. ASSUME NEW h \in Hilos, Enlazar(h) PROVE TypeOK'
  <2>1. lista[h] \in Hilos
    BY <1>8 DEF Enlazar, HayCola
  <2>2. Enlazada(elementos[lista[h]], tras[h], h) \in Seq(Hilos)
    <3>1. elementos[lista[h]] \in Seq(Hilos) /\ tras[h] \in Hilos \cup {NULL}
      BY <2>1
    <3> QED
      BY <3>1, EnlazadaForma
  <2>3. rota' \subseteq Hilos
    BY <1>8, <2>1 DEF Enlazar
  <2> QED
    BY <1>8, <2>1, <2>2, <2>3 DEF Enlazar
<1> QED
  BY <1>1, <1>2, <1>3, <1>4, <1>5, <1>6, <1>7, <1>8 DEF Next, InitProc

\* Every step keeps the list where it is needed (kernel.c:136-139).
LEMMA PasoHayCola == TypeOK /\ HayCola /\ [Next]_vars => HayCola'
<1> SUFFICES ASSUME TypeOK, HayCola, [Next]_vars PROVE HayCola'
  OBVIOUS
<1> USE DEF TypeOK, HayCola, Paso
<1>1. CASE UNCHANGED vars
  BY <1>1 DEF vars
<1>2. ASSUME NEW h \in Hilos, SinMemoria(h) \/ LeerPid(h) \/ EscribirPid(h) PROVE HayCola'
  BY <1>2 DEF SinMemoria, LeerPid, EscribirPid
<1>5. ASSUME NEW h \in Hilos, MirarCola(h) PROVE HayCola'
  BY <1>5 DEF MirarCola
<1>6. ASSUME NEW h \in Hilos, CrearCola(h) PROVE HayCola'
  BY <1>6 DEF CrearCola
<1>7. ASSUME NEW h \in Hilos, BuscarUltimo(h) PROVE HayCola'
  BY <1>7 DEF BuscarUltimo
<1>8. ASSUME NEW h \in Hilos, Enlazar(h) PROVE HayCola'
  BY <1>8 DEF Enlazar
<1> QED
  BY <1>1, <1>2, <1>5, <1>6, <1>7, <1>8 DEF Next, InitProc

-----------------------------------------------------------------------------
(* Lists *)

\* What Enlazar does to a list: h is at one place of it, or nowhere, and the rest of
\* its places are as they were.
LEMMA EnlazarLista ==
    ASSUME TypeOK, HayCola, NEW h \in Hilos, Enlazar(h)
    PROVE  /\ lista[h] \in Hilos /\ pc[h] = "enlazar"
           /\ \A l \in Hilos \ {lista[h]} : elementos'[l] = elementos[l]
           /\ \/ /\ elementos'[lista[h]] = elementos[lista[h]]
                 /\ tras[h] # NULL
                 /\ \A k \in DOMAIN elementos[lista[h]] : elementos[lista[h]][k] # tras[h]
              \/ \E p \in 0 .. Len(elementos[lista[h]]) :
                    /\ DOMAIN elementos'[lista[h]] = 1 .. p + 1
                    /\ Len(elementos'[lista[h]]) = p + 1
                    /\ \A i \in 1 .. p : elementos'[lista[h]][i] = elementos[lista[h]][i]
                    /\ elementos'[lista[h]][p + 1] = h
                    /\ IF tras[h] = NULL THEN p = 0
                       ELSE p \in DOMAIN elementos[lista[h]]
                            /\ elementos[lista[h]][p] = tras[h]
<1> DEFINE s == elementos[lista[h]]
           t == tras[h]
<1>1. lista[h] \in Hilos /\ pc[h] = "enlazar"
  BY DEF Enlazar, Paso, HayCola
<1>2. s \in Seq(Hilos) /\ t \in Hilos \cup {NULL}
  BY <1>1 DEF TypeOK
<1>3. /\ \A l \in Hilos \ {lista[h]} : elementos'[l] = elementos[l]
      /\ elementos'[lista[h]] = Enlazada(s, t, h)
  BY <1>1 DEF Enlazar, TypeOK
<1> HIDE DEF s, t
<1>4. \/ /\ Enlazada(s, t, h) = s
         /\ t # NULL /\ \A k \in DOMAIN s : s[k] # t
      \/ \E p \in 0 .. Len(s) :
            /\ Enlazada(s, t, h) \in Seq(Hilos)
            /\ Len(Enlazada(s, t, h)) = p + 1
            /\ \A i \in 1 .. p : Enlazada(s, t, h)[i] = s[i]
            /\ Enlazada(s, t, h)[p + 1] = h
            /\ IF t = NULL THEN p = 0 ELSE p \in DOMAIN s /\ s[p] = t
  BY <1>2, EnlazadaForma
<1>5. \A e \in Seq(Hilos) : DOMAIN e = 1 .. Len(e)
  OBVIOUS
<1> QED
  BY <1>1, <1>3, <1>4, <1>5 DEF s, t

\* Steps that are not the last of init_proc create nothing and link nothing.
LEMMA PasoSinEnlazar ==
    ASSUME TypeOK, NEW h \in Hilos,
           \/ SinMemoria(h) \/ LeerPid(h) \/ EscribirPid(h)
           \/ MirarCola(h) \/ CrearCola(h) \/ BuscarUltimo(h)
    PROVE  /\ elementos' = elementos /\ Creados' = Creados
           /\ pc[h] \notin {"return", "enlazar"}
           /\ \A g \in Hilos : lista'[g] # lista[g] \/ tras'[g] # tras[g] => g = h
           /\ \A g \in Hilos \ {h} : pc'[g] = pc[g]
BY DEF TypeOK, Creados, Paso, SinMemoria, LeerPid, EscribirPid, MirarCola, CrearCola,
       BuscarUltimo

\* Every step keeps the lists without repetitions (kernel.c:139).
LEMMA PasoListados ==
    TypeOK /\ HayCola /\ ListadosCompletos /\ [Next]_vars => ListadosCompletos'
<1> SUFFICES ASSUME TypeOK, HayCola, ListadosCompletos, [Next]_vars
             PROVE  ListadosCompletos'
  OBVIOUS
<1>1. CASE UNCHANGED vars
  BY <1>1 DEF vars, ListadosCompletos, Creados
<1>2. ASSUME NEW h \in Hilos,
             \/ SinMemoria(h) \/ LeerPid(h) \/ EscribirPid(h)
             \/ MirarCola(h) \/ CrearCola(h) \/ BuscarUltimo(h)
      PROVE  ListadosCompletos'
  <2>1. h \notin Creados
    BY <1>2, PasoSinEnlazar DEF Creados
  <2>2. \A g \in Creados : lista'[g] = lista[g]
    BY <1>2, <2>1, PasoSinEnlazar DEF Creados
  <2> QED
    BY <1>2, <2>2, PasoSinEnlazar DEF ListadosCompletos
<1>3. ASSUME NEW h \in Hilos, Enlazar(h) PROVE ListadosCompletos'
  <2>1. lista' = lista /\ Creados' = Creados \cup {h}
    BY <1>3 DEF Enlazar, Paso, Creados, TypeOK
  <2>2. h \notin Creados
    BY <1>3 DEF Enlazar, Paso, Creados
  <2>3. \A l \in Hilos : \A k \in DOMAIN elementos[l] : elementos[l][k] # h
    BY <2>2 DEF ListadosCompletos
  <2> DEFINE l == lista[h]
  <2>4. l \in Hilos /\ \A m \in Hilos \ {l} : elementos'[m] = elementos[m]
    BY <1>3, EnlazarLista
  <2>5. CASE elementos'[l] = elementos[l]
    BY <2>1, <2>4, <2>5 DEF ListadosCompletos
  <2>6. CASE \E p \in 0 .. Len(elementos[l]) :
                /\ DOMAIN elementos'[l] = 1 .. p + 1
                /\ \A i \in 1 .. p : elementos'[l][i] = elementos[l][i]
                /\ elementos'[l][p + 1] = h
    <3>1. PICK p \in 0 .. Len(elementos[l]) :
                /\ DOMAIN elementos'[l] = 1 .. p + 1
                /\ \A i \in 1 .. p : elementos'[l][i] = elementos[l][i]
                /\ elementos'[l][p + 1] = h
      BY <2>6
    <3>2. elementos[l] \in Seq(Hilos)
      BY <2>4 DEF TypeOK
    <3>3. \A i \in 1 .. p + 1 : (i \in DOMAIN elementos[l] /\ i \in 1 .. p) \/ i = p + 1
      BY <3>2
    <3>4. ASSUME NEW k \in DOMAIN elementos'[l]
          PROVE  LET g == elementos'[l][k]
                 IN  /\ g \in Creados' /\ lista'[g] = l
                     /\ \A j \in DOMAIN elementos'[l] : elementos'[l][j] = g => j = k
      BY <3>1, <3>3, <3>4, <2>1, <2>3, <2>4, SMTT(30) DEF ListadosCompletos
    <3> QED
      BY <2>1, <2>4, <3>4 DEF ListadosCompletos
  <2> QED
    BY <1>3, <2>5, <2>6, EnlazarLista
<1> QED
  BY <1>1, <1>2, <1>3 DEF Next, InitProc

-----------------------------------------------------------------------------
(* Calls that overlap no other *)

\* A step of a thread that is inside leaves who else is inside as it was, and no
\* step forgets an overlap.
LEMMA PasoAdentro ==
    ASSUME TypeOK, NEW h \in Hilos, InitProc(h)
    PROVE  /\ solapados \subseteq solapados'
           /\ Adentro' \ {h} = Adentro \ {h}
           /\ LeerPid(h) => h \notin Adentro /\ Adentro' = Adentro \cup {h}
           /\ LeerPid(h) /\ Adentro # {} => Adentro' \subseteq solapados'
           /\ ~LeerPid(h) => Adentro' \subseteq Adentro /\ solapados' = solapados
           /\ ~LeerPid(h) /\ ~SinMemoria(h) => h \in Adentro
           /\ \A g \in Hilos \ {h} : /\ pc'[g] = pc[g] /\ pid'[g] = pid[g]
                                    /\ lista'[g] = lista[g] /\ tras'[g] = tras[g]
<1> USE DEF TypeOK, Paso
<1>1. CASE SinMemoria(h)
  BY <1>1 DEF SinMemoria, LeerPid, Adentro
<1>2. CASE LeerPid(h)
  <2>1. h \notin Adentro /\ Adentro' = Adentro \cup {h}
    BY <1>2 DEF LeerPid, Adentro
  <2> QED
    BY <1>2, <2>1 DEF LeerPid, SinMemoria
<1>3. CASE EscribirPid(h) \/ MirarCola(h) \/ CrearCola(h) \/ BuscarUltimo(h) \/ Enlazar(h)
  <2>1. h \in Adentro /\ pc[h] # "afuera" /\ solapados' = solapados
    BY <1>3 DEF EscribirPid, MirarCola, CrearCola, BuscarUltimo, Enlazar, Adentro
  <2>2. \A g \in Hilos \ {h} : /\ pc'[g] = pc[g] /\ pid'[g] = pid[g]
                            /\ lista'[g] = lista[g] /\ tras'[g] = tras[g]
    BY <1>3 DEF EscribirPid, MirarCola, CrearCola, BuscarUltimo, Enlazar
  <2>3. ~LeerPid(h) /\ ~SinMemoria(h)
    BY <2>1 DEF LeerPid, SinMemoria
  <2> QED
    BY <2>1, <2>2, <2>3 DEF Adentro
<1> QED
  BY <1>1, <1>2, <1>3 DEF InitProc

\* Every step keeps Solitaria (kernel.c:123-139).
LEMMA PasoSolitaria == TypeOK /\ HayCola /\ Solitaria /\ [Next]_vars => Solitaria'
<1> SUFFICES ASSUME TypeOK, HayCola, Solitaria, [Next]_vars PROVE Solitaria'
  OBVIOUS
<1>1. CASE UNCHANGED vars
  BY <1>1 DEF vars, Solitaria, Adentro
<1>2. ASSUME NEW h \in Hilos, InitProc(h) PROVE Solitaria'
  <2> SUFFICES ASSUME NEW g \in Adentro' \ solapados'
               PROVE  /\ Adentro' = {g}
                      /\ pc'[g] = "list_create" => cola_new' = NULL
                      /\ pc'[g] = "enlazar" =>
                            /\ lista'[g] = cola_new'
                            /\ tras'[g] = Ultimo(elementos'[cola_new'])
    BY DEF Solitaria
  <2>1. CASE LeerPid(h)
    <3>1. Adentro = {} /\ Adentro' = {h} /\ g = h
      BY <1>2, <2>1, PasoAdentro
    <3> QED
      BY <2>1, <3>1 DEF LeerPid, Paso, TypeOK
  <2>2. CASE ~LeerPid(h)
    <3>1. g \in Adentro \ solapados /\ Adentro = {g} /\ Adentro' = {g} /\ g \in Hilos
      BY <1>2, <2>2, PasoAdentro DEF Solitaria, Adentro
    <3>2. CASE g = h
      <4>1. pc'[h] \notin {"return", "NULL"}
        BY <3>1, <3>2 DEF Adentro
      <4>2. CASE EscribirPid(h) \/ MirarCola(h) \/ CrearCola(h)
        BY <3>1, <3>2, <4>2 DEF EscribirPid, MirarCola, CrearCola, Paso, TypeOK
      <4>3. CASE BuscarUltimo(h)
        BY <3>1, <3>2, <4>3 DEF BuscarUltimo, Paso, TypeOK
      <4>4. CASE SinMemoria(h) \/ Enlazar(h)
        BY <4>1, <4>4 DEF SinMemoria, Enlazar, Paso, TypeOK
      <4> QED
        BY <1>2, <2>2, <4>2, <4>3, <4>4 DEF InitProc
    <3>3. CASE g # h
      <4>1. SinMemoria(h)
        BY <1>2, <2>2, <3>1, <3>3, PasoAdentro
      <4> QED
        BY <3>1, <3>3, <4>1 DEF SinMemoria, Paso, TypeOK, Solitaria
    <3> QED
      BY <3>2, <3>3
  <2> QED
    BY <2>1, <2>2
<1> QED
  BY <1>1, <1>2 DEF Next

\* The list is there and no call is about to create another.
ColaEstable == cola_new # NULL /\ \A h \in Hilos : pc[h] # "list_create"

\* A list that exists, and that nobody is about to create, stays (kernel.c:136-137).
LEMMA PasoCola == TypeOK /\ [Next]_vars => (ColaEstable => ColaEstable' /\ cola_new' = cola_new)
<1> SUFFICES ASSUME TypeOK, [Next]_vars, ColaEstable PROVE ColaEstable' /\ cola_new' = cola_new
  OBVIOUS
<1> USE DEF ColaEstable, TypeOK, Paso
<1>1. CASE UNCHANGED vars
  BY <1>1 DEF vars
<1>2. ASSUME NEW h \in Hilos, SinMemoria(h) \/ LeerPid(h) \/ EscribirPid(h)
      PROVE  ColaEstable' /\ cola_new' = cola_new
  BY <1>2 DEF SinMemoria, LeerPid, EscribirPid
<1>3. ASSUME NEW h \in Hilos, MirarCola(h) PROVE ColaEstable' /\ cola_new' = cola_new
  BY <1>3 DEF MirarCola
<1>4. ASSUME NEW h \in Hilos, CrearCola(h) PROVE FALSE
  BY <1>4 DEF CrearCola
<1>5. ASSUME NEW h \in Hilos, BuscarUltimo(h) \/ Enlazar(h)
      PROVE  ColaEstable' /\ cola_new' = cola_new
  BY <1>5 DEF BuscarUltimo, Enlazar
<1> QED
  BY <1>1, <1>2, <1>3, <1>4, <1>5 DEF Next, InitProc

\* A call that overlaps no other links its process after the last of the list.
LEMMA EnlazarSolo ==
    ASSUME TypeOK, HayCola, ListadosCompletos, Solitaria,
           NEW h \in Hilos, Enlazar(h), h \notin solapados
    PROVE  /\ Adentro = {h} /\ Adentro' = {} /\ cola_new \in Hilos
           /\ Len(elementos'[cola_new]) = Len(elementos[cola_new]) + 1
           /\ DOMAIN elementos'[cola_new] = 1 .. Len(elementos[cola_new]) + 1
           /\ \A i \in 1 .. Len(elementos[cola_new]) :
                 elementos'[cola_new][i] = elementos[cola_new][i]
           /\ elementos'[cola_new][Len(elementos[cola_new]) + 1] = h
<1> DEFINE s == elementos[lista[h]]
           e == elementos'[lista[h]]
<1>1. h \in Adentro \ solapados /\ pc[h] = "enlazar"
  BY DEF Enlazar, Paso, Adentro
<1>2. Adentro = {h} /\ lista[h] = cola_new /\ tras[h] = Ultimo(s) /\ cola_new \in Hilos
  BY <1>1 DEF Solitaria, HayCola
<1>3. Adentro' = {}
  <2>1. pc'[h] = "return" /\ Adentro' \ {h} = {}
    BY <1>2, PasoAdentro DEF Enlazar, Paso, InitProc, TypeOK
  <2> QED
    BY <2>1 DEF Adentro
<1>4. s \in Seq(Hilos) /\ Len(s) \in Nat /\ DOMAIN s = 1 .. Len(s)
  BY <1>2 DEF TypeOK
<1>5. \A j, k \in DOMAIN s : s[j] = s[k] => j = k
  BY <1>2 DEF ListadosCompletos
<1>6. \/ s = <<>> /\ Len(s) = 0 /\ Ultimo(s) = NULL
      \/ Len(s) \in DOMAIN s /\ Ultimo(s) = s[Len(s)] /\ Ultimo(s) \in Hilos
  BY <1>4, UltimoForma
<1>7. \/ tras[h] # NULL /\ \A k \in DOMAIN s : s[k] # tras[h]
      \/ \E p \in 0 .. Len(s) :
            /\ DOMAIN e = 1 .. p + 1 /\ Len(e) = p + 1
            /\ \A i \in 1 .. p : e[i] = s[i]
            /\ e[p + 1] = h
            /\ IF tras[h] = NULL THEN p = 0 ELSE p \in DOMAIN s /\ s[p] = tras[h]
  BY EnlazarLista
<1> HIDE DEF s, e
<1>8. PICK p \in 0 .. Len(s) :
            /\ DOMAIN e = 1 .. p + 1 /\ Len(e) = p + 1
            /\ \A i \in 1 .. p : e[i] = s[i]
            /\ e[p + 1] = h
            /\ IF tras[h] = NULL THEN p = 0 ELSE p \in DOMAIN s /\ s[p] = tras[h]
  BY <1>2, <1>6, <1>7
<1>9. p = Len(s)
  BY <1>2, <1>5, <1>6, <1>8, NULLNoEsHilo
<1> QED
  BY <1>2, <1>3, <1>8, <1>9 DEF s, e

\* Every step keeps Firmes: a process whose call overlapped no other is not lost
\* (kernel.c:136-139).
LEMMA PasoFirmes ==
    TypeOK /\ HayCola /\ ListadosCompletos /\ Solitaria /\ Firmes /\ [Next]_vars => Firmes'
<1> SUFFICES ASSUME TypeOK, HayCola, ListadosCompletos, Solitaria, Firmes, [Next]_vars
             PROVE  Firmes'
  OBVIOUS
<1>1. CASE UNCHANGED vars
  BY <1>1 DEF vars, Firmes, Creados, Protegido
<1>2. ASSUME NEW h \in Hilos, InitProc(h) PROVE Firmes'
  <2> SUFFICES ASSUME NEW x \in Creados' \ solapados'
               PROVE  /\ cola_new' \in Hilos
                      /\ \A g \in Hilos : pc'[g] # "list_create"
                      /\ Protegido(x)'
    BY DEF Firmes
  <2>1. x \notin solapados /\ x \in Hilos
    BY <1>2, PasoAdentro DEF Creados
  <2>2. CASE x \notin Creados
    <3>1. h = x /\ Enlazar(h)
      <4>1. h = x
        BY <1>2, <2>1, <2>2, PasoAdentro DEF Creados
      <4> QED
        BY <1>2, <2>2, <4>1, PasoSinEnlazar DEF InitProc
    <3>2. cola_new' = cola_new
      BY <3>1 DEF Enlazar
    <3>3. /\ Adentro' = {} /\ cola_new \in Hilos
          /\ Len(elementos[cola_new]) + 1 \in DOMAIN elementos'[cola_new]
          /\ elementos'[cola_new][Len(elementos[cola_new]) + 1] = x
      <4>1. Len(elementos[cola_new]) \in Nat
        BY <2>1, <3>1, EnlazarSolo DEF TypeOK
      <4> QED
        BY <2>1, <3>1, <4>1, EnlazarSolo
    <3>4. \A g \in Hilos : pc'[g] \notin {"list_create", "enlazar"}
      BY <3>3 DEF Adentro
    <3> QED
      BY <3>2, <3>3, <3>4 DEF Protegido
  <2>3. CASE x \in Creados
    <3>1. cola_new \in Hilos /\ Protegido(x) /\ ColaEstable
      BY <2>1, <2>3, NULLNoEsHilo DEF Firmes, ColaEstable
    <3>2. cola_new' = cola_new /\ \A g \in Hilos : pc'[g] # "list_create"
      BY <3>1, PasoCola DEF ColaEstable
    <3> DEFINE s == elementos[cola_new]
               e == elementos'[cola_new]
    <3>3. PICK k \in DOMAIN s :
             /\ s[k] = x
             /\ \A g \in Hilos :
                   pc[g] = "enlazar" /\ lista[g] = cola_new =>
                       tras[g] # NULL /\ \A j \in DOMAIN s : s[j] = tras[g] => k <= j
      BY <3>1 DEF Protegido
    <3>4. s \in Seq(Hilos) /\ Len(s) \in Nat /\ DOMAIN s = 1 .. Len(s)
      BY <3>1 DEF TypeOK
    <3>5. SUFFICES /\ k \in DOMAIN e /\ e[k] = x
                   /\ \A g \in Hilos :
                         pc'[g] = "enlazar" /\ lista'[g] = cola_new =>
                             tras'[g] # NULL /\ \A j \in DOMAIN e : e[j] = tras'[g] => k <= j
      BY <3>1, <3>2 DEF Protegido
    <3>6. \A g \in Hilos \ {h} :
             pc'[g] = pc[g] /\ lista'[g] = lista[g] /\ tras'[g] = tras[g]
      BY <1>2, PasoAdentro
    <3>7. CASE SinMemoria(h) \/ LeerPid(h) \/ EscribirPid(h) \/ MirarCola(h) \/ CrearCola(h)
      <4>1. elementos' = elementos /\ pc'[h] # "enlazar"
        BY <3>7 DEF SinMemoria, LeerPid, EscribirPid, MirarCola, CrearCola, Paso, TypeOK
      <4> QED
        BY <3>3, <3>6, <4>1
    <3>8. CASE BuscarUltimo(h)
      <4>1. elementos' = elementos /\ tras'[h] = Ultimo(s)
        BY <3>8 DEF BuscarUltimo, TypeOK
      <4>2. Len(s) \in DOMAIN s /\ Ultimo(s) = s[Len(s)] /\ Ultimo(s) \in Hilos
        BY <3>3, <3>4, UltimoForma
      <4>3. \A j \in DOMAIN s : s[j] = Ultimo(s) => j = Len(s)
        BY <3>1, <4>2 DEF ListadosCompletos
      <4>4. tras'[h] # NULL /\ \A j \in DOMAIN s : s[j] = tras'[h] => k <= j
        BY <3>3, <3>4, <4>1, <4>2, <4>3, NULLNoEsHilo
      <4> QED
        BY <3>3, <3>6, <4>1, <4>4
    <3>9. CASE Enlazar(h)
      <4>1. pc'[h] # "enlazar"
        BY <3>9 DEF Enlazar, Paso, TypeOK
      <4>2. CASE e = s
        BY <3>3, <3>6, <4>1, <4>2
      <4>3. CASE \E p \in DOMAIN s :
                    /\ DOMAIN e = 1 .. p + 1
                    /\ \A i \in 1 .. p : e[i] = s[i]
                    /\ k <= p
        <5>1. PICK p \in DOMAIN s :
                    /\ DOMAIN e = 1 .. p + 1
                    /\ \A i \in 1 .. p : e[i] = s[i]
                    /\ k <= p
          BY <4>3
        <5> HIDE DEF s, e
        <5>2. k \in DOMAIN e /\ e[k] = x
          BY <3>3, <3>4, <5>1
        <5>3. ASSUME NEW j \in DOMAIN e, NEW g \in Hilos \ {h},
                     \A i \in DOMAIN s : s[i] = tras[g] => k <= i, e[j] = tras[g]
              PROVE  k <= j
          <6>1. CASE j = p + 1
            BY <3>4, <5>1, <6>1
          <6>2. CASE j # p + 1
            BY <3>4, <5>1, <5>3, <6>2
          <6> QED
            BY <6>1, <6>2
        <5> QED
          BY <3>3, <3>6, <4>1, <5>2, <5>3
      <4>4. e = s \/ \E p \in DOMAIN s :
                    /\ DOMAIN e = 1 .. p + 1
                    /\ \A i \in 1 .. p : e[i] = s[i]
                    /\ k <= p
        <5>1. CASE lista[h] # cola_new
          BY <3>1, <3>9, <5>1, EnlazarLista
        <5>2. CASE lista[h] = cola_new
          <6>1. /\ tras[h] # NULL /\ \A j \in DOMAIN s : s[j] = tras[h] => k <= j
            BY <3>3, <3>9, <5>2, EnlazarLista
          <6>2. \/ e = s
                \/ \E p \in 0 .. Len(s) :
                      /\ DOMAIN e = 1 .. p + 1
                      /\ \A i \in 1 .. p : e[i] = s[i]
                      /\ IF tras[h] = NULL THEN p = 0 ELSE p \in DOMAIN s /\ s[p] = tras[h]
            BY <3>9, <5>2, EnlazarLista
          <6> QED
            BY <6>1, <6>2
        <5> QED
          BY <5>1, <5>2
      <4> QED
        BY <4>2, <4>3, <4>4
    <3> QED
      BY <1>2, <3>7, <3>8, <3>9 DEF InitProc
  <2> QED
    BY <2>2, <2>3
<1> QED
  BY <1>1, <1>2 DEF Next

\* Every step keeps Cuentas (kernel.c:123-139).
LEMMA PasoCuentas ==
    TypeOK /\ HayCola /\ ListadosCompletos /\ Solitaria /\ Cuentas /\ [Next]_vars => Cuentas'
<1> SUFFICES ASSUME TypeOK, HayCola, ListadosCompletos, Solitaria, Cuentas, [Next]_vars,
                    solapados' = {}
             PROVE  /\ \A g \in Creados' : /\ pid'[g] + 1 \in DOMAIN Listados'
                                          /\ Listados'[pid'[g] + 1] = g
                    /\ Adentro' = {} => next_pid' = Len(Listados')
                    /\ \A g \in Adentro' :
                          /\ pid'[g] = Len(Listados')
                          /\ next_pid' = pid'[g] + (IF pc'[g] = "next_pid" THEN 0 ELSE 1)
  BY DEF Cuentas
<1>1. CASE UNCHANGED vars
  BY <1>1 DEF vars, Cuentas, Creados, Listados, Adentro
<1>2. ASSUME NEW h \in Hilos, InitProc(h) PROVE Cuentas'
  <2>1. solapados = {}
    BY <1>2, PasoAdentro
  <2>2. /\ \A g \in Creados : /\ pid[g] + 1 \in DOMAIN Listados
                             /\ Listados[pid[g] + 1] = g
        /\ Adentro = {} => next_pid = Len(Listados)
        /\ \A g \in Adentro :
              /\ pid[g] = Len(Listados)
              /\ next_pid = pid[g] + (IF pc[g] = "next_pid" THEN 0 ELSE 1)
    BY <2>1 DEF Cuentas
  <2>3. CASE SinMemoria(h)
    <3>1. Adentro' = Adentro /\ Creados' = Creados
      BY <2>3 DEF SinMemoria, Paso, TypeOK, Adentro, Creados
    <3>2. Listados' = Listados /\ pid' = pid /\ next_pid' = next_pid
      BY <2>3 DEF SinMemoria, Listados
    <3>3. \A g \in Adentro : pc'[g] = pc[g]
      BY <2>3 DEF SinMemoria, Paso, TypeOK, Adentro
    <3> QED
      BY <2>2, <3>1, <3>2, <3>3 DEF Cuentas
  <2>4. CASE LeerPid(h)
    <3>1. Adentro = {} /\ Adentro' = {h}
      BY <1>2, <2>4, PasoAdentro
    <3>2. /\ Listados' = Listados /\ next_pid' = next_pid /\ pid' = [pid EXCEPT ![h] = next_pid]
          /\ pc'[h] = "next_pid" /\ Creados' = Creados /\ h \notin Creados
      BY <2>4 DEF LeerPid, Listados, Paso, TypeOK, Creados
    <3>3. pid'[h] = next_pid /\ next_pid \in Nat /\ \A g \in Creados : pid'[g] = pid[g]
      BY <3>2 DEF TypeOK, Creados
    <3> QED
      BY <2>2, <3>1, <3>2, <3>3 DEF Cuentas
  <2>5. CASE EscribirPid(h) \/ MirarCola(h) \/ BuscarUltimo(h)
    <3>1. h \in Adentro /\ pc[h] # "next_pid" <=> ~EscribirPid(h)
      BY <2>5 DEF EscribirPid, MirarCola, BuscarUltimo, Paso, Adentro
    <3>2. h \in Adentro /\ Adentro = {h} /\ Adentro' = {h}
      <4>1. h \in Adentro /\ h \in Adentro'
        BY <2>5 DEF EscribirPid, MirarCola, BuscarUltimo, Paso, TypeOK, Adentro
      <4> QED
        BY <1>2, <2>1, <4>1, PasoAdentro DEF Solitaria
    <3>3. Listados' = Listados /\ pid' = pid /\ Creados' = Creados
      BY <2>5 DEF EscribirPid, MirarCola, BuscarUltimo, Listados, Paso, TypeOK, Creados
    <3>4. next_pid' = pid[h] + 1 /\ pc'[h] # "next_pid"
      <4>1. CASE EscribirPid(h)
        BY <4>1 DEF EscribirPid, Paso, TypeOK
      <4>2. CASE MirarCola(h) \/ BuscarUltimo(h)
        BY <2>2, <3>2, <4>2 DEF MirarCola, BuscarUltimo, Paso, TypeOK
      <4> QED
        BY <2>5, <4>1, <4>2
    <3> QED
      BY <2>2, <3>2, <3>3, <3>4 DEF Cuentas
  <2>6. CASE CrearCola(h)
    <3>1. h \in Adentro /\ Adentro = {h} /\ Adentro' = {h}
      <4>1. h \in Adentro /\ h \in Adentro'
        BY <2>6 DEF CrearCola, Paso, TypeOK, Adentro
      <4> QED
        BY <1>2, <2>1, <4>1, PasoAdentro DEF Solitaria
    <3>2. cola_new = NULL /\ Creados = {}
      BY <2>1, <2>6, <3>1, NULLNoEsHilo DEF CrearCola, Paso, Solitaria, HayCola, Creados
    <3>3. elementos[h] \in Seq(Hilos) /\ DOMAIN elementos[h] = {}
      BY <3>2 DEF ListadosCompletos, TypeOK
    <3>4. Listados = <<>> /\ Listados' = elementos[h] /\ Len(elementos[h]) = 0
      <4>1. cola_new' = h /\ elementos' = elementos
        BY <2>6 DEF CrearCola
      <4>2. Len(elementos[h]) = 0
        BY <3>3, UltimoForma
      <4> QED
        BY <3>2, <4>1, <4>2, NULLNoEsHilo DEF Listados
    <3>5. Creados' = {} /\ pid' = pid /\ next_pid' = next_pid
          /\ pc[h] # "next_pid" /\ pc'[h] # "next_pid"
      BY <2>6, <3>2 DEF CrearCola, Paso, TypeOK, Creados
    <3>6. Len(Listados) = Len(Listados')
      BY <3>4
    <3> QED
      BY <2>2, <3>1, <3>5, <3>6 DEF Cuentas
  <2>7. CASE Enlazar(h)
    <3>1. /\ Adentro = {h} /\ Adentro' = {} /\ cola_new \in Hilos
          /\ Len(elementos'[cola_new]) = Len(elementos[cola_new]) + 1
          /\ DOMAIN elementos'[cola_new] = 1 .. Len(elementos[cola_new]) + 1
          /\ \A i \in 1 .. Len(elementos[cola_new]) :
                elementos'[cola_new][i] = elementos[cola_new][i]
          /\ elementos'[cola_new][Len(elementos[cola_new]) + 1] = h
      BY <2>1, <2>7, EnlazarSolo
    <3>2. Listados = elementos[cola_new] /\ Listados' = elementos'[cola_new]
      BY <2>7, <3>1, NULLNoEsHilo DEF Enlazar, Listados
    <3>3. /\ Creados' = Creados \cup {h} /\ pid' = pid /\ next_pid' = next_pid
          /\ pc[h] # "next_pid"
      BY <2>7 DEF Enlazar, Paso, TypeOK, Creados
    <3>4. Listados \in Seq(Hilos) /\ Len(Listados) \in Nat /\ DOMAIN Listados = 1 .. Len(Listados)
      BY <3>1, <3>2 DEF TypeOK
    <3>5. next_pid = Len(Listados) + 1 /\ pid[h] = Len(Listados)
      BY <2>2, <3>1, <3>3
    <3>6. \A g \in Creados : pid[g] + 1 \in 1 .. Len(Listados) /\ Listados[pid[g] + 1] = g
      BY <2>2, <3>4
    <3>7. Len(Listados') = Len(Listados) + 1
      BY <3>1, <3>2
    <3>8. /\ DOMAIN Listados' = 1 .. Len(Listados) + 1
          /\ \A i \in 1 .. Len(Listados) : Listados'[i] = Listados[i]
          /\ Listados'[Len(Listados) + 1] = h
      BY <3>1, <3>2
    <3>9. \A g \in Creados' : /\ pid'[g] + 1 \in DOMAIN Listados'
                             /\ Listados'[pid'[g] + 1] = g
      BY <3>3, <3>4, <3>5, <3>6, <3>8
    <3> QED
      BY <3>1, <3>3, <3>5, <3>7, <3>9 DEF Cuentas
  <2> QED
    BY <1>2, <2>3, <2>4, <2>5, <2>6, <2>7 DEF InitProc
<1> QED
  BY <1>1, <1>2 DEF Next, Cuentas

-----------------------------------------------------------------------------
(* Theorems *)

\* The inductive invariant holds of every behaviour.
THEOREM InvSiempre == Spec => []Inv
<1>1. Init => Inv
  <2> SUFFICES ASSUME Init PROVE Inv
    OBVIOUS
  <2>1. Adentro = {} /\ Creados = {} /\ Listados = <<>>
    BY DEF Init, Adentro, Creados, Listados
  <2>2. TypeOK
    <3>1. <<>> \in Seq(Hilos)
      OBVIOUS
    <3>2. elementos \in [Hilos -> Seq(Hilos)]
      BY <3>1 DEF Init
    <3> QED
      BY <3>2 DEF Init, TypeOK
  <2>3. HayCola /\ Solitaria /\ Firmes
    BY <2>1 DEF Init, HayCola, Solitaria, Firmes
  <2>4. \A l \in Hilos : DOMAIN elementos[l] = {}
    BY DEF Init
  <2>5. ListadosCompletos
    BY <2>4 DEF ListadosCompletos
  <2>6. Cuentas
    BY <2>1 DEF Init, Cuentas
  <2> QED
    BY <2>2, <2>3, <2>5, <2>6 DEF Inv
<1>2. Inv /\ [Next]_vars => Inv'
  BY PasoTipos, PasoHayCola, PasoListados, PasoSolitaria, PasoFirmes, PasoCuentas DEF Inv
<1> QED
  BY <1>1, <1>2, PTL DEF Spec

\* Every variable keeps its type, whatever the threads (kernel.c:112-142).
THEOREM TiposSiempre == Spec => []TypeOK
<1>1. Inv => TypeOK
  BY DEF Inv
<1> QED
  BY <1>1, InvSiempre, PTL

\* A process is in one list at most, once, and complete (kernel.c:123-139).
THEOREM ListadosSiempre == Spec => []ListadosCompletos
<1>1. Inv => ListadosCompletos
  BY DEF Inv
<1> QED
  BY <1>1, InvSiempre, PTL

\* A process whose call overlapped no other is never lost (kernel.c:136-139).
THEOREM SolosSiempre == Spec => []SolosNoSePierden
<1>1. Inv => SolosNoSePierden
  BY DEF Inv, Firmes, Protegido, SolosNoSePierden
<1> QED
  BY <1>1, InvSiempre, PTL

\* Calls one after the other list every process in the order of the pids
\* (kernel.c:119-141).
THEOREM PidsSiempre == Spec => []PidsEnOrden
<1>1. Inv => PidsEnOrden
  BY NULLNoEsHilo DEF Inv, Cuentas, Listados, PidsEnOrden, HayCola, Creados
<1> QED
  BY <1>1, InvSiempre, PTL

=============================================================================
