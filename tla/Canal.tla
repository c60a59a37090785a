-------------------------------- MODULE Canal --------------------------------
(***************************************************************************)
(* What a connection promises the two ends that use protocolo.c: the       *)
(* reader gets what was sent, in order and once, and ends when the sender  *)
(* has closed and nothing is left.                                         *)
(***************************************************************************)
EXTENDS Naturals, Sequences

CONSTANTS Mensajes

VARIABLES
    enviados,  \* what the sender handed over, in order
    recibidos, \* what the reader got
    cerrado,   \* the sender has closed
    terminado  \* the reader has ended

vars == <<enviados, recibidos, cerrado, terminado>>

Init == enviados = <<>> /\ recibidos = <<>> /\ cerrado = FALSE /\ terminado = FALSE

Enviar == /\ ~cerrado
          /\ \E m \in Mensajes : enviados' = Append(enviados, m)
          /\ UNCHANGED <<recibidos, cerrado, terminado>>

Recibir == /\ ~terminado
           /\ Len(recibidos) < Len(enviados)
           /\ recibidos' = Append(recibidos, enviados[Len(recibidos) + 1])
           /\ UNCHANGED <<enviados, cerrado, terminado>>

Cerrar == /\ cerrado' = TRUE
          /\ UNCHANGED <<enviados, recibidos, terminado>>

Terminar == /\ cerrado /\ ~terminado /\ recibidos = enviados
            /\ terminado' = TRUE
            /\ UNCHANGED <<enviados, recibidos, cerrado>>

Next == Enviar \/ Recibir \/ Cerrar \/ Terminar

Spec == Init /\ [][Next]_vars

=============================================================================
