---------------------------- MODULE TensorValues ----------------------------
(***************************************************************************)
(* What a program may rely on when it works with tensors: each tensor that *)
(* owns its data has a value of its own.  Operations make a value, read    *)
(* values, move one or write one; nothing else ever changes, whatever      *)
(* blocks the data are in.                                                 *)
(*                                                                         *)
(* A value gives the cells of a tensor by index.  Views have no value:     *)
(* they read and write the value of the tensor that owns their data.       *)
(***************************************************************************)
EXTENDS Integers

CONSTANTS
  Tensors,   (* places a Tensor object can live in           *)
  Cells      (* what a cell may hold                         *)

VARIABLE value

Nothing == <<>>

(* What nobody has written is unknown, and so is a sum with it.            *)
Junk == -1

Plus(x, y) == IF x = Junk \/ y = Junk THEN Junk ELSE x + y

Init == value = [t \in Tensors |-> Nothing]

Make(t) ==
  /\ value[t] = Nothing
  /\ value' = [value EXCEPT ![t] = value'[t]]

(* Memory of one content: unwritten, filled with zeros or with data.       *)
Fill(t) ==
  /\ Make(t)
  /\ \E x \in Cells : \A i \in DOMAIN value'[t] : value'[t][i] = x

(* The first cells of a value, as a view may show them.                    *)
Copy(t) ==
  /\ Make(t)
  /\ \E u \in Tensors :
       /\ DOMAIN value'[t] \subseteq DOMAIN value[u]
       /\ \A i \in DOMAIN value'[t] : value'[t][i] = value[u][i]

Add(t) ==
  /\ Make(t)
  /\ \E a, b \in Tensors :
       /\ DOMAIN value'[t] \subseteq DOMAIN value[a] \cap DOMAIN value[b]
       /\ \A i \in DOMAIN value'[t] : value'[t][i] = Plus(value[a][i], value[b][i])

Write(t) ==
  /\ value' = [value EXCEPT ![t] = value'[t]]
  /\ DOMAIN value'[t] = DOMAIN value[t]
  /\ \E x \in Cells : \A i \in DOMAIN value[t] : value'[t][i] \in {value[t][i], x}

Move(t, u) == value' = [value EXCEPT ![t] = value[u], ![u] = Nothing]

Drop(t) == value' = [value EXCEPT ![t] = Nothing]

Next ==
  \E t \in Tensors :
    \/ Fill(t) \/ Copy(t) \/ Add(t) \/ Write(t) \/ Drop(t)
    \/ \E u \in Tensors \ {t} : Move(t, u)

Spec == Init /\ [][Next]_value
=============================================================================
