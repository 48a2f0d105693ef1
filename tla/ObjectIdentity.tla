--------------------------- MODULE ObjectIdentity ---------------------------
(***************************************************************************)
(* What the heap of the runtime promises about object references.          *)
(*                                                                         *)
(* A reference is made once.  From then on it is valid, that is, it leads  *)
(* to the object it was made for, until that object is dropped, and it is  *)
(* never valid again.  SlotTable implements this with slots that are used  *)
(* again and again.                                                        *)
(***************************************************************************)

CONSTANT Refs       \* everything that may be used as a reference

VARIABLES made,     \* references handed out so far
          valid     \* references that lead to an object

vars == <<made, valid>>

Init == made = {} /\ valid = {}

\* An object is created and its reference handed out.
New(r) ==
    /\ r \notin made
    /\ made' = made \cup {r}
    /\ valid' = valid \cup {r}

\* An object goes away, and with it the validity of its reference.
Drop(r) ==
    /\ r \in valid
    /\ valid' = valid \ {r}
    /\ UNCHANGED made

Next == \E r \in Refs : New(r) \/ Drop(r)

Spec == Init /\ [][Next]_vars

=============================================================================
