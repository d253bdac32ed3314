------------------------------- MODULE Shelf --------------------------------
(***************************************************************************)
(* What storing a pump's cycles promises, whatever fails or dies on the    *)
(* way: for each cycle a quality is remembered, which only gets better     *)
(* until the cycle is forgotten for a much newer one; and the copies kept  *)
(* of a cycle may change at any time, but only to one as good as what is   *)
(* remembered. Render implements it.                                       *)
(***************************************************************************)
EXTENDS Integers

CONSTANTS
    Places, Cycles, KeptCycles,
    Quality,            \* the qualities, and
    Better(_, _),       \* their order
    AsGoodAs(_, _),     \* whether what is stored is fit for what is remembered
    Stored,             \* what can be stored
    None

VARIABLES remembered, stored

vars == <<remembered, stored>>

Init ==
    /\ remembered = [c \in Cycles |-> None]
    /\ stored = [w \in Places |-> [c \in Cycles |-> None]]

\* the copy of cycle c at one place is replaced
Put(w, c, s) ==
    /\ remembered[c] # None => AsGoodAs(s, remembered[c])
    /\ stored' = [stored EXCEPT ![w][c] = s]
    /\ UNCHANGED remembered

\* cycle c is remembered, no worse than before, and every place has it; cycles
\* far enough behind one that is remembered are forgotten
Remember(c, f) ==
    /\ remembered[c] # None => ~Better(remembered[c], f)
    /\ \A w \in Places : AsGoodAs(stored[w][c], f)
    /\ LET added == [remembered EXCEPT ![c] = f]
       IN  remembered' = [d \in Cycles |->
              IF \E e \in Cycles : added[e] # None /\ d <= e - KeptCycles
              THEN None ELSE added[d]]
    /\ UNCHANGED stored

Next ==
    \/ \E w \in Places, c \in Cycles, s \in Stored : Put(w, c, s)
    \/ \E c \in Cycles, f \in Quality : Remember(c, f)

Spec == Init /\ [][Next]_vars
=============================================================================
