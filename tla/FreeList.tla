------------------------------- MODULE FreeList -------------------------------
(***************************************************************************)
(* What every allocator of the engine promises: an item that is handed out *)
(* is in nobody's hands, and stays with the caller until it is given back. *)
(***************************************************************************)
EXTENDS Naturals

CONSTANT Items

VARIABLE held   \* held[i]: how many callers hold i

Init == held = [i \in Items |-> 0]

Take(i) == held[i] = 0 /\ held' = [held EXCEPT ![i] = 1]

Give(i) == held[i] = 1 /\ held' = [held EXCEPT ![i] = 0]

Next == \E i \in Items : Take(i) \/ Give(i)

Spec == Init /\ [][Next]_held
===============================================================================
