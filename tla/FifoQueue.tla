------------------------------- MODULE FifoQueue -------------------------------
(***************************************************************************)
(* What a queue promises to its callers: whatever is accepted is handed    *)
(* out once, in the order of acceptance, and nothing else is handed out.   *)
(***************************************************************************)
EXTENDS Sequences

CONSTANT Elements

VARIABLES items,   \* accepted and not handed out, oldest first
          taken    \* everything handed out so far

Init == items = << >> /\ taken = << >>

Accept(v) == items' = Append(items, v) /\ UNCHANGED taken

HandOut ==
  /\ items # << >>
  /\ items' = Tail(items)
  /\ taken' = Append(taken, Head(items))

Next == HandOut \/ \E v \in Elements : Accept(v)
================================================================================
