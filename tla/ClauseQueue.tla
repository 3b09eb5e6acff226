----------------------------- MODULE ClauseQueue -----------------------------
(***************************************************************************)
(* What a ClauseBuffer promises its users: a first-in first-out queue.  A  *)
(* clause is enqueued once, and taken in the order of the enqueues.        *)
(***************************************************************************)
EXTENDS Sequences

CONSTANT Clause

VARIABLES
    queue,  \* the clauses in the buffer, oldest first
    fresh,  \* the clauses not enqueued yet
    taken   \* the clauses taken so far, in order

vars == <<queue, fresh, taken>>

Init == queue = <<>> /\ fresh = Clause /\ taken = <<>>

Enqueue ==
    \E c \in fresh : /\ queue' = Append(queue, c)
                     /\ fresh' = fresh \ {c}
                     /\ UNCHANGED taken

Dequeue ==
    /\ queue # <<>>
    /\ taken' = Append(taken, Head(queue))
    /\ queue' = Tail(queue)
    /\ UNCHANGED fresh

Spec == Init /\ [][Enqueue \/ Dequeue]_vars
=============================================================================
