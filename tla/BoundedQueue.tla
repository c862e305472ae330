---------------------------- MODULE BoundedQueue ----------------------------
(***************************************************************************)
(* What the socket queue of the HTTP front end promises: one thread puts   *)
(* connections in, several take them out, each connection goes to one      *)
(* taker, the oldest first, and there are never more than Size in between. *)
(***************************************************************************)
EXTENDS Naturals, Sequences

CONSTANTS Items, NoItem, Takers, Size

VARIABLES
    queue,   \* the items in the queue, the oldest first
    taken    \* taken[t]: the item taker t is busy with

Init ==
    /\ queue = <<>>
    /\ taken = [t \in Takers |-> NoItem]

Put(x) ==
    /\ Len(queue) < Size
    /\ queue' = Append(queue, x)
    /\ UNCHANGED taken

Take(t) ==
    /\ queue # <<>>
    /\ taken[t] = NoItem
    /\ taken' = [taken EXCEPT ![t] = Head(queue)]
    /\ queue' = Tail(queue)

Finish(t) ==
    /\ taken' = [taken EXCEPT ![t] = NoItem]
    /\ UNCHANGED queue

Next ==
    \/ \E x \in Items : Put(x)
    \/ \E t \in Takers : Take(t) \/ Finish(t)

Specification == Init /\ [][Next]_<<queue, taken>>

=============================================================================
