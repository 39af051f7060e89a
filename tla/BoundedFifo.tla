------------------------------ MODULE BoundedFifo ------------------------------
(* What a bounded queue between one producer and one consumer promises: what is *)
(* put comes out once, in order, and there is never more of it than fits.       *)
EXTENDS Naturals, Sequences

CONSTANTS Values, Capacity, Nothing

VARIABLES contents,  \* the items in the queue, oldest first
          taken      \* the item the consumer was given last

vars == <<contents, taken>>

Init == contents = <<>> /\ taken = Nothing

Put(v) ==
    /\ Len(contents) < Capacity
    /\ contents' = Append(contents, v)
    /\ UNCHANGED taken

Take ==
    /\ contents # <<>>
    /\ taken' = Head(contents)
    /\ contents' = Tail(contents)

Next == (\E v \in Values : Put(v)) \/ Take

Spec == Init /\ [][Next]_vars

=============================================================================
