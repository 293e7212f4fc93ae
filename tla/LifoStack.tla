----------------------------- MODULE LifoStack -----------------------------
(***************************************************************************)
(* What boost::lockfree::stack promises (boost/lockfree/stack.hpp): every  *)
(* operation takes effect at one instant between its call and its return.  *)
(* A push of a range puts as many of its elements as there are nodes for   *)
(* on the stack, atomically, the last one on top; pop and                  *)
(* consume_all_atomic take the newest element or all of them, newest       *)
(* first; they report an empty stack only if it was empty at that instant. *)
(***************************************************************************)
EXTENDS Integers, Sequences

CONSTANTS
    Threads,
    Pushes   \* [kind, bounded, arg]: a bounded push may find too few nodes; another can only
             \* throw and push nothing

VARIABLES
    stack,  \* the elements, newest first
    op      \* op[t]: what thread t asked for and what became of it

vars == <<stack, op>>

\* An operation that was called, and what it is when it has taken effect
Called(kind, bounded, arg) ==
    [kind |-> kind, bounded |-> bounded, arg |-> arg, done |-> FALSE, ret |-> <<>>]
Done(o, ret) ==
    [kind |-> o.kind, bounded |-> o.bounded, arg |-> o.arg, done |-> TRUE, ret |-> ret]
NoOp == Called("none", FALSE, <<>>)

\* The elements of a range from the last to the first: the order they have on the stack
Stacked(vs) == [i \in 1..Len(vs) |-> vs[Len(vs) + 1 - i]]

Init ==
    /\ stack = <<>>
    /\ op = [t \in Threads |-> NoOp]

CallPush(t) ==
    /\ op[t].kind = "none"
    /\ \E p \in Pushes : op' = [op EXCEPT ![t] = Called("push", p.bounded, p.arg)]
    /\ UNCHANGED stack

CallPop(t) ==
    /\ op[t].kind = "none"
    /\ \E k \in {"pop", "all"} : op' = [op EXCEPT ![t] = Called(k, FALSE, <<>>)]
    /\ UNCHANGED stack

\* The first n elements are pushed; a push that gets its nodes from the allocator pushes all
\* of them or, if the allocator throws, none
Push(t) ==
    /\ op[t].kind = "push" /\ ~op[t].done
    /\ \E n \in 0..Len(op[t].arg) :
          /\ op[t].bounded \/ n \in {0, Len(op[t].arg)}
          /\ LET vs == SubSeq(op[t].arg, 1, n)
             IN  /\ stack' = Stacked(vs) \o stack
                 /\ op' = [op EXCEPT ![t] = Done(op[t], vs)]

Pop(t) ==
    /\ op[t].kind = "pop" /\ ~op[t].done /\ stack # <<>>
    /\ stack' = Tail(stack)
    /\ op' = [op EXCEPT ![t] = Done(op[t], <<Head(stack)>>)]

PopAll(t) ==
    /\ op[t].kind = "all" /\ ~op[t].done /\ stack # <<>>
    /\ stack' = <<>>
    /\ op' = [op EXCEPT ![t] = Done(op[t], stack)]

Empty(t) ==
    /\ op[t].kind \in {"pop", "all"} /\ ~op[t].done /\ stack = <<>>
    /\ op' = [op EXCEPT ![t] = Done(op[t], <<>>)]
    /\ UNCHANGED stack

Return(t) ==
    /\ op[t].done
    /\ op' = [op EXCEPT ![t] = NoOp]
    /\ UNCHANGED stack

Next == \E t \in Threads :
    CallPush(t) \/ CallPop(t) \/ Push(t) \/ Pop(t) \/ PopAll(t) \/ Empty(t) \/ Return(t)

Spec == Init /\ [][Next]_vars

============================================================================
