---------------------------- MODULE BoundedQueue ----------------------------
(***************************************************************************)
(* What CMessageQueue promises: a queue of at most Capacity messages.  A   *)
(* message is put in behind the others once, taken out at the front once,  *)
(* and all messages can be dropped together.                               *)
(***************************************************************************)
EXTENDS Naturals, Sequences

CONSTANTS Messages, Capacity

VARIABLES queue,        \* the messages, oldest first
          unsent        \* messages nobody has put in yet

Init ==
    /\ queue = <<>>
    /\ unsent = Messages

Put(m) ==
    /\ m \in unsent
    /\ Len(queue) < Capacity
    /\ queue' = Append(queue, m)
    /\ unsent' = unsent \ {m}

Take ==
    /\ queue # <<>>
    /\ queue' = Tail(queue)
    /\ UNCHANGED unsent

Drop ==
    /\ queue' = <<>>
    /\ UNCHANGED unsent

Next == (\E m \in Messages : Put(m)) \/ Take \/ Drop

Spec == Init /\ [][Next]_<<queue, unsent>>
=============================================================================
