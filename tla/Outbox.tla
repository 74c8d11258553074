------------------------------- MODULE Outbox -------------------------------
(* What AsyncProtocol promises of the messages it accepts: they leave in   *)
(* the order in which they came, each once or, when it fails, never.       *)
EXTENDS Sequences

CONSTANT Messages
VARIABLES pending, \* accepted and still to be dealt with
          out      \* what has left

Init == pending = <<>> /\ out = <<>>

Accept(m) == pending' = Append(pending, m) /\ UNCHANGED out

Deliver ==
  /\ pending # <<>>
  /\ out' = Append(out, Head(pending))
  /\ pending' = Tail(pending)

Fail == pending # <<>> /\ pending' = Tail(pending) /\ UNCHANGED out

Abandon == pending' = <<>> /\ UNCHANGED out

Next == (\E m \in Messages : Accept(m)) \/ Deliver \/ Fail \/ Abandon

Spec == Init /\ [][Next]_<<pending, out>>

=============================================================================
