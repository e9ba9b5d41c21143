----------------------------- MODULE MCMessaging -----------------------------
(* Messaging for TLC: two users, two messages one way, one the other way.   *)
EXTENDS Messaging

CONSTANTS u1, u2

MCUsers == {u1, u2}
MCMessages ==
  {[from |-> u1, to |-> u2, n |-> 1], [from |-> u1, to |-> u2, n |-> 2],
   [from |-> u2, to |-> u1, n |-> 1]}

=============================================================================
