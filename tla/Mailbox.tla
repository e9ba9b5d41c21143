------------------------------- MODULE Mailbox -------------------------------
(***************************************************************************)
(* What the messaging service promises of each message: it is stored once, *)
(* and from then on it waits, until it is heard by its recipient or lost   *)
(* for good; nobody else ever hears it.  What is heard or lost in one step *)
(* is of one sender and one recipient.  A sender is only told of a message *)
(* that is stored.  Messaging implements this.                             *)
(***************************************************************************)
CONSTANT Messages   \* records with the fields from and to

VARIABLES
  fate,   \* of each message: none, waiting, heard or lost
  told    \* the messages whose sender was told "Message sent"

vars == <<fate, told>>

Init ==
  /\ fate = [m \in Messages |-> "none"]
  /\ told = {}

(* The messages of S get from one fate to another.                         *)
Become(S, from, to) ==
  /\ \A m \in S : fate[m] = from
  /\ fate' = [m \in Messages |-> IF m \in S THEN to ELSE fate[m]]
  /\ UNCHANGED told

OnePair(S) == \A m, n \in S : m.from = n.from /\ m.to = n.to

Store == \E m \in Messages : Become({m}, "none", "waiting")

Hear == \E S \in SUBSET Messages : OnePair(S) /\ Become(S, "waiting", "heard")

Lose == \E S \in SUBSET Messages : OnePair(S) /\ Become(S, "waiting", "lost")

Tell ==
  \E m \in Messages :
    /\ fate[m] # "none"
    /\ told' = told \union {m}
    /\ UNCHANGED fate

Next == Store \/ Hear \/ Lose \/ Tell

Spec == Init /\ [][Next]_vars

=============================================================================
