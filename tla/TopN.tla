-------------------------------- MODULE TopN --------------------------------
(***************************************************************************)
(* GetTopN (tensorflow_jni.cc): the loop that keeps the N best entries of  *)
(* a prediction in a priority queue whose top is the worst of them.        *)
(*                                                                         *)
(* A queue entry is std::pair<float, int>, compared with std::greater:     *)
(* first by value, then by index.  Indices differ, so the queue is a set   *)
(* of pairs.  A network can produce NaN; NaN < threshold is false, so it   *)
(* is pushed, and a comparator that sees a NaN is no longer an order: what *)
(* the heap pops from then on is left open (any of its entries).           *)
(***************************************************************************)
EXTENDS Integers, Sequences, FiniteSets

CONSTANTS
  Classes,      \* number of entries of the prediction
  Confidences,  \* the values an entry can have, as numbers
  Infinity,     \* the number that stands for +inf, above all others
  NaN,          \* the value that is no number
  Threshold,    \* kThreshold
  NumResults    \* kNumResults

ASSUME TopNAssumption ==
  /\ Classes \in Nat \ {0} /\ NumResults \in Nat \ {0}
  /\ Confidences \subseteq Nat /\ NaN \notin Nat /\ Threshold \in Nat
  /\ Infinity \in Nat /\ Threshold < Infinity
  /\ \A c \in Confidences : c <= Infinity

VARIABLES
  picking,      \* where GetTopN stands
  prediction,   \* the output of the network
  i,            \* the loop variable
  queue,        \* top_result_pq
  top_results   \* the output vector

topVars == <<picking, prediction, i, queue, top_results>>

Indices     == 0..(Classes - 1)
Predictions == [Indices -> Confidences \cup {NaN}]
NoPrediction == [c \in Indices |-> 0]

TopInit ==
  /\ picking = "no" /\ prediction = NoPrediction
  /\ i = 0 /\ queue = {} /\ top_results = <<>>

TopGone ==
  /\ picking' = "no" /\ prediction' = NoPrediction
  /\ i' = 0 /\ queue' = {} /\ top_results' = <<>>

(* std::greater on pairs of numbers. *)
Beats(p, q) == \/ p[1] > q[1]
               \/ p[1] = q[1] /\ p[2] > q[2]

(* if (value < threshold) continue; *)
Dropped(v) == v # NaN /\ v < Threshold

(* A NaN has been pushed: the heap is no longer in order. *)
Disordered == \E k \in 0..(i - 1) : prediction[k] = NaN

(* What pop() may remove. *)
Worst(q) == {p \in q : \A r \in q \ {p} : Beats(r, p)}

Popped(q, disordered) == IF disordered THEN q ELSE Worst(q)

AtCapacity(q) == Cardinality(q) > NumResults

PushStuck ==  \* mutant: continue skips the increment
  /\ picking = "loop" /\ i < Classes
  /\ IF Dropped(prediction[i])
       THEN UNCHANGED <<i, queue>>
       ELSE /\ i' = i + 1
            /\ LET full == queue \cup {<<prediction[i], i>>}
               IN  IF AtCapacity(full) THEN \E p \in full : queue' = full \ {p}
                                       ELSE queue' = full
  /\ UNCHANGED <<picking, prediction, top_results>>

(* One round of the for loop. *)
Push ==
  /\ picking = "loop" /\ i < Classes
  /\ LET v    == prediction[i]
         full == queue \cup {<<v, i>>}
         bad  == Disordered \/ v = NaN
     IN  \/ Dropped(v) /\ queue' = queue
         \/ ~Dropped(v) /\ ~AtCapacity(full) /\ queue' = full
         \/ ~Dropped(v) /\ AtCapacity(full)
              /\ \E p \in Popped(full, bad) : queue' = full \ {p}
  /\ i' = i + 1
  /\ UNCHANGED <<picking, prediction, top_results>>

DrainUnreversed ==  \* mutant: std::reverse is forgotten
  /\ picking = "loop" /\ i = Classes /\ queue # {}
  /\ \E p \in Popped(queue, Disordered) :
       /\ queue' = queue \ {p}
       /\ top_results' = Append(top_results, p)
  /\ UNCHANGED <<picking, prediction, i>>

(* The while loop copies the queue out, worst first, and the vector is
   reversed: entries go to the front of top_results. *)
Drain ==
  /\ picking = "loop" /\ i = Classes /\ queue # {}
  /\ \E p \in Popped(queue, Disordered) :
       /\ queue' = queue \ {p}
       /\ top_results' = <<p>> \o top_results
  /\ UNCHANGED <<picking, prediction, i>>

TopDone ==
  /\ picking = "loop" /\ i = Classes /\ queue = {}
  /\ picking' = "done"
  /\ UNCHANGED <<prediction, i, queue, top_results>>

TopNext == Push \/ Drain \/ TopDone

-----------------------------------------------------------------------------
Entries == (Confidences \cup {NaN}) \X Indices

(* The queue and the output of GetTopN hold pairs of a confidence and an index. *)
TopTypeOK ==
  /\ picking \in {"no", "loop", "done"}
  /\ prediction \in [Indices -> Confidences \cup {NaN, 0}]
  /\ i \in 0..Classes
  /\ queue \subseteq Entries
  /\ top_results \in Seq(Entries)

(* The entries the loop has seen that reach the threshold. *)
Seen       == 0..(i - 1)
Candidates == {<<prediction[k], k>> : k \in {k \in Seen : prediction[k] >= Threshold}}
Results    == {top_results[k] : k \in DOMAIN top_results}
Kept       == queue \cup Results
AllNumbers == \A c \in Indices : prediction[c] # NaN

(* After every round of the loop the queue and the output hold candidates,
   at most N of them, and a candidate that is missing is beaten by N others,
   all of which are there. *)
KeepsTheBest ==
  /\ Kept \subseteq Candidates
  /\ Cardinality(Kept) <= NumResults
  /\ \A c \in Candidates \ Kept :
       /\ Cardinality(Kept) = NumResults
       /\ \A p \in Kept : Beats(p, c)

(* While the queue is being copied, everything left in it still beats what
   has been copied, which is in order. *)
Descending ==
  /\ \A k \in DOMAIN top_results : \A l \in DOMAIN top_results :
       k < l => Beats(top_results[k], top_results[l])
  /\ \A k \in DOMAIN top_results : \A p \in queue : Beats(p, top_results[k])

(* "Returns the top N confidence values over threshold in the provided
   vector, sorted by confidence in descending order" (tensorflow_jni.cc:169),
   ties, values at the threshold and a full queue included.  A NaN in the
   prediction excepts it. *)
TopNInOrder == AllNumbers => KeepsTheBest /\ Descending
=============================================================================
