--------------------------- MODULE MessagingProofs ---------------------------
(***************************************************************************)
(* Machine-checked proofs about Messaging, for any users, messages and     *)
(* requests.  The main result is ReadIsAccountedFor: the only ways to lose *)
(* a message are a lost answer and the window between the SELECT and the   *)
(* UPDATE of get_message.  A message is announced twice only by requests   *)
(* that overlap or after an UPDATE that failed, and the whole implements   *)
(* Mailbox.                                                                *)
(***************************************************************************)
EXTENDS Messaging, TLAPS

(* What makes the accounting inductive: a phone waits only for a request   *)
(* made for it; the rows of a get_message answer are addressed to its      *)
(* user; and, between the SELECT and the UPDATE of a request, every unread *)
(* row of its pair either was selected by it or was inserted meanwhile.    *)
PhoneWaitsForOwn ==
  \A u \in Users : waiting[u] # NoRequest =>
    req[waiting[u]].me = u /\ req[waiting[u]].pc # "unused"

RequestShape ==
  \A r \in Requests :
    /\ req[r].pc \in {"select", "update"} => req[r].kind = "get"
    /\ req[r].pc = "insert" => req[r].kind = "send"
    /\ req[r].pc = "update" => req[r].ok
    /\ req[r].pc = "select" => req[r].msgs = {}
    /\ req[r].kind = "get" => \A m \in req[r].msgs : m.to = req[r].me
    /\ req[r].kind = "get" /\ req[r].msgs # {} /\ req[r].pc \notin {"done", "lost"} => req[r].ok

WindowCovered ==
  \A r \in Requests : req[r].pc = "update" =>
    \A m \in Messages :
      m.from = req[r].peer /\ m.to = req[r].me /\ status[m] = "unread"
        => m \in req[r].msgs \union overrun

IInv ==
  TypeOK /\ PhoneWaitsForOwn /\ RequestShape /\ WindowCovered /\ ReadIsAccountedFor

USE MessageAssumption, RequestAssumption

(* The type invariant holds initially and is preserved by every step.      *)
LEMMA InitTypeOK == Init => TypeOK
BY DEF Init, TypeOK, RequestRecords, ReqPlaces

LEMMA NextTypeOK == TypeOK /\ [Next]_vars => TypeOK'
<1> SUFFICES ASSUME TypeOK, [Next]_vars PROVE TypeOK'
  OBVIOUS
<1>1. CASE \E u, f \in Users, r \in Requests : GotoMessage(u, f, r)
  BY <1>1 DEF GotoMessage, TypeOK, RequestRecords, ReqPlaces, history
<1>2. CASE \E m \in Messages, r \in Requests : SendMessage(m, r)
  BY <1>2 DEF SendMessage, TypeOK, RequestRecords, ReqPlaces, history
<1>3. CASE \E u \in Users : GiveUp(u)
  <2> PICK u \in Users : GiveUp(u)
    BY <1>3
  <2> QED
    BY DEF GiveUp, TypeOK, history
<1>4. CASE \E u \in Users : ReceiveReply(u)
  <2> PICK u \in Users : ReceiveReply(u)
    BY <1>4
  <2>1. waiting[u] \in Requests /\ req[waiting[u]] \in RequestRecords
    BY DEF ReceiveReply, TypeOK
  <2>2. [req[waiting[u]] EXCEPT !.pc = "done"] \in RequestRecords
    BY <2>1 DEF RequestRecords, ReqPlaces
  <2>3. req' = [req EXCEPT ![waiting[u]] = [req[waiting[u]] EXCEPT !.pc = "done"]]
    BY <2>1 DEF ReceiveReply, TypeOK
  <2>4. req' \in [Requests -> RequestRecords]
    BY <2>1, <2>2, <2>3 DEF TypeOK
  <2>5. req[waiting[u]].msgs \subseteq Messages
    BY <2>1 DEF RequestRecords
  <2> QED
    BY <2>4, <2>5 DEF ReceiveReply, TypeOK, history
<1>5. CASE \E r \in Requests : SelectUnread(r)
  <2> PICK r \in Requests : SelectUnread(r)
    BY <1>5
  <2> DEFINE found == {m \in Rows(req[r].peer, req[r].me) : status[m] = "unread"}
  <2> DEFINE any == found # {}
             place == IF found = {} THEN "reply" ELSE "update"
  <2>1. found \subseteq Messages /\ any \in BOOLEAN /\ place \in ReqPlaces
    BY DEF Rows, ReqPlaces
  <2>2. req' = [req EXCEPT ![r] = [req[r] EXCEPT
                  !.pc = place, !.msgs = found, !.ok = any]]
    BY DEF SelectUnread, TypeOK
  <2>3. selected' = selected \union found
    BY DEF SelectUnread
  <2> HIDE DEF found, any, place
  <2>a. req[r] \in RequestRecords
    BY DEF TypeOK
  <2>b. [req[r] EXCEPT !.pc = place, !.msgs = found, !.ok = any] \in RequestRecords
    BY <2>1, <2>a DEF RequestRecords
  <2>4. req' \in [Requests -> RequestRecords]
    BY <2>2, <2>b DEF TypeOK
  <2> QED
    BY <2>1, <2>3, <2>4 DEF SelectUnread, TypeOK
<1>6. CASE \E r \in Requests : MarkRead(r)
  <2> PICK r \in Requests : MarkRead(r)
    BY <1>6
  <2>1. req' \in [Requests -> RequestRecords]
    BY DEF MarkRead, TypeOK, RequestRecords, ReqPlaces
  <2>2. status' \in [Messages -> {"absent", "unread", "read"}]
    BY DEF MarkRead, TypeOK
  <2> QED
    BY <2>1, <2>2 DEF MarkRead, TypeOK, history
<1>7. CASE \E r \in Requests : InsertMessage(r)
  <2> PICK r \in Requests : InsertMessage(r)
    BY <1>7
  <2>1. req' \in [Requests -> RequestRecords]
    BY DEF InsertMessage, TypeOK, RequestRecords, ReqPlaces
  <2>2. status' \in [Messages -> {"absent", "unread", "read"}]
    BY DEF InsertMessage, TypeOK
  <2>3. overrun' \subseteq Messages
    BY DEF InsertMessage, TypeOK, RequestRecords
  <2> QED
    BY <2>1, <2>2, <2>3 DEF InsertMessage, TypeOK, history
<1>8. CASE \E r \in Requests : StatementFails(r)
  <2> PICK r \in Requests : StatementFails(r)
    BY <1>8
  <2> DEFINE good == (req[r].pc = "update")
  <2>0. req' = [req EXCEPT ![r] = [req[r] EXCEPT !.pc = "reply", !.ok = good]]
    BY DEF StatementFails, TypeOK
  <2>a. good \in BOOLEAN
    OBVIOUS
  <2> HIDE DEF good
  <2>b. req[r] \in RequestRecords
    BY DEF TypeOK
  <2>c. [req[r] EXCEPT !.pc = "reply", !.ok = good] \in RequestRecords
    BY <2>a, <2>b DEF RequestRecords, ReqPlaces
  <2>1. req' \in [Requests -> RequestRecords]
    BY <2>0, <2>c DEF TypeOK
  <2>2. unmarked' \subseteq Messages
    BY DEF StatementFails, TypeOK, RequestRecords
  <2> QED
    BY <2>1, <2>2 DEF StatementFails, TypeOK, history
<1>9. CASE \E r \in Requests : Vanish(r)
  BY <1>9 DEF Vanish, TypeOK, RequestRecords, ReqPlaces, history
<1>10. CASE UNCHANGED vars
  BY <1>10 DEF TypeOK, vars
<1> QED
  BY <1>1, <1>2, <1>3, <1>4, <1>5, <1>6, <1>7, <1>8, <1>9, <1>10
     DEF Next, ServerStep, PhoneStep

(* Messaging is type correct: statement results, answers and announcements *)
(* stay in their domains whatever fails.                                   *)
THEOREM TypeCorrect == Spec => []TypeOK
BY InitTypeOK, NextTypeOK, PTL DEF Spec

-----------------------------------------------------------------------------
(* The accounting invariant holds initially.                               *)
LEMMA InitIInv == Init => IInv
<1> SUFFICES ASSUME Init PROVE IInv
  OBVIOUS
<1> PICK u \in Users :
      req = [r \in Requests |-> [pc |-> "unused", kind |-> "get", me |-> u,
                                 peer |-> u, msgs |-> {}, ok |-> FALSE]]
  BY DEF Init
<1>1. TypeOK
  BY InitTypeOK
<1>2. PhoneWaitsForOwn
  BY DEF Init, PhoneWaitsForOwn
<1>3. RequestShape
  BY DEF RequestShape
<1>4. WindowCovered
  BY DEF WindowCovered
<1>5. ReadIsAccountedFor
  BY DEF Init, ReadIsAccountedFor
<1> QED
  BY <1>1, <1>2, <1>3, <1>4, <1>5 DEF IInv

(* Every step preserves the accounting invariant.                          *)
LEMMA NextIInv == IInv /\ [Next]_vars => IInv'
<1> SUFFICES ASSUME IInv, [Next]_vars PROVE IInv'
  OBVIOUS
<1>0. TypeOK /\ TypeOK'
  BY NextTypeOK DEF IInv
<1>1. CASE \E u, f \in Users, r \in Requests : GotoMessage(u, f, r)
  <2> PICK u \in Users, f \in Users, r \in Requests : GotoMessage(u, f, r)
    BY <1>1
  <2>1. PhoneWaitsForOwn'
    BY <1>0 DEF IInv, TypeOK, PhoneWaitsForOwn, GotoMessage
  <2>2. RequestShape'
    BY <1>0 DEF IInv, TypeOK, RequestShape, GotoMessage
  <2>3. WindowCovered'
    BY <1>0 DEF IInv, TypeOK, WindowCovered, GotoMessage, history
  <2>4. ReadIsAccountedFor'
    BY <1>0 DEF IInv, TypeOK, ReadIsAccountedFor, Underway, GotoMessage, history
  <2> QED
    BY <1>0, <2>1, <2>2, <2>3, <2>4 DEF IInv
<1>2. CASE \E m \in Messages, r \in Requests : SendMessage(m, r)
  <2> PICK m \in Messages, r \in Requests : SendMessage(m, r)
    BY <1>2
  <2>0. m.from \in Users
    OBVIOUS
  <2>1. PhoneWaitsForOwn'
    BY <1>0, <2>0 DEF IInv, TypeOK, PhoneWaitsForOwn, SendMessage
  <2>2. RequestShape'
    BY <1>0, <2>0 DEF IInv, TypeOK, RequestShape, SendMessage
  <2>3. WindowCovered'
    BY <1>0 DEF IInv, TypeOK, WindowCovered, SendMessage, history
  <2>4. ReadIsAccountedFor'
    BY <1>0 DEF IInv, TypeOK, ReadIsAccountedFor, Underway, SendMessage, history
  <2> QED
    BY <1>0, <2>1, <2>2, <2>3, <2>4 DEF IInv
<1>3. CASE \E u \in Users : GiveUp(u)
  <2> PICK u \in Users : GiveUp(u)
    BY <1>3
  <2>0. waiting[u] \in Requests
    BY <1>0 DEF GiveUp, TypeOK
  <2>1. PhoneWaitsForOwn'
    BY <1>0, <2>0 DEF IInv, TypeOK, PhoneWaitsForOwn, GiveUp
  <2>2. RequestShape'
    BY DEF IInv, RequestShape, GiveUp
  <2>3. WindowCovered'
    BY DEF IInv, WindowCovered, GiveUp, history
  <2>4. ReadIsAccountedFor'
    BY <1>0, <2>0 DEF IInv, TypeOK, ReadIsAccountedFor, Underway, GiveUp, history
  <2> QED
    BY <1>0, <2>1, <2>2, <2>3, <2>4 DEF IInv
<1>4. CASE \E u \in Users : ReceiveReply(u)
  <2> PICK u \in Users : ReceiveReply(u)
    BY <1>4
  <2> DEFINE r == waiting[u]
  <2>0. r \in Requests /\ req[r].me = u
    BY <1>0 DEF ReceiveReply, TypeOK, IInv, PhoneWaitsForOwn
  <2>1. PhoneWaitsForOwn'
    BY <1>0, <2>0 DEF IInv, TypeOK, PhoneWaitsForOwn, ReceiveReply
  <2>2. RequestShape'
    BY <1>0, <2>0 DEF IInv, TypeOK, RequestShape, ReceiveReply
  <2>3. WindowCovered'
    BY <1>0, <2>0 DEF IInv, TypeOK, WindowCovered, ReceiveReply, history
  <2>4. ReadIsAccountedFor'
    <3> SUFFICES ASSUME NEW m \in Messages, status[m] = "read"
                 PROVE  \/ m \in heard'[m.to] \/ Underway(m)'
                        \/ m \in lostReply \/ m \in overrun
      BY DEF ReadIsAccountedFor, ReceiveReply, history
    <3>1. CASE req[r].kind = "get" /\ m \in req[r].msgs
      BY <1>0, <2>0, <3>1 DEF ReceiveReply, TypeOK, IInv, RequestShape
    <3>2. CASE ~(req[r].kind = "get" /\ m \in req[r].msgs)
      <4>1. Underway(m) => Underway(m)'
        BY <1>0, <2>0, <3>2 DEF ReceiveReply, TypeOK, Underway
      <4>2. m \in heard[m.to] => m \in heard'[m.to]
        BY <1>0 DEF ReceiveReply, TypeOK
      <4> QED
        BY <4>1, <4>2 DEF IInv, ReadIsAccountedFor
    <3> QED
      BY <3>1, <3>2
  <2> QED
    BY <1>0, <2>1, <2>2, <2>3, <2>4 DEF IInv
<1>5. CASE \E r \in Requests : SelectUnread(r)
  <2> PICK r \in Requests : SelectUnread(r)
    BY <1>5
  <2> DEFINE found == {m \in Rows(req[r].peer, req[r].me) : status[m] = "unread"}
             rec == [req[r] EXCEPT
                       !.pc = IF found = {} THEN "reply" ELSE "update",
                       !.msgs = found, !.ok = found # {}]
  <2>0. /\ req[r].pc = "select" /\ req[r].kind = "get" /\ req[r].msgs = {}
    BY DEF SelectUnread, IInv, RequestShape
  <2>d. req' = [req EXCEPT ![r] = rec]
    BY <1>0 DEF SelectUnread, TypeOK
  <2>e. req[r] \in RequestRecords
    BY <1>0 DEF TypeOK
  <2>a. \A m \in Messages :
          m \in found <=> m.from = req[r].peer /\ m.to = req[r].me /\ status[m] = "unread"
    BY DEF Rows
  <2>b. found \subseteq Messages
    BY DEF Rows
  <2>c. UNCHANGED <<status, waiting, heard, confirmed, overrun, lostReply>>
    BY DEF SelectUnread
  <2> HIDE DEF found
  <2>f. /\ rec.msgs = found /\ rec.kind = "get" /\ rec.me = req[r].me
        /\ rec.peer = req[r].peer /\ (rec.ok <=> found # {})
        /\ rec.pc = IF found = {} THEN "reply" ELSE "update"
    BY <2>0, <2>e DEF RequestRecords
  <2> HIDE DEF rec
  <2>1. PhoneWaitsForOwn'
    BY <1>0, <2>0, <2>c, <2>d, <2>f DEF IInv, TypeOK, PhoneWaitsForOwn
  <2>2. RequestShape'
    BY <1>0, <2>a, <2>b, <2>d, <2>f DEF IInv, TypeOK, RequestShape
  <2>3. WindowCovered'
    BY <1>0, <2>0, <2>a, <2>c, <2>d, <2>f DEF IInv, TypeOK, WindowCovered
  <2>4. ReadIsAccountedFor'
    <3>1. \A m : Underway(m) => Underway(m)'
      BY <1>0, <2>0, <2>d, <2>f DEF TypeOK, Underway
    <3> QED
      BY <2>c, <3>1 DEF IInv, ReadIsAccountedFor
  <2> QED
    BY <1>0, <2>1, <2>2, <2>3, <2>4 DEF IInv
<1>6. CASE \E r \in Requests : MarkRead(r)
  <2> PICK r \in Requests : MarkRead(r)
    BY <1>6
  <2>0. req[r].kind = "get"
    BY DEF MarkRead, IInv, RequestShape
  <2>1. PhoneWaitsForOwn'
    BY <1>0 DEF IInv, TypeOK, PhoneWaitsForOwn, MarkRead
  <2>2. RequestShape'
    BY <1>0, <2>0 DEF IInv, TypeOK, RequestShape, MarkRead
  <2>3. WindowCovered'
    BY <1>0 DEF IInv, TypeOK, WindowCovered, MarkRead, history
  <2>4. ReadIsAccountedFor'
    <3> SUFFICES ASSUME NEW m \in Messages, status'[m] = "read"
                 PROVE  \/ m \in heard[m.to] \/ Underway(m)'
                        \/ m \in lostReply \/ m \in overrun
      BY DEF ReadIsAccountedFor, MarkRead, history
    <3>1. Underway(m) => Underway(m)'
      BY <1>0 DEF MarkRead, TypeOK, Underway
    <3>2. CASE status[m] = "read"
      BY <3>1, <3>2 DEF IInv, ReadIsAccountedFor
    <3>3. CASE status[m] # "read"
      <4>1. /\ m.from = req[r].peer /\ m.to = req[r].me
            /\ status[m] = "unread" /\ req[r].pc = "update"
        BY <1>0, <3>3 DEF MarkRead, Rows, TypeOK
      <4>2. m \in req[r].msgs \/ m \in overrun
        BY <4>1 DEF IInv, WindowCovered
      <4>3. m \in req[r].msgs => Underway(m)
        BY <2>0, <4>1 DEF Underway
      <4> QED
        BY <3>1, <4>2, <4>3
    <3> QED
      BY <3>2, <3>3
  <2> QED
    BY <1>0, <2>1, <2>2, <2>3, <2>4 DEF IInv
<1>7. CASE \E r \in Requests : InsertMessage(r)
  <2> PICK r \in Requests : InsertMessage(r)
    BY <1>7
  <2>0. req[r].kind = "send" /\ req[r].pc = "insert"
    BY DEF InsertMessage, IInv, RequestShape
  <2>1. PhoneWaitsForOwn'
    BY <1>0 DEF IInv, TypeOK, PhoneWaitsForOwn, InsertMessage
  <2>2. RequestShape'
    BY <1>0, <2>0 DEF IInv, TypeOK, RequestShape, InsertMessage
  <2>3. WindowCovered'
    <3> SUFFICES ASSUME NEW s \in Requests, req'[s].pc = "update",
                        NEW m \in Messages, m.from = req'[s].peer,
                        m.to = req'[s].me, status'[m] = "unread"
                 PROVE  m \in req'[s].msgs \union overrun'
      BY DEF WindowCovered
    <3>1. req'[s] = req[s]
      BY <1>0 DEF InsertMessage, TypeOK, RequestRecords
    <3>2. CASE m \in req[r].msgs
      BY <1>0, <3>1, <3>2 DEF InsertMessage, TypeOK, RequestRecords
    <3>3. CASE m \notin req[r].msgs
      BY <1>0, <3>1, <3>3 DEF InsertMessage, TypeOK, IInv, WindowCovered
    <3> QED
      BY <3>2, <3>3
  <2>4. ReadIsAccountedFor'
    <3>1. \A m : Underway(m) => Underway(m)'
      BY <1>0, <2>0 DEF InsertMessage, TypeOK, RequestRecords, Underway
    <3>2. \A m \in Messages : status'[m] = "read" => status[m] = "read"
      BY <1>0 DEF InsertMessage, TypeOK
    <3> QED
      BY <3>1, <3>2 DEF IInv, ReadIsAccountedFor, InsertMessage
  <2> QED
    BY <1>0, <2>1, <2>2, <2>3, <2>4 DEF IInv
<1>8. CASE \E r \in Requests : StatementFails(r)
  <2> PICK r \in Requests : StatementFails(r)
    BY <1>8
  <2> DEFINE rec == [req[r] EXCEPT !.pc = "reply", !.ok = (req[r].pc = "update")]
  <2>a. req[r] \in RequestRecords
    BY <1>0 DEF TypeOK
  <2>b. req' = [req EXCEPT ![r] = rec] /\ req[r].pc \in {"select", "update", "insert"}
    BY <1>0 DEF StatementFails, TypeOK
  <2>0. /\ req' = [req EXCEPT ![r] = rec]
        /\ req[r].pc \in {"select", "update", "insert"}
        /\ rec.pc = "reply" /\ rec.kind = req[r].kind /\ rec.me = req[r].me
        /\ rec.peer = req[r].peer /\ rec.msgs = req[r].msgs
        /\ (rec.ok <=> req[r].pc = "update")
    BY <2>a, <2>b DEF RequestRecords
  <2>c. UNCHANGED <<status, waiting, heard, confirmed, overrun, lostReply>>
    BY DEF StatementFails
  <2> HIDE DEF rec
  <2>1. PhoneWaitsForOwn'
    BY <1>0, <2>0, <2>c DEF IInv, TypeOK, PhoneWaitsForOwn
  <2>2. RequestShape'
    BY <1>0, <2>0 DEF IInv, TypeOK, RequestShape
  <2>3. WindowCovered'
    BY <1>0, <2>0, <2>c DEF IInv, TypeOK, WindowCovered
  <2>4. ReadIsAccountedFor'
    <3>1. \A m : Underway(m) => Underway(m)'
      BY <1>0, <2>0 DEF TypeOK, Underway
    <3> QED
      BY <2>c, <3>1 DEF IInv, ReadIsAccountedFor
  <2> QED
    BY <1>0, <2>1, <2>2, <2>3, <2>4 DEF IInv
<1>9. CASE \E r \in Requests : Vanish(r)
  <2> PICK r \in Requests : Vanish(r)
    BY <1>9
  <2>1. PhoneWaitsForOwn'
    BY <1>0 DEF IInv, TypeOK, PhoneWaitsForOwn, Vanish
  <2>2. RequestShape'
    BY <1>0 DEF IInv, TypeOK, RequestShape, Vanish
  <2>3. WindowCovered'
    BY <1>0 DEF IInv, TypeOK, WindowCovered, Vanish
  <2>4. ReadIsAccountedFor'
    <3> SUFFICES ASSUME NEW m \in Messages, status[m] = "read"
                 PROVE  \/ m \in heard[m.to] \/ Underway(m)'
                        \/ m \in lostReply' \/ m \in overrun
      BY DEF ReadIsAccountedFor, Vanish
    <3>1. CASE req[r].kind = "get" /\ m \in req[r].msgs
      BY <3>1 DEF Vanish
    <3>2. CASE ~(req[r].kind = "get" /\ m \in req[r].msgs)
      <4>1. Underway(m) => Underway(m)'
        BY <1>0, <3>2 DEF Vanish, TypeOK, Underway
      <4> QED
        BY <4>1 DEF IInv, ReadIsAccountedFor, Vanish
    <3> QED
      BY <3>1, <3>2
  <2> QED
    BY <1>0, <2>1, <2>2, <2>3, <2>4 DEF IInv
<1>10. CASE UNCHANGED vars
  BY <1>0, <1>10 DEF IInv, PhoneWaitsForOwn, RequestShape, WindowCovered,
     ReadIsAccountedFor, Underway, vars
<1> QED
  BY <1>1, <1>2, <1>3, <1>4, <1>5, <1>6, <1>7, <1>8, <1>9, <1>10
     DEF Next, ServerStep, PhoneStep

(* message.php loses a message only with an answer that nobody receives,   *)
(* or in the window between the SELECT and the UPDATE of get_message.      *)
THEOREM MessagesAreAccountedFor == Spec => []ReadIsAccountedFor
<1>1. IInv => ReadIsAccountedFor
  BY DEF IInv
<1> QED
  BY InitIInv, NextIInv, <1>1, PTL DEF Spec

-----------------------------------------------------------------------------
(* What a step does to the requests: it changes one of them, and only      *)
(* GotoMessage and SendMessage change whose it is.                         *)
OnlyRequest(r) == \A s \in Requests : s # r => req'[s] = req[s]

SameCall(r) ==
  req'[r].kind = req[r].kind /\ req'[r].me = req[r].me /\ req'[r].peer = req[r].peer

LEMMA GotoEffect ==
  ASSUME TypeOK, NEW u \in Users, NEW f \in Users, NEW r \in Requests, GotoMessage(u, f, r)
  PROVE  /\ OnlyRequest(r) /\ req[r].pc = "unused"
         /\ req'[r].pc = "select" /\ req'[r].kind = "get" /\ req'[r].msgs = {}
         /\ UNCHANGED <<status, heard, confirmed, overrun, selected, unmarked>>
BY DEF GotoMessage, TypeOK, OnlyRequest, history

LEMMA SendEffect ==
  ASSUME TypeOK, NEW m \in Messages, NEW r \in Requests, SendMessage(m, r)
  PROVE  /\ OnlyRequest(r) /\ req[r].pc = "unused" /\ status[m] = "absent"
         /\ \A s \in Requests : req[s].kind = "send" => m \notin req[s].msgs
         /\ req'[r].pc = "insert" /\ req'[r].kind = "send" /\ req'[r].msgs = {m}
         /\ UNCHANGED <<status, heard, confirmed, overrun, selected, unmarked>>
BY DEF SendMessage, TypeOK, OnlyRequest, history

LEMMA GiveUpEffect ==
  ASSUME NEW u \in Users, GiveUp(u)
  PROVE  UNCHANGED <<status, req, heard, confirmed, overrun, selected, unmarked>>
BY DEF GiveUp, history

LEMMA ReceiveEffect ==
  ASSUME TypeOK, NEW u \in Users, ReceiveReply(u)
  PROVE  /\ waiting[u] \in Requests
         /\ OnlyRequest(waiting[u]) /\ SameCall(waiting[u])
         /\ req'[waiting[u]].msgs = req[waiting[u]].msgs
         /\ req[waiting[u]].pc = "reply" /\ req'[waiting[u]].pc = "done"
         /\ UNCHANGED <<status, overrun, selected, unmarked>>
<1>1. waiting[u] \in Requests
  BY DEF ReceiveReply, TypeOK
<1> QED
  BY <1>1 DEF ReceiveReply, TypeOK, RequestRecords, OnlyRequest, SameCall, history

LEMMA SelectEffect ==
  ASSUME TypeOK, NEW r \in Requests, SelectUnread(r)
  PROVE  /\ OnlyRequest(r) /\ SameCall(r) /\ req[r].pc = "select"
         /\ \A m : m \in req'[r].msgs <=> /\ m \in Messages /\ status[m] = "unread"
                                          /\ m.from = req[r].peer /\ m.to = req[r].me
         /\ req'[r].pc = IF req'[r].msgs = {} THEN "reply" ELSE "update"
         /\ selected' = selected \union req'[r].msgs
         /\ UNCHANGED <<status, heard, confirmed, overrun, unmarked>>
<1> DEFINE found == {m \in Rows(req[r].peer, req[r].me) : status[m] = "unread"}
           rec == [req[r] EXCEPT !.pc = IF found = {} THEN "reply" ELSE "update",
                                 !.msgs = found, !.ok = found # {}]
<1>1. req' = [req EXCEPT ![r] = rec] /\ selected' = selected \union found
  BY DEF SelectUnread, TypeOK
<1>2. req[r] \in RequestRecords
  BY DEF TypeOK
<1>3. \A m : m \in found <=> /\ m \in Messages /\ status[m] = "unread"
                             /\ m.from = req[r].peer /\ m.to = req[r].me
  BY DEF Rows
<1>4. /\ req[r].pc = "select"
      /\ UNCHANGED <<status, heard, confirmed, overrun, unmarked>>
  BY DEF SelectUnread
<1> HIDE DEF found
<1>5. /\ rec.msgs = found /\ rec.kind = req[r].kind /\ rec.me = req[r].me
      /\ rec.peer = req[r].peer
      /\ rec.pc = IF found = {} THEN "reply" ELSE "update"
  BY <1>2 DEF RequestRecords
<1> HIDE DEF rec
<1>6. req'[r] = rec /\ OnlyRequest(r)
  BY <1>1 DEF TypeOK, OnlyRequest
<1> QED
  BY <1>1, <1>3, <1>4, <1>5, <1>6 DEF SameCall

LEMMA MarkEffect ==
  ASSUME TypeOK, NEW r \in Requests, MarkRead(r)
  PROVE  /\ OnlyRequest(r) /\ SameCall(r) /\ req'[r].msgs = req[r].msgs
         /\ req[r].pc = "update" /\ req'[r].pc = "reply"
         /\ \A m \in Messages :
              status'[m] = IF status[m] # "absent" /\ m.from = req[r].peer /\ m.to = req[r].me
                             THEN "read" ELSE status[m]
         /\ UNCHANGED <<heard, confirmed, overrun, selected, unmarked>>
<1>1. /\ OnlyRequest(r) /\ SameCall(r) /\ req'[r].msgs = req[r].msgs
      /\ req[r].pc = "update" /\ req'[r].pc = "reply"
  BY DEF MarkRead, TypeOK, RequestRecords, OnlyRequest, SameCall
<1> QED
  BY <1>1 DEF MarkRead, Rows, history

LEMMA InsertEffect ==
  ASSUME TypeOK, NEW r \in Requests, InsertMessage(r)
  PROVE  /\ OnlyRequest(r) /\ SameCall(r) /\ req'[r].msgs = req[r].msgs
         /\ req[r].pc = "insert" /\ req'[r].pc = "reply"
         /\ \A m \in Messages :
              status'[m] = IF m \in req[r].msgs THEN "unread" ELSE status[m]
         /\ UNCHANGED <<heard, confirmed, selected, unmarked>>
<1>1. /\ OnlyRequest(r) /\ SameCall(r) /\ req'[r].msgs = req[r].msgs
      /\ req[r].pc = "insert" /\ req'[r].pc = "reply"
  BY DEF InsertMessage, TypeOK, RequestRecords, OnlyRequest, SameCall
<1> QED
  BY <1>1 DEF InsertMessage

LEMMA FailEffect ==
  ASSUME TypeOK, NEW r \in Requests, StatementFails(r)
  PROVE  /\ OnlyRequest(r) /\ SameCall(r) /\ req'[r].msgs = req[r].msgs
         /\ req[r].pc \in {"select", "update", "insert"} /\ req'[r].pc = "reply"
         /\ req'[r].ok = (req[r].pc = "update")
         /\ unmarked' = unmarked \union IF req[r].pc = "update" THEN req[r].msgs ELSE {}
         /\ UNCHANGED <<status, heard, confirmed, overrun, selected>>
<1> DEFINE rec == [req[r] EXCEPT !.pc = "reply", !.ok = (req[r].pc = "update")]
<1>1. req' = [req EXCEPT ![r] = rec] /\ req[r] \in RequestRecords
  BY DEF StatementFails, TypeOK
<1>2. /\ rec.pc = "reply" /\ rec.kind = req[r].kind /\ rec.me = req[r].me
      /\ rec.peer = req[r].peer /\ rec.msgs = req[r].msgs
      /\ rec.ok = (req[r].pc = "update")
  BY <1>1 DEF RequestRecords
<1>3. /\ req[r].pc \in {"select", "update", "insert"}
      /\ unmarked' = unmarked \union IF req[r].pc = "update" THEN req[r].msgs ELSE {}
      /\ UNCHANGED <<status, heard, confirmed, overrun, selected>>
  BY DEF StatementFails
<1> HIDE DEF rec
<1>4. req'[r] = rec /\ OnlyRequest(r)
  BY <1>1 DEF TypeOK, OnlyRequest
<1> QED
  BY <1>2, <1>3, <1>4 DEF SameCall

LEMMA VanishEffect ==
  ASSUME TypeOK, NEW r \in Requests, Vanish(r)
  PROVE  /\ OnlyRequest(r) /\ SameCall(r) /\ req'[r].msgs = req[r].msgs
         /\ req[r].pc \in {"select", "update", "insert", "reply"} /\ req'[r].pc = "lost"
         /\ unmarked' = unmarked \union IF req[r].pc = "update" THEN req[r].msgs ELSE {}
         /\ UNCHANGED <<status, heard, confirmed, overrun, selected>>
BY DEF Vanish, TypeOK, RequestRecords, OnlyRequest, SameCall

-----------------------------------------------------------------------------
(* What else is always true of the rows that requests and phones hold:     *)
(* announced rows are their user's own; the rows of an answer are those of *)
(* its pair; a send request has one message, no other has the same, and it *)
(* is in the table from the INSERT on; and a row that was selected and is  *)
(* unread still has its UPDATE to come, or had one that failed.            *)
HeardInv ==
  \A u \in Users : \A m \in heard[u] : m.to = u /\ status[m] # "absent"

AnswerInv ==
  \A r \in Requests : req[r].kind = "get" =>
    \A m \in req[r].msgs :
      m.from = req[r].peer /\ m.to = req[r].me /\ status[m] # "absent"

SendInv ==
  \A r \in Requests : req[r].kind = "send" =>
    \E m \in Messages :
      /\ req[r].msgs = {m}
      /\ req[r].pc = "insert" => status[m] = "absent"
      /\ req[r].pc = "reply" /\ req[r].ok => status[m] # "absent"

OneSend ==
  \A r, s \in Requests :
    r # s /\ req[r].kind = "send" /\ req[s].kind = "send"
      => req[r].msgs \intersect req[s].msgs = {}

SelectedInv ==
  \A m \in selected :
    /\ status[m] # "absent"
    /\ status[m] = "unread" =>
         m \in unmarked \/ \E s \in Requests : req[s].pc = "update" /\ m \in req[s].msgs

RowsInv == HeardInv /\ AnswerInv /\ SendInv /\ OneSend /\ SelectedInv

LEMMA InitRowsInv == Init => RowsInv
<1> SUFFICES ASSUME Init PROVE RowsInv
  OBVIOUS
<1> PICK u \in Users :
      req = [r \in Requests |-> [pc |-> "unused", kind |-> "get", me |-> u,
                                 peer |-> u, msgs |-> {}, ok |-> FALSE]]
  BY DEF Init
<1> QED
  BY DEF Init, RowsInv, HeardInv, AnswerInv, SendInv, OneSend, SelectedInv

(* A row is never removed.                                                 *)
LEMMA RowsStay ==
  ASSUME TypeOK, [Next]_vars, NEW m \in Messages, status[m] # "absent"
  PROVE  status'[m] # "absent"
<1>1. CASE \E r \in Requests : MarkRead(r)
  BY <1>1, MarkEffect
<1>2. CASE \E r \in Requests : InsertMessage(r)
  BY <1>2, InsertEffect
<1>3. CASE ~(\E r \in Requests : MarkRead(r) \/ InsertMessage(r))
  <2>1. UNCHANGED status
    BY <1>3 DEF Next, ServerStep, PhoneStep, GotoMessage, SendMessage, GiveUp,
                ReceiveReply, SelectUnread, StatementFails, Vanish, vars
  <2> QED
    BY <2>1
<1> QED
  BY <1>1, <1>2, <1>3

LEMMA NextRowsInv == IInv /\ RowsInv /\ [Next]_vars => RowsInv'
<1> SUFFICES ASSUME IInv, RowsInv, [Next]_vars PROVE RowsInv'
  OBVIOUS
<1>0. TypeOK /\ TypeOK' /\ PhoneWaitsForOwn /\ RequestShape
  BY NextTypeOK DEF IInv
<1>s. \A m \in Messages : status[m] # "absent" => status'[m] # "absent"
  BY <1>0, RowsStay
<1>m. /\ \A r \in Requests : req[r].msgs \subseteq Messages /\ req'[r].msgs \subseteq Messages
      /\ \A u \in Users : heard[u] \subseteq Messages /\ heard'[u] \subseteq Messages
      /\ selected \subseteq Messages /\ selected' \subseteq Messages
  BY <1>0 DEF TypeOK, RequestRecords
<1> USE DEF RowsInv, OnlyRequest, SameCall
<1>1. CASE \E u, f \in Users, r \in Requests : GotoMessage(u, f, r)
  <2> PICK u \in Users, f \in Users, r \in Requests : GotoMessage(u, f, r)
    BY <1>1
  <2>e. /\ OnlyRequest(r) /\ req[r].pc = "unused"
        /\ req'[r].pc = "select" /\ req'[r].kind = "get" /\ req'[r].msgs = {}
        /\ UNCHANGED <<status, heard, selected, unmarked>>
    BY <1>0, GotoEffect
  <2>1. HeardInv'
    BY <2>e DEF HeardInv
  <2>2. AnswerInv'
    BY <2>e DEF AnswerInv
  <2>3. SendInv'
    BY <2>e DEF SendInv
  <2>4. OneSend'
    BY <2>e DEF OneSend
  <2>5. SelectedInv'
    BY <2>e DEF SelectedInv
  <2> QED
    BY <2>1, <2>2, <2>3, <2>4, <2>5
<1>2. CASE \E m \in Messages, r \in Requests : SendMessage(m, r)
  <2> PICK m \in Messages, r \in Requests : SendMessage(m, r)
    BY <1>2
  <2>e. /\ OnlyRequest(r) /\ req[r].pc = "unused" /\ status[m] = "absent"
        /\ \A s \in Requests : req[s].kind = "send" => m \notin req[s].msgs
        /\ req'[r].pc = "insert" /\ req'[r].kind = "send" /\ req'[r].msgs = {m}
        /\ UNCHANGED <<status, heard, selected, unmarked>>
    BY <1>0, SendEffect
  <2>1. HeardInv'
    BY <2>e DEF HeardInv
  <2>2. AnswerInv'
    BY <2>e DEF AnswerInv
  <2>3. SendInv'
    BY <2>e DEF SendInv
  <2>4. OneSend'
    BY <2>e DEF OneSend
  <2>5. SelectedInv'
    BY <2>e DEF SelectedInv
  <2> QED
    BY <2>1, <2>2, <2>3, <2>4, <2>5
<1>3. CASE \E u \in Users : GiveUp(u)
  <2> PICK u \in Users : GiveUp(u)
    BY <1>3
  <2>e. UNCHANGED <<status, req, heard, selected, unmarked>>
    BY GiveUpEffect
  <2>1. HeardInv'
    BY <2>e DEF HeardInv
  <2>2. AnswerInv'
    BY <2>e DEF AnswerInv
  <2>3. SendInv'
    BY <2>e DEF SendInv
  <2>4. OneSend'
    BY <2>e DEF OneSend
  <2>5. SelectedInv'
    BY <2>e DEF SelectedInv
  <2> QED
    BY <2>1, <2>2, <2>3, <2>4, <2>5
<1>4. CASE \E u \in Users : ReceiveReply(u)
  <2> PICK u \in Users : ReceiveReply(u)
    BY <1>4
  <2> DEFINE r == waiting[u]
  <2>e. /\ r \in Requests /\ OnlyRequest(r) /\ SameCall(r) /\ req'[r].msgs = req[r].msgs
        /\ req[r].pc = "reply" /\ req'[r].pc = "done"
        /\ UNCHANGED <<status, selected, unmarked>>
    BY <1>0, ReceiveEffect
  <2>a. req[r].me = u
    BY <1>0, <2>e DEF PhoneWaitsForOwn, ReceiveReply
  <2>b. heard' = [heard EXCEPT ![u] = heard[u] \union
                    IF req[r].kind = "get" /\ req[r].ok THEN req[r].msgs ELSE {}]
    BY DEF ReceiveReply
  <2> HIDE DEF r
  <2>1. HeardInv'
    BY <1>0, <2>a, <2>b, <2>e DEF HeardInv, AnswerInv, TypeOK
  <2>2. AnswerInv'
    BY <2>e DEF AnswerInv
  <2>3. SendInv'
    BY <2>e DEF SendInv
  <2>4. OneSend'
    BY <2>e DEF OneSend
  <2>5. SelectedInv'
    BY <2>e DEF SelectedInv
  <2> QED
    BY <2>1, <2>2, <2>3, <2>4, <2>5
<1>5. CASE \E r \in Requests : SelectUnread(r)
  <2> PICK r \in Requests : SelectUnread(r)
    BY <1>5
  <2>e. /\ OnlyRequest(r) /\ SameCall(r) /\ req[r].pc = "select"
        /\ \A m : m \in req'[r].msgs <=> /\ m \in Messages /\ status[m] = "unread"
                                         /\ m.from = req[r].peer /\ m.to = req[r].me
        /\ req'[r].pc = IF req'[r].msgs = {} THEN "reply" ELSE "update"
        /\ selected' = selected \union req'[r].msgs
        /\ UNCHANGED <<status, heard, unmarked>>
    BY <1>0, SelectEffect
  <2>k. req[r].kind = "get"
    BY <1>0, <2>e DEF RequestShape
  <2>1. HeardInv'
    BY <2>e DEF HeardInv
  <2>2. AnswerInv'
    BY <2>e DEF AnswerInv
  <2>3. SendInv'
    BY <2>e, <2>k DEF SendInv
  <2>4. OneSend'
    BY <2>e, <2>k DEF OneSend
  <2>5. SelectedInv'
    <3> SUFFICES ASSUME NEW m \in selected'
                 PROVE  /\ status[m] # "absent"
                        /\ status[m] = "unread" =>
                             m \in unmarked \/ \E s \in Requests :
                               req'[s].pc = "update" /\ m \in req'[s].msgs
      BY <2>e DEF SelectedInv
    <3>1. CASE m \in req'[r].msgs
      BY <2>e, <3>1
    <3>2. CASE m \notin req'[r].msgs
      BY <2>e, <3>2 DEF SelectedInv
    <3> QED
      BY <3>1, <3>2
  <2> QED
    BY <2>1, <2>2, <2>3, <2>4, <2>5
<1>6. CASE \E r \in Requests : MarkRead(r)
  <2> PICK r \in Requests : MarkRead(r)
    BY <1>6
  <2>e. /\ OnlyRequest(r) /\ SameCall(r) /\ req'[r].msgs = req[r].msgs
        /\ req[r].pc = "update" /\ req'[r].pc = "reply"
        /\ \A m \in Messages :
             status'[m] = IF status[m] # "absent" /\ m.from = req[r].peer /\ m.to = req[r].me
                            THEN "read" ELSE status[m]
        /\ UNCHANGED <<heard, selected, unmarked>>
    BY <1>0, MarkEffect
  <2>k. req[r].kind = "get"
    BY <1>0, <2>e DEF RequestShape
  <2>1. HeardInv'
    BY <1>s, <1>m, <2>e DEF HeardInv
  <2>2. AnswerInv'
    BY <1>s, <1>m, <2>e DEF AnswerInv
  <2>3. SendInv'
    BY <2>e, <2>k DEF SendInv
  <2>4. OneSend'
    BY <2>e, <2>k DEF OneSend
  <2>5. SelectedInv'
    <3> SUFFICES ASSUME NEW m \in selected
                 PROVE  /\ status'[m] # "absent"
                        /\ status'[m] = "unread" =>
                             m \in unmarked \/ \E s \in Requests :
                               req'[s].pc = "update" /\ m \in req'[s].msgs
      BY <2>e DEF SelectedInv
    <3>1. m \in req[r].msgs => status'[m] = "read"
      BY <1>m, <2>e, <2>k DEF AnswerInv
    <3>2. status'[m] = "unread" => status[m] = "unread" /\ m \notin req[r].msgs
      BY <1>m, <2>e, <3>1
    <3> QED
      BY <1>m, <1>s, <2>e, <3>2 DEF SelectedInv
  <2> QED
    BY <2>1, <2>2, <2>3, <2>4, <2>5
<1>7. CASE \E r \in Requests : InsertMessage(r)
  <2> PICK r \in Requests : InsertMessage(r)
    BY <1>7
  <2>e. /\ OnlyRequest(r) /\ SameCall(r) /\ req'[r].msgs = req[r].msgs
        /\ req[r].pc = "insert" /\ req'[r].pc = "reply"
        /\ \A m \in Messages :
             status'[m] = IF m \in req[r].msgs THEN "unread" ELSE status[m]
        /\ UNCHANGED <<heard, selected, unmarked>>
    BY <1>0, InsertEffect
  <2>k. req[r].kind = "send"
    BY <1>0, <2>e DEF RequestShape
  <2>n. PICK n \in Messages : req[r].msgs = {n} /\ status[n] = "absent"
    BY <2>e, <2>k DEF SendInv
  <2>1. HeardInv'
    BY <1>s, <1>m, <2>e DEF HeardInv
  <2>2. AnswerInv'
    BY <1>s, <1>m, <2>e, <2>k DEF AnswerInv
  <2>3. SendInv'
    <3> SUFFICES ASSUME NEW s \in Requests, req'[s].kind = "send"
                 PROVE  \E m \in Messages :
                          /\ req'[s].msgs = {m}
                          /\ req'[s].pc = "insert" => status'[m] = "absent"
                          /\ req'[s].pc = "reply" /\ req'[s].ok => status'[m] # "absent"
      BY DEF SendInv
    <3>1. CASE s = r
      BY <2>e, <2>n, <3>1
    <3>2. CASE s # r
      <4>1. req'[s] = req[s]
        BY <2>e, <3>2
      <4>2. PICK m \in Messages : /\ req[s].msgs = {m}
                                  /\ req[s].pc = "insert" => status[m] = "absent"
                                  /\ req[s].pc = "reply" /\ req[s].ok => status[m] # "absent"
        BY <4>1 DEF SendInv
      <4>3. m \notin req[r].msgs
        BY <2>k, <3>2, <4>1, <4>2 DEF OneSend
      <4> QED
        BY <2>e, <4>1, <4>2, <4>3
    <3> QED
      BY <3>1, <3>2
  <2>4. OneSend'
    BY <2>e DEF OneSend
  <2>5. SelectedInv'
    BY <1>m, <1>s, <2>e, <2>n DEF SelectedInv
  <2> QED
    BY <2>1, <2>2, <2>3, <2>4, <2>5
<1>8. CASE \E r \in Requests : StatementFails(r)
  <2> PICK r \in Requests : StatementFails(r)
    BY <1>8
  <2>e. /\ OnlyRequest(r) /\ SameCall(r) /\ req'[r].msgs = req[r].msgs
        /\ req[r].pc \in {"select", "update", "insert"} /\ req'[r].pc = "reply"
        /\ req'[r].ok = (req[r].pc = "update")
        /\ unmarked' = unmarked \union IF req[r].pc = "update" THEN req[r].msgs ELSE {}
        /\ UNCHANGED <<status, heard, selected>>
    BY <1>0, FailEffect
  <2>k. req[r].kind = "send" => req[r].pc = "insert"
    BY <1>0, <2>e DEF RequestShape
  <2>1. HeardInv'
    BY <2>e DEF HeardInv
  <2>2. AnswerInv'
    BY <2>e DEF AnswerInv
  <2>3. SendInv'
    BY <2>e, <2>k DEF SendInv
  <2>4. OneSend'
    BY <2>e DEF OneSend
  <2>5. SelectedInv'
    BY <2>e DEF SelectedInv
  <2> QED
    BY <2>1, <2>2, <2>3, <2>4, <2>5
<1>9. CASE \E r \in Requests : Vanish(r)
  <2> PICK r \in Requests : Vanish(r)
    BY <1>9
  <2>e. /\ OnlyRequest(r) /\ SameCall(r) /\ req'[r].msgs = req[r].msgs
        /\ req[r].pc \in {"select", "update", "insert", "reply"} /\ req'[r].pc = "lost"
        /\ unmarked' = unmarked \union IF req[r].pc = "update" THEN req[r].msgs ELSE {}
        /\ UNCHANGED <<status, heard, selected>>
    BY <1>0, VanishEffect
  <2>1. HeardInv'
    BY <2>e DEF HeardInv
  <2>2. AnswerInv'
    BY <2>e DEF AnswerInv
  <2>3. SendInv'
    BY <2>e DEF SendInv
  <2>4. OneSend'
    BY <2>e DEF OneSend
  <2>5. SelectedInv'
    BY <2>e DEF SelectedInv
  <2> QED
    BY <2>1, <2>2, <2>3, <2>4, <2>5
<1>10. CASE UNCHANGED vars
  BY <1>10 DEF HeardInv, AnswerInv, SendInv, OneSend, SelectedInv, vars
<1> QED
  BY <1>1, <1>2, <1>3, <1>4, <1>5, <1>6, <1>7, <1>8, <1>9, <1>10
     DEF Next, ServerStep, PhoneStep

LEMMA Inductive == Spec => [](IInv /\ RowsInv)
BY InitIInv, NextIInv, InitRowsInv, NextRowsInv, PTL DEF Spec

(* A get_message request announces a message a second time only if it      *)
(* overlaps the request that announced it first, or if an UPDATE failed or *)
(* was never reached: only a SELECT leads from select to update, and it    *)
(* finds unread rows.                                                      *)
THEOREM RepeatsOnlyIfOverlap == Spec => RepeatedOnlyIfOverlap
<1> DEFINE Repeated(r) ==
      req[r].pc = "select" /\ req'[r].pc = "update" =>
        \A m \in req'[r].msgs \intersect selected :
          \/ m \in unmarked
          \/ \E s \in Requests : req[s].pc = "update" /\ m \in req[s].msgs
<1>1. ASSUME IInv, RowsInv, [Next]_vars, NEW r \in Requests PROVE Repeated(r)
  <2> SUFFICES ASSUME req[r].pc = "select", req'[r].pc = "update",
                      NEW m \in req'[r].msgs, m \in selected
               PROVE  \/ m \in unmarked
                      \/ \E s \in Requests : req[s].pc = "update" /\ m \in req[s].msgs
    OBVIOUS
  <2>0. TypeOK
    BY <1>1 DEF IInv
  <2>1. SelectUnread(r)
    <3>1. ASSUME NEW s \in Requests, SelectUnread(s) PROVE s = r
      BY <2>0, <3>1, SelectEffect DEF OnlyRequest
    <3>2. \E s \in Requests : SelectUnread(s)
      BY <1>1, <2>0, GotoEffect, SendEffect, GiveUpEffect, ReceiveEffect, MarkEffect,
         InsertEffect, FailEffect, VanishEffect
         DEF Next, ServerStep, PhoneStep, vars, OnlyRequest
    <3> QED
      BY <3>1, <3>2
  <2>2. status[m] = "unread"
    BY <2>0, <2>1, SelectEffect
  <2> QED
    BY <1>1, <2>2 DEF RowsInv, SelectedInv
<1>2. IInv /\ RowsInv /\ [Next]_vars => [\A r \in Requests : Repeated(r)]_vars
  BY <1>1
<1> QED
  BY <1>2, Inductive, PTL DEF Spec, RepeatedOnlyIfOverlap

-----------------------------------------------------------------------------
(* The refinement.  Where announced rows are their user's own, the fate of *)
(* a message is read off its row, the announcements and the answers under  *)
(* way.                                                                    *)
FateReadOff ==
  Fate = [m \in Messages |->
            IF status[m] = "absent" THEN "none"
            ELSE IF m \in heard[m.to] THEN "heard"
            ELSE IF status[m] = "unread" \/ Underway(m) THEN "waiting"
            ELSE "lost"]

LEMMA FateLemma == HeardInv => FateReadOff
<1> SUFFICES ASSUME HeardInv PROVE FateReadOff
  OBVIOUS
<1>1. ASSUME NEW m \in Messages PROVE ~ \E u \in Users \ {m.to} : m \in heard[u]
  BY DEF HeardInv
<1> QED
  BY <1>1 DEF Fate, FateReadOff

(* A step that changes the fate of the messages S from one to another.     *)
LEMMA BecomeLemma ==
  ASSUME FateReadOff, FateReadOff', UNCHANGED confirmed,
         NEW S \in SUBSET Messages, NEW from, NEW to,
         \A m \in S : Fate[m] = from /\ Fate'[m] = to,
         \A m \in Messages \ S : Fate'[m] = Fate[m]
  PROVE  Box!Become(S, from, to)
<1>1. Fate' = [m \in Messages |-> IF m \in S THEN to ELSE Fate[m]]
  BY DEF FateReadOff
<1> QED
  BY <1>1 DEF Box!Become

(* A step that changes neither rows nor announcements nor which messages   *)
(* are under way changes no fate.                                          *)
LEMMA SameFate ==
  ASSUME FateReadOff, FateReadOff', UNCHANGED <<status, heard>>,
         \A m \in Messages : status[m] # "unread" => (Underway(m)' <=> Underway(m))
  PROVE  Fate' = Fate
<1>1. ASSUME NEW m \in Messages PROVE Fate'[m] = Fate[m]
  BY DEF FateReadOff
<1>2. /\ Fate = [m \in Messages |-> Fate[m]]
      /\ Fate' = [m \in Messages |-> Fate'[m]]
  BY DEF FateReadOff
<1> HIDE DEF Fate
<1> QED
  BY <1>1, <1>2

LEMMA InitBox == Init => Box!Init
<1> SUFFICES ASSUME Init PROVE Box!Init
  OBVIOUS
<1>1. Fate = [m \in Messages |-> "none"]
  BY InitRowsInv, FateLemma DEF RowsInv, FateReadOff, Init
<1> QED
  BY <1>1 DEF Box!Init, Init

LEMMA NextBox ==
  IInv /\ RowsInv /\ TypeOK' /\ RowsInv' /\ FateReadOff' /\ [Next]_vars
    => [Box!Next]_(Box!vars)
<1> SUFFICES ASSUME IInv, RowsInv, TypeOK', RowsInv', FateReadOff', [Next]_vars
             PROVE  Box!Next \/ UNCHANGED <<Fate, confirmed>>
  BY DEF Box!vars
<1>0. TypeOK /\ PhoneWaitsForOwn /\ RequestShape
  BY DEF IInv
<1>f. FateReadOff
  BY FateLemma DEF RowsInv
<1>m. \A r \in Requests : req[r].msgs \subseteq Messages
  BY <1>0 DEF TypeOK, RequestRecords
<1>g. \A r \in Requests : req[r].kind = "get" => Box!OnePair(req[r].msgs)
  BY DEF RowsInv, AnswerInv, Box!OnePair
<1> USE DEF OnlyRequest, SameCall
<1>1. CASE \E u, f \in Users, r \in Requests : GotoMessage(u, f, r)
  <2> PICK u \in Users, f \in Users, r \in Requests : GotoMessage(u, f, r)
    BY <1>1
  <2>1. UNCHANGED <<status, heard, confirmed>>
    BY <1>0, GotoEffect
  <2>2. \A m \in Messages : Underway(m)' <=> Underway(m)
    BY <1>0, GotoEffect DEF Underway
  <2> QED
    BY <1>f, <2>1, <2>2, SameFate
<1>2. CASE \E m \in Messages, r \in Requests : SendMessage(m, r)
  <2> PICK n \in Messages, r \in Requests : SendMessage(n, r)
    BY <1>2
  <2>1. UNCHANGED <<status, heard, confirmed>>
    BY <1>0, SendEffect
  <2>2. \A m \in Messages : Underway(m)' <=> Underway(m)
    BY <1>0, SendEffect DEF Underway
  <2> QED
    BY <1>f, <2>1, <2>2, SameFate
<1>3. CASE \E u \in Users : GiveUp(u)
  <2> PICK u \in Users : GiveUp(u)
    BY <1>3
  <2>1. UNCHANGED <<status, req, heard, confirmed>>
    BY GiveUpEffect
  <2>2. \A m \in Messages : Underway(m)' <=> Underway(m)
    BY <2>1 DEF Underway
  <2> QED
    BY <1>f, <2>1, <2>2, SameFate
<1>4. CASE \E u \in Users : ReceiveReply(u)
  <2> PICK u \in Users : ReceiveReply(u)
    BY <1>4
  <2> DEFINE r == waiting[u]
  <2>e. /\ r \in Requests /\ OnlyRequest(r) /\ SameCall(r) /\ req'[r].msgs = req[r].msgs
        /\ req[r].pc = "reply" /\ req'[r].pc = "done"
        /\ UNCHANGED status
    BY <1>0, ReceiveEffect
  <2>a. req[r].me = u
    BY <1>0, <2>e DEF PhoneWaitsForOwn, ReceiveReply
  <2>b. /\ heard' = [heard EXCEPT ![u] = heard[u] \union
                      IF req[r].kind = "get" /\ req[r].ok THEN req[r].msgs ELSE {}]
        /\ confirmed' = confirmed \union
             IF req[r].kind = "send" /\ req[r].ok THEN req[r].msgs ELSE {}
    BY DEF ReceiveReply
  <2>k. req[r].kind \in {"get", "send"} /\ heard \in [Users -> SUBSET Messages]
    BY <1>0, <2>e DEF TypeOK, RequestRecords
  <2> HIDE DEF r
  <2>1. CASE req[r].kind = "get"
    <3> DEFINE S == {m \in req[r].msgs : Fate[m] # "heard"}
    <3>1. req[r].msgs # {} => req[r].ok
      BY <1>0, <2>1, <2>e DEF RequestShape
    <3>2. ASSUME NEW m \in req[r].msgs
          PROVE  /\ m \in Messages /\ m.to = u /\ status[m] # "absent"
                 /\ Underway(m) /\ m \in heard'[m.to]
      BY <1>m, <2>1, <2>a, <2>b, <2>e, <2>k, <3>1 DEF RowsInv, AnswerInv, Underway
    <3>3. ASSUME NEW m \in S PROVE Fate[m] = "waiting" /\ Fate'[m] = "heard"
      BY <1>f, <2>e, <3>2 DEF FateReadOff
    <3>4. ASSUME NEW m \in Messages \ S PROVE Fate'[m] = Fate[m]
      <4>1. CASE m \in req[r].msgs
        BY <1>f, <2>e, <3>2, <4>1 DEF FateReadOff
      <4>2. CASE m \notin req[r].msgs
        <5>1. m \in heard'[m.to] <=> m \in heard[m.to]
          BY <2>b, <2>k, <4>2
        <5>2. Underway(m)' <=> Underway(m)
          BY <2>e, <4>2 DEF Underway
        <5> QED
          BY <1>f, <2>e, <5>1, <5>2 DEF FateReadOff
      <4> QED
        BY <4>1, <4>2
    <3>5. UNCHANGED confirmed
      BY <2>1, <2>b
    <3>6. S \in SUBSET Messages /\ Box!OnePair(S)
      BY <1>m, <1>g, <2>1, <2>e DEF Box!OnePair
    <3> HIDE DEF S
    <3>7. Box!Become(S, "waiting", "heard")
      BY <1>f, <3>3, <3>4, <3>5, <3>6, BecomeLemma
    <3> QED
      BY <3>6, <3>7 DEF Box!Next, Box!Hear
  <2>2. CASE req[r].kind = "send"
    <3>1. UNCHANGED heard
      BY <2>2, <2>b, <2>k
    <3>2. \A m \in Messages : Underway(m)' <=> Underway(m)
      BY <2>2, <2>e DEF Underway
    <3>3. Fate' = Fate
      BY <1>f, <2>e, <3>1, <3>2, SameFate
    <3>4. CASE req[r].ok
      <4>1. PICK m \in Messages : req[r].msgs = {m} /\ status[m] # "absent"
        BY <2>2, <2>e, <3>4 DEF RowsInv, SendInv
      <4>2. Fate[m] # "none"
        BY <1>f, <4>1 DEF FateReadOff
      <4>3. confirmed' = confirmed \union {m}
        BY <2>2, <2>b, <3>4, <4>1
      <4> QED
        BY <3>3, <4>2, <4>3 DEF Box!Next, Box!Tell
    <3>5. CASE ~req[r].ok
      BY <2>b, <3>3, <3>5
    <3> QED
      BY <3>4, <3>5
  <2> QED
    BY <2>1, <2>2, <2>k
<1>5. CASE \E r \in Requests : SelectUnread(r)
  <2> PICK r \in Requests : SelectUnread(r)
    BY <1>5
  <2>1. UNCHANGED <<status, heard, confirmed>>
    BY <1>0, SelectEffect
  <2>2. req[r].msgs = {}
    BY <1>0, SelectEffect DEF RequestShape
  <2>3. \A m \in Messages : status[m] # "unread" => (Underway(m)' <=> Underway(m))
    BY <1>0, <2>2, SelectEffect DEF Underway
  <2> QED
    BY <1>f, <2>1, <2>3, SameFate
<1>6. CASE \E r \in Requests : MarkRead(r)
  <2> PICK r \in Requests : MarkRead(r)
    BY <1>6
  <2>e. /\ OnlyRequest(r) /\ SameCall(r) /\ req'[r].msgs = req[r].msgs
        /\ req[r].pc = "update" /\ req'[r].pc = "reply"
        /\ \A m \in Messages :
             status'[m] = IF status[m] # "absent" /\ m.from = req[r].peer /\ m.to = req[r].me
                            THEN "read" ELSE status[m]
        /\ UNCHANGED <<heard, confirmed>>
    BY <1>0, MarkEffect
  <2>u. \A m \in Messages : Underway(m)' <=> Underway(m)
    BY <2>e DEF Underway
  <2> DEFINE S == {m \in Messages : /\ status[m] = "unread" /\ status'[m] = "read"
                                    /\ m \notin heard[m.to] /\ ~Underway(m)}
  <2>1. ASSUME NEW m \in S PROVE Fate[m] = "waiting" /\ Fate'[m] = "lost"
    BY <1>f, <2>e, <2>u DEF FateReadOff
  <2>2. ASSUME NEW m \in Messages \ S PROVE Fate'[m] = Fate[m]
    <3>1. CASE status'[m] = status[m]
      BY <1>f, <2>e, <2>u, <3>1 DEF FateReadOff
    <3>2. CASE status'[m] # status[m]
      <4>1. status[m] = "unread" /\ status'[m] = "read"
        BY <1>0, <2>e, <3>2 DEF TypeOK
      <4> QED
        BY <1>f, <2>e, <2>u, <4>1 DEF FateReadOff
    <3> QED
      BY <3>1, <3>2
  <2>3. S \in SUBSET Messages /\ Box!OnePair(S)
    BY <2>e DEF Box!OnePair
  <2> HIDE DEF S
  <2>4. Box!Become(S, "waiting", "lost")
    BY <1>f, <2>1, <2>2, <2>3, <2>e, BecomeLemma
  <2> QED
    BY <2>3, <2>4 DEF Box!Next, Box!Lose
<1>7. CASE \E r \in Requests : InsertMessage(r)
  <2> PICK r \in Requests : InsertMessage(r)
    BY <1>7
  <2>e. /\ OnlyRequest(r) /\ SameCall(r) /\ req'[r].msgs = req[r].msgs
        /\ req[r].pc = "insert" /\ req'[r].pc = "reply"
        /\ \A m \in Messages :
             status'[m] = IF m \in req[r].msgs THEN "unread" ELSE status[m]
        /\ UNCHANGED <<heard, confirmed>>
    BY <1>0, InsertEffect
  <2>k. req[r].kind = "send"
    BY <1>0, <2>e DEF RequestShape
  <2>n. PICK n \in Messages : req[r].msgs = {n} /\ status[n] = "absent"
    BY <2>e, <2>k DEF RowsInv, SendInv
  <2>1. Fate[n] = "none"
    BY <1>f, <2>n DEF FateReadOff
  <2>2. n \notin heard[n.to]
    BY <2>n DEF RowsInv, HeardInv
  <2>3. Fate'[n] = "waiting"
    BY <2>2, <2>e, <2>n DEF FateReadOff
  <2>4. ASSUME NEW m \in Messages \ {n} PROVE Fate'[m] = Fate[m]
    <3>1. status'[m] = status[m]
      BY <2>e, <2>n
    <3>2. Underway(m)' <=> Underway(m)
      BY <2>e, <2>k DEF Underway
    <3> QED
      BY <1>f, <2>e, <3>1, <3>2 DEF FateReadOff
  <2>5. Box!Become({n}, "none", "waiting")
    BY <1>f, <2>1, <2>3, <2>4, <2>e, BecomeLemma
  <2> QED
    BY <2>5 DEF Box!Next, Box!Store
<1>8. CASE \E r \in Requests : StatementFails(r)
  <2> PICK r \in Requests : StatementFails(r)
    BY <1>8
  <2>1. UNCHANGED <<status, heard, confirmed>>
    BY <1>0, FailEffect
  <2>2. req[r].kind = "get" /\ req[r].pc = "select" => req[r].msgs = {}
    BY <1>0 DEF RequestShape
  <2>3. req[r].pc = "insert" => req[r].kind = "send"
    BY <1>0 DEF RequestShape
  <2>4. \A m \in Messages : Underway(m)' <=> Underway(m)
    BY <1>0, <2>2, <2>3, FailEffect DEF Underway
  <2> QED
    BY <1>f, <2>1, <2>4, SameFate
<1>9. CASE \E r \in Requests : Vanish(r)
  <2> PICK r \in Requests : Vanish(r)
    BY <1>9
  <2>e. /\ OnlyRequest(r) /\ SameCall(r) /\ req'[r].msgs = req[r].msgs
        /\ req[r].pc \in {"select", "update", "insert", "reply"} /\ req'[r].pc = "lost"
        /\ UNCHANGED <<status, heard, confirmed>>
    BY <1>0, VanishEffect
  <2>s. /\ req[r].pc = "select" => req[r].msgs = {}
        /\ req[r].pc = "insert" => req[r].kind = "send"
    BY <1>0 DEF RequestShape
  <2>1. CASE req[r].kind = "send"
    <3>1. \A m \in Messages : Underway(m)' <=> Underway(m)
      BY <2>1, <2>e DEF Underway
    <3> QED
      BY <1>f, <2>e, <3>1, SameFate
  <2>2. CASE req[r].kind = "get"
    <3> DEFINE S == {m \in req[r].msgs : Fate[m] = "waiting" /\ Fate'[m] = "lost"}
    <3>1. ASSUME NEW m \in Messages \ S PROVE Fate'[m] = Fate[m]
      <4>1. CASE m \notin req[r].msgs
        <5>1. Underway(m)' <=> Underway(m)
          BY <2>e, <4>1 DEF Underway
        <5> QED
          BY <1>f, <2>e, <5>1 DEF FateReadOff
      <4>2. CASE m \in req[r].msgs
        <5>1. Underway(m)
          BY <2>2, <2>e, <2>s, <4>2 DEF Underway
        <5>2. Fate[m] \in {"none", "heard", "waiting"}
          BY <1>f, <5>1 DEF FateReadOff
        <5>3. Fate[m] \in {"none", "heard"} => Fate'[m] = Fate[m]
          BY <1>f, <2>e DEF FateReadOff
        <5>4. Fate[m] = "waiting" => Fate'[m] \in {"waiting", "lost"}
          BY <1>f, <2>e DEF FateReadOff
        <5> QED
          BY <4>2, <5>2, <5>3, <5>4
      <4> QED
        BY <4>1, <4>2
    <3>2. S \in SUBSET Messages /\ Box!OnePair(S)
      BY <1>m, <1>g, <2>2 DEF Box!OnePair
    <3>3. \A m \in S : Fate[m] = "waiting" /\ Fate'[m] = "lost"
      OBVIOUS
    <3> HIDE DEF S
    <3>4. Box!Become(S, "waiting", "lost")
      BY <1>f, <2>e, <3>1, <3>2, <3>3, BecomeLemma
    <3> QED
      BY <3>2, <3>4 DEF Box!Next, Box!Lose
  <2> QED
    BY <1>0, <2>1, <2>2 DEF TypeOK, RequestRecords
<1>10. CASE UNCHANGED vars
  <2>1. UNCHANGED <<status, heard, confirmed>>
    BY <1>10 DEF vars
  <2>2. \A m \in Messages : Underway(m)' <=> Underway(m)
    BY <1>10 DEF vars, Underway
  <2> QED
    BY <1>f, <2>1, <2>2, SameFate
<1> QED
  BY <1>1, <1>2, <1>3, <1>4, <1>5, <1>6, <1>7, <1>8, <1>9, <1>10
     DEF Next, ServerStep, PhoneStep

(* The phones and message.php, statement by statement and with everything  *)
(* that may fail, implement the abstract mailbox.                          *)
THEOREM MessagingImplementsMailbox == Spec => ImplementsMailbox
<1>1. RowsInv => FateReadOff
  BY FateLemma DEF RowsInv
<1>2. IInv => TypeOK
  BY DEF IInv
<1> QED
  BY InitBox, NextBox, <1>1, <1>2, Inductive, PTL DEF Spec, ImplementsMailbox, Box!Spec

=============================================================================
