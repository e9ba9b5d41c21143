------------------------------ MODULE Messaging ------------------------------
(***************************************************************************)
(* Text messages between users: the phones (ViewFriendsActivity.           *)
(* gotoMessage, MessageActivity.send_message and their AsyncTasks) and the *)
(* web service message.php on one table `message`.                         *)
(*                                                                         *)
(* A request of the service is a process of its own: it runs its SQL       *)
(* statements one by one, with no transaction around them, interleaved     *)
(* with the statements of every other request.  get_message is a SELECT of *)
(* the unread rows from the friend to the user, and, when there are any,   *)
(* an UPDATE that marks ALL rows of the pair as read.  A phone has one     *)
(* request under way (its progress dialog is modal); it may give up on it  *)
(* (SubUrls.PostData turns a failed connection into a text that is no      *)
(* JSON) while the service still works on it.  PostData sets no timeout:   *)
(* when the request, the server or the answer vanishes without a word, the *)
(* phone waits on.                                                         *)
(***************************************************************************)
EXTENDS Naturals, FiniteSets

CONSTANTS
  Users,       \* user ids
  Messages,    \* the messages that may be sent (the bound of the model)
  Requests,    \* the HTTP requests that may be made (the bound of the model)
  NoRequest    \* a phone that waits for nothing

(* A message has its columns msg_from and msg_to; n tells apart the        *)
(* messages of one pair.                                                   *)
ASSUME MessageAssumption == Messages \subseteq [from : Users, to : Users, n : Nat]
ASSUME RequestAssumption == NoRequest \notin Requests

VARIABLES
  status,      \* of each row: absent, unread (0) or read (1)
  req,         \* the requests and how far the service has got with them
  waiting,     \* the request each phone waits for
  heard,       \* the messages each phone has received and shows
  confirmed,   \* the messages whose sender was told "Message sent"
  overrun,     \* history: rows inserted between a SELECT and its UPDATE
  selected,    \* history: rows some SELECT has returned
  lostReply,   \* history: rows selected for an answer that vanished
  unmarked     \* history: selected rows whose UPDATE failed or never ran

vars == <<status, req, waiting, heard, confirmed, overrun, selected,
          lostReply, unmarked>>
history == <<overrun, selected, lostReply, unmarked>>

ReqPlaces == {"unused", "select", "update", "insert", "reply", "done", "lost"}

(* me is the user the request is made for, peer the friend, msgs the rows  *)
(* of the answer or the message to insert, ok whether status is 1.         *)
RequestRecords ==
  [pc : ReqPlaces, kind : {"get", "send"}, me : Users, peer : Users,
   msgs : SUBSET Messages, ok : BOOLEAN]

(* The table message and the requests have their types: a row is absent,
   unread or read. *)
TypeOK ==
  /\ status \in [Messages -> {"absent", "unread", "read"}]
  /\ req \in [Requests -> RequestRecords]
  /\ waiting \in [Users -> Requests \union {NoRequest}]
  /\ heard \in [Users -> SUBSET Messages]
  /\ confirmed \subseteq Messages
  /\ overrun \subseteq Messages
  /\ selected \subseteq Messages
  /\ lostReply \subseteq Messages
  /\ unmarked \subseteq Messages

Init ==
  /\ status = [m \in Messages |-> "absent"]
  /\ \E u \in Users :
       req = [r \in Requests |-> [pc |-> "unused", kind |-> "get", me |-> u,
                                  peer |-> u, msgs |-> {}, ok |-> FALSE]]
  /\ waiting = [u \in Users |-> NoRequest]
  /\ heard = [u \in Users |-> {}]
  /\ confirmed = {}
  /\ overrun = {}
  /\ selected = {}
  /\ lostReply = {}
  /\ unmarked = {}

(* The rows msg_from = f and msg_to = u of the table.                      *)
Rows(f, u) == {m \in Messages : status[m] # "absent" /\ m.from = f /\ m.to = u}

-----------------------------------------------------------------------------
(* The phones.                                                             *)

(* gotoMessage: ask for the messages of the selected friend.               *)
GotoMessage(u, f, r) ==
  /\ u # f
  /\ waiting[u] = NoRequest
  /\ req[r].pc = "unused"
  /\ req' = [req EXCEPT ![r] = [pc |-> "select", kind |-> "get", me |-> u,
                                peer |-> f, msgs |-> {}, ok |-> FALSE]]
  /\ waiting' = [waiting EXCEPT ![u] = r]
  /\ UNCHANGED <<status, heard, confirmed, history>>

(* onActivityResult: send the words the speech recognizer understood.      *)
SendMessage(m, r) ==
  LET u == m.from IN
  /\ waiting[u] = NoRequest
  /\ req[r].pc = "unused"
  /\ status[m] = "absent"
  /\ \A s \in Requests : req[s].kind = "send" => m \notin req[s].msgs
  /\ req' = [req EXCEPT ![r] = [pc |-> "insert", kind |-> "send", me |-> u,
                                peer |-> m.to, msgs |-> {m}, ok |-> FALSE]]
  /\ waiting' = [waiting EXCEPT ![u] = r]
  /\ UNCHANGED <<status, heard, confirmed, history>>

(* PostData fails (no connection, a broken answer) or the app dies: the    *)
(* task shows the error, and the answer will not be looked at.  The        *)
(* request may have vanished before or be still running.                   *)
GiveUp(u) ==
  /\ waiting[u] # NoRequest
  /\ waiting' = [waiting EXCEPT ![u] = NoRequest]
  /\ UNCHANGED <<status, req, heard, confirmed, history>>

(* Mutant: the dialog is dismissed only when the answer's status is 1.     *)
ReceiveReplyOnlyOk(u) ==
  LET r == waiting[u] IN
  /\ r # NoRequest
  /\ req[r].pc = "reply" /\ req[r].ok
  /\ req' = [req EXCEPT ![r].pc = "done"]
  /\ waiting' = [waiting EXCEPT ![u] = NoRequest]
  /\ heard' = [heard EXCEPT ![u] =
                 @ \union IF req[r].kind = "get" THEN req[r].msgs ELSE {}]
  /\ confirmed' = confirmed \union IF req[r].kind = "send" THEN req[r].msgs ELSE {}
  /\ UNCHANGED <<status, history>>

(* onPostExecute of the two tasks.  An answer without status (a failed     *)
(* SELECT prints an empty array) is no JSON object: an error is shown.     *)
(* The messages of a get_message answer are handed to MessageActivity,     *)
(* which speaks them when its speech engine is ready (not modelled).       *)
ReceiveReply(u) ==
  LET r == waiting[u] IN
  /\ r # NoRequest
  /\ req[r].pc = "reply"
  /\ req' = [req EXCEPT ![r].pc = "done"]
  /\ waiting' = [waiting EXCEPT ![u] = NoRequest]
  /\ heard' = [heard EXCEPT ![u] =
                 @ \union IF req[r].kind = "get" /\ req[r].ok THEN req[r].msgs ELSE {}]
  /\ confirmed' = confirmed \union
       IF req[r].kind = "send" /\ req[r].ok THEN req[r].msgs ELSE {}
  /\ UNCHANGED <<status, history>>

-----------------------------------------------------------------------------
(* message.php                                                             *)

(* Mutant: the rows are not fetched before the UPDATE.                      *)
SelectNothing(r) ==
  /\ req[r].pc = "select"
  /\ req' = [req EXCEPT ![r] = [@ EXCEPT !.pc = "update", !.ok = TRUE]]
  /\ UNCHANGED <<status, waiting, heard, confirmed, history>>

(* Mutant: the test status = 0 is missing.                                 *)
SelectAny(r) ==
  LET found == Rows(req[r].peer, req[r].me) IN
  /\ req[r].pc = "select"
  /\ req' = [req EXCEPT ![r] = [@ EXCEPT
                !.pc = IF found = {} THEN "reply" ELSE "update",
                !.msgs = found,
                !.ok = found # {}]]
  /\ selected' = selected \union found
  /\ UNCHANGED <<status, waiting, heard, confirmed, overrun, lostReply, unmarked>>

(* SELECT ... and status = 0; with no rows the UPDATE is skipped.          *)
SelectUnread(r) ==
  LET found == {m \in Rows(req[r].peer, req[r].me) : status[m] = "unread"} IN
  /\ req[r].pc = "select"
  /\ req' = [req EXCEPT ![r] = [@ EXCEPT
                !.pc = IF found = {} THEN "reply" ELSE "update",
                !.msgs = found,
                !.ok = found # {}]]
  /\ selected' = selected \union found
  /\ UNCHANGED <<status, waiting, heard, confirmed, overrun, lostReply, unmarked>>

(* Mutant: user and friend exchanged in the WHERE clause.                 *)
MarkReadSwapped(r) ==
  /\ req[r].pc = "update"
  /\ status' = [m \in Messages |->
                  IF m \in Rows(req[r].me, req[r].peer) THEN "read" ELSE status[m]]
  /\ req' = [req EXCEPT ![r].pc = "reply"]
  /\ UNCHANGED <<waiting, heard, confirmed, history>>

(* UPDATE message set status = 1 WHERE msg_from = ... and msg_to = ...     *)
MarkRead(r) ==
  /\ req[r].pc = "update"
  /\ status' = [m \in Messages |->
                  IF m \in Rows(req[r].peer, req[r].me) THEN "read" ELSE status[m]]
  /\ req' = [req EXCEPT ![r].pc = "reply"]
  /\ UNCHANGED <<waiting, heard, confirmed, history>>

(* INSERT INTO message ... status 0                                        *)
InsertMessage(r) ==
  /\ req[r].pc = "insert"
  /\ status' = [m \in Messages |-> IF m \in req[r].msgs THEN "unread" ELSE status[m]]
  /\ req' = [req EXCEPT ![r] = [@ EXCEPT !.pc = "reply", !.ok = TRUE]]
  /\ overrun' = overrun \union
       {m \in req[r].msgs : \E s \in Requests :
          req[s].pc = "update" /\ req[s].peer = m.from /\ req[s].me = m.to}
  /\ UNCHANGED <<waiting, heard, confirmed, selected, lostReply, unmarked>>

(* A statement of the request fails.  The SELECT and the INSERT are tested *)
(* (`if ($result)`), the UPDATE is not: its rows are returned regardless.  *)
StatementFails(r) ==
  /\ req[r].pc \in {"select", "update", "insert"}
  /\ req' = [req EXCEPT ![r] = [@ EXCEPT !.pc = "reply",
                                         !.ok = (req[r].pc = "update")]]
  /\ unmarked' = unmarked \union IF req[r].pc = "update" THEN req[r].msgs ELSE {}
  /\ UNCHANGED <<status, waiting, heard, confirmed, overrun, selected, lostReply>>

(* The request does not reach the service, or the server stops between two *)
(* statements, or the answer does not reach the phone, and nobody is told: *)
(* conn.getInputStream() and readLine() wait without a time limit.         *)
Vanish(r) ==
  /\ req[r].pc \in {"select", "update", "insert", "reply"}
  /\ req' = [req EXCEPT ![r].pc = "lost"]
  /\ lostReply' = lostReply \union IF req[r].kind = "get" THEN req[r].msgs ELSE {}
  /\ unmarked' = unmarked \union IF req[r].pc = "update" THEN req[r].msgs ELSE {}
  /\ UNCHANGED <<status, waiting, heard, confirmed, overrun, selected>>

-----------------------------------------------------------------------------
ServerStep ==
  \E r \in Requests : \/ SelectUnread(r) \/ MarkRead(r) \/ InsertMessage(r)
                      \/ StatementFails(r)

PhoneStep == \E u \in Users : ReceiveReply(u)

Next ==
  \/ \E u, f \in Users, r \in Requests : GotoMessage(u, f, r)
  \/ \E m \in Messages, r \in Requests : SendMessage(m, r)
  \/ \E u \in Users : GiveUp(u)
  \/ \E r \in Requests : Vanish(r)
  \/ ServerStep
  \/ PhoneStep

(* The web server finishes every request that does not vanish, and an      *)
(* answer that arrives is looked at.  Nothing obliges a connection to fail *)
(* (GiveUp) or to vanish.                                                  *)
Fairness == WF_vars(ServerStep) /\ WF_vars(PhoneStep)

Spec == Init /\ [][Next]_vars
FairSpec == Spec /\ Fairness

-----------------------------------------------------------------------------
(* Properties.                                                             *)

(* The rows an unfinished get_message request carries to its phone.        *)
Underway(m) ==
  \E r \in Requests : /\ req[r].pc \in {"update", "reply"}
                      /\ req[r].kind = "get"
                      /\ m \in req[r].msgs

(* A message marked as read has reached its recipient's phone, or is on    *)
(* its way in an answer, or went with an answer nobody received, or was    *)
(* inserted after a get_message SELECT and before its UPDATE: message.php  *)
(* and the two tasks lose a message in no other way.                       *)
ReadIsAccountedFor ==
  \A m \in Messages :
    status[m] = "read" =>
      m \in heard[m.to] \/ Underway(m) \/ m \in lostReply \/ m \in overrun

(* A SELECT returns a row that an earlier SELECT has returned, so that the *)
(* message may be announced twice, only while the earlier request has not  *)
(* yet done its UPDATE, or if an UPDATE has failed or was never reached.   *)
RepeatedOnlyIfOverlap ==
  [][\A r \in Requests :
       req[r].pc = "select" /\ req'[r].pc = "update" =>
         \A m \in req'[r].msgs \intersect selected :
           \/ m \in unmarked
           \/ \E s \in Requests : req[s].pc = "update" /\ m \in req[s].msgs]_vars

(* A row that is unread, or in an answer under way, can still be heard; a  *)
(* message that somebody else hears has a fate the mailbox does not know.  *)
Fate ==
  [m \in Messages |->
     IF \E u \in Users \ {m.to} : m \in heard[u] THEN "overheard"
     ELSE IF status[m] = "absent"                THEN "none"
     ELSE IF m \in heard[m.to]                   THEN "heard"
     ELSE IF status[m] = "unread" \/ Underway(m) THEN "waiting"
     ELSE "lost"]

Box == INSTANCE Mailbox WITH fate <- Fate, told <- confirmed

(* Requests interleaved statement by statement, failures and lost answers  *)
(* included, implement a mailbox: a message waits until its recipient      *)
(* hears it or it is lost; what is lost is lost for good and was never     *)
(* heard; one request loses or delivers messages of one pair of users      *)
(* only; nobody else hears them; and "Message sent" is only said of a      *)
(* message that is in the table.                                           *)
ImplementsMailbox == Box!Spec

(* A phone's progress dialog is dismissed in the end, whatever the answer  *)
(* is, unless the request or its answer vanished: then nothing but the end *)
(* of the connection or of the app dismisses it, since PostData sets no    *)
(* timeout and the dialog cannot be cancelled.                             *)
DialogClosesUnlessLost ==
  \A u \in Users, r \in Requests :
    waiting[u] = r ~> waiting[u] # r \/ req[r].pc = "lost"

=============================================================================
