------------------------------ MODULE Friends ------------------------------
(***************************************************************************)
(* Friends: AddFriendActivity and the list that MainActivity fetches, and  *)
(* the web service behind them, friend.php.                                *)
(*                                                                         *)
(* As in Messaging, a request is a process that runs its SQL statements    *)
(* one by one between those of the others; a phone waits for one request   *)
(* behind a modal dialog and may give up on it while the service works on. *)
(* The table friends has no key: send_friends_request inserts the pair     *)
(* whether or not it is there, and the status it inserts is read nowhere.  *)
(***************************************************************************)
EXTENDS Naturals, FiniteSets

CONSTANTS
  Users,       \* user ids with a phone
  Ids,         \* user ids that can be typed
  Logins,      \* how many rows user_login has for an id; nothing deletes one
  Requests,    \* the requests that may be made (the bound of the model)
  NoRequest    \* a phone that waits for nothing

ASSUME FriendsAssumption ==
  /\ Users \subseteq Ids /\ Logins \in [Ids -> Nat]
  /\ \A u \in Users : Logins[u] > 0
  /\ NoRequest \notin Requests

Pairs == Users \X Ids

VARIABLES
  req,         \* the requests and how far the service has got with them
  waiting,     \* the request each phone waits for
  friends,     \* the number of rows (blind_id, friend_id) of the table
  confirmed,   \* how often "Friends request send" was shown for a pair
  unheard,     \* history: rows whose answer reached nobody
  listed       \* how often each friend is on the list a phone has fetched

vars == <<req, waiting, friends, confirmed, unheard, listed>>

Nobody == [f \in Ids |-> 0]

(* friend is the id that was typed, list the rows of a friends_list answer, *)
(* ok whether its status is 1, known the friends confirmed when it was made. *)
RequestRecords ==
  [pc : {"unused", "friend", "self", "insert", "list", "reply", "done"},
   kind : {"request", "list"}, me : Users, friend : Ids,
   list : [Ids -> Nat], ok : BOOLEAN, known : SUBSET Ids]

(* The table friends and the requests have their types. *)
TypeOK ==
  /\ req \in [Requests -> RequestRecords]
  /\ waiting \in [Users -> Requests \union {NoRequest}]
  /\ friends \in [Pairs -> Nat]
  /\ confirmed \in [Pairs -> Nat]
  /\ unheard \in [Pairs -> Nat]
  /\ listed \in [Users -> [Ids -> Nat]]

Fresh(pc, kind, u, f) ==
  [pc |-> pc, kind |-> kind, me |-> u, friend |-> f, list |-> Nobody,
   ok |-> FALSE, known |-> {g \in Ids : confirmed[<<u, g>>] > 0}]

Init ==
  /\ \E u \in Users :
       req = [r \in Requests |->
                [pc |-> "unused", kind |-> "list", me |-> u, friend |-> u,
                 list |-> Nobody, ok |-> FALSE, known |-> {}]]
  /\ waiting = [u \in Users |-> NoRequest]
  /\ friends = [q \in Pairs |-> 0]
  /\ confirmed = [q \in Pairs |-> 0]
  /\ unheard = [q \in Pairs |-> 0]
  /\ listed = [u \in Users |-> Nobody]

-----------------------------------------------------------------------------
(* The phones. *)

Asks(u, r, record) ==
  /\ waiting[u] = NoRequest /\ req[r].pc = "unused"
  /\ req' = [req EXCEPT ![r] = record]
  /\ waiting' = [waiting EXCEPT ![u] = r]
  /\ UNCHANGED <<friends, confirmed, unheard, listed>>

(* btn_send_request.onClick, for any id that is not empty: the user's own,
   an unknown one, or one that was asked before. *)
SendRequest(u, f, r) == Asks(u, r, Fresh("friend", "request", u, f))

(* navigation(0) of MainActivity. *)
FetchFriends(u, r) == Asks(u, r, Fresh("list", "list", u, u))

(* PostData fails; the request may or may not have reached the service. *)
GiveUp(u) ==
  LET r == waiting[u] IN
  /\ r # NoRequest
  /\ waiting' = [waiting EXCEPT ![u] = NoRequest]
  /\ \/ UNCHANGED req
     \/ req[r].pc \in {"friend", "list"} /\ req' = [req EXCEPT ![r].pc = "done"]
  /\ UNCHANGED <<friends, confirmed, unheard, listed>>

(* Mutant: the message is shown whatever the status is. *)
ReceiveReplyUntested(u) ==
  LET r == waiting[u]
      q == <<u, req[r].friend>> IN
  /\ r # NoRequest /\ req[r].pc = "reply"
  /\ req' = [req EXCEPT ![r].pc = "done"]
  /\ waiting' = [waiting EXCEPT ![u] = NoRequest]
  /\ confirmed' = IF req[r].kind = "request" THEN [confirmed EXCEPT ![q] = @ + 1] ELSE confirmed
  /\ listed' = IF req[r].kind = "list" THEN [listed EXCEPT ![u] = req[r].list] ELSE listed
  /\ UNCHANGED <<friends, unheard>>

(* onPostExecute of SendFriendRequestExecuteTask and FriendListrExecuteTask. *)
ReceiveReply(u) ==
  LET r == waiting[u]
      q == <<u, req[r].friend>> IN
  /\ r # NoRequest /\ req[r].pc = "reply"
  /\ req' = [req EXCEPT ![r].pc = "done"]
  /\ waiting' = [waiting EXCEPT ![u] = NoRequest]
  /\ confirmed' = IF req[r].kind = "request" /\ req[r].ok
                    THEN [confirmed EXCEPT ![q] = @ + 1] ELSE confirmed
  /\ listed' = IF req[r].kind = "list" /\ req[r].ok
                 THEN [listed EXCEPT ![u] = req[r].list] ELSE listed
  /\ UNCHANGED <<friends, unheard>>

-----------------------------------------------------------------------------
(* friend.php: send_friends_request *)

Moves(r, pc) ==
  /\ req' = [req EXCEPT ![r].pc = pc]
  /\ UNCHANGED <<waiting, friends, confirmed, unheard, listed>>

(* SELECT ... WHERE user_id = friend_id: without a row, "user not exist!". *)
SelectFriend(r) ==
  /\ req[r].pc = "friend"
  /\ Moves(r, IF Logins[req[r].friend] = 0 THEN "reply" ELSE "self")

(* SELECT ... WHERE user_id = user_id, whose rows are not counted. *)
SelectSelf(r) == req[r].pc = "self" /\ Moves(r, "insert")

(* INSERT INTO friends *)
InsertFriend(r) ==
  /\ req[r].pc = "insert"
  /\ friends' = [friends EXCEPT ![<<req[r].me, req[r].friend>>] = @ + 1]
  /\ req' = [req EXCEPT ![r] = [@ EXCEPT !.pc = "reply", !.ok = TRUE]]
  /\ UNCHANGED <<waiting, confirmed, unheard, listed>>

(* Mutant: only friends whose status is 1, which nothing ever sets. *)
SelectFriendsAccepted(r) ==
  /\ req[r].pc = "list"
  /\ req' = [req EXCEPT ![r] = [@ EXCEPT !.pc = "reply", !.ok = TRUE]]
  /\ UNCHANGED <<waiting, friends, confirmed, unheard, listed>>

(* Mutant: a join without its ON clause. *)
SelectFriendsUnjoined(r) ==
  /\ req[r].pc = "list"
  /\ req' = [req EXCEPT ![r] = [@ EXCEPT !.pc = "reply", !.ok = TRUE,
               !.list = [f \in Ids |-> Logins[f] *
                           Cardinality({g \in Ids : friends[<<req[r].me, g>>] > 0})]]]
  /\ UNCHANGED <<waiting, friends, confirmed, unheard, listed>>

(* friends_list: the join has a row for every row of the friend in
   user_login and every row of the pair in friends. *)
SelectFriends(r) ==
  /\ req[r].pc = "list"
  /\ req' = [req EXCEPT ![r] = [@ EXCEPT !.pc = "reply", !.ok = TRUE,
               !.list = [f \in Ids |-> Logins[f] * friends[<<req[r].me, f>>]]]]
  /\ UNCHANGED <<waiting, friends, confirmed, unheard, listed>>

(* A statement fails: $json stays empty, or has status 0. *)
StatementFails(r) ==
  /\ req[r].pc \in {"friend", "self", "insert", "list"}
  /\ Moves(r, "reply")

(* The answer finds nobody waiting for it. *)
ReplyLost(r) ==
  /\ req[r].pc = "reply"
  /\ \A u \in Users : waiting[u] # r
  /\ req' = [req EXCEPT ![r].pc = "done"]
  /\ unheard' = IF req[r].kind = "request" /\ req[r].ok
                  THEN [unheard EXCEPT ![<<req[r].me, req[r].friend>>] = @ + 1]
                  ELSE unheard
  /\ UNCHANGED <<waiting, friends, confirmed, listed>>

-----------------------------------------------------------------------------
PhoneAsks ==
  \/ \E u \in Users, f \in Ids, r \in Requests : SendRequest(u, f, r)
  \/ \E u \in Users, r \in Requests : FetchFriends(u, r)
  \/ \E u \in Users : GiveUp(u)
PhoneHears == \E u \in Users : ReceiveReply(u)
ServerStep ==
  \E r \in Requests :
    \/ SelectFriend(r) \/ SelectSelf(r) \/ InsertFriend(r) \/ SelectFriends(r)
    \/ StatementFails(r) \/ ReplyLost(r)
Next == PhoneAsks \/ PhoneHears \/ ServerStep

Spec == Init /\ [][Next]_vars

-----------------------------------------------------------------------------
(* Answers that say a row was inserted and have not been looked at. *)
Underway(q) ==
  {r \in Requests : /\ req[r].pc = "reply" /\ req[r].kind = "request" /\ req[r].ok
                    /\ q = <<req[r].me, req[r].friend>>}

(* Every row of friends was confirmed to its user, is about to be, or its
   answer was lost: a retry after a lost answer is the only way to a second
   row that the user did not see confirmed, and a confirmation always stands
   for a row of its own. *)
RowsAccountedFor ==
  \A q \in Pairs : friends[q] = confirmed[q] + unheard[q] + Cardinality(Underway(q))

(* A friend is listed more than once only if the account was registered
   twice, or the request was stored twice. *)
ListedTwiceOnlyIfStoredTwice ==
  \A u \in Users, f \in Ids :
    listed[u][f] > 1 => Logins[f] > 1 \/ confirmed[<<u, f>>] + unheard[<<u, f>>]
                                           + Cardinality(Underway(<<u, f>>)) > 1

(* A list that arrives has every friend that was confirmed before it was
   asked for, whatever other requests are under way. *)
ConfirmedIsListed ==
  [][\A u \in Users, r \in Requests :
       /\ waiting[u] = r /\ req[r].kind = "list" /\ req[r].ok
       /\ req[r].pc = "reply" /\ req'[r].pc = "done"
       => \A f \in req[r].known : listed'[u][f] > 0]_vars
=============================================================================
