---------------------------- MODULE FriendsProofs ----------------------------
(***************************************************************************)
(* Machine-checked proofs about Friends, for any users, ids, numbers of    *)
(* logins and requests, whose statements interleave and fail in any way:   *)
(* what the rows of the table friends stand for, when a friend is listed   *)
(* twice, and that what was confirmed is listed.                           *)
(***************************************************************************)
EXTENDS Friends, FiniteSetTheorems, TLAPS

(* A phone waits only for a request of its own.                            *)
WaitsForOwn ==
  \A u \in Users : waiting[u] # NoRequest =>
    req[waiting[u]].me = u /\ req[waiting[u]].pc # "unused"

(* Which requests stand where; only an id with an account is inserted.     *)
PlaceInv ==
  \A r \in Requests :
    /\ req[r].pc \in {"friend", "self", "insert"} => req[r].kind = "request" /\ ~req[r].ok
    /\ req[r].pc = "list" => req[r].kind = "list" /\ ~req[r].ok
    /\ req[r].pc \in {"self", "insert"} => Logins[req[r].friend] > 0

(* What the rows of friends are: rows of accounts, finitely many of which  *)
(* have an answer under way.                                               *)
RowsInv ==
  \A q \in Pairs :
    /\ friends[q] > 0 => Logins[q[2]] > 0
    /\ IsFiniteSet(Underway(q))

(* An answer that lists friends has those that were confirmed when it was  *)
(* asked for, and has one twice only if it is stored twice.                *)
ListInv ==
  \A r \in Requests : req[r].kind = "list" =>
    /\ \A f \in req[r].known : friends[<<req[r].me, f>>] > 0
    /\ req[r].pc = "reply" /\ req[r].ok => \A f \in req[r].known : req[r].list[f] > 0
    /\ \A f \in Ids : req[r].list[f] > 1 => Logins[f] > 1 \/ friends[<<req[r].me, f>>] > 1

(* The lists the phones hold were answers.                                 *)
ListedInv ==
  \A u \in Users, f \in Ids : listed[u][f] > 1 => Logins[f] > 1 \/ friends[<<u, f>>] > 1

(* The inductive invariant: a confirmation or a list is worth a row only   *)
(* while the request that carries it is where the code put it.             *)
IInv ==
  /\ TypeOK /\ WaitsForOwn /\ PlaceInv /\ RowsInv /\ RowsAccountedFor
  /\ ListInv /\ ListedInv

-----------------------------------------------------------------------------
(* What a step does to the requests.                                       *)
OtherRequests(r) == \A s \in Requests \ {r} : req'[s] = req[s]
SameCall(r) ==
  /\ req'[r].kind = req[r].kind /\ req'[r].me = req[r].me
  /\ req'[r].friend = req[r].friend /\ req'[r].known = req[r].known

LEMMA MoveEffect ==
  ASSUME TypeOK, NEW r \in Requests,
         NEW pc \in {"self", "insert", "reply", "done"},
         req' = [req EXCEPT ![r].pc = pc]
  PROVE  /\ req' \in [Requests -> RequestRecords]
         /\ OtherRequests(r) /\ SameCall(r)
         /\ req'[r].pc = pc /\ req'[r].ok = req[r].ok /\ req'[r].list = req[r].list
<1>1. req[r] \in RequestRecords
  BY DEF TypeOK
<1> QED
  BY <1>1 DEF TypeOK, RequestRecords, OtherRequests, SameCall

LEMMA AskEffect ==
  ASSUME TypeOK, NEW u \in Users, NEW f \in Ids, NEW r \in Requests,
         NEW pc \in {"friend", "list"}, NEW kind \in {"request", "list"},
         Asks(u, r, Fresh(pc, kind, u, f))
  PROVE  /\ req' \in [Requests -> RequestRecords]
         /\ OtherRequests(r)
         /\ req'[r] = Fresh(pc, kind, u, f)
         /\ waiting' \in [Users -> Requests \union {NoRequest}]
         /\ waiting'[u] = r /\ \A v \in Users \ {u} : waiting'[v] = waiting[v]
         /\ req[r].pc = "unused"
         /\ UNCHANGED <<friends, confirmed, unheard, listed>>
<1>1. Nobody \in [Ids -> Nat]
  BY DEF Nobody
<1>2. Fresh(pc, kind, u, f) \in RequestRecords
  BY <1>1 DEF Fresh, RequestRecords
<1> QED
  BY <1>2 DEF Asks, TypeOK, OtherRequests

LEMMA InsertEffect ==
  ASSUME TypeOK, NEW r \in Requests, InsertFriend(r)
  PROVE  LET q == <<req[r].me, req[r].friend>> IN
         /\ req' \in [Requests -> RequestRecords]
         /\ OtherRequests(r) /\ SameCall(r) /\ req'[r].list = req[r].list
         /\ req[r].pc = "insert" /\ req'[r].pc = "reply" /\ req'[r].ok
         /\ q \in Pairs /\ friends' \in [Pairs -> Nat]
         /\ friends'[q] = friends[q] + 1
         /\ \A o \in Pairs \ {q} : friends'[o] = friends[o]
<1>1. req[r] \in RequestRecords
  BY DEF TypeOK
<1>2. <<req[r].me, req[r].friend>> \in Pairs
  BY <1>1 DEF RequestRecords, Pairs
<1>3. req' = [req EXCEPT ![r] = [req[r] EXCEPT !.pc = "reply", !.ok = TRUE]]
  BY DEF InsertFriend, TypeOK
<1>4. /\ req' \in [Requests -> RequestRecords]
      /\ OtherRequests(r) /\ SameCall(r) /\ req'[r].list = req[r].list
      /\ req'[r].pc = "reply" /\ req'[r].ok
  BY <1>1, <1>3 DEF TypeOK, RequestRecords, OtherRequests, SameCall
<1> QED
  BY <1>2, <1>4 DEF InsertFriend, TypeOK

LEMMA ListEffect ==
  ASSUME TypeOK, NEW r \in Requests, SelectFriends(r)
  PROVE  /\ req' \in [Requests -> RequestRecords]
         /\ OtherRequests(r) /\ SameCall(r)
         /\ req[r].pc = "list" /\ req'[r].pc = "reply" /\ req'[r].ok
         /\ \A f \in Ids : req'[r].list[f] = Logins[f] * friends[<<req[r].me, f>>]
<1> DEFINE l == [f \in Ids |-> Logins[f] * friends[<<req[r].me, f>>]]
<1>1. req[r] \in RequestRecords
  BY DEF TypeOK
<1>2. \A f \in Ids : <<req[r].me, f>> \in Pairs
  BY <1>1 DEF RequestRecords, Pairs
<1>3. \A f \in Ids : Logins[f] \in Nat /\ friends[<<req[r].me, f>>] \in Nat
  BY <1>2, FriendsAssumption DEF TypeOK
<1>4. l \in [Ids -> Nat]
  BY <1>3
<1>5. req' = [req EXCEPT ![r] = [req[r] EXCEPT !.pc = "reply", !.ok = TRUE, !.list = l]]
  BY DEF SelectFriends, TypeOK
<1> HIDE DEF l
<1>6. /\ req' \in [Requests -> RequestRecords]
      /\ OtherRequests(r) /\ SameCall(r)
      /\ req'[r].pc = "reply" /\ req'[r].ok /\ req'[r].list = l
  BY <1>1, <1>4, <1>5 DEF TypeOK, RequestRecords, OtherRequests, SameCall
<1> QED
  BY <1>6 DEF SelectFriends, l

-----------------------------------------------------------------------------
(* The answers under way.                                                  *)
Owed(r) == req[r].pc = "reply" /\ req[r].kind = "request" /\ req[r].ok

LEMMA UnderwaySame ==
  ASSUME NEW r \in Requests, OtherRequests(r), ~Owed(r), ~Owed(r)'
  PROVE  \A q \in Pairs : Underway(q)' = Underway(q)
BY DEF OtherRequests, Owed, Underway

LEMMA UnderwayMore ==
  ASSUME NEW r \in Requests, OtherRequests(r), SameCall(r), ~Owed(r), Owed(r)'
  PROVE  \A q \in Pairs :
           IF q = <<req[r].me, req[r].friend>>
             THEN r \notin Underway(q) /\ Underway(q)' = Underway(q) \union {r}
             ELSE Underway(q)' = Underway(q)
BY DEF OtherRequests, SameCall, Owed, Underway

LEMMA UnderwayLess ==
  ASSUME NEW r \in Requests, OtherRequests(r), SameCall(r), Owed(r), ~Owed(r)'
  PROVE  \A q \in Pairs :
           IF q = <<req[r].me, req[r].friend>>
             THEN r \in Underway(q) /\ Underway(q)' = Underway(q) \ {r}
             ELSE Underway(q)' = Underway(q)
BY DEF OtherRequests, SameCall, Owed, Underway

(* A step that leaves the table and the answers under way alone.           *)
LEMMA RowsStay ==
  ASSUME RowsInv, RowsAccountedFor, UNCHANGED <<friends, confirmed, unheard>>,
         \A q \in Pairs : Underway(q)' = Underway(q)
  PROVE  RowsInv' /\ RowsAccountedFor'
BY DEF RowsInv, RowsAccountedFor

(* A step that shows, or loses, the answer to a request.                   *)
LEMMA RowsCounted ==
  ASSUME TypeOK, RowsInv, RowsAccountedFor, NEW r \in Requests,
         OtherRequests(r), SameCall(r), Owed(r), ~Owed(r)',
         UNCHANGED friends,
         LET q == <<req[r].me, req[r].friend>> IN
           \/ confirmed' = [confirmed EXCEPT ![q] = @ + 1] /\ UNCHANGED unheard
           \/ unheard' = [unheard EXCEPT ![q] = @ + 1] /\ UNCHANGED confirmed
  PROVE  RowsInv' /\ RowsAccountedFor'
<1>0. <<req[r].me, req[r].friend>> \in Pairs
  BY DEF TypeOK, RequestRecords, Pairs
<1>1. PICK q \in Pairs : q = <<req[r].me, req[r].friend>>
  BY <1>0
<1>2. \A o \in Pairs : /\ IsFiniteSet(Underway(o))
                       /\ friends[o] \in Nat /\ confirmed[o] \in Nat /\ unheard[o] \in Nat
                       /\ friends[o] = confirmed[o] + unheard[o] + Cardinality(Underway(o))
  BY DEF RowsInv, RowsAccountedFor, TypeOK
<1>3. /\ r \in Underway(q) /\ Underway(q)' = Underway(q) \ {r}
      /\ \A o \in Pairs \ {q} : Underway(o)' = Underway(o)
  BY <1>1, UnderwayLess
<1>4. /\ IsFiniteSet(Underway(q)') /\ Cardinality(Underway(q)') = Cardinality(Underway(q)) - 1
      /\ Cardinality(Underway(q)) \in Nat
  BY <1>1, <1>2, <1>3, FS_RemoveElement, FS_CardinalityType
<1>5. /\ confirmed'[q] + unheard'[q] = confirmed[q] + unheard[q] + 1
      /\ \A o \in Pairs \ {q} : confirmed'[o] = confirmed[o] /\ unheard'[o] = unheard[o]
  BY <1>1, <1>2 DEF TypeOK
<1>6. confirmed'[q] \in Nat /\ unheard'[q] \in Nat
  BY <1>1, <1>2 DEF TypeOK
<1>7. RowsInv'
  BY <1>2, <1>3, <1>4 DEF RowsInv
<1>8. friends'[q] = confirmed'[q] + unheard'[q] + Cardinality(Underway(q)')
  <2>1. /\ friends'[q] = confirmed[q] + unheard[q] + Cardinality(Underway(q))
        /\ confirmed[q] \in Nat /\ unheard[q] \in Nat
    BY <1>2
  <2> QED
    BY <2>1, <1>4, <1>5, <1>6
<1>9. \A o \in Pairs \ {q} : friends'[o] = confirmed'[o] + unheard'[o] + Cardinality(Underway(o)')
  BY <1>2, <1>3, <1>5
<1>10. RowsAccountedFor'
  BY <1>8, <1>9 DEF RowsAccountedFor
<1> QED
  BY <1>7, <1>10

LEMMA RowsInserted ==
  ASSUME TypeOK, RowsInv, RowsAccountedFor, PlaceInv, NEW r \in Requests, InsertFriend(r)
  PROVE  RowsInv' /\ RowsAccountedFor'
<1>0. <<req[r].me, req[r].friend>> \in Pairs
  BY InsertEffect
<1>q. PICK q \in Pairs : q = <<req[r].me, req[r].friend>>
  BY <1>0
<1>1. /\ OtherRequests(r) /\ SameCall(r)
      /\ req[r].pc = "insert" /\ req'[r].pc = "reply" /\ req'[r].ok
      /\ friends'[q] = friends[q] + 1
      /\ \A o \in Pairs \ {q} : friends'[o] = friends[o]
  BY <1>q, InsertEffect
<1>2. ~Owed(r) /\ Owed(r)'
  BY <1>1 DEF PlaceInv, SameCall, Owed
<1>3. \A o \in Pairs : /\ IsFiniteSet(Underway(o))
                       /\ friends[o] \in Nat /\ confirmed[o] \in Nat /\ unheard[o] \in Nat
                       /\ friends[o] = confirmed[o] + unheard[o] + Cardinality(Underway(o))
  BY DEF RowsInv, RowsAccountedFor, TypeOK
<1>4. /\ r \notin Underway(q) /\ Underway(q)' = Underway(q) \union {r}
      /\ \A o \in Pairs \ {q} : Underway(o)' = Underway(o)
  BY <1>q, <1>1, <1>2, UnderwayMore
<1>5. /\ IsFiniteSet(Underway(q)') /\ Cardinality(Underway(q)') = Cardinality(Underway(q)) + 1
      /\ Cardinality(Underway(q)) \in Nat
  BY <1>1, <1>3, <1>4, FS_AddElement, FS_CardinalityType
<1>6. Logins[q[2]] > 0
  BY <1>q, <1>1 DEF PlaceInv
<1>7. UNCHANGED <<confirmed, unheard>>
  BY DEF InsertFriend
<1>8. RowsInv'
  BY <1>1, <1>3, <1>4, <1>5, <1>6 DEF RowsInv
<1>9. friends'[q] = confirmed'[q] + unheard'[q] + Cardinality(Underway(q)')
  BY <1>1, <1>3, <1>5, <1>7
<1>10. \A o \in Pairs \ {q} : friends'[o] = confirmed'[o] + unheard'[o] + Cardinality(Underway(o)')
  BY <1>1, <1>3, <1>4, <1>7
<1>11. RowsAccountedFor'
  BY <1>9, <1>10 DEF RowsAccountedFor
<1> QED
  BY <1>8, <1>11

-----------------------------------------------------------------------------
(* The lists: a step that answers no friends_list.                         *)
LEMMA ListsStay ==
  ASSUME TypeOK, ListInv, ListedInv, friends' \in [Pairs -> Nat],
         NEW r \in Requests, OtherRequests(r), SameCall(r), req'[r].list = req[r].list,
         req[r].kind = "list" /\ req'[r].pc = "reply" => ~req'[r].ok,
         \A q \in Pairs : friends'[q] >= friends[q],
         UNCHANGED listed
  PROVE  ListInv' /\ ListedInv'
<1>1. \A s \in Requests :
        req[s].known \subseteq Ids /\ \A f \in Ids : <<req[s].me, f>> \in Pairs
  BY DEF TypeOK, RequestRecords, Pairs
<1>2. \A s \in Requests :
        /\ req'[s].kind = req[s].kind /\ req'[s].me = req[s].me
        /\ req'[s].known = req[s].known /\ req'[s].list = req[s].list
        /\ req[s].kind = "list" /\ req'[s].pc = "reply" /\ req'[s].ok
             => req[s].pc = "reply" /\ req[s].ok
  BY DEF OtherRequests, SameCall
<1>3. \A q \in Pairs : friends[q] \in Nat /\ friends'[q] \in Nat /\ friends'[q] >= friends[q]
  BY DEF TypeOK
<1>4. ASSUME NEW s \in Requests, req'[s].kind = "list"
      PROVE  /\ \A f \in req'[s].known : friends'[<<req'[s].me, f>>] > 0
             /\ req'[s].pc = "reply" /\ req'[s].ok =>
                  \A f \in req'[s].known : req'[s].list[f] > 0
             /\ \A f \in Ids : req'[s].list[f] > 1 =>
                  Logins[f] > 1 \/ friends'[<<req'[s].me, f>>] > 1
  <2>1. /\ \A f \in req[s].known : friends[<<req[s].me, f>>] > 0
        /\ req[s].pc = "reply" /\ req[s].ok =>
             \A f \in req[s].known : req[s].list[f] > 0
        /\ \A f \in Ids : req[s].list[f] > 1 =>
             Logins[f] > 1 \/ friends[<<req[s].me, f>>] > 1
    BY <1>2, <1>4 DEF ListInv
  <2>2. \A f \in req[s].known : friends'[<<req[s].me, f>>] > 0
    BY <2>1, <1>1, <1>3
  <2>3. \A f \in Ids : friends[<<req[s].me, f>>] > 1 => friends'[<<req[s].me, f>>] > 1
    BY <1>1, <1>3
  <2>4. /\ req'[s].me = req[s].me /\ req'[s].known = req[s].known
        /\ req'[s].list = req[s].list
        /\ req'[s].pc = "reply" /\ req'[s].ok => req[s].pc = "reply" /\ req[s].ok
    BY <1>2, <1>4
  <2>5. \A f \in req'[s].known : friends'[<<req'[s].me, f>>] > 0
    BY <2>2, <2>4
  <2>6. req'[s].pc = "reply" /\ req'[s].ok => \A f \in req'[s].known : req'[s].list[f] > 0
    BY <2>1, <2>4
  <2>7. \A f \in Ids : req'[s].list[f] > 1 =>
          Logins[f] > 1 \/ friends'[<<req'[s].me, f>>] > 1
    BY <2>1, <2>3, <2>4
  <2> QED
    BY <2>5, <2>6, <2>7
<1>5. ListInv'
  BY <1>4 DEF ListInv
<1>6. ListedInv'
  <2>1. \A u \in Users, f \in Ids : <<u, f>> \in Pairs
    BY DEF Pairs
  <2>2. \A u \in Users, f \in Ids : friends[<<u, f>>] > 1 => friends'[<<u, f>>] > 1
    BY <2>1, <1>3
  <2> QED
    BY <2>2 DEF ListedInv
<1> QED
  BY <1>5, <1>6

-----------------------------------------------------------------------------
(* The phones' steps.                                                      *)
LEMMA AskStep ==
  ASSUME IInv, NEW u \in Users, NEW f \in Ids, NEW r \in Requests,
         NEW pc \in {"friend", "list"}, NEW kind \in {"request", "list"},
         pc = "friend" <=> kind = "request",
         Asks(u, r, Fresh(pc, kind, u, f))
  PROVE  IInv'
<1>0. TypeOK /\ WaitsForOwn /\ PlaceInv /\ RowsInv /\ RowsAccountedFor /\ ListInv /\ ListedInv
  BY DEF IInv
<1>1. /\ req' \in [Requests -> RequestRecords] /\ OtherRequests(r)
      /\ req'[r] = Fresh(pc, kind, u, f)
      /\ waiting' \in [Users -> Requests \union {NoRequest}]
      /\ waiting'[u] = r /\ \A v \in Users \ {u} : waiting'[v] = waiting[v]
      /\ req[r].pc = "unused"
      /\ UNCHANGED <<friends, confirmed, unheard, listed>>
  BY <1>0, AskEffect
<1>2. /\ req'[r].pc = pc /\ req'[r].kind = kind /\ req'[r].me = u /\ ~req'[r].ok
      /\ req'[r].known = {g \in Ids : confirmed[<<u, g>>] > 0}
      /\ req'[r].list = [g \in Ids |-> 0]
  BY <1>1 DEF Fresh, Nobody
<1>3. TypeOK'
  BY <1>0, <1>1 DEF TypeOK
<1>4. WaitsForOwn'
  <2>1. ASSUME NEW v \in Users \ {u}, waiting[v] # NoRequest
        PROVE  waiting[v] \in Requests \ {r}
    BY <2>1, <1>0, <1>1 DEF WaitsForOwn, TypeOK
  <2> QED
    BY <2>1, <1>0, <1>1, <1>2 DEF WaitsForOwn, OtherRequests
<1>5. PlaceInv'
  BY <1>0, <1>1, <1>2 DEF PlaceInv, OtherRequests
<1>6. RowsInv' /\ RowsAccountedFor'
  <2>1. ~Owed(r) /\ ~Owed(r)'
    BY <1>1, <1>2 DEF Owed
  <2> QED
    BY <2>1, <1>0, <1>1, UnderwaySame, RowsStay
<1>7. \A g \in req'[r].known : friends[<<u, g>>] > 0
  <2> TAKE g \in req'[r].known
  <2>1. <<u, g>> \in Pairs /\ confirmed[<<u, g>>] > 0
    BY <1>2 DEF Pairs
  <2>2. PICK q \in Pairs : q = <<u, g>>
    BY <2>1
  <2>3. /\ friends[q] = confirmed[q] + unheard[q] + Cardinality(Underway(q))
        /\ Cardinality(Underway(q)) \in Nat /\ confirmed[q] \in Nat /\ unheard[q] \in Nat
    BY <1>0, FS_CardinalityType DEF RowsAccountedFor, RowsInv, TypeOK
  <2>4. confirmed[q] > 0
    BY <2>1, <2>2
  <2>5. friends[q] > 0
    BY <2>3, <2>4
  <2> QED
    BY <2>2, <2>5
<1>8. ListInv'
  BY <1>0, <1>1, <1>2, <1>7 DEF ListInv, OtherRequests
<1>9. ListedInv'
  BY <1>0, <1>1 DEF ListedInv
<1> QED
  BY <1>3, <1>4, <1>5, <1>6, <1>8, <1>9 DEF IInv

(* A request that goes on keeps its phone; a phone may stop waiting.       *)
LEMMA WaitsStay ==
  ASSUME TypeOK, WaitsForOwn, NEW r \in Requests, OtherRequests(r), SameCall(r),
         req'[r].pc # "unused",
         waiting' = waiting \/ \E u \in Users : waiting' = [waiting EXCEPT ![u] = NoRequest]
  PROVE  /\ WaitsForOwn'
         /\ waiting' \in [Users -> Requests \union {NoRequest}]
<1>1. waiting' \in [Users -> Requests \union {NoRequest}]
  BY DEF TypeOK
<1>2. \A v \in Users : waiting'[v] # NoRequest => waiting'[v] = waiting[v] /\ waiting[v] \in Requests
  BY DEF TypeOK
<1>3. \A s \in Requests : req'[s].me = req[s].me /\ (req[s].pc # "unused" => req'[s].pc # "unused")
  BY DEF OtherRequests, SameCall
<1> QED
  BY <1>1, <1>2, <1>3 DEF WaitsForOwn

(* A request that goes on without touching the table.                      *)
LEMMA MoveStep ==
  ASSUME IInv, NEW r \in Requests,
         NEW pc \in {"self", "insert", "reply", "done"},
         req[r].pc \in {"friend", "self", "insert", "list"},
         req' = [req EXCEPT ![r].pc = pc],
         pc \in {"self", "insert"} =>
           req[r].pc \in {"friend", "self"} /\ Logins[req[r].friend] > 0,
         waiting' = waiting \/ \E u \in Users : waiting' = [waiting EXCEPT ![u] = NoRequest],
         UNCHANGED <<friends, confirmed, unheard, listed>>
  PROVE  IInv'
<1>0. TypeOK /\ WaitsForOwn /\ PlaceInv /\ RowsInv /\ RowsAccountedFor /\ ListInv /\ ListedInv
  BY DEF IInv
<1>1. /\ req' \in [Requests -> RequestRecords]
      /\ OtherRequests(r) /\ SameCall(r)
      /\ req'[r].pc = pc /\ req'[r].ok = req[r].ok /\ req'[r].list = req[r].list
  BY <1>0, MoveEffect
<1>2. ~req[r].ok
  BY <1>0 DEF PlaceInv
<1>3. WaitsForOwn' /\ waiting' \in [Users -> Requests \union {NoRequest}]
  BY <1>0, <1>1, WaitsStay
<1>4. TypeOK'
  BY <1>0, <1>1, <1>3 DEF TypeOK
<1>5. PlaceInv'
  BY <1>0, <1>1 DEF PlaceInv, OtherRequests, SameCall
<1>6. RowsInv' /\ RowsAccountedFor'
  <2>1. ~Owed(r) /\ ~Owed(r)'
    BY <1>1, <1>2 DEF Owed
  <2> QED
    BY <2>1, <1>0, <1>1, UnderwaySame, RowsStay
<1>7. ListInv' /\ ListedInv'
  <2>1. friends' \in [Pairs -> Nat] /\ \A q \in Pairs : friends'[q] >= friends[q]
    BY <1>0 DEF TypeOK
  <2> QED
    BY <2>1, <1>0, <1>1, <1>2, ListsStay
<1> QED
  BY <1>3, <1>4, <1>5, <1>6, <1>7 DEF IInv

LEMMA GiveUpStep ==
  ASSUME IInv, NEW u \in Users, GiveUp(u)
  PROVE  IInv'
<1>0. TypeOK /\ waiting[u] \in Requests
  BY DEF IInv, GiveUp, TypeOK
<1>1. CASE UNCHANGED req
  <2>1. UNCHANGED <<req, friends, confirmed, unheard, listed>>
        /\ waiting' = [waiting EXCEPT ![u] = NoRequest]
    BY <1>1 DEF GiveUp
  <2>2. TypeOK' /\ WaitsForOwn'
    BY <2>1 DEF IInv, TypeOK, WaitsForOwn
  <2>3. \A q \in Pairs : Underway(q)' = Underway(q)
    BY <2>1 DEF Underway
  <2>4. RowsInv' /\ RowsAccountedFor'
    BY <2>1, <2>3, RowsStay DEF IInv
  <2>5. PlaceInv' /\ ListInv' /\ ListedInv'
    BY <2>1 DEF IInv, PlaceInv, ListInv, ListedInv
  <2> QED
    BY <2>2, <2>4, <2>5 DEF IInv
<1>2. CASE ~UNCHANGED req
  <2> PICK r \in Requests : r = waiting[u]
    BY <1>0
  <2>1. /\ req[r].pc \in {"friend", "list"} /\ req' = [req EXCEPT ![r].pc = "done"]
        /\ waiting' = [waiting EXCEPT ![u] = NoRequest]
        /\ UNCHANGED <<friends, confirmed, unheard, listed>>
    BY <1>2 DEF GiveUp
  <2> QED
    BY <2>1, MoveStep
<1> QED
  BY <1>1, <1>2

LEMMA SelectStep ==
  ASSUME IInv, NEW r \in Requests, SelectFriend(r) \/ SelectSelf(r) \/ StatementFails(r)
  PROVE  IInv'
<1>0. Logins[req[r].friend] \in Nat
  BY FriendsAssumption DEF IInv, TypeOK, RequestRecords
<1>1. CASE SelectFriend(r)
  <2>1. PICK pc \in {"reply", "self"} :
          /\ req[r].pc = "friend" /\ Moves(r, pc)
          /\ pc = "self" => Logins[req[r].friend] > 0
    <3>1. CASE Logins[req[r].friend] = 0
      BY <1>1, <3>1 DEF SelectFriend
    <3>2. CASE Logins[req[r].friend] > 0
      BY <1>1, <3>2 DEF SelectFriend
    <3> QED
      BY <1>0, <3>1, <3>2
  <2> QED
    BY <2>1, MoveStep DEF Moves
<1>2. CASE SelectSelf(r)
  BY <1>2, MoveStep DEF SelectSelf, Moves, IInv, PlaceInv
<1>3. CASE StatementFails(r)
  BY <1>3, MoveStep DEF StatementFails, Moves
<1> QED
  BY <1>1, <1>2, <1>3

-----------------------------------------------------------------------------
(* The statements that write or read the table, and the answers.           *)
LEMMA InsertStep ==
  ASSUME IInv, NEW r \in Requests, InsertFriend(r)
  PROVE  IInv'
<1>0. TypeOK /\ WaitsForOwn /\ PlaceInv /\ RowsInv /\ RowsAccountedFor /\ ListInv /\ ListedInv
  BY DEF IInv
<1>1. /\ req' \in [Requests -> RequestRecords]
      /\ OtherRequests(r) /\ SameCall(r) /\ req'[r].list = req[r].list
      /\ req[r].pc = "insert" /\ req'[r].pc = "reply" /\ req'[r].ok
      /\ friends' \in [Pairs -> Nat]
  BY <1>0, InsertEffect
<1>2. \A q \in Pairs : friends'[q] >= friends[q]
  <2>1. \A q \in Pairs : friends[q] \in Nat /\ friends'[q] \in {friends[q], friends[q] + 1}
    BY <1>0, InsertEffect DEF TypeOK
  <2> QED
    BY <2>1
<1>3. UNCHANGED <<waiting, confirmed, unheard, listed>>
  BY DEF InsertFriend
<1>4. WaitsForOwn' /\ waiting' \in [Users -> Requests \union {NoRequest}]
  BY <1>0, <1>1, <1>3, WaitsStay
<1>5. TypeOK'
  BY <1>0, <1>1, <1>3 DEF TypeOK
<1>6. PlaceInv'
  BY <1>0, <1>1 DEF PlaceInv, OtherRequests, SameCall
<1>7. RowsInv' /\ RowsAccountedFor'
  BY <1>0, RowsInserted
<1>8. ListInv' /\ ListedInv'
  <2>1. req[r].kind = "request"
    BY <1>0, <1>1 DEF PlaceInv
  <2> QED
    BY <2>1, <1>0, <1>1, <1>2, <1>3, ListsStay
<1> QED
  BY <1>4, <1>5, <1>6, <1>7, <1>8 DEF IInv

(* What a product of numbers of rows says.                                 *)
LEMMA Product ==
  ASSUME NEW a \in Nat, NEW b \in Nat
  PROVE  /\ a > 0 /\ b > 0 => a * b > 0
         /\ a * b > 1 => a > 1 \/ b > 1
<1>1. a = 0 => a * b = 0
  OBVIOUS
<1>2. a = 1 => a * b = b
  OBVIOUS
<1> QED
  BY <1>1, <1>2

LEMMA ListStep ==
  ASSUME IInv, NEW r \in Requests, SelectFriends(r)
  PROVE  IInv'
<1>0. TypeOK /\ WaitsForOwn /\ PlaceInv /\ RowsInv /\ RowsAccountedFor /\ ListInv /\ ListedInv
  BY DEF IInv
<1>1. /\ req' \in [Requests -> RequestRecords]
      /\ OtherRequests(r) /\ SameCall(r)
      /\ req[r].pc = "list" /\ req'[r].pc = "reply" /\ req'[r].ok
      /\ \A f \in Ids : req'[r].list[f] = Logins[f] * friends[<<req[r].me, f>>]
  BY <1>0, ListEffect
<1>2. UNCHANGED <<waiting, friends, confirmed, unheard, listed>> /\ req[r].kind = "list"
  BY <1>0, <1>1 DEF SelectFriends, PlaceInv
<1>3. WaitsForOwn'
  BY <1>0, <1>1, <1>2, WaitsStay
<1>4. TypeOK'
  BY <1>0, <1>1, <1>2 DEF TypeOK
<1>5. PlaceInv'
  BY <1>0, <1>1 DEF PlaceInv, OtherRequests, SameCall
<1>6. RowsInv' /\ RowsAccountedFor'
  <2>1. ~Owed(r) /\ ~Owed(r)'
    BY <1>1, <1>2 DEF Owed, SameCall
  <2> QED
    BY <2>1, <1>0, <1>1, <1>2, UnderwaySame, RowsStay
<1>7. ListInv'
  <2>1. /\ req[r].known \subseteq Ids
        /\ \A f \in Ids : <<req[r].me, f>> \in Pairs
        /\ \A f \in req[r].known : friends[<<req[r].me, f>>] > 0
    BY <1>0, <1>2 DEF TypeOK, RequestRecords, Pairs, ListInv
  <2>2. \A f \in Ids : Logins[f] \in Nat /\ friends[<<req[r].me, f>>] \in Nat
    BY <2>1, <1>0, FriendsAssumption DEF TypeOK
  <2>3. \A f \in req[r].known : Logins[f] > 0
    <3> TAKE f \in req[r].known
    <3>1. PICK q \in Pairs : q = <<req[r].me, f>>
      BY <2>1
    <3>2. friends[q] > 0 /\ q[2] = f
      BY <2>1, <3>1
    <3> QED
      BY <3>2, <1>0 DEF RowsInv
  <2>4. \A f \in req[r].known : req'[r].list[f] > 0
    BY <2>1, <2>2, <2>3, <1>1, Product
  <2>5. \A f \in Ids : req'[r].list[f] > 1 => Logins[f] > 1 \/ friends[<<req[r].me, f>>] > 1
    BY <2>2, <1>1, Product
  <2> QED
    BY <2>1, <2>4, <2>5, <1>0, <1>1, <1>2 DEF ListInv, OtherRequests, SameCall
<1>8. ListedInv'
  BY <1>0, <1>2 DEF ListedInv
<1> QED
  BY <1>3, <1>4, <1>5, <1>6, <1>7, <1>8 DEF IInv

(* An answer is heard, or finds nobody waiting for it.                     *)
LEMMA AnswerStep ==
  ASSUME IInv, NEW r \in Requests, req[r].pc = "reply",
         req' = [req EXCEPT ![r].pc = "done"],
         waiting' = waiting \/ \E u \in Users : waiting' = [waiting EXCEPT ![u] = NoRequest],
         UNCHANGED friends,
         IF req[r].kind = "request" /\ req[r].ok
           THEN LET q == <<req[r].me, req[r].friend>> IN
                \/ confirmed' = [confirmed EXCEPT ![q] = @ + 1] /\ UNCHANGED unheard
                \/ unheard' = [unheard EXCEPT ![q] = @ + 1] /\ UNCHANGED confirmed
           ELSE UNCHANGED <<confirmed, unheard>>,
         \/ UNCHANGED listed
         \/ req[r].kind = "list" /\ listed' = [listed EXCEPT ![req[r].me] = req[r].list]
  PROVE  IInv'
<1>0. TypeOK /\ WaitsForOwn /\ PlaceInv /\ RowsInv /\ RowsAccountedFor /\ ListInv /\ ListedInv
  BY DEF IInv
<1>1. /\ req' \in [Requests -> RequestRecords]
      /\ OtherRequests(r) /\ SameCall(r)
      /\ req'[r].pc = "done" /\ req'[r].ok = req[r].ok /\ req'[r].list = req[r].list
  BY <1>0, MoveEffect
<1>2. /\ req[r].me \in Users /\ req[r].list \in [Ids -> Nat]
      /\ <<req[r].me, req[r].friend>> \in Pairs
  BY <1>0 DEF TypeOK, RequestRecords, Pairs
<1>3. WaitsForOwn' /\ waiting' \in [Users -> Requests \union {NoRequest}]
  BY <1>0, <1>1, WaitsStay
<1>4. confirmed' \in [Pairs -> Nat] /\ unheard' \in [Pairs -> Nat]
  <2>1. PICK q \in Pairs : q = <<req[r].me, req[r].friend>>
    BY <1>2
  <2>2. \/ confirmed' = [confirmed EXCEPT ![q] = @ + 1] /\ UNCHANGED unheard
        \/ unheard' = [unheard EXCEPT ![q] = @ + 1] /\ UNCHANGED confirmed
        \/ UNCHANGED <<confirmed, unheard>>
    BY <2>1
  <2>3. confirmed \in [Pairs -> Nat] /\ unheard \in [Pairs -> Nat]
    BY <1>0 DEF TypeOK
  <2> QED
    BY <2>2, <2>3
<1>5. listed' \in [Users -> [Ids -> Nat]]
  BY <1>0, <1>2 DEF TypeOK
<1>6. TypeOK'
  BY <1>0, <1>1, <1>3, <1>4, <1>5 DEF TypeOK
<1>7. PlaceInv'
  BY <1>0, <1>1 DEF PlaceInv, OtherRequests, SameCall
<1>8. RowsInv' /\ RowsAccountedFor'
  <2>1. ~Owed(r)'
    BY <1>1 DEF Owed
  <2>2. CASE Owed(r)
    BY <2>1, <2>2, <1>0, <1>1, RowsCounted DEF Owed
  <2>3. CASE ~Owed(r)
    BY <2>1, <2>3, <1>0, <1>1, UnderwaySame, RowsStay DEF Owed
  <2> QED
    BY <2>2, <2>3
<1>9. ListInv'
  BY <1>0, <1>1 DEF ListInv, OtherRequests, SameCall
<1>10. ListedInv'
  <2>1. CASE UNCHANGED listed
    BY <2>1, <1>0 DEF ListedInv
  <2>2. CASE req[r].kind = "list" /\ listed' = [listed EXCEPT ![req[r].me] = req[r].list]
    <3>1. \A f \in Ids : req[r].list[f] > 1 => Logins[f] > 1 \/ friends[<<req[r].me, f>>] > 1
      BY <2>2, <1>0 DEF ListInv
    <3>2. \A u \in Users : listed'[u] = IF u = req[r].me THEN req[r].list ELSE listed[u]
      BY <2>2, <1>0, <1>2 DEF TypeOK
    <3> QED
      BY <3>1, <3>2, <1>0 DEF ListedInv
  <2> QED
    BY <2>1, <2>2
<1> QED
  BY <1>3, <1>6, <1>7, <1>8, <1>9, <1>10 DEF IInv

LEMMA ReceiveStep ==
  ASSUME IInv, NEW u \in Users, ReceiveReply(u)
  PROVE  IInv'
<1>1. PICK r \in Requests : r = waiting[u]
  BY DEF IInv, TypeOK, ReceiveReply
<1>2. req[r].me = u
  BY <1>1 DEF IInv, WaitsForOwn, ReceiveReply
<1>3. /\ req[r].pc = "reply" /\ req' = [req EXCEPT ![r].pc = "done"]
      /\ waiting' = [waiting EXCEPT ![u] = NoRequest]
      /\ UNCHANGED friends
  BY <1>1 DEF ReceiveReply
<1>4. IF req[r].kind = "request" /\ req[r].ok
        THEN /\ confirmed' = [confirmed EXCEPT ![<<req[r].me, req[r].friend>>] = @ + 1]
             /\ UNCHANGED unheard
        ELSE UNCHANGED <<confirmed, unheard>>
  BY <1>1, <1>2 DEF ReceiveReply
<1>5. \/ UNCHANGED listed
      \/ req[r].kind = "list" /\ listed' = [listed EXCEPT ![req[r].me] = req[r].list]
  BY <1>1, <1>2 DEF ReceiveReply
<1> QED
  BY <1>3, <1>4, <1>5, AnswerStep

LEMMA LostStep ==
  ASSUME IInv, NEW r \in Requests, ReplyLost(r)
  PROVE  IInv'
BY AnswerStep DEF ReplyLost

-----------------------------------------------------------------------------
LEMMA InitIInv == Init => IInv
<1> SUFFICES ASSUME Init PROVE IInv
  OBVIOUS
<1>1. PICK u \in Users :
        req = [r \in Requests |->
                 [pc |-> "unused", kind |-> "list", me |-> u, friend |-> u,
                  list |-> Nobody, ok |-> FALSE, known |-> {}]]
  BY DEF Init
<1>2. Nobody \in [Ids -> Nat] /\ \A f \in Ids : Nobody[f] = 0
  BY DEF Nobody
<1>3. TypeOK
  BY <1>1, <1>2, FriendsAssumption DEF Init, TypeOK, RequestRecords, Pairs
<1>4. WaitsForOwn /\ PlaceInv
  BY <1>1 DEF Init, WaitsForOwn, PlaceInv
<1>5. \A q \in Pairs : Underway(q) = {} /\ friends[q] = 0 /\ confirmed[q] = 0 /\ unheard[q] = 0
  BY <1>1 DEF Init, Underway
<1>6. RowsInv /\ RowsAccountedFor
  BY <1>5, FS_EmptySet DEF RowsInv, RowsAccountedFor
<1>7. ListInv /\ ListedInv
  BY <1>1, <1>2 DEF Init, ListInv, ListedInv
<1> QED
  BY <1>3, <1>4, <1>6, <1>7 DEF IInv

LEMMA NextIInv == IInv /\ [Next]_vars => IInv'
<1> SUFFICES ASSUME IInv, [Next]_vars PROVE IInv'
  OBVIOUS
<1>1. CASE UNCHANGED vars
  <2>1. UNCHANGED <<req, waiting, friends, confirmed, unheard, listed>>
    BY <1>1 DEF vars
  <2>2. \A q \in Pairs : Underway(q)' = Underway(q)
    BY <2>1 DEF Underway
  <2>3. RowsInv' /\ RowsAccountedFor'
    BY <2>1, <2>2, RowsStay DEF IInv
  <2> QED
    BY <2>1, <2>3 DEF IInv, TypeOK, WaitsForOwn, PlaceInv, ListInv, ListedInv
<1>2. ASSUME NEW u \in Users, NEW f \in Ids, NEW r \in Requests, SendRequest(u, f, r)
      PROVE  IInv'
  BY <1>2, AskStep DEF SendRequest
<1>3. ASSUME NEW u \in Users, NEW r \in Requests, FetchFriends(u, r)
      PROVE  IInv'
  BY <1>3, AskStep, FriendsAssumption DEF FetchFriends
<1>4. ASSUME NEW r \in Requests,
             \/ SelectFriend(r) \/ SelectSelf(r) \/ InsertFriend(r) \/ SelectFriends(r)
             \/ StatementFails(r) \/ ReplyLost(r)
      PROVE  IInv'
  BY <1>4, SelectStep, InsertStep, ListStep, LostStep
<1> QED
  BY <1>1, <1>2, <1>3, <1>4, GiveUpStep, ReceiveStep
     DEF Next, PhoneAsks, PhoneHears, ServerStep

LEMMA IInvHolds == Spec => []IInv
BY InitIInv, NextIInv, PTL DEF Spec

(* The requests, the table friends and the lists on the phones keep their  *)
(* types, whatever the requests of AddFriendActivity and MainActivity do.  *)
THEOREM TypeCorrect == Spec => []TypeOK
BY IInvHolds, PTL DEF IInv

(* Every row that send_friends_request of friend.php inserted was shown to *)
(* its user as "Friends request send", is in an answer on its way, or is   *)
(* in an answer that reached nobody, however requests overlap, are given   *)
(* up and repeated; and no message was shown without a row of its own.     *)
THEOREM RowsHaveAnswers == Spec => []RowsAccountedFor
BY IInvHolds, PTL DEF IInv

(* friends_list of friend.php names a friend more than once only if the id *)
(* has two rows in user_login or the pair has two rows in friends.         *)
THEOREM RepeatsAreStored == Spec => []ListedTwiceOnlyIfStoredTwice
<1>1. IInv => ListedTwiceOnlyIfStoredTwice
  BY DEF IInv, ListedInv, RowsAccountedFor, ListedTwiceOnlyIfStoredTwice, Pairs
<1> QED
  BY <1>1, IInvHolds, PTL

(* A list that is shown is the answer, and the answer has what was known.  *)
LEMMA ListedStep ==
  ASSUME IInv, [Next]_vars, NEW u \in Users, NEW r \in Requests,
         waiting[u] = r, req[r].kind = "list", req[r].ok,
         req[r].pc = "reply", req'[r].pc = "done"
  PROVE  \A f \in req[r].known : listed'[u][f] > 0
<1>0. TypeOK /\ WaitsForOwn /\ ListInv
  BY DEF IInv
<1>1. CASE ReceiveReply(u)
  <2>1. listed' = [listed EXCEPT ![u] = req[r].list]
    BY <1>1 DEF ReceiveReply
  <2>2. listed'[u] = req[r].list
    BY <2>1, <1>0 DEF TypeOK
  <2> QED
    BY <2>2, <1>0 DEF ListInv
<1>2. ASSUME NEW v \in Users, ReceiveReply(v) \/ GiveUp(v), v # u
      PROVE  FALSE
  <2>1. waiting[v] \in Requests /\ waiting[v] # r
    BY <1>0, <1>2, FriendsAssumption DEF ReceiveReply, GiveUp, WaitsForOwn, TypeOK
  <2>2. req'[r] = req[r]
    BY <2>1, <1>0, <1>2 DEF ReceiveReply, GiveUp, TypeOK
  <2> QED
    BY <2>2
<1>3. CASE GiveUp(u)
  BY <1>3 DEF GiveUp
<1>4. ASSUME NEW v \in Users, NEW f \in Ids, NEW s \in Requests,
             SendRequest(v, f, s) \/ FetchFriends(v, s)
      PROVE  FALSE
  <2>1. req[s].pc = "unused" /\ \A t \in Requests \ {s} : req'[t] = req[t]
    BY <1>0, <1>4 DEF SendRequest, FetchFriends, Asks, TypeOK
  <2> QED
    BY <2>1
<1>5. ASSUME NEW s \in Requests,
             \/ SelectFriend(s) \/ SelectSelf(s) \/ InsertFriend(s) \/ SelectFriends(s)
             \/ StatementFails(s) \/ ReplyLost(s)
      PROVE  FALSE
  <2>1. s # r
    BY <1>5 DEF SelectFriend, SelectSelf, InsertFriend, SelectFriends, StatementFails, ReplyLost
  <2>2. req'[r] = req[r]
    BY <2>1, <1>0, <1>5 DEF SelectFriend, SelectSelf, InsertFriend, SelectFriends,
                             StatementFails, ReplyLost, Moves, TypeOK
  <2> QED
    BY <2>2
<1>6. CASE UNCHANGED vars
  BY <1>6 DEF vars
<1>7. ASSUME NEW v \in Users, NEW s \in Requests, FetchFriends(v, s) PROVE FALSE
  BY <1>4, <1>7, FriendsAssumption
<1> QED
  BY <1>1, <1>2, <1>3, <1>4, <1>5, <1>6, <1>7 DEF Next, PhoneAsks, PhoneHears, ServerStep

(* The list that onPostExecute of FriendListrExecuteTask shows has every   *)
(* friend whose request was confirmed on that phone before the list was    *)
(* asked for, whatever statements of other requests ran in between.        *)
THEOREM ListsWhatWasConfirmed == Spec => ConfirmedIsListed
<1> DEFINE Listed == \A u \in Users, r \in Requests :
                       /\ waiting[u] = r /\ req[r].kind = "list" /\ req[r].ok
                       /\ req[r].pc = "reply" /\ req'[r].pc = "done"
                       => \A f \in req[r].known : listed'[u][f] > 0
<1>1. IInv /\ [Next]_vars => [Listed]_vars
  BY ListedStep
<1> QED
  BY <1>1, IInvHolds, PTL DEF Spec, ConfirmedIsListed
=============================================================================
