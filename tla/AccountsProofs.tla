---------------------------- MODULE AccountsProofs ----------------------------
(***************************************************************************)
(* Machine-checked proofs about Accounts, for any users, passwords, codes  *)
(* and requests, whose statements interleave and fail in any way: when a   *)
(* user id gets two accounts, what becomes of a used code, and when the    *)
(* code of the last SMS is the one the account expects.                    *)
(***************************************************************************)
EXTENDS Accounts, FiniteSetTheorems, TLAPS

(* A row's request is done, and only new_user inserts and only send_otp    *)
(* sends; finitely many rows have been inserted.                           *)
PlaceInv ==
  /\ \A r \in DOMAIN table : req[r].pc = "done"
  /\ \A r \in Requests : req[r].pc = "insert" => req[r].op = "new_user"
  /\ \A r \in Requests : req[r].pc = "sms" => req[r].op = "send_otp"
  /\ IsFiniteSet(DOMAIN table)

(* Of two requests that will insert the same id, or one that will and one  *)
(* that has, the later look-up saw the other about to insert.              *)
OverlapInv ==
  \A r \in Requests : req[r].pc = "insert" =>
    /\ \A s \in Requests \ {r} : req[s].pc = "insert" /\ req[s].uid = req[r].uid
         => r \in overlapped /\ s \in overlapped
    /\ \A s \in RowsOf(req[r].uid) : r \in overlapped /\ s \in overlapped

(* A code is on its way only to a user who has an account.  Where send_otp *)
(* requests do not mix, one at most is on its way, and a single account    *)
(* expects its code, or else the code of the last SMS, or it is used.      *)
CodeInv ==
  \A u \in Users :
    /\ sms[u] # 0 \/ Sending(u) # {} => RowsOf(u) # {}
    /\ u \notin mixed =>
         /\ \A s, t \in Sending(u) : s = t
         /\ \A r \in RowsOf(u) : RowsOf(u) = {r} =>
              /\ \A s \in Sending(u) : table[r].otp \in {req[s].otp, 0}
              /\ Sending(u) = {} /\ sms[u] # 0 => table[r].otp \in {sms[u], 0}

(* No row expects a code that has changed a password, and 0 stands only in *)
(* rows of users whose password a code has changed.                        *)
SpentInv ==
  \A r \in DOMAIN table :
    /\ <<table[r].uid, table[r].otp>> \notin spent
    /\ table[r].otp = 0 => table[r].uid \in changed

IInv ==
  /\ TypeOK
  /\ PlaceInv
  /\ OverlapInv
  /\ CodeInv
  /\ DuplicateOnlyIfOverlap
  /\ SpentInv

USE CodeAssumption

-----------------------------------------------------------------------------
(* How a request goes on, and what stays where it does.                    *)

(* The other requests are left alone; r keeps its user and its operation.  *)
OnlyRequest(r) == \A s \in Requests \ {r} : req'[s] = req[s]
SameCall(r)    == req'[r].uid = req[r].uid /\ req'[r].op = req[r].op

LEMMA AnswerEffect ==
  ASSUME TypeOK, NEW r \in Requests, NEW a \in Replies, Answer(r, a)
  PROVE  /\ req' \in [Requests -> RequestRecords]
         /\ OnlyRequest(r) /\ SameCall(r) /\ req'[r].pc = "done"
<1> DEFINE new == [req[r] EXCEPT !.pc = "done", !.reply = a]
<1>1. req[r] \in RequestRecords
  BY DEF TypeOK
<1>2. /\ new \in RequestRecords /\ new.pc = "done"
      /\ new.uid = req[r].uid /\ new.op = req[r].op
  BY <1>1 DEF RequestRecords, Places
<1>3. req' = [req EXCEPT ![r] = new]
  BY DEF Answer
<1> HIDE DEF new
<1> QED
  BY <1>2, <1>3 DEF TypeOK, OnlyRequest, SameCall

LEMMA GoOnEffect ==
  ASSUME TypeOK, NEW r \in Requests, NEW pc \in Places, GoOn(r, pc)
  PROVE  /\ req' \in [Requests -> RequestRecords]
         /\ OnlyRequest(r) /\ SameCall(r) /\ req'[r].pc = pc
<1> DEFINE new == [req[r] EXCEPT !.pc = pc]
<1>1. req[r] \in RequestRecords
  BY DEF TypeOK
<1>2. /\ new \in RequestRecords /\ new.pc = pc
      /\ new.uid = req[r].uid /\ new.op = req[r].op
  BY <1>1 DEF RequestRecords
<1>3. req' = [req EXCEPT ![r] = new]
  BY DEF GoOn
<1> HIDE DEF new
<1> QED
  BY <1>2, <1>3 DEF TypeOK, OnlyRequest, SameCall

(* Rows whose names stay are the same users' rows.                         *)
LEMMA SameRows ==
  ASSUME DOMAIN table' = DOMAIN table,
         \A s \in DOMAIN table : table'[s].uid = table[s].uid
  PROVE  \A u : RowsOf(u)' = RowsOf(u)
BY DEF RowsOf

(* A step that takes r neither to its SMS nor past it.                     *)
LEMMA SameSending ==
  ASSUME NEW r \in Requests, OnlyRequest(r), req[r].pc # "sms", req'[r].pc # "sms"
  PROVE  \A u : /\ Sending(u)' = Sending(u)
                /\ \A s \in Sending(u) : req'[s] = req[s]
BY DEF Sending, OnlyRequest

(* Where no code is drawn or sent, the codes stay as they were or are used.*)
LEMMA CodeStays ==
  ASSUME CodeInv, UNCHANGED <<sms, mixed>>,
         \A u : RowsOf(u)' = RowsOf(u),
         \A u : Sending(u)' = Sending(u) /\ \A s \in Sending(u) : req'[s] = req[s],
         \A s \in DOMAIN table : table'[s].otp \in {table[s].otp, 0}
  PROVE  CodeInv'
<1> SUFFICES ASSUME NEW u \in Users
             PROVE  /\ sms[u] # 0 \/ Sending(u) # {} => RowsOf(u) # {}
                    /\ u \notin mixed =>
                         /\ \A s, t \in Sending(u) : s = t
                         /\ \A r \in RowsOf(u) : RowsOf(u) = {r} =>
                              /\ \A s \in Sending(u) : table'[r].otp \in {req'[s].otp, 0}
                              /\ Sending(u) = {} /\ sms[u] # 0
                                   => table'[r].otp \in {sms[u], 0}
  BY DEF CodeInv
<1>1. \A r \in RowsOf(u) : r \in DOMAIN table
  BY DEF RowsOf
<1>2. /\ sms[u] # 0 \/ Sending(u) # {} => RowsOf(u) # {}
      /\ u \notin mixed =>
           /\ \A s, t \in Sending(u) : s = t
           /\ \A r \in RowsOf(u) : RowsOf(u) = {r} =>
                /\ \A s \in Sending(u) : table[r].otp \in {req[s].otp, 0}
                /\ Sending(u) = {} /\ sms[u] # 0 => table[r].otp \in {sms[u], 0}
  BY DEF CodeInv
<1> QED
  BY <1>1, <1>2

(* A request that changes no row and neither begins nor ends a look-up.    *)
LEMMA OverlapStays ==
  ASSUME OverlapInv, NEW r \in Requests, OnlyRequest(r), req'[r].pc # "insert",
         \A u : RowsOf(u)' = RowsOf(u), UNCHANGED overlapped
  PROVE  OverlapInv'
<1> SUFFICES ASSUME NEW q \in Requests, req'[q].pc = "insert"
             PROVE  /\ \A s \in Requests \ {q} :
                         req'[s].pc = "insert" /\ req'[s].uid = req'[q].uid
                           => q \in overlapped /\ s \in overlapped
                    /\ \A s \in RowsOf(req'[q].uid) : q \in overlapped /\ s \in overlapped
  BY DEF OverlapInv
<1>1. q # r /\ req'[q] = req[q]
  BY DEF OnlyRequest
<1> QED
  BY <1>1 DEF OverlapInv, OnlyRequest

(* Rows that keep their names and have no new code.                        *)
LEMMA RowsStay ==
  ASSUME DuplicateOnlyIfOverlap, DOMAIN table' = DOMAIN table,
         \A s \in DOMAIN table : table'[s].uid = table[s].uid, UNCHANGED overlapped
  PROVE  DuplicateOnlyIfOverlap'
BY DEF DuplicateOnlyIfOverlap

(* The places of the requests and rows, after a step of r.                 *)
LEMMA PlaceStays ==
  ASSUME TypeOK, PlaceInv, NEW r \in Requests, OnlyRequest(r), req[r].pc # "done",
         req'[r].pc = "insert" => req'[r].op = "new_user",
         req'[r].pc = "sms" => req'[r].op = "send_otp",
         DOMAIN table' = DOMAIN table
  PROVE  PlaceInv'
<1>1. r \notin DOMAIN table
  BY DEF PlaceInv
<1> QED
  BY <1>1 DEF PlaceInv, OnlyRequest, TypeOK

(* A step that changes no row, no code and no history, and after which r   *)
(* neither inserts nor sends.                                              *)
LEMMA Quiet ==
  ASSUME IInv, NEW r \in Requests, OnlyRequest(r),
         req' \in [Requests -> RequestRecords],
         UNCHANGED <<table, sms, overlapped, mixed, spent, changed>>,
         req[r].pc \notin {"sms", "done"}, req'[r].pc \notin {"insert", "sms"}
  PROVE  IInv'
<1>1. \A u : RowsOf(u)' = RowsOf(u)
  BY SameRows
<1>2. \A u : /\ Sending(u)' = Sending(u)
             /\ \A s \in Sending(u) : req'[s] = req[s]
  BY SameSending
<1>3. TypeOK'
  BY DEF IInv, TypeOK, OnlyRequest
<1>4. PlaceInv'
  BY PlaceStays DEF IInv
<1>5. OverlapInv'
  BY <1>1, OverlapStays DEF IInv
<1>6. CodeInv'
  BY <1>1, <1>2, CodeStays DEF IInv
<1>7. DuplicateOnlyIfOverlap' /\ SpentInv'
  BY DEF IInv, DuplicateOnlyIfOverlap, SpentInv
<1> QED
  BY <1>3, <1>4, <1>5, <1>6, <1>7 DEF IInv

LEMMA PostStep ==
  ASSUME IInv, NEW r \in Requests, NEW op \in Ops, NEW u \in Users, Post(r, op, u)
  PROVE  IInv'
<1>1. PICK p \in Passwords, c \in Posted :
        req' = [req EXCEPT ![r] = [pc |-> FirstStatement(op), op |-> op, uid |-> u,
                                   pw |-> p, otp |-> c, reply |-> "none"]]
  BY DEF Post
<1> DEFINE new == [pc |-> FirstStatement(op), op |-> op, uid |-> u,
                   pw |-> p, otp |-> c, reply |-> "none"]
<1>2. new \in RequestRecords /\ new.pc \notin {"insert", "sms"}
  BY DEF RequestRecords, FirstStatement, Places, Replies
<1>3. req' = [req EXCEPT ![r] = new]
  BY <1>1
<1> HIDE DEF new
<1>4. req' \in [Requests -> RequestRecords] /\ OnlyRequest(r)
      /\ req'[r].pc \notin {"insert", "sms"}
  BY <1>2, <1>3 DEF IInv, TypeOK, OnlyRequest
<1> QED
  BY <1>4, Quiet DEF Post, history

LEMMA SelectStep ==
  ASSUME IInv, NEW r \in Requests, SelectForVerification(r) \/ Login(r)
  PROVE  IInv'
<1>1. \/ GoOn(r, "update")
      \/ \E a \in Replies : Answer(r, a)
  BY DEF SelectForVerification, Login, Replies
<1>2. /\ req' \in [Requests -> RequestRecords] /\ OnlyRequest(r)
      /\ req'[r].pc \in {"update", "done"}
  BY <1>1, AnswerEffect, GoOnEffect DEF IInv, Places
<1> QED
  BY <1>2, Quiet DEF SelectForVerification, Login, history

(* new_user finds no row: whoever is about to insert the same id overlaps. *)
LEMMA LookUpStep ==
  ASSUME IInv, NEW r \in Requests, LookUp(r)
  PROVE  IInv'
<1> DEFINE others == {s \in Requests : req[s].op = "new_user" /\ req[s].uid = req[r].uid
                                       /\ req[s].pc = "insert"}
<1>0. /\ req[r].pc = "select" /\ req[r].op = "new_user"
      /\ UNCHANGED <<table, sms, mixed, spent, changed>>
  BY DEF LookUp
<1>1. CASE RowsOf(req[r].uid) # {}
  <2>1. Answer(r, "no") /\ UNCHANGED overlapped
    BY <1>1 DEF LookUp
  <2>2. /\ req' \in [Requests -> RequestRecords] /\ OnlyRequest(r)
        /\ req'[r].pc = "done"
    BY <2>1, AnswerEffect DEF IInv, Replies
  <2> QED
    BY <1>0, <2>1, <2>2, Quiet
<1>2. CASE RowsOf(req[r].uid) = {}
  <2>1. /\ GoOn(r, "insert")
        /\ overlapped' = overlapped \union IF others = {} THEN {} ELSE others \union {r}
    BY <1>2 DEF LookUp
  <2>2. /\ req' \in [Requests -> RequestRecords] /\ OnlyRequest(r) /\ SameCall(r)
        /\ req'[r].pc = "insert"
    BY <2>1, GoOnEffect DEF IInv, Places
  <2>3. \A u : RowsOf(u)' = RowsOf(u)
    BY <1>0, SameRows
  <2>4. \A u : /\ Sending(u)' = Sending(u)
               /\ \A s \in Sending(u) : req'[s] = req[s]
    BY <1>0, <2>2, SameSending
  <2>5. overlapped \subseteq overlapped' /\ overlapped' \subseteq Requests
    BY <2>1 DEF IInv, TypeOK
  <2>6. TypeOK'
    BY <1>0, <2>2, <2>5 DEF IInv, TypeOK, OnlyRequest
  <2>7. PlaceInv'
    BY <1>0, <2>2, PlaceStays DEF IInv, SameCall
  <2>8. OverlapInv'
    <3>1. \A s \in Requests \ {r} :
            req[s].pc = "insert" /\ req[s].uid = req[r].uid
              => r \in overlapped' /\ s \in overlapped'
      BY <2>1 DEF IInv, PlaceInv
    <3> SUFFICES ASSUME NEW q \in Requests, req'[q].pc = "insert"
                 PROVE  /\ \A s \in Requests \ {q} :
                             req'[s].pc = "insert" /\ req'[s].uid = req'[q].uid
                               => q \in overlapped' /\ s \in overlapped'
                        /\ \A s \in RowsOf(req'[q].uid) :
                             q \in overlapped' /\ s \in overlapped'
      BY <2>3 DEF OverlapInv
    <3>2. CASE q = r
      BY <1>2, <2>2, <3>1, <3>2 DEF OnlyRequest, SameCall
    <3>3. CASE q # r
      <4>1. req'[q] = req[q]
        BY <2>2, <3>3 DEF OnlyRequest
      <4>2. /\ \A s \in Requests \ {q} : req[s].pc = "insert" /\ req[s].uid = req[q].uid
                 => q \in overlapped /\ s \in overlapped
            /\ \A s \in RowsOf(req[q].uid) : q \in overlapped /\ s \in overlapped
        BY <4>1 DEF IInv, OverlapInv
      <4> QED
        BY <2>2, <2>5, <3>1, <3>3, <4>1, <4>2 DEF OnlyRequest, SameCall
    <3> QED
      BY <3>2, <3>3
  <2>9. CodeInv'
    BY <1>0, <2>3, <2>4, CodeStays DEF IInv
  <2>10. DuplicateOnlyIfOverlap' /\ SpentInv'
    BY <1>0, <2>5 DEF IInv, DuplicateOnlyIfOverlap, SpentInv
  <2> QED
    BY <2>6, <2>7, <2>8, <2>9, <2>10 DEF IInv
<1> QED
  BY <1>1, <1>2

(* UPDATE of rows, none of which gets a code: a row's code stays or is 0.  *)
LEMMA RowsUpdated ==
  ASSUME IInv, NEW r \in Requests, req[r].pc = "update",
         OnlyRequest(r), req' \in [Requests -> RequestRecords], req'[r].pc = "done",
         DOMAIN table' = DOMAIN table,
         \A s \in DOMAIN table :
           /\ table'[s] \in Rows /\ table'[s].uid = table[s].uid
           /\ table'[s].otp \in {table[s].otp, 0},
         UNCHANGED <<sms, overlapped, mixed>>
  PROVE  /\ PlaceInv' /\ OverlapInv' /\ CodeInv' /\ DuplicateOnlyIfOverlap'
         /\ spent' \subseteq Users \X Codes /\ changed' \subseteq Users => TypeOK'
<1>1. \A u : RowsOf(u)' = RowsOf(u)
  BY SameRows
<1>2. \A u : /\ Sending(u)' = Sending(u)
             /\ \A s \in Sending(u) : req'[s] = req[s]
  BY SameSending
<1>3. PlaceInv'
  BY PlaceStays DEF IInv
<1>4. OverlapInv'
  BY <1>1, OverlapStays DEF IInv
<1>5. CodeInv'
  BY <1>1, <1>2, CodeStays DEF IInv
<1>6. DuplicateOnlyIfOverlap'
  BY RowsStay DEF IInv
<1>7. spent' \subseteq Users \X Codes /\ changed' \subseteq Users => TypeOK'
  BY DEF IInv, TypeOK, OnlyRequest
<1> QED
  BY <1>3, <1>4, <1>5, <1>6, <1>7

LEMMA UpdateStatusStep ==
  ASSUME IInv, NEW r \in Requests, UpdateStatus(r)
  PROVE  IInv'
<1> DEFINE hit == {s \in RowsOf(req[r].uid) :
                     req[r].op = "user_verification" => table[s].otp = req[r].otp}
<1>0. /\ table' = [s \in DOMAIN table |->
                     IF s \in hit THEN [table[s] EXCEPT !.status = 1] ELSE table[s]]
      /\ req[r].pc = "update" /\ Answer(r, "ok")
      /\ UNCHANGED <<sms, overlapped, mixed, spent, changed>>
  BY DEF UpdateStatus, history
<1> HIDE DEF hit
<1>1. /\ DOMAIN table' = DOMAIN table
      /\ \A s \in DOMAIN table :
           /\ table'[s] \in Rows /\ table'[s].uid = table[s].uid
           /\ table'[s].otp = table[s].otp
  <2> SUFFICES ASSUME NEW s \in DOMAIN table
               PROVE  /\ table'[s] \in Rows /\ table'[s].uid = table[s].uid
                      /\ table'[s].otp = table[s].otp
    BY <1>0
  <2>1. table[s] \in Rows
    BY DEF IInv, TypeOK
  <2>2. table'[s] = [table[s] EXCEPT !.status = 1] \/ table'[s] = table[s]
    BY <1>0
  <2> QED
    BY <2>1, <2>2 DEF Rows
<1>2. /\ req' \in [Requests -> RequestRecords] /\ OnlyRequest(r) /\ req'[r].pc = "done"
  BY <1>0, AnswerEffect DEF IInv, Replies
<1>3. /\ PlaceInv' /\ OverlapInv' /\ CodeInv' /\ DuplicateOnlyIfOverlap'
      /\ spent' \subseteq Users \X Codes /\ changed' \subseteq Users => TypeOK'
  BY <1>0, <1>1, <1>2, RowsUpdated
<1>4. TypeOK'
  BY <1>0, <1>3 DEF IInv, TypeOK
<1>5. SpentInv'
  BY <1>0, <1>1 DEF IInv, SpentInv
<1> QED
  BY <1>3, <1>4, <1>5 DEF IInv

(* The rows that had the code have 0 instead, which is no code; and if it  *)
(* was 0, nothing is noted.                                                *)
LEMMA UpdatePasswordStep ==
  ASSUME IInv, NEW r \in Requests, UpdatePassword(r)
  PROVE  IInv'
<1> DEFINE hit == {s \in RowsOf(req[r].uid) : table[s].otp = req[r].otp}
<1>u. PICK u \in Users : u = req[r].uid
  BY DEF IInv, TypeOK, RequestRecords
<1>0. /\ table' = [s \in DOMAIN table |->
                     IF s \in hit THEN [table[s] EXCEPT !.pw = req[r].pw, !.otp = 0]
                                  ELSE table[s]]
      /\ req[r].pc = "update" /\ \E a \in Replies : Answer(r, a)
      /\ IF hit # {} /\ req[r].otp # 0
           THEN spent' = spent \union {<<u, req[r].otp>>} /\ changed' = changed \union {u}
           ELSE UNCHANGED <<spent, changed>>
      /\ UNCHANGED <<sms, overlapped, mixed>>
  BY <1>u DEF UpdatePassword, Replies
<1>1. req[r].pw \in Passwords
  BY DEF IInv, TypeOK, RequestRecords
<1>2. \A s \in DOMAIN table :
        s \in hit <=> table[s].uid = u /\ table[s].otp = req[r].otp
  BY <1>u DEF RowsOf
<1>h. hit \subseteq DOMAIN table
  BY DEF RowsOf
<1> HIDE DEF hit
<1>3. DOMAIN table' = DOMAIN table
  BY <1>0
<1>4. \A s \in DOMAIN table :
        /\ table'[s] \in Rows /\ table'[s].uid = table[s].uid
        /\ table'[s].otp = IF s \in hit THEN 0 ELSE table[s].otp
  <2> SUFFICES ASSUME NEW s \in DOMAIN table
               PROVE  /\ table'[s] \in Rows /\ table'[s].uid = table[s].uid
                      /\ table'[s].otp = IF s \in hit THEN 0 ELSE table[s].otp
    OBVIOUS
  <2>1. table[s] \in Rows
    BY DEF IInv, TypeOK
  <2>2. table'[s] = IF s \in hit THEN [table[s] EXCEPT !.pw = req[r].pw, !.otp = 0]
                                 ELSE table[s]
    BY <1>0
  <2> QED
    BY <1>1, <2>1, <2>2 DEF Rows
<1>5. /\ req' \in [Requests -> RequestRecords] /\ OnlyRequest(r) /\ req'[r].pc = "done"
  BY <1>0, AnswerEffect DEF IInv
<1>6. \A s \in DOMAIN table : table'[s].otp \in {table[s].otp, 0}
  BY <1>4
<1>7. /\ PlaceInv' /\ OverlapInv' /\ CodeInv' /\ DuplicateOnlyIfOverlap'
      /\ spent' \subseteq Users \X Codes /\ changed' \subseteq Users => TypeOK'
  BY <1>0, <1>3, <1>4, <1>5, <1>6, RowsUpdated
<1>8. CASE hit # {} /\ req[r].otp # 0
  <2>1. req[r].otp \in Codes
    <3>1. PICK s \in DOMAIN table : table[s].otp = req[r].otp
      BY <1>2, <1>h, <1>8
    <3>2. table[s].otp \in Codes \union {0}
      BY DEF IInv, TypeOK, Rows
    <3> QED
      BY <1>8, <3>1, <3>2
  <2>2. /\ spent' = spent \union {<<u, req[r].otp>>} /\ changed' = changed \union {u}
    BY <1>0, <1>8
  <2>3. /\ spent' \subseteq Users \X Codes /\ changed' \subseteq Users
        /\ \A e \in spent' : e \in spent \/ e = <<u, req[r].otp>>
    BY <2>1, <2>2 DEF IInv, TypeOK
  <2>4. SpentInv'
    <3> SUFFICES ASSUME NEW s \in DOMAIN table
                 PROVE  /\ <<table'[s].uid, table'[s].otp>> \notin spent'
                        /\ table'[s].otp = 0 => table'[s].uid \in changed'
      BY <1>3 DEF SpentInv
    <3>1. CASE s \in hit
      <4>1. table'[s].otp = 0 /\ 0 \notin Codes /\ table'[s].uid = u
        BY <1>2, <1>4, <3>1
      <4> QED
        BY <2>2, <2>3, <4>1
    <3>2. CASE s \notin hit
      <4>1. /\ <<table[s].uid, table[s].otp>> \notin spent
            /\ table[s].otp = 0 => table[s].uid \in changed
        BY DEF IInv, SpentInv
      <4>2. table'[s].uid = table[s].uid /\ table'[s].otp = table[s].otp
        BY <1>4, <3>2
      <4>3. <<table[s].uid, table[s].otp>> # <<u, req[r].otp>>
        BY <1>2, <3>2
      <4> QED
        BY <2>2, <2>3, <4>1, <4>2, <4>3
    <3> QED
      BY <3>1, <3>2
  <2> QED
    BY <1>7, <2>3, <2>4 DEF IInv
<1>9. CASE ~ (hit # {} /\ req[r].otp # 0)
  <2>1. UNCHANGED <<spent, changed>>
    BY <1>0, <1>9
  <2>2. \A s \in DOMAIN table : table'[s].otp = table[s].otp
    BY <1>2, <1>4, <1>9
  <2>3. SpentInv'
    BY <1>3, <1>4, <2>1, <2>2 DEF IInv, SpentInv
  <2> QED
    BY <1>7, <2>1, <2>3 DEF IInv, TypeOK
<1> QED
  BY <1>8, <1>9

(* INSERT adds a row of its own; if it is the user's only one, no code was *)
(* ever on its way to this user.                                           *)
LEMMA InsertStep ==
  ASSUME IInv, NEW r \in Requests, Insert(r)
  PROVE  IInv'
<1>u. PICK u \in Users : u = req[r].uid
  BY DEF IInv, TypeOK, RequestRecords
<1>1. PICK c \in Codes :
        /\ table' = [s \in DOMAIN table \union {r} |->
                       IF s = r THEN [uid |-> u, pw |-> req[r].pw,
                                      otp |-> c, status |-> 0]
                                ELSE table[s]]
        /\ spent' = spent \ {<<u, c>>}
  BY <1>u DEF Insert
<1>2. /\ req[r].pc = "insert" /\ Answer(r, "ok")
      /\ UNCHANGED <<sms, overlapped, mixed, changed>>
  BY DEF Insert
<1>3. req[r].pw \in Passwords /\ r \notin DOMAIN table
  BY <1>2 DEF IInv, TypeOK, RequestRecords, PlaceInv
<1> DEFINE row == [uid |-> u, pw |-> req[r].pw, otp |-> c, status |-> 0]
<1>4. row \in Rows /\ row.uid = u /\ row.otp = c
  BY <1>3 DEF Rows
<1>5. /\ DOMAIN table' = DOMAIN table \union {r} /\ table'[r] = row
      /\ \A s \in DOMAIN table : s # r /\ table'[s] = table[s]
  BY <1>1, <1>3
<1>6. /\ req' \in [Requests -> RequestRecords] /\ OnlyRequest(r) /\ req'[r].pc = "done"
  BY <1>2, AnswerEffect DEF IInv, Replies
<1> HIDE DEF row
<1>7. /\ RowsOf(u)' = RowsOf(u) \union {r} /\ r \notin RowsOf(u)
      /\ \A v : v # u => RowsOf(v)' = RowsOf(v)
  BY <1>3, <1>4, <1>5 DEF RowsOf
<1>8. \A v : /\ Sending(v)' = Sending(v)
             /\ \A s \in Sending(v) : req'[s] = req[s]
  BY <1>2, <1>6, SameSending
<1>9. spent' \subseteq spent /\ <<u, c>> \notin spent'
  BY <1>1
<1>10. TypeOK'
  BY <1>2, <1>4, <1>5, <1>6, <1>9 DEF IInv, TypeOK, OnlyRequest
<1>11. PlaceInv'
  <2>1. IsFiniteSet(DOMAIN table \union {r})
    BY FS_AddElement DEF IInv, PlaceInv
  <2> QED
    BY <1>5, <1>6, <2>1 DEF IInv, TypeOK, PlaceInv, OnlyRequest
<1>12. OverlapInv'
  <2> SUFFICES ASSUME NEW q \in Requests, req'[q].pc = "insert"
               PROVE  /\ \A s \in Requests \ {q} :
                           req'[s].pc = "insert" /\ req'[s].uid = req'[q].uid
                             => q \in overlapped /\ s \in overlapped
                      /\ \A s \in DOMAIN table' : table'[s].uid = req'[q].uid
                           => q \in overlapped /\ s \in overlapped
    BY <1>2 DEF OverlapInv, RowsOf
  <2>1. q # r /\ req'[q] = req[q]
    BY <1>6 DEF OnlyRequest
  <2>2. /\ \A s \in Requests \ {q} : req[s].pc = "insert" /\ req[s].uid = req[q].uid
             => q \in overlapped /\ s \in overlapped
        /\ \A s \in DOMAIN table : table[s].uid = req[q].uid
             => q \in overlapped /\ s \in overlapped
    BY <2>1 DEF IInv, OverlapInv, RowsOf
  <2>3. req[q].uid = u => q \in overlapped /\ r \in overlapped
    BY <1>u, <1>2, <2>1, <2>2
  <2>4. \A s \in Requests \ {q} : req'[s].pc = "insert" => req'[s] = req[s]
    BY <1>6 DEF OnlyRequest
  <2> QED
    BY <1>4, <1>5, <2>1, <2>2, <2>3, <2>4
<1>13. CodeInv'
  <2> SUFFICES ASSUME NEW v \in Users
               PROVE  /\ sms[v] # 0 \/ Sending(v) # {} => RowsOf(v)' # {}
                      /\ v \notin mixed =>
                           /\ \A s, t \in Sending(v) : s = t
                           /\ \A q \in RowsOf(v)' : RowsOf(v)' = {q} =>
                                /\ \A s \in Sending(v) : table'[q].otp \in {req'[s].otp, 0}
                                /\ Sending(v) = {} /\ sms[v] # 0
                                     => table'[q].otp \in {sms[v], 0}
    BY <1>2, <1>8 DEF CodeInv
  <2>1. /\ sms[v] # 0 \/ Sending(v) # {} => RowsOf(v) # {}
        /\ v \notin mixed =>
             /\ \A s, t \in Sending(v) : s = t
             /\ \A q \in RowsOf(v) : RowsOf(v) = {q} =>
                  /\ \A s \in Sending(v) : table[q].otp \in {req[s].otp, 0}
                  /\ Sending(v) = {} /\ sms[v] # 0 => table[q].otp \in {sms[v], 0}
    BY DEF IInv, CodeInv
  <2>2. CASE v # u
    <3>1. RowsOf(v)' = RowsOf(v) /\ \A q \in RowsOf(v) : table'[q] = table[q]
      BY <1>5, <1>7, <2>2 DEF RowsOf
    <3> QED
      BY <1>8, <2>1, <3>1
  <2>3. CASE v = u
    <3>1. ASSUME NEW q, RowsOf(u)' = {q} PROVE RowsOf(u) = {}
      BY <1>7, <3>1
    <3>2. RowsOf(u)' # {}
      BY <1>7
    <3> QED
      BY <2>1, <2>3, <3>1, <3>2
  <2> QED
    BY <2>2, <2>3
<1>14. DuplicateOnlyIfOverlap'
  <2>1. \A s \in DOMAIN table : table[s].uid = u => r \in overlapped /\ s \in overlapped
    BY <1>u, <1>2 DEF IInv, OverlapInv, RowsOf
  <2> QED
    BY <1>2, <1>4, <1>5, <2>1 DEF IInv, DuplicateOnlyIfOverlap
<1>15. SpentInv'
  BY <1>2, <1>4, <1>5, <1>9 DEF IInv, SpentInv
<1> QED
  BY <1>10, <1>11, <1>12, <1>13, <1>14, <1>15 DEF IInv

(* send_otp stores a code: it is alone on its way, or the user is mixed.   *)
LEMMA UpdateCodeStep ==
  ASSUME IInv, NEW r \in Requests, UpdateCode(r)
  PROVE  IInv'
<1>u. PICK u \in Users : u = req[r].uid
  BY DEF IInv, TypeOK, RequestRecords
<1>0. req[r].pc = "update" /\ req[r].op = "send_otp" /\ UNCHANGED <<sms, overlapped, changed>>
  BY DEF UpdateCode
<1>1. PICK c \in Codes :
        IF \A s \in RowsOf(u) : table[s].otp = c
          THEN Answer(r, "empty") /\ UNCHANGED <<table, mixed, spent>>
          ELSE /\ table' = [s \in DOMAIN table |->
                              IF s \in RowsOf(u) THEN [table[s] EXCEPT !.otp = c]
                                                 ELSE table[s]]
               /\ req' = [req EXCEPT ![r] = [@ EXCEPT !.pc = "sms", !.otp = c]]
               /\ mixed' = IF Sending(u) # {} THEN mixed \union {u} ELSE mixed \ {u}
               /\ spent' = spent \ {<<u, c>>}
  BY <1>u DEF UpdateCode
<1>2. CASE \A s \in RowsOf(u) : table[s].otp = c
  <2>1. Answer(r, "empty") /\ UNCHANGED <<table, mixed, spent>>
    BY <1>1, <1>2
  <2>2. /\ req' \in [Requests -> RequestRecords] /\ OnlyRequest(r)
        /\ req'[r].pc = "done"
    BY <2>1, AnswerEffect DEF IInv, Replies
  <2> QED
    BY <1>0, <2>1, <2>2, Quiet
<1>3. CASE ~ \A s \in RowsOf(u) : table[s].otp = c
  <2>0. RowsOf(u) # {}
    BY <1>3
  <2>1. /\ mixed' = IF Sending(u) # {} THEN mixed \union {u} ELSE mixed \ {u}
        /\ spent' = spent \ {<<u, c>>}
    BY <1>1, <1>3
  <2>2. /\ req' \in [Requests -> RequestRecords] /\ OnlyRequest(r) /\ SameCall(r)
        /\ req'[r].pc = "sms" /\ req'[r].otp = c
    <3> DEFINE new == [req[r] EXCEPT !.pc = "sms", !.otp = c]
    <3>1. req[r] \in RequestRecords
      BY DEF IInv, TypeOK
    <3>2. /\ new \in RequestRecords /\ new.pc = "sms" /\ new.otp = c
          /\ new.uid = req[r].uid /\ new.op = req[r].op
      BY <3>1 DEF RequestRecords, Places, Posted
    <3>3. req' = [req EXCEPT ![r] = new]
      BY <1>1, <1>3
    <3> HIDE DEF new
    <3> QED
      BY <3>2, <3>3 DEF IInv, TypeOK, OnlyRequest, SameCall
  <2>3. /\ DOMAIN table' = DOMAIN table
        /\ \A s \in DOMAIN table :
             /\ table'[s] \in Rows /\ table'[s].uid = table[s].uid
             /\ table'[s].otp = IF s \in RowsOf(u) THEN c ELSE table[s].otp
    <3>1. table' = [s \in DOMAIN table |->
                      IF s \in RowsOf(u) THEN [table[s] EXCEPT !.otp = c] ELSE table[s]]
      BY <1>1, <1>3
    <3>2. DOMAIN table' = DOMAIN table
      BY <3>1
    <3>3. ASSUME NEW s \in DOMAIN table
          PROVE  /\ table'[s] \in Rows /\ table'[s].uid = table[s].uid
                 /\ table'[s].otp = IF s \in RowsOf(u) THEN c ELSE table[s].otp
      <4>1. table[s] \in Rows
        BY <3>3 DEF IInv, TypeOK
      <4>2. table'[s] = IF s \in RowsOf(u) THEN [table[s] EXCEPT !.otp = c] ELSE table[s]
        BY <3>1, <3>3
      <4> QED
        BY <4>1, <4>2 DEF Rows
    <3> QED
      BY <3>2, <3>3
  <2>4. \A v : RowsOf(v)' = RowsOf(v)
    BY <2>3, SameRows
  <2>5. /\ Sending(u)' = Sending(u) \union {r}
        /\ \A v : v # u => Sending(v)' = Sending(v)
        /\ \A v : \A s \in Sending(v) : req'[s] = req[s]
    BY <1>u, <1>0, <2>2 DEF Sending, OnlyRequest, SameCall
  <2>6. spent' \subseteq spent /\ <<u, c>> \notin spent' /\ mixed' \subseteq Users
    BY <2>1 DEF IInv, TypeOK
  <2>7. TypeOK'
    BY <1>0, <2>2, <2>3, <2>6 DEF IInv, TypeOK, OnlyRequest
  <2>8. PlaceInv'
    BY <1>0, <2>2, <2>3, PlaceStays DEF IInv, SameCall
  <2>9. OverlapInv'
    BY <1>0, <2>2, <2>4, OverlapStays DEF IInv
  <2>10. DuplicateOnlyIfOverlap'
    BY <1>0, <2>3, RowsStay DEF IInv
  <2>11. SpentInv'
    BY <1>0, <2>3, <2>6 DEF IInv, SpentInv, RowsOf
  <2>12. CodeInv'
    <3> SUFFICES ASSUME NEW v \in Users
                 PROVE  /\ sms[v] # 0 \/ Sending(v)' # {} => RowsOf(v) # {}
                        /\ v \notin mixed' =>
                             /\ \A s, t \in Sending(v)' : s = t
                             /\ \A q \in RowsOf(v) : RowsOf(v) = {q} =>
                                  /\ \A s \in Sending(v)' :
                                       table'[q].otp \in {req'[s].otp, 0}
                                  /\ Sending(v)' = {} /\ sms[v] # 0
                                       => table'[q].otp \in {sms[v], 0}
      BY <1>0, <2>4 DEF CodeInv
    <3>1. CASE v # u
      <4>1. \A q \in RowsOf(v) : table'[q].otp = table[q].otp
        BY <2>3, <3>1 DEF RowsOf
      <4>2. v \in mixed' <=> v \in mixed
        BY <2>1, <3>1
      <4>3. /\ sms[v] # 0 \/ Sending(v) # {} => RowsOf(v) # {}
            /\ v \notin mixed =>
                 /\ \A s, t \in Sending(v) : s = t
                 /\ \A q \in RowsOf(v) : RowsOf(v) = {q} =>
                      /\ \A s \in Sending(v) : table[q].otp \in {req[s].otp, 0}
                      /\ Sending(v) = {} /\ sms[v] # 0 => table[q].otp \in {sms[v], 0}
        BY DEF IInv, CodeInv
      <4>4. Sending(v)' = Sending(v) /\ \A s \in Sending(v) : req'[s] = req[s]
        BY <2>5, <3>1
      <4> QED
        BY <4>1, <4>2, <4>3, <4>4
    <3>2. CASE v = u
      <4>1. v \notin mixed' => Sending(v)' = {r}
        BY <2>1, <2>5, <3>2
      <4>2. \A q \in RowsOf(v) : table'[q].otp = c
        BY <2>3, <3>2 DEF RowsOf
      <4> QED
        BY <2>0, <2>2, <3>2, <4>1, <4>2
    <3> QED
      BY <3>1, <3>2
  <2> QED
    BY <2>7, <2>8, <2>9, <2>10, <2>11, <2>12 DEF IInv
<1> QED
  BY <1>2, <1>3

(* A send_otp request that has stored its code ends.                       *)
LEMMA SendingEnds ==
  ASSUME NEW r \in Requests, OnlyRequest(r), req'[r].pc = "done"
  PROVE  \A v : /\ Sending(v)' = Sending(v) \ {r}
                /\ \A s \in Sending(v)' : req'[s] = req[s]
BY DEF Sending, OnlyRequest

LEMMA SendSMSStep ==
  ASSUME IInv, NEW r \in Requests, SendSMS(r)
  PROVE  IInv'
<1>u. PICK u \in Users : u = req[r].uid
  BY DEF IInv, TypeOK, RequestRecords
<1>0. /\ req[r].pc = "sms" /\ sms' = [sms EXCEPT ![u] = req[r].otp]
      /\ Answer(r, "echoed") /\ UNCHANGED <<table, overlapped, mixed, spent, changed>>
  BY <1>u DEF SendSMS, history
<1>1. req[r].otp \in Codes /\ r \in Sending(u)
  BY <1>u, <1>0 DEF IInv, TypeOK, RequestRecords, PlaceInv, Sending
<1>2. /\ req' \in [Requests -> RequestRecords] /\ OnlyRequest(r) /\ req'[r].pc = "done"
  BY <1>0, AnswerEffect DEF IInv, Replies
<1>3. sms' \in [Users -> Codes \union {0}] /\ sms'[u] = req[r].otp
      /\ \A v \in Users : v # u => sms'[v] = sms[v]
  BY <1>0, <1>1 DEF IInv, TypeOK
<1>4. \A v : RowsOf(v)' = RowsOf(v)
  BY <1>0, SameRows
<1>5. \A v : /\ Sending(v)' = Sending(v) \ {r}
             /\ \A s \in Sending(v)' : req'[s] = req[s]
  BY <1>2, SendingEnds
<1>6. TypeOK'
  BY <1>0, <1>2, <1>3 DEF IInv, TypeOK, OnlyRequest
<1>7. PlaceInv'
  BY <1>0, <1>2, PlaceStays DEF IInv
<1>8. OverlapInv'
  BY <1>0, <1>2, <1>4, OverlapStays DEF IInv
<1>9. DuplicateOnlyIfOverlap' /\ SpentInv'
  BY <1>0 DEF IInv, DuplicateOnlyIfOverlap, SpentInv
<1>10. CodeInv'
  <2> SUFFICES ASSUME NEW v \in Users
               PROVE  /\ sms'[v] # 0 \/ Sending(v)' # {} => RowsOf(v) # {}
                      /\ v \notin mixed =>
                           /\ \A s, t \in Sending(v)' : s = t
                           /\ \A q \in RowsOf(v) : RowsOf(v) = {q} =>
                                /\ \A s \in Sending(v)' :
                                     table[q].otp \in {req'[s].otp, 0}
                                /\ Sending(v)' = {} /\ sms'[v] # 0
                                     => table[q].otp \in {sms'[v], 0}
    BY <1>0, <1>4 DEF CodeInv
  <2>1. /\ sms[v] # 0 \/ Sending(v) # {} => RowsOf(v) # {}
        /\ v \notin mixed =>
             /\ \A s, t \in Sending(v) : s = t
             /\ \A q \in RowsOf(v) : RowsOf(v) = {q} =>
                  /\ \A s \in Sending(v) : table[q].otp \in {req[s].otp, 0}
                  /\ Sending(v) = {} /\ sms[v] # 0 => table[q].otp \in {sms[v], 0}
    BY DEF IInv, CodeInv
  <2>2. CASE v # u
    <3>1. r \notin Sending(v)
      BY <1>u, <2>2 DEF Sending
    <3>2. Sending(v)' = Sending(v) /\ \A s \in Sending(v) : req'[s] = req[s]
      BY <1>5, <3>1
    <3> QED
      BY <1>3, <2>1, <2>2, <3>2
  <2>3. CASE v = u
    <3>1. RowsOf(v) # {}
      BY <1>1, <2>1, <2>3
    <3>2. v \notin mixed => Sending(v)' = {}
      BY <1>1, <1>5, <2>1, <2>3
    <3> QED
      BY <1>1, <1>3, <2>1, <2>3, <3>1, <3>2
  <2> QED
    BY <2>2, <2>3
<1> QED
  BY <1>6, <1>7, <1>8, <1>9, <1>10 DEF IInv

LEMMA StatementFailsStep ==
  ASSUME IInv, NEW r \in Requests, StatementFails(r)
  PROVE  IInv'
<1> DEFINE u == req[r].uid
<1>0. /\ req[r].pc \in {"select", "insert", "update", "sms"}
      /\ \E a \in Replies : Answer(r, a)
      /\ mixed' = IF req[r].pc = "sms" THEN mixed \union {u} ELSE mixed
      /\ UNCHANGED <<table, sms, overlapped, spent, changed>>
  BY DEF StatementFails, Replies
<1>1. /\ req' \in [Requests -> RequestRecords] /\ OnlyRequest(r) /\ req'[r].pc = "done"
  BY <1>0, AnswerEffect DEF IInv
<1>2. CASE req[r].pc # "sms"
  BY <1>0, <1>1, <1>2, Quiet
<1>3. CASE req[r].pc = "sms"
  <2>1. mixed' = mixed \union {u} /\ u \in Users
    BY <1>0, <1>3 DEF IInv, TypeOK, RequestRecords
  <2>2. \A v : RowsOf(v)' = RowsOf(v)
    BY <1>0, SameRows
  <2>3. \A v : /\ Sending(v)' = Sending(v) \ {r}
               /\ \A s \in Sending(v)' : req'[s] = req[s]
    BY <1>1, SendingEnds
  <2>4. TypeOK'
    BY <1>0, <1>1, <2>1 DEF IInv, TypeOK, OnlyRequest
  <2>5. PlaceInv'
    BY <1>0, <1>1, PlaceStays DEF IInv
  <2>6. OverlapInv'
    BY <1>0, <1>1, <2>2, OverlapStays DEF IInv
  <2>7. DuplicateOnlyIfOverlap' /\ SpentInv'
    BY <1>0 DEF IInv, DuplicateOnlyIfOverlap, SpentInv
  <2>8. CodeInv'
    <3> SUFFICES ASSUME NEW v \in Users
                 PROVE  /\ sms[v] # 0 \/ Sending(v)' # {} => RowsOf(v) # {}
                        /\ v \notin mixed' =>
                             /\ \A s, t \in Sending(v)' : s = t
                             /\ \A q \in RowsOf(v) : RowsOf(v) = {q} =>
                                  /\ \A s \in Sending(v)' :
                                       table[q].otp \in {req'[s].otp, 0}
                                  /\ Sending(v)' = {} /\ sms[v] # 0
                                       => table[q].otp \in {sms[v], 0}
      BY <1>0, <2>2 DEF CodeInv
    <3>1. /\ sms[v] # 0 \/ Sending(v) # {} => RowsOf(v) # {}
          /\ v \notin mixed =>
               /\ \A s, t \in Sending(v) : s = t
               /\ \A q \in RowsOf(v) : RowsOf(v) = {q} =>
                    /\ \A s \in Sending(v) : table[q].otp \in {req[s].otp, 0}
                    /\ Sending(v) = {} /\ sms[v] # 0 => table[q].otp \in {sms[v], 0}
      BY DEF IInv, CodeInv
    <3>2. v \notin mixed' => v \notin mixed /\ r \notin Sending(v)
      BY <2>1 DEF Sending
    <3>3. Sending(v)' \subseteq Sending(v)
      BY <2>3
    <3>4. v \notin mixed' =>
            Sending(v)' = Sending(v) /\ \A s \in Sending(v) : req'[s] = req[s]
      BY <2>3, <3>2
    <3> QED
      BY <3>1, <3>2, <3>3, <3>4
  <2> QED
    BY <2>4, <2>5, <2>6, <2>7, <2>8 DEF IInv
<1> QED
  BY <1>2, <1>3

-----------------------------------------------------------------------------
(* The theorems.                                                           *)

LEMMA InitIInv == Init => IInv
<1> SUFFICES ASSUME Init PROVE IInv
  OBVIOUS
<1>1. PICK u \in Users, p \in Passwords, c \in Codes :
        req = [r \in Requests |->
                 [pc |-> "unused", op |-> "new_user", uid |-> u, pw |-> p,
                  otp |-> c, reply |-> "none"]]
  BY DEF Init
<1>2. /\ req \in [Requests -> RequestRecords]
      /\ \A r \in Requests : req[r].pc = "unused"
  BY <1>1 DEF RequestRecords, Places, Ops, Replies, Posted
<1>3. /\ DOMAIN table = {} /\ sms = [v \in Users |-> 0]
      /\ overlapped = {} /\ mixed = {} /\ spent = {} /\ changed = {}
  BY DEF Init
<1>4. TypeOK
  BY <1>2, <1>3 DEF TypeOK
<1>5. PlaceInv /\ OverlapInv
  BY <1>2, <1>3, FS_EmptySet DEF PlaceInv, OverlapInv
<1>6. CodeInv
  <2>1. \A v \in Users : sms[v] = 0 /\ Sending(v) = {} /\ RowsOf(v) = {}
    BY <1>2, <1>3 DEF Sending, RowsOf
  <2> QED
    BY <2>1 DEF CodeInv
<1>7. DuplicateOnlyIfOverlap /\ SpentInv
  BY <1>3 DEF DuplicateOnlyIfOverlap, SpentInv
<1> QED
  BY <1>4, <1>5, <1>6, <1>7 DEF IInv

LEMMA NextIInv == IInv /\ [Next]_vars => IInv'
<1> SUFFICES ASSUME IInv, [Next]_vars PROVE IInv'
  OBVIOUS
<1>1. CASE UNCHANGED vars
  BY <1>1 DEF vars, IInv, TypeOK, PlaceInv, OverlapInv, CodeInv, RowsOf, Sending,
              DuplicateOnlyIfOverlap, SpentInv
<1>2. CASE Next
  <2>1. PICK r \in Requests :
          \/ \E op \in Ops, u \in Users : Post(r, op, u)
          \/ LookUp(r) \/ SelectForVerification(r) \/ Login(r)
          \/ Insert(r) \/ UpdateStatus(r) \/ UpdatePassword(r) \/ UpdateCode(r)
          \/ SendSMS(r) \/ StatementFails(r)
    BY <1>2 DEF Next
  <2> QED
    BY <2>1, PostStep, LookUpStep, SelectStep, InsertStep, UpdateStatusStep,
       UpdatePasswordStep, UpdateCodeStep, SendSMSStep, StatementFailsStep
<1> QED
  BY <1>1, <1>2

LEMMA IInvHolds == Spec => []IInv
BY InitIInv, NextIInv, PTL DEF Spec

(* Type correctness: the rows of user_login and the requests of user.php   *)
(* keep their types, whatever statements interleave or fail.               *)
THEOREM TypeCorrect == Spec => []TypeOK
BY IInvHolds, PTL DEF IInv

(* new_user's test for "user already exists!" fails in one way only: two   *)
(* requests that both looked the id up before either had inserted it.      *)
THEOREM DuplicatesNeedOverlap == Spec => []DuplicateOnlyIfOverlap
BY IInvHolds, PTL DEF IInv

(* user_update_password changes a password with a code that has not        *)
(* changed one before, or with the 0 that it stored itself when a code     *)
(* did: never with 0 on an account that no code has changed.               *)
THEOREM ChangesNeedCodeOrZero == Spec => ChangesByCodeOrZero
<1> DEFINE P == \A s \in DOMAIN table :
                  table'[s].pw # table[s].pw =>
                    /\ \E r \in Requests : /\ req[r].op = "user_update_password"
                                           /\ req[r].pc = "update" /\ req'[r].pc = "done"
                                           /\ req[r].uid = table[s].uid
                                           /\ req[r].otp = table[s].otp
                    /\ IF table[s].otp = 0 THEN table[s].uid \in changed
                                           ELSE <<table[s].uid, table[s].otp>> \notin spent
<1>1. ASSUME IInv, Next PROVE P
  <2> SUFFICES ASSUME NEW s \in DOMAIN table, table'[s].pw # table[s].pw
               PROVE  \E r \in Requests :
                        /\ req[r].op = "user_update_password"
                        /\ req[r].pc = "update" /\ req'[r].pc = "done"
                        /\ req[r].uid = table[s].uid /\ req[r].otp = table[s].otp
    BY <1>1 DEF IInv, SpentInv
  <2>0. table[s] \in Rows
    BY <1>1 DEF IInv, TypeOK
  <2>1. PICK r \in Requests :
          \/ \E op \in Ops, u \in Users : Post(r, op, u)
          \/ LookUp(r) \/ SelectForVerification(r) \/ Login(r)
          \/ Insert(r) \/ UpdateStatus(r) \/ UpdatePassword(r) \/ UpdateCode(r)
          \/ SendSMS(r) \/ StatementFails(r)
    BY <1>1 DEF Next
  <2>2. CASE UpdatePassword(r)
    <3>1. s \in RowsOf(req[r].uid) /\ table[s].otp = req[r].otp
      BY <2>2 DEF UpdatePassword
    <3>2. \E a \in Replies : Answer(r, a)
      BY <2>2 DEF UpdatePassword, Replies
    <3>3. req'[r].pc = "done"
      BY <1>1, <3>2, AnswerEffect DEF IInv
    <3> QED
      BY <2>2, <3>1, <3>3 DEF UpdatePassword, RowsOf
  <2>3. CASE Insert(r)
    <3>1. r \notin DOMAIN table
      BY <1>1, <2>3 DEF Insert, IInv, PlaceInv
    <3> QED
      BY <2>3, <3>1 DEF Insert
  <2>4. CASE UpdateStatus(r)
    <3>1. table'[s] = [table[s] EXCEPT !.status = 1] \/ table'[s] = table[s]
      BY <2>4 DEF UpdateStatus
    <3> QED
      BY <2>0, <3>1 DEF Rows
  <2>5. CASE UpdateCode(r)
    <3>1. table'[s] = table[s] \/ \E c \in Codes : table'[s] = [table[s] EXCEPT !.otp = c]
      BY <2>5 DEF UpdateCode
    <3> QED
      BY <2>0, <3>1 DEF Rows
  <2>6. CASE UNCHANGED table
    BY <2>6
  <2> QED
    BY <2>1, <2>2, <2>3, <2>4, <2>5, <2>6
       DEF Post, LookUp, SelectForVerification, Login, SendSMS, StatementFails
<1>2. ASSUME IInv, [Next]_vars PROVE [P]_vars
  BY <1>1, <1>2
<1> QED
  BY <1>2, IInvHolds, PTL DEF Spec, ChangesByCodeOrZero

(* The code of the user's last SMS is the one the user's single account    *)
(* expects, when no send_otp is under way and none overlapped or failed.   *)
THEOREM LastCodeIsExpected == Spec => []LastSMSIsValid
<1>1. IInv => LastSMSIsValid
  <2> SUFFICES ASSUME IInv, NEW u \in Users,
                      sms[u] # 0, Sending(u) = {}, u \notin mixed,
                      Cardinality(RowsOf(u)) = 1,
                      NEW r \in RowsOf(u)
               PROVE  table[r].otp \in {sms[u], 0}
    BY DEF LastSMSIsValid
  <2>1. IsFiniteSet(RowsOf(u))
    BY FS_Subset DEF IInv, PlaceInv, RowsOf
  <2>2. \E q : RowsOf(u) = {q}
    BY <2>1, FS_Singleton
  <2>3. RowsOf(u) = {r}
    BY <2>2
  <2> QED
    BY <2>3 DEF IInv, CodeInv
<1> QED
  BY <1>1, IInvHolds, PTL

=============================================================================
