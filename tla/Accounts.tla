------------------------------ MODULE Accounts ------------------------------
(***************************************************************************)
(* user.php: accounts, verification codes (OTP) and passwords on one table *)
(* `user_login`.                                                           *)
(*                                                                         *)
(* A request runs its SQL statements one by one, with no transaction       *)
(* around them, interleaved with those of the other requests; any          *)
(* statement may fail.  The schema is not part of the repository: a unique *)
(* key on user_id would show as an INSERT that fails.  user_list and       *)
(* user_profile only read and are left out.                                *)
(*                                                                         *)
(* A member of Requests is one HTTP request; it also names the row that it *)
(* inserts.                                                                *)
(***************************************************************************)
EXTENDS Naturals, FiniteSets

CONSTANTS
  Users,       \* user ids
  Passwords,
  Codes,       \* what rand(100000, 999999) may return
  Requests     \* the requests that may be made (the bound of the model)

(* A code is neither 0, which user_update_password stores, nor a value of  *)
(* user_status.                                                            *)
ASSUME CodeAssumption == Codes \subseteq Nat \ {0, 1}

VARIABLES
  table,       \* the rows, named by the request that inserted them
  req,         \* the requests and how far the service has got with them
  sms,         \* the last code each user got by SMS, 0 if none
  overlapped,  \* history: new_user requests that looked up an id at once
  mixed,       \* history: users whose last send_otp was not alone or failed
  spent,       \* history: codes that changed a password and were not reissued
  changed      \* history: users whose password a drawn code has changed

vars == <<table, req, sms, overlapped, mixed, spent, changed>>
history == <<overlapped, mixed, spent, changed>>

Ops == {"new_user", "user_verification", "user_login", "send_otp",
        "user_update_password", "otp_verify"}
Places == {"unused", "select", "insert", "update", "sms", "done"}

(* What is printed: status 1, 0 or -1; the empty array where no branch set *)
(* $json; or JSON behind the SMS provider's answer, which sendSMS echoes.  *)
Replies == {"none", "ok", "no", "unverified", "empty", "echoed"}

(* What a request may carry as otp: any number.  Apart from the codes, 0   *)
(* and 1 are the ones that a column can be equal to.                       *)
Posted == Codes \union {0, 1}

Rows == [uid : Users, pw : Passwords, otp : Codes \union {0}, status : {0, 1}]
RequestRecords ==
  [pc : Places, op : Ops, uid : Users, pw : Passwords, otp : Posted,
   reply : Replies]

(* The rows of user_login and the requests of user.php have their types: in
   particular a status stays 0 or 1, and what is sent by SMS is a code. *)
TypeOK ==
  /\ DOMAIN table \subseteq Requests
  /\ \A r \in DOMAIN table : table[r] \in Rows
  /\ req \in [Requests -> RequestRecords]
  /\ \A r \in Requests : req[r].pc = "sms" => req[r].otp \in Codes
  /\ sms \in [Users -> Codes \union {0}]
  /\ overlapped \subseteq Requests
  /\ mixed \subseteq Users
  /\ spent \subseteq Users \X Codes
  /\ changed \subseteq Users

Init ==
  /\ table = [r \in {} |-> {}]
  /\ \E u \in Users, p \in Passwords, c \in Codes :
       req = [r \in Requests |->
                [pc |-> "unused", op |-> "new_user", uid |-> u, pw |-> p,
                 otp |-> c, reply |-> "none"]]
  /\ sms = [u \in Users |-> 0]
  /\ overlapped = {}
  /\ mixed = {}
  /\ spent = {}
  /\ changed = {}

RowsOf(u) == {r \in DOMAIN table : table[r].uid = u}

(* The request ends with the answer a; it goes on at the statement pc.     *)
Answer(r, a) == req' = [req EXCEPT ![r] = [@ EXCEPT !.pc = "done", !.reply = a]]
GoOn(r, pc)  == req' = [req EXCEPT ![r].pc = pc]

-----------------------------------------------------------------------------
(* A phone posts a request.                                                *)
FirstStatement(op) ==
  IF op \in {"send_otp", "user_update_password"} THEN "update" ELSE "select"

(* The parameters a request does not have are left as they were.           *)
Post(r, op, u) ==
  /\ req[r].pc = "unused"
  /\ \E p \in Passwords, c \in Posted :
       /\ op \notin {"new_user", "user_login", "user_update_password"} => p = req[r].pw
       /\ op \notin {"user_verification", "user_update_password", "otp_verify"}
            => c = req[r].otp
       /\ req' = [req EXCEPT ![r] = [pc |-> FirstStatement(op), op |-> op, uid |-> u,
                                     pw |-> p, otp |-> c, reply |-> "none"]]
  /\ UNCHANGED <<table, sms, history>>

-----------------------------------------------------------------------------
(* The SELECT statements.                                                  *)

(* Mutant: the rows that were found are not looked at.                     *)
LookUpIgnored(r) ==
  /\ req[r].pc = "select" /\ req[r].op = "new_user"
  /\ GoOn(r, "insert")
  /\ UNCHANGED <<table, sms, history>>

(* new_user: "user already exists!", or on to the INSERT.                  *)
LookUp(r) ==
  LET u == req[r].uid
      others == {s \in Requests : req[s].op = "new_user" /\ req[s].uid = u
                                  /\ req[s].pc = "insert"}
  IN
  /\ req[r].pc = "select" /\ req[r].op = "new_user"
  /\ IF RowsOf(u) # {}
       THEN Answer(r, "no") /\ UNCHANGED overlapped
       ELSE /\ GoOn(r, "insert")
            /\ overlapped' = overlapped \union
                 IF others = {} THEN {} ELSE others \union {r}
  /\ UNCHANGED <<table, sms, mixed, spent, changed>>

(* user_verification asks whether the user exists, otp_verify whether      *)
(* there is a row with user_status = $otp.                                 *)
SelectForVerification(r) ==
  LET found == {s \in RowsOf(req[r].uid) :
                  req[r].op = "otp_verify" => table[s].status = req[r].otp}
  IN
  /\ req[r].pc = "select" /\ req[r].op \in {"user_verification", "otp_verify"}
  /\ IF found # {} THEN GoOn(r, "update")
     ELSE Answer(r, IF req[r].op = "otp_verify" THEN "empty" ELSE "no")
  /\ UNCHANGED <<table, sms, history>>

(* user_login: the first row with this password decides.                   *)
Login(r) ==
  LET found == {s \in RowsOf(req[r].uid) : table[s].pw = req[r].pw} IN
  /\ req[r].pc = "select" /\ req[r].op = "user_login"
  /\ \/ found = {} /\ Answer(r, "no")
     \/ \E s \in found : Answer(r, IF table[s].status = 0 THEN "unverified" ELSE "ok")
  /\ UNCHANGED <<table, sms, history>>

-----------------------------------------------------------------------------
(* The statements that write.                                              *)

(* new_user: INSERT with a new code, which is not sent, and user_status 0. *)
Insert(r) ==
  /\ req[r].pc = "insert"
  /\ \E c \in Codes :
       /\ table' = [s \in DOMAIN table \union {r} |->
                      IF s = r THEN [uid |-> req[r].uid, pw |-> req[r].pw,
                                     otp |-> c, status |-> 0]
                               ELSE table[s]]
       /\ spent' = spent \ {<<req[r].uid, c>>}
  /\ Answer(r, "ok")
  /\ UNCHANGED <<sms, overlapped, mixed, changed>>

(* user_verification: UPDATE ... and otp = $otp.  The query succeeds       *)
(* whether or not a row matches, so the answer is "Account Verified".      *)
(* otp_verify: UPDATE of the user's rows.                                  *)
UpdateStatus(r) ==
  LET hit == {s \in RowsOf(req[r].uid) :
                req[r].op = "user_verification" => table[s].otp = req[r].otp}
  IN
  /\ req[r].pc = "update" /\ req[r].op \in {"user_verification", "otp_verify"}
  /\ table' = [s \in DOMAIN table |->
                 IF s \in hit THEN [table[s] EXCEPT !.status = 1] ELSE table[s]]
  /\ Answer(r, "ok")
  /\ UNCHANGED <<sms, history>>

(* Mutant: the code is not reset.                                          *)
UpdatePasswordKeepsCode(r) ==
  LET u == req[r].uid
      hit == {s \in RowsOf(u) : table[s].otp = req[r].otp}
  IN
  /\ req[r].pc = "update" /\ req[r].op = "user_update_password"
  /\ table' = [s \in DOMAIN table |->
                 IF s \in hit THEN [table[s] EXCEPT !.pw = req[r].pw] ELSE table[s]]
  /\ Answer(r, IF hit # {} THEN "ok" ELSE "no")
  /\ IF hit # {} /\ req[r].otp # 0
       THEN spent' = spent \union {<<u, req[r].otp>>} /\ changed' = changed \union {u}
       ELSE UNCHANGED <<spent, changed>>
  /\ UNCHANGED <<sms, overlapped, mixed>>

(* user_update_password: UPDATE ... SET user_password, otp = 0 ... and     *)
(* otp = $otp; the affected rows decide.  A row that is set to what it     *)
(* holds already (otp 0 and the same password) is not affected.            *)
UpdatePassword(r) ==
  LET u == req[r].uid
      hit == {s \in RowsOf(u) : table[s].otp = req[r].otp}
      affected == {s \in hit : table[s].otp # 0 \/ table[s].pw # req[r].pw}
  IN
  /\ req[r].pc = "update" /\ req[r].op = "user_update_password"
  /\ table' = [s \in DOMAIN table |->
                 IF s \in hit THEN [table[s] EXCEPT !.pw = req[r].pw, !.otp = 0]
                              ELSE table[s]]
  /\ Answer(r, IF affected # {} THEN "ok" ELSE "no")
  /\ IF hit # {} /\ req[r].otp # 0
       THEN spent' = spent \union {<<u, req[r].otp>>} /\ changed' = changed \union {u}
       ELSE UNCHANGED <<spent, changed>>
  /\ UNCHANGED <<sms, overlapped, mixed>>

(* send_otp requests of u that have stored their code and not sent it.     *)
Sending(u) == {s \in Requests : req[s].op = "send_otp" /\ req[s].uid = u
                                /\ req[s].pc = "sms"}

(* send_otp: UPDATE ... SET otp.  When no row changes (no such user, or    *)
(* the same code again) nothing is sent.                                   *)
UpdateCode(r) ==
  LET u == req[r].uid IN
  /\ req[r].pc = "update" /\ req[r].op = "send_otp"
  /\ \E c \in Codes :
       IF \A s \in RowsOf(u) : table[s].otp = c
         THEN Answer(r, "empty") /\ UNCHANGED <<table, mixed, spent>>
         ELSE /\ table' = [s \in DOMAIN table |->
                             IF s \in RowsOf(u) THEN [table[s] EXCEPT !.otp = c]
                                                ELSE table[s]]
              /\ req' = [req EXCEPT ![r] = [@ EXCEPT !.pc = "sms", !.otp = c]]
              /\ mixed' = IF Sending(u) # {} THEN mixed \union {u} ELSE mixed \ {u}
              /\ spent' = spent \ {<<u, c>>}
  /\ UNCHANGED <<sms, overlapped, changed>>

(* Mutant: the SMS carries a code of its own.                              *)
SendSMSOther(r) ==
  /\ req[r].pc = "sms"
  /\ \E c \in Codes : sms' = [sms EXCEPT ![req[r].uid] = c]
  /\ Answer(r, "echoed")
  /\ UNCHANGED <<table, history>>

(* send_otp: SELECT mob, then sendSMS with the code of this request.       *)
SendSMS(r) ==
  /\ req[r].pc = "sms"
  /\ sms' = [sms EXCEPT ![req[r].uid] = req[r].otp]
  /\ Answer(r, "echoed")
  /\ UNCHANGED <<table, history>>

(* A statement fails: what the else branch of its test answers, or the     *)
(* empty array where there is none.                                        *)
StatementFails(r) ==
  /\ req[r].pc \in {"select", "insert", "update", "sms"}
  /\ Answer(r, IF \/ req[r].pc = "sms"
                  \/ /\ req[r].pc = "select"
                     /\ req[r].op \in {"new_user", "user_verification"}
               THEN "empty" ELSE "no")
  /\ mixed' = IF req[r].pc = "sms" THEN mixed \union {req[r].uid} ELSE mixed
  /\ UNCHANGED <<table, sms, overlapped, spent, changed>>

Next ==
  \E r \in Requests :
    \/ \E op \in Ops, u \in Users : Post(r, op, u)
    \/ LookUp(r) \/ SelectForVerification(r) \/ Login(r)
    \/ Insert(r) \/ UpdateStatus(r) \/ UpdatePassword(r) \/ UpdateCode(r)
    \/ SendSMS(r) \/ StatementFails(r)

Spec == Init /\ [][Next]_vars

-----------------------------------------------------------------------------
(* Properties.                                                             *)

(* A user id has two accounts only if both new_user requests looked it up  *)
(* before either of them had inserted it: the test for "user already       *)
(* exists!" fails in no other way.                                         *)
DuplicateOnlyIfOverlap ==
  \A r, s \in DOMAIN table :
    r # s /\ table[r].uid = table[s].uid => r \in overlapped /\ s \in overlapped

(* Only user_update_password changes a password, with the code that the    *)
(* account expects, and never twice with the same one unless the service draws it  *)
(* again.  What it stores instead of a used code is 0, and 0 is a code     *)
(* too: between a change and the next send_otp the password changes again  *)
(* for any request that carries 0.  On an account whose password no code   *)
(* has changed, 0 changes nothing.                                         *)
ChangesByCodeOrZero ==
  [][\A s \in DOMAIN table :
       table'[s].pw # table[s].pw =>
         /\ \E r \in Requests : /\ req[r].op = "user_update_password"
                                /\ req[r].pc = "update" /\ req'[r].pc = "done"
                                /\ req[r].uid = table[s].uid
                                /\ req[r].otp = table[s].otp
         /\ IF table[s].otp = 0 THEN table[s].uid \in changed
                                ELSE <<table[s].uid, table[s].otp>> \notin spent]_vars

(* When no send_otp of the user is between its UPDATE and its SMS, the     *)
(* code of the user's last SMS is the one the account expects, unless two  *)
(* send_otp requests overlapped, the last one failed after its UPDATE, the *)
(* code has been used, or the user has two accounts.                       *)
LastSMSIsValid ==
  \A u \in Users :
    sms[u] # 0 /\ Sending(u) = {} /\ u \notin mixed /\ Cardinality(RowsOf(u)) = 1
      => \A r \in RowsOf(u) : table[r].otp \in {sms[u], 0}

(* "Account Verified" is answered only if the account is verified: a wrong *)
(* code is answered by "Invalid OTP!" (user.php:46-50).                    *)
VerifiedMeansVerified ==
  \A r \in Requests :
    req[r].op = "user_verification" /\ req[r].reply = "ok"
      => \E s \in RowsOf(req[r].uid) : table[s].status = 1

=============================================================================
