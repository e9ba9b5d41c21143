----------------------------- MODULE MCFriends -----------------------------
(* Friends for TLC: two users, one of whom was registered twice (see         *)
(* Accounts), and an id without an account.                                  *)
EXTENDS Friends

CONSTANTS u1, u2, nobody

MCUsers  == {u1, u2}
MCIds    == {u1, u2, nobody}
MCLogins == [f \in MCIds |-> IF f = nobody THEN 0 ELSE IF f = u2 THEN 2 ELSE 1]
=============================================================================
