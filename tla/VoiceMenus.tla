----------------------------- MODULE VoiceMenus -----------------------------
(***************************************************************************)
(* The lists that are worked with the volume keys: MainActivity's menu,    *)
(* the friends of ViewFriendsActivity and the apps of AppsListActivity.    *)
(* VOLUME_DOWN moves a cursor, the field i of the screen, and speaks the   *)
(* entry; VOLUME_UP opens the entry at the cursor.  The user cannot see    *)
(* the cursor: what was spoken last is all there is to go by.              *)
(*                                                                         *)
(* The entries of a list are 0, 1, ...  While a request runs, a modal      *)
(* dialog gets the keys.  The other screens the menu opens are "Other".    *)
(* A screen may be recreated at any time (a rotation, or Android destroyed *)
(* it); that the whole process dies is in AppSession.                      *)
(***************************************************************************)
EXTENDS Integers, Sequences

CONSTANTS
  MaxFriends,   \* bound on the length of the friends list
  MaxApps,      \* bound on the length of the list of apps
  Packages      \* the packages that have launcher entries

ASSUME SizeAssumption == MaxFriends \in Nat \ {0} /\ MaxApps \in Nat \ {0}

VARIABLES
  screen,     \* the screen on top
  i,          \* the cursor of each list
  said,       \* the entry each list spoke last, -1 if none
  friends,    \* the length of list_friends
  fetching,   \* the friend whose messages are being fetched; -1: the list
              \* of friends is; -2: no request runs
  talking,    \* the friend_id that MessageActivity was started with, -1 if none
  orphan,     \* "one" if a request runs whose dialog was destroyed
  apps,       \* the package of each launcher entry that loadApps found
  gone,       \* the packages that were uninstalled after loadApps
  opened,     \* the launcher entry that was started last, -1 if none
  heard,      \* history: the first MaxFriends friends that were spoken
  stepped,    \* history: lists with a VOLUME_DOWN since they were created
  touched     \* history: the app spoken last was spoken by a touch

vars == <<screen, i, said, friends, fetching, talking, orphan, apps, gone, opened,
          heard, stepped, touched>>
appList == <<apps, gone, opened, touched>>

Lists   == {"Main", "Friends", "Apps"}
Size(l) == CASE l = "Main" -> 6 [] l = "Friends" -> friends [] l = "Apps" -> Len(apps)

(* External: getLaunchIntentForPackage knows the package and not the entry *)
(* and takes the first launcher entry of the package.                      *)
LaunchEntry(k) ==
  CHOOSE e \in 0 .. Len(apps) - 1 :
    apps[e + 1] = apps[k + 1] /\ \A d \in 0 .. e - 1 : apps[d + 1] # apps[k + 1]

(* Every cursor stays in its list, or is the one that stands before it. *)
TypeOK ==
  /\ screen \in Lists \union {"Message", "Other", "App", "Crashed"}
  /\ friends \in 1 .. MaxFriends
  /\ i \in [Lists -> Int] /\ \A l \in Lists : i[l] \in -1 .. Size(l) - 1
  /\ said \in [Lists -> Int] /\ \A l \in Lists : said[l] >= -1
  /\ fetching \in -2 .. MaxFriends - 1
  /\ talking \in -1 .. MaxFriends - 1
  /\ orphan \in {"none", "one"}
  /\ apps \in Seq(Packages) /\ Len(apps) <= MaxApps
  /\ screen \in {"Apps", "App"} => apps # <<>>
  /\ gone \subseteq Packages
  /\ opened \in {-1} \union {LaunchEntry(k) : k \in 0 .. Len(apps) - 1}
  /\ stepped \subseteq Lists
  /\ touched \in {"no", "yes"}
  /\ heard \in Seq(0 .. MaxFriends - 1)

(* The fields of the activities: i is -1 in two of them, 0 in the third.   *)
FirstCursor == [Main |-> -1, Friends |-> 0, Apps |-> -1]

Init ==
  /\ screen = "Main"
  /\ i = FirstCursor
  /\ said = [l \in Lists |-> -1]
  /\ friends = 1
  /\ fetching = -2
  /\ talking = -1
  /\ orphan = "none"
  /\ apps = <<>>
  /\ gone = {}
  /\ opened = -1
  /\ heard = <<>>
  /\ stepped = {}
  /\ touched = "no"

On(l) == screen = l /\ fetching = -2

-----------------------------------------------------------------------------
(* VOLUME_DOWN.                                                            *)

(* Mutant: the wrap-around is tested with >.                               *)
AdvanceTooFar(l) ==
  /\ i' = [i EXCEPT ![l] = IF @ + 1 > Size(l) THEN 0 ELSE @ + 1]
  /\ said' = [said EXCEPT ![l] = i'[l]]

(* MainActivity and AppsListActivity: i++, back to 0 at the end, speak.    *)
Advance(l) ==
  /\ i' = [i EXCEPT ![l] = IF @ + 1 >= Size(l) THEN 0 ELSE @ + 1]
  /\ said' = [said EXCEPT ![l] = i'[l]]

(* Mutant: back to 0 at the end of the list only.                          *)
SpeakAndAdvance ==
  /\ said' = [said EXCEPT !["Friends"] = i["Friends"]]
  /\ i' = [i EXCEPT !["Friends"] = IF @ + 1 >= friends THEN 0 ELSE @ + 1]

(* ViewFriendsActivity: speak, i++, back to 0 if size() >= i.              *)
SpeakFriend ==
  /\ said' = [said EXCEPT !["Friends"] = i["Friends"]]
  /\ i' = [i EXCEPT !["Friends"] = IF friends >= @ + 1 THEN 0 ELSE @ + 1]

VolumeDown ==
  /\ \/ On("Main") /\ Advance("Main") /\ UNCHANGED <<heard, touched>>
     \/ On("Apps") /\ Advance("Apps") /\ touched' = "no" /\ UNCHANGED heard
     \/ /\ On("Friends")
        /\ SpeakFriend
        /\ heard' = IF Len(heard) < MaxFriends THEN Append(heard, i["Friends"]) ELSE heard
        /\ UNCHANGED touched
  /\ stepped' = stepped \union {screen}
  /\ UNCHANGED <<screen, friends, fetching, talking, orphan, apps, gone, opened>>

-----------------------------------------------------------------------------
(* VOLUME_UP and touch.                                                    *)

(* loadApps: the launcher entries there are; the app itself has one.       *)
LoadApps ==
  /\ \E n \in 1 .. MaxApps : apps' \in [1 .. n -> Packages]
  /\ gone' = {}
  /\ touched' = "no"

(* navigation(k); the support app (2) may not be installed.                *)
Navigation(k) ==
  \/ k \in {-1, 2} /\ UNCHANGED <<screen, i, said, fetching, appList, stepped>>
  \/ k = 0 /\ fetching' = -1 /\ UNCHANGED <<screen, i, said, appList, stepped>>
  \/ k \in 1 .. 4 /\ screen' = "Other" /\ UNCHANGED <<i, said, fetching, appList, stepped>>
  \/ /\ k = 5
     /\ screen' = "Apps"
     /\ i' = [i EXCEPT !["Apps"] = -1]
     /\ said' = [said EXCEPT !["Apps"] = -1]
     /\ LoadApps
     /\ opened' = -1
     /\ stepped' = stepped \ {"Apps"}
     /\ UNCHANGED fetching

OpenEntry ==
  /\ On("Main")
  /\ \E k \in {i["Main"]} \union (0 .. 5) : Navigation(k)
  /\ UNCHANGED <<friends, talking, orphan, heard>>

(* FriendListrExecuteTask: a list that is not empty opens a new            *)
(* ViewFriendsActivity.                                                    *)
FriendsReplied ==
  /\ fetching = -1 /\ orphan = "none"
  /\ fetching' = -2
  /\ \/ /\ screen' = "Friends"
        /\ friends' \in 1 .. MaxFriends
        /\ i' = [i EXCEPT !["Friends"] = 0]
        /\ said' = [said EXCEPT !["Friends"] = -1]
        /\ heard' = <<>>
        /\ stepped' = stepped \ {"Friends"}
     \/ UNCHANGED <<screen, friends, i, said, heard, stepped>>
  /\ UNCHANGED <<talking, orphan, appList>>

(* gotoMessage, by VOLUME_UP or by a touch anywhere on the list.           *)
GotoMessage ==
  /\ On("Friends")
  /\ fetching' = i["Friends"]
  /\ UNCHANGED <<screen, i, said, friends, talking, orphan, appList, heard, stepped>>

(* NewMessageExecuteTask: any JSON opens MessageActivity with the friend   *)
(* at the cursor, and the messages that were fetched.                      *)
MessagesReplied ==
  /\ fetching >= 0 /\ orphan = "none"
  /\ fetching' = -2
  /\ \/ screen' = "Message" /\ talking' = i["Friends"]
     \/ UNCHANGED <<screen, talking>>
  /\ UNCHANGED <<i, said, friends, orphan, appList, heard, stepped>>

(* apps.get(k) throws outside the list, startActivity(null) for an app     *)
(* that is gone.                                                           *)
LaunchApp(k) ==
  /\ IF k \in 0 .. Len(apps) - 1 /\ apps[k + 1] \notin gone
       THEN screen' = "App" /\ opened' = LaunchEntry(k)
       ELSE screen' = "Crashed" /\ UNCHANGED opened
  /\ UNCHANGED <<i, friends, fetching, talking, orphan, apps, gone, heard, stepped>>

(* VOLUME_UP takes the app at the cursor and speaks nothing; a touch       *)
(* speaks the app that it opens and leaves the cursor where it is.         *)
OpenApp  == On("Apps") /\ LaunchApp(i["Apps"]) /\ UNCHANGED <<said, touched>>
TouchApp ==
  /\ On("Apps")
  /\ \E k \in 0 .. Len(apps) - 1 :
       said' = [said EXCEPT !["Apps"] = k] /\ touched' = "yes" /\ LaunchApp(k)

(* External: an app is uninstalled.                                        *)
Uninstall ==
  /\ \E p \in Packages \ gone : gone' = gone \union {p}
  /\ UNCHANGED <<screen, i, said, friends, fetching, talking, orphan, apps, opened,
                 heard, stepped, touched>>

-----------------------------------------------------------------------------
(* The screen on top is recreated: its field i begins again, the user      *)
(* still has the last entry in mind.  The dialog is destroyed and the      *)
(* AsyncTask is not.  AppsListActivity loads its list again.               *)
Recreate ==
  /\ screen \in Lists
  /\ i' = [i EXCEPT ![screen] = FirstCursor[screen]]
  /\ IF screen = "Apps"
       THEN LoadApps /\ opened' = -1
       ELSE UNCHANGED appList
  /\ IF fetching = -2 THEN UNCHANGED orphan ELSE orphan' = "one"
  /\ fetching' = -2
  /\ stepped' = stepped \ {screen}
  /\ UNCHANGED <<screen, said, friends, talking, heard>>

(* onPostExecute of a request whose dialog was destroyed: dismiss()        *)
(* throws.  Tasks run one after the other, so that this comes first.       *)
OrphanReplies ==
  /\ orphan = "one" /\ screen # "Crashed"
  /\ screen' = "Crashed"
  /\ UNCHANGED <<i, said, friends, fetching, talking, orphan, appList, heard, stepped>>

(* The back key: MainActivity keeps it.                                    *)
Back ==
  /\ fetching = -2 /\ screen \in {"Friends", "Apps", "Message", "Other", "App"}
  /\ screen' = CASE screen = "Message" -> "Friends"
                 [] screen = "App"     -> "Apps"
                 [] OTHER              -> "Main"
  /\ talking' = -1
  /\ UNCHANGED <<i, said, friends, fetching, orphan, appList, heard, stepped>>

Next ==
  \/ VolumeDown \/ OpenEntry \/ FriendsReplied \/ GotoMessage \/ MessagesReplied
  \/ OpenApp \/ TouchApp \/ Uninstall \/ Back \/ Recreate \/ OrphanReplies

Spec == Init /\ [][Next]_vars

-----------------------------------------------------------------------------
(* Properties.                                                             *)

(* What VOLUME_UP opens is what was spoken last, in each of the lists,     *)
(* unless that was an app that was touched: a touch speaks and does not    *)
(* move the cursor.  Before the first VOLUME_DOWN of a screen, and so      *)
(* after a recreation too, whatever was spoken, it opens nothing (-1) or   *)
(* the first friend.  An app opens at the first entry of its package.      *)
CursorOnSpoken ==
  /\ \A l \in stepped : i[l] = said[l] \/ (l = "Apps" /\ touched = "yes")
  /\ \A l \in Lists \ stepped : i[l] = FirstCursor[l]
  /\ screen = "App" =>
       \/ opened = LaunchEntry(said["Apps"])
       \/ touched = "yes" /\ opened = LaunchEntry(i["Apps"])

(* The friend a message is dictated to is the one that was spoken last, or *)
(* the first one if none was: requests and replies included.               *)
TalksToSpoken ==
  screen = "Message" =>
    talking = IF said["Friends"] = -1 THEN 0 ELSE said["Friends"]

(* A crash has one of three causes: VOLUME_UP on the list of apps before   *)
(* the first VOLUME_DOWN of this AppsListActivity, for all that a touch or *)
(* an earlier instance may have spoken; an app that was uninstalled; a     *)
(* reply to a screen that was recreated meanwhile.  The cursor leaves the  *)
(* list in no other way.                                                   *)
CrashOnlyUnprepared ==
  screen = "Crashed" => "Apps" \notin stepped \/ gone # {} \/ orphan = "one"

(* "select Friend" (ViewFriendsActivity:74) offers the first friend only:  *)
(* whatever the user presses, however long the list, no other friend is    *)
(* spoken, and messages are fetched from and sent to no other.             *)
OnlyFirstFriend ==
  /\ \A n \in DOMAIN heard : heard[n] = 0
  /\ fetching <= 0 /\ talking <= 0

=============================================================================
