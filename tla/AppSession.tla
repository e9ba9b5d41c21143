----------------------------- MODULE AppSession -----------------------------
(***************************************************************************)
(* Who is signed in: LoginActivity, Session, SignupMenuActivity and        *)
(* SignupActivity, and the screens behind them, which send requests in the *)
(* user's name.                                                            *)
(*                                                                         *)
(* Session keeps three preferences, each written by a commit() of its own. *)
(* LoginActivity.session, the static field through which the other screens *)
(* read them, is set by LoginActivity alone and dies with the process; the *)
(* back stack of screens outlives the process.  A request runs in an       *)
(* AsyncTask behind a modal dialog, so that its screen takes no input;     *)
(* recreating the screen (a rotation) destroys the dialog and not the      *)
(* task.  The UI thread takes one step at a time.                          *)
(*                                                                         *)
(* CameraActivity, always the screen on top, needs two permissions.  It    *)
(* puts its fragment in place when it is created for the first time or     *)
(* when the system's dialog has granted both; afterwards the fragment is   *)
(* part of the saved state, from which a recreated activity gets it back.  *)
(***************************************************************************)
EXTENDS Naturals, Sequences, SequencesExt

CONSTANTS
  Users,        \* user ids
  BlindUsers,   \* those whose account has user_type "Blind"; else "Friend"
  NoUser        \* the empty string

(* An account with the empty id is left out, although neither the app nor  *)
(* user.php refuses one: its login would count as none at the next start.  *)
ASSUME UsersAssumption == BlindUsers \subseteq Users /\ NoUser \notin Users

VARIABLES
  prefs,      \* the preferences, on disk
  session,    \* LoginActivity.session is set
  alive,      \* there is a process
  stack,      \* the back stack, the last screen on top
  asleep,     \* how many screens at the bottom were not recreated
              \* since the process began
  task,       \* the AsyncTask whose dialog is up
  orphan,     \* there is an AsyncTask whose screen was recreated
  storing,    \* what LoginExecuteTask.onPostExecute does next
  restored,   \* history: this process began with a screen other than Login
  cut,        \* history: the last login was killed between its commits
  granted,    \* the app has CAMERA and WRITE_EXTERNAL_STORAGE
  asking,     \* CameraActivity waits for a permission result
  fragment,   \* CameraActivity has its CameraConnectionFragment
  elsewhere   \* history: the permissions were granted in the system settings
              \* while CameraActivity waited for them

camera == <<granted, asking, fragment, elsewhere>>
vars == <<prefs, session, alive, stack, asleep, task, orphan, storing, restored,
          cut, camera>>

Leaves  == {"Dial", "Camera", "Apps"}
Screens == {"Login", "SignupMenu", "Signup", "Main", "Friends", "Message",
            "Settings", "AddFriend"} \union Leaves
Kinds   == {"none", "login", "signup", "friends_list", "get_message", "send_msg",
            "send_friends_request"}
TypeOf(u) == IF u \in BlindUsers THEN "Blind" ELSE "Friend"
NoType  == ""   \* where no user type is stored
NoTask  == [kind |-> "none", user |-> NoUser]

(* Preferences, back stack and permissions have their types; a sleeping screen
   is one of the back stack. *)
TypeOK ==
  /\ prefs \in [usename : Users \union {NoUser}, password : Users \union {NoUser},
                usertype : {NoType, "Blind", "Friend"}]
  /\ session \in BOOLEAN
  /\ alive \in BOOLEAN
  /\ stack \in Seq(Screens)
  /\ asleep \in 0 .. Len(stack)
  /\ task \in [kind : Kinds, user : Users \union {NoUser}]
  /\ orphan \in BOOLEAN
  /\ storing \in {"nothing", "password", "usertype", "screen"}
  /\ restored \in BOOLEAN
  /\ cut \in BOOLEAN
  /\ granted \in BOOLEAN
  /\ asking \in BOOLEAN
  /\ fragment \in BOOLEAN
  /\ elsewhere \in BOOLEAN

(* The app is installed and not started yet.                               *)
Init ==
  /\ prefs = [usename |-> NoUser, password |-> NoUser, usertype |-> NoType]
  /\ session = FALSE
  /\ alive = FALSE
  /\ stack = <<>>
  /\ asleep = 0
  /\ task = NoTask
  /\ orphan = FALSE
  /\ storing = "nothing"
  /\ restored = FALSE
  /\ cut = FALSE
  /\ granted = FALSE
  /\ asking = FALSE
  /\ fragment = FALSE
  /\ elsewhere = FALSE

-----------------------------------------------------------------------------
(* Screens.                                                                *)

OnTop(s) == stack # <<>> /\ Last(stack) = s

(* The screen s is on top and takes input.                                 *)
Top(s) == alive /\ OnTop(s) /\ task = NoTask /\ storing = "nothing" /\ ~asking

(* Mutants: the field session is left to the login; the user type is not   *)
(* looked at.                                                              *)
LoginOnCreateNoSession(below) ==
  LET in == prefs.usename # NoUser /\ prefs.usertype = "Blind" IN
  /\ session' = (session \/ ~in)
  /\ stack' = Append(below, IF in THEN "Main" ELSE "Login")
LoginOnCreateAnyType(below) ==
  /\ session' = TRUE
  /\ stack' = Append(below, IF prefs.usename # NoUser THEN "Main" ELSE "Login")

(* LoginActivity.onCreate sets the field and hands over to MainActivity if *)
(* the preferences name a blind user.                                      *)
LoginOnCreate(below) ==
  /\ session' = TRUE
  /\ stack' = Append(below, IF prefs.usename # NoUser /\ prefs.usertype = "Blind"
                              THEN "Main" ELSE "Login")

(* CameraActivity.onCreate: super.onCreate brings a saved fragment back;   *)
(* with the permissions, setFragment unless there is a saved state;        *)
(* without, requestPermission.  A request that was out stays out.          *)
CameraOnCreate(saved) ==
  /\ fragment' = IF saved THEN fragment ELSE granted
  /\ asking' = (asking \/ ~granted)
  /\ elsewhere' = (saved /\ elsewhere)
  /\ UNCHANGED granted

(* The launcher starts LoginActivity where no screen is left, or else the  *)
(* process, by recreating the screen that was on top (external: Android).  *)
Launch ==
  /\ ~alive \/ stack = <<>>
  /\ alive' = TRUE
  /\ IF stack = <<>> \/ Last(stack) = "Login"
       THEN /\ LoginOnCreate(IF stack = <<>> THEN <<>> ELSE Front(stack))
            /\ restored' = FALSE
            /\ UNCHANGED camera
       ELSE /\ restored' = TRUE
            /\ IF OnTop("Camera") THEN CameraOnCreate(TRUE) ELSE UNCHANGED camera
            /\ UNCHANGED <<session, stack>>
  /\ asleep' = Len(stack') - 1
  /\ UNCHANGED <<prefs, task, orphan, storing, cut>>

(* startActivity, with finish() of the screen on top or without.           *)
Push(s)    == stack' = Append(stack, s) /\ UNCHANGED asleep
Replace(s) == stack' = Append(Front(stack), s) /\ UNCHANGED asleep

(* The back key.  MainActivity.onKeyDown swallows it.  A screen below that *)
(* sleeps is created again.                                                *)
Back ==
  /\ \E s \in Screens \ {"Main"} : Top(s)
  /\ LET below == Front(stack) IN
     IF below # <<>> /\ asleep = Len(below)
       THEN /\ asleep' = asleep - 1
            /\ IF Last(below) = "Login" THEN LoginOnCreate(Front(below))
               ELSE stack' = below /\ UNCHANGED session
       ELSE stack' = below /\ UNCHANGED <<session, asleep>>
  /\ fragment' = FALSE
  /\ UNCHANGED <<prefs, alive, task, orphan, storing, restored, cut, granted, asking,
                 elsewhere>>

(* Clicks and keys that lead from screen to screen.                        *)
Navigate ==
  /\ \/ Top("Login") /\ Push("SignupMenu")
     \/ Top("SignupMenu") /\ Replace("Signup")
     \/ Top("Main") /\ \E s \in (Leaves \ {"Camera"}) \union {"Settings"} : Push(s)
     \/ Top("Settings") /\ Push("AddFriend")
  /\ UNCHANGED <<prefs, session, alive, task, orphan, storing, restored, cut, camera>>

OpenCameraScreen ==
  /\ Top("Main") /\ Push("Camera")
  /\ CameraOnCreate(FALSE)
  /\ UNCHANGED <<prefs, session, alive, task, orphan, storing, restored, cut>>

-----------------------------------------------------------------------------
(* The process ends.                                                       *)

(* The back stack may be kept or not.                                      *)
ProcessDies(kept) ==
  /\ alive' = FALSE
  /\ session' = FALSE
  /\ stack' \in {<<>>, kept}
  /\ asleep' = Len(stack')
  /\ task' = NoTask
  /\ orphan' = FALSE
  /\ storing' = "nothing"
  /\ cut' = (cut \/ storing \in {"password", "usertype"})
  /\ LET there == stack' # <<>> /\ Last(stack') = "Camera" IN
       /\ fragment' = (fragment /\ there)
       /\ asking' \in {FALSE, asking /\ there}
  /\ UNCHANGED <<prefs, restored, elsewhere>>

Kill == alive /\ ProcessDies(stack) /\ UNCHANGED granted

(* An uncaught exception: the screen on top is gone (external: Android).   *)
Crash == ProcessDies(Front(stack)) /\ UNCHANGED granted

-----------------------------------------------------------------------------
(* CameraActivity's permissions.                                           *)

(* Mutant: the fragment is set only if the permissions are new.            *)
PermissionResultOnlyNew ==
  /\ alive /\ asking
  /\ \/ granted' = TRUE /\ asking' = FALSE /\ fragment' = (fragment \/ ~granted)
     \/ ~granted /\ asking' = TRUE /\ UNCHANGED <<granted, fragment>>
  /\ UNCHANGED <<prefs, session, alive, stack, asleep, task, orphan, storing,
                 restored, cut, elsewhere>>

(* onRequestPermissionsResult: both granted, or else (one, none, or the    *)
(* empty result of a cancelled dialog) requestPermission again.  When the  *)
(* user has ruled out being asked, the denial comes without a dialog.      *)
PermissionResult ==
  /\ alive /\ asking
  /\ \/ granted' = TRUE /\ asking' = FALSE /\ fragment' = TRUE
     \/ ~granted /\ asking' = TRUE /\ UNCHANGED <<granted, fragment>>
  /\ UNCHANGED <<prefs, session, alive, stack, asleep, task, orphan, storing,
                 restored, cut, elsewhere>>

(* The user grants the permissions in the system settings (external), or   *)
(* withdraws them, which ends the process.                                 *)
GrantInSettings ==
  /\ ~granted
  /\ granted' = TRUE
  /\ elsewhere' = (elsewhere \/ (OnTop("Camera") /\ ~fragment))
  /\ UNCHANGED <<prefs, session, alive, stack, asleep, task, orphan, storing,
                 restored, cut, asking, fragment>>

WithdrawInSettings == granted /\ granted' = FALSE /\ ProcessDies(stack)

(* CameraActivity is recreated.                                            *)
RecreateCamera ==
  /\ alive /\ OnTop("Camera") /\ CameraOnCreate(TRUE)
  /\ UNCHANGED <<prefs, session, alive, stack, asleep, task, orphan, storing,
                 restored, cut>>

(* A platform that allows one request at a time cancels the second one, of *)
(* a recreated activity, at once; the cancelled result asks again, and so  *)
(* on until the call stack overflows.                                      *)
AsksTwice == alive /\ OnTop("Camera") /\ asking /\ ~granted /\ Crash

(* The fragment opens the camera as soon as its surface is there; without  *)
(* the permission openCamera throws an exception that nobody catches.      *)
OpenUnpermitted == alive /\ OnTop("Camera") /\ fragment /\ ~granted /\ Crash

-----------------------------------------------------------------------------
(* Requests.                                                               *)

Send(kind, u) ==
  /\ task' = [kind |-> kind, user |-> u]
  /\ UNCHANGED <<prefs, session, alive, stack, asleep, orphan, storing, restored, cut, camera>>

SignIn == Top("Login") /\ \E u \in Users : Send("login", u)

(* signUp, with the passwords that match; the type is the account's.       *)
SignUp == Top("Signup") /\ \E u \in Users : Send("signup", u)

(* The screens that send in the user's name call                           *)
(* LoginActivity.session.getusename(), a null pointer if it is not set.    *)
Sender == [friends_list |-> "Main", get_message |-> "Friends",
           send_msg |-> "Message", send_friends_request |-> "AddFriend"]

SendAsUser ==
  \E kind \in DOMAIN Sender :
    /\ Top(Sender[kind])
    /\ IF session THEN Send(kind, prefs.usename) ELSE Crash

(* The screen is recreated (LoginActivity is fixed in portrait).           *)
Recreate ==
  /\ alive /\ task.kind \notin {"none", "login"}
  /\ task' = NoTask
  /\ orphan' = TRUE
  /\ UNCHANGED <<prefs, session, alive, stack, asleep, storing, restored, cut, camera>>

(* onPostExecute of a task whose dialog was destroyed: dismiss() throws.   *)
OrphanReplies == orphan /\ Crash

(* onPostExecute.  Tasks run one after the other.                          *)
Replied(kind) ==
  /\ alive /\ task.kind = kind /\ ~orphan
  /\ task' = NoTask
  /\ UNCHANGED <<alive, orphan, restored, camera>>

(* status 1, or the toast that shows the message or the exception.         *)
SignUpReplied ==
  /\ Replied("signup")
  /\ Push("Main") \/ UNCHANGED <<stack, asleep>>
  /\ UNCHANGED <<prefs, session, storing, cut>>

(* A list that is not empty is shown.                                      *)
FriendsReplied ==
  /\ Replied("friends_list")
  /\ Push("Friends") \/ UNCHANGED <<stack, asleep>>
  /\ UNCHANGED <<prefs, session, storing, cut>>

(* Any JSON, even status 0, leads to MessageActivity.                      *)
MessagesReplied ==
  /\ Replied("get_message")
  /\ Push("Message") \/ UNCHANGED <<stack, asleep>>
  /\ UNCHANGED <<prefs, session, storing, cut>>

OtherReplied ==
  /\ Replied("send_msg") \/ Replied("send_friends_request")
  /\ UNCHANGED <<prefs, session, stack, asleep, storing, cut>>

-----------------------------------------------------------------------------
(* LoginExecuteTask.onPostExecute: three commits, then the menu.           *)

LoginReplied ==
  /\ Replied("login")
  /\ \/ /\ session' = TRUE
        /\ prefs' = [prefs EXCEPT !.usename = task.user]
        /\ storing' = "password"
     \/ UNCHANGED <<session, prefs, storing>>
  /\ UNCHANGED <<stack, asleep, cut>>

(* `email` and `pass` are fields of the activity, as they were sent.       *)
SetPassword ==
  /\ storing = "password"
  /\ prefs' = [prefs EXCEPT !.password = prefs.usename]
  /\ storing' = "usertype"
  /\ UNCHANGED <<session, alive, stack, asleep, task, orphan, restored, cut, camera>>

(* Mutant: the type is stored only where it has none.                      *)
SetUserTypeOnce ==
  /\ storing = "usertype"
  /\ prefs' = [prefs EXCEPT !.usertype = IF @ = NoType THEN TypeOf(prefs.usename) ELSE @]
  /\ storing' = "screen"
  /\ cut' = FALSE
  /\ UNCHANGED <<session, alive, stack, asleep, task, orphan, restored, camera>>

SetUserType ==
  /\ storing = "usertype"
  /\ prefs' = [prefs EXCEPT !.usertype = TypeOf(prefs.usename)]
  /\ storing' = "screen"
  /\ cut' = FALSE
  /\ UNCHANGED <<session, alive, stack, asleep, task, orphan, restored, camera>>

(* Only a blind user gets on: for a friend the else branch is empty.       *)
OpenMenu ==
  /\ storing = "screen"
  /\ IF prefs.usertype = "Blind" THEN Replace("Main") ELSE UNCHANGED <<stack, asleep>>
  /\ storing' = "nothing"
  /\ UNCHANGED <<prefs, session, alive, task, orphan, restored, cut, camera>>

Next ==
  \/ Launch \/ Back \/ Navigate \/ OpenCameraScreen \/ Kill
  \/ PermissionResult \/ GrantInSettings \/ WithdrawInSettings
  \/ RecreateCamera \/ AsksTwice \/ OpenUnpermitted
  \/ SignIn \/ SignUp \/ SendAsUser \/ Recreate \/ OrphanReplies
  \/ SignUpReplied \/ FriendsReplied \/ MessagesReplied \/ OtherReplied
  \/ LoginReplied \/ SetPassword \/ SetUserType \/ OpenMenu

Spec == Init /\ [][Next]_vars

-----------------------------------------------------------------------------
(* Properties.                                                             *)

(* LoginActivity.session is null only in a process that Android began by   *)
(* recreating a screen other than LoginActivity, so only there do the      *)
(* menus end in a NullPointerException.                                    *)
NoSessionOnlyIfRestored == alive /\ ~session => restored

(* The three preferences are those of one user, or all empty, except while *)
(* a login stores them and after one that was killed between two commits.  *)
StoredTogether ==
  storing \in {"nothing", "screen"} /\ ~cut
    => /\ prefs.password = prefs.usename
       /\ prefs.usertype = IF prefs.usename = NoUser THEN NoType ELSE TypeOf(prefs.usename)

(* Whoever is on a screen behind the login and did not come there by       *)
(* signing up is a blind user who has logged in, unless a login was cut.   *)
(* After signing up, the menu acts for whoever logged in before, if anyone.*)
MenuIsForBlindUser ==
  "Main" \in Range(stack) /\ "Signup" \notin Range(stack) /\ ~cut
    => prefs.usename \in BlindUsers

(* The camera screen has its fragment if and only if it has the            *)
(* permissions, or else waits for the result of a request (in a dialog, or *)
(* denied without one and asked again), in every order of results,         *)
(* recreations and process deaths, with two exceptions.  It stays black,   *)
(* with neither fragment nor request, in a process that Android began with *)
(* it after the permissions had been granted in the system settings:       *)
(* onCreate finds a saved state and sets no fragment.  It has a fragment   *)
(* without permissions, so that opening the camera throws, in a process    *)
(* that began by recreating it after they were withdrawn.                  *)
FragmentMatchesPermission ==
  alive /\ OnTop("Camera") =>
    /\ ~fragment /\ ~asking => restored /\ elsewhere
    /\ fragment /\ ~granted => restored

=============================================================================
