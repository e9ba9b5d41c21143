--------------------------- MODULE AppSessionProofs ---------------------------
(***************************************************************************)
(* Machine-checked proofs about AppSession, for any set of users: whatever *)
(* the order of logins, sign-ups, rotations, permission dialogs, crashes   *)
(* and process deaths, the static session field is null only in a process  *)
(* that Android restored, the preferences are one user's, the menu acts    *)
(* for a blind user, and the camera screen matches its permissions.        *)
(***************************************************************************)
EXTENDS AppSession, SequenceTheorems, TLAPS

Entrance == {"Login", "SignupMenu", "Signup"}

(* The back stack: no entrance screen lies over the menu, and the camera   *)
(* screen is always the last.                                              *)
StackOK(s) ==
  /\ \A i, j \in DOMAIN s : i < j /\ s[i] = "Main" => s[j] \notin Entrance
  /\ \A i \in DOMAIN s : s[i] = "Camera" => i = Len(s)

(* A live process has created the screen on top, and a dead one does       *)
(* nothing.                                                                *)
AliveInv ==
  /\ alive /\ stack # <<>> => asleep < Len(stack)
  /\ ~alive => task = NoTask /\ storing = "nothing"

(* The screen that sent the request is on top as long as its dialog is up. *)
TaskInv ==
  /\ task.kind # "none" => storing = "nothing" /\ stack # <<>>
  /\ task.kind = "login" => Last(stack) = "Login" /\ task.user \in Users
  /\ task.kind = "signup" => Last(stack) = "Signup"
  /\ task.kind \notin {"none", "login", "signup"} => Last(stack) # "Camera"

(* A login stores the three preferences one by one, on its own screen.     *)
StoreInv ==
  /\ storing # "nothing" =>
       task = NoTask /\ stack # <<>> /\ Last(stack) = "Login" /\ prefs.usename \in Users
  /\ storing = "usertype" => prefs.password = prefs.usename

(* The camera screen, alive or in the saved state, has its fragment if the *)
(* permissions were granted in its own dialog.                             *)
FragmentInv ==
  OnTop("Camera") =>
    /\ ~fragment /\ granted => elsewhere
    /\ alive /\ ~fragment /\ ~granted => asking
    /\ alive /\ ~fragment /\ ~asking => restored
    /\ alive /\ fragment /\ ~granted => restored

IInv ==
  /\ TypeOK
  /\ StackOK(stack)
  /\ AliveInv
  /\ TaskInv
  /\ StoreInv
  /\ FragmentInv
  /\ NoSessionOnlyIfRestored
  /\ StoredTogether
  /\ MenuIsForBlindUser

USE UsersAssumption

-----------------------------------------------------------------------------
(* Pushing and popping screens.                                            *)

(* The screens s without the last are screens that lay in s, in its order; *)
(* with no sign-up screen left there was none, unless the menu is gone.    *)
LEMMA PopLemma ==
  ASSUME NEW s \in Seq(Screens), StackOK(s)
  PROVE  /\ Front(s) \in Seq(Screens) /\ StackOK(Front(s))
         /\ s = <<>> => Front(s) = <<>>
         /\ s # <<>> => Len(Front(s)) = Len(s) - 1
         /\ Front(s) # <<>> => Last(Front(s)) # "Camera"
         /\ "Main" \in Range(Front(s)) => "Main" \in Range(s)
         /\ "Main" \in Range(Front(s)) /\ "Signup" \in Range(s) => "Signup" \in Range(Front(s))
<1>1. CASE s = <<>>
  <2>1. Front(s) = <<>>
    BY <1>1 DEF Front
  <2>2. Range(Front(s)) = {}
    BY <2>1 DEF Range
  <2> QED
    BY <1>1, <2>1, <2>2 DEF StackOK
<1>2. CASE s # <<>>
  <2>1. /\ Front(s) \in Seq(Screens) /\ Len(Front(s)) = Len(s) - 1
        /\ \A i \in 1 .. Len(s) - 1 : Front(s)[i] = s[i]
    <3>1. Len(s) \in Nat \ {0}
      BY <1>2
    <3>2. Front(s) \in Seq(Screens)
      BY <3>1 DEF Front
    <3>3. Len(Front(s)) = Len(s) - 1
      <4> DEFINE n == Len(s) - 1
      <4>1. n \in Nat /\ 1 \in 1 .. Len(s) + 1 /\ n \in 1 - 1 .. Len(s)
        BY <3>1
      <4>2. Len(SubSeq(s, 1, n)) = IF 1 <= n THEN n - 1 + 1 ELSE 0
        BY <4>1, SubSeqProperties
      <4>3. Front(s) = SubSeq(s, 1, n)
        BY DEF Front
      <4> HIDE DEF n
      <4>4. Len(SubSeq(s, 1, n)) = n
        BY <4>1, <4>2
      <4> QED
        BY <4>3, <4>4 DEF n
    <3>4. \A i \in 1 .. Len(s) - 1 : Front(s)[i] = s[i]
      BY <3>1 DEF Front
    <3> QED
      BY <3>2, <3>3, <3>4
  <2>2. /\ DOMAIN s = 1 .. Len(s) /\ Len(s) \in Nat \ {0}
        /\ DOMAIN Front(s) = 1 .. Len(s) - 1
    BY <1>2, <2>1
  <2>3. StackOK(Front(s))
    BY <2>1, <2>2 DEF StackOK
  <2>4. Front(s) # <<>> => Last(Front(s)) # "Camera"
    BY <2>1, <2>2 DEF StackOK, Last
  <2>5. "Main" \in Range(Front(s)) => "Main" \in Range(s)
    BY <2>1, <2>2 DEF Range
  <2>6. ASSUME "Main" \in Range(Front(s)), "Signup" \in Range(s)
        PROVE  "Signup" \in Range(Front(s))
    <3>1. PICK i \in 1 .. Len(s) - 1 : s[i] = "Main"
      BY <2>1, <2>2, <2>6 DEF Range
    <3>2. PICK j \in DOMAIN s : s[j] = "Signup"
      BY <2>6 DEF Range
    <3>3. j # Len(s)
      BY <2>2, <3>1, <3>2 DEF StackOK, Entrance
    <3>4. j \in 1 .. Len(s) - 1 /\ Front(s)[j] = "Signup"
      BY <2>1, <2>2, <3>2, <3>3
    <3> QED
      BY <2>2, <3>4 DEF Range
  <2> QED
    BY <1>2, <2>1, <2>3, <2>4, <2>5, <2>6
<1> QED
  BY <1>1, <1>2

(* A screen may be pushed on any screen but the camera's, an entrance      *)
(* screen only where the menu is not.                                      *)
LEMMA PushLemma ==
  ASSUME NEW s \in Seq(Screens), StackOK(s), s # <<>> => Last(s) # "Camera",
         NEW x \in Screens, x \in Entrance => "Main" \notin Range(s)
  PROVE  /\ Append(s, x) \in Seq(Screens) /\ StackOK(Append(s, x))
         /\ Len(Append(s, x)) = Len(s) + 1 /\ Append(s, x) # <<>>
         /\ Last(Append(s, x)) = x
         /\ Range(Append(s, x)) = Range(s) \union {x}
<1> DEFINE t == Append(s, x)
<1>1. /\ t \in Seq(Screens) /\ Len(t) = Len(s) + 1 /\ t # <<>>
      /\ \A i \in 1 .. Len(s) : t[i] = s[i]
      /\ t[Len(s) + 1] = x
  OBVIOUS
<1>2. /\ DOMAIN s = 1 .. Len(s) /\ Len(s) \in Nat
      /\ DOMAIN t = 1 .. Len(s) + 1
  BY <1>1
<1> HIDE DEF t
<1>3. Range(t) = Range(s) \union {x}
  BY <1>1, <1>2 DEF Range
<1>4. \A i \in DOMAIN s : s[i] # "Camera"
  BY <1>2 DEF StackOK, Last
<1>5. x \in Entrance => \A i \in DOMAIN s : s[i] # "Main"
  BY DEF Range
<1>6. StackOK(t)
  BY <1>1, <1>2, <1>4, <1>5 DEF StackOK
<1>7. Last(t) = x
  BY <1>1 DEF Last
<1> QED
  BY <1>1, <1>3, <1>6, <1>7 DEF t

(* With an entrance screen on top there is no menu below.                  *)
LEMMA EntranceLemma ==
  ASSUME NEW s \in Seq(Screens), StackOK(s), s # <<>>, Last(s) \in Entrance
  PROVE  "Main" \notin Range(s) /\ "Main" \notin Range(Front(s)) /\ Last(s) \in Range(s)
<1>1. DOMAIN s = 1 .. Len(s) /\ Len(s) \in Nat \ {0} /\ Len(s) \in DOMAIN s
  OBVIOUS
<1>2. "Main" \notin Range(s)
  BY <1>1 DEF StackOK, Last, Range, Entrance
<1> QED
  BY <1>1, <1>2, PopLemma DEF Range, Last

-----------------------------------------------------------------------------
(* Steps.                                                                  *)

(* LoginActivity.onCreate leads to the menu only for a blind user.         *)
LEMMA LoginCreates ==
  ASSUME TypeOK, StoredTogether, storing = "nothing",
         NEW below \in Seq(Screens), StackOK(below),
         below # <<>> => Last(below) # "Camera", "Main" \notin Range(below),
         LoginOnCreate(below)
  PROVE  /\ stack' \in Seq(Screens) /\ StackOK(stack') /\ stack' # <<>>
         /\ Len(stack') = Len(below) + 1 /\ Last(stack') \in {"Login", "Main"}
         /\ "Main" \in Range(stack') /\ ~cut => prefs.usename \in BlindUsers
         /\ session' = TRUE
<1>1. PICK x \in {"Login", "Main"} :
        /\ stack' = Append(below, x)
        /\ x = "Main" => prefs.usename # NoUser /\ prefs.usertype = "Blind"
  BY DEF LoginOnCreate
<1>2. x \in Screens
  BY DEF Screens
<1>3. /\ stack' \in Seq(Screens) /\ StackOK(stack') /\ stack' # <<>>
      /\ Len(stack') = Len(below) + 1 /\ Last(stack') = x
      /\ Range(stack') = Range(below) \union {x}
  BY <1>1, <1>2, PushLemma
<1>4. x = "Main" /\ ~cut => prefs.usename \in BlindUsers
  BY <1>1 DEF StoredTogether, TypeOf
<1> QED
  BY <1>3, <1>4 DEF LoginOnCreate

(* What a dying process leaves: a part of the back stack, and the          *)
(* preferences as they were.                                               *)
LEMMA DiesLemma ==
  ASSUME IInv, ProcessDies(stack) \/ ProcessDies(Front(stack)),
         granted' = granted \/ granted' = FALSE
  PROVE  IInv'
<1>0. /\ TypeOK /\ StackOK(stack) /\ AliveInv /\ TaskInv /\ StoreInv /\ FragmentInv
      /\ NoSessionOnlyIfRestored /\ StoredTogether /\ MenuIsForBlindUser
  BY DEF IInv
<1>s. stack \in Seq(Screens)
  BY <1>0 DEF TypeOK
<1>1. /\ stack' \in Seq(Screens) /\ StackOK(stack')
      /\ stack' # <<>> => stack' = stack \/ Last(stack') # "Camera"
      /\ "Main" \in Range(stack') => "Main" \in Range(stack)
      /\ "Main" \in Range(stack') /\ "Signup" \in Range(stack) => "Signup" \in Range(stack')
  <2>1. CASE stack' = <<>>
    <3>1. Range(stack') = {}
      BY <2>1 DEF Range
    <3> QED
      BY <2>1, <3>1 DEF StackOK
  <2>2. CASE stack' = stack
    BY <1>0, <1>s, <2>2
  <2>3. CASE stack' = Front(stack)
    BY <1>0, <1>s, <2>3, PopLemma
  <2> QED
    BY <2>1, <2>2, <2>3 DEF ProcessDies
<1>2. /\ alive' = FALSE /\ session' = FALSE /\ asleep' = Len(stack') /\ task' = NoTask
      /\ orphan' = FALSE /\ storing' = "nothing"
      /\ cut' = (cut \/ storing \in {"password", "usertype"})
      /\ fragment' = (fragment /\ stack' # <<>> /\ Last(stack') = "Camera")
      /\ asking' \in BOOLEAN
      /\ UNCHANGED <<prefs, restored, elsewhere>>
  BY <1>0 DEF ProcessDies, TypeOK
<1>3. TypeOK'
  <2>1. Len(stack') \in 0 .. Len(stack')
    BY <1>1
  <2>2. task' \in [kind : Kinds, user : Users \union {NoUser}]
    BY <1>2 DEF NoTask, Kinds
  <2> QED
    BY <1>0, <1>1, <1>2, <2>1, <2>2 DEF TypeOK
<1>4. AliveInv' /\ TaskInv' /\ StoreInv' /\ NoSessionOnlyIfRestored'
  BY <1>2 DEF AliveInv, TaskInv, StoreInv, NoSessionOnlyIfRestored, NoTask
<1>5. FragmentInv'
  <2>1. ASSUME stack' # <<>>, Last(stack') = "Camera", ~fragment', granted'
        PROVE  elsewhere'
    BY <1>0, <1>1, <1>2, <2>1 DEF FragmentInv, OnTop, TypeOK
  <2> QED
    BY <1>2, <2>1 DEF FragmentInv, OnTop
<1>6. StoredTogether'
  BY <1>0, <1>2 DEF StoredTogether, TypeOK
<1>7. MenuIsForBlindUser'
  BY <1>0, <1>1, <1>2 DEF MenuIsForBlindUser
<1> QED
  BY <1>1, <1>3, <1>4, <1>5, <1>6, <1>7 DEF IInv

(* The inductive invariant holds initially.                                *)
LEMMA InitIInv == Init => IInv
<1> SUFFICES ASSUME Init PROVE IInv
  OBVIOUS
<1>1. TypeOK
  <2>1. stack \in Seq(Screens) /\ Len(stack) = 0
    BY DEF Init
  <2>2. asleep \in 0 .. Len(stack)
    BY <2>1 DEF Init
  <2>3. task \in [kind : Kinds, user : Users \union {NoUser}]
    BY DEF Init, NoTask, Kinds
  <2> QED
    BY <2>1, <2>2, <2>3 DEF Init, TypeOK
<1>2. StackOK(stack) /\ Range(stack) = {}
  <2>1. stack = <<>> /\ DOMAIN stack = {}
    BY DEF Init
  <2> QED
    BY <2>1 DEF StackOK, Range
<1> QED
  BY <1>1, <1>2 DEF Init, IInv, AliveInv, TaskInv, StoreInv, FragmentInv, OnTop,
     NoSessionOnlyIfRestored, StoredTogether, MenuIsForBlindUser, NoTask

(* Every step preserves the inductive invariant.                           *)
LEMMA NextIInv == IInv /\ [Next]_vars => IInv'
<1> SUFFICES ASSUME IInv, [Next]_vars PROVE IInv'
  OBVIOUS
<1>0. /\ TypeOK /\ StackOK(stack) /\ AliveInv /\ TaskInv /\ StoreInv /\ FragmentInv
      /\ NoSessionOnlyIfRestored /\ StoredTogether /\ MenuIsForBlindUser
  BY DEF IInv
<1>s. stack \in Seq(Screens) /\ asleep \in Nat /\ Len(stack) \in Nat /\ asleep <= Len(stack)
  <2>1. stack \in Seq(Screens)
    BY <1>0 DEF TypeOK
  <2>2. Len(stack) \in Nat
    BY <2>1
  <2>3. asleep \in 0 .. Len(stack)
    BY <1>0 DEF TypeOK
  <2> QED
    BY <2>1, <2>2, <2>3
<1>p. StackOK(Front(stack)) /\ Front(stack) \in Seq(Screens)
      /\ (Front(stack) # <<>> => Last(Front(stack)) # "Camera")
      /\ (stack # <<>> => Len(Front(stack)) = Len(stack) - 1)
      /\ ("Main" \in Range(Front(stack)) => "Main" \in Range(stack))
      /\ ("Main" \in Range(Front(stack)) /\ "Signup" \in Range(stack)
            => "Signup" \in Range(Front(stack)))
  BY <1>0, <1>s, PopLemma
<1>e. stack # <<>> /\ Last(stack) \in Entrance =>
        "Main" \notin Range(stack) /\ "Main" \notin Range(Front(stack))
          /\ Last(stack) \in Range(stack)
  BY <1>0, <1>s, EntranceLemma
<1>k. NoTask.kind = "none" /\ NoTask \in [kind : Kinds, user : Users \union {NoUser}]
  BY DEF NoTask, Kinds
<1> DEFINE Rest == /\ AliveInv /\ TaskInv /\ StoreInv /\ FragmentInv
                   /\ NoSessionOnlyIfRestored /\ StoredTogether /\ MenuIsForBlindUser
<1>q. ASSUME TypeOK', StackOK(stack'), Rest' PROVE IInv'
  BY <1>q DEF IInv
<1> HIDE DEF Rest
<1>1. CASE Launch
  <2>0. storing = "nothing" /\ task.kind = "none"
    <3>1. CASE ~alive
      BY <1>0, <1>k, <3>1 DEF AliveInv
    <3>2. CASE stack = <<>>
      BY <1>0, <3>2 DEF StoreInv, TaskInv, TypeOK
    <3> QED
      BY <1>1, <3>1, <3>2 DEF Launch
  <2>u. /\ alive' = TRUE /\ asleep' = Len(stack') - 1
        /\ UNCHANGED <<prefs, task, orphan, storing, cut>>
    BY <1>1 DEF Launch
  <2>1. CASE stack = <<>> \/ Last(stack) = "Login"
    <3>1. PICK below \in {<<>>, Front(stack)} :
            LoginOnCreate(below) /\ (below = <<>> \/ stack # <<>>)
      BY <1>1, <2>1 DEF Launch
    <3>2. /\ below \in Seq(Screens) /\ StackOK(below) /\ "Main" \notin Range(below)
          /\ below # <<>> => Last(below) # "Camera"
      <4>1. CASE below = <<>>
        BY <4>1 DEF StackOK, Range
      <4>2. CASE below = Front(stack) /\ stack # <<>>
        BY <1>p, <1>e, <2>1, <4>2 DEF Entrance
      <4> QED
        BY <3>1, <4>1, <4>2
    <3>3. /\ stack' \in Seq(Screens) /\ StackOK(stack') /\ stack' # <<>>
          /\ Len(stack') = Len(below) + 1 /\ Last(stack') \in {"Login", "Main"}
          /\ "Main" \in Range(stack') /\ ~cut => prefs.usename \in BlindUsers
          /\ session' = TRUE
      BY <1>0, <2>0, <3>1, <3>2, LoginCreates
    <3>4. restored' = FALSE /\ UNCHANGED <<granted, asking, fragment, elsewhere>>
      BY <1>1, <2>1 DEF Launch, camera
    <3>a. asleep' \in 0 .. Len(stack')
      BY <2>u, <3>3
    <3>b. alive' \in BOOLEAN /\ session' \in BOOLEAN /\ restored' \in BOOLEAN
      BY <2>u, <3>3, <3>4
    <3>c. stack' \in Seq(Screens)
      BY <3>3
    <3>d. UNCHANGED <<prefs, task, orphan, storing, cut, granted, asking, fragment, elsewhere>>
      BY <2>u, <3>4
    <3>5. TypeOK'
      BY <1>0, <3>a, <3>b, <3>c, <3>d DEF TypeOK
    <3>6. Rest'
      BY <1>0, <1>k, <2>0, <2>u, <3>3, <3>4 DEF Rest, TypeOK, AliveInv, TaskInv, StoreInv,
         FragmentInv, OnTop, NoSessionOnlyIfRestored, StoredTogether, MenuIsForBlindUser
    <3> QED
      BY <1>q, <3>3, <3>5, <3>6
  <2>2. CASE ~(stack = <<>> \/ Last(stack) = "Login")
    <3>1. /\ restored' = TRUE /\ UNCHANGED <<session, stack, granted>>
          /\ IF OnTop("Camera") THEN CameraOnCreate(TRUE)
             ELSE UNCHANGED <<asking, fragment, elsewhere>>
      BY <1>1, <2>2 DEF Launch, camera, CameraOnCreate
    <3>a. asleep' \in 0 .. Len(stack')
      BY <1>s, <2>u, <2>2, <3>1
    <3>b. /\ alive' \in BOOLEAN /\ restored' \in BOOLEAN /\ session' \in BOOLEAN
          /\ granted' \in BOOLEAN
          /\ asking' \in BOOLEAN /\ fragment' \in BOOLEAN /\ elsewhere' \in BOOLEAN
      BY <1>0, <2>u, <3>1 DEF TypeOK, CameraOnCreate
    <3>2. TypeOK'
      BY <1>0, <2>u, <3>1, <3>a, <3>b, Zenon DEF TypeOK
    <3>3. AliveInv' /\ TaskInv' /\ StoreInv' /\ NoSessionOnlyIfRestored'
      BY <1>0, <1>s, <1>k, <2>0, <2>u, <3>1 DEF AliveInv, TaskInv, StoreInv,
         NoSessionOnlyIfRestored
    <3>4. StoredTogether' /\ MenuIsForBlindUser'
      BY <1>0, <2>u, <3>1 DEF StoredTogether, MenuIsForBlindUser
    <3>5. FragmentInv'
      BY <1>0, <3>1 DEF FragmentInv, OnTop, CameraOnCreate, TypeOK
    <3> QED
      BY <1>0, <1>q, <3>1, <3>2, <3>3, <3>4, <3>5 DEF Rest
  <2> QED
    BY <2>1, <2>2
<1>2. CASE Back
  <2>1. /\ stack # <<>> /\ alive /\ task = NoTask /\ storing = "nothing" /\ ~asking
        /\ Last(stack) # "Main"
        /\ fragment' = FALSE
        /\ UNCHANGED <<prefs, alive, task, orphan, storing, restored, cut, granted,
                       asking, elsewhere>>
    BY <1>2 DEF Back, Top, OnTop
  <2> DEFINE below == Front(stack)
  <2>2. asleep < Len(stack) /\ Len(below) = Len(stack) - 1 /\ below \in Seq(Screens)
    BY <1>0, <1>p, <2>1 DEF AliveInv
  <2>3. \/ /\ below # <<>> /\ asleep = Len(below) /\ Last(below) = "Login"
           /\ asleep' = asleep - 1 /\ LoginOnCreate(Front(below))
        \/ /\ below # <<>> /\ asleep = Len(below) /\ asleep' = asleep - 1
           /\ stack' = below /\ UNCHANGED session
        \/ /\ ~(below # <<>> /\ asleep = Len(below)) /\ asleep' = asleep
           /\ stack' = below /\ UNCHANGED session
    BY <1>2 DEF Back
  <2>m. "Main" \in Range(below) /\ "Signup" \notin Range(below) /\ ~cut
          => prefs.usename \in BlindUsers
    BY <1>0, <1>p DEF MenuIsForBlindUser
  <2>b. StackOK(below) /\ (below # <<>> => Last(below) # "Camera")
    BY <1>p
  <2> HIDE DEF below
  <2>4. /\ stack' \in Seq(Screens) /\ StackOK(stack')
        /\ stack' # <<>> => Last(stack') # "Camera" /\ asleep' < Len(stack')
        /\ asleep' \in 0 .. Len(stack')
        /\ session => session'
        /\ "Main" \in Range(stack') /\ "Signup" \notin Range(stack') /\ ~cut
             => prefs.usename \in BlindUsers
        /\ session' \in BOOLEAN
    <3>1. CASE /\ below # <<>> /\ asleep = Len(below) /\ Last(below) = "Login"
               /\ asleep' = asleep - 1 /\ LoginOnCreate(Front(below))
      <4>1. /\ Front(below) \in Seq(Screens) /\ StackOK(Front(below))
            /\ Front(below) # <<>> => Last(Front(below)) # "Camera"
            /\ Len(Front(below)) = Len(below) - 1
        BY <2>2, <2>b, <3>1, PopLemma
      <4>2. "Main" \notin Range(Front(below))
        BY <2>2, <2>b, <3>1, EntranceLemma DEF Entrance
      <4>3. /\ stack' \in Seq(Screens) /\ StackOK(stack') /\ stack' # <<>>
            /\ Len(stack') = Len(Front(below)) + 1 /\ Last(stack') \in {"Login", "Main"}
            /\ "Main" \in Range(stack') /\ ~cut => prefs.usename \in BlindUsers
            /\ session' = TRUE
        BY <1>0, <2>1, <3>1, <4>1, <4>2, LoginCreates
      <4>4. asleep \in Nat \ {0} /\ Len(below) \in Nat
        BY <1>s, <2>2, <3>1
      <4> QED
        BY <3>1, <4>1, <4>3, <4>4
    <3>2. CASE /\ below # <<>> /\ asleep = Len(below) /\ asleep' = asleep - 1
               /\ stack' = below /\ UNCHANGED session
      BY <1>0, <1>s, <2>2, <2>m, <2>b, <3>2 DEF TypeOK
    <3>3. CASE /\ ~(below # <<>> /\ asleep = Len(below)) /\ asleep' = asleep
               /\ stack' = below /\ UNCHANGED session
      BY <1>0, <1>s, <2>2, <2>m, <2>b, <3>3 DEF TypeOK
    <3> QED
      BY <2>3, <3>1, <3>2, <3>3
  <2>5. TypeOK'
    BY <1>0, <2>1, <2>4 DEF TypeOK
  <2>6. Rest'
    BY <1>0, <1>k, <2>1, <2>4 DEF Rest, AliveInv, TaskInv, StoreInv, FragmentInv, OnTop,
       NoSessionOnlyIfRestored, StoredTogether, MenuIsForBlindUser
  <2> QED
    BY <1>q, <2>4, <2>5, <2>6
<1>3. CASE Navigate
  <2>1. PICK x \in Screens \ {"Main", "Camera"} :
          /\ stack # <<>> /\ alive /\ task = NoTask /\ storing = "nothing"
          /\ Last(stack) # "Camera" /\ asleep' = asleep
          /\ \/ stack' = Append(stack, x)
             \/ stack' = Append(Front(stack), x) /\ Last(stack) = "SignupMenu"
          /\ x \in Entrance => Last(stack) \in Entrance
          /\ x # "Signup" => stack' = Append(stack, x)
    BY <1>3 DEF Navigate, Top, OnTop, Push, Replace, Screens, Leaves, Entrance
  <2>2. UNCHANGED <<prefs, session, alive, task, orphan, storing, restored, cut,
                    granted, asking, fragment, elsewhere>>
    BY <1>3 DEF Navigate, camera
  <2>3. /\ stack' \in Seq(Screens) /\ StackOK(stack') /\ stack' # <<>> /\ Last(stack') = x
        /\ Len(stack') >= Len(stack) /\ Len(stack') \in Nat
        /\ "Main" \in Range(stack') => "Main" \in Range(stack)
        /\ "Main" \in Range(stack') /\ "Signup" \in Range(stack) => "Signup" \in Range(stack')
    <3>1. CASE stack' = Append(stack, x)
      <4>1. /\ stack' \in Seq(Screens) /\ StackOK(stack') /\ stack' # <<>>
            /\ Len(stack') = Len(stack) + 1 /\ Last(stack') = x
            /\ Range(stack') = Range(stack) \union {x}
        BY <1>0, <1>s, <1>e, <2>1, <3>1, PushLemma
      <4> QED
        BY <1>s, <2>1, <4>1
    <3>2. CASE stack' = Append(Front(stack), x) /\ Last(stack) = "SignupMenu"
      <4>1. /\ stack' \in Seq(Screens) /\ StackOK(stack') /\ stack' # <<>>
            /\ Len(stack') = Len(Front(stack)) + 1 /\ Last(stack') = x
            /\ Range(stack') = Range(Front(stack)) \union {x}
        BY <1>p, <1>e, <2>1, <3>2, PushLemma DEF Entrance
      <4>2. "Main" \notin Range(stack')
        BY <1>e, <2>1, <3>2, <4>1 DEF Entrance
      <4> QED
        BY <1>s, <1>p, <2>1, <4>1, <4>2
    <3> QED
      BY <2>1, <3>1, <3>2
  <2>4. asleep' \in 0 .. Len(stack') /\ asleep' < Len(stack')
    BY <1>0, <1>s, <2>1, <2>3 DEF AliveInv
  <2>5. TypeOK'
    BY <1>0, <2>2, <2>3, <2>4 DEF TypeOK
  <2>6. Rest'
    BY <1>0, <1>k, <2>1, <2>2, <2>3, <2>4 DEF Rest, AliveInv, TaskInv, StoreInv, FragmentInv, OnTop,
       NoSessionOnlyIfRestored, StoredTogether, MenuIsForBlindUser
  <2> QED
    BY <1>q, <2>3, <2>5, <2>6
<1>4. CASE OpenCameraScreen
  <2>1. /\ stack # <<>> /\ alive /\ task = NoTask /\ storing = "nothing" /\ ~asking
        /\ Last(stack) = "Main" /\ asleep' = asleep /\ stack' = Append(stack, "Camera")
    BY <1>4 DEF OpenCameraScreen, Top, OnTop, Push
  <2>2. /\ UNCHANGED <<prefs, session, alive, task, orphan, storing, restored, cut, granted>>
        /\ fragment' = granted /\ asking' = ~granted /\ elsewhere' = FALSE
    BY <1>0, <1>4, <2>1 DEF OpenCameraScreen, CameraOnCreate, TypeOK
  <2>3. /\ stack' \in Seq(Screens) /\ StackOK(stack') /\ stack' # <<>>
        /\ Len(stack') = Len(stack) + 1 /\ Last(stack') = "Camera"
        /\ Range(stack') = Range(stack) \union {"Camera"}
    <3>1. "Camera" \in Screens /\ "Camera" \notin Entrance
      BY DEF Screens, Leaves, Entrance
    <3> QED
      BY <1>0, <1>s, <2>1, <3>1, PushLemma
  <2>4. asleep' \in 0 .. Len(stack') /\ asleep' < Len(stack')
    BY <1>0, <1>s, <2>1, <2>3 DEF AliveInv
  <2>b. asking' \in BOOLEAN /\ fragment' \in BOOLEAN /\ elsewhere' \in BOOLEAN
    BY <1>0, <2>2 DEF TypeOK
  <2>c. stack' \in Seq(Screens) /\ asleep' \in 0 .. Len(stack')
    BY <2>3, <2>4
  <2>d. UNCHANGED <<prefs, session, alive, task, orphan, storing, restored, cut, granted>>
    BY <2>2
  <2>5. TypeOK'
    BY <1>0, <2>b, <2>c, <2>d DEF TypeOK
  <2>6. Rest'
    BY <1>0, <1>k, <2>1, <2>2, <2>3, <2>4 DEF TypeOK, Rest, AliveInv, TaskInv, StoreInv, FragmentInv, OnTop,
       NoSessionOnlyIfRestored, StoredTogether, MenuIsForBlindUser
  <2> QED
    BY <1>q, <2>3, <2>5, <2>6
<1>5. CASE Kill
  BY <1>5, DiesLemma DEF Kill
<1>6. CASE WithdrawInSettings
  BY <1>6, DiesLemma DEF WithdrawInSettings
<1>7. CASE Crash
  BY <1>7, DiesLemma DEF Crash
<1>8. CASE PermissionResult
  <2>b. granted' \in BOOLEAN /\ asking' \in BOOLEAN /\ fragment' \in BOOLEAN
    BY <1>0, <1>8 DEF TypeOK, PermissionResult
  <2>1. TypeOK'
    BY <1>0, <1>8, <2>b, Zenon DEF TypeOK, PermissionResult
  <2>2. UNCHANGED <<stack, asleep>>
    BY <1>8 DEF PermissionResult
  <2>3. Rest'
    BY <1>0, <1>k, <1>8 DEF TypeOK, PermissionResult, camera,
       Rest, AliveInv, TaskInv, StoreInv, FragmentInv, OnTop,
       NoSessionOnlyIfRestored, StoredTogether, MenuIsForBlindUser
  <2> QED
    BY <1>0, <1>q, <2>1, <2>2, <2>3
<1>9. CASE GrantInSettings
  <2>1. TypeOK'
    BY <1>0, <1>k, <1>9 DEF TypeOK, GrantInSettings, camera
  <2>2. UNCHANGED <<stack, asleep>>
    BY <1>9 DEF GrantInSettings
  <2>3. Rest'
    BY <1>0, <1>k, <1>9 DEF TypeOK, GrantInSettings, camera,
       Rest, AliveInv, TaskInv, StoreInv, FragmentInv, OnTop,
       NoSessionOnlyIfRestored, StoredTogether, MenuIsForBlindUser
  <2> QED
    BY <1>0, <1>q, <2>1, <2>2, <2>3
<1>10. CASE RecreateCamera
  <2>1. TypeOK'
    BY <1>0, <1>k, <1>10 DEF TypeOK, RecreateCamera, CameraOnCreate, camera
  <2>2. UNCHANGED <<stack, asleep>>
    BY <1>10 DEF RecreateCamera, CameraOnCreate
  <2>3. Rest'
    BY <1>0, <1>k, <1>10 DEF TypeOK, RecreateCamera, CameraOnCreate, camera,
       Rest, AliveInv, TaskInv, StoreInv, FragmentInv, OnTop,
       NoSessionOnlyIfRestored, StoredTogether, MenuIsForBlindUser
  <2> QED
    BY <1>0, <1>q, <2>1, <2>2, <2>3
<1>11. CASE \E kind \in Kinds \ {"none", "login", "signup"} :
          Send(kind, prefs.usename) /\ Top(Sender[kind]) /\ Sender[kind] # "Camera"
  <2> PICK kind \in Kinds \ {"none", "login", "signup"} :
          Send(kind, prefs.usename) /\ Top(Sender[kind]) /\ Sender[kind] # "Camera"
    BY <1>11
  <2>1. /\ task'.kind = kind /\ task'.user = prefs.usename
        /\ task' \in [kind : Kinds, user : Users \union {NoUser}]
        /\ UNCHANGED <<prefs, session, alive, stack, asleep, orphan, storing, restored, cut,
                       granted, asking, fragment, elsewhere>>
    BY <1>0 DEF Send, camera, TypeOK
  <2>2. alive /\ stack # <<>> /\ Last(stack) # "Camera" /\ storing = "nothing"
    BY DEF Top, OnTop
  <2>3. TypeOK'
    BY <1>0, <2>1 DEF TypeOK
  <2>4. Rest'
    BY <1>0, <2>1, <2>2 DEF Rest, AliveInv, TaskInv, StoreInv, FragmentInv, OnTop,
       NoSessionOnlyIfRestored, StoredTogether, MenuIsForBlindUser
  <2> QED
    BY <1>0, <1>q, <2>1, <2>3, <2>4
<1>12. CASE SignIn \/ SignUp
  <2>1. PICK kind \in {"login", "signup"}, u \in Users :
          /\ Send(kind, u) /\ alive /\ stack # <<>> /\ storing = "nothing"
          /\ kind = "login" => Last(stack) = "Login"
          /\ kind = "signup" => Last(stack) = "Signup"
    BY <1>12 DEF SignIn, SignUp, Top, OnTop
  <2>2. /\ task'.kind = kind /\ task'.user = u
        /\ task' \in [kind : Kinds, user : Users \union {NoUser}]
        /\ UNCHANGED <<prefs, session, alive, stack, asleep, orphan, storing, restored, cut,
                       granted, asking, fragment, elsewhere>>
    BY <2>1 DEF Send, camera, Kinds
  <2>3. TypeOK'
    BY <1>0, <2>2 DEF TypeOK
  <2>4. Rest'
    BY <1>0, <2>1, <2>2 DEF Rest, AliveInv, TaskInv, StoreInv, FragmentInv, OnTop,
       NoSessionOnlyIfRestored, StoredTogether, MenuIsForBlindUser
  <2> QED
    BY <1>0, <1>q, <2>2, <2>3, <2>4
<1>13. CASE Recreate
  <2>1. TypeOK'
    BY <1>0, <1>k, <1>13 DEF TypeOK, Recreate, camera
  <2>2. UNCHANGED <<stack, asleep>>
    BY <1>13 DEF Recreate
  <2>3. Rest'
    BY <1>0, <1>k, <1>13 DEF TypeOK, Recreate, camera,
       Rest, AliveInv, TaskInv, StoreInv, FragmentInv, OnTop,
       NoSessionOnlyIfRestored, StoredTogether, MenuIsForBlindUser
  <2> QED
    BY <1>0, <1>q, <2>1, <2>2, <2>3
<1>14. CASE SignUpReplied \/ FriendsReplied \/ MessagesReplied \/ OtherReplied
  <2>1. PICK x \in {"Main", "Friends", "Message"} :
          /\ alive /\ task.kind # "none"
          /\ x = "Main" => task.kind = "signup"
          /\ task.kind \notin {"none", "login"}
          /\ UNCHANGED asleep /\ stack' \in {stack, Append(stack, x)}
    BY <1>14 DEF SignUpReplied, FriendsReplied, MessagesReplied, OtherReplied, Replied, Push
  <2>2. /\ task' = NoTask
        /\ UNCHANGED <<prefs, session, alive, orphan, storing, restored, cut,
                       granted, asking, fragment, elsewhere>>
    BY <1>14 DEF SignUpReplied, FriendsReplied, MessagesReplied, OtherReplied, Replied, camera
  <2>3. /\ stack # <<>> /\ storing = "nothing"
        /\ task.kind = "signup" => "Signup" \in Range(stack)
        /\ Last(stack) # "Camera"
    BY <1>0, <1>e, <2>1 DEF TaskInv, Entrance
  <2>4. /\ stack' \in Seq(Screens) /\ StackOK(stack') /\ stack' # <<>>
        /\ Len(stack') >= Len(stack) /\ Len(stack') \in Nat /\ Last(stack') # "Camera"
        /\ \/ Range(stack') = Range(stack)
           \/ Range(stack') = Range(stack) \union {x}
    <3>1. CASE stack' = stack
      BY <1>0, <1>s, <2>3, <3>1
    <3>2. CASE stack' = Append(stack, x)
      <4>1. x \in Screens /\ x \notin Entrance /\ x # "Camera"
        BY DEF Screens, Entrance
      <4>2. /\ stack' \in Seq(Screens) /\ StackOK(stack') /\ stack' # <<>>
            /\ Len(stack') = Len(stack) + 1 /\ Last(stack') = x
            /\ Range(stack') = Range(stack) \union {x}
        BY <1>0, <1>s, <2>3, <3>2, <4>1, PushLemma
      <4> QED
        BY <1>s, <4>1, <4>2
    <3> QED
      BY <2>1, <3>1, <3>2
  <2>5. asleep' \in 0 .. Len(stack') /\ asleep' < Len(stack')
    BY <1>0, <1>s, <2>1, <2>3, <2>4 DEF AliveInv
  <2>6. TypeOK'
    BY <1>0, <1>k, <2>2, <2>4, <2>5 DEF TypeOK
  <2>7. Rest'
    BY <1>0, <1>k, <2>1, <2>2, <2>3, <2>4, <2>5 DEF Rest, AliveInv, TaskInv, StoreInv, FragmentInv, OnTop,
       NoSessionOnlyIfRestored, StoredTogether, MenuIsForBlindUser
  <2> QED
    BY <1>q, <2>4, <2>6, <2>7
<1>15. CASE LoginReplied
  <2>1. /\ alive /\ task.kind = "login" /\ task' = NoTask
        /\ UNCHANGED <<alive, orphan, restored, granted, asking, fragment, elsewhere,
                       stack, asleep, cut>>
        /\ \/ UNCHANGED <<session, prefs, storing>>
           \/ /\ session' = TRUE /\ storing' = "password"
              /\ prefs' = [prefs EXCEPT !.usename = task.user]
    BY <1>15 DEF LoginReplied, Replied, camera
  <2>2. /\ storing = "nothing" /\ stack # <<>> /\ Last(stack) = "Login"
        /\ task.user \in Users /\ "Main" \notin Range(stack)
    BY <1>0, <1>e, <2>1 DEF TaskInv, Entrance
  <2>3. CASE UNCHANGED <<session, prefs, storing>>
    <3>1. TypeOK'
      BY <1>0, <1>k, <2>1, <2>3 DEF TypeOK
    <3>2. Rest'
      BY <1>0, <1>k, <2>1, <2>2, <2>3 DEF Rest, AliveInv, TaskInv, StoreInv, FragmentInv, OnTop,
       NoSessionOnlyIfRestored, StoredTogether, MenuIsForBlindUser
    <3> QED
      BY <1>0, <1>q, <2>1, <3>1, <3>2
  <2>4. CASE /\ session' = TRUE /\ storing' = "password"
             /\ prefs' = [prefs EXCEPT !.usename = task.user]
    <3>1. TypeOK' /\ prefs'.usename \in Users
      BY <1>0, <1>k, <2>1, <2>2, <2>4 DEF TypeOK
    <3>2. Rest'
      BY <1>0, <1>k, <2>1, <2>2, <2>4, <3>1 DEF Rest, AliveInv, TaskInv, StoreInv, FragmentInv, OnTop,
       NoSessionOnlyIfRestored, StoredTogether, MenuIsForBlindUser
    <3> QED
      BY <1>0, <1>q, <2>1, <3>1, <3>2
  <2> QED
    BY <2>1, <2>3, <2>4
<1>16. CASE SetPassword \/ SetUserType
  <2>1. /\ storing # "nothing" /\ task = NoTask /\ stack # <<>> /\ Last(stack) = "Login"
        /\ prefs.usename \in Users /\ "Main" \notin Range(stack)
    BY <1>0, <1>e, <1>16 DEF StoreInv, SetPassword, SetUserType, Entrance
  <2>2. /\ UNCHANGED <<session, alive, stack, asleep, task, orphan, restored,
                       granted, asking, fragment, elsewhere>>
        /\ \/ /\ storing = "password" /\ storing' = "usertype" /\ UNCHANGED cut
              /\ prefs' = [prefs EXCEPT !.password = prefs.usename]
           \/ /\ storing = "usertype" /\ storing' = "screen" /\ cut' = FALSE
              /\ prefs' = [prefs EXCEPT !.usertype = TypeOf(prefs.usename)]
    BY <1>16 DEF SetPassword, SetUserType, camera
  <2>3. TypeOf(prefs.usename) \in {"Blind", "Friend"}
    BY DEF TypeOf
  <2>p. /\ prefs' \in [usename : Users \union {NoUser}, password : Users \union {NoUser},
                       usertype : {NoType, "Blind", "Friend"}]
        /\ prefs'.usename = prefs.usename
    BY <1>0, <2>1, <2>2, <2>3 DEF TypeOK
  <2>b. cut' \in BOOLEAN /\ storing' \in {"nothing", "password", "usertype", "screen"}
    BY <1>0, <2>2 DEF TypeOK
  <2>4. TypeOK' /\ prefs'.usename = prefs.usename
    BY <1>0, <2>2, <2>p, <2>b, Zenon DEF TypeOK
  <2>5. StoredTogether' /\ StoreInv'
    BY <1>0, <2>1, <2>2, <2>4 DEF StoredTogether, StoreInv, TypeOK
  <2>6. Rest'
    BY <1>0, <2>1, <2>2, <2>4, <2>5 DEF Rest, AliveInv, TaskInv, FragmentInv, OnTop,
       NoSessionOnlyIfRestored, MenuIsForBlindUser
  <2> QED
    BY <1>0, <1>q, <2>2, <2>4, <2>6
<1>17. CASE OpenMenu
  <2>1. /\ storing = "screen" /\ storing' = "nothing"
        /\ UNCHANGED <<prefs, session, alive, task, orphan, restored, cut, asleep,
                       granted, asking, fragment, elsewhere>>
        /\ \/ stack' = stack
           \/ stack' = Append(Front(stack), "Main") /\ prefs.usertype = "Blind"
    BY <1>17 DEF OpenMenu, Replace, camera
  <2>2. /\ task = NoTask /\ stack # <<>> /\ Last(stack) = "Login" /\ prefs.usename \in Users
        /\ "Main" \notin Range(stack) /\ "Main" \notin Range(Front(stack)) /\ alive
    BY <1>0, <1>e, <2>1 DEF StoreInv, AliveInv, Entrance
  <2>3. CASE stack' = stack
    <3>1. TypeOK'
      BY <1>0, <2>1, <2>3 DEF TypeOK
    <3>2. Rest'
      BY <1>0, <1>k, <2>1, <2>2, <2>3 DEF Rest, AliveInv, TaskInv, StoreInv, FragmentInv, OnTop,
       NoSessionOnlyIfRestored, StoredTogether, MenuIsForBlindUser
    <3> QED
      BY <1>0, <1>q, <2>3, <3>1, <3>2
  <2>4. CASE stack' = Append(Front(stack), "Main") /\ prefs.usertype = "Blind"
    <3>1. "Main" \in Screens /\ "Main" \notin Entrance
      BY DEF Screens, Entrance
    <3>2. /\ stack' \in Seq(Screens) /\ StackOK(stack') /\ stack' # <<>>
          /\ Len(stack') = Len(Front(stack)) + 1 /\ Last(stack') = "Main"
      BY <1>p, <2>4, <3>1, PushLemma
    <3>3. asleep' \in 0 .. Len(stack') /\ asleep' < Len(stack')
      BY <1>0, <1>s, <1>p, <2>1, <2>2, <3>2 DEF AliveInv
    <3>4. ~cut => prefs.usename \in BlindUsers
      BY <1>0, <2>1, <2>2, <2>4 DEF StoredTogether, TypeOf
    <3>5. TypeOK'
      BY <1>0, <2>1, <3>2, <3>3 DEF TypeOK
    <3>6. Rest'
      BY <1>0, <1>k, <2>1, <2>2, <3>2, <3>3, <3>4 DEF Rest, AliveInv, TaskInv, StoreInv, FragmentInv, OnTop,
       NoSessionOnlyIfRestored, StoredTogether, MenuIsForBlindUser
    <3> QED
      BY <1>q, <3>2, <3>5, <3>6
  <2> QED
    BY <2>1, <2>3, <2>4
<1>18. CASE UNCHANGED vars
  <2>1. /\ UNCHANGED <<prefs, session, alive, stack, asleep, task, orphan, storing>>
        /\ UNCHANGED <<restored, cut, granted, asking, fragment, elsewhere>>
    BY <1>18 DEF vars, camera
  <2>2. TypeOK'
    BY <1>0, <2>1 DEF TypeOK
  <2>3. Rest'
    BY <1>0, <2>1 DEF Rest, AliveInv, TaskInv, StoreInv, FragmentInv, OnTop,
       NoSessionOnlyIfRestored, StoredTogether, MenuIsForBlindUser
  <2> QED
    BY <1>0, <1>q, <2>1, <2>2, <2>3
<1>19. AsksTwice \/ OpenUnpermitted \/ OrphanReplies => Crash
  BY DEF AsksTwice, OpenUnpermitted, OrphanReplies
<1>20. ASSUME SendAsUser, ~Crash
       PROVE  \E kind \in Kinds \ {"none", "login", "signup"} :
                Send(kind, prefs.usename) /\ Top(Sender[kind]) /\ Sender[kind] # "Camera"
  <2>1. DOMAIN Sender = {"friends_list", "get_message", "send_msg", "send_friends_request"}
    BY DEF Sender
  <2>2. \A kind \in DOMAIN Sender :
          kind \in Kinds \ {"none", "login", "signup"} /\ Sender[kind] # "Camera"
    BY <2>1 DEF Sender, Kinds
  <2> QED
    BY <1>20, <2>2 DEF SendAsUser
<1> QED
  BY <1>1, <1>2, <1>3, <1>4, <1>5, <1>6, <1>7, <1>8, <1>9, <1>10, <1>11, <1>12,
     <1>13, <1>14, <1>15, <1>16, <1>17, <1>18, <1>19, <1>20 DEF Next

-----------------------------------------------------------------------------
(* Every variable keeps its type; a screen asleep is one of the stack's.   *)
THEOREM TypeCorrect == Spec => []TypeOK
<1>1. IInv => TypeOK
  BY DEF IInv
<1> QED
  BY InitIInv, NextIInv, <1>1, PTL DEF Spec

(* LoginActivity.session is null only in a process that Android began by   *)
(* recreating a screen other than LoginActivity.                           *)
THEOREM NoSessionOnlyAfterRestore == Spec => []NoSessionOnlyIfRestored
<1>1. IInv => NoSessionOnlyIfRestored
  BY DEF IInv
<1> QED
  BY InitIInv, NextIInv, <1>1, PTL DEF Spec

(* Session's three commits store one user's name, password and type, unless *)
(* the process died between two of them and no login has completed since.   *)
THEOREM PreferencesOfOneUser == Spec => []StoredTogether
<1>1. IInv => StoredTogether
  BY DEF IInv
<1> QED
  BY InitIInv, NextIInv, <1>1, PTL DEF Spec

(* Behind a login the menu acts for a blind user: no way through the back  *)
(* stack, the launcher and process death leads a friend there.             *)
THEOREM MenuForBlindUsers == Spec => []MenuIsForBlindUser
<1>1. IInv => MenuIsForBlindUser
  BY DEF IInv
<1> QED
  BY InitIInv, NextIInv, <1>1, PTL DEF Spec

(* In every order of dialogs, recreations, process deaths and changes in   *)
(* the system settings, CameraActivity is black, or opens the camera       *)
(* without permission, only in a process that Android began with it.       *)
THEOREM CameraScreenMatches == Spec => []FragmentMatchesPermission
<1>1. IInv => FragmentMatchesPermission
  BY DEF IInv, TypeOK, FragmentInv, FragmentMatchesPermission
<1> QED
  BY InitIInv, NextIInv, <1>1, PTL DEF Spec

=============================================================================
