-------------------------- MODULE VoiceMenusProofs --------------------------
(***************************************************************************)
(* What VoiceMenus promises, for lists of any length, and, in the second   *)
(* part, what DialPad promises.                                            *)
(***************************************************************************)
EXTENDS VoiceMenus, DialPad, SequenceTheorems, TLAPS

(* The cursor of the friends list never leaves the first friend, which is  *)
(* the one that is spoken.                                                 *)
FirstFriend == i["Friends"] = 0 /\ said["Friends"] \in {-1, 0}

(* After a VOLUME_DOWN the cursor is in the list.                          *)
Walked == "Apps" \in stepped => i["Apps"] >= 0

(* The inductive invariant: while nothing was spoken the friend at the     *)
(* cursor is the first one.                                                *)
IInv == TypeOK /\ CursorOnSpoken /\ Walked /\ TalksToSpoken /\ FirstFriend

-----------------------------------------------------------------------------
(* The same, list by list, which is how the provers use it.                *)
InList(f) ==
  /\ f["Main"] \in -1 .. 5
  /\ f["Friends"] \in -1 .. friends - 1
  /\ f["Apps"] \in -1 .. Len(apps) - 1

(* The cursors of the two lists that move.                                 *)
Spoken ==
  /\ "Main" \in stepped => i["Main"] = said["Main"]
  /\ "Main" \notin stepped => i["Main"] = -1
  /\ "Apps" \in stepped => i["Apps"] = said["Apps"] \/ touched = "yes"
  /\ "Apps" \notin stepped => i["Apps"] = -1

Steps == "Friends" \in stepped => said["Friends"] = 0

(* The app that was started.                                               *)
Started ==
  screen = "App" => \/ opened = LaunchEntry(said["Apps"])
                    \/ touched = "yes" /\ opened = LaunchEntry(i["Apps"])

Launched == {-1} \union {LaunchEntry(k) : k \in 0 .. Len(apps) - 1}

Flat ==
  /\ screen \in {"Main", "Friends", "Apps", "Message", "Other", "App", "Crashed"}
  /\ friends \in 1 .. MaxFriends
  /\ i \in [Lists -> Int] /\ InList(i)
  /\ said \in [Lists -> Int] /\ said["Main"] >= -1 /\ said["Apps"] >= -1
  /\ fetching \in -2 .. MaxFriends - 1
  /\ talking \in -1 .. MaxFriends - 1
  /\ orphan \in {"none", "one"}
  /\ apps \in Seq(Packages) /\ Len(apps) <= MaxApps
  /\ screen \in {"Apps", "App"} => apps # <<>>
  /\ gone \subseteq Packages
  /\ opened \in Launched
  /\ stepped \subseteq Lists
  /\ touched \in {"no", "yes"}
  /\ heard \in Seq(0 .. MaxFriends - 1)
  /\ Spoken
  /\ Steps
  /\ Started
  /\ Walked
  /\ TalksToSpoken
  /\ FirstFriend

LEMMA Flatten == IInv <=> Flat
<1>1. (Size("Main") = 6) /\ (Size("Friends") = friends) /\ (Size("Apps") = Len(apps))
  BY DEF Size
<1>2. (\A l \in Lists : i[l] \in -1 .. Size(l) - 1) <=> InList(i)
  BY <1>1 DEF InList, Lists
<1>3. FirstFriend => ((\A l \in Lists : said[l] >= -1)
                        <=> said["Main"] >= -1 /\ said["Apps"] >= -1)
  BY DEF Lists, FirstFriend
<1>4. FirstFriend /\ stepped \subseteq Lists => (CursorOnSpoken <=> Spoken /\ Steps /\ Started)
  BY DEF CursorOnSpoken, Spoken, Steps, Started, Lists, FirstCursor, FirstFriend
<1>5. (screen \in Lists \union {"Message", "Other", "App", "Crashed"})
        <=> (screen \in {"Main", "Friends", "Apps", "Message", "Other", "App", "Crashed"})
  BY DEF Lists
<1> QED
  BY <1>2, <1>3, <1>4, <1>5 DEF IInv, TypeOK, Flat, Launched

LEMMA FlattenPrime == IInv' <=> Flat'
<1>1. (Size("Main") = 6)' /\ (Size("Friends") = friends)' /\ (Size("Apps") = Len(apps))'
  BY DEF Size
<1>2. (\A l \in Lists : i[l] \in -1 .. Size(l) - 1)' <=> InList(i)'
  BY <1>1 DEF InList, Lists
<1>3. FirstFriend' => ((\A l \in Lists : said[l] >= -1)'
                        <=> (said["Main"] >= -1 /\ said["Apps"] >= -1)')
  BY DEF Lists, FirstFriend
<1>4. FirstFriend' /\ (stepped \subseteq Lists)'
        => (CursorOnSpoken' <=> Spoken' /\ Steps' /\ Started')
  BY DEF CursorOnSpoken, Spoken, Steps, Started, Lists, FirstCursor, FirstFriend
<1>5. (screen \in Lists \union {"Message", "Other", "App", "Crashed"})'
        <=> (screen \in {"Main", "Friends", "Apps", "Message", "Other", "App", "Crashed"})'
  BY DEF Lists
<1> QED
  BY <1>2, <1>3, <1>4, <1>5 DEF IInv, TypeOK, Flat, Launched

LEMMA InitFlat == Init => Flat
BY SizeAssumption
   DEF Init, Flat, InList, TalksToSpoken, FirstFriend, Lists, FirstCursor, Spoken, Steps, Walked,
       Started, Launched

(* A step at the list l changes its cursor and what it spoke, and leaves   *)
(* the other lists alone.                                                  *)
LEMMA OneList ==
  ASSUME i \in [Lists -> Int], said \in [Lists -> Int],
         NEW l \in Lists, NEW v \in Int, NEW w \in Int,
         i' = [i EXCEPT ![l] = v], said' = [said EXCEPT ![l] = w]
  PROVE  /\ i' \in [Lists -> Int] /\ said' \in [Lists -> Int]
         /\ i'[l] = v /\ said'[l] = w
         /\ l # "Main" => i'["Main"] = i["Main"] /\ said'["Main"] = said["Main"]
         /\ l # "Friends" => i'["Friends"] = i["Friends"] /\ said'["Friends"] = said["Friends"]
         /\ l # "Apps" => i'["Apps"] = i["Apps"] /\ said'["Apps"] = said["Apps"]
BY DEF Lists

LEMMA KeepsTypes == Flat => i \in [Lists -> Int] /\ said \in [Lists -> Int]
BY DEF Flat

(* Where the list of apps stays, so does the entry that a package opens.   *)
LEMMA SameLaunch == UNCHANGED apps => \A k : LaunchEntry(k)' = LaunchEntry(k)
BY DEF LaunchEntry

LEMMA LoadType ==
  ASSUME LoadApps
  PROVE  /\ apps' \in Seq(Packages) /\ Len(apps') \in 1 .. MaxApps /\ apps' # <<>>
         /\ gone' = {} /\ touched' = "no"
<1>1. PICK n \in 1 .. MaxApps : apps' \in [1 .. n -> Packages]
  BY DEF LoadApps
<1>2. n \in Nat
  BY <1>1, SizeAssumption
<1>3. apps' \in Seq(Packages) /\ Len(apps') = n
  BY <1>1, <1>2
<1> QED
  BY <1>1, <1>2, <1>3 DEF LoadApps

LEMMA AppendIn ==
  ASSUME NEW S, NEW s \in Seq(S), NEW e \in S PROVE Append(s, e) \in Seq(S)
OBVIOUS

LEMMA Small ==
  ASSUME NEW n \in 1 .. MaxFriends PROVE 0 \in -1 .. n - 1 /\ -1 \in -1 .. n - 1
<1>1. n \in Int /\ n >= 1
  BY SizeAssumption
<1>2. 0 \in -1 .. n - 1
  BY <1>1
<1>3. -1 \in -1 .. n - 1
  BY <1>1
<1> QED
  BY <1>2, <1>3

(* A step that leaves the lists and their cursors alone and opens no app.  *)
LEMMA ListsStay ==
  ASSUME Flat, UNCHANGED <<i, said, friends, apps, opened, touched, stepped, heard>>,
         gone' \subseteq Packages, orphan' \in {"none", "one"},
         screen' \in {screen, "Main", "Friends", "Other", "Crashed"}
                     \union (IF screen = "App" THEN {"Apps"} ELSE {})
                     \union {"Message"},
         fetching' \in -2 .. MaxFriends - 1, talking' \in -1 .. MaxFriends - 1,
         screen' = "Message" => talking' = 0
  PROVE  Flat'
<1>1. \A k : LaunchEntry(k)' = LaunchEntry(k)
  BY SameLaunch
<1>2. (opened \in Launched)'
  BY <1>1 DEF Flat, Launched
<1>3. Started'
  BY <1>1 DEF Flat, Started
<1>4. TalksToSpoken' /\ FirstFriend'
  BY DEF Flat, TalksToSpoken, FirstFriend
<1>5. Spoken' /\ Steps' /\ Walked' /\ InList(i)'
  BY DEF Flat, Spoken, Steps, Walked, InList
<1> QED
  BY <1>2, <1>3, <1>4, <1>5 DEF Flat

LEMMA VolumeDownFlat == ASSUME Flat, VolumeDown PROVE Flat'
<1> USE SizeAssumption
<1>0. /\ stepped' = stepped \union {screen}
      /\ UNCHANGED <<screen, friends, fetching, talking, orphan, apps, gone, opened>>
  BY DEF VolumeDown
<1>l. \A k : LaunchEntry(k)' = LaunchEntry(k)
  BY <1>0, SameLaunch
<1>o. (opened \in Launched)'
  BY <1>0, <1>l DEF Flat, Launched
<1>1. CASE On("Main") /\ Advance("Main") /\ UNCHANGED <<heard, touched>>
  <2> DEFINE n == IF i["Main"] + 1 >= 6 THEN 0 ELSE i["Main"] + 1
  <2>a. i["Main"] \in -1 .. 5
    BY DEF Flat, InList
  <2>0. n \in 0 .. 5
    BY <2>a
  <2>1. i' = [i EXCEPT !["Main"] = n] /\ said' = [said EXCEPT !["Main"] = i'["Main"]]
    BY <1>1 DEF Advance, Size
  <2>2. i' = [i EXCEPT !["Main"] = n] /\ said' = [said EXCEPT !["Main"] = n]
    BY <2>1 DEF Flat, Lists
  <2> HIDE DEF n
  <2>3. /\ i' \in [Lists -> Int] /\ said' \in [Lists -> Int]
        /\ i'["Main"] = n /\ said'["Main"] = n
        /\ i'["Friends"] = i["Friends"] /\ said'["Friends"] = said["Friends"]
        /\ i'["Apps"] = i["Apps"] /\ said'["Apps"] = said["Apps"]
    BY <2>0, <2>2, OneList, KeepsTypes DEF Lists
  <2>4. screen = "Main" /\ UNCHANGED <<heard, touched>>
    BY <1>1 DEF On
  <2>5. Spoken' /\ Steps' /\ Walked' /\ Started' /\ stepped' \subseteq Lists
    BY <1>0, <2>3, <2>4 DEF Flat, Spoken, Steps, Walked, Started, Lists
  <2>6. TalksToSpoken' /\ FirstFriend'
    BY <1>0, <2>3, <2>4 DEF Flat, TalksToSpoken, FirstFriend
  <2>7. InList(i)' /\ said'["Main"] >= -1 /\ said'["Apps"] >= -1
    BY <1>0, <2>0, <2>3 DEF Flat, InList
  <2> QED
    BY <1>0, <1>o, <2>3, <2>4, <2>5, <2>6, <2>7 DEF Flat
<1>2. CASE On("Apps") /\ Advance("Apps") /\ touched' = "no" /\ UNCHANGED heard
  <2> DEFINE n == IF i["Apps"] + 1 >= Len(apps) THEN 0 ELSE i["Apps"] + 1
  <2>a. screen = "Apps"
    BY <1>2 DEF On
  <2>b. Len(apps) \in Nat /\ Len(apps) >= 1
    BY <2>a DEF Flat
  <2>0. n \in 0 .. Len(apps) - 1
    BY <2>b DEF Flat, InList
  <2>1. i' = [i EXCEPT !["Apps"] = n] /\ said' = [said EXCEPT !["Apps"] = i'["Apps"]]
    BY <1>2 DEF Advance, Size
  <2>2. i' = [i EXCEPT !["Apps"] = n] /\ said' = [said EXCEPT !["Apps"] = n]
    BY <2>1 DEF Flat, Lists
  <2> HIDE DEF n
  <2>3. /\ i' \in [Lists -> Int] /\ said' \in [Lists -> Int]
        /\ i'["Main"] = i["Main"] /\ said'["Main"] = said["Main"]
        /\ i'["Friends"] = i["Friends"] /\ said'["Friends"] = said["Friends"]
        /\ i'["Apps"] = n /\ said'["Apps"] = n
    BY <2>0, <2>2, OneList, KeepsTypes DEF Lists
  <2>4. n >= 0 /\ touched' = "no"
    BY <1>2, <2>b, <2>0
  <2>5. Spoken' /\ Steps' /\ Walked' /\ Started' /\ stepped' \subseteq Lists
    BY <1>0, <2>3, <2>4, <2>a DEF Flat, Spoken, Steps, Walked, Started, Lists
  <2>6. TalksToSpoken' /\ FirstFriend'
    BY <1>0, <2>3, <2>a DEF Flat, TalksToSpoken, FirstFriend
  <2>7. InList(i)' /\ said'["Main"] >= -1 /\ said'["Apps"] >= -1
    BY <1>0, <2>b, <2>0, <2>3 DEF Flat, InList
  <2> QED
    BY <1>0, <1>2, <1>o, <2>3, <2>5, <2>6, <2>7 DEF Flat
<1>3. CASE On("Friends") /\ SpeakFriend /\ UNCHANGED touched
  <2>1. i' = [i EXCEPT !["Friends"] = 0] /\ said' = [said EXCEPT !["Friends"] = 0]
    BY <1>3 DEF SpeakFriend, Flat, FirstFriend
  <2>2. screen = "Friends" /\ UNCHANGED touched
    BY <1>3 DEF On
  <2>3. heard' \in Seq(0 .. MaxFriends - 1)
    <3>1. heard' = IF Len(heard) < MaxFriends THEN Append(heard, i["Friends"]) ELSE heard
      BY <2>2 DEF VolumeDown, On
    <3>2. 0 \in 0 .. MaxFriends - 1
      OBVIOUS
    <3>3. i["Friends"] = 0 /\ heard \in Seq(0 .. MaxFriends - 1)
      BY DEF Flat, FirstFriend
    <3> QED
      BY <3>1, <3>2, <3>3, AppendIn
  <2>4. /\ i' \in [Lists -> Int] /\ said' \in [Lists -> Int]
        /\ i'["Main"] = i["Main"] /\ said'["Main"] = said["Main"]
        /\ i'["Friends"] = 0 /\ said'["Friends"] = 0
        /\ i'["Apps"] = i["Apps"] /\ said'["Apps"] = said["Apps"]
    BY <2>1, OneList, KeepsTypes DEF Lists
  <2>5. Spoken' /\ Steps' /\ Walked' /\ Started' /\ stepped' \subseteq Lists
    BY <1>0, <2>2, <2>4 DEF Flat, Spoken, Steps, Walked, Started, Lists
  <2>6. TalksToSpoken' /\ FirstFriend'
    BY <1>0, <2>2, <2>4 DEF Flat, TalksToSpoken, FirstFriend
  <2>7. InList(i)' /\ said'["Main"] >= -1 /\ said'["Apps"] >= -1
    BY <1>0, <2>4 DEF Flat, InList
  <2> QED
    BY <1>0, <1>o, <2>2, <2>3, <2>4, <2>5, <2>6, <2>7 DEF Flat
<1> QED
  BY <1>1, <1>2, <1>3 DEF VolumeDown

LEMMA OpenEntryFlat == ASSUME Flat, OpenEntry PROVE Flat'
<1>0. UNCHANGED <<friends, talking, orphan, heard>> /\ screen = "Main"
  BY DEF OpenEntry, On
<1>1. PICK k : Navigation(k)
  BY DEF OpenEntry
<1>2. CASE k = 5
  <2>1. /\ screen' = "Apps" /\ LoadApps /\ opened' = -1 /\ UNCHANGED fetching
        /\ stepped' = stepped \ {"Apps"}
        /\ i' = [i EXCEPT !["Apps"] = -1] /\ said' = [said EXCEPT !["Apps"] = -1]
    BY <1>1, <1>2 DEF Navigation
  <2>2. /\ i' \in [Lists -> Int] /\ said' \in [Lists -> Int]
        /\ i'["Main"] = i["Main"] /\ said'["Main"] = said["Main"]
        /\ i'["Friends"] = i["Friends"] /\ said'["Friends"] = said["Friends"]
        /\ i'["Apps"] = -1 /\ said'["Apps"] = -1
    BY <2>1, OneList, KeepsTypes DEF Lists
  <2>3. /\ apps' \in Seq(Packages) /\ Len(apps') \in 1 .. MaxApps /\ apps' # <<>>
        /\ gone' = {} /\ touched' = "no"
    BY <2>1, LoadType
  <2>4. Spoken' /\ Steps' /\ Walked' /\ Started' /\ stepped' \subseteq Lists
    BY <2>1, <2>2 DEF Flat, Spoken, Steps, Walked, Started, Lists
  <2>5. TalksToSpoken' /\ FirstFriend'
    BY <1>0, <2>1, <2>2 DEF Flat, TalksToSpoken, FirstFriend
  <2>6. InList(i)' /\ said'["Main"] >= -1 /\ said'["Apps"] >= -1
    BY <1>0, <2>2, <2>3, SizeAssumption DEF Flat, InList
  <2>7. (opened \in Launched)'
    BY <2>1 DEF Launched
  <2>8. Len(apps') <= MaxApps
    BY <2>3, SizeAssumption
  <2> QED
    BY <1>0, <2>1, <2>2, <2>3, <2>4, <2>5, <2>6, <2>7, <2>8 DEF Flat
<1>3. CASE k # 5
  <2>1. /\ UNCHANGED <<i, said, appList, stepped>>
        /\ screen' \in {screen, "Other"} /\ fetching' \in {fetching, -1}
    BY <1>1, <1>3 DEF Navigation
  <2>2. fetching' \in -2 .. MaxFriends - 1
    BY <2>1, SizeAssumption DEF Flat
  <2>3. gone' \subseteq Packages /\ orphan' \in {"none", "one"}
        /\ talking' \in -1 .. MaxFriends - 1
    BY <1>0, <2>1 DEF Flat, appList
  <2>4. screen' # "Message" /\ screen' \in {screen, "Other"}
    BY <1>0, <2>1
  <2> QED
    BY <1>0, <2>1, <2>2, <2>3, <2>4, ListsStay DEF appList
<1> QED
  BY <1>2, <1>3

LEMMA FriendsRepliedFlat == ASSUME Flat, FriendsReplied PROVE Flat'
<1>0. UNCHANGED <<talking, orphan, appList>> /\ fetching' = -2
  BY DEF FriendsReplied
<1>a. UNCHANGED <<apps, gone, opened, touched>>
  BY <1>0 DEF appList
<1>b. -2 \in -2 .. MaxFriends - 1
  BY SizeAssumption
<1>l. \A k : LaunchEntry(k)' = LaunchEntry(k)
  BY <1>a, SameLaunch
<1>1. CASE UNCHANGED <<screen, friends, i, said, heard, stepped>>
  <2>1. Spoken' /\ Steps' /\ Walked' /\ TalksToSpoken' /\ FirstFriend' /\ InList(i)'
    BY <1>0, <1>a, <1>1 DEF Flat, Spoken, Steps, Walked, TalksToSpoken, FirstFriend, InList
  <2>2. (opened \in Launched)' /\ Started'
    BY <1>a, <1>l, <1>1 DEF Flat, Launched, Started
  <2> QED
    BY <1>0, <1>a, <1>b, <1>1, <2>1, <2>2 DEF Flat
<1>2. CASE /\ screen' = "Friends"
           /\ friends' \in 1 .. MaxFriends
           /\ i' = [i EXCEPT !["Friends"] = 0]
           /\ said' = [said EXCEPT !["Friends"] = -1]
           /\ heard' = <<>>
           /\ stepped' = stepped \ {"Friends"}
  <2>1. /\ i' \in [Lists -> Int] /\ said' \in [Lists -> Int]
        /\ i'["Main"] = i["Main"] /\ said'["Main"] = said["Main"]
        /\ i'["Friends"] = 0 /\ said'["Friends"] = -1
        /\ i'["Apps"] = i["Apps"] /\ said'["Apps"] = said["Apps"]
    BY <1>2, OneList, KeepsTypes DEF Lists
  <2>2. 0 \in -1 .. friends' - 1
    <3>1. friends' \in 1 .. MaxFriends
      BY <1>2, Zenon
    <3> QED
      BY <3>1, Small
  <2>3. heard' \in Seq(0 .. MaxFriends - 1)
    BY <1>2
  <2>4. Spoken' /\ Steps' /\ Walked' /\ Started' /\ stepped' \subseteq Lists
    BY <1>a, <1>2, <2>1 DEF Flat, Spoken, Steps, Walked, Started, Lists
  <2>5. TalksToSpoken' /\ FirstFriend'
    BY <1>2, <2>1 DEF TalksToSpoken, FirstFriend
  <2>6. InList(i)' /\ said'["Main"] >= -1 /\ said'["Apps"] >= -1
    BY <1>a, <2>1, <2>2 DEF Flat, InList
  <2>7. (opened \in Launched)'
    BY <1>a, <1>l DEF Flat, Launched
  <2> QED
    BY <1>0, <1>a, <1>b, <1>2, <2>1, <2>3, <2>4, <2>5, <2>6, <2>7 DEF Flat
<1> QED
  BY <1>1, <1>2 DEF FriendsReplied

(* An app is started: the touch speaks it, VOLUME_UP has spoken it.        *)
LEMMA LaunchFlat ==
  ASSUME Flat, On("Apps"), NEW k \in Int, LaunchApp(k),
         \/ UNCHANGED <<said, touched>> /\ k = i["Apps"]
         \/ /\ said' = [said EXCEPT !["Apps"] = k] /\ touched' = "yes"
            /\ k \in 0 .. Len(apps) - 1
  PROVE  Flat'
<1>0. /\ UNCHANGED <<i, friends, fetching, talking, orphan, apps, gone, heard, stepped>>
      /\ screen = "Apps"
  BY DEF LaunchApp, On
<1>l. \A e : LaunchEntry(e)' = LaunchEntry(e)
  BY <1>0, SameLaunch
<1>1. \/ /\ screen' = "App" /\ opened' = LaunchEntry(k)
         /\ k \in 0 .. Len(apps) - 1
      \/ screen' = "Crashed" /\ opened' = opened
  BY DEF LaunchApp
<1>2. (opened \in Launched)'
  BY <1>0, <1>1, <1>l DEF Flat, Launched
<1>3. /\ said' \in [Lists -> Int] /\ touched' \in {"no", "yes"}
      /\ said'["Main"] = said["Main"] /\ said'["Friends"] = said["Friends"]
      /\ \/ said'["Apps"] = said["Apps"] /\ touched' = touched /\ k = i["Apps"]
         \/ said'["Apps"] = k /\ touched' = "yes" /\ k >= -1
  BY DEF Flat, Lists
<1>4. Spoken' /\ Steps' /\ Walked'
  BY <1>0, <1>3 DEF Flat, Spoken, Steps, Walked
<1>5. Started'
  <2> SUFFICES ASSUME screen' = "App"
               PROVE  \/ opened' = LaunchEntry(said'["Apps"])
                      \/ touched' = "yes" /\ opened' = LaunchEntry(i["Apps"])
    BY <1>0, <1>l DEF Started
  <2>1. opened' = LaunchEntry(k) /\ k \in 0 .. Len(apps) - 1
    BY <1>1
  <2>2. CASE said'["Apps"] = k
    BY <2>1, <2>2
  <2>3. CASE said'["Apps"] = said["Apps"] /\ touched' = touched /\ k = i["Apps"]
    <3>1. "Apps" \in stepped
      BY <2>1, <2>3 DEF Flat, Spoken
    <3>2. k = said["Apps"] \/ touched = "yes"
      BY <2>3, <3>1 DEF Flat, Spoken
    <3> QED
      BY <2>1, <2>3, <3>2
  <2> QED
    BY <1>3, <2>2, <2>3
<1>6. TalksToSpoken' /\ FirstFriend'
  BY <1>0, <1>1, <1>3 DEF Flat, TalksToSpoken, FirstFriend
<1>7. InList(i)' /\ said'["Main"] >= -1 /\ said'["Apps"] >= -1
  BY <1>0, <1>3 DEF Flat, InList
<1> QED
  BY <1>0, <1>1, <1>2, <1>3, <1>4, <1>5, <1>6, <1>7 DEF Flat

(* A recreated list begins where its field i does.                         *)
LEMMA RecreateFlat == ASSUME Flat, Recreate PROVE Flat'
<1> DEFINE c == FirstCursor[screen]
<1>0. /\ screen \in Lists /\ fetching' = -2 /\ stepped' = stepped \ {screen}
      /\ i' = [i EXCEPT ![screen] = c] /\ orphan' \in {orphan, "one"}
      /\ UNCHANGED <<screen, said, friends, talking, heard>>
  BY DEF Recreate
<1>1. /\ c \in {-1, 0} /\ (screen = "Friends" => c = 0) /\ (screen # "Friends" => c = -1)
  BY <1>0 DEF FirstCursor, Lists
<1> HIDE DEF c
<1>2. /\ i' \in [Lists -> Int] /\ i'[screen] = c
      /\ screen # "Main" => i'["Main"] = i["Main"]
      /\ screen # "Friends" => i'["Friends"] = i["Friends"]
      /\ screen # "Apps" => i'["Apps"] = i["Apps"]
  BY <1>0, <1>1 DEF Flat, Lists
<1>3. /\ apps' \in Seq(Packages) /\ Len(apps') <= MaxApps /\ Len(apps') \in Nat
      /\ screen = "Apps" => apps' # <<>>
      /\ gone' \subseteq Packages /\ touched' \in {"no", "yes"}
      /\ (opened \in Launched)'
      /\ screen # "Apps" => UNCHANGED <<apps, touched>>
  <2>1. CASE screen = "Apps"
    <3>1. LoadApps /\ opened' = -1
      BY <2>1 DEF Recreate
    <3>2. /\ apps' \in Seq(Packages) /\ Len(apps') \in 1 .. MaxApps /\ apps' # <<>>
          /\ gone' = {} /\ touched' = "no"
      BY <3>1, LoadType
    <3>3. Len(apps') <= MaxApps /\ Len(apps') \in Nat
      BY <3>2, SizeAssumption
    <3> QED
      BY <2>1, <3>1, <3>2, <3>3 DEF Launched
  <2>2. CASE screen # "Apps"
    <3>1. UNCHANGED <<apps, gone, opened, touched>>
      BY <2>2 DEF Recreate, appList
    <3>2. \A k : LaunchEntry(k)' = LaunchEntry(k)
      BY <3>1, SameLaunch
    <3>3. (opened \in Launched)'
      BY <3>1, <3>2 DEF Flat, Launched
    <3> QED
      BY <2>2, <3>1, <3>3 DEF Flat
  <2> QED
    BY <2>1, <2>2
<1>4. Spoken' /\ Steps' /\ Walked' /\ Started' /\ stepped' \subseteq Lists
  BY <1>0, <1>1, <1>2, <1>3 DEF Flat, Spoken, Steps, Walked, Started, Lists
<1>5. TalksToSpoken' /\ FirstFriend'
  BY <1>0, <1>1, <1>2 DEF Flat, TalksToSpoken, FirstFriend, Lists
<1>6. InList(i)'
  BY <1>0, <1>1, <1>2, <1>3 DEF Flat, InList, Lists
<1>7. -2 \in -2 .. MaxFriends - 1
  BY SizeAssumption
<1> QED
  BY <1>0, <1>2, <1>3, <1>4, <1>5, <1>6, <1>7 DEF Flat, Lists

LEMMA NextFlat == Flat /\ [Next]_vars => Flat'
<1> SUFFICES ASSUME Flat, [Next]_vars PROVE Flat'
  OBVIOUS
<1>a. /\ gone \subseteq Packages /\ orphan \in {"none", "one"}
      /\ fetching \in -2 .. MaxFriends - 1 /\ talking \in -1 .. MaxFriends - 1
      /\ (screen = "Message" => talking = 0) /\ i["Friends"] = 0
  BY DEF Flat, TalksToSpoken, FirstFriend
<1>b. /\ 0 \in -2 .. MaxFriends - 1 /\ -2 \in -2 .. MaxFriends - 1
      /\ 0 \in -1 .. MaxFriends - 1 /\ -1 \in -1 .. MaxFriends - 1
  BY SizeAssumption
<1>1. CASE VolumeDown
  BY <1>1, VolumeDownFlat
<1>2. CASE OpenEntry
  BY <1>2, OpenEntryFlat
<1>3. CASE FriendsReplied
  BY <1>3, FriendsRepliedFlat
<1>4. CASE GotoMessage
  BY <1>4, <1>a, <1>b, ListsStay DEF GotoMessage, appList
<1>5. CASE MessagesReplied
  BY <1>5, <1>a, <1>b, ListsStay DEF MessagesReplied, appList
<1>6. CASE OpenApp
  <2>1. i["Apps"] \in Int
    BY DEF Flat, Lists
  <2> QED
    BY <1>6, <2>1, LaunchFlat DEF OpenApp
<1>7. CASE TouchApp
  <2>1. PICK k \in 0 .. Len(apps) - 1 :
          said' = [said EXCEPT !["Apps"] = k] /\ touched' = "yes" /\ LaunchApp(k)
    BY <1>7 DEF TouchApp
  <2>2. k \in Int /\ On("Apps")
    BY <1>7 DEF TouchApp
  <2> QED
    BY <2>1, <2>2, LaunchFlat
<1>8. CASE Uninstall
  BY <1>8, <1>a, ListsStay DEF Uninstall
<1>9. CASE Back
  BY <1>9, <1>a, <1>b, ListsStay DEF Back, appList
<1>10. CASE Recreate
  BY <1>10, RecreateFlat
<1>11. CASE OrphanReplies
  BY <1>11, <1>a, ListsStay DEF OrphanReplies, appList
<1>12. CASE UNCHANGED vars
  BY <1>12, <1>a, ListsStay DEF vars
<1> QED
  BY <1>1, <1>2, <1>3, <1>4, <1>5, <1>6, <1>7, <1>8, <1>9, <1>10, <1>11, <1>12 DEF Next

LEMMA InitIInv == Init => IInv
BY InitFlat, Flatten

LEMMA NextIInv == IInv /\ [Next]_vars => IInv'
BY NextFlat, Flatten, FlattenPrime

(* The list of apps crashes at -1 or at an app that is gone, and -1 means  *)
(* that this AppsListActivity had no VOLUME_DOWN.                          *)
LEMMA NextCrash ==
  Flat /\ CrashOnlyUnprepared /\ [Next]_vars => CrashOnlyUnprepared'
<1> SUFFICES ASSUME Flat, CrashOnlyUnprepared, [Next]_vars, screen' = "Crashed"
             PROVE  ("Apps" \notin stepped \/ gone # {} \/ orphan = "one")'
  BY DEF CrashOnlyUnprepared
<1>1. CASE OpenApp \/ TouchApp
  <2>1. PICK k \in {i["Apps"]} \union (0 .. Len(apps) - 1) : LaunchApp(k)
    BY <1>1 DEF OpenApp, TouchApp
  <2>2. /\ ~(k \in 0 .. Len(apps) - 1 /\ apps[k + 1] \notin gone)
        /\ UNCHANGED <<stepped, gone>>
    BY <2>1 DEF LaunchApp
  <2>3. CASE k \in 0 .. Len(apps) - 1
    BY <2>2, <2>3
  <2>4. CASE k \notin 0 .. Len(apps) - 1
    <3>0. k = i["Apps"] /\ Len(apps) \in Nat /\ i["Apps"] \in -1 .. Len(apps) - 1
      BY <2>4 DEF Flat, InList
    <3>1. i["Apps"] = -1
      BY <2>4, <3>0
    <3>3. CASE "Apps" \notin stepped
      BY <2>2, <3>3
    <3>4. CASE "Apps" \in stepped
      <4>1. i["Apps"] >= 0
        BY <3>4 DEF Flat, Walked
      <4> QED
        BY <3>1, <4>1
    <3> QED
      BY <3>3, <3>4
  <2> QED
    BY <2>3, <2>4
<1>2. CASE OrphanReplies
  BY <1>2 DEF OrphanReplies
<1>3. CASE ~OpenApp /\ ~TouchApp /\ ~OrphanReplies
  <2>1. screen = "Crashed"
    BY <1>3 DEF Next, vars, VolumeDown, On, OpenEntry, Navigation, FriendsReplied,
                GotoMessage, MessagesReplied, Uninstall, Back, Recreate, Lists
  <2>2. stepped' \subseteq stepped /\ gone \subseteq gone' /\ orphan' = orphan
    BY <1>3, <2>1 DEF Next, vars, appList, VolumeDown, On, OpenEntry, FriendsReplied,
                      GotoMessage, MessagesReplied, Uninstall, Back, Recreate, Lists
  <2> QED
    BY <2>1, <2>2 DEF CrashOnlyUnprepared
<1> QED
  BY <1>1, <1>2, <1>3

LEMMA Inductive == Spec => []IInv
BY InitIInv, NextIInv, PTL DEF Spec

(* Every cursor stays in its list, whatever its length.                    *)
THEOREM TypeCorrect == Spec => []TypeOK
BY Inductive, PTL DEF IInv

(* VOLUME_UP opens the entry that was spoken last, for lists of any        *)
(* length: unless that was an app by touch, and nothing or the first       *)
(* friend before the first VOLUME_DOWN of a screen.                        *)
THEOREM OpensWhatWasSpoken == Spec => []CursorOnSpoken
BY Inductive, PTL DEF IInv

(* A message goes to the friend that was spoken last.                      *)
THEOREM TalksToWhomWasSpoken == Spec => []TalksToSpoken
BY Inductive, PTL DEF IInv

(* For lists of any length, the menus crash only by VOLUME_UP on the list  *)
(* of apps before its first VOLUME_DOWN, after an app was uninstalled, or  *)
(* when a reply comes to a screen that was recreated.                      *)
THEOREM CrashesOnlyUnprepared == Spec => []CrashOnlyUnprepared
<1>1. Init => CrashOnlyUnprepared
  BY DEF Init, CrashOnlyUnprepared
<1>2. IInv /\ CrashOnlyUnprepared /\ [Next]_vars => CrashOnlyUnprepared'
  BY NextCrash, Flatten
<1> QED
  BY <1>1, <1>2, Inductive, PTL DEF Spec

(* Everything that is spoken, fetched or written to is read off the cursor *)
(* of the friends list, which FirstFriend keeps at 0.                      *)
LEMMA NextOnlyFirst ==
  Flat /\ OnlyFirstFriend /\ [Next]_vars => OnlyFirstFriend'
<1> SUFFICES ASSUME Flat, OnlyFirstFriend, [Next]_vars PROVE OnlyFirstFriend'
  OBVIOUS
<1>0. i["Friends"] = 0 /\ heard \in Seq(0 .. MaxFriends - 1)
  BY DEF Flat, FirstFriend
<1>1. \A n \in DOMAIN heard' : heard'[n] = 0
  <2>1. UNCHANGED heard \/ heard' = <<>> \/ heard' = Append(heard, 0)
    BY <1>0 DEF Next, vars, VolumeDown, OpenEntry, FriendsReplied, GotoMessage,
                MessagesReplied, OpenApp, TouchApp, LaunchApp, Uninstall, Back, Recreate,
                OrphanReplies
  <2>2. CASE heard' = Append(heard, 0)
    BY <1>0, <2>2 DEF OnlyFirstFriend
  <2> QED
    BY <2>1, <2>2 DEF OnlyFirstFriend
<1>2. fetching' <= 0
  <2>1. fetching' \in {fetching, -1, -2, i["Friends"]}
    BY DEF Next, vars, VolumeDown, OpenEntry, Navigation, FriendsReplied, GotoMessage,
           MessagesReplied, OpenApp, TouchApp, LaunchApp, Uninstall, Back, Recreate,
                OrphanReplies
  <2> QED
    BY <1>0, <2>1 DEF OnlyFirstFriend
<1>3. talking' <= 0
  <2>1. talking' \in {talking, -1, i["Friends"]}
    BY DEF Next, vars, VolumeDown, OpenEntry, FriendsReplied, GotoMessage,
           MessagesReplied, OpenApp, TouchApp, LaunchApp, Uninstall, Back, Recreate,
                OrphanReplies
  <2> QED
    BY <1>0, <2>1 DEF OnlyFirstFriend
<1> QED
  BY <1>1, <1>2, <1>3 DEF OnlyFirstFriend

(* However long the list of ViewFriendsActivity is and whatever is         *)
(* pressed, no friend but the first is spoken, fetched from or written to. *)
THEOREM OffersOnlyTheFirst == Spec => []OnlyFirstFriend
<1>1. Init => OnlyFirstFriend
  BY DEF Init, OnlyFirstFriend
<1>2. IInv /\ OnlyFirstFriend /\ [Next]_vars => OnlyFirstFriend'
  BY NextOnlyFirst, Flatten
<1> QED
  BY <1>1, <1>2, Inductive, PTL DEF Spec

-----------------------------------------------------------------------------
(***************************************************************************)
(* The other activity that is used with the two volume keys, DialPad, for  *)
(* numbers of any length: the selection never leaves the text, back space  *)
(* undoes an entry, and the user hears what is entered, the key eight      *)
(* excepted.                                                               *)
(***************************************************************************)

InText(p) == p.start <= Len(p.text) /\ p.end <= Len(p.text)

(* Entering a character and deleting keep the selection in the text.       *)
LEMMA EnterInText ==
  ASSUME NEW p \in Pads, NEW c \in Chars, InText(p)
  PROVE  Enter(p, c) \in Pads /\ InText(Enter(p, c))
<1> DEFINE left  == SubSeq(p.text, 1, p.start)
           right == SubSeq(p.text, p.end + 1, Len(p.text))
<1>1. p.text \in Seq(Chars) /\ p.start \in Nat /\ p.end \in Nat
  BY DEF Pads
<1>2. left \in Seq(Chars) /\ Len(left) = p.start
  BY <1>1 DEF InText
<1>3. right \in Seq(Chars) /\ Len(right) = Len(p.text) - p.end
  BY <1>1 DEF InText
<1> HIDE DEF left, right
<1>a. left \o <<c>> \in Seq(Chars) /\ Len(left \o <<c>>) = p.start + 1
  BY <1>1, <1>2
<1>4. /\ left \o <<c>> \o right \in Seq(Chars)
      /\ Len(left \o <<c>> \o right) = p.start + 1 + (Len(p.text) - p.end)
  <2> DEFINE front == left \o <<c>>
  <2>1. front \in Seq(Chars) /\ Len(front) = p.start + 1
    BY <1>a
  <2> HIDE DEF front
  <2>2. front \o right \in Seq(Chars) /\ Len(front \o right) = Len(front) + Len(right)
    BY <1>3, <2>1, ConcatProperties
  <2> QED
    BY <1>1, <1>3, <2>1, <2>2 DEF front
<1>5. Enter(p, c) = [text |-> left \o <<c>> \o right, start |-> p.start + 1,
                     end |-> p.start + 1]
  BY DEF Enter, left, right
<1> QED
  BY <1>1, <1>4, <1>5 DEF Pads, InText

LEMMA DeleteInText ==
  ASSUME NEW p \in Pads, InText(p)
  PROVE  Delete(p) \in Pads /\ InText(Delete(p))
<1> DEFINE from  == IF p.start = p.end /\ p.start # 0 THEN p.start - 1 ELSE p.start
           left  == SubSeq(p.text, 1, from)
           right == SubSeq(p.text, p.end + 1, Len(p.text))
<1>1. p.text \in Seq(Chars) /\ p.start \in Nat /\ p.end \in Nat
  BY DEF Pads
<1>2. from \in Nat /\ from <= p.start
  BY <1>1
<1> HIDE DEF from
<1>3. left \in Seq(Chars) /\ Len(left) = from
  BY <1>1, <1>2 DEF InText
<1>4. right \in Seq(Chars) /\ Len(right) = Len(p.text) - p.end
  BY <1>1 DEF InText
<1> HIDE DEF left, right
<1>5. left \o right \in Seq(Chars) /\ Len(left \o right) = from + (Len(p.text) - p.end)
  BY <1>1, <1>2, <1>3, <1>4, ConcatProperties
<1>6. Delete(p) = [text |-> left \o right, start |-> from, end |-> from]
  BY DEF Delete, from, left, right
<1> QED
  BY <1>1, <1>2, <1>5, <1>6 DEF Pads, InText

(* The key under the cursor.                                               *)
LEMMA KeyType ==
  /\ \A k \in 0 .. 13 : Keys[k + 1] \in Chars \union {"call", "delete"}
  /\ \A k \in 0 .. 11 : Keys[k + 1] \in Chars
<1>1. ASSUME NEW k \in 0 .. 13
      PROVE  Keys[k + 1] \in Chars \union {"call", "delete"}
  BY DEF Keys, Chars
<1>2. ASSUME NEW k \in 0 .. 11 PROVE Keys[k + 1] \in Chars
  BY DEF Keys, Chars
<1> QED
  BY <1>1, <1>2

DialInv == DialTypeOK /\ SelectionInText

LEMMA InitDial == DialInit => DialInv
<1> SUFFICES ASSUME DialInit PROVE DialInv
  OBVIOUS
<1>1. <<>> \in Seq(Chars) /\ Len(<<>>) = 0
  OBVIOUS
<1>2. pad \in Pads /\ pad.start = 0 /\ pad.end = 0 /\ Len(pad.text) = 0
  BY <1>1 DEF DialInit, Pads
<1>3. SelectionInText
  BY <1>2 DEF SelectionInText
<1>4. DialTypeOK
  BY <1>2 DEF DialInit, DialTypeOK
<1> QED
  BY <1>3, <1>4 DEF DialInv

(* Every event keeps the types and the selection in the text.              *)
LEMMA NextDial == DialInv /\ [DialNext]_dialVars => DialInv'
<1> SUFFICES ASSUME DialInv, [DialNext]_dialVars PROVE DialInv'
  OBVIOUS
<1>0. DialTypeOK /\ pad \in Pads /\ InText(pad)
  BY DEF DialInv, DialTypeOK, SelectionInText, InText
<1>q. ASSUME DialTypeOK', InText(pad)' PROVE DialInv'
  BY <1>q DEF DialInv, SelectionInText, InText
<1>a. ASSUME NEW c \in Chars, Press(c)
      PROVE  pad' \in Pads /\ InText(pad)' /\ spoken' \in Chars
  BY <1>0, <1>a, EnterInText DEF Press
<1>b. ASSUME PressDelete
      PROVE  pad' \in Pads /\ InText(pad)' /\ spoken' = "delete"
  BY <1>0, <1>b, DeleteInText DEF PressDelete
<1>c. UNCHANGED pad => InText(pad)'
  BY <1>0 DEF InText
<1>1. CASE DialVolumeDown
  <2>0. cursor = -1 \/ cursor \in 0 .. 13
    BY <1>0 DEF DialTypeOK
  <2>a. cursor' = IF cursor + 1 >= 14 THEN 0 ELSE cursor + 1
    BY <1>1 DEF DialVolumeDown
  <2>1. cursor' \in 0 .. 13
    BY <2>0, <2>a
  <2>2. spoken' \in Chars \union {"call", "delete"}
    BY <1>1, <2>1, KeyType DEF DialVolumeDown
  <2>3. DialTypeOK'
    BY <1>0, <1>1, <2>1, <2>2 DEF DialVolumeDown, DialTypeOK
  <2> QED
    BY <1>1, <1>c, <1>q, <2>3 DEF DialVolumeDown
<1>2. CASE DialVolumeUp
  <2>1. CASE cursor = -1 /\ UNCHANGED <<spoken, pad, granted, asking, calling>>
    BY <1>0, <1>2, <1>c, <1>q, <2>1 DEF DialVolumeUp, DialTypeOK
  <2>2. CASE cursor \in (0 .. 11) \ {7} /\ Press(Keys[cursor + 1])
    <3>1. Keys[cursor + 1] \in Chars
      BY <2>2, KeyType
    <3>2. pad' \in Pads /\ InText(pad)' /\ spoken' \in Chars
      BY <1>a, <2>2, <3>1
    <3> QED
      BY <1>0, <1>2, <1>q, <2>2, <3>2 DEF DialVolumeUp, Press, DialTypeOK
  <2>3. CASE /\ cursor = 7
             /\ pad' = Enter(Enter(pad, "8"), "9")
             /\ spoken' = "9"
             /\ UNCHANGED <<granted, asking, calling>>
    <3>1. "8" \in Chars /\ "9" \in Chars
      BY DEF Chars
    <3>2. Enter(pad, "8") \in Pads /\ InText(Enter(pad, "8"))
      BY <1>0, <3>1, EnterInText
    <3>3. pad' \in Pads /\ InText(pad)'
      BY <2>3, <3>1, <3>2, EnterInText
    <3> QED
      BY <1>0, <1>2, <1>q, <2>3, <3>1, <3>3 DEF DialVolumeUp, DialTypeOK
  <2>4. CASE cursor = 12 /\ granted /\ MakeCall(TRUE) /\ UNCHANGED <<granted, asking>>
    BY <1>0, <1>2, <1>c, <1>q, <2>4 DEF DialVolumeUp, MakeCall, DialTypeOK
  <2>5. CASE cursor = 12 /\ ~granted /\ asking' = TRUE
             /\ UNCHANGED <<spoken, pad, granted, calling>>
    BY <1>0, <1>2, <1>c, <1>q, <2>5 DEF DialVolumeUp, DialTypeOK
  <2>6. CASE cursor = 13 /\ PressDelete
    BY <1>0, <1>2, <1>b, <1>q, <2>6 DEF DialVolumeUp, PressDelete, DialTypeOK
  <2> QED
    BY <1>2, <2>1, <2>2, <2>3, <2>4, <2>5, <2>6 DEF DialVolumeUp
<1>3. CASE PermissionResult
  BY <1>0, <1>3, <1>c, <1>q DEF PermissionResult, MakeCall, DialTypeOK
<1>4. CASE OnClick
  <2>1. CASE \E c \in Chars : Press(c)
    <3>1. pad' \in Pads /\ InText(pad)' /\ spoken' \in Chars
          /\ UNCHANGED <<granted, asking, calling>>
      BY <1>a, <2>1 DEF Press
    <3> QED
      BY <1>0, <1>4, <1>q, <3>1 DEF OnClick, DialTypeOK
  <2>2. CASE PressDelete
    BY <1>0, <1>4, <1>b, <1>q, <2>2 DEF OnClick, PressDelete, DialTypeOK
  <2>3. CASE MakeCall(granted) /\ UNCHANGED <<granted, asking>>
    BY <1>0, <1>4, <1>c, <1>q, <2>3 DEF OnClick, MakeCall, DialTypeOK
  <2> QED
    BY <1>4, <2>1, <2>2, <2>3 DEF OnClick
<1>5. CASE Select
  <2>1. PICK s \in 0 .. Len(pad.text), e \in 0 .. Len(pad.text) :
         pad' = [text |-> pad.text, start |-> s, end |-> e]
    BY <1>5 DEF Select
  <2>2. pad.text \in Seq(Chars)
    BY <1>0 DEF Pads
  <2>3. pad' \in Pads /\ InText(pad)'
    BY <2>1, <2>2 DEF Pads, InText
  <2> QED
    BY <1>0, <1>5, <1>q, <2>3 DEF Select, DialTypeOK
<1>6. CASE HangUp
  BY <1>0, <1>6, <1>c, <1>q DEF HangUp, DialTypeOK
<1>7. CASE DialBack
  BY <1>0, <1>7, <1>c, <1>q DEF DialBack, DialTypeOK
<1>8. CASE DialRecreate
  BY <1>0, <1>8, <1>c, <1>q DEF DialRecreate, DialTypeOK
<1>9. CASE UNCHANGED dialVars
  BY <1>0, <1>9, <1>c, <1>q DEF dialVars, DialTypeOK
<1> QED
  BY <1>1, <1>2, <1>3, <1>4, <1>5, <1>6, <1>7, <1>8, <1>9 DEF DialNext

(* Every variable keeps its type: in particular the cursor stays on the    *)
(* fourteen keys.                                                          *)
THEOREM DialTypeCorrect == DialSpec => []DialTypeOK
<1>1. DialInv => DialTypeOK
  BY DEF DialInv
<1> QED
  BY InitDial, NextDial, <1>1, PTL DEF DialSpec

(* No sequence of keys, touches and selections makes subSequence or        *)
(* setSelection of DialActivity throw, for numbers of any length.          *)
THEOREM SelectionStaysInText == DialSpec => []SelectionInText
<1>1. DialInv => SelectionInText
  BY DEF DialInv
<1> QED
  BY InitDial, NextDial, <1>1, PTL DEF DialSpec

-----------------------------------------------------------------------------
(* A sequence is the part up to a place and the part after it, and a       *)
(* concatenation can be cut into what it was made of.                      *)
LEMMA Join ==
  ASSUME NEW s \in Seq(Chars), NEW m \in 0 .. Len(s)
  PROVE  SubSeq(s, 1, m) \o SubSeq(s, m + 1, Len(s)) = s
<1> DEFINE front == SubSeq(s, 1, m)
           rest  == SubSeq(s, m + 1, Len(s))
           n     == Len(s) - m
<1>1. front \in Seq(Chars) /\ Len(front) = m /\ \A k \in 1 .. m : front[k] = s[k]
  OBVIOUS
<1>2. rest \in Seq(Chars) /\ Len(rest) = n
  OBVIOUS
<1>3. \A k \in 1 .. n : rest[k] = s[m + k]
  <2>1. \A k \in m + 1 .. Len(s) : s[k] \in Chars
    OBVIOUS
  <2>2. \A k \in 1 .. (Len(s) - (m + 1)) + 1 : rest[k] = s[((m + 1) + k) - 1]
    BY <2>1, SubSeqProperties
  <2> QED
    BY <2>2
<1> HIDE DEF front, rest
<1>4. /\ front \o rest \in Seq(Chars) /\ Len(front \o rest) = Len(s)
      /\ \A k \in 1 .. m + n :
           (front \o rest)[k] = IF k <= m THEN front[k] ELSE rest[k - m]
  BY <1>1, <1>2, ConcatProperties
<1>5. \A k \in 1 .. Len(s) : (front \o rest)[k] = s[k]
  BY <1>1, <1>3, <1>4
<1>6. front \o rest = s
  BY <1>4, <1>5, SeqEqual
<1> QED
  BY <1>6 DEF front, rest

LEMMA Cut ==
  ASSUME NEW s \in Seq(Chars), NEW t \in Seq(Chars)
  PROVE  /\ SubSeq(s \o t, 1, Len(s)) = s
         /\ SubSeq(s \o t, Len(s) + 1, Len(s \o t)) = t
<1> DEFINE w == s \o t
           m == Len(s)
           n == Len(t)
<1>1. /\ w \in Seq(Chars) /\ Len(w) = m + n /\ m \in Nat /\ n \in Nat
      /\ \A k \in 1 .. m + n : w[k] = IF k <= m THEN s[k] ELSE t[k - m]
  BY ConcatProperties
<1> HIDE DEF w
<1>2. \A k \in 1 .. m + n : w[k] \in Chars
  BY <1>1
<1>3. SubSeq(w, 1, m) = s
  <2>1. SubSeq(w, 1, m) \in Seq(Chars) /\ Len(SubSeq(w, 1, m)) = m
        /\ \A k \in 1 .. m : SubSeq(w, 1, m)[k] = w[k]
    BY <1>1, <1>2
  <2>2. \A k \in 1 .. m : w[k] = s[k]
    BY <1>1
  <2> QED
    BY <2>1, <2>2, SeqEqual
<1>4. SubSeq(w, m + 1, m + n) = t
  <2>1. \A k \in m + 1 .. m + n : w[k] \in Chars
    BY <1>1, <1>2
  <2>2. /\ SubSeq(w, m + 1, m + n) \in Seq(Chars)
        /\ Len(SubSeq(w, m + 1, m + n)) = n
        /\ \A k \in 1 .. ((m + n) - (m + 1)) + 1 :
             SubSeq(w, m + 1, m + n)[k] = w[((m + 1) + k) - 1]
    BY <1>1, <2>1, SubSeqProperties
  <2>3. ASSUME NEW k \in 1 .. n PROVE SubSeq(w, m + 1, m + n)[k] = t[k]
    <3>1. SubSeq(w, m + 1, m + n)[k] = w[m + k]
      BY <1>1, <2>2
    <3>2. m + k \in 1 .. m + n /\ ~(m + k <= m) /\ (m + k) - m = k
      BY <1>1
    <3> QED
      BY <1>1, <3>1, <3>2
  <2> QED
    BY <2>2, <2>3, SeqEqual
<1> QED
  BY <1>1, <1>3, <1>4 DEF w

(* Back space undoes an entry: what is left of the number is the part      *)
(* before the selection and the part after it.                             *)
LEMMA UndoLemma ==
  ASSUME NEW p \in Pads, NEW c \in Chars, InText(p)
  PROVE  Delete(Enter(p, c)) = IF p.start = p.end THEN p ELSE Delete(p)
<1> DEFINE left  == SubSeq(p.text, 1, p.start)
           right == SubSeq(p.text, p.end + 1, Len(p.text))
<1>1. p.text \in Seq(Chars) /\ p.start \in Nat /\ p.end \in Nat /\ p.start <= Len(p.text)
      /\ p.end <= Len(p.text)
  BY DEF Pads, InText
<1>2. left \in Seq(Chars) /\ Len(left) = p.start
  BY <1>1
<1>3. right \in Seq(Chars)
  BY <1>1
<1> HIDE DEF left, right
<1>4. /\ left \o <<c>> \in Seq(Chars) /\ Len(left \o <<c>>) = p.start + 1
      /\ <<c>> \in Seq(Chars) /\ <<c>> \o right \in Seq(Chars)
  BY <1>2, <1>3, ConcatProperties
<1> DEFINE whole == left \o <<c>> \o right
<1>5. whole = left \o (<<c>> \o right)
  BY <1>2, <1>3, <1>4, ConcatAssociative
<1>6. SubSeq(whole, 1, p.start) = left
  BY <1>2, <1>4, <1>5, Cut
<1>7. SubSeq(whole, p.start + 1 + 1, Len(whole)) = right
  BY <1>3, <1>4, Cut
<1>8. Enter(p, c) = [text |-> whole, start |-> p.start + 1, end |-> p.start + 1]
  BY DEF Enter, left, right
<1> HIDE DEF whole
<1>9. Delete(Enter(p, c)) = [text |-> left \o right, start |-> p.start, end |-> p.start]
  <2> DEFINE e == Enter(p, c)
  <2>1. e.text = whole /\ e.start = p.start + 1 /\ e.end = p.start + 1
    BY <1>8
  <2> HIDE DEF e
  <2>2. e.start = e.end /\ e.start # 0 /\ e.start - 1 = p.start
    BY <1>1, <2>1
  <2>3. Delete(e) = [text |-> SubSeq(e.text, 1, e.start - 1)
                                \o SubSeq(e.text, e.end + 1, Len(e.text)),
                     start |-> e.start - 1, end |-> e.start - 1]
    BY <2>2 DEF Delete
  <2>4. Delete(e) = [text |-> left \o right, start |-> p.start, end |-> p.start]
    BY <1>6, <1>7, <2>1, <2>2, <2>3
  <2> QED
    BY <2>4 DEF e
<1>10. CASE p.start = p.end
  <2>0. p.start \in 0 .. Len(p.text)
    BY <1>1
  <2>1. left \o right = p.text
    BY <1>1, <1>10, <2>0, Join DEF left, right
  <2>2. p = [text |-> p.text, start |-> p.start, end |-> p.end]
    BY DEF Pads
  <2> QED
    BY <1>9, <1>10, <2>1, <2>2
<1>11. CASE p.start # p.end
  BY <1>9, <1>11 DEF Delete, left, right
<1> QED
  BY <1>10, <1>11

(* Whatever the number and the selection are, back space undoes the last   *)
(* entry of DialActivity.                                                  *)
THEOREM BackSpaceUndoes == DialSpec => []DeleteUndoesEnter
<1>1. DialInv => DeleteUndoesEnter
  BY UndoLemma DEF DialInv, DialTypeOK, SelectionInText, InText, DeleteUndoesEnter
<1> QED
  BY InitDial, NextDial, <1>1, PTL DEF DialSpec

-----------------------------------------------------------------------------
(* A step that changes the number enters the character it speaks, deletes  *)
(* and says so, or is VOLUME_UP on the key eight.                          *)
LEMMA ChangeIsHeard ==
  ASSUME DialInv, [DialNext]_dialVars, pad'.text # pad.text
  PROVE  \/ spoken' \in Chars /\ pad' = Enter(pad, spoken')
         \/ spoken' = "delete" /\ pad' = Delete(pad)
         \/ cursor = 7 /\ spoken' = "9" /\ pad' = Enter(Enter(pad, "8"), "9")
<1>1. \/ \E c \in Chars : Press(c)
      \/ cursor \in (0 .. 11) \ {7} /\ Press(Keys[cursor + 1])
      \/ PressDelete
      \/ cursor = 7 /\ spoken' = "9" /\ pad' = Enter(Enter(pad, "8"), "9")
  <2>0. pad' # pad
    OBVIOUS
  <2>1. ~Select
    BY DEF Select
  <2>2. DialVolumeUp \/ OnClick
    BY <2>0, <2>1 DEF DialNext, dialVars, DialVolumeDown, PermissionResult, MakeCall,
                      HangUp, DialBack, DialRecreate
  <2> QED
    BY <2>0, <2>2 DEF DialVolumeUp, OnClick, MakeCall
<1>2. cursor \in (0 .. 11) \ {7} => Keys[cursor + 1] \in Chars
  BY KeyType
<1> QED
  BY <1>1, <1>2 DEF Press, PressDelete

(* Whatever is pressed, and however long the number is, what DialActivity  *)
(* does to the number is what it says, except for VOLUME_UP on the key     *)
(* eight.                                                                  *)
THEOREM EntersWhatIsHeard == DialSpec => HeardUnlessEight
<1>1. DialInv /\ [DialNext]_dialVars =>
        [pad'.text # pad.text =>
           \/ spoken' \in Chars /\ pad' = Enter(pad, spoken')
           \/ spoken' = "delete" /\ pad' = Delete(pad)
           \/ cursor = 7 /\ spoken' = "9" /\ pad' = Enter(Enter(pad, "8"), "9")]_dialVars
  BY ChangeIsHeard
<1> QED
  BY InitDial, NextDial, <1>1, PTL DEF DialSpec, HeardUnlessEight

=============================================================================
