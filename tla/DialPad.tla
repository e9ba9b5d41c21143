------------------------------- MODULE DialPad -------------------------------
(***************************************************************************)
(* DialActivity: a phone number is entered with the two volume keys or by  *)
(* touch, and dialled.                                                     *)
(*                                                                         *)
(* VOLUME_DOWN moves a cursor (the field i) over fourteen keys and speaks  *)
(* the key it is on; VOLUME_UP presses it.  The number is edited at the    *)
(* selection of the EditText, which the user may move.  A call needs the   *)
(* permission CALL_PHONE; while the system asks for it, no key reaches the *)
(* activity.  All of this runs on the UI thread, one event at a time.      *)
(*                                                                         *)
(* The model begins when the speech engine is ready.  Typing with the soft *)
(* keyboard is left to the EditText.  onKeyLongPress is never called: it   *)
(* needs event.startTracking() in onKeyDown.                               *)
(***************************************************************************)
EXTENDS Integers, Sequences

CONSTANT MaxLen    \* bound on the length of the number

ASSUME LenAssumption == MaxLen \in Nat

VARIABLES
  cursor,    \* the field i; -1 before the first VOLUME_DOWN
  spoken,    \* what was spoken last: QUEUE_FLUSH cuts off what came before
  pad,       \* the EditText: its text and its selection
  granted,   \* the app has CALL_PHONE
  asking,    \* the system's permission dialog is up
  calling,   \* ACTION_CALL was started with the text of the EditText
  closed     \* finish() was called

dialVars == <<cursor, spoken, pad, granted, asking, calling, closed>>

Chars == {"1", "2", "3", "4", "5", "6", "7", "8", "9", "*", "0", "#"}

(* The keys in the order of the cursor.                                    *)
Keys == <<"1", "2", "3", "4", "5", "6", "7", "8", "9", "*", "0", "#",
          "call", "delete">>

Pads == [text : Seq(Chars), start : Nat, end : Nat]

(* The key cursor stays among the fourteen keys of onKeyDown. *)
DialTypeOK ==
  /\ cursor \in {-1} \union (0 .. 13)
  /\ spoken \in Chars \union {"Dial Number", "call", "delete"}
  /\ pad \in Pads
  /\ granted \in BOOLEAN
  /\ asking \in BOOLEAN
  /\ calling \in BOOLEAN
  /\ closed \in BOOLEAN

(* The permission may have been granted before (or at installation).       *)
DialInit ==
  /\ cursor = -1
  /\ spoken = "Dial Number"
  /\ pad = [text |-> <<>>, start |-> 0, end |-> 0]
  /\ granted \in BOOLEAN
  /\ asking = FALSE
  /\ calling = FALSE
  /\ closed = FALSE

-----------------------------------------------------------------------------
(* Editing the number.                                                     *)

(* Mutant: setSelection(start).                                            *)
EnterKeepsCursor(p, c) ==
  [text  |-> SubSeq(p.text, 1, p.start) \o <<c>>
               \o SubSeq(p.text, p.end + 1, Len(p.text)),
   start |-> p.start,
   end   |-> p.start]

(* onCharacterPressed: the character replaces the selection.               *)
Enter(p, c) ==
  [text  |-> SubSeq(p.text, 1, p.start) \o <<c>>
               \o SubSeq(p.text, p.end + 1, Len(p.text)),
   start |-> p.start + 1,
   end   |-> p.start + 1]

(* Mutant: setSelection(start) in both cases.                              *)
DeleteKeepsCursor(p) ==
  LET from == IF p.start = p.end /\ p.start # 0 THEN p.start - 1 ELSE p.start IN
  [text  |-> SubSeq(p.text, 1, from) \o SubSeq(p.text, p.end + 1, Len(p.text)),
   start |-> p.start,
   end   |-> p.start]

(* onDeletePressed: the selection is removed, or else the character before *)
(* the cursor, if there is one.  What is selected backwards is doubled, in *)
(* both operations.                                                        *)
Delete(p) ==
  LET from == IF p.start = p.end /\ p.start # 0 THEN p.start - 1 ELSE p.start IN
  [text  |-> SubSeq(p.text, 1, from) \o SubSeq(p.text, p.end + 1, Len(p.text)),
   start |-> from,
   end   |-> from]

-----------------------------------------------------------------------------
(* The activity is on top.                                                 *)
Listening == ~asking /\ ~calling /\ ~closed

(* i++, back to 0 after the last key; the switch speaks the key.           *)
DialVolumeDown ==
  /\ Listening
  /\ cursor' = IF cursor + 1 >= 14 THEN 0 ELSE cursor + 1
  /\ spoken' = IF cursor' \in 0 .. 13 THEN Keys[cursor' + 1] ELSE spoken
  /\ UNCHANGED <<pad, granted, asking, calling, closed>>

(* Mutant: the character is entered without a word.                        *)
PressSilently(c) ==
  /\ pad' = Enter(pad, c)
  /\ UNCHANGED <<spoken, granted, asking, calling>>

Press(c) ==
  /\ pad' = Enter(pad, c)
  /\ spoken' = c
  /\ UNCHANGED <<granted, asking, calling>>

(* makeCall: dial what the EditText shows; without the permission nothing  *)
(* happens.                                                                *)
MakeCall(allowed) ==
  /\ spoken' = "call"
  /\ calling' = allowed
  /\ UNCHANGED pad

PressDelete ==
  /\ pad' = Delete(pad)
  /\ spoken' = "delete"
  /\ UNCHANGED <<granted, asking, calling>>

(* The switch of VOLUME_UP.  Case 7 has no break: case 8 follows.  Case 12 *)
(* asks for the permission when it is missing; before the first            *)
(* VOLUME_DOWN no case applies.                                            *)
DialVolumeUp ==
  /\ Listening
  /\ \/ cursor = -1 /\ UNCHANGED <<spoken, pad, granted, asking, calling>>
     \/ cursor \in (0 .. 11) \ {7} /\ Press(Keys[cursor + 1])
     \/ /\ cursor = 7
        /\ pad' = Enter(Enter(pad, "8"), "9")
        /\ spoken' = "9"
        /\ UNCHANGED <<granted, asking, calling>>
     \/ cursor = 12 /\ granted /\ MakeCall(TRUE) /\ UNCHANGED <<granted, asking>>
     \/ /\ cursor = 12 /\ ~granted
        /\ asking' = TRUE
        /\ UNCHANGED <<spoken, pad, granted, calling>>
     \/ cursor = 13 /\ PressDelete
  /\ Len(pad'.text) <= MaxLen
  /\ UNCHANGED <<cursor, closed>>

(* onRequestPermissionsResult.                                             *)
PermissionResult ==
  /\ asking
  /\ asking' = FALSE
  /\ \/ granted' = TRUE /\ MakeCall(TRUE)
     \/ UNCHANGED <<granted, spoken, pad, calling>>
  /\ UNCHANGED <<cursor, closed>>

(* onClick: the touch buttons.  The call button does not ask for the       *)
(* permission.                                                             *)
OnClick ==
  /\ Listening
  /\ \/ \E c \in Chars : Press(c)
     \/ PressDelete
     \/ MakeCall(granted) /\ UNCHANGED <<granted, asking>>
  /\ Len(pad'.text) <= MaxLen
  /\ UNCHANGED <<cursor, closed>>

(* The user moves the cursor or selects characters (external: EditText);   *)
(* a selection made backwards is reported with its start after its end.    *)
Select ==
  /\ Listening
  /\ \E s, e \in 0 .. Len(pad.text) :
       pad' = [text |-> pad.text, start |-> s, end |-> e]
  /\ UNCHANGED <<cursor, spoken, granted, asking, calling, closed>>

(* The call ends (external: the phone app).                                *)
HangUp ==
  /\ calling
  /\ calling' = FALSE
  /\ UNCHANGED <<cursor, spoken, pad, granted, asking, closed>>

DialBack ==
  /\ Listening
  /\ closed' = TRUE
  /\ UNCHANGED <<cursor, spoken, pad, granted, asking, calling>>

(* The activity is recreated: the field i begins again; the EditText saves *)
(* its text and its selection.                                             *)
DialRecreate ==
  /\ ~closed
  /\ cursor' = -1
  /\ spoken' = "Dial Number"
  /\ UNCHANGED <<pad, granted, asking, calling, closed>>

DialNext ==
  \/ DialVolumeDown \/ DialVolumeUp \/ PermissionResult \/ OnClick \/ Select \/ HangUp
  \/ DialBack \/ DialRecreate

DialSpec == DialInit /\ [][DialNext]_dialVars

-----------------------------------------------------------------------------
(* Properties.                                                             *)

(* The selection lies in the text: subSequence and setSelection of         *)
(* onCharacterPressed and onDeletePressed would throw otherwise.           *)
SelectionInText == pad.start <= Len(pad.text) /\ pad.end <= Len(pad.text)

(* Back space undoes a character that was entered: it gives the number     *)
(* back as it was, cursor included, or as it is without the selected       *)
(* characters that the character replaced.                                 *)
DeleteUndoesEnter ==
  \A c \in Chars :
    Delete(Enter(pad, c)) = IF pad.start = pad.end THEN pad ELSE Delete(pad)

(* The number changes only as the word that is spoken says: the user, who  *)
(* sees nothing, hears the character that is entered (speak("eight") for   *)
(* VOLUME_DOWN at line 113 and for the press at 344) and "back space" when *)
(* something is deleted, over a selection too.  The one exception is       *)
(* VOLUME_UP on the key eight, which enters 89 and says "nine".            *)
HeardUnlessEight ==
  [][pad'.text # pad.text =>
       \/ spoken' \in Chars /\ pad' = Enter(pad, spoken')
       \/ spoken' = "delete" /\ pad' = Delete(pad)
       \/ cursor = 7 /\ spoken' = "9" /\ pad' = Enter(Enter(pad, "8"), "9")]_dialVars

=============================================================================
