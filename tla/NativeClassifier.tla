-------------------------- MODULE NativeClassifier --------------------------
(***************************************************************************)
(* The native classifier seen from one caller at a time:                   *)
(* initializeTensorFlow loads the graph (AssetStream) and the labels once  *)
(* per process, recognizeImage runs the network, picks the best entries    *)
(* (TopN), writes them as lines of text, and parses the lines again in     *)
(* Java; RecognitionScoreView speaks the first.                            *)
(*                                                                         *)
(* That the two calls do not overlap is FramePipeline's NativeStateReady   *)
(* and OneFrameAtATime; this module is what happens inside them.           *)
(*                                                                         *)
(* What Android and TensorFlow answer is theirs: an asset, a session, a run *)
(* of the network or a bitmap may be refused at any call, whatever the     *)
(* reason (no such file, no memory, a graph this build does not know), and *)
(* a CHECK or LOG(FATAL) then aborts the process.                          *)
(*                                                                         *)
(* A label is either blank or the text of its own index; a line of output  *)
(* is its index, its confidence and which text follows.                    *)
(***************************************************************************)
EXTENDS AssetStream, TopN

CONSTANT MaxRuns  \* bound on the frames between two resumes

ASSUME RunsAssumption == MaxRuns \in Nat

VARIABLES
  call,         \* where the current call stands
  initialized,  \* g_compute_graph_initialized
  num_runs,     \* g_num_runs
  labels,       \* g_label_strings
  output,       \* the lines ClassifyImage returns
  spoken,       \* what setResults spoke for this frame
  refused       \* the request Android or TensorFlow has refused

hostVars == <<call, initialized, num_runs, labels, output, spoken,
              refused>>
vars     == <<assetVars, topVars, hostVars>>

Texts      == {"blank", "text"}
LabelFiles == UNION {[1..n -> Texts] : n \in 0..Classes}
Nothing    == [index |-> -1, text |-> "blank"]
Requests   == {"asset", "create", "labels", "bitmap", "run", "unlock"}

HostInit ==
  /\ call = "idle" /\ initialized = FALSE /\ num_runs = 0
  /\ labels = <<>> /\ output = <<>> /\ spoken = Nothing /\ refused = "none"

(* The CHECK or LOG(FATAL) behind a refused request. *)
Abort(request) == call' = "aborted" /\ refused' = request

Init == AssetInit /\ TopInit /\ HostInit

-----------------------------------------------------------------------------
(* initializeTensorFlow, up to ReadFileToProto. *)
InitializeTensorFlow ==
  /\ call = "idle" /\ ~initialized
  /\ num_runs' = 0
  /\ reading' = "open" /\ call' = "load"
  /\ UNCHANGED <<streamVars, faults, topVars, initialized,
                 labels, output, spoken, refused>>

(* "Compute graph already loaded. skipping.", but the count is reset. *)
InitializeAgain ==
  /\ call = "idle" /\ initialized
  /\ num_runs' = 0
  /\ UNCHANGED <<assetVars, topVars, call, initialized, labels, output,
                 spoken, refused>>

Load ==
  /\ call = "load" /\ AssetNext
  /\ UNCHANGED <<topVars, hostVars>>

(* A CHECK of ReadFileToProto aborts the process. *)
LoadAborts ==
  /\ call = "load"
  /\ \/ reading = "CHECK" /\ call' = "aborted" /\ UNCHANGED refused
     \/ reading = "refused" /\ Abort("asset")
  /\ UNCHANGED <<assetVars, topVars, initialized, num_runs, labels,
                 output, spoken>>

(* session->Create: a graph that lost its end may still be one, and a whole
   graph may still be refused. *)
CreateSession ==
  /\ call = "load" /\ reading = "done"
  /\ \/ call' = "labels" /\ UNCHANGED refused
     \/ Abort("create")
  /\ UNCHANGED <<assetVars, topVars, initialized, num_runs, labels, output,
                 spoken>>

(* ReadFileToVector clears the vector and fills it; the flag is set and
   the locals of initializeTensorFlow are gone.  CHECK_NOTNULL of the asset
   comes first. *)
ReadLabels ==
  /\ call = "labels"
  /\ \/ /\ labels' \in LabelFiles
        /\ initialized' = TRUE /\ call' = "idle"
        /\ reading' = "no" /\ StreamGone
        /\ UNCHANGED refused
     \/ Abort("labels") /\ UNCHANGED <<assetVars, initialized, labels>>
  /\ UNCHANGED <<topVars, num_runs, output, spoken>>

-----------------------------------------------------------------------------
(* The listener classifies only after its initialize. *)
MayClassify == call = "idle" /\ initialized /\ num_runs < MaxRuns

(* classifyImageBmp: the bitmap has no information or cannot be locked, or
   it is not RGBA_8888. *)
BitmapRefused ==
  /\ MayClassify
  /\ Abort("bitmap")
  /\ UNCHANGED <<assetVars, topVars, initialized, num_runs, labels,
                 output, spoken>>

(* ClassifyImage up to GetTopN.  An error of Session::Run ends in
   LOG(FATAL), and an output that is not of floats in flat's CHECK. *)
ClassifyImage ==
  /\ MayClassify
  /\ num_runs' = num_runs + 1
  /\ \/ /\ prediction' \in Predictions
        /\ picking' = "loop" /\ i' = 0 /\ queue' = {} /\ top_results' = <<>>
        /\ call' = "pick" /\ UNCHANGED refused
     \/ Abort("run") /\ UNCHANGED topVars
  /\ UNCHANGED <<assetVars, initialized, labels, output, spoken>>

Pick ==
  /\ call = "pick" /\ TopNext
  /\ UNCHANGED <<assetVars, hostVars>>

TextOfNext(index) ==  \* mutant: the vector is taken to start at 1
  IF index > 0 /\ index <= Len(labels) THEN labels[index] ELSE "Prediction"

(* The text that follows index and confidence in a line. *)
TextOf(index) == IF index < Len(labels) THEN labels[index + 1] ELSE "Prediction"

(* The stringstream: one line per entry of top_results.  Back in
   classifyImageBmp the pixels are unlocked, which may be refused. *)
WriteLines ==
  /\ call = "pick" /\ picking = "done"
  /\ output' = [k \in DOMAIN top_results |->
                  [index |-> top_results[k][2], confidence |-> top_results[k][1],
                   text  |-> TextOf(top_results[k][2])]]
  /\ \/ call' = "parse" /\ UNCHANGED refused
     \/ Abort("unlock")
  /\ UNCHANGED <<assetVars, topVars, initialized, num_runs, labels,
                 spoken>>

(* recognizeImage: a line without a title is left out of the list; "nan" and
   "inf" are not floats for Float.parseFloat, which would read "NaN" and
   "Infinity", and nobody catches its exception. *)
Unreadable   == \E k \in DOMAIN output : output[k].confidence \in {NaN, Infinity}
HasTitle(r)  == r.text # "blank"
Recognitions == {k \in DOMAIN output : HasTitle(output[k])}

ParseThrows ==
  /\ call = "parse" /\ Unreadable
  /\ call' = "threw"
  /\ UNCHANGED <<assetVars, topVars, initialized, num_runs, labels,
                 output, spoken, refused>>

(* The list is posted to setResults, which speaks its first entry. *)
SetResults ==
  /\ call = "parse" /\ ~Unreadable
  /\ \/ Recognitions = {} /\ spoken' = Nothing
     \/ \E k \in Recognitions :
          /\ \A l \in Recognitions : k <= l
          /\ spoken' = [index |-> output[k].index, text |-> output[k].text]
  /\ call' = "shown"
  /\ UNCHANGED <<assetVars, topVars, initialized, num_runs, labels,
                 output, refused>>

(* recognizeImage returns; its locals are gone, and what was spoken is over. *)
Return ==
  /\ call = "shown"
  /\ call' = "idle"
  /\ TopGone /\ output' = <<>> /\ spoken' = Nothing
  /\ UNCHANGED <<assetVars, initialized, num_runs, labels, refused>>

(* The process that died is started again. *)
Restart ==
  /\ call \in {"aborted", "threw"}
  /\ AssetRestart /\ TopGone
  /\ call' = "idle" /\ initialized' = FALSE /\ num_runs' = 0
  /\ labels' = <<>> /\ output' = <<>> /\ spoken' = Nothing /\ refused' = "none"

Initialize == InitializeTensorFlow \/ InitializeAgain \/ Load \/ LoadAborts
              \/ CreateSession \/ ReadLabels
Recognize  == BitmapRefused \/ ClassifyImage \/ Pick \/ WriteLines \/ ParseThrows
              \/ SetResults \/ Return
Next       == Initialize \/ Recognize \/ Restart

(* A call that has begun goes on; nobody has to begin one. *)
GoesOn == Load \/ LoadAborts \/ CreateSession \/ ReadLabels \/ Pick \/ WriteLines
          \/ ParseThrows \/ SetResults \/ Return
Spec == Init /\ [][Next]_vars /\ WF_vars(GoesOn)

-----------------------------------------------------------------------------
(* The native globals and the locals of a call have their types, the counts
   of the streams included. *)
TypeOK ==
  /\ AssetTypeOK /\ TopTypeOK
  /\ call \in {"idle", "load", "labels", "pick", "parse", "shown", "aborted", "threw"}
  /\ initialized \in BOOLEAN
  /\ num_runs \in 0..MaxRuns /\ labels \in LabelFiles
  /\ spoken.index \in Indices \cup {-1}
  /\ refused \in Requests \cup {"none"}

(* The classes a blind user could be told of: they reach the threshold and
   have something to say. *)
Audible == {c \in Indices : /\ prediction[c] >= Threshold
                            /\ (c < Len(labels) => labels[c + 1] # "blank")}
Entry(c) == <<prediction[c], c>>

(* What is spoken for a frame is the best audible class, under its own
   label; there is silence only when no class is audible, or when the N
   places were all taken by better classes with blank labels.  It takes the
   queue, the reversal, the label lookup and the parser together.  A NaN
   in the prediction excepts it. *)
SpokenIsBest ==
  call = "shown" /\ AllNumbers =>
    IF spoken = Nothing
      THEN \A c \in Audible :
             Cardinality({d \in Indices : /\ d < Len(labels) /\ labels[d + 1] = "blank"
                                          /\ Beats(Entry(d), Entry(c))}) >= NumResults
      ELSE /\ spoken.index \in Audible
           /\ spoken.index < Len(labels) <=> spoken.text = "text"
           /\ \A c \in Audible \ {spoken.index} : Beats(Entry(spoken.index), Entry(c))

(* Why the process dies.  The parser throws only when the network produced a
   NaN or an infinity, and no infinity is ever lost on the way to it: in a
   prediction without a NaN it is always among the results.  An abort is
   that of a request Android or TensorFlow refused, or a read of the graph
   has failed: a well-formed asset that can be read never fails the
   CHECKs of ReadFileToProto; in particular the zero-copy case never meets the 64 MB
   limit.  No refusal is survived, and none of the three that come before
   leaves the classifier marked as initialized. *)
DeathIsExplained ==
  /\ call = "threw" => \E c \in Indices : prediction[c] \in {NaN, Infinity}
  /\ call = "shown" /\ AllNumbers => \A c \in Indices : prediction[c] # Infinity
  /\ call = "aborted" => failed \/ refused # "none"
  /\ refused # "none" => call = "aborted"
  /\ refused \in {"asset", "create", "labels"} => ~initialized

(* A call comes back, or the process dies: loops over short and interrupted
   reads end, and so do the loops of GetTopN. *)
CallsReturn == (call # "idle") ~> (call \in {"idle", "aborted", "threw"})
=============================================================================
