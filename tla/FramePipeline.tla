---------------------------- MODULE FramePipeline ----------------------------
(***************************************************************************)
(* TensorFlowImageListener: how a preview frame becomes a spoken result.   *)
(*                                                                         *)
(* The "ImageListener" thread (bg) runs createCameraPreviewSession once    *)
(* per resume and then onImageAvailable for every frame: it takes the      *)
(* newest image of the ImageReader, drops it when a classification is      *)
(* under way (flag computing), else converts it, draws it into             *)
(* croppedBitmap and posts a Runnable to the "InferenceThread" (inf),      *)
(* which classifies the bitmap in native code, hands the results to the    *)
(* RecognitionScoreView and clears the flag.  No lock protects computing,  *)
(* croppedBitmap or the native globals.                                    *)
(*                                                                         *)
(* The UI thread stops the pipeline in onPause: it closes the reader, lets *)
(* both threads quit and joins them, and starts new threads in onResume;   *)
(* the listener, its flag and its bitmap live on.  Whether and when the    *)
(* camera itself is opened is CameraLifecycle's subject: here createCamera *)
(* PreviewSession may run at any time after the threads were started.      *)
(***************************************************************************)
EXTENDS Naturals, Sequences

CONSTANTS
  MaxImages,    \* the ImageReader's maxImages (2 in the code)
  MaxFrames,    \* bound on the frames the camera delivers
  MaxResumes    \* bound on the calls of onResume

ASSUME ImagesAssumption  == MaxImages \in Nat \ {0}
ASSUME FramesAssumption  == MaxFrames \in Nat
ASSUME ResumesAssumption == MaxResumes \in Nat

VARIABLES
  ui,          \* where the UI thread is
  resumes,     \* calls of onResume so far
  bgThread,    \* backgroundThread: none, running or quitting
  infThread,   \* inferenceThread: likewise
  reader,      \* previewReader: none, open or closed
  avail,       \* images in the reader that nobody has acquired
  acquired,    \* images acquired and not closed
  messages,    \* onImageAvailable messages in the background queue
  frame,       \* the number of the newest frame
  bg,          \* where the background thread is, and with which frame
  preview,     \* since onResume: none, opened or streaming
  handler,     \* TensorFlowImageListener.handler: none, stale or live
  computing,   \* the flag, as the last thread to write it wrote it
  stale,       \* bg may still read TRUE though inf has written FALSE
  cropped,     \* the frame croppedBitmap shows
  infQueue,    \* the frames posted to the inference thread
  inf,         \* where the inference thread is, and for which frame
  numRuns,     \* g_num_runs
  loaded,      \* g_compute_graph_initialized
  shown        \* the frame whose results the score view has

uiVars  == <<ui, resumes, bgThread, infThread>>
camVars == <<reader, avail, acquired, messages, frame>>
bgVars  == <<bg, preview, handler>>
infVars == <<infQueue, inf, shown>>
vars == <<ui, resumes, bgThread, infThread, reader, avail, acquired, messages,
          frame, bg, preview, handler, computing, stale, cropped, infQueue, inf,
          numRuns, loaded, shown>>

Pausing == {"closeReader", "quitBg", "quitInf", "joinBg", "joinInf"}
BgPlaces == {"idle", "resetRuns", "loadGraph", "setHandler", "check", "convert",
             "abort", "close", "draw", "post"}
InfPlaces == {"idle", "run", "divide", "setResults", "clear"}
ThreadStates == {"none", "running", "quitting"}
Frames == 0 .. MaxFrames

(* Flags, threads and frames have their types; no count of images or runs goes
   below zero, and at most MaxImages images wait in the reader. *)
TypeOK ==
  /\ ui \in {"paused", "resumed"} \union Pausing
  /\ resumes \in 0 .. MaxResumes
  /\ bgThread \in ThreadStates
  /\ infThread \in ThreadStates
  /\ reader \in {"none", "open", "closed"}
  /\ avail \in 0 .. MaxImages
  /\ acquired \in Nat
  /\ messages \in Nat
  /\ frame \in Frames
  /\ bg \in [pc : BgPlaces, frame : Frames]
  /\ preview \in {"none", "opened", "streaming"}
  /\ handler \in {"none", "stale", "live"}
  /\ computing \in BOOLEAN
  /\ stale \in BOOLEAN
  /\ cropped \in Frames
  /\ infQueue \in Seq(Frames)
  /\ inf \in [pc : InfPlaces, frame : Frames]
  /\ numRuns \in Nat
  /\ loaded \in BOOLEAN
  /\ shown \in Frames

Init ==
  /\ ui = "paused"
  /\ resumes = 0
  /\ bgThread = "none"
  /\ infThread = "none"
  /\ reader = "none"
  /\ avail = 0
  /\ acquired = 0
  /\ messages = 0
  /\ frame = 0
  /\ bg = [pc |-> "idle", frame |-> 0]
  /\ preview = "none"
  /\ handler = "none"
  /\ computing = FALSE
  /\ stale = FALSE
  /\ cropped = 0
  /\ infQueue = <<>>
  /\ inf = [pc |-> "idle", frame |-> 0]
  /\ numRuns = 0
  /\ loaded = FALSE
  /\ shown = 0

-----------------------------------------------------------------------------
(* The UI thread.                                                          *)

(* startBackgroundThread: two new threads; inferenceHandler is replaced,   *)
(* the listener keeps the old one until it is initialized again.           *)
OnResume ==
  /\ ui = "paused"
  /\ resumes < MaxResumes
  /\ resumes' = resumes + 1
  /\ bgThread' = "running"
  /\ infThread' = "running"
  /\ preview' = "none"
  /\ handler' = IF handler = "live" THEN "stale" ELSE handler
  /\ ui' = "resumed"
  /\ UNCHANGED <<camVars, bg, computing, stale, cropped, infVars, numRuns, loaded>>

OnPause ==
  /\ ui = "resumed"
  /\ ui' = "closeReader"
  /\ UNCHANGED <<resumes, bgThread, infThread, camVars, bgVars, computing, stale,
                 cropped, infVars, numRuns, loaded>>

(* closeCamera: previewReader.close() closes the images it handed out.     *)
CloseReader ==
  /\ ui = "closeReader"
  /\ reader' = IF reader = "open" THEN "closed" ELSE reader
  /\ avail' = IF reader = "open" THEN 0 ELSE avail
  /\ ui' = "quitBg"
  /\ UNCHANGED <<resumes, bgThread, infThread, acquired, messages, frame, bgVars,
                 computing, stale, cropped, infVars, numRuns, loaded>>

(* stopBackgroundThread: quitSafely on both threads, then join both.       *)
QuitBackground ==
  /\ ui = "quitBg"
  /\ bgThread' = "quitting"
  /\ ui' = "quitInf"
  /\ UNCHANGED <<resumes, infThread, camVars, bgVars, computing, stale, cropped,
                 infVars, numRuns, loaded>>

(* Mutant: the inference looper is never told to quit.                     *)
QuitInferenceForgotten ==
  /\ ui = "quitInf"
  /\ ui' = "joinBg"
  /\ UNCHANGED <<resumes, bgThread, infThread, camVars, bgVars, computing, stale,
                 cropped, infVars, numRuns, loaded>>

QuitInference ==
  /\ ui = "quitInf"
  /\ infThread' = "quitting"
  /\ ui' = "joinBg"
  /\ UNCHANGED <<resumes, bgThread, camVars, bgVars, computing, stale, cropped,
                 infVars, numRuns, loaded>>

JoinBackground ==
  /\ ui = "joinBg" /\ bgThread = "quitting"
  /\ bg.pc = "idle" /\ messages = 0
  /\ bgThread' = "none"
  /\ ui' = "joinInf"
  /\ UNCHANGED <<resumes, infThread, camVars, bgVars, computing, stale, cropped,
                 infVars, numRuns, loaded>>

(* Mutant: stopBackgroundThread does not join the inference thread.        *)
JoinInferenceSkipped ==
  /\ ui = "joinInf"
  /\ infThread' = "none"
  /\ ui' = "paused"
  /\ UNCHANGED <<resumes, bgThread, camVars, bgVars, computing, stale, cropped,
                 infVars, numRuns, loaded>>

JoinInference ==
  /\ ui = "joinInf" /\ infThread = "quitting"
  /\ inf.pc = "idle" /\ infQueue = <<>>
  /\ infThread' = "none"
  /\ ui' = "paused"
  /\ UNCHANGED <<resumes, bgThread, camVars, bgVars, computing, stale, cropped,
                 infVars, numRuns, loaded>>

-----------------------------------------------------------------------------
(* The camera (external): a frame enters the reader and the reader posts   *)
(* onImageAvailable; a full reader drops its oldest image.                 *)
FrameArrives ==
  /\ reader = "open" /\ preview = "streaming"
  /\ frame < MaxFrames
  /\ frame' = frame + 1
  /\ avail' = IF avail < MaxImages THEN avail + 1 ELSE avail
  /\ messages' = IF bgThread = "running" THEN messages + 1 ELSE messages
  /\ UNCHANGED <<uiVars, reader, acquired, bgVars, computing, stale, cropped,
                 infVars, numRuns, loaded>>

-----------------------------------------------------------------------------
(* The background thread: createCameraPreviewSession makes the reader and  *)
(* then initializes the listener.  Native initializeTensorFlow resets its  *)
(* counters, and loads the graph the first time only.                      *)
OnOpened ==
  /\ bg.pc = "idle"
  /\ bgThread \in {"running", "quitting"}
  /\ preview = "none"
  /\ preview' = "opened"
  /\ reader' = "open"
  /\ avail' = 0
  /\ bg' = [bg EXCEPT !.pc = "resetRuns"]
  /\ UNCHANGED <<uiVars, acquired, messages, frame, handler, computing, stale,
                 cropped, infVars, numRuns, loaded>>

ResetRuns ==
  /\ bg.pc = "resetRuns"
  /\ numRuns' = 0
  /\ bg' = [bg EXCEPT !.pc = IF loaded THEN "setHandler" ELSE "loadGraph"]
  /\ UNCHANGED <<uiVars, camVars, preview, handler, computing, stale, cropped,
                 infVars, loaded>>

LoadGraph ==
  /\ bg.pc = "loadGraph"
  /\ loaded' = TRUE
  /\ bg' = [bg EXCEPT !.pc = "setHandler"]
  /\ UNCHANGED <<uiVars, camVars, preview, handler, computing, stale, cropped,
                 infVars, numRuns>>

(* Mutant: the listener keeps the handler of its first initialization.     *)
SetHandlerOnce ==
  /\ bg.pc = "setHandler"
  /\ handler' = IF handler = "none" THEN "live" ELSE handler
  /\ bg' = [bg EXCEPT !.pc = "idle"]
  /\ UNCHANGED <<uiVars, camVars, preview, computing, stale, cropped, infVars,
                 numRuns, loaded>>

SetHandler ==
  /\ bg.pc = "setHandler"
  /\ handler' = "live"
  /\ bg' = [bg EXCEPT !.pc = "idle"]
  /\ UNCHANGED <<uiVars, camVars, preview, computing, stale, cropped, infVars,
                 numRuns, loaded>>

(* onConfigured starts the repeating request: frames flow from here on.    *)
OnConfigured ==
  /\ bg.pc = "idle"
  /\ bgThread \in {"running", "quitting"}
  /\ preview = "opened"
  /\ preview' = "streaming"
  /\ UNCHANGED <<uiVars, camVars, bg, handler, computing, stale, cropped, infVars,
                 numRuns, loaded>>

(* onImageAvailable: acquireLatestImage throws on a closed reader (caught: *)
(* there is no image yet), and yields null when an earlier call has taken  *)
(* the newest image; otherwise it takes that one and discards the others.  *)
AcquireLatestImage ==
  /\ bg.pc = "idle"
  /\ messages > 0
  /\ messages' = messages - 1
  /\ IF reader = "open" /\ avail > 0
       THEN /\ avail' = 0
            /\ acquired' = acquired + 1
            /\ bg' = [pc |-> "check", frame |-> frame]
       ELSE UNCHANGED <<avail, acquired, bg>>
  /\ UNCHANGED <<uiVars, reader, frame, preview, handler, computing, stale,
                 cropped, infVars, numRuns, loaded>>

(* Mutant: the flag is cleared on the way out.                             *)
DropFrameClears ==
  /\ bg.pc = "check"
  /\ computing \/ stale
  /\ acquired' = acquired - 1
  /\ computing' = FALSE
  /\ bg' = [bg EXCEPT !.pc = "idle"]
  /\ UNCHANGED <<uiVars, reader, avail, messages, frame, preview, handler,
                 stale, cropped, infVars, numRuns, loaded>>

(* if (computing) { image.close(); return; } computing = true;  The plain  *)
(* field may still read TRUE after the inference thread has cleared it.    *)
DropFrame ==
  /\ bg.pc = "check"
  /\ computing \/ stale
  /\ acquired' = acquired - 1
  /\ bg' = [bg EXCEPT !.pc = "idle"]
  /\ UNCHANGED <<uiVars, reader, avail, messages, frame, preview, handler,
                 computing, stale, cropped, infVars, numRuns, loaded>>

(* Mutant: the flag is not tested.                                         *)
TakeFrameUnchecked ==
  /\ bg.pc = "check"
  /\ computing' = TRUE
  /\ stale' = FALSE
  /\ bg' = [bg EXCEPT !.pc = "convert"]
  /\ UNCHANGED <<uiVars, camVars, preview, handler, cropped, infVars, numRuns,
                 loaded>>

TakeFrame ==
  /\ bg.pc = "check"
  /\ ~computing
  /\ computing' = TRUE
  /\ stale' = FALSE
  /\ bg' = [bg EXCEPT !.pc = "convert"]
  /\ UNCHANGED <<uiVars, camVars, preview, handler, cropped, infVars, numRuns,
                 loaded>>

(* Reading the planes of an image whose reader has been closed throws; the *)
(* catch block closes the image and returns.                               *)
ConvertFrame ==
  /\ bg.pc = "convert"
  /\ \/ reader = "open" /\ bg' = [bg EXCEPT !.pc = "close"]
     \/ reader = "closed" /\ bg' = [bg EXCEPT !.pc = "abort"]
  /\ UNCHANGED <<uiVars, camVars, preview, handler, computing, stale, cropped,
                 infVars, numRuns, loaded>>

(* Mutant: the catch block does not close the image.                       *)
AbortFrameKeepsImage ==
  /\ bg.pc = "abort"
  /\ bg' = [bg EXCEPT !.pc = "idle"]
  /\ UNCHANGED <<uiVars, camVars, preview, handler, computing, stale, cropped,
                 infVars, numRuns, loaded>>

AbortFrame ==
  /\ bg.pc = "abort"
  /\ acquired' = acquired - 1
  /\ bg' = [bg EXCEPT !.pc = "idle"]
  /\ UNCHANGED <<uiVars, reader, avail, messages, frame, preview, handler,
                 computing, stale, cropped, infVars, numRuns, loaded>>

CloseImage ==
  /\ bg.pc = "close"
  /\ acquired' = acquired - 1
  /\ bg' = [bg EXCEPT !.pc = "draw"]
  /\ UNCHANGED <<uiVars, reader, avail, messages, frame, preview, handler,
                 computing, stale, cropped, infVars, numRuns, loaded>>

(* rgbFrameBitmap.setPixels and drawResizedBitmap.                         *)
DrawFrame ==
  /\ bg.pc = "draw"
  /\ cropped' = bg.frame
  /\ bg' = [bg EXCEPT !.pc = "post"]
  /\ UNCHANGED <<uiVars, camVars, preview, handler, computing, stale, infVars,
                 numRuns, loaded>>

(* handler.post: refused, without a word, once the looper is quitting.     *)
PostFrame ==
  /\ bg.pc = "post"
  /\ infQueue' = IF handler = "live" /\ infThread = "running"
                   THEN Append(infQueue, bg.frame) ELSE infQueue
  /\ bg' = [bg EXCEPT !.pc = "idle"]
  /\ UNCHANGED <<uiVars, camVars, preview, handler, computing, stale, cropped,
                 inf, numRuns, loaded, shown>>

-----------------------------------------------------------------------------
(* The inference thread: the posted Runnable.  ClassifyImage counts the    *)
(* run, runs the session and divides the total time by the count.          *)
StartInference ==
  /\ inf.pc = "idle"
  /\ infQueue # <<>>
  /\ inf' = [pc |-> "run", frame |-> Head(infQueue)]
  /\ infQueue' = Tail(infQueue)
  /\ UNCHANGED <<uiVars, camVars, bgVars, computing, stale, cropped, numRuns,
                 loaded, shown>>

CountRun ==
  /\ inf.pc = "run"
  /\ numRuns' = numRuns + 1
  /\ inf' = [inf EXCEPT !.pc = "divide"]
  /\ UNCHANGED <<uiVars, camVars, bgVars, computing, stale, cropped, infQueue,
                 loaded, shown>>

FinishRun ==
  /\ inf.pc = "divide"
  /\ inf' = [inf EXCEPT !.pc = "setResults"]
  /\ UNCHANGED <<uiVars, camVars, bgVars, computing, stale, cropped, infQueue,
                 numRuns, loaded, shown>>

(* scoreView.setResults: the results of the bitmap that was classified.    *)
SetResults ==
  /\ inf.pc = "setResults"
  /\ shown' = cropped
  /\ inf' = [inf EXCEPT !.pc = "clear"]
  /\ UNCHANGED <<uiVars, camVars, bgVars, computing, stale, cropped, infQueue,
                 numRuns, loaded>>

ClearComputing ==
  /\ inf.pc = "clear"
  /\ computing' = FALSE
  /\ stale' = TRUE
  /\ inf' = [inf EXCEPT !.pc = "idle"]
  /\ UNCHANGED <<uiVars, camVars, bgVars, cropped, infQueue, numRuns, loaded,
                 shown>>

(* The store of FALSE becomes visible to the background thread (external:  *)
(* the memory system).                                                     *)
BecomesVisible ==
  /\ stale
  /\ stale' = FALSE
  /\ UNCHANGED <<uiVars, camVars, bgVars, computing, cropped, infVars, numRuns,
                 loaded>>

-----------------------------------------------------------------------------
UiStep ==
  \/ CloseReader \/ QuitBackground \/ QuitInference \/ JoinBackground
  \/ JoinInference

BgStep ==
  \/ ResetRuns \/ LoadGraph \/ SetHandler \/ AcquireLatestImage \/ DropFrame
  \/ TakeFrame \/ ConvertFrame \/ AbortFrame \/ CloseImage \/ DrawFrame
  \/ PostFrame

InfStep ==
  \/ StartInference \/ CountRun \/ FinishRun \/ SetResults \/ ClearComputing

Next ==
  \/ OnResume \/ OnPause \/ UiStep \/ FrameArrives \/ OnOpened
  \/ OnConfigured \/ BgStep \/ InfStep \/ BecomesVisible

(* The three threads keep running and stores become visible; nothing       *)
(* obliges the user to pause or resume, or the camera to deliver a frame.  *)
Fairness ==
  /\ WF_vars(UiStep)
  /\ WF_vars(BgStep)
  /\ WF_vars(InfStep)
  /\ WF_vars(BecomesVisible)

Spec == Init /\ [][Next]_vars
FairSpec == Spec /\ Fairness

-----------------------------------------------------------------------------
(* Properties.                                                             *)

(* A frame is on its way from the flag's being set to its being cleared.   *)
InProgress ==
  \/ bg.pc \in {"convert", "close", "draw", "post"}
  \/ infQueue # <<>>
  \/ inf.pc # "idle"

Orphaned == computing /\ ~InProgress /\ bg.pc # "abort"

(* "No mutex needed as this method is not reentrant"                       *)
(* (TensorFlowImageListener.java:133) though two threads share the flag    *)
(* and the bitmap: the bitmap the native code classifies shows the frame   *)
(* that was posted; onImageAvailable never redraws it in between, not even *)
(* across a pause and a resume.                                            *)
ClassifiesPostedFrame ==
  /\ inf.pc \in {"run", "divide", "setResults"} => cropped = inf.frame
  /\ \A i \in DOMAIN infQueue : infQueue[i] = cropped

(* At most one frame is between the flag's being set and cleared.          *)
OneFrameAtATime ==
  /\ Len(infQueue) <= 1
  /\ bg.pc \in {"convert", "close", "draw", "post"} =>
       infQueue = <<>> /\ inf.pc = "idle"
  /\ infQueue # <<>> => inf.pc = "idle"

(* initializeTensorFlow, whose mutex is commented out                      *)
(* (tensorflow_jni.cc:97), never overlaps ClassifyImage: when the latter   *)
(* divides by g_num_runs the graph is loaded and the counter is not zero.  *)
NativeStateReady ==
  /\ inf.pc # "idle" => loaded /\ bg.pc \notin {"resetRuns", "loadGraph"}
  /\ inf.pc = "divide" => numRuns > 0

(* Every path through onImageAvailable closes the image it acquired, so    *)
(* the reader never runs out of its MaxImages images.                      *)
ImagesAreClosed ==
  acquired = IF bg.pc \in {"check", "convert", "abort", "close"} THEN 1 ELSE 0

(* The flag is left set with nothing under way (the listener drops every   *)
(* later frame) only by a step taken while onPause is executing.           *)
OrphanedOnlyByPause ==
  [][Orphaned' /\ ~Orphaned => ui \in Pausing]_vars

(* The frame that holds the flag, from onImageAvailable's setting it to    *)
(* the runnable's clearing it; 0 if none does.                             *)
Current ==
  IF bg.pc \in {"convert", "close", "draw", "post"} THEN bg.frame
  ELSE IF infQueue # <<>>                           THEN Head(infQueue)
  ELSE IF inf.pc # "idle"                           THEN inf.frame
  ELSE 0

(* The flag is clear; it is set and a thread is going to clear it; or it   *)
(* is set for good.                                                        *)
Place == IF ~computing THEN "free" ELSE IF InProgress THEN "taken" ELSE "stuck"

Slot == INSTANCE FrameSlot WITH Frames <- 1 .. MaxFrames, place <- Place,
                                current <- Current

(* The three threads, their queues and the unlocked flag implement a place *)
(* for one frame: what is announced is the frame that was taken, once, and *)
(* then the next one is taken.  A frame that a pause overtook is lost, and *)
(* the listener with it: nothing frees the flag again, and "takes in       *)
(* preview frames" (TensorFlowImageListener.java:41) is over for good.     *)
ImplementsSlot == Slot!Spec

(* onPause returns: neither join blocks the UI thread for ever.            *)
PauseCompletes == ui \in Pausing ~> ui = "paused"

=============================================================================
