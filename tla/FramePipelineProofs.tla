------------------------- MODULE FramePipelineProofs -------------------------
(***************************************************************************)
(* Machine-checked proofs about FramePipeline, for any number of frames,   *)
(* resumes and reader images: the flag `computing`, which no lock          *)
(* protects, and the joins of stopBackgroundThread keep the bitmap and the *)
(* native globals from being used by two threads at once, only a pause can *)
(* orphan the flag, and the whole implements the safety of FrameSlot.  The *)
(* second part is about ColorConversion.                                   *)
(***************************************************************************)
EXTENDS FramePipeline, ColorConversion, TLAPS

FramePlaces == {"convert", "close", "draw", "post"}
InfBusy == infQueue # <<>> \/ inf.pc # "idle"

(* The threads exist exactly between onResume and the join that ends them, *)
(* and a joined thread has nothing left to do.                             *)
ThreadsInv ==
  /\ ui = "resumed" => bgThread = "running" /\ infThread = "running"
  /\ ui \in {"closeReader", "quitBg"} => bgThread = "running" /\ infThread = "running"
  /\ ui \in {"paused", "joinInf"} => bgThread = "none" /\ bg.pc = "idle" /\ messages = 0
  /\ ui = "paused" => ~InfBusy

(* Frames and inferences belong to a preview that was opened and           *)
(* initialized in the current resume; while the fragment is resumed its    *)
(* reader is open, and the listener has the live handler.                  *)
PreviewInv ==
  /\ messages > 0 \/ InfBusy => preview = "streaming"
  /\ bg.pc \in {"check", "abort"} \union FramePlaces => preview = "streaming"
  /\ bg.pc \in {"resetRuns", "loadGraph", "setHandler"} => preview = "opened"
  /\ ui = "resumed" /\ preview # "none" => reader = "open"
  /\ preview # "none" => reader # "none"
  /\ bg.pc = "abort" => ui \in Pausing
  /\ preview # "none" /\ bg.pc \notin {"resetRuns", "loadGraph"} => loaded
  /\ preview # "none" /\ bg.pc \notin {"resetRuns", "loadGraph", "setHandler"}
       => handler = "live"

(* The flag is set as long as a frame is on its way.                       *)
FlagInv == InProgress => computing

(* A frame that is posted is the one in the bitmap.                        *)
BitmapInv == bg.pc = "post" => cropped = bg.frame

IInv ==
  /\ TypeOK
  /\ ThreadsInv
  /\ PreviewInv
  /\ FlagInv
  /\ BitmapInv
  /\ OneFrameAtATime
  /\ ClassifiesPostedFrame
  /\ NativeStateReady
  /\ ImagesAreClosed

USE ImagesAssumption, FramesAssumption, ResumesAssumption

(* The type invariant is preserved by every step: no counter leaves its    *)
(* range.  The image count relies on ImagesAreClosed.                      *)
LEMMA NextTypeOK == TypeOK /\ ImagesAreClosed /\ [Next]_vars => TypeOK'
<1> SUFFICES ASSUME TypeOK, ImagesAreClosed, [Next]_vars PROVE TypeOK'
  OBVIOUS
<1> USE DEF TypeOK, uiVars, camVars, bgVars, infVars
<1>1. CASE OnResume
  BY <1>1 DEF OnResume, ThreadStates
<1>2. CASE OnPause
  BY <1>2 DEF OnPause, Pausing
<1>3. CASE CloseReader
  BY <1>3 DEF CloseReader, Pausing
<1>4. CASE QuitBackground
  BY <1>4 DEF QuitBackground, Pausing, ThreadStates
<1>5. CASE QuitInference
  BY <1>5 DEF QuitInference, Pausing, ThreadStates
<1>6. CASE JoinBackground
  BY <1>6 DEF JoinBackground, Pausing, ThreadStates
<1>7. CASE JoinInference
  BY <1>7 DEF JoinInference, Pausing, ThreadStates
<1>8. CASE FrameArrives
  BY <1>8 DEF FrameArrives, Frames
<1>9. CASE OnOpened
  BY <1>9 DEF OnOpened, BgPlaces
<1>10. CASE OnConfigured
  BY <1>10 DEF OnConfigured
<1>11. CASE ResetRuns
  BY <1>11 DEF ResetRuns, BgPlaces
<1>12. CASE LoadGraph
  BY <1>12 DEF LoadGraph, BgPlaces
<1>13. CASE SetHandler
  BY <1>13 DEF SetHandler, BgPlaces
<1>14. CASE AcquireLatestImage
  BY <1>14 DEF AcquireLatestImage, BgPlaces
<1>15. CASE DropFrame
  BY <1>15 DEF DropFrame, BgPlaces, ImagesAreClosed
<1>16. CASE TakeFrame
  BY <1>16 DEF TakeFrame, BgPlaces
<1>17. CASE ConvertFrame
  BY <1>17 DEF ConvertFrame, BgPlaces
<1>18. CASE AbortFrame
  BY <1>18 DEF AbortFrame, BgPlaces, ImagesAreClosed
<1>19. CASE CloseImage
  BY <1>19 DEF CloseImage, BgPlaces, ImagesAreClosed
<1>20. CASE DrawFrame
  BY <1>20 DEF DrawFrame, BgPlaces
<1>21. CASE PostFrame
  BY <1>21 DEF PostFrame, BgPlaces
<1>22. CASE StartInference
  BY <1>22 DEF StartInference, InfPlaces
<1>23. CASE CountRun
  BY <1>23 DEF CountRun, InfPlaces
<1>24. CASE FinishRun
  BY <1>24 DEF FinishRun, InfPlaces
<1>25. CASE SetResults
  BY <1>25 DEF SetResults, InfPlaces
<1>26. CASE ClearComputing
  BY <1>26 DEF ClearComputing, InfPlaces
<1>27. CASE BecomesVisible
  BY <1>27 DEF BecomesVisible
<1>28. CASE UNCHANGED vars
  BY <1>28 DEF vars
<1> QED
  BY <1>1, <1>2, <1>3, <1>4, <1>5, <1>6, <1>7, <1>8, <1>9, <1>10, <1>11,
     <1>12, <1>13, <1>14, <1>15, <1>16, <1>17, <1>18, <1>19, <1>20, <1>21,
     <1>22, <1>23, <1>24, <1>25, <1>26, <1>27, <1>28 DEF Next, UiStep,
     BgStep, InfStep

(* The inductive invariant holds initially.                                *)
LEMMA InitIInv == Init => IInv
<1> SUFFICES ASSUME Init PROVE IInv
  OBVIOUS
<1>1. TypeOK
  <2>1. 0 \in Frames /\ 0 \in 0 .. MaxResumes /\ 0 \in 0 .. MaxImages
    BY DEF Frames
  <2>2. <<>> \in Seq(Frames)
    OBVIOUS
  <2>3. bg \in [pc : BgPlaces, frame : Frames] /\ inf \in [pc : InfPlaces, frame : Frames]
    BY <2>1 DEF Init, BgPlaces, InfPlaces
  <2> QED
    BY <2>1, <2>2, <2>3 DEF Init, TypeOK, ThreadStates
<1>2. ThreadsInv /\ PreviewInv
  BY DEF Init, ThreadsInv, PreviewInv, InfBusy, FramePlaces
<1>3. FlagInv /\ BitmapInv /\ OneFrameAtATime /\ ClassifiesPostedFrame
  BY DEF Init, FlagInv, InProgress, BitmapInv, OneFrameAtATime,
     ClassifiesPostedFrame
<1>4. NativeStateReady /\ ImagesAreClosed
  BY DEF Init, NativeStateReady, ImagesAreClosed
<1> QED
  BY <1>1, <1>2, <1>3, <1>4 DEF IInv

(* Every step preserves the inductive invariant.                           *)
LEMMA NextIInv == IInv /\ [Next]_vars => IInv'
<1> SUFFICES ASSUME IInv, [Next]_vars PROVE IInv'
  OBVIOUS
<1>0. TypeOK /\ TypeOK'
  BY NextTypeOK DEF IInv
<1> SUFFICES (/\ ThreadsInv /\ PreviewInv /\ FlagInv /\ BitmapInv
              /\ OneFrameAtATime /\ ClassifiesPostedFrame
              /\ NativeStateReady /\ ImagesAreClosed)'
  BY <1>0 DEF IInv
<1> USE DEF IInv, TypeOK, ThreadsInv, PreviewInv, FlagInv, BitmapInv,
        OneFrameAtATime, ClassifiesPostedFrame, NativeStateReady,
        ImagesAreClosed, InfBusy, InProgress, FramePlaces, Pausing, uiVars,
        camVars, bgVars, infVars
<1>1. CASE OnResume
  BY <1>0, <1>1 DEF OnResume
<1>2. CASE OnPause
  BY <1>0, <1>2 DEF OnPause
<1>3. CASE CloseReader
  BY <1>0, <1>3 DEF CloseReader
<1>4. CASE QuitBackground
  BY <1>0, <1>4 DEF QuitBackground
<1>5. CASE QuitInference
  BY <1>0, <1>5 DEF QuitInference
<1>6. CASE JoinBackground
  BY <1>0, <1>6 DEF JoinBackground
<1>7. CASE JoinInference
  BY <1>0, <1>7 DEF JoinInference
<1>8. CASE FrameArrives
  BY <1>0, <1>8 DEF FrameArrives
<1>9. CASE OnOpened
  BY <1>0, <1>9 DEF OnOpened
<1>10. CASE OnConfigured
  BY <1>0, <1>10 DEF OnConfigured
<1>11. CASE ResetRuns
  BY <1>0, <1>11 DEF ResetRuns
<1>12. CASE LoadGraph
  BY <1>0, <1>12 DEF LoadGraph
<1>13. CASE SetHandler
  BY <1>0, <1>13 DEF SetHandler
<1>14. CASE AcquireLatestImage
  BY <1>0, <1>14 DEF AcquireLatestImage
<1>15. CASE DropFrame
  BY <1>0, <1>15 DEF DropFrame
<1>16. CASE TakeFrame
  BY <1>0, <1>16 DEF TakeFrame
<1>17. CASE ConvertFrame
  BY <1>0, <1>17 DEF ConvertFrame
<1>18. CASE AbortFrame
  BY <1>0, <1>18 DEF AbortFrame
<1>19. CASE CloseImage
  BY <1>0, <1>19 DEF CloseImage
<1>20. CASE DrawFrame
  BY <1>0, <1>20 DEF DrawFrame
<1>21. CASE PostFrame
  BY <1>0, <1>21 DEF PostFrame
<1>22. CASE StartInference
  BY <1>0, <1>22 DEF StartInference
<1>23. CASE CountRun
  BY <1>0, <1>23 DEF CountRun
<1>24. CASE FinishRun
  BY <1>0, <1>24 DEF FinishRun
<1>25. CASE SetResults
  BY <1>0, <1>25 DEF SetResults
<1>26. CASE ClearComputing
  BY <1>0, <1>26 DEF ClearComputing
<1>27. CASE BecomesVisible
  BY <1>0, <1>27 DEF BecomesVisible
<1>28. CASE UNCHANGED vars
  BY <1>28 DEF vars
<1> QED
  BY <1>1, <1>2, <1>3, <1>4, <1>5, <1>6, <1>7, <1>8, <1>9, <1>10, <1>11,
     <1>12, <1>13, <1>14, <1>15, <1>16, <1>17, <1>18, <1>19, <1>20, <1>21,
     <1>22, <1>23, <1>24, <1>25, <1>26, <1>27, <1>28 DEF Next, UiStep,
     BgStep, InfStep

(* FramePipeline is type correct; in particular no image is closed twice.  *)
THEOREM TypeCorrect == Spec => []TypeOK
<1>1. IInv => TypeOK
  BY DEF IInv
<1> QED
  BY InitIInv, NextIInv, <1>1, PTL DEF Spec

(* Although computing is a plain field shared by two threads, at most one  *)
(* frame is under way, and the native code classifies the very frame that  *)
(* onImageAvailable posted.                                                *)
THEOREM FlagExcludes == Spec => [](OneFrameAtATime /\ ClassifiesPostedFrame)
<1>1. IInv => OneFrameAtATime /\ ClassifiesPostedFrame
  BY DEF IInv
<1> QED
  BY InitIInv, NextIInv, <1>1, PTL DEF Spec

(* Without the commented-out mutex, the joins of stopBackgroundThread keep *)
(* initializeTensorFlow apart from ClassifyImage: the graph is loaded and  *)
(* g_num_runs is not zero when it divides.                                 *)
THEOREM NativeIsReady == Spec => []NativeStateReady
<1>1. IInv => NativeStateReady
  BY DEF IInv
<1> QED
  BY InitIInv, NextIInv, <1>1, PTL DEF Spec

(* Every path through onImageAvailable closes its image.                   *)
THEOREM ImagesClosed == Spec => []ImagesAreClosed
<1>1. IInv => ImagesAreClosed
  BY DEF IInv
<1> QED
  BY InitIInv, NextIInv, <1>1, PTL DEF Spec

-----------------------------------------------------------------------------
(* A step that orphans the flag is taken while onPause executes.           *)
LEMMA OrphanStep ==
  ASSUME IInv, [Next]_vars, ~Orphaned, Orphaned'
  PROVE  ui \in Pausing
<1> USE DEF IInv, TypeOK, ThreadsInv, PreviewInv, FlagInv, Orphaned, InProgress,
        InfBusy, FramePlaces, uiVars, camVars, bgVars, infVars
<1>1. CASE OnResume
  BY <1>1 DEF OnResume
<1>2. CASE OnPause
  BY <1>2 DEF OnPause
<1>3. CASE CloseReader
  BY <1>3 DEF CloseReader, Pausing
<1>4. CASE QuitBackground
  BY <1>4 DEF QuitBackground, Pausing
<1>5. CASE QuitInference
  BY <1>5 DEF QuitInference, Pausing
<1>6. CASE JoinBackground
  BY <1>6 DEF JoinBackground, Pausing
<1>7. CASE JoinInference
  BY <1>7 DEF JoinInference, Pausing
<1>8. CASE FrameArrives
  BY <1>8 DEF FrameArrives
<1>9. CASE OnOpened
  BY <1>9 DEF OnOpened
<1>10. CASE OnConfigured
  BY <1>10 DEF OnConfigured
<1>11. CASE ResetRuns
  BY <1>11 DEF ResetRuns
<1>12. CASE LoadGraph
  BY <1>12 DEF LoadGraph
<1>13. CASE SetHandler
  BY <1>13 DEF SetHandler
<1>14. CASE AcquireLatestImage
  BY <1>14 DEF AcquireLatestImage
<1>15. CASE DropFrame
  BY <1>15 DEF DropFrame
<1>16. CASE TakeFrame
  BY <1>16 DEF TakeFrame
<1>17. CASE ConvertFrame
  BY <1>17 DEF ConvertFrame
<1>18. CASE AbortFrame
  BY <1>18 DEF AbortFrame
<1>19. CASE CloseImage
  BY <1>19 DEF CloseImage
<1>20. CASE DrawFrame
  BY <1>20 DEF DrawFrame
<1>21. CASE PostFrame
  BY <1>21 DEF PostFrame, Pausing
<1>22. CASE StartInference
  BY <1>22 DEF StartInference
<1>23. CASE CountRun
  BY <1>23 DEF CountRun
<1>24. CASE FinishRun
  BY <1>24 DEF FinishRun
<1>25. CASE SetResults
  BY <1>25 DEF SetResults
<1>26. CASE ClearComputing
  BY <1>26 DEF ClearComputing
<1>27. CASE BecomesVisible
  BY <1>27 DEF BecomesVisible
<1>28. CASE UNCHANGED vars
  BY <1>28 DEF vars
<1> QED
  BY <1>1, <1>2, <1>3, <1>4, <1>5, <1>6, <1>7, <1>8, <1>9, <1>10, <1>11,
     <1>12, <1>13, <1>14, <1>15, <1>16, <1>17, <1>18, <1>19, <1>20, <1>21,
     <1>22, <1>23, <1>24, <1>25, <1>26, <1>27, <1>28 DEF Next, UiStep,
     BgStep, InfStep

(* The listener can only freeze (flag set, nothing under way) by a step    *)
(* taken while onPause is executing.                                       *)
THEOREM FreezeOnlyByPause == Spec => OrphanedOnlyByPause
<1>1. IInv /\ [Next]_vars => [Orphaned' /\ ~Orphaned => ui \in Pausing]_vars
  BY OrphanStep
<1> QED
  BY InitIInv, NextIInv, <1>1, PTL DEF Spec, OrphanedOnlyByPause

-----------------------------------------------------------------------------
(* The refinement of FrameSlot.  Frames are numbered as the camera delivers *)
(* them, and they keep that order on their way: the frame whose results are *)
(* shown is no newer than the bitmap's, that one no newer than the frame    *)
(* onImageAvailable acquired last; a waiting image is newer than all three. *)
OrderInv ==
  /\ shown <= cropped /\ cropped <= bg.frame /\ bg.frame <= frame
  /\ avail > 0 => bg.frame < frame
  /\ bg.pc \in {"check", "abort", "convert", "close", "draw"} => cropped < bg.frame

(* From drawing a frame to showing its results the bitmap is newer than    *)
(* what is shown, and then it is shown.                                    *)
ShownInv ==
  /\ bg.pc = "post" \/ infQueue # <<>> \/ inf.pc \in {"run", "divide", "setResults"}
       => shown < cropped
  /\ inf.pc = "clear" => shown = inf.frame

LEMMA InitOrder == Init => OrderInv /\ ShownInv
BY DEF Init, OrderInv, ShownInv

(* Every step keeps the frames in the camera's order.                      *)
LEMMA NextOrder == IInv /\ OrderInv /\ ShownInv /\ [Next]_vars => OrderInv' /\ ShownInv'
<1> SUFFICES ASSUME IInv, OrderInv, ShownInv, [Next]_vars PROVE OrderInv' /\ ShownInv'
  OBVIOUS
<1>0. /\ frame \in Nat /\ shown \in Nat /\ cropped \in Nat /\ avail \in Nat
      /\ bg \in [pc : BgPlaces, frame : Nat] /\ inf \in [pc : InfPlaces, frame : Nat]
  BY DEF IInv, TypeOK, Frames
<1>q. infQueue \in Seq(Frames)
  BY DEF IInv, TypeOK
<1>e. OneFrameAtATime /\ ClassifiesPostedFrame /\ BitmapInv
  BY DEF IInv
<1> USE DEF OrderInv, ShownInv, uiVars, camVars, bgVars, infVars
<1>1. CASE OnResume
  BY <1>0, <1>1 DEF OnResume
<1>2. CASE OnPause
  BY <1>0, <1>2 DEF OnPause
<1>3. CASE CloseReader
  BY <1>0, <1>3 DEF CloseReader
<1>4. CASE QuitBackground
  BY <1>0, <1>4 DEF QuitBackground
<1>5. CASE QuitInference
  BY <1>0, <1>5 DEF QuitInference
<1>6. CASE JoinBackground
  BY <1>0, <1>6 DEF JoinBackground
<1>7. CASE JoinInference
  BY <1>0, <1>7 DEF JoinInference
<1>8. CASE FrameArrives
  BY <1>0, <1>8 DEF FrameArrives
<1>9. CASE OnOpened
  BY <1>0, <1>9 DEF OnOpened
<1>10. CASE OnConfigured
  BY <1>0, <1>10 DEF OnConfigured
<1>11. CASE ResetRuns
  BY <1>0, <1>11 DEF ResetRuns
<1>12. CASE LoadGraph
  BY <1>0, <1>12 DEF LoadGraph
<1>13. CASE SetHandler
  BY <1>0, <1>13 DEF SetHandler
<1>14. CASE AcquireLatestImage
  BY <1>0, <1>14 DEF AcquireLatestImage
<1>15. CASE DropFrame
  BY <1>0, <1>15 DEF DropFrame
<1>16. CASE TakeFrame
  BY <1>0, <1>16 DEF TakeFrame
<1>17. CASE ConvertFrame
  BY <1>0, <1>17 DEF ConvertFrame
<1>18. CASE AbortFrame
  BY <1>0, <1>18 DEF AbortFrame
<1>19. CASE CloseImage
  BY <1>0, <1>19 DEF CloseImage
<1>20. CASE DrawFrame
  BY <1>0, <1>q, <1>e, <1>20 DEF DrawFrame, OneFrameAtATime,
     ClassifiesPostedFrame, BitmapInv
<1>21. CASE PostFrame
  BY <1>0, <1>q, <1>e, <1>21 DEF PostFrame, OneFrameAtATime,
     ClassifiesPostedFrame, BitmapInv
<1>22. CASE StartInference
  BY <1>0, <1>q, <1>e, <1>22 DEF StartInference, OneFrameAtATime,
     ClassifiesPostedFrame, BitmapInv
<1>23. CASE CountRun
  BY <1>0, <1>23 DEF CountRun
<1>24. CASE FinishRun
  BY <1>0, <1>24 DEF FinishRun
<1>25. CASE SetResults
  BY <1>0, <1>q, <1>e, <1>25 DEF SetResults, OneFrameAtATime,
     ClassifiesPostedFrame, BitmapInv
<1>26. CASE ClearComputing
  BY <1>0, <1>q, <1>e, <1>26 DEF ClearComputing, OneFrameAtATime,
     ClassifiesPostedFrame, BitmapInv
<1>27. CASE BecomesVisible
  BY <1>0, <1>27 DEF BecomesVisible
<1>28. CASE UNCHANGED vars
  BY <1>28 DEF vars
<1> QED
  BY <1>1, <1>2, <1>3, <1>4, <1>5, <1>6, <1>7, <1>8, <1>9, <1>10, <1>11,
     <1>12, <1>13, <1>14, <1>15, <1>16, <1>17, <1>18, <1>19, <1>20, <1>21,
     <1>22, <1>23, <1>24, <1>25, <1>26, <1>27, <1>28 DEF Next, UiStep,
     BgStep, InfStep

(* Initially the place for a frame is free.                                *)
LEMMA InitSlot == Init => Slot!Init
BY DEF Init, Slot!Init, Place, Current, InProgress

(* A step that leaves the flag, the background thread's place and frame,   *)
(* the inference queue and thread and the results alone is a stutter.      *)
LEMMA SameSlot ==
  ASSUME UNCHANGED <<computing, infQueue, inf, shown>>,
         \/ UNCHANGED bg
         \/ bg.pc \notin FramePlaces /\ bg'.pc \notin FramePlaces
         \/ bg.pc \in FramePlaces /\ bg'.pc \in FramePlaces /\ bg'.frame = bg.frame
  PROVE  UNCHANGED Slot!vars
BY DEF Slot!vars, Place, Current, InProgress, FramePlaces

(* Every step of the threads is a step of the place for a frame, or leaves *)
(* it alone.                                                               *)
LEMMA NextSlot ==
  IInv /\ OrderInv /\ ShownInv /\ [Next]_vars => [Slot!Next]_(Slot!vars)
<1> SUFFICES ASSUME IInv, OrderInv, ShownInv, [Next]_vars
             PROVE  Slot!Next \/ UNCHANGED Slot!vars
  OBVIOUS
<1>0. /\ frame \in Nat /\ shown \in Nat /\ cropped \in Nat
      /\ bg \in [pc : BgPlaces, frame : Frames] /\ inf \in [pc : InfPlaces, frame : Frames]
      /\ computing \in BOOLEAN
  BY DEF IInv, TypeOK, Frames
<1>q. infQueue \in Seq(Frames)
  BY DEF IInv, TypeOK
<1>e. OneFrameAtATime /\ ClassifiesPostedFrame /\ BitmapInv /\ FlagInv
  BY DEF IInv
<1> USE DEF uiVars, camVars, bgVars, infVars
<1>1. CASE OnResume
  BY <1>0, <1>1, SameSlot DEF OnResume, FramePlaces
<1>2. CASE OnPause
  BY <1>0, <1>2, SameSlot DEF OnPause, FramePlaces
<1>3. CASE CloseReader
  BY <1>0, <1>3, SameSlot DEF CloseReader, FramePlaces
<1>4. CASE QuitBackground
  BY <1>0, <1>4, SameSlot DEF QuitBackground, FramePlaces
<1>5. CASE QuitInference
  BY <1>0, <1>5, SameSlot DEF QuitInference, FramePlaces
<1>6. CASE JoinBackground
  BY <1>0, <1>6, SameSlot DEF JoinBackground, FramePlaces
<1>7. CASE JoinInference
  BY <1>0, <1>7, SameSlot DEF JoinInference, FramePlaces
<1>8. CASE FrameArrives
  BY <1>0, <1>8, SameSlot DEF FrameArrives, FramePlaces
<1>9. CASE OnOpened
  BY <1>0, <1>9, SameSlot DEF OnOpened, FramePlaces
<1>10. CASE OnConfigured
  BY <1>0, <1>10, SameSlot DEF OnConfigured, FramePlaces
<1>11. CASE ResetRuns
  BY <1>0, <1>11, SameSlot DEF ResetRuns, FramePlaces
<1>12. CASE LoadGraph
  BY <1>0, <1>12, SameSlot DEF LoadGraph, FramePlaces
<1>13. CASE SetHandler
  BY <1>0, <1>13, SameSlot DEF SetHandler, FramePlaces
<1>14. CASE AcquireLatestImage
  BY <1>0, <1>14, SameSlot DEF AcquireLatestImage, FramePlaces
<1>15. CASE DropFrame
  BY <1>0, <1>15, SameSlot DEF DropFrame, FramePlaces
<1>16. CASE TakeFrame
  <2>1. Place = "free" /\ Place' = "taken" /\ Current' = bg.frame
    BY <1>0, <1>16 DEF TakeFrame, Place, Current, InProgress
  <2>2. bg.frame \in 1 .. MaxFrames /\ bg.frame > shown /\ UNCHANGED shown
    BY <1>0, <1>16 DEF TakeFrame, OrderInv, Frames
  <2> QED
    BY <2>1, <2>2 DEF Slot!Next, Slot!Take
<1>17. CASE ConvertFrame
  <2>1. CASE reader = "open" /\ bg' = [bg EXCEPT !.pc = "close"]
    BY <1>0, <1>17, <2>1, SameSlot DEF ConvertFrame, FramePlaces
  <2>2. CASE reader = "closed" /\ bg' = [bg EXCEPT !.pc = "abort"]
    <3>1. bg.pc = "convert" /\ bg'.pc = "abort" /\ UNCHANGED <<computing, infQueue, inf, shown>>
      BY <1>0, <1>17, <2>2 DEF ConvertFrame
    <3>2. Place = "taken" /\ Place' = "stuck"
      BY <1>e, <3>1 DEF Place, InProgress, FlagInv, OneFrameAtATime
    <3>3. Current = bg.frame /\ Current' = 0
      BY <1>e, <3>1 DEF Current, OneFrameAtATime
    <3>4. shown # bg.frame
      BY <1>0, <3>1 DEF OrderInv, Frames
    <3> QED
      BY <3>1, <3>2, <3>3, <3>4 DEF Slot!Next, Slot!Lose
  <2> QED
    BY <1>17, <2>1, <2>2 DEF ConvertFrame
<1>18. CASE AbortFrame
  BY <1>0, <1>18, SameSlot DEF AbortFrame, FramePlaces
<1>19. CASE CloseImage
  BY <1>0, <1>19, SameSlot DEF CloseImage, FramePlaces
<1>20. CASE DrawFrame
  BY <1>0, <1>20, SameSlot DEF DrawFrame, FramePlaces
<1>21. CASE PostFrame
  <2>1. bg.pc = "post" /\ bg'.pc = "idle" /\ UNCHANGED <<computing, inf, shown>>
    BY <1>0, <1>21 DEF PostFrame
  <2>2. infQueue = <<>> /\ inf.pc = "idle" /\ computing /\ bg.frame \in Frames
    BY <1>0, <1>e, <2>1 DEF OneFrameAtATime, FlagInv, InProgress
  <2>3. Place = "taken" /\ Current = bg.frame
    BY <2>1, <2>2 DEF Place, Current, InProgress
  <2>4. CASE infQueue' = Append(infQueue, bg.frame)
    <3>1. infQueue' # <<>> /\ Head(infQueue') = bg.frame
      BY <2>2, <2>4
    <3>2. Place' = "taken" /\ Current' = bg.frame
      BY <2>1, <2>2, <3>1 DEF Place, Current, InProgress
    <3> QED
      BY <2>1, <2>3, <3>2 DEF Slot!vars
  <2>5. CASE infQueue' = infQueue
    <3>1. Place' = "stuck" /\ Current' = 0
      BY <2>1, <2>2, <2>5 DEF Place, Current, InProgress
    <3>2. shown # bg.frame
      BY <1>0, <1>e, <2>1 DEF ShownInv, BitmapInv
    <3> QED
      BY <2>1, <2>3, <3>1, <3>2 DEF Slot!Next, Slot!Lose
  <2> QED
    BY <1>21, <2>4, <2>5 DEF PostFrame
<1>22. CASE StartInference
  <2>1. /\ bg.pc \notin FramePlaces /\ UNCHANGED <<computing, bg, shown>>
        /\ infQueue # <<>> /\ infQueue' = <<>>
        /\ inf'.pc = "run" /\ inf'.frame = Head(infQueue)
    BY <1>0, <1>q, <1>e, <1>22 DEF StartInference, OneFrameAtATime, FramePlaces
  <2> QED
    BY <2>1 DEF Slot!vars, Place, Current, InProgress, FramePlaces
<1>23. CASE CountRun
  <2>1. /\ inf.pc # "idle" /\ inf'.pc # "idle" /\ inf'.frame = inf.frame
        /\ UNCHANGED <<computing, bg, infQueue, shown>>
    BY <1>0, <1>23 DEF CountRun
  <2> QED
    BY <2>1 DEF Slot!vars, Place, Current, InProgress
<1>24. CASE FinishRun
  <2>1. /\ inf.pc # "idle" /\ inf'.pc # "idle" /\ inf'.frame = inf.frame
        /\ UNCHANGED <<computing, bg, infQueue, shown>>
    BY <1>0, <1>24 DEF FinishRun
  <2> QED
    BY <2>1 DEF Slot!vars, Place, Current, InProgress
<1>25. CASE SetResults
  <2>1. /\ inf.pc = "setResults" /\ inf'.pc = "clear" /\ inf'.frame = inf.frame
        /\ shown' = cropped /\ UNCHANGED <<computing, bg, infQueue>>
    BY <1>0, <1>25 DEF SetResults
  <2>2. infQueue = <<>> /\ bg.pc \notin FramePlaces /\ computing /\ cropped = inf.frame
    BY <1>e, <2>1 DEF OneFrameAtATime, FlagInv, InProgress, ClassifiesPostedFrame,
       FramePlaces
  <2>3. Place = "taken" /\ Place' = "taken" /\ Current = cropped /\ Current' = cropped
    BY <2>1, <2>2 DEF Place, Current, InProgress, FramePlaces
  <2>4. shown # cropped
    BY <1>0, <2>1 DEF ShownInv
  <2> QED
    BY <2>1, <2>3, <2>4 DEF Slot!Next, Slot!Announce
<1>26. CASE ClearComputing
  <2>1. /\ inf.pc = "clear" /\ inf'.pc = "idle" /\ computing' = FALSE
        /\ UNCHANGED <<bg, infQueue, shown>>
    BY <1>0, <1>26 DEF ClearComputing
  <2>2. infQueue = <<>> /\ bg.pc \notin FramePlaces /\ computing /\ shown = inf.frame
    BY <1>e, <2>1 DEF OneFrameAtATime, FlagInv, InProgress, ShownInv, FramePlaces
  <2>3. Place = "taken" /\ Place' = "free" /\ Current = shown /\ Current' = 0
    BY <2>1, <2>2 DEF Place, Current, InProgress, FramePlaces
  <2> QED
    BY <2>1, <2>3 DEF Slot!Next, Slot!Release
<1>27. CASE BecomesVisible
  BY <1>0, <1>27, SameSlot DEF BecomesVisible, FramePlaces
<1>28. CASE UNCHANGED vars
  BY <1>28, SameSlot DEF vars
<1> QED
  BY <1>1, <1>2, <1>3, <1>4, <1>5, <1>6, <1>7, <1>8, <1>9, <1>10, <1>11,
     <1>12, <1>13, <1>14, <1>15, <1>16, <1>17, <1>18, <1>19, <1>20, <1>21,
     <1>22, <1>23, <1>24, <1>25, <1>26, <1>27, <1>28 DEF Next, UiStep,
     BgStep, InfStep

(* The safety half of ImplementsSlot: three threads, two queues and an     *)
(* unlocked flag behave as a place for one frame.  A frame that is taken   *)
(* is newer than every frame announced before, what is announced is the    *)
(* frame that was taken, once, and only then is the place free again; a    *)
(* frame that a pause overtakes is lost with the place.                    *)
THEOREM PipelineIsASlot == Spec => Slot!Safety
<1>1. Spec => [](IInv /\ OrderInv /\ ShownInv)
  BY InitIInv, NextIInv, InitOrder, NextOrder, PTL DEF Spec
<1> QED
  BY <1>1, InitSlot, NextSlot, PTL DEF Spec, Slot!Safety

HIDE ResumesAssumption
HIDE FramesAssumption
HIDE ImagesAssumption

-----------------------------------------------------------------------------
(***************************************************************************)
(* The colour conversions a frame goes through, for images of every size,  *)
(* every colour, every padding of a camera's planes and every sample: no   *)
(* access leaves its buffer, the chroma of a whole block is its average in *)
(* spite of 8-bit sums, what is read back is the colour of its own block,  *)
(* and the integer arithmetic of YUV2RGB is ITU-R BT.601's.                *)
(***************************************************************************)
-----------------------------------------------------------------------------
(* Rows and columns.                                                       *)

LEMMA DivMod ==
  ASSUME NEW k \in Nat, NEW w \in Nat \ {0}
  PROVE  /\ k \div w \in Nat /\ k % w \in 0..(w - 1)
         /\ k = (k \div w) * w + (k % w)
OBVIOUS

LEMMA Halves ==
  ASSUME NEW k \in Nat
  PROVE  /\ k \div 2 \in Nat
         /\ \/ k = 2 * (k \div 2) /\ k % 2 = 0
            \/ k = 2 * (k \div 2) + 1 /\ k % 2 = 1
OBVIOUS

LEMMA Monotone ==
  ASSUME NEW a \in Nat, NEW b \in Nat, NEW w \in Nat, a <= b
  PROVE  a * w \in Nat /\ b * w \in Nat /\ a * w <= b * w
OBVIOUS

LEMMA NextRow ==
  ASSUME NEW a \in Nat, NEW b \in Nat, NEW w \in Nat, a < b
  PROVE  a * w + w <= b * w
<1>1. (a + 1) * w <= b * w
  BY Monotone
<1>2. (a + 1) * w = a * w + w
  OBVIOUS
<1> QED
  BY <1>1, <1>2

(* Positions are ordered row by row.                                       *)
LEMMA Order ==
  ASSUME NEW w \in Nat \ {0}, NEW x \in 0..(w - 1), NEW y \in Nat,
         NEW v \in 0..(w - 1), NEW u \in Nat
  PROVE  /\ y * w + x \in Nat /\ u * w + v \in Nat
         /\ (u * w + v < y * w + x) <=> (u < y \/ (u = y /\ v < x))
         /\ (u * w + v = y * w + x) <=> (u = y /\ v = x)
<1>1. u < y => u * w + w <= y * w
  BY NextRow
<1>2. y < u => y * w + w <= u * w
  BY NextRow
<1>3. y * w \in Nat /\ u * w \in Nat
  BY Monotone
<1> QED
  BY <1>1, <1>2, <1>3

(* Row and column of a position, and the position of a row and a column.   *)
LEMMA RowAndColumn ==
  ASSUME NEW w \in Nat \ {0}, NEW x \in 0..(w - 1), NEW y \in Nat
  PROVE  (y * w + x) \div w = y /\ (y * w + x) % w = x
<1>1. PICK n \in Nat : n = y * w + x
  BY Order
<1>2. PICK q \in Nat, r \in 0..(w - 1) : q = n \div w /\ r = n % w /\ n = q * w + r
  BY <1>1, DivMod
<1>3. q = y /\ r = x
  BY <1>1, <1>2, Order
<1> QED
  BY <1>1, <1>2, <1>3

(* The position of a pixel in an image that is w wide.                     *)
At(w, x, y) == y * w + x

LEMMA Position ==
  ASSUME NEW w \in Nat \ {0}, NEW h \in Nat, NEW x \in 0..(w - 1), NEW y \in 0..(h - 1)
  PROVE  At(w, x, y) \in Nat /\ At(w, x, y) \in 0..(YSize(w, h) - 1)
<1>1. y * w + w <= h * w
  BY NextRow
<1>2. y * w \in Nat
  BY Monotone
<1>3. h * w = w * h
  OBVIOUS
<1> QED
  BY <1>1, <1>2, <1>3 DEF At, YSize

LEMMA Area ==
  ASSUME NEW w \in Nat, NEW h \in Nat
  PROVE  YSize(w, h) \in Nat
BY DEF YSize

LEMMA Pixel ==
  ASSUME NEW w \in Nat \ {0}, NEW h \in Nat, NEW k \in 0..(YSize(w, h) - 1)
  PROVE  /\ k \in Nat /\ k % w \in 0..(w - 1) /\ k \div w \in 0..(h - 1)
         /\ k = At(w, k % w, k \div w)
<1>1. k \in Nat /\ k < w * h
  BY Area DEF YSize
<1>2. PICK q \in Nat, r \in 0..(w - 1) : q = k \div w /\ r = k % w /\ k = q * w + r
  BY <1>1, DivMod
<1>3. q < h
  <2>1. q >= h => h * w <= q * w
    BY Monotone
  <2> QED
    BY <2>1, <1>1, <1>2
<1> QED
  BY <1>1, <1>2, <1>3 DEF At

(* Two pixels at one position are one, and they are ordered row by row.    *)
LEMMA SamePlace ==
  ASSUME NEW w \in Nat \ {0}, NEW x \in 0..(w - 1), NEW y \in Nat,
         NEW v \in 0..(w - 1), NEW u \in Nat
  PROVE  (At(w, v, u) = At(w, x, y)) <=> (u = y /\ v = x)
BY Order DEF At

LEMMA PlaceOrder ==
  ASSUME NEW w \in Nat \ {0}, NEW x \in 0..(w - 1), NEW y \in Nat,
         NEW v \in 0..(w - 1), NEW u \in Nat
  PROVE  (At(w, v, u) < At(w, x, y)) <=> (u < y \/ (u = y /\ v < x))
BY Order DEF At

LEMMA PlaceOf ==
  ASSUME NEW w \in Nat \ {0}, NEW x \in 0..(w - 1), NEW y \in Nat
  PROVE  At(w, x, y) \in Nat /\ At(w, x, y) \div w = y /\ At(w, x, y) % w = x
BY Order, RowAndColumn DEF At

(* A row or column of pixels lies in one of blocks.                        *)
LEMMA Blocks ==
  ASSUME NEW n \in Nat \ {0}, NEW x \in 0..(n - 1)
  PROVE  /\ (n + 1) \div 2 \in Nat \ {0} /\ x \div 2 \in 0..((n + 1) \div 2 - 1)
         /\ n <= 2 * ((n + 1) \div 2) /\ 2 * ((n + 1) \div 2) <= n + 1
         /\ n % 2 = 0 => 2 * ((n + 1) \div 2) = n /\ (n + 1) \div 2 = n \div 2
OBVIOUS

-----------------------------------------------------------------------------
(* The arithmetic of single pixels.                                        *)

LEMMA MinOfTwo ==
  ASSUME NEW a \in Int, NEW b \in Int
  PROVE  Min({a, b}) = IF a <= b THEN a ELSE b
BY DEF Min

LEMMA MaxOfTwo ==
  ASSUME NEW a \in Int, NEW b \in Int
  PROVE  Max({a, b}) = IF a >= b THEN a ELSE b
BY DEF Max

LEMMA Clipped ==
  ASSUME NEW m \in Nat, NEW v \in Int
  PROVE  Min({m, Max({0, v})}) = IF v < 0 THEN 0 ELSE IF v > m THEN m ELSE v
<1>1. Max({0, v}) = IF 0 >= v THEN 0 ELSE v
  BY MaxOfTwo
<1>2. Max({0, v}) \in Int
  BY <1>1
<1>3. Min({m, Max({0, v})}) = IF m <= Max({0, v}) THEN m ELSE Max({0, v})
  BY <1>2, MinOfTwo
<1> QED
  BY <1>1, <1>3

LEMMA ClampRange ==
  /\ kMaxChannelValue \in Nat
  /\ \A v \in Int : /\ Clamp(v) \in 0..kMaxChannelValue
                    /\ Clamp(v) = IF v < 0 THEN 0
                                  ELSE IF v > kMaxChannelValue THEN kMaxChannelValue ELSE v
<1>1. kMaxChannelValue \in Nat
  BY SMT DEF kMaxChannelValue
<1>2. \A v \in Int : Clamp(v) = IF v < 0 THEN 0
                                ELSE IF v > kMaxChannelValue THEN kMaxChannelValue ELSE v
  BY <1>1, Clipped DEF Clamp
<1> QED
  BY <1>1, <1>2

RGB == Byte \X Byte \X Byte

LEMMA UnpackRange ==
  ASSUME NEW f, NEW c,
         \/ f = "8888" /\ c \in RGB
         \/ f = "565" /\ c \in (0..31) \X (0..63) \X (0..31)
  PROVE  Unpack(f, c) \in RGB
<1>1. CASE f = "8888"
  BY <1>1 DEF Unpack
<1>2. CASE f # "8888"
  <2>1. c[1] \in 0..31 /\ c[2] \in 0..63 /\ c[3] \in 0..31
    BY <1>2
  <2>2. \A v \in 0..31 : Stretch5(v) \in Byte
    BY DEF Stretch5, Byte
  <2>3. \A v \in 0..63 : Stretch6(v) \in Byte
    BY DEF Stretch6, Byte
  <2> QED
    BY <1>2, <2>1, <2>2, <2>3 DEF Unpack, RGB
<1> QED
  BY <1>1, <1>2

(* Luma fits a byte; a share of chroma leaves room for four of them.       *)
LEMMA ShareRange ==
  ASSUME NEW c \in RGB
  PROVE  Luma(c) \in Byte /\ ShareV(c) \in 0..63 /\ ShareU(c) \in 0..63
<1>1. PICK r \in 0..255, g \in 0..255, b \in 0..255 : r = c[1] /\ g = c[2] /\ b = c[3]
  BY DEF RGB, Byte
<1>2. Luma(c) \in 0..255
  <2>1. Luma(c) = (66 * r + 129 * g + 25 * b + 128) \div 256 + 16
    BY <1>1 DEF Luma
  <2> QED
    BY <2>1
<1>3. ShareV(c) \in 0..63
  <2>1. ShareV(c) = (112 * r - 94 * g - 18 * b + 128) \div 1024 + 32
    BY <1>1 DEF ShareV
  <2> QED
    BY <2>1
<1>4. ShareU(c) \in 0..63
  <2>1. ShareU(c) = (-38 * r - 74 * g + 112 * b + 128) \div 1024 + 32
    BY <1>1 DEF ShareU
  <2> QED
    BY <2>1
<1> QED
  BY <1>2, <1>3, <1>4 DEF Byte

LEMMA ChannelRange ==
  ASSUME NEW nY \in Int, NEW nU \in Int, NEW nV \in Int
  PROVE  /\ \A k \in 1..3 : Channels(nY, nU, nV)[k] \in 0..kMaxChannelValue
         /\ Pack8888(Channels(nY, nU, nV)) \in RGB
         /\ Pack565(Channels(nY, nU, nV)) \in RGB
<1>1. PICK y \in Int, z \in Int : y = nY - 16 /\ z = Max({y, 0})
  <2>1. PICK y \in Int : y = nY - 16
    OBVIOUS
  <2>2. Max({y, 0}) \in Int
    BY MaxOfTwo
  <2> QED
    BY <2>1, <2>2
<1>2. kMaxChannelValue \in Nat /\ \A v \in Int : Clamp(v) \in 0..kMaxChannelValue
  BY ClampRange
<1>3. Channels(nY, nU, nV) =
        <<Clamp(1192 * z + 1634 * (nV - 128)),
          Clamp(1192 * z - 833 * (nV - 128) - 400 * (nU - 128)),
          Clamp(1192 * z + 2066 * (nU - 128))>>
  BY <1>1 DEF Channels
<1>4. PICK r \in 0..kMaxChannelValue, g \in 0..kMaxChannelValue, b \in 0..kMaxChannelValue :
        Channels(nY, nU, nV) = <<r, g, b>>
  BY <1>2, <1>3
<1>5. ASSUME NEW v \in Nat
      PROVE  /\ (v \div 1024) % 256 \in 0..255
             /\ (v \div 8192) % 32 \in 0..255
             /\ (v \div 4096) % 64 \in 0..255
  <2>1. v \div 1024 \in Nat /\ v \div 8192 \in Nat /\ v \div 4096 \in Nat
    BY DivMod
  <2>2. ASSUME NEW k \in Nat
        PROVE  k % 256 \in 0..255 /\ k % 32 \in 0..31 /\ k % 64 \in 0..63
    OBVIOUS
  <2> QED
    BY <2>1, <2>2
<1>6. Pack8888(<<r, g, b>>) \in RGB /\ Pack565(<<r, g, b>>) \in RGB
  <2>1. r \in Nat /\ g \in Nat /\ b \in Nat
    BY <1>2
  <2>2. \A i, j, k \in 0..255 : <<i, j, k>> \in RGB
    BY DEF RGB, Byte
  <2>3. Pack8888(<<r, g, b>>) \in RGB
    <3>1. PICK i \in 0..255 : i = (r \div 1024) % 256
      BY <2>1, <1>5
    <3>2. PICK j \in 0..255 : j = (g \div 1024) % 256
      BY <2>1, <1>5
    <3>3. PICK k \in 0..255 : k = (b \div 1024) % 256
      BY <2>1, <1>5
    <3>4. Pack8888(<<r, g, b>>) = <<i, j, k>>
      BY <3>1, <3>2, <3>3 DEF Pack8888
    <3> QED
      BY <3>4, <2>2
  <2>4. Pack565(<<r, g, b>>) \in RGB
    <3>1. PICK i \in 0..255 : i = (r \div 8192) % 32
      BY <2>1, <1>5
    <3>2. PICK j \in 0..255 : j = (g \div 4096) % 64
      BY <2>1, <1>5
    <3>3. PICK k \in 0..255 : k = (b \div 8192) % 32
      BY <2>1, <1>5
    <3>4. Pack565(<<r, g, b>>) = <<i, j, k>>
      BY <3>1, <3>2, <3>3 DEF Pack565
    <3> QED
      BY <3>4, <2>2
  <2> QED
    BY <2>3, <2>4
<1>7. \A k \in 1..3 : <<r, g, b>>[k] \in 0..kMaxChannelValue
  OBVIOUS
<1> QED
  BY <1>4, <1>6, <1>7

LEMMA Rounded ==
  ASSUME NEW e \in Int, NEW g, g = (e + 128) \div 1024 + 32
  PROVE  \E d \in Int : g = d + 32 /\ 1024 * d <= e + 128 /\ e + 128 < 1024 * d + 1024
OBVIOUS

-----------------------------------------------------------------------------
(* Sums over the pixels of a block that come before pixel n.               *)

Piece(w, h, f, n, x, y) == IF x < w /\ y < h /\ At(w, x, y) < n THEN f[At(w, x, y)] ELSE 0
Partial(w, h, f, n, a, b) ==
  Piece(w, h, f, n, 2 * a, 2 * b)     + Piece(w, h, f, n, 2 * a + 1, 2 * b) +
  Piece(w, h, f, n, 2 * a, 2 * b + 1) + Piece(w, h, f, n, 2 * a + 1, 2 * b + 1)

Shares(w, h) == [0..(YSize(w, h) - 1) -> 0..63]

LEMMA PieceRange ==
  ASSUME NEW w \in Nat \ {0}, NEW h \in Nat \ {0}, NEW f \in Shares(w, h),
         NEW n \in Nat, NEW x \in Nat, NEW y \in Nat
  PROVE  Piece(w, h, f, n, x, y) \in 0..63
<1>1. x < w /\ y < h => At(w, x, y) \in 0..(YSize(w, h) - 1)
  BY Position
<1> QED
  BY <1>1 DEF Piece, Shares

LEMMA PartialRange ==
  ASSUME NEW w \in Nat \ {0}, NEW h \in Nat \ {0}, NEW f \in Shares(w, h),
         NEW n \in Nat, NEW a \in Nat, NEW b \in Nat
  PROVE  Partial(w, h, f, n, a, b) \in 0..252
<1>1. /\ 2 * a \in Nat /\ 2 * b \in Nat /\ 2 * a + 1 \in Nat /\ 2 * b + 1 \in Nat
  OBVIOUS
<1>2. /\ Piece(w, h, f, n, 2 * a, 2 * b) \in 0..63
      /\ Piece(w, h, f, n, 2 * a + 1, 2 * b) \in 0..63
      /\ Piece(w, h, f, n, 2 * a, 2 * b + 1) \in 0..63
      /\ Piece(w, h, f, n, 2 * a + 1, 2 * b + 1) \in 0..63
  BY <1>1, PieceRange
<1>3. \A i, j, k, l \in 0..63 : i + j + k + l \in 0..252
  OBVIOUS
<1> QED
  BY <1>2, <1>3, Zenon DEF Partial

(* One more pixel changes the sum of its own block, by its own share.      *)
LEMMA PieceStep ==
  ASSUME NEW w \in Nat \ {0}, NEW h \in Nat \ {0}, NEW f \in Shares(w, h),
         NEW u \in 0..(w - 1), NEW v \in 0..(h - 1), NEW x \in Nat, NEW y \in Nat
  PROVE  LET k == At(w, u, v) IN
         Piece(w, h, f, k + 1, x, y) =
           Piece(w, h, f, k, x, y) + IF x = u /\ y = v THEN f[k] ELSE 0
<1>1. PICK k \in Nat : k = At(w, u, v) /\ k \in 0..(YSize(w, h) - 1)
  <2>1. At(w, u, v) \in Nat /\ At(w, u, v) \in 0..(YSize(w, h) - 1)
    BY Position
  <2> QED
    BY <2>1, Zenon
<1>2. f[k] \in 0..63
  BY <1>1 DEF Shares
<1>3. CASE x < w /\ y < h
  <2>1. PICK m \in Nat : m = At(w, x, y) /\ m \in 0..(YSize(w, h) - 1)
    <3>1. x \in 0..(w - 1) /\ y \in 0..(h - 1)
      BY <1>3
    <3>2. At(w, x, y) \in Nat /\ At(w, x, y) \in 0..(YSize(w, h) - 1)
      BY <3>1, Position
    <3> QED
      BY <3>2, Zenon
  <2>2. (k = m) <=> (v = y /\ u = x)
    <3>1. x \in 0..(w - 1) /\ y \in Nat /\ v \in Nat
      BY <1>3
    <3>2. (At(w, u, v) = At(w, x, y)) <=> (v = y /\ u = x)
      BY <3>1, SamePlace
    <3> QED
      BY <1>1, <2>1, <3>2
  <2>3. f[m] \in 0..63
    BY <2>1 DEF Shares
  <2>4. /\ Piece(w, h, f, k + 1, x, y) = IF m < k + 1 THEN f[m] ELSE 0
        /\ Piece(w, h, f, k, x, y) = IF m < k THEN f[m] ELSE 0
    BY <1>3, <2>1 DEF Piece
  <2> QED
    BY <1>1, <2>2, <2>3, <2>4
<1>4. CASE ~(x < w /\ y < h)
  BY <1>1, <1>2, <1>4 DEF Piece
<1> QED
  BY <1>3, <1>4

LEMMA PartialStep ==
  ASSUME NEW w \in Nat \ {0}, NEW h \in Nat \ {0}, NEW f \in Shares(w, h),
         NEW x \in 0..(w - 1), NEW y \in 0..(h - 1), NEW a \in Nat, NEW b \in Nat
  PROVE  LET k == At(w, x, y) IN
         Partial(w, h, f, k + 1, a, b) = Partial(w, h, f, k, a, b) +
           IF a = x \div 2 /\ b = y \div 2 THEN f[k] ELSE 0
<1>1. PICK k \in Nat : k = At(w, x, y) /\ k \in 0..(YSize(w, h) - 1)
  <2>1. At(w, x, y) \in Nat /\ At(w, x, y) \in 0..(YSize(w, h) - 1)
    BY Position
  <2> QED
    BY <2>1, Zenon
<1>2. PICK t \in 0..63 : t = f[k]
  BY <1>1 DEF Shares
<1>3. /\ 2 * a \in Nat /\ 2 * b \in Nat /\ 2 * a + 1 \in Nat /\ 2 * b + 1 \in Nat
      /\ x \in Nat /\ y \in Nat
  OBVIOUS
<1>4. PICK i \in 0..63, j \in 0..63, l \in 0..63, m \in 0..63 :
        /\ i = Piece(w, h, f, k, 2 * a, 2 * b) /\ j = Piece(w, h, f, k, 2 * a + 1, 2 * b)
        /\ l = Piece(w, h, f, k, 2 * a, 2 * b + 1) /\ m = Piece(w, h, f, k, 2 * a + 1, 2 * b + 1)
  <2>1. /\ Piece(w, h, f, k, 2 * a, 2 * b) \in 0..63
        /\ Piece(w, h, f, k, 2 * a + 1, 2 * b) \in 0..63
        /\ Piece(w, h, f, k, 2 * a, 2 * b + 1) \in 0..63
        /\ Piece(w, h, f, k, 2 * a + 1, 2 * b + 1) \in 0..63
    BY <1>3, PieceRange
  <2> QED
    BY <2>1, Zenon
<1>5. /\ Piece(w, h, f, k + 1, 2 * a, 2 * b) = i + IF 2 * a = x /\ 2 * b = y THEN t ELSE 0
      /\ Piece(w, h, f, k + 1, 2 * a + 1, 2 * b) = j + IF 2 * a + 1 = x /\ 2 * b = y THEN t ELSE 0
      /\ Piece(w, h, f, k + 1, 2 * a, 2 * b + 1) = l + IF 2 * a = x /\ 2 * b + 1 = y THEN t ELSE 0
      /\ Piece(w, h, f, k + 1, 2 * a + 1, 2 * b + 1)
           = m + IF 2 * a + 1 = x /\ 2 * b + 1 = y THEN t ELSE 0
  BY <1>1, <1>2, <1>3, <1>4, PieceStep
<1>6. /\ Partial(w, h, f, k, a, b) = i + j + l + m
      /\ Partial(w, h, f, k + 1, a, b) =
           (i + IF 2 * a = x /\ 2 * b = y THEN t ELSE 0)
           + (j + IF 2 * a + 1 = x /\ 2 * b = y THEN t ELSE 0)
           + (l + IF 2 * a = x /\ 2 * b + 1 = y THEN t ELSE 0)
           + (m + IF 2 * a + 1 = x /\ 2 * b + 1 = y THEN t ELSE 0)
  BY <1>4, <1>5, Zenon DEF Partial
<1>7. (i + IF 2 * a = x /\ 2 * b = y THEN t ELSE 0)
        + (j + IF 2 * a + 1 = x /\ 2 * b = y THEN t ELSE 0)
        + (l + IF 2 * a = x /\ 2 * b + 1 = y THEN t ELSE 0)
        + (m + IF 2 * a + 1 = x /\ 2 * b + 1 = y THEN t ELSE 0)
      = (i + j + l + m) + IF a = x \div 2 /\ b = y \div 2 THEN t ELSE 0
  <2>1. PICK c \in Nat, d \in Nat : c = x \div 2 /\ d = y \div 2
    BY <1>3, Halves
  <2>2. /\ x = 2 * c \/ x = 2 * c + 1
        /\ y = 2 * d \/ y = 2 * d + 1
    BY <1>3, <2>1, Halves
  <2> QED
    BY <2>1, <2>2
<1> QED
  BY <1>1, <1>2, <1>6, <1>7, Zenon

-----------------------------------------------------------------------------
(* Where the bytes of a block are.                                         *)

LEMMA BlockStarts ==
  ASSUME NEW w \in Nat \ {0}, NEW h \in Nat \ {0}, NEW f,
         NEW x \in 0..(w - 1), NEW y \in 0..(h - 1), FirstOfBlock(x, y)
  PROVE  Partial(w, h, f, At(w, x, y), x \div 2, y \div 2) = 0
<1>1. x = 2 * (x \div 2) /\ y = 2 * (y \div 2) /\ x \in Nat /\ y \in Nat
  BY DEF FirstOfBlock
<1>2. ASSUME NEW u \in {x, x + 1}, NEW v \in {y, y + 1}
      PROVE  Piece(w, h, f, At(w, x, y), u, v) = 0
  <2>1. CASE u < w /\ v < h
    <3>1. u \in 0..(w - 1) /\ v \in Nat /\ y \in Nat
      BY <2>1
    <3>2. (At(w, u, v) < At(w, x, y)) <=> (v < y \/ (v = y /\ u < x))
      BY <3>1, PlaceOrder
    <3>3. ~(v < y \/ (v = y /\ u < x))
      OBVIOUS
    <3> QED
      BY <3>2, <3>3 DEF Piece
  <2>2. CASE ~(u < w /\ v < h)
    BY <2>2 DEF Piece
  <2> QED
    BY <2>1, <2>2
<1>3. /\ Piece(w, h, f, At(w, x, y), x, y) = 0
      /\ Piece(w, h, f, At(w, x, y), x + 1, y) = 0
      /\ Piece(w, h, f, At(w, x, y), x, y + 1) = 0
      /\ Piece(w, h, f, At(w, x, y), x + 1, y + 1) = 0
  BY <1>2
<1> QED
  BY <1>1, <1>3 DEF Partial

(* A block is begun by its first pixel, and only by it.                    *)
LEMMA BlockBegins ==
  ASSUME NEW w \in Nat \ {0}, NEW x \in 0..(w - 1), NEW y \in Nat,
         NEW a \in 0..((w + 1) \div 2 - 1), NEW b \in Nat
  PROVE  /\ At(w, 2 * a, 2 * b) < At(w, x, y) + 1
           => At(w, 2 * a, 2 * b) < At(w, x, y) \/ (a = x \div 2 /\ b = y \div 2)
         /\ a = x \div 2 /\ b = y \div 2 /\ ~FirstOfBlock(x, y)
           => At(w, 2 * a, 2 * b) < At(w, x, y)
<1>1. 2 * a \in 0..(w - 1) /\ 2 * b \in Nat
  OBVIOUS
<1>2. /\ (At(w, 2 * a, 2 * b) < At(w, x, y)) <=> (2 * b < y \/ (2 * b = y /\ 2 * a < x))
      /\ (At(w, 2 * a, 2 * b) = At(w, x, y)) <=> (2 * b = y /\ 2 * a = x)
      /\ At(w, 2 * a, 2 * b) \in Nat /\ At(w, x, y) \in Nat
  <2>1. (At(w, 2 * a, 2 * b) < At(w, x, y)) <=> (2 * b < y \/ (2 * b = y /\ 2 * a < x))
    BY <1>1, PlaceOrder
  <2>2. (At(w, 2 * a, 2 * b) = At(w, x, y)) <=> (2 * b = y /\ 2 * a = x)
    BY <1>1, SamePlace
  <2>3. At(w, 2 * a, 2 * b) \in Nat /\ At(w, x, y) \in Nat
    BY <1>1, PlaceOf
  <2> QED
    BY <2>1, <2>2, <2>3, Zenon
<1>3. At(w, 2 * a, 2 * b) < At(w, x, y) + 1
        => At(w, 2 * a, 2 * b) < At(w, x, y) \/ (2 * b = y /\ 2 * a = x)
  BY <1>2
<1>4. 2 * b = y /\ 2 * a = x => a = x \div 2 /\ b = y \div 2
  OBVIOUS
<1>5. a = x \div 2 /\ b = y \div 2 /\ ~FirstOfBlock(x, y)
        => 2 * b < y \/ (2 * b = y /\ 2 * a < x)
  <2>1. x \in Nat
    OBVIOUS
  <2> QED
    BY <2>1, Halves DEF FirstOfBlock
<1> QED
  BY <1>2, <1>3, <1>4, <1>5

LEMMA UVBytesOf ==
  ASSUME NEW w \in Nat \ {0}, NEW h \in Nat \ {0}
  PROVE  /\ (w + 1) \div 2 \in Nat \ {0} /\ (h + 1) \div 2 \in Nat \ {0}
         /\ YSize(w, h) \in Nat /\ YSize((w + 1) \div 2, (h + 1) \div 2) \in Nat
         /\ UVSize(w, h) = 2 * YSize((w + 1) \div 2, (h + 1) \div 2)
         /\ \A x \in 0..(w - 1), y \in 0..(h - 1) :
              UVOffset(w, x, y) = 2 * At((w + 1) \div 2, x \div 2, y \div 2)
<1>1. PICK c \in Nat \ {0}, d \in Nat \ {0} : c = (w + 1) \div 2 /\ d = (h + 1) \div 2
  OBVIOUS
<1>2. YSize(w, h) \in Nat /\ YSize(c, d) \in Nat
  BY Area
<1>3. UVSize(w, h) = 2 * YSize(c, d)
  BY <1>1 DEF UVSize, YSize
<1>4. \A x \in 0..(w - 1), y \in 0..(h - 1) :
        UVOffset(w, x, y) = 2 * At(c, x \div 2, y \div 2)
  BY <1>1 DEF UVOffset, At
<1> QED
  BY <1>1, <1>2, <1>3, <1>4

-----------------------------------------------------------------------------
(* The inductive invariant.                                                *)

Busy    == stage \in {"encode", "encoded", "decode", "decoded", "crashed"}
Reading == stage \in {"decode", "decoded", "crashed"}

StateInv ==
  /\ stage \in {"idle", "encode", "encoded", "decode", "decoded", "crashed", "sample"}
  /\ width \in Nat \ {0} /\ height \in Nat \ {0}
  /\ p \in Nat /\ p <= ySize
  /\ layout \in [kind : {"SP", "565", "half", "planes", "halfPlanes"}, pixel : {1, 2}, pad : Nat]
  /\ ~Reading => layout = SemiPlanar /\ out = <<>>
  /\ ~Busy => size = <<1, 1>> /\ yuv = <<>> /\ touched = <<{}, {}>>
  /\ out \in Seq(RGB) /\ (Reading => Len(out) = p)
  /\ sample \in RGB

(* The image and the buffer it is written to.                              *)
BufferInv ==
  Busy => /\ \A m \in Pixels : Colour(m) \in RGB
          /\ yuv \in [0..(YUVByteSize(width, height) - 1) -> Byte]

(* The bytes of the pixels that were written hold their luma, and those of *)
(* a block that was begun the sum of the shares of its pixels so far.      *)
Written == IF stage = "encode" THEN p ELSE ySize
UVAt(a, b) == ySize + 2 * At(Columns, a, b)
LumaInv ==
  Busy => \A m \in Pixels : m < Written => yuv[m] = Luma(Colour(m))
ChromaInv ==
  Busy => \A a \in 0..(Columns - 1), b \in 0..(Rows - 1) :
    At(width, 2 * a, 2 * b) < Written =>
      /\ yuv[UVAt(a, b)] = Partial(width, height, SharesV, Written, a, b)
      /\ yuv[UVAt(a, b) + 1] = Partial(width, height, SharesU, Written, a, b)

ColourInv ==
  /\ StateInv
  /\ BufferInv
  /\ LumaInv
  /\ ChromaInv
  /\ InBoundsUnlessHalfPlanes
  /\ DecodedFromOwnBlock

-----------------------------------------------------------------------------
(* What the image is while it is worked on.                                *)

LEMMA SharesOf ==
  ASSUME StateInv, BufferInv, Busy
  PROVE  /\ SharesV \in Shares(width, height) /\ SharesU \in Shares(width, height)
         /\ \A m \in Pixels : /\ SharesV[m] = ShareV(Colour(m))
                              /\ SharesU[m] = ShareU(Colour(m))
                              /\ ShareV(Colour(m)) \in 0..63 /\ ShareU(Colour(m)) \in 0..63
                              /\ Luma(Colour(m)) \in Byte
<1>1. \A m \in Pixels : /\ ShareV(Colour(m)) \in 0..63 /\ ShareU(Colour(m)) \in 0..63
                        /\ Luma(Colour(m)) \in Byte
  BY ShareRange DEF BufferInv
<1>2. Pixels = 0..(YSize(width, height) - 1)
  BY DEF Pixels, ySize
<1> QED
  BY <1>1, <1>2, Zenon DEF SharesV, SharesU, Shares

(* The pixel in turn, its block and the bytes of both.                     *)
LEMMA InTurn ==
  ASSUME StateInv, NEW k \in Pixels
  PROVE  /\ k \in Nat /\ k < ySize /\ ySize \in Nat
         /\ X(k) \in 0..(width - 1) /\ Y(k) \in 0..(height - 1)
         /\ k = At(width, X(k), Y(k))
         /\ X(k) \div 2 \in 0..(Columns - 1) /\ Y(k) \div 2 \in 0..(Rows - 1)
         /\ UVAt(X(k) \div 2, Y(k) \div 2) = ySize + UVOffset(width, X(k), Y(k))
<1>1. PICK w \in Nat \ {0}, h \in Nat \ {0} : w = width /\ h = height
  BY DEF StateInv
<1>2. k \in 0..(YSize(w, h) - 1)
  BY <1>1 DEF Pixels, ySize
<1>3. k \in Nat /\ k % w \in 0..(w - 1) /\ k \div w \in 0..(h - 1) /\ k = At(w, k % w, k \div w)
  BY <1>2, Pixel
<1>4. YSize(w, h) \in Nat
  BY Area
<1>5. k < YSize(w, h)
  BY <1>2, <1>3, <1>4
<1>6. /\ (k % w) \div 2 \in 0..((w + 1) \div 2 - 1)
      /\ (k \div w) \div 2 \in 0..((h + 1) \div 2 - 1)
  BY <1>3, Blocks
<1>7. UVOffset(w, k % w, k \div w) = 2 * At((w + 1) \div 2, (k % w) \div 2, (k \div w) \div 2)
  BY <1>3, UVBytesOf
<1> QED
  BY <1>1, <1>3, <1>4, <1>5, <1>6, <1>7, Zenon DEF X, Y, Columns, Rows, UVAt, ySize

(* The bytes of a block are in the UV part, and of two blocks they differ. *)
LEMMA UVAtRange ==
  ASSUME StateInv, NEW a \in 0..(Columns - 1), NEW b \in 0..(Rows - 1)
  PROVE  /\ At(Columns, a, b) \in Nat /\ UVAt(a, b) \in Nat /\ ySize \in Nat
         /\ UVSize(width, height) \in Nat /\ YUVByteSize(width, height) = ySize + UVSize(width, height)
         /\ ySize <= UVAt(a, b) /\ UVAt(a, b) + 1 < YUVByteSize(width, height)
<1>1. PICK w \in Nat \ {0}, h \in Nat \ {0} : w = width /\ h = height
  BY DEF StateInv
<1>2. PICK c \in Nat \ {0}, d \in Nat \ {0} : c = (w + 1) \div 2 /\ d = (h + 1) \div 2
  BY UVBytesOf
<1>3. PICK n \in Nat, m \in Nat : n = YSize(w, h) /\ m = YSize(c, d) /\ UVSize(w, h) = 2 * m
  <2>1. YSize(w, h) \in Nat /\ YSize(c, d) \in Nat
    BY Area
  <2>2. UVSize(w, h) = 2 * YSize(c, d)
    BY <1>2, UVBytesOf
  <2> QED
    BY <2>1, <2>2, Zenon
<1>4. a \in 0..(c - 1) /\ b \in 0..(d - 1) /\ Columns = c
  BY <1>1, <1>2 DEF Columns, Rows
<1>5. At(c, a, b) \in Nat /\ At(c, a, b) \in 0..(m - 1)
  BY <1>3, <1>4, Position
<1> QED
  BY <1>1, <1>3, <1>4, <1>5 DEF UVAt, ySize, YUVByteSize

LEMMA UVAtDiffer ==
  ASSUME StateInv, NEW a \in 0..(Columns - 1), NEW b \in 0..(Rows - 1),
         NEW c \in 0..(Columns - 1), NEW d \in 0..(Rows - 1), ~(a = c /\ b = d)
  PROVE  UVAt(a, b) # UVAt(c, d) /\ UVAt(a, b) # UVAt(c, d) + 1 /\ UVAt(a, b) + 1 # UVAt(c, d)
<1>1. Columns \in Nat \ {0} /\ Rows \in Nat
  BY DEF StateInv, Columns, Rows
<1>2. b \in Nat /\ d \in Nat
  BY <1>1
<1>3. At(Columns, a, b) # At(Columns, c, d)
  BY <1>1, <1>2, SamePlace
<1> QED
  BY <1>3, UVAtRange DEF UVAt

-----------------------------------------------------------------------------
(* One round of the loop of the writer.                                    *)

LEMMA ByteMod ==
  /\ \A y \in Byte : y % 256 = y
  /\ \A y \in Byte, s \in 0..63 : (y + s) % 256 \in Byte
BY DEF Byte

LEMMA Overwritten ==
  ASSUME NEW D, NEW S, NEW g \in [D -> S], NEW i \in D, NEW j \in D, NEW l \in D,
         i # j, i # l, j # l, NEW y \in S, NEW s \in S, NEW t \in S,
         NEW n, n = [g EXCEPT ![i] = y, ![j] = s, ![l] = t]
  PROVE  /\ n \in [D -> S] /\ n[i] = y /\ n[j] = s /\ n[l] = t
         /\ \A k \in D : k # i /\ k # j /\ k # l => n[k] = g[k]
OBVIOUS

LEMMA WriteEffect ==
  ASSUME StateInv, BufferInv, WriteYUV
  PROVE  LET o == UVAt(X(p) \div 2, Y(p) \div 2)
             first == FirstOfBlock(X(p), Y(p))
         IN  /\ yuv' \in [0..(YUVByteSize(width, height) - 1) -> Byte]
             /\ yuv'[p] = Luma(Colour(p))
             /\ yuv'[o] = ((IF first THEN 0 ELSE yuv[o]) + ShareV(Colour(p))) % 256
             /\ yuv'[o + 1] = ((IF first THEN 0 ELSE yuv[o + 1]) + ShareU(Colour(p))) % 256
             /\ \A k \in 0..(YUVByteSize(width, height) - 1) :
                  k # p /\ k # o /\ k # o + 1 => yuv'[k] = yuv[k]
<1>1. p \in Pixels /\ Busy
  BY DEF WriteYUV, Busy
<1>2. /\ p \in Nat /\ p < ySize /\ ySize \in Nat
      /\ X(p) \div 2 \in 0..(Columns - 1) /\ Y(p) \div 2 \in 0..(Rows - 1)
      /\ UVAt(X(p) \div 2, Y(p) \div 2) = ySize + UVOffset(width, X(p), Y(p))
  BY <1>1, InTurn
<1>3. PICK o \in Nat : o = UVAt(X(p) \div 2, Y(p) \div 2) /\ ySize <= o
                       /\ o + 1 < YUVByteSize(width, height)
                       /\ YUVByteSize(width, height) \in Nat
  BY <1>2, UVAtRange
<1>4. /\ p \in 0..(YUVByteSize(width, height) - 1) /\ o \in 0..(YUVByteSize(width, height) - 1)
      /\ o + 1 \in 0..(YUVByteSize(width, height) - 1)
      /\ p # o /\ p # o + 1 /\ o # o + 1
  BY <1>2, <1>3
<1>5. /\ ShareV(Colour(p)) \in 0..63 /\ ShareU(Colour(p)) \in 0..63 /\ Luma(Colour(p)) \in Byte
  BY <1>1, SharesOf
<1>6. yuv \in [0..(YUVByteSize(width, height) - 1) -> Byte]
  BY <1>1 DEF BufferInv
<1>7. PICK D : D = 0..(YUVByteSize(width, height) - 1)
  OBVIOUS
<1>8. PICK first \in BOOLEAN : first = FirstOfBlock(X(p), Y(p))
  BY DEF FirstOfBlock
<1>9. PICK e \in Nat : e = o + 1
  OBVIOUS
<1>10. PICK s \in 0..63, t \in 0..63, y \in Byte :
         s = ShareV(Colour(p)) /\ t = ShareU(Colour(p)) /\ y = Luma(Colour(p))
  BY <1>5, Zenon
<1>11. /\ D = 0..(YUVByteSize(width, height) - 1) /\ e = o + 1 /\ first = FirstOfBlock(X(p), Y(p))
      /\ s = ShareV(Colour(p)) /\ t = ShareU(Colour(p)) /\ y = Luma(Colour(p))
  BY <1>7, <1>8, <1>9, <1>10, Zenon
<1>12. PICK g0 : g0 = IF first THEN [yuv EXCEPT ![o] = 0, ![e] = 0] ELSE yuv
  OBVIOUS
<1>13. /\ yuv \in [D -> Byte] /\ p \in D /\ o \in D /\ e \in D
      /\ p # o /\ p # e /\ o # e
  BY <1>4, <1>6, <1>11, Zenon
<1>14. /\ g0 \in [D -> Byte]
       /\ g0[o] = IF first THEN 0 ELSE yuv[o]
       /\ g0[e] = IF first THEN 0 ELSE yuv[e]
       /\ \A k \in D : k # o /\ k # e => g0[k] = yuv[k]
  <2>1. 0 \in Byte
    BY DEF Byte
  <2>2. CASE first
    <3>1. g0 = [yuv EXCEPT ![o] = 0, ![e] = 0]
      BY <1>12, <2>2
    <3> QED
      BY <1>13, <2>1, <2>2, <3>1
  <2>3. CASE ~first
    BY <1>12, <1>13, <2>3
  <2> QED
    BY <2>2, <2>3
<1>15. PICK i \in Byte, j \in Byte : i = (g0[o] + s) % 256 /\ j = (g0[e] + t) % 256
  <2>1. g0[o] \in Byte /\ g0[e] \in Byte
    BY <1>13, <1>14
  <2> QED
    BY <2>1, ByteMod
<1>16. yuv' = [g0 EXCEPT ![p] = y, ![o] = i, ![e] = j]
  <2>1. o = ySize + UVOffset(width, X(p), Y(p))
    BY <1>2, <1>3
  <2>2. yuv' = [g0 EXCEPT ![p] = y % 256, ![o] = (g0[o] + s) % 256, ![e] = (g0[e] + t) % 256]
    BY <2>1, <1>11, <1>12 DEF WriteYUV, Colour
  <2>3. y % 256 = y
    BY ByteMod
  <2> QED
    BY <2>2, <2>3, <1>15
<1>17. /\ yuv' \in [D -> Byte] /\ yuv'[p] = y /\ yuv'[o] = i /\ yuv'[e] = j
       /\ \A k \in D : k # p /\ k # o /\ k # e => yuv'[k] = g0[k]
  BY <1>13, <1>14, <1>16, Overwritten
<1> QED
  BY <1>3, <1>11, <1>14, <1>15, <1>17

LEMMA SameImage ==
  ASSUME UNCHANGED <<size, format, image>>
  PROVE  /\ width' = width /\ height' = height /\ ySize' = ySize /\ Pixels' = Pixels
         /\ Columns' = Columns /\ Rows' = Rows /\ halfWidth' = halfWidth
         /\ SharesV' = SharesV /\ SharesU' = SharesU /\ Lumas' = Lumas
         /\ \A m : Colour(m)' = Colour(m)
         /\ \A m : X(m)' = X(m) /\ Y(m)' = Y(m)
         /\ \A a, b : UVAt(a, b)' = UVAt(a, b)
<1>1. width' = width /\ height' = height
  BY DEF width, height
<1>2. ySize' = ySize /\ Columns' = Columns /\ Rows' = Rows /\ halfWidth' = halfWidth
  BY <1>1 DEF ySize, Columns, Rows, halfWidth
<1>3. Pixels' = Pixels
  BY <1>2 DEF Pixels
<1>4. \A m : Colour(m)' = Colour(m)
  BY DEF Colour
<1>5. SharesV' = SharesV /\ SharesU' = SharesU /\ Lumas' = Lumas
  BY <1>3, <1>4, Zenon DEF SharesV, SharesU, Lumas
<1>6. \A m : X(m)' = X(m) /\ Y(m)' = Y(m)
  BY <1>1 DEF X, Y
<1>7. \A a, b : UVAt(a, b)' = UVAt(a, b)
  BY <1>2 DEF UVAt
<1> QED
  BY <1>1, <1>2, <1>3, <1>4, <1>5, <1>6, <1>7, Zenon

LEMMA WriteLuma ==
  ASSUME ColourInv, WriteYUV
  PROVE  LumaInv'
<1>1. /\ Pixels' = Pixels /\ ySize' = ySize /\ \A m : Colour(m)' = Colour(m)
  BY SameImage DEF WriteYUV
<1>2. p \in Pixels /\ p \in Nat /\ p' = p + 1 /\ Written = p /\ Written' = p + 1 /\ Busy
  BY DEF WriteYUV, Written, Busy, ColourInv, StateInv
<1>3. SUFFICES ASSUME NEW m \in Pixels, m < p + 1
               PROVE  yuv'[m] = Luma(Colour(m))
  BY <1>1, <1>2 DEF LumaInv
<1>4. CASE m = p
  BY <1>4, WriteEffect DEF ColourInv
<1>5. CASE m # p
  <2>1. m \in Nat /\ m < ySize /\ ySize \in Nat
    BY InTurn DEF ColourInv
  <2>2. PICK o \in Nat : o = UVAt(X(p) \div 2, Y(p) \div 2) /\ ySize <= o
                         /\ o + 1 < YUVByteSize(width, height)
                         /\ YUVByteSize(width, height) \in Nat
    BY <1>2, InTurn, UVAtRange DEF ColourInv
  <2>3. m \in 0..(YUVByteSize(width, height) - 1) /\ m # o /\ m # o + 1
    BY <2>1, <2>2
  <2>4. yuv'[m] = yuv[m]
    BY <1>5, <2>2, <2>3, WriteEffect DEF ColourInv
  <2>5. yuv[m] = Luma(Colour(m))
    BY <1>2, <1>3, <1>5, <2>1 DEF ColourInv, LumaInv
  <2> QED
    BY <2>4, <2>5
<1> QED
  BY <1>4, <1>5

LEMMA WriteChroma ==
  ASSUME ColourInv, WriteYUV
  PROVE  ChromaInv'
<1>1. /\ width' = width /\ height' = height /\ Columns' = Columns /\ Rows' = Rows
      /\ SharesV' = SharesV /\ SharesU' = SharesU /\ \A a, b : UVAt(a, b)' = UVAt(a, b)
  BY SameImage DEF WriteYUV
<1>2. p \in Pixels /\ p \in Nat /\ p' = p + 1 /\ Written = p /\ Written' = p + 1 /\ Busy
  BY DEF WriteYUV, Written, Busy, ColourInv, StateInv
<1>3. SUFFICES ASSUME NEW a \in 0..(Columns - 1), NEW b \in 0..(Rows - 1),
                      At(width, 2 * a, 2 * b) < p + 1
               PROVE  /\ yuv'[UVAt(a, b)] = Partial(width, height, SharesV, p + 1, a, b)
                      /\ yuv'[UVAt(a, b) + 1] = Partial(width, height, SharesU, p + 1, a, b)
  BY <1>1, <1>2 DEF ChromaInv
<1>4. PICK w \in Nat \ {0}, h \in Nat \ {0} : w = width /\ h = height
  BY DEF ColourInv, StateInv
<1>5. PICK x \in 0..(w - 1), y \in 0..(h - 1) : x = X(p) /\ y = Y(p)
  BY <1>2, <1>4, InTurn DEF ColourInv
<1>6. /\ p = At(w, x, y) /\ x \div 2 \in 0..(Columns - 1) /\ y \div 2 \in 0..(Rows - 1)
  BY <1>2, <1>4, <1>5, InTurn DEF ColourInv
<1>7. PICK fv \in Shares(w, h), fu \in Shares(w, h) : fv = SharesV /\ fu = SharesU
  BY <1>2, <1>4, SharesOf DEF ColourInv
<1>8. PICK s \in 0..63, t \in 0..63 :
        /\ s = ShareV(Colour(p)) /\ s = fv[p] /\ t = ShareU(Colour(p)) /\ t = fu[p]
  BY <1>2, <1>7, SharesOf DEF ColourInv
<1>9. a \in Nat /\ b \in Nat /\ a \in 0..((w + 1) \div 2 - 1)
  BY <1>4 DEF Columns, Rows, ColourInv, StateInv
<1>10. PICK v \in 0..252, u \in 0..252, v1 \in 0..252, u1 \in 0..252 :
         /\ v = Partial(w, h, fv, p, a, b) /\ v1 = Partial(w, h, fv, p + 1, a, b)
         /\ u = Partial(w, h, fu, p, a, b) /\ u1 = Partial(w, h, fu, p + 1, a, b)
  <2>1. p + 1 \in Nat
    BY <1>2
  <2>2. /\ Partial(w, h, fv, p, a, b) \in 0..252 /\ Partial(w, h, fv, p + 1, a, b) \in 0..252
        /\ Partial(w, h, fu, p, a, b) \in 0..252 /\ Partial(w, h, fu, p + 1, a, b) \in 0..252
    BY <1>2, <1>9, <2>1, PartialRange
  <2> QED
    BY <2>2
<1>11. /\ v1 = v + IF a = x \div 2 /\ b = y \div 2 THEN s ELSE 0
       /\ u1 = u + IF a = x \div 2 /\ b = y \div 2 THEN t ELSE 0
  <2>1. Partial(w, h, fv, At(w, x, y) + 1, a, b) = Partial(w, h, fv, At(w, x, y), a, b) +
          IF a = x \div 2 /\ b = y \div 2 THEN fv[At(w, x, y)] ELSE 0
    BY <1>9, PartialStep
  <2>2. Partial(w, h, fu, At(w, x, y) + 1, a, b) = Partial(w, h, fu, At(w, x, y), a, b) +
          IF a = x \div 2 /\ b = y \div 2 THEN fu[At(w, x, y)] ELSE 0
    BY <1>9, PartialStep
  <2> QED
    BY <1>6, <1>8, <1>10, <2>1, <2>2
<1>12. At(w, 2 * a, 2 * b) < p => yuv[UVAt(a, b)] = v /\ yuv[UVAt(a, b) + 1] = u
  BY <1>2, <1>4, <1>7, <1>10 DEF ColourInv, ChromaInv
<1>13. /\ At(w, 2 * a, 2 * b) < p \/ (a = x \div 2 /\ b = y \div 2)
       /\ a = x \div 2 /\ b = y \div 2 /\ ~FirstOfBlock(x, y) => At(w, 2 * a, 2 * b) < p
  <2>1. y \in Nat
    OBVIOUS
  <2>2. /\ At(w, 2 * a, 2 * b) < At(w, x, y) + 1
          => At(w, 2 * a, 2 * b) < At(w, x, y) \/ (a = x \div 2 /\ b = y \div 2)
        /\ a = x \div 2 /\ b = y \div 2 /\ ~FirstOfBlock(x, y)
          => At(w, 2 * a, 2 * b) < At(w, x, y)
    BY <1>9, <2>1, BlockBegins
  <2> QED
    BY <1>3, <1>4, <1>6, <2>2
<1>14. CASE a = x \div 2 /\ b = y \div 2
  <2>1. /\ yuv'[UVAt(a, b)] = ((IF FirstOfBlock(x, y) THEN 0 ELSE yuv[UVAt(a, b)]) + s) % 256
        /\ yuv'[UVAt(a, b) + 1] = ((IF FirstOfBlock(x, y) THEN 0 ELSE yuv[UVAt(a, b) + 1]) + t) % 256
    BY <1>5, <1>8, <1>14, WriteEffect DEF ColourInv
  <2>2. FirstOfBlock(x, y) => v = 0 /\ u = 0
    BY <1>6, <1>10, <1>14, BlockStarts
  <2>3. yuv'[UVAt(a, b)] = (v + s) % 256 /\ yuv'[UVAt(a, b) + 1] = (u + t) % 256
    BY <1>12, <1>13, <1>14, <2>1, <2>2
  <2>4. (v + s) % 256 = v1 /\ (u + t) % 256 = u1
    BY <1>11, <1>14
  <2> QED
    BY <1>4, <1>7, <1>10, <2>3, <2>4
<1>15. CASE ~(a = x \div 2 /\ b = y \div 2)
  <2>1. PICK o \in Nat : o = UVAt(x \div 2, y \div 2)
    BY <1>6, UVAtRange DEF ColourInv
  <2>2. UVAt(a, b) # o /\ UVAt(a, b) # o + 1 /\ UVAt(a, b) + 1 # o
    BY <1>6, <1>15, <2>1, UVAtDiffer DEF ColourInv
  <2>3. /\ ySize \in Nat /\ UVAt(a, b) \in Nat /\ ySize <= UVAt(a, b)
        /\ UVAt(a, b) + 1 < YUVByteSize(width, height) /\ YUVByteSize(width, height) \in Nat
    BY UVAtRange DEF ColourInv
  <2>4. p < ySize
    BY <1>2, InTurn DEF ColourInv
  <2>5. /\ UVAt(a, b) \in 0..(YUVByteSize(width, height) - 1)
        /\ UVAt(a, b) + 1 \in 0..(YUVByteSize(width, height) - 1)
        /\ UVAt(a, b) # p /\ UVAt(a, b) + 1 # p /\ UVAt(a, b) + 1 # o + 1
    BY <1>2, <2>1, <2>2, <2>3, <2>4
  <2>6. yuv'[UVAt(a, b)] = yuv[UVAt(a, b)] /\ yuv'[UVAt(a, b) + 1] = yuv[UVAt(a, b) + 1]
    BY <1>5, <2>1, <2>2, <2>5, WriteEffect DEF ColourInv
  <2> QED
    BY <1>4, <1>7, <1>10, <1>11, <1>12, <1>13, <1>15, <2>6
<1> QED
  BY <1>14, <1>15

LEMMA NothingRead ==
  /\ out = <<>> => DecodedFromOwnBlock
  /\ out' = <<>> => DecodedFromOwnBlock'
  /\ touched = <<{}, {}>> /\ stage # "crashed" => InBoundsUnlessHalfPlanes
  /\ touched' = <<{}, {}>> /\ stage' # "crashed" => InBoundsUnlessHalfPlanes'
BY DEF DecodedFromOwnBlock, InBoundsUnlessHalfPlanes

LEMMA SameAccesses ==
  ASSUME InBoundsUnlessHalfPlanes, UNCHANGED <<size, layout, touched>>,
         stage' = "crashed" => stage = "crashed"
  PROVE  InBoundsUnlessHalfPlanes'
<1>1. width' = width /\ height' = height
  BY DEF width, height
<1>2. YBytes' = YBytes /\ UVBytes' = UVBytes /\ ySize' = ySize /\ YCapacity' = YCapacity
  BY <1>1 DEF YBytes, UVBytes, YCapacity, UVCapacity, YStride, UVStride, Columns, Rows, ySize
<1> QED
  BY <1>2 DEF InBoundsUnlessHalfPlanes

LEMMA SameColours ==
  ASSUME UNCHANGED <<size, format, image, layout>>
  PROVE  \A k : OwnColour(k)' = OwnColour(k)
<1>1. /\ width' = width /\ height' = height /\ halfWidth' = halfWidth
      /\ SharesV' = SharesV /\ SharesU' = SharesU /\ Lumas' = Lumas
      /\ \A m : X(m)' = X(m) /\ Y(m)' = Y(m)
  BY SameImage
<1>2. \A f, a, b : BlockSum(f, a, b)' = BlockSum(f, a, b)
  BY <1>1 DEF BlockSum, Corner
<1>3. \A a, b : /\ BlockSum(SharesV, a, b)' = BlockSum(SharesV, a, b)
                /\ BlockSum(SharesU, a, b)' = BlockSum(SharesU, a, b)
                /\ BlockSum(Lumas, a, b)' = BlockSum(Lumas, a, b)
  BY <1>1 DEF BlockSum, Corner
<1> QED
  BY <1>1, <1>3 DEF OwnColour

LEMMA SameOutput ==
  ASSUME DecodedFromOwnBlock, UNCHANGED <<size, format, image, layout, out>>
  PROVE  DecodedFromOwnBlock'
<1>1. width' = width /\ height' = height /\ \A k : OwnColour(k)' = OwnColour(k)
  BY SameImage, SameColours
<1> QED
  BY <1>1 DEF DecodedFromOwnBlock

LEMMA IdleState ==
  /\ /\ stage = "idle" /\ size = <<1, 1>> /\ yuv = <<>> /\ layout = SemiPlanar
     /\ out = <<>> /\ p = 0 /\ touched = <<{}, {}>> /\ sample = NoSample
     => StateInv
  /\ /\ stage' = "idle" /\ size' = <<1, 1>> /\ yuv' = <<>> /\ layout' = SemiPlanar
     /\ out' = <<>> /\ p' = 0 /\ touched' = <<{}, {}>> /\ sample' = NoSample
     => StateInv'
<1>1. NoSample \in RGB
  BY DEF NoSample, RGB, Byte
<1>2. YSize(1, 1) = 1
  BY DEF YSize
<1>3. SemiPlanar \in [kind : {"SP", "565", "half", "planes", "halfPlanes"}, pixel : {1, 2}, pad : Nat]
  BY DEF SemiPlanar
<1>4. ASSUME stage = "idle", size = <<1, 1>>, yuv = <<>>, layout = SemiPlanar,
             out = <<>>, p = 0, touched = <<{}, {}>>, sample = NoSample
      PROVE  StateInv
  <2>1. width = 1 /\ height = 1
    BY <1>4 DEF width, height
  <2>2. ySize = 1
    BY <2>1, <1>2 DEF ySize
  <2> QED
    BY <1>1, <1>3, <1>4, <2>1, <2>2 DEF StateInv, Reading, Busy
<1>5. ASSUME stage' = "idle", size' = <<1, 1>>, yuv' = <<>>, layout' = SemiPlanar,
             out' = <<>>, p' = 0, touched' = <<{}, {}>>, sample' = NoSample
      PROVE  StateInv'
  <2>1. width' = 1 /\ height' = 1
    BY <1>5 DEF width, height
  <2>2. ySize' = 1
    BY <2>1, <1>2 DEF ySize
  <2> QED
    BY <1>1, <1>3, <1>5, <2>1, <2>2 DEF StateInv, Reading, Busy
<1> QED
  BY <1>4, <1>5

LEMMA WriteStep ==
  ASSUME ColourInv, WriteYUV
  PROVE  ColourInv'
<1>1. /\ stage = "encode" /\ stage' = "encode" /\ p \in Pixels /\ p' = p + 1 /\ Busy
      /\ layout = SemiPlanar /\ out = <<>>
      /\ UNCHANGED <<size, format, image, layout, out, sample>>
  BY DEF WriteYUV, ColourInv, StateInv, Busy, Reading
<1>2. /\ width' = width /\ height' = height /\ ySize' = ySize /\ Pixels' = Pixels
      /\ \A m : Colour(m)' = Colour(m)
  BY <1>1, SameImage
<1>3. p \in Nat /\ p < ySize /\ ySize \in Nat
  BY <1>1, InTurn DEF ColourInv
<1>4. StateInv'
  BY <1>1, <1>2, <1>3 DEF ColourInv, StateInv, Reading, Busy
<1>5. BufferInv'
  <2>1. yuv' \in [0..(YUVByteSize(width, height) - 1) -> Byte]
    BY WriteEffect DEF ColourInv
  <2> QED
    BY <1>1, <1>2, <2>1 DEF ColourInv, BufferInv
<1>6. InBoundsUnlessHalfPlanes'
  <2>1. PICK o \in Nat : /\ o = ySize + UVOffset(width, X(p), Y(p)) /\ ySize <= o
                         /\ o + 1 < ySize + UVSize(width, height) /\ UVSize(width, height) \in Nat
    BY <1>1, InTurn, UVAtRange DEF ColourInv
  <2>2. touched' = <<{p}, {o - ySize, o + 1 - ySize}>>
    BY <2>1 DEF WriteYUV
  <2>3. /\ p \in 0..(ySize - 1)
        /\ o - ySize \in 0..(UVSize(width, height) - 1)
        /\ o + 1 - ySize \in 0..(UVSize(width, height) - 1)
    BY <1>3, <2>1
  <2>4. YBytes' = ySize /\ UVBytes' = UVSize(width, height)
    BY <1>1, <1>2 DEF YBytes, UVBytes, SemiPlanar
  <2> QED
    BY <1>1, <2>2, <2>3, <2>4 DEF InBoundsUnlessHalfPlanes
<1> QED
  BY <1>1, <1>4, <1>5, <1>6, WriteLuma, WriteChroma, NothingRead DEF ColourInv

-----------------------------------------------------------------------------
(* Calls and returns.                                                      *)

LEMMA BeginEncodeStep ==
  ASSUME ColourInv, BeginEncode
  PROVE  ColourInv'
<1>1. /\ stage = "idle" /\ stage' = "encode" /\ p' = 0 /\ Busy'
      /\ touched' = <<{}, {}>> /\ out' = <<>> /\ layout' = SemiPlanar
      /\ UNCHANGED <<layout, out, sample>>
  BY DEF BeginEncode, ColourInv, StateInv, Busy, Reading
<1>2. width' \in Nat \ {0} /\ height' \in Nat \ {0} /\ ySize' \in Nat
  <2>1. width' \in Nat \ {0} /\ height' \in Nat \ {0}
    BY ColourAssumption DEF BeginEncode, width, height
  <2> QED
    BY <2>1, Area DEF ySize
<1>3. StateInv'
  BY <1>1, <1>2 DEF ColourInv, StateInv, Reading, Busy
<1>4. BufferInv'
  <2>1. ASSUME NEW m \in Pixels'
        PROVE  Colour(m)' \in RGB
    <3>1. \/ format' = "8888" /\ image'[m] \in Palette
          \/ format' = "565" /\ image'[m] \in Palette565
      BY DEF BeginEncode
    <3>2. Palette \subseteq RGB /\ Palette565 \subseteq (0..31) \X (0..63) \X (0..31)
      BY ColourAssumption DEF RGB, Byte
    <3> QED
      BY <3>1, <3>2, UnpackRange DEF Colour
  <2>2. yuv' \in [0..(YUVByteSize(width', height') - 1) -> Byte]
    BY ColourAssumption DEF BeginEncode, Byte
  <2> QED
    BY <2>1, <2>2 DEF BufferInv
<1>5. LumaInv'
  BY <1>1, <1>2 DEF LumaInv, Written, Pixels
<1>6. ChromaInv'
  <2>1. PICK w \in Nat \ {0}, h \in Nat \ {0} : w = width' /\ h = height'
    BY <1>2
  <2>2. PICK c \in Nat \ {0}, d \in Nat \ {0} : c = (w + 1) \div 2 /\ d = (h + 1) \div 2
    OBVIOUS
  <2>3. c = Columns' /\ d = Rows'
    BY <2>1, <2>2 DEF Columns, Rows
  <2>4. ASSUME NEW a \in 0..(c - 1), NEW b \in 0..(d - 1)
        PROVE  ~(At(width', 2 * a, 2 * b) < 0)
    <3>1. 2 * a \in 0..(w - 1) /\ 2 * b \in Nat
      BY <2>2
    <3>2. At(width', 2 * a, 2 * b) \in Nat
      BY <2>1, <3>1, PlaceOf
    <3> QED
      BY <3>2
  <2> QED
    BY <1>1, <2>3, <2>4 DEF ChromaInv, Written
<1> QED
  BY <1>1, <1>3, <1>4, <1>5, <1>6, NothingRead DEF ColourInv

(* Where the image and the buffer stay, so does what was written.          *)
LEMMA BufferStays ==
  ASSUME StateInv, BufferInv, LumaInv, ChromaInv, Busy,
         UNCHANGED <<size, format, image, yuv>>, Written' = Written
  PROVE  BufferInv' /\ LumaInv' /\ ChromaInv'
<1>1. /\ width' = width /\ height' = height /\ ySize' = ySize /\ Pixels' = Pixels
      /\ Columns' = Columns /\ Rows' = Rows
      /\ SharesV' = SharesV /\ SharesU' = SharesU
      /\ \A m : Colour(m)' = Colour(m)
      /\ \A a, b : UVAt(a, b)' = UVAt(a, b)
  BY SameImage
<1>2. BufferInv'
  BY <1>1 DEF BufferInv
<1>3. LumaInv'
  BY <1>1 DEF LumaInv
<1>4. ChromaInv'
  BY <1>1 DEF ChromaInv
<1> QED
  BY <1>2, <1>3, <1>4

LEMMA EndEncodeStep ==
  ASSUME ColourInv, EndEncode
  PROVE  ColourInv'
<1>1. /\ stage = "encode" /\ stage' = "encoded" /\ p \notin Pixels /\ Busy
      /\ out' = <<>> /\ UNCHANGED <<size, format, image, yuv, layout, out, p, touched, sample>>
  BY DEF EndEncode, ColourInv, StateInv, Busy, Reading
<1>2. /\ width' = width /\ height' = height /\ ySize' = ySize
  BY <1>1, SameImage
<1>3. StateInv'
  BY <1>1, <1>2 DEF ColourInv, StateInv, Reading, Busy
<1>4. Written' = Written
  <2>1. p = ySize
    <3>1. ySize \in Nat
      BY Area DEF ColourInv, StateInv, ySize
    <3> QED
      BY <1>1, <3>1 DEF ColourInv, StateInv, Pixels
  <2> QED
    BY <1>1, <1>2, <2>1 DEF Written
<1>5. InBoundsUnlessHalfPlanes'
  BY <1>1, <1>2 DEF ColourInv, StateInv, Reading, SemiPlanar, InBoundsUnlessHalfPlanes, YBytes, UVBytes
<1> QED
  BY <1>1, <1>3, <1>4, <1>5, BufferStays, NothingRead DEF ColourInv

LEMMA BeginDecodeStep ==
  ASSUME ColourInv, BeginDecode
  PROVE  ColourInv'
<1>1. /\ stage = "encoded" /\ stage' = "decode" /\ p' = 0 /\ Busy
      /\ touched' = <<{}, {}>> /\ out = <<>> /\ out' = <<>> /\ layout = SemiPlanar
      /\ UNCHANGED <<size, format, image, yuv, out, sample>>
  BY DEF BeginDecode, ColourInv, StateInv, Busy, Reading
<1>2. /\ width' = width /\ height' = height /\ ySize' = ySize
  BY <1>1, SameImage
<1>3. layout' \in [kind : {"SP", "565", "half", "planes", "halfPlanes"}, pixel : {1, 2}, pad : Nat]
  BY <1>1, ColourAssumption DEF BeginDecode, SemiPlanar
<1>4. ySize \in Nat
  BY Area DEF ColourInv, StateInv, ySize
<1>5. StateInv'
  BY <1>1, <1>2, <1>3, <1>4 DEF ColourInv, StateInv, Reading, Busy
<1>6. Written' = Written
  BY <1>1, <1>2 DEF Written
<1> QED
  BY <1>1, <1>5, <1>6, BufferStays, NothingRead DEF ColourInv

LEMMA EndDecodeStep ==
  ASSUME ColourInv, EndDecode
  PROVE  ColourInv'
<1>1. /\ stage = "decode" /\ stage' = "decoded" /\ Busy
      /\ UNCHANGED <<size, format, image, yuv, layout, out, p, touched, sample>>
  BY DEF EndDecode, Busy
<1>2. /\ width' = width /\ height' = height /\ ySize' = ySize
  BY <1>1, SameImage
<1>3. StateInv'
  BY <1>1, <1>2 DEF ColourInv, StateInv, Reading, Busy
<1>4. Written' = Written
  BY <1>1, <1>2 DEF Written
<1>5. InBoundsUnlessHalfPlanes' /\ DecodedFromOwnBlock'
  BY <1>1, SameAccesses, SameOutput DEF ColourInv
<1> QED
  BY <1>1, <1>3, <1>4, <1>5, BufferStays DEF ColourInv

LEMMA OtherSteps ==
  ASSUME ColourInv, ConvertSample \/ Return \/ UNCHANGED colourVars
  PROVE  ColourInv'
<1>1. CASE ConvertSample
  <2>1. /\ stage = "idle" /\ stage' = "sample" /\ out' = <<>> /\ touched' = <<{}, {}>>
        /\ UNCHANGED <<size, format, image, yuv, layout, out, p, touched>>
    BY <1>1 DEF ConvertSample, ColourInv, StateInv, Reading, Busy
  <2>2. width' = width /\ height' = height /\ ySize' = ySize
    BY <2>1, SameImage
  <2>3. sample' \in RGB
    BY <1>1, ColourAssumption DEF ConvertSample, RGB, Byte
  <2>4. StateInv'
    BY <2>1, <2>2, <2>3 DEF ColourInv, StateInv, Reading, Busy
  <2>5. ~Busy'
    BY <2>1 DEF Busy
  <2> QED
    BY <2>1, <2>4, <2>5, NothingRead DEF ColourInv, BufferInv, LumaInv, ChromaInv
<1>2. CASE Return
  <2>1. /\ stage' = "idle" /\ out' = <<>> /\ touched' = <<{}, {}>> /\ size' = <<1, 1>>
        /\ yuv' = <<>> /\ layout' = SemiPlanar /\ p' = 0 /\ sample' = NoSample
    BY <1>2 DEF Return
  <2>2. StateInv'
    BY <2>1, IdleState
  <2>3. ~Busy'
    BY <2>1 DEF Busy
  <2> QED
    BY <2>1, <2>2, <2>3, NothingRead DEF ColourInv, BufferInv, LumaInv, ChromaInv
<1>3. CASE UNCHANGED colourVars
  <2>1. UNCHANGED <<stage, size, format, image, yuv, layout, out, p, touched, sample>>
    BY <1>3 DEF colourVars
  <2>2. width' = width /\ height' = height /\ ySize' = ySize
    BY <2>1, SameImage
  <2>3. StateInv' /\ Written' = Written
    BY <2>1, <2>2 DEF ColourInv, StateInv, Reading, Busy, Written
  <2>4. InBoundsUnlessHalfPlanes' /\ DecodedFromOwnBlock'
    BY <2>1, SameAccesses, SameOutput DEF ColourInv
  <2>5. Busy' = Busy
    BY <2>1 DEF Busy
  <2> QED
    BY <2>1, <2>3, <2>4, <2>5, BufferStays DEF ColourInv, BufferInv, LumaInv, ChromaInv
<1> QED
  BY <1>1, <1>2, <1>3

-----------------------------------------------------------------------------
(* The buffer that is read holds the luma of every pixel and the sums of   *)
(* every block.                                                            *)

LEMMA WholeSum ==
  ASSUME StateInv, NEW f, NEW a \in Nat, NEW b \in Nat
  PROVE  Partial(width, height, f, ySize, a, b) = BlockSum(f, a, b)
<1>1. ASSUME NEW x \in Nat, NEW y \in Nat
      PROVE  Piece(width, height, f, ySize, x, y) = Corner(f, x, y)
  <2>1. PICK w \in Nat \ {0}, h \in Nat \ {0} : w = width /\ h = height
    BY DEF StateInv
  <2>2. CASE x < w /\ y < h
    <3>1. x \in 0..(w - 1) /\ y \in 0..(h - 1)
      BY <2>2
    <3>2. At(w, x, y) \in Nat /\ At(w, x, y) \in 0..(YSize(w, h) - 1) /\ YSize(w, h) \in Nat
      BY <3>1, Position, Area
    <3>3. At(w, x, y) < YSize(w, h)
      BY <3>2
    <3>4. At(w, x, y) = y * w + x
      BY DEF At
    <3> QED
      BY <2>1, <2>2, <3>3, <3>4 DEF Piece, Corner, ySize
  <2>3. CASE ~(x < w /\ y < h)
    BY <2>1, <2>3 DEF Piece, Corner
  <2> QED
    BY <2>2, <2>3
<1>2. /\ 2 * a \in Nat /\ 2 * b \in Nat /\ 2 * a + 1 \in Nat /\ 2 * b + 1 \in Nat
  OBVIOUS
<1>3. /\ Piece(width, height, f, ySize, 2 * a, 2 * b) = Corner(f, 2 * a, 2 * b)
      /\ Piece(width, height, f, ySize, 2 * a + 1, 2 * b) = Corner(f, 2 * a + 1, 2 * b)
      /\ Piece(width, height, f, ySize, 2 * a, 2 * b + 1) = Corner(f, 2 * a, 2 * b + 1)
      /\ Piece(width, height, f, ySize, 2 * a + 1, 2 * b + 1) = Corner(f, 2 * a + 1, 2 * b + 1)
  BY <1>1, <1>2
<1> QED
  BY <1>3, Zenon DEF Partial, BlockSum

LEMMA Stored ==
  ASSUME ColourInv, Busy, stage # "encode"
  PROVE  /\ \A m \in Pixels : yuv[m] = Lumas[m] /\ Lumas[m] \in Byte
         /\ \A a \in 0..(Columns - 1), b \in 0..(Rows - 1) :
              /\ yuv[UVAt(a, b)] = BlockSum(SharesV, a, b)
              /\ yuv[UVAt(a, b) + 1] = BlockSum(SharesU, a, b)
              /\ BlockSum(SharesV, a, b) \in 0..252 /\ BlockSum(SharesU, a, b) \in 0..252
<1>1. Written = ySize
  BY DEF Written
<1>2. ASSUME NEW m \in Pixels
      PROVE  yuv[m] = Lumas[m] /\ Lumas[m] \in Byte
  <2>1. m < Written
    BY <1>1, InTurn DEF ColourInv
  <2>2. yuv[m] = Luma(Colour(m))
    BY <2>1 DEF ColourInv, LumaInv
  <2>3. Luma(Colour(m)) \in Byte
    BY SharesOf DEF ColourInv
  <2> QED
    BY <2>2, <2>3 DEF Lumas
<1>3. ASSUME NEW a \in 0..(Columns - 1), NEW b \in 0..(Rows - 1)
      PROVE  /\ yuv[UVAt(a, b)] = BlockSum(SharesV, a, b)
             /\ yuv[UVAt(a, b) + 1] = BlockSum(SharesU, a, b)
             /\ BlockSum(SharesV, a, b) \in 0..252 /\ BlockSum(SharesU, a, b) \in 0..252
  <2>1. PICK w \in Nat \ {0}, h \in Nat \ {0} : w = width /\ h = height
    BY DEF ColourInv, StateInv
  <2>2. 2 * a \in 0..(w - 1) /\ 2 * b \in 0..(h - 1) /\ a \in Nat /\ b \in Nat
    BY <2>1 DEF Columns, Rows
  <2>3. At(w, 2 * a, 2 * b) \in Nat /\ At(w, 2 * a, 2 * b) \in 0..(YSize(w, h) - 1)
    BY <2>2, Position
  <2>4. YSize(w, h) \in Nat
    BY Area
  <2>5. At(w, 2 * a, 2 * b) < YSize(w, h)
    BY <2>3, <2>4
  <2>6. At(width, 2 * a, 2 * b) < Written
    BY <2>1, <2>5, <1>1 DEF ySize
  <2>7. /\ Partial(width, height, SharesV, ySize, a, b) = BlockSum(SharesV, a, b)
        /\ Partial(width, height, SharesU, ySize, a, b) = BlockSum(SharesU, a, b)
    BY <2>2, WholeSum DEF ColourInv
  <2>8. SharesV \in Shares(w, h) /\ SharesU \in Shares(w, h)
    BY <2>1, SharesOf DEF ColourInv
  <2>9. /\ Partial(w, h, SharesV, YSize(w, h), a, b) \in 0..252
        /\ Partial(w, h, SharesU, YSize(w, h), a, b) \in 0..252
    BY <2>2, <2>4, <2>8, PartialRange
  <2>10. BlockSum(SharesV, a, b) \in 0..252 /\ BlockSum(SharesU, a, b) \in 0..252
    BY <2>1, <2>7, <2>9 DEF ySize
  <2>11. /\ yuv[UVAt(a, b)] = Partial(width, height, SharesV, Written, a, b)
         /\ yuv[UVAt(a, b) + 1] = Partial(width, height, SharesU, Written, a, b)
    BY <2>6 DEF ColourInv, ChromaInv
  <2> QED
    BY <1>1, <2>7, <2>10, <2>11
<1> QED
  BY <1>2, <1>3

LEMMA ReadStep ==
  ASSUME ColourInv, stage = "decode", p < ySize, p' = p + 1,
         NEW c \in RGB, out' = Append(out, c), InBoundsUnlessHalfPlanes',
         UNCHANGED <<stage, size, format, image, yuv, layout, sample>>,
         layout.kind = "planes"
           \/ (layout.kind # "halfPlanes" /\ width % 2 = 0 /\ height % 2 = 0) => c = OwnColour(p)
  PROVE  ColourInv'
<1>1. width' = width /\ height' = height /\ ySize' = ySize
  BY SameImage
<1>2. ySize \in Nat /\ p \in Nat /\ out \in Seq(RGB) /\ Len(out) = p
  BY Area DEF ColourInv, StateInv, ySize, Reading
<1>3. out' \in Seq(RGB) /\ Len(out') = p + 1
  BY <1>2
<1>4. StateInv'
  BY <1>1, <1>2, <1>3 DEF ColourInv, StateInv, Reading, Busy
<1>5. Written' = Written /\ Busy
  BY <1>1 DEF Written, Busy
<1>6. DecodedFromOwnBlock'
  <2>1. SUFFICES ASSUME layout.kind = "planes"
           \/ (layout.kind # "halfPlanes" /\ width % 2 = 0 /\ height % 2 = 0),
                        NEW k \in DOMAIN out'
                 PROVE  out'[k] = OwnColour(k - 1)
    BY <1>1, SameColours DEF DecodedFromOwnBlock
  <2>2. k \in 1..(p + 1)
    BY <1>3
  <2>3. CASE k = p + 1
    BY <1>2, <2>1, <2>3
  <2>4. CASE k # p + 1
    <3>1. k \in DOMAIN out /\ out'[k] = out[k]
      BY <1>2, <2>2, <2>4
    <3> QED
      BY <2>1, <3>1 DEF ColourInv, DecodedFromOwnBlock
  <2> QED
    BY <2>3, <2>4
<1> QED
  BY <1>4, <1>5, <1>6, BufferStays DEF ColourInv

-----------------------------------------------------------------------------
(* The readers of the semi-planar buffer.                                  *)

LEMMA SPBytes ==
  ASSUME NEW w \in Nat \ {0}, NEW h \in Nat \ {0}, NEW x \in 0..(w - 1), NEW y \in 0..(h - 1),
         NEW o, o = (y \div 2) * w + 2 * (x \div 2)
  PROVE  /\ o \in Nat /\ o + 1 < UVSize(w, h)
         /\ w % 2 = 0 => o = 2 * At((w + 1) \div 2, x \div 2, y \div 2)
<1>1. PICK c \in Nat \ {0}, d \in Nat \ {0} : c = (w + 1) \div 2 /\ d = (h + 1) \div 2
  OBVIOUS
<1>2. PICK a \in 0..(c - 1), b \in 0..(d - 1) : a = x \div 2 /\ b = y \div 2
  BY <1>1, Blocks
<1>3. w <= 2 * c /\ (w % 2 = 0 => w = 2 * c)
  BY <1>1
<1>4. YSize(c, d) \in Nat /\ UVSize(w, h) = 2 * YSize(c, d)
  BY <1>1, UVBytesOf
<1>5. At(c, a, b) \in Nat /\ At(c, a, b) \in 0..(YSize(c, d) - 1)
  BY Position
<1>6. PICK m \in Nat : m = b * c
  BY Monotone
<1>7. At(c, a, b) = m + a
  BY <1>6 DEF At
<1>8. b * w \in Nat /\ b * w <= 2 * m /\ (w = 2 * c => b * w = 2 * m)
  <2>1. w * b \in Nat /\ w * b <= (2 * c) * b
    BY <1>3, Monotone
  <2>2. (2 * c) * b = 2 * m /\ w * b = b * w
    BY <1>6
  <2> QED
    BY <2>1, <2>2
<1>9. o = b * w + 2 * a
  BY <1>2
<1>10. o \in Nat /\ o <= 2 * At(c, a, b)
  BY <1>7, <1>8, <1>9
<1>11. o + 1 < UVSize(w, h)
  BY <1>4, <1>5, <1>10
<1>12. w % 2 = 0 => o = 2 * At(c, a, b)
  BY <1>3, <1>7, <1>8, <1>9
<1> QED
  BY <1>1, <1>2, <1>10, <1>11, <1>12, Zenon

LEMMA ReadSPStep ==
  ASSUME ColourInv, ReadSP
  PROVE  ColourInv'
<1>1. /\ stage = "decode" /\ layout.kind \in {"SP", "565"} /\ p \in Pixels /\ p' = p + 1
      /\ Busy /\ UNCHANGED <<stage, size, format, image, yuv, layout, sample>>
  BY DEF ReadSP, Busy
<1>2. PICK w \in Nat \ {0}, h \in Nat \ {0} : w = width /\ h = height
  BY DEF ColourInv, StateInv
<1>3. PICK x \in 0..(w - 1), y \in 0..(h - 1) : x = X(p) /\ y = Y(p)
  BY <1>1, <1>2, InTurn DEF ColourInv
<1>4. /\ p \in Nat /\ p < ySize /\ ySize \in Nat
      /\ x \div 2 \in 0..(Columns - 1) /\ y \div 2 \in 0..(Rows - 1)
  BY <1>1, <1>3, InTurn DEF ColourInv
<1>5. PICK o \in Nat : /\ o = SPOffset(x, y) /\ o + 1 < UVSize(w, h)
                       /\ w % 2 = 0 => o = 2 * At(Columns, x \div 2, y \div 2)
  BY <1>2, SPBytes DEF SPOffset, Columns
<1>6. UVSize(w, h) \in Nat /\ YUVByteSize(w, h) = ySize + UVSize(w, h)
  BY <1>2, <1>4, UVAtRange DEF ColourInv
<1>7. /\ p \in 0..(YUVByteSize(w, h) - 1) /\ ySize + o \in 0..(YUVByteSize(w, h) - 1)
      /\ ySize + o + 1 \in 0..(YUVByteSize(w, h) - 1)
  BY <1>4, <1>5, <1>6
<1>8. yuv \in [0..(YUVByteSize(w, h) - 1) -> Byte]
  BY <1>1, <1>2 DEF ColourInv, BufferInv
<1>9. PICK nY \in Byte, nU \in Byte, nV \in Byte :
        nY = yuv[p] /\ nU = yuv[ySize + o + 1] /\ nV = yuv[ySize + o]
  BY <1>7, <1>8
<1>10. PICK c \in RGB :
         c = IF layout.kind = "SP" THEN Pack8888(Channels(nY, nU, nV)) ELSE Pack565(Channels(nY, nU, nV))
  <2>1. nY \in Int /\ nU \in Int /\ nV \in Int
    BY DEF Byte
  <2>2. Pack8888(Channels(nY, nU, nV)) \in RGB /\ Pack565(Channels(nY, nU, nV)) \in RGB
    BY <2>1, ChannelRange
  <2> QED
    BY <2>2, Zenon
<1>11. out' = Append(out, c)
  BY <1>3, <1>5, <1>9, <1>10 DEF ReadSP
<1>12. InBoundsUnlessHalfPlanes'
  <2>1. touched' = <<{p}, {(ySize + o) - ySize, (ySize + o) + 1 - ySize}>>
    BY <1>3, <1>5 DEF ReadSP
  <2>2. /\ p \in 0..(ySize - 1)
        /\ (ySize + o) - ySize \in 0..(UVSize(w, h) - 1)
        /\ (ySize + o) + 1 - ySize \in 0..(UVSize(w, h) - 1)
    BY <1>4, <1>5, <1>6
  <2>3. YBytes' = ySize /\ UVBytes' = UVSize(w, h)
    BY <1>1, <1>2, SameImage DEF YBytes, UVBytes
  <2> QED
    BY <1>1, <2>1, <2>2, <2>3 DEF InBoundsUnlessHalfPlanes
<1>13. ASSUME layout.kind = "planes"
           \/ (layout.kind # "halfPlanes" /\ width % 2 = 0 /\ height % 2 = 0)
       PROVE  c = OwnColour(p)
  <2>1. o = 2 * At(Columns, x \div 2, y \div 2)
    BY <1>1, <1>2, <1>5, <1>13
  <2>2. ySize + o = UVAt(x \div 2, y \div 2)
    BY <2>1 DEF UVAt
  <2>3. /\ nY = Lumas[p] /\ nU = BlockSum(SharesU, x \div 2, y \div 2)
        /\ nV = BlockSum(SharesV, x \div 2, y \div 2)
    BY <1>1, <1>4, <1>9, <2>2, Stored
  <2> QED
    BY <1>1, <1>3, <1>10, <2>3, Zenon DEF OwnColour
<1> QED
  BY <1>1, <1>4, <1>11, <1>12, <1>13, ReadStep

(* Pixel k of the half-size image is the block in column q and row r.      *)
LEMMA HalfBytes ==
  ASSUME NEW w \in Nat \ {0}, NEW h \in Nat \ {0},
         NEW k \in 0..(YSize(w \div 2, h \div 2) - 1)
  PROVE  \E q \in Nat, r \in Nat :
           /\ q = k % (w \div 2) /\ r = k \div (w \div 2)
           /\ q \in 0..((w + 1) \div 2 - 1) /\ r \in 0..((h + 1) \div 2 - 1)
           /\ 2 * q + 1 < w /\ 2 * r + 1 < h
           /\ k \in Nat /\ r * w \in Nat
           /\ 2 * k + r * w + w + 1 < YSize(w, h)
           /\ 2 * k + 1 < UVSize(w, h)
           /\ w % 2 = 0 => /\ 2 * k + r * w = At(w, 2 * q, 2 * r)
                           /\ k = At((w + 1) \div 2, q, r)
<1>1. PICK u \in Nat, v \in Nat : u = w \div 2 /\ v = h \div 2
  OBVIOUS
<1>2. k \in Nat /\ u # 0 /\ YSize(u, v) \in Nat
  <2>1. u = 0 => YSize(u, v) = 0
    BY DEF YSize
  <2>2. YSize(u, v) \in Nat
    BY Area
  <2> QED
    BY <1>1, <2>1, <2>2
<1>3. /\ k % u \in 0..(u - 1) /\ k \div u \in 0..(v - 1) /\ k = At(u, k % u, k \div u)
  BY <1>1, <1>2, Pixel
<1>4. PICK q \in 0..(u - 1), r \in 0..(v - 1) : q = k % u /\ r = k \div u /\ k = r * u + q
  BY <1>3 DEF At
<1>5. /\ 2 * q + 1 \in 0..(w - 1) /\ 2 * r + 1 \in 0..(h - 1)
      /\ 2 * u <= w /\ (w % 2 = 0 => w = 2 * u)
  BY <1>1
<1>6. PICK c \in Nat \ {0}, d \in Nat \ {0} : c = (w + 1) \div 2 /\ d = (h + 1) \div 2
  OBVIOUS
<1>7. q \in 0..(c - 1) /\ r \in 0..(d - 1) /\ u <= c /\ (w % 2 = 0 => u = c)
  BY <1>1, <1>6
<1>8. PICK m \in Nat, n \in Nat, l \in Nat :
        /\ m = r * u /\ n = r * w /\ l = r * c /\ 2 * m <= n /\ m <= l
        /\ w % 2 = 0 => 2 * m = n /\ m = l
  <2>1. u * r \in Nat /\ (2 * u) * r \in Nat /\ w * r \in Nat /\ c * r \in Nat
        /\ (2 * u) * r <= w * r /\ u * r <= c * r
    BY <1>5, <1>7, Monotone
  <2>2. (2 * u) * r = 2 * (r * u) /\ w * r = r * w /\ c * r = r * c /\ u * r = r * u
    OBVIOUS
  <2>3. w = 2 * u => w * r = (2 * u) * r
    OBVIOUS
  <2>4. u = c => u * r = c * r
    OBVIOUS
  <2>5. r * u \in Nat /\ r * w \in Nat /\ r * c \in Nat /\ 2 * (r * u) <= r * w /\ r * u <= r * c
    BY <2>1, <2>2
  <2>6. w % 2 = 0 => 2 * (r * u) = r * w /\ r * u = r * c
    BY <1>5, <1>7, <2>2, <2>3, <2>4
  <2> QED
    BY <2>5, <2>6
<1>9. At(w, 2 * q + 1, 2 * r + 1) \in 0..(YSize(w, h) - 1) /\ YSize(w, h) \in Nat
  BY <1>5, Position, Area
<1>10. At(w, 2 * q + 1, 2 * r + 1) = 2 * n + w + 2 * q + 1 /\ At(w, 2 * q, 2 * r) = 2 * n + 2 * q
  <2>1. (2 * r + 1) * w = 2 * (r * w) + w /\ (2 * r) * w = 2 * (r * w)
    OBVIOUS
  <2> QED
    BY <1>8, <2>1 DEF At
<1>11. 2 * k + n + w + 1 < YSize(w, h)
  BY <1>4, <1>8, <1>9, <1>10
<1>12. At(c, q, r) \in 0..(YSize(c, d) - 1) /\ At(c, q, r) = l + q /\ YSize(c, d) \in Nat
  <2>1. At(c, q, r) \in 0..(YSize(c, d) - 1) /\ YSize(c, d) \in Nat
    BY <1>7, Position, Area
  <2> QED
    BY <1>8, <2>1 DEF At
<1>13. 2 * k + 1 < UVSize(w, h)
  <2>1. UVSize(w, h) = 2 * YSize(c, d)
    BY <1>6, UVBytesOf
  <2> QED
    BY <1>4, <1>8, <1>12, <2>1
<1>14. w % 2 = 0 => 2 * k + n = At(w, 2 * q, 2 * r) /\ k = At(c, q, r)
  BY <1>4, <1>8, <1>10, <1>12
<1> QED
  <2>1. q \in Nat /\ r \in Nat /\ 2 * q + 1 < w /\ 2 * r + 1 < h
    BY <1>5
  <2> QED
    BY <2>1, <1>1, <1>2, <1>4, <1>6, <1>7, <1>8, <1>11, <1>13, <1>14

LEMMA ReadHalfStep ==
  ASSUME ColourInv, ReadHalf
  PROVE  ColourInv'
<1>1. /\ stage = "decode" /\ layout.kind = "half" /\ p \in HalfPixels /\ p' = p + 1
      /\ Busy /\ UNCHANGED <<stage, size, format, image, yuv, layout, sample>>
  BY DEF ReadHalf, Busy
<1>2. PICK w \in Nat \ {0}, h \in Nat \ {0} : w = width /\ h = height
  BY DEF ColourInv, StateInv
<1>3. p \in 0..(YSize(w \div 2, h \div 2) - 1)
  BY <1>1, <1>2 DEF HalfPixels, halfWidth
<1>4. PICK q \in Nat, r \in Nat :
           /\ q = p % (w \div 2) /\ r = p \div (w \div 2)
           /\ q \in 0..((w + 1) \div 2 - 1) /\ r \in 0..((h + 1) \div 2 - 1)
           /\ 2 * q + 1 < w /\ 2 * r + 1 < h
           /\ p \in Nat /\ r * w \in Nat
           /\ 2 * p + r * w + w + 1 < YSize(w, h)
           /\ 2 * p + 1 < UVSize(w, h)
           /\ w % 2 = 0 => /\ 2 * p + r * w = At(w, 2 * q, 2 * r)
                           /\ p = At((w + 1) \div 2, q, r)
  BY <1>3, HalfBytes
<1>5. /\ q = p % halfWidth /\ r = p \div halfWidth
      /\ q \in 0..(Columns - 1) /\ r \in 0..(Rows - 1)
      /\ w % 2 = 0 => p = At(Columns, q, r)
  BY <1>2, <1>4 DEF halfWidth, Columns, Rows
<1>6. PICK at \in Nat : at = 2 * p + r * w
  BY <1>4
<1>7. /\ ySize \in Nat /\ UVSize(w, h) \in Nat /\ YUVByteSize(w, h) = ySize + UVSize(w, h)
      /\ at + w + 1 < ySize /\ p < ySize
  <2>1. /\ ySize \in Nat /\ UVSize(w, h) \in Nat /\ YUVByteSize(w, h) = ySize + UVSize(w, h)
    BY <1>2, <1>5, UVAtRange DEF ColourInv
  <2>2. at + w + 1 < ySize
    BY <1>2, <1>4, <1>6 DEF ySize
  <2> QED
    BY <1>4, <1>6, <2>1, <2>2
<1>8. /\ at \in 0..(ySize - 1) /\ at + 1 \in 0..(ySize - 1)
      /\ at + w \in 0..(ySize - 1) /\ at + w + 1 \in 0..(ySize - 1)
      /\ 2 * p \in 0..(UVSize(w, h) - 1) /\ 2 * p + 1 \in 0..(UVSize(w, h) - 1)
  BY <1>4, <1>7
<1>9. yuv \in [0..(YUVByteSize(w, h) - 1) -> Byte]
  BY <1>1, <1>2 DEF ColourInv, BufferInv
<1>10. PICK i \in Byte, j \in Byte, k \in Byte, l \in Byte, nU \in Byte, nV \in Byte :
         /\ i = yuv[at] /\ j = yuv[at + 1] /\ k = yuv[at + w] /\ l = yuv[at + w + 1]
         /\ nU = yuv[ySize + 2 * p + 1] /\ nV = yuv[ySize + 2 * p]
  <2>1. /\ at \in 0..(YUVByteSize(w, h) - 1) /\ at + 1 \in 0..(YUVByteSize(w, h) - 1)
        /\ at + w \in 0..(YUVByteSize(w, h) - 1) /\ at + w + 1 \in 0..(YUVByteSize(w, h) - 1)
        /\ ySize + 2 * p \in 0..(YUVByteSize(w, h) - 1)
        /\ ySize + 2 * p + 1 \in 0..(YUVByteSize(w, h) - 1)
    BY <1>4, <1>7, <1>8
  <2> QED
    BY <1>9, <2>1
<1>11. PICK nY \in Int : nY = (i + j + k + l) \div 4
  BY DEF Byte
<1>12. PICK c \in RGB : c = Pack8888(Channels(nY, nU, nV))
  <2>1. nU \in Int /\ nV \in Int
    BY DEF Byte
  <2> QED
    BY <2>1, ChannelRange
<1>13. out' = Append(out, c)
  BY <1>2, <1>5, <1>6, <1>10, <1>11, <1>12 DEF ReadHalf
<1>14. InBoundsUnlessHalfPlanes'
  <2>1. touched' = <<{at, at + 1, at + w, at + w + 1}, {2 * p, 2 * p + 1}>>
    BY <1>2, <1>5, <1>6 DEF ReadHalf
  <2>2. YBytes' = ySize /\ UVBytes' = UVSize(w, h)
    BY <1>1, <1>2, SameImage DEF YBytes, UVBytes
  <2> QED
    BY <1>1, <1>8, <2>1, <2>2 DEF InBoundsUnlessHalfPlanes
<1>15. ASSUME layout.kind = "planes"
           \/ (layout.kind # "halfPlanes" /\ width % 2 = 0 /\ height % 2 = 0)
       PROVE  c = OwnColour(p)
  <2>1. w % 2 = 0
    BY <1>1, <1>2, <1>15
  <2>2. ySize + 2 * p = UVAt(q, r)
    BY <1>5, <2>1 DEF UVAt
  <2>3. nU = BlockSum(SharesU, q, r) /\ nV = BlockSum(SharesV, q, r)
    BY <1>1, <1>5, <1>10, <2>2, Stored
  <2>4. /\ i = Lumas[at] /\ j = Lumas[at + 1] /\ k = Lumas[at + w] /\ l = Lumas[at + w + 1]
    BY <1>1, <1>8, <1>10, Stored DEF Pixels
  <2>5. /\ at = (2 * r) * w + 2 * q /\ at + 1 = (2 * r) * w + (2 * q + 1)
        /\ at + w = (2 * r + 1) * w + 2 * q /\ at + w + 1 = (2 * r + 1) * w + (2 * q + 1)
    <3>1. PICK n \in Nat : n = (2 * r) * w
      BY Monotone
    <3>2. (2 * r + 1) * w = n + w
      BY <3>1
    <3>3. at = n + 2 * q
      BY <1>4, <1>6, <2>1, <3>1 DEF At
    <3> QED
      BY <3>1, <3>2, <3>3
  <2>6. BlockSum(Lumas, q, r) = i + j + k + l
    <3>1. /\ Corner(Lumas, 2 * q, 2 * r) = i /\ Corner(Lumas, 2 * q + 1, 2 * r) = j
          /\ Corner(Lumas, 2 * q, 2 * r + 1) = k /\ Corner(Lumas, 2 * q + 1, 2 * r + 1) = l
      <4>1. 2 * q < width /\ 2 * q + 1 < width /\ 2 * r < height /\ 2 * r + 1 < height
        BY <1>2, <1>4
      <4> QED
        BY <1>2, <2>4, <2>5, <4>1, Zenon DEF Corner
    <3> QED
      BY <3>1, Zenon DEF BlockSum
  <2>7. c = Pack8888(Channels(BlockSum(Lumas, q, r) \div 4, BlockSum(SharesU, q, r),
                              BlockSum(SharesV, q, r)))
    BY <1>11, <1>12, <2>3, <2>6
  <2> QED
    BY <1>1, <1>5, <2>7 DEF OwnColour
<1> QED
  BY <1>1, <1>7, <1>13, <1>14, <1>15, ReadStep

-----------------------------------------------------------------------------
(* The readers of the planes of a camera.                                  *)

(* A plane with rows of length n, of which the first w are samples.        *)
LEMMA PlaneBytes ==
  ASSUME NEW w \in Nat \ {0}, NEW h \in Nat \ {0}, NEW n \in Nat, w <= n,
         NEW x \in 0..(w - 1), NEW y \in 0..(h - 1)
  PROVE  /\ n * y + x \in 0..(n * (h - 1) + w - 1)
         /\ n * (h - 1) + w \in Nat
         /\ (n * y + x) \div n = y /\ (n * y + x) % n = x
<1>1. n \in Nat \ {0} /\ x \in 0..(n - 1) /\ y \in Nat /\ h - 1 \in Nat
  OBVIOUS
<1>2. y * n \in Nat /\ (h - 1) * n \in Nat /\ y * n <= (h - 1) * n
  BY <1>1, Monotone
<1>3. n * y = y * n /\ n * (h - 1) = (h - 1) * n
  BY <1>1
<1>4. (y * n + x) \div n = y /\ (y * n + x) % n = x
  BY <1>1, RowAndColumn
<1>5. /\ n * y + x \in 0..(n * (h - 1) + w - 1)
      /\ n * (h - 1) + w \in Nat
  BY <1>2, <1>3
<1> QED
  BY <1>3, <1>4, <1>5

(* What the Y plane of a camera holds is bytes.                            *)
LEMMA PlaneYBytes ==
  ASSUME ColourInv, Busy
  PROVE  /\ YCapacity \in Nat /\ ySize \in Nat /\ ySize <= YCapacity
         /\ \A k \in 0..(YCapacity - 1) : PlaneY(k) \in Byte
<1>1. PICK w \in Nat \ {0}, h \in Nat \ {0}, pad \in Nat :
        w = width /\ h = height /\ pad = layout.pad
  BY DEF ColourInv, StateInv
<1>2. PICK n \in Nat \ {0} : n = w + pad /\ n = YStride
  BY <1>1 DEF YStride
<1>3. PICK e \in Nat : e = n * (h - 1)
  BY Monotone
<1>4. YCapacity = e + w
  BY <1>1, <1>2, <1>3 DEF YCapacity
<1>5. /\ ySize \in Nat /\ ySize <= e + w
      /\ YSize(n, h) \in Nat /\ YSize(n, h) = e + n
  <2>1. w * (h - 1) \in Nat /\ w * (h - 1) <= n * (h - 1)
    <3>1. h - 1 \in Nat /\ w <= n
      BY <1>2
    <3> QED
      BY <3>1, Monotone
  <2>2. w * h = w * (h - 1) + w /\ n * h = n * (h - 1) + n
    OBVIOUS
  <2>3. ySize = w * h /\ YSize(n, h) = n * h
    BY <1>1 DEF ySize, YSize
  <2> QED
    BY <1>3, <2>1, <2>2, <2>3
<1>6. ASSUME NEW k \in 0..(YCapacity - 1) PROVE PlaneY(k) \in Byte
  <2>1. k \in 0..(YSize(n, h) - 1)
    BY <1>2, <1>4, <1>5
  <2>2. PICK x \in Nat, y \in 0..(h - 1) : x = k % n /\ y = k \div n
    <3>1. k % n \in 0..(n - 1) /\ k \div n \in 0..(h - 1)
      BY <2>1, Pixel
    <3> QED
      BY <3>1
  <2>3. CASE x < w
    <3>1. At(w, x, y) \in 0..(YSize(w, h) - 1)
      BY <2>3, Position
    <3>2. y * w + x \in 0..(YUVByteSize(w, h) - 1)
      <4>1. /\ YUVByteSize(w, h) = YSize(w, h) + UVSize(w, h)
            /\ UVSize(w, h) \in Nat /\ YSize(w, h) \in Nat
        <5>1. PICK c \in Nat \ {0}, d \in Nat \ {0} : c = (w + 1) \div 2 /\ d = (h + 1) \div 2
          OBVIOUS
        <5>2. YSize(c, d) \in Nat /\ UVSize(w, h) = 2 * YSize(c, d)
          BY <5>1, UVBytesOf
        <5>3. YSize(w, h) \in Nat
          BY Area
        <5> QED
          BY <5>2, <5>3 DEF YUVByteSize
      <4> QED
        BY <3>1, <4>1 DEF At
    <3>3. PlaneY(k) = yuv[y * w + x]
      BY <1>1, <1>2, <2>2, <2>3 DEF PlaneY
    <3> QED
      BY <1>1, <3>2, <3>3 DEF ColourInv, BufferInv
  <2>4. CASE ~(x < w)
    <3>1. PlaneY(k) = Leftover
      BY <1>1, <1>2, <2>2, <2>4 DEF PlaneY
    <3> QED
      BY <3>1, ColourAssumption DEF Byte
  <2> QED
    BY <2>3, <2>4
<1> QED
  BY <1>4, <1>5, <1>6

LEMMA ReadHalfPlanesStep ==
  ASSUME ColourInv, ReadHalfPlanes
  PROVE  ColourInv'
<1>1. /\ stage = "decode" /\ layout.kind = "halfPlanes" /\ p \in HalfPixels
      /\ Busy /\ UNCHANGED <<size, format, image, yuv, layout, sample>>
  BY DEF ReadHalfPlanes, Busy
<1>2. PICK w \in Nat \ {0}, h \in Nat \ {0} : w = width /\ h = height
  BY DEF ColourInv, StateInv
<1>3. p \in 0..(YSize(w \div 2, h \div 2) - 1)
  BY <1>1, <1>2 DEF HalfPixels, halfWidth
<1>4. PICK q \in Nat, r \in Nat :
           /\ q = p % (w \div 2) /\ r = p \div (w \div 2)
           /\ q \in 0..((w + 1) \div 2 - 1) /\ r \in 0..((h + 1) \div 2 - 1)
           /\ 2 * q + 1 < w /\ 2 * r + 1 < h
           /\ p \in Nat /\ r * w \in Nat
           /\ 2 * p + r * w + w + 1 < YSize(w, h)
           /\ 2 * p + 1 < UVSize(w, h)
           /\ w % 2 = 0 => /\ 2 * p + r * w = At(w, 2 * q, 2 * r)
                           /\ p = At((w + 1) \div 2, q, r)
  BY <1>3, HalfBytes
<1>5. r = p \div halfWidth
  BY <1>2, <1>4 DEF halfWidth
<1>6. PICK at \in Nat : at = 2 * p + r * w
  BY <1>4
<1>7. /\ YCapacity \in Nat /\ ySize \in Nat /\ ySize <= YCapacity
      /\ \A k \in 0..(YCapacity - 1) : PlaneY(k) \in Byte
  BY <1>1, PlaneYBytes
<1>8. at + w + 1 < ySize /\ p < ySize
  <2>1. at + w + 1 < ySize
    BY <1>2, <1>4, <1>6 DEF ySize
  <2> QED
    BY <1>4, <1>6, <1>7, <2>1
<1>9. /\ at \in 0..(YCapacity - 1) /\ at + 1 \in 0..(YCapacity - 1)
      /\ at + w \in 0..(YCapacity - 1) /\ at + w + 1 \in 0..(YCapacity - 1)
  BY <1>7, <1>8
<1>10. UVSize(w, h) \in Int /\ 2 * p \in 0..(UVSize(w, h) - 1) /\ 2 * p + 1 \in 0..(UVSize(w, h) - 1)
  <2>1. UVSize(w, h) \in Int
    BY DEF UVSize
  <2> QED
    BY <1>4, <2>1
<1>11. touched' = <<{at, at + 1, at + w, at + w + 1}, {2 * p, 2 * p + 1}>>
  BY <1>2, <1>5, <1>6 DEF ReadHalfPlanes
<1>12. YBytes' = YCapacity /\ UVBytes' = UVSize(w, h) /\ YCapacity' = YCapacity /\ ySize' = ySize
  <2>1. width' = width /\ height' = height /\ ySize' = ySize
    BY <1>1, SameImage
  <2> QED
    BY <1>1, <1>2, <2>1 DEF YBytes, UVBytes, YCapacity, YStride
<1>13. /\ \A k \in touched'[1] : k \in 0..(YBytes' - 1)
       /\ \A k \in touched'[2] : k \in 0..(UVBytes' - 1)
  BY <1>9, <1>10, <1>11, <1>12
<1>14. PICK nY \in Int : nY = (PlaneY(at) + PlaneY(at + 1) + PlaneY(at + w)
                                 + PlaneY(at + w + 1)) \div 4
  <2>1. /\ PlaneY(at) \in Byte /\ PlaneY(at + 1) \in Byte
        /\ PlaneY(at + w) \in Byte /\ PlaneY(at + w + 1) \in Byte
    BY <1>7, <1>9, Zenon
  <2>2. \A i, j, k, l \in Byte : (i + j + k + l) \div 4 \in Int
    BY DEF Byte
  <2> QED
    BY <2>1, <2>2, Zenon
<1>15. CASE /\ \E nV \in BytesAt(ySize + 2 * p), nU \in BytesAt(ySize + 2 * p + 1) :
                 out' = Append(out, Pack8888(Channels(nY, nU, nV)))
            /\ p' = p + 1 /\ UNCHANGED stage
  <2>1. PICK nV \in BytesAt(ySize + 2 * p), nU \in BytesAt(ySize + 2 * p + 1) :
          out' = Append(out, Pack8888(Channels(nY, nU, nV)))
    BY <1>15
  <2>2. nV \in Int /\ nU \in Int
    <3>1. ASSUME NEW k \in Nat, NEW v \in BytesAt(k) PROVE v \in Int
      <4>1. CASE k < YCapacity
        BY <1>7, <3>1, <4>1 DEF BytesAt, Byte
      <4>2. CASE ~(k < YCapacity)
        <5>1. Beyond \subseteq 0..255
          BY ColourAssumption
        <5>2. v \in Beyond
          BY <3>1, <4>2, Zenon DEF BytesAt
        <5> QED
          BY <5>1, <5>2
      <4> QED
        BY <4>1, <4>2
    <3>2. ySize + 2 * p \in Nat /\ ySize + 2 * p + 1 \in Nat
      BY <1>4, <1>7
    <3> QED
      BY <3>1, <3>2
  <2>3. PICK c \in RGB : c = Pack8888(Channels(nY, nU, nV))
    BY <2>2, ChannelRange
  <2>4. out' = Append(out, c)
    BY <2>1, <2>3
  <2>5. InBoundsUnlessHalfPlanes'
    BY <1>1, <1>13, <1>15 DEF InBoundsUnlessHalfPlanes
  <2> QED
    BY <1>1, <1>8, <1>15, <2>4, <2>5, ReadStep
<1>16. CASE /\ ySize + 2 * p + 1 >= YCapacity
            /\ stage' = "crashed" /\ UNCHANGED <<out, p>>
  <2>1. width' = width /\ height' = height /\ ySize' = ySize
    BY <1>1, SameImage
  <2>2. StateInv'
    BY <1>1, <1>16, <2>1 DEF ColourInv, StateInv, Reading, Busy
  <2>3. Written' = Written
    BY <1>1, <1>16, <2>1 DEF Written
  <2>4. InBoundsUnlessHalfPlanes'
    <3>1. 2 * p + 1 \in touched'[2] /\ ySize' + (2 * p + 1) >= YCapacity'
      BY <1>4, <1>7, <1>11, <1>12, <1>16
    <3> QED
      BY <1>1, <1>13, <3>1 DEF InBoundsUnlessHalfPlanes
  <2>5. DecodedFromOwnBlock'
    BY <1>1, <1>16, SameOutput DEF ColourInv
  <2> QED
    BY <1>1, <2>2, <2>3, <2>4, <2>5, BufferStays DEF ColourInv
<1> QED
  BY <1>2, <1>5, <1>6, <1>14, <1>15, <1>16 DEF ReadHalfPlanes

LEMMA ReadPlanesStep ==
  ASSUME ColourInv, ReadPlanes
  PROVE  ColourInv'
<1>1. /\ stage = "decode" /\ layout.kind = "planes" /\ p \in Pixels /\ p' = p + 1
      /\ Busy /\ UNCHANGED <<stage, size, format, image, yuv, layout, sample>>
  BY DEF ReadPlanes, Busy
<1>2. PICK w \in Nat \ {0}, h \in Nat \ {0} : w = width /\ h = height
  BY DEF ColourInv, StateInv
<1>3. PICK c \in Nat \ {0}, d \in Nat \ {0} : c = Columns /\ d = Rows
  BY <1>2 DEF Columns, Rows
<1>4. PICK x \in 0..(w - 1), y \in 0..(h - 1) : x = X(p) /\ y = Y(p)
  BY <1>1, <1>2, InTurn DEF ColourInv
<1>5. PICK a \in 0..(c - 1), b \in 0..(d - 1) : a = X(p) \div 2 /\ b = Y(p) \div 2
  BY <1>1, <1>3, InTurn DEF ColourInv
<1>6. p \in Nat /\ p < ySize /\ ySize \in Nat /\ p = y * w + x
  BY <1>1, <1>2, <1>4, InTurn DEF ColourInv, At
<1>7. PICK px \in {1, 2}, pad \in Nat : px = layout.pixel /\ pad = layout.pad
  BY DEF ColourInv, StateInv
<1>8. PICK n \in Nat, m \in Nat : n = w + pad /\ m = c * px + pad
  OBVIOUS
<1>9. n = YStride /\ m = UVStride
  BY <1>2, <1>3, <1>7, <1>8 DEF YStride, UVStride
<1>10. PICK v \in Nat \ {0} : v = px * (c - 1) + 1
  OBVIOUS
<1>11. v <= m /\ a * px \in 0..(v - 1)
  BY <1>8, <1>10
<1>12. PICK atY \in Nat : /\ atY = n * y + x /\ atY \in 0..(n * (h - 1) + w - 1)
                          /\ atY \div n = y /\ atY % n = x
  <2>1. w <= n
    BY <1>8
  <2>2. /\ n * y + x \in 0..(n * (h - 1) + w - 1) /\ n * (h - 1) + w \in Nat
        /\ (n * y + x) \div n = y /\ (n * y + x) % n = x
    BY <2>1, PlaneBytes
  <2>3. n * y + x \in Nat
    BY <2>2
  <2> QED
    BY <2>2, <2>3, Zenon
<1>13. PICK atUV \in Nat : /\ atUV = m * b + a * px /\ atUV \in 0..(m * (d - 1) + v - 1)
                           /\ atUV \div m = b /\ atUV % m = a * px
  <2>1. /\ m * b + a * px \in 0..(m * (d - 1) + v - 1) /\ m * (d - 1) + v \in Nat
        /\ (m * b + a * px) \div m = b /\ (m * b + a * px) % m = a * px
    BY <1>11, PlaneBytes
  <2>2. m * b + a * px \in Nat
    BY <2>1
  <2> QED
    BY <2>1, <2>2, Zenon
<1>14. YCapacity = n * (h - 1) + w /\ UVCapacity = m * (d - 1) + v
  <2>1. PICK e \in Nat : e = m * (d - 1)
    BY Monotone
  <2>2. UVCapacity = m * (d - 1) + px * (c - 1) + 1
    BY <1>3, <1>7, <1>9 DEF UVCapacity
  <2>3. UVCapacity = m * (d - 1) + v
    BY <1>10, <2>1, <2>2
  <2> QED
    BY <1>2, <1>9, <2>3 DEF YCapacity
<1>15. /\ PlaneY(atY) = Lumas[p] /\ Lumas[p] \in Byte
  <2>1. PlaneY(atY) = yuv[y * w + x]
    BY <1>2, <1>9, <1>12 DEF PlaneY
  <2> QED
    BY <1>1, <1>6, <2>1, Stored
<1>16. /\ PlaneUV(atUV, 0) = BlockSum(SharesV, a, b) /\ PlaneUV(atUV, 1) = BlockSum(SharesU, a, b)
       /\ BlockSum(SharesV, a, b) \in 0..252 /\ BlockSum(SharesU, a, b) \in 0..252
  <2>1. (a * px) % px = 0 /\ (a * px) \div px = a /\ a < c
    <3>1. CASE px = 1
      BY <3>1
    <3>2. CASE px = 2
      BY <3>2
    <3> QED
      BY <3>1, <3>2
  <2>2. PICK i \in Nat : i = b * c + a
    BY <1>3, Order
  <2>3. \A k \in {0, 1} : PlaneUV(atUV, k) = yuv[ySize + 2 * i + k]
    BY <1>3, <1>7, <1>9, <1>13, <2>1, <2>2 DEF PlaneUV
  <2>4. UVAt(a, b) = ySize + 2 * i
    BY <1>3, <2>2 DEF UVAt, At
  <2>5. PlaneUV(atUV, 0) = yuv[UVAt(a, b)] /\ PlaneUV(atUV, 1) = yuv[UVAt(a, b) + 1]
    BY <1>6, <2>3, <2>4
  <2> QED
    BY <1>1, <1>3, <2>5, Stored
<1>17. PICK s \in RGB : s = Pack8888(Channels(Lumas[p], BlockSum(SharesU, a, b),
                                              BlockSum(SharesV, a, b)))
  <2>1. Lumas[p] \in Int /\ BlockSum(SharesU, a, b) \in Int /\ BlockSum(SharesV, a, b) \in Int
    BY <1>15, <1>16 DEF Byte
  <2> QED
    BY <2>1, ChannelRange
<1>18. /\ out' = Append(out, Pack8888(Channels(PlaneY(atY), PlaneUV(atUV, 1), PlaneUV(atUV, 0))))
       /\ touched' = <<{atY}, {atUV}>>
  BY <1>4, <1>5, <1>7, <1>9, <1>12, <1>13 DEF ReadPlanes
<1>19. out' = Append(out, s)
  BY <1>15, <1>16, <1>17, <1>18
<1>20. InBoundsUnlessHalfPlanes'
  <2>1. YBytes' = YCapacity /\ UVBytes' = UVCapacity
    <3>1. width' = width /\ height' = height /\ Columns' = Columns /\ Rows' = Rows
      BY <1>1, SameImage
    <3> QED
      BY <1>1, <3>1 DEF YBytes, UVBytes, YCapacity, UVCapacity, YStride, UVStride
  <2> QED
    BY <1>1, <1>12, <1>13, <1>14, <1>18, <2>1 DEF InBoundsUnlessHalfPlanes
<1>21. s = OwnColour(p)
  BY <1>1, <1>5, <1>17 DEF OwnColour
<1> QED
  BY <1>1, <1>6, <1>19, <1>20, <1>21, ReadStep

-----------------------------------------------------------------------------
(* The arithmetic of YUV2RGB on a single sample.                           *)

LEMMA NearChannel ==
  ASSUME NEW a \in Int, NEW b \in Int,
         1000 * a - 1024 * b <= 131072, 1024 * b - 1000 * a <= 131072
  PROVE  Near((Clamp(a) \div 1024) % 256, b)
<1>1. PICK k \in Int : k = Clamp(a) /\ k = IF a < 0 THEN 0 ELSE IF a > 262143 THEN 262143 ELSE a
  <2>1. /\ Clamp(a) \in Int /\ 0 <= Clamp(a) /\ Clamp(a) <= kMaxChannelValue
        /\ Clamp(a) = IF a < 0 THEN 0 ELSE IF a > kMaxChannelValue THEN kMaxChannelValue ELSE a
    BY ClampRange
  <2>2. kMaxChannelValue = 262143
    BY SMT DEF kMaxChannelValue
  <2>3. Clamp(a) \in Int /\ Clamp(a) = IF a < 0 THEN 0 ELSE IF a > 262143 THEN 262143 ELSE a
    BY <2>1, <2>2, SMT
  <2> QED
    BY <2>3, SMT
<1>2. PICK l \in Int : l = Limited(b) /\ l = IF b < 0 THEN 0 ELSE IF b > 255000 THEN 255000 ELSE b
  BY Clipped, SMT DEF Limited
<1>3. PICK q \in Int : q = k \div 1024 /\ 1024 * q <= k /\ k < 1024 * q + 1024
  BY <1>1, SMT
<1>4. q >= 0 /\ q <= 255
  BY <1>1, <1>3, SMT
<1>5. q % 256 = q
  BY <1>4, SMT
<1>6. 1000 * q - l <= 1500 /\ l - 1000 * q <= 1500
  BY <1>1, <1>2, <1>3, SMT
<1>7. 1000 * q - l \in -1500..1500
  BY <1>6, SMT
<1> QED
  BY <1>1, <1>2, <1>3, <1>5, <1>7 DEF Near

LEMMA HighBits ==
  ASSUME NEW a \in Int
  PROVE  /\ (Clamp(a) \div 8192) % 32 = ((Clamp(a) \div 1024) % 256) \div 8
         /\ (Clamp(a) \div 4096) % 64 = ((Clamp(a) \div 1024) % 256) \div 4
<1>1. PICK k \in Int : k = Clamp(a) /\ 0 <= k /\ k <= 262143
  <2>1. Clamp(a) \in Int /\ 0 <= Clamp(a) /\ Clamp(a) <= kMaxChannelValue
    BY ClampRange
  <2>2. kMaxChannelValue = 262143
    BY SMT DEF kMaxChannelValue
  <2>3. Clamp(a) \in Int /\ 0 <= Clamp(a) /\ Clamp(a) <= 262143
    BY <2>1, <2>2, SMT
  <2> QED
    BY <2>3, SMT
<1>2. (k \div 8192) % 32 = ((k \div 1024) % 256) \div 8
  BY <1>1, SMT
<1>3. (k \div 4096) % 64 = ((k \div 1024) % 256) \div 4
  BY <1>1, SMT
<1> QED
  BY <1>1, <1>2, <1>3

LEMMA SampleNear ==
  ASSUME sample \in RGB
  PROVE  SamplesAreBT601
<1>1. PICK nY \in 0..255, nU \in 0..255, nV \in 0..255 :
        nY = sample[1] /\ nU = sample[2] /\ nV = sample[3]
  BY DEF RGB, Byte
<1>2. PICK z \in Int : z = nY - 16
  OBVIOUS
<1>3. PICK y \in 0..239 : y = Max({z, 0})
  <2>1. Max({z, 0}) = IF z >= 0 THEN z ELSE 0
    BY MaxOfTwo
  <2>2. (IF z >= 0 THEN z ELSE 0) \in 0..239
    BY <1>2
  <2> QED
    BY <2>1, <2>2
<1>4. PICK u \in Int, v \in Int : u = nU - 128 /\ v = nV - 128 /\ u >= -128 /\ u <= 127
                                /\ v >= -128 /\ v <= 127
  OBVIOUS
<1>5. PICK r \in Int, g \in Int, b \in Int :
        /\ r = 1192 * y + 1634 * v /\ g = 1192 * y - 833 * v - 400 * u /\ b = 1192 * y + 2066 * u
  BY SMT
<1>6. PICK r0 \in Int, g0 \in Int, b0 \in Int :
        /\ r0 = 1164 * y + 1596 * v /\ g0 = 1164 * y - 813 * v - 391 * u /\ b0 = 1164 * y + 2018 * u
  BY SMT
<1>7. Near((Clamp(r) \div 1024) % 256, r0)
  <2>1. 1000 * r - 1024 * r0 <= 131072 /\ 1024 * r0 - 1000 * r <= 131072
    BY <1>4, <1>5, <1>6, SMT
  <2> QED
    BY <2>1, NearChannel, SMT
<1>8. Near((Clamp(g) \div 1024) % 256, g0)
  <2>1. 1000 * g - 1024 * g0 <= 131072 /\ 1024 * g0 - 1000 * g <= 131072
    BY <1>4, <1>5, <1>6, SMT
  <2> QED
    BY <2>1, NearChannel, SMT
<1>9. Near((Clamp(b) \div 1024) % 256, b0)
  <2>1. 1000 * b - 1024 * b0 <= 131072 /\ 1024 * b0 - 1000 * b <= 131072
    BY <1>4, <1>5, <1>6, SMT
  <2> QED
    BY <2>1, NearChannel, SMT
<1>10. Channels(nY, nU, nV) = <<Clamp(r), Clamp(g), Clamp(b)>>
  BY <1>2, <1>3, <1>4, <1>5, SMT DEF Channels
<1>11. Pack8888(Channels(nY, nU, nV))
         = <<(Clamp(r) \div 1024) % 256, (Clamp(g) \div 1024) % 256, (Clamp(b) \div 1024) % 256>>
  BY <1>10, SMT DEF Pack8888
<1>12. Pack565(Channels(nY, nU, nV))
         = <<((Clamp(r) \div 1024) % 256) \div 8, ((Clamp(g) \div 1024) % 256) \div 4,
             ((Clamp(b) \div 1024) % 256) \div 8>>
  <2>1. Pack565(Channels(nY, nU, nV))
          = <<(Clamp(r) \div 8192) % 32, (Clamp(g) \div 4096) % 64, (Clamp(b) \div 8192) % 32>>
    BY <1>10, SMT DEF Pack565
  <2>2. (Clamp(r) \div 8192) % 32 = ((Clamp(r) \div 1024) % 256) \div 8
    BY HighBits, SMT
  <2>3. (Clamp(g) \div 4096) % 64 = ((Clamp(g) \div 1024) % 256) \div 4
    BY HighBits, SMT
  <2>4. (Clamp(b) \div 8192) % 32 = ((Clamp(b) \div 1024) % 256) \div 8
    BY HighBits, SMT
  <2> QED
    BY <2>1, <2>2, <2>3, <2>4, SMT
<1>13. PICK cr, cg, cb :
         /\ cr = (Clamp(r) \div 1024) % 256 /\ cg = (Clamp(g) \div 1024) % 256
         /\ cb = (Clamp(b) \div 1024) % 256
  BY SMT
<1>14. /\ Pack8888(Channels(sample[1], sample[2], sample[3])) = <<cr, cg, cb>>
       /\ Pack565(Channels(sample[1], sample[2], sample[3])) = <<cr \div 8, cg \div 4, cb \div 8>>
  BY <1>1, <1>11, <1>12, <1>13, SMT
<1>15. /\ Max({sample[1] - 16, 0}) = y /\ sample[2] - 128 = u /\ sample[3] - 128 = v
  BY <1>1, <1>2, <1>3, <1>4, SMT
<1>16. Near(cr, r0) /\ Near(cg, g0) /\ Near(cb, b0)
  BY <1>7, <1>8, <1>9, <1>13, SMT
<1> QED
  BY <1>6, <1>14, <1>15, <1>16, SMT DEF SamplesAreBT601

-----------------------------------------------------------------------------
(* The chroma of a whole block, whose four pixels all belong to the image. *)

LEMMA WholeBlock ==
  ASSUME StateInv, NEW a \in 0..(width \div 2 - 1), NEW b \in 0..(height \div 2 - 1)
  PROVE  /\ a \in 0..(Columns - 1) /\ b \in 0..(Rows - 1)
         /\ \E i, j, k, l \in Pixels : \A f :
              BlockSum(f, a, b) = f[i] + f[j] + f[k] + f[l]
<1>1. PICK w \in Nat \ {0}, h \in Nat \ {0} : w = width /\ h = height
  BY DEF StateInv
<1>2. PICK x \in Nat, y \in Nat : x = 2 * a /\ y = 2 * b
  BY <1>1
<1>3. x \in 0..(w - 1) /\ x + 1 \in 0..(w - 1) /\ y \in 0..(h - 1) /\ y + 1 \in 0..(h - 1)
  BY <1>1, <1>2
<1>4. ASSUME NEW u \in 0..(w - 1), NEW v \in 0..(h - 1)
      PROVE  /\ At(w, u, v) \in Pixels
             /\ \A f : Corner(f, u, v) = f[At(w, u, v)]
  <2>1. At(w, u, v) \in Pixels
    BY <1>1, Position DEF Pixels, ySize
  <2>2. u < width /\ v < height
    BY <1>1
  <2> QED
    BY <1>1, <2>1, <2>2, Zenon DEF Corner, At
<1>5. PICK i \in Pixels : \A f : Corner(f, x, y) = f[i]
  BY <1>3, <1>4, Zenon
<1>6. PICK j \in Pixels : \A f : Corner(f, x + 1, y) = f[j]
  BY <1>3, <1>4, Zenon
<1>7. PICK k \in Pixels : \A f : Corner(f, x, y + 1) = f[k]
  BY <1>3, <1>4, Zenon
<1>8. PICK l \in Pixels : \A f : Corner(f, x + 1, y + 1) = f[l]
  BY <1>3, <1>4, Zenon
<1>9. \A f : BlockSum(f, a, b) = f[i] + f[j] + f[k] + f[l]
  BY <1>2, <1>5, <1>6, <1>7, <1>8, Zenon DEF BlockSum
<1>10. a \in 0..(Columns - 1) /\ b \in 0..(Rows - 1)
  BY <1>1 DEF Columns, Rows
<1> QED
  BY <1>9, <1>10, Zenon

LEMMA RawShare ==
  ASSUME NEW c \in RGB
  PROVE  /\ RawV(c) \in Int /\ RawU(c) \in Int
         /\ ShareV(c) = (RawV(c) + 128) \div 1024 + 32
         /\ ShareU(c) = (RawU(c) + 128) \div 1024 + 32
<1>1. PICK r \in 0..255, g \in 0..255, b \in 0..255 : r = c[1] /\ g = c[2] /\ b = c[3]
  BY DEF RGB, Byte
<1>2. RawV(c) \in Int /\ RawU(c) \in Int
  BY <1>1 DEF RawV, RawU
<1> QED
  BY <1>2 DEF RawV, RawU, ShareV, ShareU

LEMMA AverageOfBlock ==
  ASSUME ColourInv
  PROVE  ChromaIsAverage
<1>1. SUFFICES ASSUME stage = "encoded",
                      NEW a \in 0..(width \div 2 - 1), NEW b \in 0..(height \div 2 - 1)
               PROVE  LET o == ySize + 2 * (b * Columns + a)
                      IN  /\ BlockSum(RawsV, a, b) + 512 - 1024 * (yuv[o] - 128) \in 0..4095
                          /\ BlockSum(RawsU, a, b) + 512 - 1024 * (yuv[o + 1] - 128) \in 0..4095
  BY Zenon DEF ChromaIsAverage
<1>2. a \in 0..(Columns - 1) /\ b \in 0..(Rows - 1)
  BY WholeBlock DEF ColourInv
<1>3. PICK i \in Pixels, j \in Pixels, k \in Pixels, l \in Pixels : \A f :
        BlockSum(f, a, b) = f[i] + f[j] + f[k] + f[l]
  BY WholeBlock DEF ColourInv
<1>4. Busy /\ stage # "encode"
  BY <1>1 DEF Busy
<1>5. /\ yuv[ySize + 2 * (b * Columns + a)] = BlockSum(SharesV, a, b)
      /\ yuv[ySize + 2 * (b * Columns + a) + 1] = BlockSum(SharesU, a, b)
  <2>1. ySize + 2 * (b * Columns + a) = UVAt(a, b)
    BY DEF UVAt, At
  <2> QED
    BY <1>2, <1>4, <2>1, Stored
<1>6. \A m \in Pixels : /\ RawsV[m] \in Int /\ RawsU[m] \in Int
                        /\ SharesV[m] = (RawsV[m] + 128) \div 1024 + 32
                        /\ SharesU[m] = (RawsU[m] + 128) \div 1024 + 32
  <2>1. ASSUME NEW m \in Pixels
        PROVE  /\ RawsV[m] \in Int /\ RawsU[m] \in Int
               /\ SharesV[m] = (RawsV[m] + 128) \div 1024 + 32
               /\ SharesU[m] = (RawsU[m] + 128) \div 1024 + 32
    <3>1. Colour(m) \in RGB
      BY <1>4 DEF ColourInv, BufferInv
    <3>2. /\ RawsV[m] = RawV(Colour(m)) /\ RawsU[m] = RawU(Colour(m))
          /\ SharesV[m] = ShareV(Colour(m)) /\ SharesU[m] = ShareU(Colour(m))
      BY DEF RawsV, RawsU, SharesV, SharesU
    <3> QED
      BY <3>1, <3>2, RawShare
  <2> QED
    BY <2>1
<1>7. ASSUME NEW f, NEW g,
             \A m \in Pixels : f[m] \in Int /\ g[m] = (f[m] + 128) \div 1024 + 32
      PROVE  BlockSum(f, a, b) + 512 - 1024 * (BlockSum(g, a, b) - 128) \in 0..4095
  <2>1. PICK e1 \in Int, d1 \in Int :
          /\ e1 = f[i] /\ g[i] = d1 + 32
          /\ 1024 * d1 <= e1 + 128 /\ e1 + 128 < 1024 * d1 + 1024
    BY <1>7, Rounded
  <2>2. PICK e2 \in Int, d2 \in Int :
          /\ e2 = f[j] /\ g[j] = d2 + 32
          /\ 1024 * d2 <= e2 + 128 /\ e2 + 128 < 1024 * d2 + 1024
    BY <1>7, Rounded
  <2>3. PICK e3 \in Int, d3 \in Int :
          /\ e3 = f[k] /\ g[k] = d3 + 32
          /\ 1024 * d3 <= e3 + 128 /\ e3 + 128 < 1024 * d3 + 1024
    BY <1>7, Rounded
  <2>4. PICK e4 \in Int, d4 \in Int :
          /\ e4 = f[l] /\ g[l] = d4 + 32
          /\ 1024 * d4 <= e4 + 128 /\ e4 + 128 < 1024 * d4 + 1024
    BY <1>7, Rounded
  <2>5. BlockSum(f, a, b) = e1 + e2 + e3 + e4
    BY <1>3, <2>1, <2>2, <2>3, <2>4
  <2>6. BlockSum(g, a, b) = (d1 + 32) + (d2 + 32) + (d3 + 32) + (d4 + 32)
    BY <1>3, <2>1, <2>2, <2>3, <2>4
  <2>7. PICK s \in Int, t \in Int : s = BlockSum(f, a, b) /\ t = BlockSum(g, a, b)
    BY <2>5, <2>6
  <2>8. s + 512 - 1024 * (t - 128) \in 0..4095
    <3>1. s = e1 + e2 + e3 + e4 /\ t = d1 + d2 + d3 + d4 + 128
      BY <2>5, <2>6, <2>7
    <3>2. 0 <= s + 512 - 1024 * (t - 128) /\ s + 512 - 1024 * (t - 128) <= 4095
      BY <2>1, <2>2, <2>3, <2>4, <3>1
    <3> QED
      BY <3>2
  <2> QED
    BY <2>7, <2>8
<1> QED
  BY <1>5, <1>6, <1>7

-----------------------------------------------------------------------------
(* The theorems.                                                           *)

LEMMA Inductive ==
  /\ ColourInit => ColourInv
  /\ ColourInv /\ [ColourNext]_colourVars => ColourInv'
<1>1. ColourInit => ColourInv
  <2>1. SUFFICES ASSUME ColourInit PROVE ColourInv
    OBVIOUS
  <2>2. StateInv
    BY <2>1, IdleState DEF ColourInit
  <2>3. ~Busy
    BY <2>1 DEF ColourInit, Busy
  <2> QED
    BY <2>1, <2>2, <2>3, NothingRead DEF ColourInit, ColourInv, BufferInv, LumaInv, ChromaInv
<1>2. ASSUME ColourInv, [ColourNext]_colourVars
      PROVE  ColourInv'
  <2>1. CASE BeginEncode
    BY <1>2, <2>1, BeginEncodeStep
  <2>2. CASE WriteYUV
    BY <1>2, <2>2, WriteStep
  <2>3. CASE EndEncode
    BY <1>2, <2>3, EndEncodeStep
  <2>4. CASE BeginDecode
    BY <1>2, <2>4, BeginDecodeStep
  <2>5. CASE ReadPlanes
    BY <1>2, <2>5, ReadPlanesStep
  <2>6. CASE ReadSP
    BY <1>2, <2>6, ReadSPStep
  <2>7. CASE ReadHalf
    BY <1>2, <2>7, ReadHalfStep
  <2>8. CASE EndDecode
    BY <1>2, <2>8, EndDecodeStep
  <2>10. CASE ReadHalfPlanes
    BY <1>2, <2>10, ReadHalfPlanesStep
  <2>9. CASE ConvertSample \/ Return \/ UNCHANGED colourVars
    BY <1>2, <2>9, OtherSteps
  <2> QED
    BY <1>2, <2>1, <2>2, <2>3, <2>4, <2>5, <2>6, <2>7, <2>8, <2>9, <2>10
       DEF ColourNext, Encode, Decode
<1> QED
  BY <1>1, <1>2

(* Every buffer and every output pixel holds bytes, the loops stay within  *)
(* the image, and a channel of YUV2RGB has 18 bits before it is shifted.   *)
THEOREM ColourTypeCorrect == ColourSpec => []ColourTypeOK
<1>1. ColourInv => ColourTypeOK
  <2>1. SUFFICES ASSUME ColourInv PROVE ColourTypeOK
    OBVIOUS
  <2>2. p \in 0..ySize
    <3>1. ySize \in Nat
      BY <2>1, Area DEF ColourInv, StateInv, ySize
    <3> QED
      BY <2>1, <3>1 DEF ColourInv, StateInv
  <2>3. \A k \in DOMAIN yuv : yuv[k] \in Byte
    <3>1. CASE Busy
      BY <2>1, <3>1 DEF ColourInv, BufferInv
    <3>2. CASE ~Busy
      BY <2>1, <3>2 DEF ColourInv, StateInv
    <3> QED
      BY <3>1, <3>2
  <2>4. \A k \in DOMAIN out : out[k] \in Byte \X Byte \X Byte
    BY <2>1 DEF ColourInv, StateInv, RGB
  <2>5. \A k \in 1..3 : Channels(sample[1], sample[2], sample[3])[k] \in 0..kMaxChannelValue
    <3>1. sample \in RGB
      BY <2>1 DEF ColourInv, StateInv
    <3>2. sample[1] \in Int /\ sample[2] \in Int /\ sample[3] \in Int
      BY <3>1 DEF RGB, Byte
    <3> QED
      BY <3>2, ChannelRange
  <2> QED
    BY <2>1, <2>2, <2>3, <2>4, <2>5, Zenon DEF ColourTypeOK, ColourInv, StateInv
<1> QED
  BY <1>1, Inductive, PTL DEF ColourSpec

(* WriteYUV and the four readers of yuv2rgb.cc stay inside the buffer of   *)
(* getYUVByteSize bytes and inside a camera's planes, for images of every  *)
(* size, odd ones included, and every stride, but for the chroma that the  *)
(* halfSize branch of convertYUV420ToARGB8888 looks for behind the Y       *)
(* plane; only there can a conversion fault.                               *)
THEOREM OnlyHalfPlanesOverrun == ColourSpec => []InBoundsUnlessHalfPlanes
<1>1. ColourInv => InBoundsUnlessHalfPlanes
  BY DEF ColourInv
<1> QED
  BY <1>1, Inductive, PTL DEF ColourSpec

(* The U and V bytes that WriteYUV sums up in 8 bits, over what the buffer *)
(* held before, are the averages of the four pixels of the block, rounded  *)
(* down by less than 4, for every image and every colour.                  *)
THEOREM ChromaAveraged == ColourSpec => []ChromaIsAverage
<1>1. ColourInv => ChromaIsAverage
  BY AverageOfBlock
<1> QED
  BY <1>1, Inductive, PTL DEF ColourSpec

(* The readers give every pixel the luma of its own pixels and the chroma  *)
(* of its own block: from a camera's planes at full size, for every size   *)
(* and stride, and from the buffer that rgb2yuv.cc wrote where width and   *)
(* height are even.                                                        *)
THEOREM ReadBackOwnBlock == ColourSpec => []DecodedFromOwnBlock
<1>1. ColourInv => DecodedFromOwnBlock
  BY DEF ColourInv
<1> QED
  BY <1>1, Inductive, PTL DEF ColourSpec

(* The fixed-point formulas of YUV2RGB are within one and a half steps of  *)
(* BT.601, and the 565 pixel has the high bits of the 8888 one, for each   *)
(* of the 2^24 samples: the clamp leaves the shifts and masks nothing to   *)
(* cut off.                                                                *)
THEOREM EverySampleIsBT601 == ColourSpec => []SamplesAreBT601
<1>1. ColourInv => SamplesAreBT601
  BY SampleNear DEF ColourInv, StateInv
<1> QED
  BY <1>1, Inductive, PTL DEF ColourSpec

==============================================================================
