--------------------------- MODULE CameraLifecycle ---------------------------
(***************************************************************************)
(* CameraConnectionFragment: how the fragment opens the camera in          *)
(* onResume, runs the preview, and closes it in onPause.                   *)
(*                                                                         *)
(* Three parties interleave:                                               *)
(*   - the UI thread (variable ui): onResume -> openCamera,                *)
(*     onPause -> closeCamera -> stopBackgroundThread;                     *)
(*   - the HandlerThread "ImageListener" (variables thread, queue, bg):    *)
(*     the camera's state callbacks and session callbacks run here, one    *)
(*     message after the other;                                            *)
(*   - the camera service (external), which answers an open call by one    *)
(*     callback and may take the camera away at any later time.            *)
(* They share the fields cameraDevice, captureSession, previewReader and   *)
(* the semaphore cameraOpenCloseLock (variable permits).                   *)
(*                                                                         *)
(* A member of Devices is one call of CameraManager.openCamera: it names   *)
(* the CameraDevice that the call yields and also the session and the      *)
(* ImageReader that createCameraPreviewSession makes for it.               *)
(***************************************************************************)
EXTENDS Naturals, Sequences, FiniteSets

CONSTANTS
  Devices,     \* the open calls of one behaviour (the bound of the model)
  None         \* Java's null

ASSUME NoneAssumption == None \notin Devices

VARIABLES
  ui,             \* where the UI thread is
  surface,        \* textureView.isAvailable()
  finishing,      \* onError called activity.finish()
  permits,        \* the permits of cameraOpenCloseLock
  thread,         \* backgroundThread: none, running or quitting
  queue,          \* the messages of backgroundHandler's looper
  bg,             \* where the background thread is, and for which device
  current,        \* the open call made with the current backgroundHandler
  devState,       \* what has become of each open call
  lost,           \* open cameras the service has taken away
  session,        \* the capture session of each device
  readers,        \* the ImageReaders that are not closed
  cameraId,       \* the field cameraId: null until a camera is chosen
  cameraDevice, captureSession, previewReader,   \* the fields
  crash,          \* the statement whose uncaught exception ended the process
  overtaken       \* history: opens closeCamera did not wait for

svcVars    == <<devState, lost, session>>
threadVars == <<thread, queue, bg, current>>
fields     == <<cameraId, cameraDevice, captureSession, previewReader>>
vars == <<ui, surface, finishing, permits, thread, queue, bg, current, devState,
          lost, session, readers, cameraId, cameraDevice, captureSession,
          previewReader, crash, overtaken>>

-----------------------------------------------------------------------------
(* The places of the two threads.                                          *)

Pausing == {"acquire", "closeSession", "checkDevice", "closeDevice",
            "forgetDevice", "closeReader", "release", "quit", "join"}
UiPlaces == {"paused", "tryAcquire", "open", "resumed"} \union Pausing

MessageKinds == {"onOpened", "onDisconnected", "onError",
                 "onConfigured", "onConfigureFailed"}
BgPlaces == MessageKinds \union
  {"idle", "assign", "createRequest", "newReader", "setListener",
   "createSession", "initialize", "closeLost", "forgetLost", "closeBroken",
   "forgetBroken", "setSession", "setRepeating"}

DeviceStates  == {"unused", "opening", "open", "failed", "refused", "closed"}
SessionStates == {"none", "creating", "configured", "refused", "streaming",
                  "closed"}
Faults == {"none", "tryAcquire", "noCameraId", "noPermission",
           "createPreviewSession", "onConfigured", "closeCamera"}

Messages == [kind : MessageKinds, dev : Devices]

(* The fields of the fragment have their types; the semaphore never counts
   below zero. *)
TypeOK ==
  /\ ui \in UiPlaces
  /\ surface \in BOOLEAN
  /\ finishing \in BOOLEAN
  /\ permits \in Nat
  /\ thread \in {"none", "running", "quitting"}
  /\ queue \in Seq(Messages)
  /\ bg \in [pc : BgPlaces, dev : Devices \union {None}]
  /\ current \in Devices \union {None}
  /\ devState \in [Devices -> DeviceStates]
  /\ lost \subseteq Devices
  /\ session \in [Devices -> SessionStates]
  /\ readers \subseteq Devices
  /\ cameraId \in {"null", "set"}
  /\ cameraDevice \in Devices \union {None}
  /\ captureSession \in Devices \union {None}
  /\ previewReader \in Devices \union {None}
  /\ crash \in Faults
  /\ overtaken \subseteq Devices

Idle == [pc |-> "idle", dev |-> None]

Init ==
  /\ ui = "paused"
  /\ surface = FALSE
  /\ finishing = FALSE
  /\ permits = 1
  /\ thread = "none"
  /\ queue = <<>>
  /\ bg = Idle
  /\ current = None
  /\ devState = [d \in Devices |-> "unused"]
  /\ lost = {}
  /\ session = [d \in Devices |-> "none"]
  /\ readers = {}
  /\ cameraId = "null"
  /\ cameraDevice = None
  /\ captureSession = None
  /\ previewReader = None
  /\ crash = "none"
  /\ overtaken = {}

(* The app holds a connection to the camera.                               *)
Held(d) == devState[d] \in {"opening", "open"}

(* A call on the device in the field cameraDevice throws an unchecked      *)
(* exception: NullPointerException, or IllegalStateException when close()  *)
(* has been called on it.                                                  *)
DeviceUnusable == cameraDevice # None => devState[cameraDevice] = "closed"

(* The onOpened callback of d has not yet stored d in cameraDevice.        *)
OpenInFlight(d) ==
  \/ devState[d] = "opening"
  \/ \E i \in DOMAIN queue : queue[i] = [kind |-> "onOpened", dev |-> d]
  \/ bg.dev = d /\ bg.pc \in {"onOpened", "assign"}

-----------------------------------------------------------------------------
(* The UI thread: onResume and openCamera.                                 *)

(* startBackgroundThread; then openCamera if the surface is there, else    *)
(* the surface listener is set.  Bounded by the open calls left.           *)
OnResume ==
  /\ ui = "paused"
  /\ ~finishing
  /\ \E d \in Devices : devState[d] = "unused"
  /\ thread' = "running"
  /\ current' = None
  /\ ui' = IF surface THEN "tryAcquire" ELSE "resumed"
  /\ UNCHANGED <<surface, finishing, permits, queue, bg, svcVars, readers,
                 fields, crash, overtaken>>

(* The texture view gets its surface while the fragment is resumed, and    *)
(* loses it while the fragment is paused (external: the view system).      *)
OnSurfaceTextureAvailable ==
  /\ ui = "resumed"
  /\ ~surface
  /\ surface' = TRUE
  /\ ui' = "tryAcquire"
  /\ UNCHANGED <<finishing, permits, threadVars, svcVars, readers, fields,
                 crash, overtaken>>

OnSurfaceTextureDestroyed ==
  /\ ui = "paused"
  /\ surface
  /\ surface' = FALSE
  /\ UNCHANGED <<ui, finishing, permits, threadVars, svcVars, readers, fields,
                 crash, overtaken>>

(* Mutant: openCamera does not take the permit.                            *)
TryAcquireForgotten ==
  /\ ui = "tryAcquire"
  /\ cameraId' \in {cameraId, "set"}
  /\ ui' = "open"
  /\ UNCHANGED <<surface, finishing, permits, threadVars, svcVars, readers,
                 cameraDevice, captureSession, previewReader, crash, overtaken>>

(* openCamera: setUpCameraOutputs sets cameraId, unless there is no camera *)
(* to choose or it catches an exception of the camera manager; then        *)
(* tryAcquire.  Without a permit the time limit of 2.5 seconds runs out    *)
(* and openCamera throws RuntimeException.                                 *)
TryAcquire ==
  /\ ui = "tryAcquire"
  /\ cameraId' \in {cameraId, "set"}
  /\ IF permits > 0
       THEN permits' = permits - 1 /\ ui' = "open" /\ UNCHANGED crash
       ELSE crash' = "tryAcquire" /\ UNCHANGED <<permits, ui>>
  /\ UNCHANGED <<surface, finishing, threadVars, svcVars, readers,
                 cameraDevice, captureSession, previewReader, overtaken>>

(* manager.openCamera(cameraId, stateCallback, backgroundHandler) accepts  *)
(* the call, or throws CameraAccessException, which openCamera only logs.  *)
OpenCamera(d) ==
  /\ ui = "open"
  /\ cameraId = "set"
  /\ devState[d] = "unused"
  /\ devState' = [devState EXCEPT ![d] = "opening"]
  /\ current' = d
  /\ ui' = "resumed"
  /\ UNCHANGED <<surface, finishing, permits, thread, queue, bg, lost, session,
                 readers, fields, crash, overtaken>>

OpenCameraRefused(d) ==
  /\ ui = "open"
  /\ cameraId = "set"
  /\ devState[d] = "unused"
  /\ devState' = [devState EXCEPT ![d] = "refused"]
  /\ ui' = "resumed"
  /\ UNCHANGED <<surface, finishing, permits, threadVars, lost, session,
                 readers, fields, crash, overtaken>>

(* It throws what openCamera does not catch: IllegalArgumentException for  *)
(* a cameraId that is null, SecurityException without the permission.      *)
OpenCameraThrows ==
  /\ ui = "open"
  /\ crash' = IF cameraId = "set" THEN "noPermission" ELSE "noCameraId"
  /\ UNCHANGED <<ui, surface, finishing, permits, threadVars, svcVars, readers,
                 fields, overtaken>>

-----------------------------------------------------------------------------
(* The UI thread: onPause, closeCamera and stopBackgroundThread.           *)

OnPause ==
  /\ ui = "resumed"
  /\ ui' = "acquire"
  /\ UNCHANGED <<surface, finishing, permits, threadVars, svcVars, readers,
                 fields, crash, overtaken>>

CloseAcquire ==
  /\ ui = "acquire"
  /\ permits > 0
  /\ permits' = permits - 1
  /\ ui' = "closeSession"
  /\ UNCHANGED <<surface, finishing, threadVars, svcVars, readers, fields,
                 crash, overtaken>>

(* Closing the session and the reader is one step each: the background     *)
(* thread never sets these two fields to null, so the test and the uses of *)
(* the field cannot disagree.                                              *)
CloseSession ==
  /\ ui = "closeSession"
  /\ IF captureSession # None
       THEN session' = [session EXCEPT ![captureSession] = "closed"]
       ELSE UNCHANGED session
  /\ captureSession' = None
  /\ ui' = "checkDevice"
  /\ UNCHANGED <<surface, finishing, permits, threadVars, devState, lost,
                 readers, cameraId, cameraDevice, previewReader, crash,
                 overtaken>>

(* if (null != cameraDevice)                                               *)
CheckDevice ==
  /\ ui = "checkDevice"
  /\ ui' = IF cameraDevice # None THEN "closeDevice" ELSE "closeReader"
  /\ overtaken' = overtaken \union {d \in Devices : OpenInFlight(d)}
  /\ UNCHANGED <<surface, finishing, permits, threadVars, svcVars, readers,
                 fields, crash>>

(* cameraDevice.close(): onDisconnected may have cleared the field since.  *)
CloseDevice ==
  /\ ui = "closeDevice"
  /\ cameraDevice # None
  /\ devState' = [devState EXCEPT ![cameraDevice] = "closed"]
  /\ ui' = "forgetDevice"
  /\ UNCHANGED <<surface, finishing, permits, threadVars, lost, session,
                 readers, fields, crash, overtaken>>

CloseDeviceFails ==
  /\ ui = "closeDevice"
  /\ cameraDevice = None
  /\ crash' = "closeCamera"
  /\ UNCHANGED <<ui, surface, finishing, permits, threadVars, svcVars, readers,
                 fields, overtaken>>

ForgetDevice ==
  /\ ui = "forgetDevice"
  /\ cameraDevice' = None
  /\ ui' = "closeReader"
  /\ UNCHANGED <<surface, finishing, permits, threadVars, svcVars, readers,
                 cameraId, captureSession, previewReader, crash, overtaken>>

(* Mutant: the reader is forgotten but not closed.                         *)
CloseReaderForgotten ==
  /\ ui = "closeReader"
  /\ previewReader' = None
  /\ ui' = "release"
  /\ UNCHANGED <<surface, finishing, permits, threadVars, svcVars, readers,
                 cameraId, cameraDevice, captureSession, crash, overtaken>>

CloseReader ==
  /\ ui = "closeReader"
  /\ readers' = readers \ {previewReader}
  /\ previewReader' = None
  /\ ui' = "release"
  /\ UNCHANGED <<surface, finishing, permits, threadVars, svcVars,
                 cameraId, cameraDevice, captureSession, crash, overtaken>>

(* Mutant: no finally block, the permit is not given back.                 *)
CloseReleaseForgotten ==
  /\ ui = "release"
  /\ ui' = "quit"
  /\ UNCHANGED <<surface, finishing, permits, threadVars, svcVars, readers,
                 fields, crash, overtaken>>

CloseRelease ==
  /\ ui = "release"
  /\ permits' = permits + 1
  /\ ui' = "quit"
  /\ UNCHANGED <<surface, finishing, threadVars, svcVars, readers, fields,
                 crash, overtaken>>

(* quitSafely: the messages in the queue are still run, later ones are     *)
(* refused.  join returns when the thread has run them.                    *)
QuitSafely ==
  /\ ui = "quit"
  /\ thread' = "quitting"
  /\ ui' = "join"
  /\ UNCHANGED <<surface, finishing, permits, queue, bg, current, svcVars,
                 readers, fields, crash, overtaken>>

Join ==
  /\ ui = "join"
  /\ bg = Idle
  /\ queue = <<>>
  /\ thread' = "none"
  /\ ui' = "paused"
  /\ UNCHANGED <<surface, finishing, permits, queue, bg, current, svcVars,
                 readers, fields, crash, overtaken>>

-----------------------------------------------------------------------------
(* The camera service (external).                                          *)

(* A callback reaches the handler its open call was given; a looper that   *)
(* is quitting, or gone, drops it.                                         *)
Post(k, d) ==
  queue' = IF thread = "running" /\ d = current
             THEN Append(queue, [kind |-> k, dev |-> d])
             ELSE queue

ServiceAnswersOpen(d) ==
  /\ devState[d] = "opening"
  /\ \/ /\ devState' = [devState EXCEPT ![d] = "open"]
        /\ Post("onOpened", d)
     \/ /\ devState' = [devState EXCEPT ![d] = "failed"]
        /\ \E k \in {"onDisconnected", "onError"} : Post(k, d)
  /\ UNCHANGED <<ui, surface, finishing, permits, thread, bg, current, lost,
                 session, readers, fields, crash, overtaken>>

(* A client with a higher priority takes an open camera, or it breaks.     *)
ServiceTakesDevice(d) ==
  /\ devState[d] = "open"
  /\ d \notin lost
  /\ lost' = lost \union {d}
  /\ \E k \in {"onDisconnected", "onError"} : Post(k, d)
  /\ UNCHANGED <<ui, surface, finishing, permits, thread, bg, current,
                 devState, session, readers, fields, crash, overtaken>>

ServiceAnswersSession(d) ==
  /\ session[d] = "creating"
  /\ \/ /\ session' = [session EXCEPT ![d] = "configured"]
        /\ Post("onConfigured", d)
     \/ /\ session' = [session EXCEPT ![d] = "refused"]
        /\ Post("onConfigureFailed", d)
  /\ UNCHANGED <<ui, surface, finishing, permits, thread, bg, current,
                 devState, lost, readers, fields, crash, overtaken>>

-----------------------------------------------------------------------------
(* The background thread.                                                  *)

(* The looper takes the next message.  The framework does not deliver a    *)
(* state callback for a device on which close() has been called.           *)
Dispatch ==
  /\ bg = Idle
  /\ queue # <<>>
  /\ LET m == Head(queue)
         stale == /\ m.kind \in {"onOpened", "onDisconnected", "onError"}
                  /\ devState[m.dev] = "closed"
     IN bg' = IF stale THEN Idle ELSE [pc |-> m.kind, dev |-> m.dev]
  /\ queue' = Tail(queue)
  /\ UNCHANGED <<ui, surface, finishing, permits, thread, current, svcVars,
                 readers, fields, crash, overtaken>>

BgGoto(place) == bg' = IF place = "idle" THEN Idle ELSE [bg EXCEPT !.pc = place]

(* Mutant: only onOpened releases.                                         *)
CallbackReleaseOnlyOpened ==
  /\ bg.pc \in {"onOpened", "onDisconnected", "onError"}
  /\ permits' = IF bg.pc = "onOpened" THEN permits + 1 ELSE permits
  /\ CASE bg.pc = "onOpened"       -> BgGoto("assign")
       [] bg.pc = "onDisconnected" -> BgGoto("closeLost")
       [] bg.pc = "onError"        -> BgGoto("closeBroken")
  /\ UNCHANGED <<ui, surface, finishing, thread, queue, current, svcVars,
                 readers, fields, crash, overtaken>>

(* onOpened, onDisconnected and onError begin with release().              *)
CallbackRelease ==
  /\ bg.pc \in {"onOpened", "onDisconnected", "onError"}
  /\ permits' = permits + 1
  /\ CASE bg.pc = "onOpened"       -> BgGoto("assign")
       [] bg.pc = "onDisconnected" -> BgGoto("closeLost")
       [] bg.pc = "onError"        -> BgGoto("closeBroken")
  /\ UNCHANGED <<ui, surface, finishing, thread, queue, current, svcVars,
                 readers, fields, crash, overtaken>>

(* onOpened: cameraDevice = cd.                                            *)
OnOpenedAssign ==
  /\ bg.pc = "assign"
  /\ cameraDevice' = bg.dev
  /\ BgGoto("createRequest")
  /\ UNCHANGED <<ui, surface, finishing, permits, thread, queue, current,
                 svcVars, readers, cameraId, captureSession, previewReader, crash,
                 overtaken>>

(* createCameraPreviewSession: a call on the device is refused by the      *)
(* service (CameraAccessException, logged) only once the device is lost;   *)
(* then the rest of the try block is skipped.                              *)
CreateCaptureRequest ==
  /\ bg.pc = "createRequest"
  /\ ~DeviceUnusable
  /\ \/ BgGoto("newReader")
     \/ cameraDevice \in lost /\ BgGoto("initialize")
  /\ UNCHANGED <<ui, surface, finishing, permits, thread, queue, current,
                 svcVars, readers, fields, crash, overtaken>>

NewPreviewReader ==
  /\ bg.pc = "newReader"
  /\ previewReader' = bg.dev
  /\ readers' = readers \union {bg.dev}
  /\ BgGoto("setListener")
  /\ UNCHANGED <<ui, surface, finishing, permits, thread, queue, current,
                 svcVars, cameraId, cameraDevice, captureSession, crash,
                 overtaken>>

SetListener ==
  /\ bg.pc = "setListener"
  /\ previewReader # None
  /\ BgGoto("createSession")
  /\ UNCHANGED <<ui, surface, finishing, permits, thread, queue, current,
                 svcVars, readers, fields, crash, overtaken>>

CreateCaptureSession ==
  /\ bg.pc = "createSession"
  /\ ~DeviceUnusable
  /\ previewReader # None
  /\ \/ session' = [session EXCEPT ![cameraDevice] = "creating"]
     \/ cameraDevice \in lost /\ UNCHANGED session
  /\ BgGoto("initialize")
  /\ UNCHANGED <<ui, surface, finishing, permits, thread, queue, current,
                 devState, lost, readers, fields, crash, overtaken>>

CreatePreviewSessionFails ==
  /\ \/ bg.pc \in {"createRequest", "createSession"} /\ DeviceUnusable
     \/ bg.pc \in {"setListener", "createSession"} /\ previewReader = None
  /\ crash' = "createPreviewSession"
  /\ UNCHANGED <<ui, surface, finishing, permits, threadVars, svcVars, readers,
                 fields, overtaken>>

(* tfPreviewListener.initialize: its effect is modelled in FramePipeline;  *)
(* here it keeps the thread busy.                                          *)
InitializeListener ==
  /\ bg.pc = "initialize"
  /\ BgGoto("idle")
  /\ UNCHANGED <<ui, surface, finishing, permits, thread, queue, current,
                 svcVars, readers, fields, crash, overtaken>>

(* onDisconnected and onError: cd.close(); cameraDevice = null; onError    *)
(* then finishes the activity.                                             *)
LostClose ==
  /\ bg.pc \in {"closeLost", "closeBroken"}
  /\ devState' = [devState EXCEPT ![bg.dev] = "closed"]
  /\ BgGoto(IF bg.pc = "closeLost" THEN "forgetLost" ELSE "forgetBroken")
  /\ UNCHANGED <<ui, surface, finishing, permits, thread, queue, current, lost,
                 session, readers, fields, crash, overtaken>>

LostForget ==
  /\ bg.pc \in {"forgetLost", "forgetBroken"}
  /\ cameraDevice' = None
  /\ finishing' = (finishing \/ bg.pc = "forgetBroken")
  /\ BgGoto("idle")
  /\ UNCHANGED <<ui, surface, permits, thread, queue, current, svcVars, readers,
                 cameraId, captureSession, previewReader, crash, overtaken>>

(* Mutant: onConfigured returns although the camera is open.               *)
OnConfiguredReturns ==
  /\ bg.pc = "onConfigured"
  /\ BgGoto(IF cameraDevice # None THEN "idle" ELSE "setSession")
  /\ UNCHANGED <<ui, surface, finishing, permits, thread, queue, current,
                 svcVars, readers, fields, crash, overtaken>>

(* onConfigured: return if the camera is already closed, else keep the     *)
(* session and start the repeating request.                                *)
OnConfigured ==
  /\ bg.pc = "onConfigured"
  /\ BgGoto(IF cameraDevice = None THEN "idle" ELSE "setSession")
  /\ UNCHANGED <<ui, surface, finishing, permits, thread, queue, current,
                 svcVars, readers, fields, crash, overtaken>>

SetSession ==
  /\ bg.pc = "setSession"
  /\ captureSession' = bg.dev
  /\ BgGoto("setRepeating")
  /\ UNCHANGED <<ui, surface, finishing, permits, thread, queue, current,
                 svcVars, readers, cameraId, cameraDevice, previewReader, crash,
                 overtaken>>

SessionUnusable ==
  captureSession # None =>
    session[captureSession] = "closed" \/ devState[captureSession] = "closed"

SetRepeatingRequest ==
  /\ bg.pc = "setRepeating"
  /\ ~SessionUnusable
  /\ \/ session' = [session EXCEPT ![captureSession] = "streaming"]
     \/ captureSession \in lost /\ UNCHANGED session
  /\ BgGoto("idle")
  /\ UNCHANGED <<ui, surface, finishing, permits, thread, queue, current,
                 devState, lost, readers, fields, crash, overtaken>>

SetRepeatingFails ==
  /\ bg.pc = "setRepeating"
  /\ SessionUnusable
  /\ crash' = "onConfigured"
  /\ UNCHANGED <<ui, surface, finishing, permits, threadVars, svcVars, readers,
                 fields, overtaken>>

OnConfigureFailed ==
  /\ bg.pc = "onConfigureFailed"
  /\ BgGoto("idle")
  /\ UNCHANGED <<ui, surface, finishing, permits, thread, queue, current,
                 svcVars, readers, fields, crash, overtaken>>

-----------------------------------------------------------------------------
(* The specification.  A crash ends the process.                           *)

UiStep ==
  \/ TryAcquire
  \/ \E d \in Devices : OpenCamera(d) \/ OpenCameraRefused(d)
  \/ OpenCameraThrows
  \/ CloseAcquire \/ CloseSession \/ CheckDevice \/ CloseDevice
  \/ CloseDeviceFails \/ ForgetDevice \/ CloseReader \/ CloseRelease
  \/ QuitSafely \/ Join

Lifecycle ==
  \/ OnResume \/ OnPause
  \/ OnSurfaceTextureAvailable \/ OnSurfaceTextureDestroyed

BgStep ==
  \/ Dispatch \/ CallbackRelease \/ OnOpenedAssign \/ CreateCaptureRequest
  \/ NewPreviewReader \/ SetListener \/ CreateCaptureSession
  \/ CreatePreviewSessionFails \/ InitializeListener \/ LostClose
  \/ LostForget \/ OnConfigured \/ SetSession \/ SetRepeatingRequest
  \/ SetRepeatingFails \/ OnConfigureFailed

ServiceAnswer ==
  \E d \in Devices : ServiceAnswersOpen(d) \/ ServiceAnswersSession(d)

ServiceLoss == \E d \in Devices : ServiceTakesDevice(d)

Next ==
  /\ crash = "none"
  /\ UiStep \/ Lifecycle \/ BgStep \/ ServiceAnswer \/ ServiceLoss

(* The two threads keep running and the service answers every open call    *)
(* and every session request; an activity that finishes is paused.         *)
(* Nothing obliges the user to resume or to pause, or the service to take  *)
(* the camera.                                                             *)
Fairness ==
  /\ WF_vars(crash = "none" /\ UiStep)
  /\ WF_vars(crash = "none" /\ BgStep)
  /\ WF_vars(crash = "none" /\ ServiceAnswer)
  /\ WF_vars(crash = "none" /\ finishing /\ OnPause)

Spec == Init /\ [][Next]_vars
FairSpec == Spec /\ Fairness

-----------------------------------------------------------------------------
(* Properties.                                                             *)

(* An uncaught exception hits in three places only.  manager.openCamera    *)
(* throws when the camera permission is missing, or when                   *)
(* setUpCameraOutputs has never found a camera, which is before the first  *)
(* open call of the fragment; any other one hits while the UI thread is    *)
(* inside onPause.  In particular openCamera never times out on the        *)
(* semaphore, and while the fragment is resumed                            *)
(* createCameraPreviewSession and onConfigured never find the camera gone: *)
(* all callbacks that clear the field run on the same handler thread.      *)
CrashPlaces ==
  /\ crash \notin {"none", "noCameraId", "noPermission"} => ui \in Pausing
  /\ crash \in {"noCameraId", "noPermission"} => ui = "open"
  /\ crash = "noCameraId" => \A d \in Devices : devState[d] = "unused"

(* After onPause the app holds a camera or an ImageReader only if          *)
(* closeCamera looked at cameraDevice before the onOpened callback of that *)
(* camera had stored it there.                                             *)
LeakOnlyIfOvertaken ==
  ui = "paused" => \A d \in Devices : Held(d) \/ d \in readers => d \in overtaken

(* The semaphore has more than its one permit only if the service has      *)
(* taken away a camera that was open, so that its onOpened callback and    *)
(* its onDisconnected or onError callback both release.  An open that      *)
(* fails is answered by one callback and never adds a permit.              *)
BinaryUnlessLost == permits > 1 => lost # {}

(* "A {@link Semaphore} to prevent the app from exiting before closing the *)
(* camera" (CameraConnectionFragment.java:213): when onPause has       *)
(* returned, no camera is held.                                            *)
PausedMeansClosed == ui = "paused" => \A d \in Devices : ~Held(d)

(* onPause returns: the UI thread is not blocked for ever in closeCamera   *)
(* or in stopBackgroundThread, unless an openCamera call was refused.      *)
PauseCompletes ==
  ui \in Pausing ~> \/ ui = "paused"
                    \/ crash # "none"
                    \/ \E d \in Devices : devState[d] = "refused"

(* An open call the service accepts leads to a running preview, unless the *)
(* camera is lost, the session is refused or the user pauses first.        *)
PreviewStarts ==
  \A d \in Devices :
    (devState[d] = "opening" /\ ui = "resumed")
      ~> \/ session[d] \in {"streaming", "refused"}
         \/ d \in lost \/ devState[d] = "failed"
         \/ ui # "resumed"

=============================================================================
