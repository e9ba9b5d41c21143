------------------------ MODULE CameraLifecycleProofs ------------------------
(***************************************************************************)
(* Machine-checked proofs about CameraLifecycle, for any number of open    *)
(* calls, with or without refused ones: an uncaught exception that is not  *)
(* thrown by manager.openCamera itself can only hit while the UI thread is *)
(* inside onPause, only a camera that closeCamera overtook is left open,   *)
(* and the semaphore stays binary unless an open camera is taken away.     *)
(***************************************************************************)
EXTENDS CameraLifecycle, TLAPS

Fresh(d) == devState[d] \in {"unused", "opening"}

(* A permit is there whenever openCamera may come: closeCamera gives one   *)
(* back, and between two pauses openCamera is called once.                 *)
PermitInv ==
  /\ ui \in {"paused", "tryAcquire", "quit", "join"} => permits > 0
  /\ ui = "resumed" /\ ~surface => permits > 0 /\ current = None
  /\ ui \in {"tryAcquire", "open"} => surface /\ current = None

(* The background thread works only for the current open call, and only    *)
(* after the service has answered it; a joined thread is idle.             *)
HandlerInv ==
  /\ bg.pc = "idle" => bg.dev = None
  /\ bg.pc # "idle" => bg.dev = current
  /\ \A i \in DOMAIN queue : queue[i].dev = current
  /\ current = None => bg = Idle /\ queue = <<>>
  /\ current # None => (Fresh(current) => bg = Idle /\ queue = <<>>)
  /\ ui = "paused" => bg = Idle /\ queue = <<>> /\ thread = "none"
  /\ current # None => devState[current] # "unused"

(* A device in a field has been answered, and only such a device has a     *)
(* session.                                                                *)
FieldsInv ==
  /\ cameraDevice # None => ~Fresh(cameraDevice)
  /\ captureSession # None => ~Fresh(captureSession)
  /\ \A d \in Devices : Fresh(d) => session[d] = "none"

(* While the fragment is resumed, only the background thread changes the   *)
(* fields, so they agree with what it has done for the current device.     *)
ResumedInv ==
  ui = "resumed" /\ current # None =>
    /\ \A i \in DOMAIN queue : queue[i].kind = "onOpened" =>
         i = 1 /\ bg = Idle /\ devState[current] = "open" /\ session[current] = "none"
    /\ bg.pc \in {"onOpened", "assign"} =>
         devState[current] = "open" /\ session[current] = "none"
    /\ bg.pc \in {"createRequest", "newReader", "setListener", "createSession"} =>
         cameraDevice = current /\ devState[current] = "open"
    /\ bg.pc \in {"setListener", "createSession"} => previewReader = current
    /\ session[current] # "none" =>
         /\ cameraDevice \in {current, None}
         /\ cameraDevice = current /\ bg.pc \notin {"forgetLost", "forgetBroken"}
              => devState[current] = "open"
    /\ bg.pc \in {"onConfigured", "setSession", "setRepeating"} => session[current] # "none"
    /\ \A i \in DOMAIN queue : queue[i].kind = "onConfigured" => session[current] # "none"
    /\ session[current] # "closed"
    /\ bg.pc = "setSession" => cameraDevice = current
    /\ bg.pc = "setRepeating" => cameraDevice = current /\ captureSession = current

(* cameraId is never reset, and no camera is opened without it.            *)
CameraIdInv == cameraId = "set" \/ \A d \in Devices : devState[d] = "unused"

IInv ==
  /\ TypeOK
  /\ PermitInv
  /\ HandlerInv
  /\ FieldsInv
  /\ ResumedInv
  /\ CameraIdInv
  /\ CrashPlaces

USE NoneAssumption

(* A callback that is posted is appended or dropped; a message that is     *)
(* taken from the queue was posted.                                        *)
LEMMA PostType ==
  ASSUME TypeOK, NEW k \in MessageKinds, NEW d \in Devices, Post(k, d)
  PROVE  /\ queue' \in Seq(Messages)
         /\ \/ queue' = queue
            \/ /\ d = current /\ thread = "running"
               /\ queue' = Append(queue, [kind |-> k, dev |-> d])
<1>1. [kind |-> k, dev |-> d] \in Messages
  BY DEF Messages
<1> QED
  BY <1>1 DEF Post, TypeOK

LEMMA HeadTail ==
  ASSUME TypeOK, queue # <<>>
  PROVE  /\ Head(queue) \in Messages /\ Head(queue) = queue[1]
         /\ 1 \in DOMAIN queue /\ Tail(queue) \in Seq(Messages)
         /\ \A i \in DOMAIN Tail(queue) :
              i + 1 \in DOMAIN queue /\ i + 1 # 1 /\ Tail(queue)[i] = queue[i + 1]
BY DEF TypeOK

(* The type invariant holds initially and is preserved by every step.      *)
LEMMA InitTypeOK == Init => TypeOK
<1> SUFFICES ASSUME Init PROVE TypeOK
  OBVIOUS
<1>1. queue \in Seq(Messages) /\ bg \in [pc : BgPlaces, dev : Devices \union {None}]
  BY DEF Init, Idle, BgPlaces
<1>2. devState \in [Devices -> DeviceStates] /\ session \in [Devices -> SessionStates]
  BY DEF Init, DeviceStates, SessionStates
<1> QED
  BY <1>1, <1>2 DEF Init, TypeOK, UiPlaces, Faults

LEMMA NextTypeOK ==
  TypeOK /\ HandlerInv /\ [Next]_vars => TypeOK'
<1> SUFFICES ASSUME TypeOK, HandlerInv, [Next]_vars PROVE TypeOK'
  OBVIOUS
<1>0. bg.pc # "idle" => bg.dev \in Devices
  BY DEF HandlerInv, TypeOK, Idle
<1> USE DEF TypeOK, svcVars, threadVars, fields
<1>1. CASE OnResume
  BY <1>0, <1>1 DEF OnResume, UiPlaces, Pausing
<1>2. CASE OnSurfaceTextureAvailable
  BY <1>0, <1>2 DEF OnSurfaceTextureAvailable, UiPlaces, Pausing
<1>3. CASE OnSurfaceTextureDestroyed
  BY <1>0, <1>3 DEF OnSurfaceTextureDestroyed
<1>4. CASE TryAcquire
  BY <1>0, <1>4 DEF TryAcquire, UiPlaces, Pausing, Faults
<1>5. CASE OnPause
  BY <1>0, <1>5 DEF OnPause, UiPlaces, Pausing
<1>6. CASE CloseAcquire
  BY <1>0, <1>6 DEF CloseAcquire, UiPlaces, Pausing
<1>7. CASE CloseSession
  BY <1>0, <1>7 DEF CloseSession, UiPlaces, Pausing, SessionStates
<1>8. CASE CheckDevice
  BY <1>0, <1>8 DEF CheckDevice, UiPlaces, Pausing
<1>9. CASE CloseDevice
  BY <1>0, <1>9 DEF CloseDevice, UiPlaces, Pausing, DeviceStates
<1>10. CASE CloseDeviceFails
  BY <1>0, <1>10 DEF CloseDeviceFails, Faults
<1>11. CASE ForgetDevice
  BY <1>0, <1>11 DEF ForgetDevice, UiPlaces, Pausing
<1>12. CASE CloseReader
  BY <1>0, <1>12 DEF CloseReader, UiPlaces, Pausing
<1>13. CASE CloseRelease
  BY <1>0, <1>13 DEF CloseRelease, UiPlaces, Pausing
<1>14. CASE QuitSafely
  BY <1>0, <1>14 DEF QuitSafely, UiPlaces, Pausing
<1>15. CASE Join
  BY <1>0, <1>15 DEF Join, UiPlaces, Pausing
<1>16. CASE Dispatch
  <2>1. Head(queue) \in Messages /\ Tail(queue) \in Seq(Messages)
    BY <1>16, HeadTail DEF Dispatch
  <2>2. bg' \in [pc : BgPlaces, dev : Devices \union {None}]
    BY <1>16, <2>1 DEF Dispatch, Messages, MessageKinds, BgPlaces, Idle
  <2> QED
    BY <1>16, <2>1, <2>2 DEF Dispatch
<1>17. CASE CallbackRelease
  <2>1. bg' = [bg EXCEPT !.pc = "assign"] \/ bg' = [bg EXCEPT !.pc = "closeLost"]
          \/ bg' = [bg EXCEPT !.pc = "closeBroken"]
    BY <1>17 DEF CallbackRelease, BgGoto
  <2>2. bg' \in [pc : BgPlaces, dev : Devices \union {None}]
    BY <2>1 DEF BgPlaces
  <2> QED
    BY <1>17, <2>2 DEF CallbackRelease
<1>18. CASE OnOpenedAssign
  BY <1>0, <1>18 DEF OnOpenedAssign, BgGoto, Idle, BgPlaces, MessageKinds
<1>19. CASE CreateCaptureRequest
  BY <1>0, <1>19 DEF CreateCaptureRequest, BgGoto, Idle, BgPlaces,
     MessageKinds
<1>20. CASE NewPreviewReader
  BY <1>0, <1>20 DEF NewPreviewReader, BgGoto, Idle, BgPlaces, MessageKinds
<1>21. CASE SetListener
  BY <1>0, <1>21 DEF SetListener, BgGoto, Idle, BgPlaces, MessageKinds
<1>22. CASE CreateCaptureSession
  BY <1>0, <1>22 DEF CreateCaptureSession, BgGoto, Idle, BgPlaces,
     MessageKinds, SessionStates, DeviceUnusable
<1>23. CASE CreatePreviewSessionFails
  BY <1>0, <1>23 DEF CreatePreviewSessionFails, Faults
<1>24. CASE InitializeListener
  BY <1>0, <1>24 DEF InitializeListener, BgGoto, Idle, BgPlaces,
     MessageKinds
<1>25. CASE LostClose
  BY <1>0, <1>25 DEF LostClose, BgGoto, Idle, BgPlaces, MessageKinds,
     DeviceStates
<1>26. CASE LostForget
  BY <1>0, <1>26 DEF LostForget, BgGoto, Idle, BgPlaces, MessageKinds
<1>27. CASE OnConfigured
  BY <1>0, <1>27 DEF OnConfigured, BgGoto, Idle, BgPlaces, MessageKinds
<1>28. CASE SetSession
  BY <1>0, <1>28 DEF SetSession, BgGoto, Idle, BgPlaces, MessageKinds
<1>29. CASE SetRepeatingRequest
  BY <1>0, <1>29 DEF SetRepeatingRequest, BgGoto, Idle, BgPlaces,
     MessageKinds, SessionStates, SessionUnusable
<1>30. CASE SetRepeatingFails
  BY <1>0, <1>30 DEF SetRepeatingFails, Faults
<1>31. CASE OnConfigureFailed
  BY <1>0, <1>31 DEF OnConfigureFailed, BgGoto, Idle, BgPlaces, MessageKinds
<1>32. CASE \E d \in Devices : OpenCamera(d)
  BY <1>0, <1>32 DEF OpenCamera, DeviceStates, UiPlaces
<1>33. CASE \E d \in Devices : OpenCameraRefused(d)
  BY <1>0, <1>33 DEF OpenCameraRefused, DeviceStates, UiPlaces
<1>34. CASE \E d \in Devices : ServiceAnswersOpen(d)
  <2> PICK d \in Devices : ServiceAnswersOpen(d)
    BY <1>34
  <2>1. PICK k \in MessageKinds : Post(k, d)
    BY DEF ServiceAnswersOpen, MessageKinds
  <2>2. queue' \in Seq(Messages)
    BY <2>1, PostType
  <2> QED
    BY <2>2 DEF ServiceAnswersOpen, DeviceStates
<1>35. CASE \E d \in Devices : ServiceTakesDevice(d)
  <2> PICK d \in Devices : ServiceTakesDevice(d)
    BY <1>35
  <2>1. PICK k \in MessageKinds : Post(k, d)
    BY DEF ServiceTakesDevice, MessageKinds
  <2>2. queue' \in Seq(Messages)
    BY <2>1, PostType
  <2> QED
    BY <2>2 DEF ServiceTakesDevice
<1>36. CASE \E d \in Devices : ServiceAnswersSession(d)
  <2> PICK d \in Devices : ServiceAnswersSession(d)
    BY <1>36
  <2>1. PICK k \in MessageKinds : Post(k, d)
    BY DEF ServiceAnswersSession, MessageKinds
  <2>2. queue' \in Seq(Messages)
    BY <2>1, PostType
  <2> QED
    BY <2>2 DEF ServiceAnswersSession, SessionStates
<1>37. CASE UNCHANGED vars
  BY <1>37 DEF vars
<1>38. CASE OpenCameraThrows
  BY <1>0, <1>38 DEF OpenCameraThrows, Faults
<1> QED
  BY <1>1, <1>2, <1>3, <1>4, <1>5, <1>6, <1>7, <1>8, <1>9, <1>10, <1>11,
     <1>12, <1>13, <1>14, <1>15, <1>16, <1>17, <1>18, <1>19, <1>20, <1>21,
     <1>22, <1>23, <1>24, <1>25, <1>26, <1>27, <1>28, <1>29, <1>30, <1>31,
     <1>32, <1>33, <1>34, <1>35, <1>36, <1>37, <1>38 DEF Next, UiStep, Lifecycle,
     BgStep, ServiceAnswer, ServiceLoss

-----------------------------------------------------------------------------
(* The inductive invariant holds initially.                                *)
LEMMA InitIInv == Init => IInv
BY InitTypeOK DEF Init, IInv, PermitInv, HandlerInv, FieldsInv, ResumedInv,
   CameraIdInv, CrashPlaces, Idle

(* Every step preserves the inductive invariant.                           *)
LEMMA NextIInv == IInv /\ [Next]_vars => IInv'
<1> SUFFICES ASSUME IInv, [Next]_vars PROVE IInv'
  OBVIOUS
<1>0. TypeOK /\ TypeOK' /\ (Next => crash = "none")
  BY NextTypeOK DEF IInv, Next
<1> SUFFICES (/\ PermitInv /\ HandlerInv /\ FieldsInv /\ ResumedInv
              /\ CameraIdInv /\ CrashPlaces)'
  BY <1>0 DEF IInv
<1> USE DEF IInv, TypeOK, PermitInv, HandlerInv, FieldsInv, ResumedInv, Fresh,
        CameraIdInv, CrashPlaces, Pausing, svcVars, threadVars, fields
<1>1. CASE OnResume
  <2>1. bg' = Idle /\ queue' = <<>> /\ permits' > 0 /\ current' = None
    BY <1>1 DEF OnResume
  <2>2. HandlerInv'
    BY <1>1, <2>1 DEF OnResume, Idle
  <2> QED
    BY <1>0, <1>1, <2>1, <2>2 DEF OnResume
<1>2. CASE OnSurfaceTextureAvailable
  BY <1>0, <1>2 DEF OnSurfaceTextureAvailable
<1>3. CASE OnSurfaceTextureDestroyed
  BY <1>0, <1>3 DEF OnSurfaceTextureDestroyed
<1>4. CASE TryAcquire
  BY <1>0, <1>4 DEF TryAcquire
<1>5. CASE OnPause
  BY <1>0, <1>5 DEF OnPause
<1>6. CASE CloseAcquire
  BY <1>0, <1>6 DEF CloseAcquire
<1>7. CASE CloseSession
  BY <1>0, <1>7 DEF CloseSession
<1>8. CASE CheckDevice
  BY <1>0, <1>8 DEF CheckDevice
<1>9. CASE CloseDevice
  BY <1>0, <1>9 DEF CloseDevice
<1>10. CASE CloseDeviceFails
  BY <1>0, <1>10 DEF CloseDeviceFails
<1>11. CASE ForgetDevice
  BY <1>0, <1>11 DEF ForgetDevice
<1>12. CASE CloseReader
  BY <1>0, <1>12 DEF CloseReader
<1>13. CASE CloseRelease
  BY <1>0, <1>13 DEF CloseRelease
<1>14. CASE QuitSafely
  BY <1>0, <1>14 DEF QuitSafely
<1>15. CASE Join
  <2>1. /\ UNCHANGED <<bg, queue, current, devState, permits>>
        /\ bg = Idle /\ queue = <<>> /\ ui' = "paused" /\ thread' = "none"
    BY <1>15 DEF Join, svcVars
  <2>2. HandlerInv'
    BY <2>1
  <2>3. PermitInv' /\ ResumedInv'
    BY <1>15, <2>1 DEF Join
  <2>4. crash = "none"
    BY <1>0, <1>15 DEF Join, vars
  <2>5. FieldsInv' /\ CameraIdInv' /\ CrashPlaces'
    BY <1>15, <2>4 DEF Join
  <2> QED
    BY <2>2, <2>3, <2>5
<1>16. CASE Dispatch
  <2>1. /\ Head(queue) \in Messages /\ Head(queue) = queue[1] /\ 1 \in DOMAIN queue
        /\ \A i \in DOMAIN queue' :
              i + 1 \in DOMAIN queue /\ i + 1 # 1 /\ queue'[i] = queue[i + 1]
    BY <1>16, HeadTail DEF Dispatch
  <2>2. queue[1].dev = current /\ current # None /\ bg.pc = "idle" /\ ui # "paused"
    BY <1>16, <2>1 DEF Dispatch, Idle
  <2>3. bg' = Idle \/ bg' = [pc |-> queue[1].kind, dev |-> current]
    BY <1>16, <2>1, <2>2 DEF Dispatch
  <2>4. queue[1].kind \in MessageKinds
    BY <2>1 DEF Messages
  <2>5. ~Fresh(current)
    BY <1>16, <2>2 DEF Dispatch
  <2>6. HandlerInv'
    <3>1. bg'.pc = "idle" => bg'.dev = None
      BY <2>3, <2>4 DEF Idle, MessageKinds
    <3>2. bg'.pc # "idle" => bg'.dev = current'
      BY <1>16, <2>3 DEF Dispatch, Idle
    <3>3. \A i \in DOMAIN queue' : queue'[i].dev = current'
      BY <1>16, <2>1 DEF Dispatch
    <3> QED
      BY <1>16, <2>2, <2>5, <3>1, <3>2, <3>3 DEF Dispatch
  <2>7. ResumedInv'
    <3> SUFFICES ASSUME ui = "resumed" PROVE ResumedInv'
      BY <1>16 DEF Dispatch
    <3>1. \A i \in DOMAIN queue' : queue'[i].kind # "onOpened"
      BY <2>1, <2>2
    <3>2. bg'.pc = "idle" \/ bg'.pc = queue[1].kind
      BY <2>3 DEF Idle
    <3>3. \A i \in DOMAIN queue' : queue'[i].kind = "onConfigured" =>
            session[current] # "none"
      BY <2>1, <2>2
    <3>4. UNCHANGED <<ui, current, devState, session, cameraDevice, captureSession,
                      previewReader>>
      BY <1>16 DEF Dispatch
    <3>5. bg'.pc = "onOpened" => devState[current] = "open" /\ session[current] = "none"
      BY <2>1, <2>2, <3>2
    <3>6. bg'.pc = "onConfigured" => session[current] # "none"
      BY <2>1, <2>2, <3>2
    <3>7. bg'.pc = "idle" \/ bg'.pc \in MessageKinds
      BY <2>4, <3>2
    <3> QED
      BY <2>2, <3>1, <3>3, <3>4, <3>5, <3>6, <3>7 DEF MessageKinds
  <2> QED
    BY <1>0, <1>16, <2>6, <2>7 DEF Dispatch
<1>17. CASE CallbackRelease
  <2>1. /\ bg.pc = "onOpened" => bg' = [bg EXCEPT !.pc = "assign"]
        /\ bg.pc = "onDisconnected" => bg' = [bg EXCEPT !.pc = "closeLost"]
        /\ bg.pc = "onError" => bg' = [bg EXCEPT !.pc = "closeBroken"]
    BY <1>17 DEF CallbackRelease, BgGoto
  <2>2. /\ bg'.dev = bg.dev /\ bg.pc # "idle"
        /\ bg'.pc \in {"assign", "closeLost", "closeBroken"}
        /\ bg'.pc = "assign" => bg.pc = "onOpened"
    BY <1>17, <2>1 DEF CallbackRelease
  <2>3. bg # Idle
    BY <2>2 DEF Idle
  <2>4. HandlerInv'
    BY <1>17, <2>2, <2>3 DEF CallbackRelease
  <2>5. ResumedInv'
    BY <1>17, <2>2, <2>3 DEF CallbackRelease
  <2> QED
    BY <1>0, <1>17, <2>4, <2>5 DEF CallbackRelease
<1>18. CASE OnOpenedAssign
  BY <1>0, <1>18 DEF OnOpenedAssign, BgGoto, Idle
<1>19. CASE CreateCaptureRequest
  BY <1>0, <1>19 DEF CreateCaptureRequest, BgGoto, Idle, DeviceUnusable
<1>20. CASE NewPreviewReader
  BY <1>0, <1>20 DEF NewPreviewReader, BgGoto, Idle
<1>21. CASE SetListener
  BY <1>0, <1>21 DEF SetListener, BgGoto, Idle
<1>22. CASE CreateCaptureSession
  BY <1>0, <1>22 DEF CreateCaptureSession, BgGoto, Idle, DeviceUnusable
<1>23. CASE CreatePreviewSessionFails
  <2>1. bg.pc # "idle" /\ bg # Idle
    BY <1>23 DEF CreatePreviewSessionFails, Idle
  <2>2. ui # "resumed"
    <3> SUFFICES ASSUME ui = "resumed", current # None PROVE FALSE
      BY <2>1
    <3> QED
      BY <1>23 DEF CreatePreviewSessionFails, DeviceUnusable
  <2>3. ui \in Pausing
    BY <2>1, <2>2 DEF UiPlaces
  <2> QED
    BY <1>0, <1>23, <2>3 DEF CreatePreviewSessionFails
<1>24. CASE InitializeListener
  BY <1>0, <1>24 DEF InitializeListener, BgGoto, Idle
<1>25. CASE LostClose
  BY <1>0, <1>25 DEF LostClose, BgGoto, Idle
<1>26. CASE LostForget
  BY <1>0, <1>26 DEF LostForget, BgGoto, Idle
<1>27. CASE OnConfigured
  BY <1>0, <1>27 DEF OnConfigured, BgGoto, Idle
<1>28. CASE SetSession
  BY <1>0, <1>28 DEF SetSession, BgGoto, Idle
<1>29. CASE SetRepeatingRequest
  BY <1>0, <1>29 DEF SetRepeatingRequest, BgGoto, Idle, SessionUnusable
<1>30. CASE SetRepeatingFails
  <2>1. bg.pc # "idle" /\ bg # Idle
    BY <1>30 DEF SetRepeatingFails, Idle
  <2>2. ui # "resumed"
    <3> SUFFICES ASSUME ui = "resumed", current # None PROVE FALSE
      BY <2>1
    <3> QED
      BY <1>30 DEF SetRepeatingFails, SessionUnusable
  <2>3. ui \in Pausing
    BY <2>1, <2>2 DEF UiPlaces
  <2> QED
    BY <1>0, <1>30, <2>3 DEF SetRepeatingFails
<1>31. CASE OnConfigureFailed
  BY <1>0, <1>31 DEF OnConfigureFailed, BgGoto, Idle
<1>32. CASE \E d \in Devices : OpenCamera(d)
  <2> PICK d \in Devices : OpenCamera(d)
    BY <1>32
  <2>1. crash = "none"
    <3>1. ui' # ui
      BY DEF OpenCamera
    <3> QED
      BY <1>0, <3>1 DEF vars
  <2>2. cameraId' = "set" /\ crash' = "none"
    BY <2>1 DEF OpenCamera
  <2>3. CameraIdInv' /\ CrashPlaces'
    BY <2>2
  <2>4. (PermitInv /\ HandlerInv /\ FieldsInv /\ ResumedInv)'
    BY <1>0 DEF OpenCamera, Idle
  <2> QED
    BY <2>3, <2>4
<1>33. CASE \E d \in Devices : OpenCameraRefused(d)
  <2> PICK d \in Devices : OpenCameraRefused(d)
    BY <1>33
  <2>1. crash = "none"
    <3>1. ui' # ui
      BY DEF OpenCameraRefused
    <3> QED
      BY <1>0, <3>1 DEF vars
  <2>2. cameraId' = "set" /\ crash' = "none"
    BY <2>1 DEF OpenCameraRefused
  <2>3. CameraIdInv' /\ CrashPlaces'
    BY <2>2
  <2>4. (PermitInv /\ HandlerInv /\ FieldsInv /\ ResumedInv)'
    BY <1>0 DEF OpenCameraRefused
  <2> QED
    BY <2>3, <2>4
<1>34. CASE \E d \in Devices : ServiceAnswersOpen(d)
  <2> PICK d \in Devices : ServiceAnswersOpen(d)
    BY <1>34
  <2>1. PICK k \in MessageKinds : Post(k, d) /\
           \/ k = "onOpened" /\ devState' = [devState EXCEPT ![d] = "open"]
           \/ k \in {"onDisconnected", "onError"}
              /\ devState' = [devState EXCEPT ![d] = "failed"]
    BY DEF ServiceAnswersOpen, MessageKinds
  <2>2. \/ queue' = queue
        \/ /\ d = current /\ thread = "running"
           /\ queue' = Append(queue, [kind |-> k, dev |-> d])
    BY <2>1, PostType
  <2>3. UNCHANGED <<ui, current, bg, thread, cameraDevice, captureSession,
                    previewReader, crash, permits, surface>>
    BY DEF ServiceAnswersOpen, fields
  <2>4. /\ UNCHANGED session /\ devState[d] = "opening" /\ session[d] = "none"
        /\ d = current => bg = Idle /\ queue = <<>>
        /\ d = current => bg.pc = "idle"
    BY DEF ServiceAnswersOpen, Idle
  <2>5. \A i \in DOMAIN queue' :
           \/ i \in DOMAIN queue /\ queue'[i] = queue[i]
           \/ /\ i = Len(queue) + 1 /\ d = current
              /\ queue'[i].kind = k /\ queue'[i].dev = d
    BY <2>2
  <2>6. HandlerInv'
    BY <2>1, <2>2, <2>3, <2>4, <2>5
  <2>7. FieldsInv'
    BY <2>3, <2>4 DEF ServiceAnswersOpen
  <2>8. ResumedInv'
    BY <2>1, <2>2, <2>3, <2>4, <2>5
  <2> QED
    BY <1>0, <2>3, <2>6, <2>7, <2>8 DEF ServiceAnswersOpen
<1>35. CASE \E d \in Devices : ServiceTakesDevice(d)
  <2> PICK d \in Devices : ServiceTakesDevice(d)
    BY <1>35
  <2>1. PICK k \in MessageKinds : Post(k, d) /\ k \in {"onDisconnected", "onError"}
    BY DEF ServiceTakesDevice, MessageKinds
  <2>2. \/ queue' = queue
        \/ /\ d = current /\ thread = "running"
           /\ queue' = Append(queue, [kind |-> k, dev |-> d])
    BY <2>1, PostType
  <2>3. UNCHANGED <<ui, current, bg, thread, cameraDevice, captureSession,
                    previewReader, crash, permits, surface>>
    BY DEF ServiceTakesDevice, fields
  <2>4. UNCHANGED <<session, devState>> /\ devState[d] = "open"
    BY DEF ServiceTakesDevice
  <2>5. \A i \in DOMAIN queue' :
           \/ i \in DOMAIN queue /\ queue'[i] = queue[i]
           \/ /\ i = Len(queue) + 1 /\ d = current
              /\ queue'[i].kind = k /\ queue'[i].dev = d
    BY <2>2
  <2>6. HandlerInv'
    BY <2>2, <2>3, <2>4, <2>5
  <2>7. FieldsInv'
    BY <2>3, <2>4 DEF ServiceTakesDevice
  <2>8. ResumedInv'
    BY <2>1, <2>3, <2>4, <2>5
  <2> QED
    BY <1>0, <2>3, <2>6, <2>7, <2>8 DEF ServiceTakesDevice
<1>36. CASE \E d \in Devices : ServiceAnswersSession(d)
  <2> PICK d \in Devices : ServiceAnswersSession(d)
    BY <1>36
  <2>1. PICK k \in MessageKinds : Post(k, d) /\ k # "onOpened"
    BY DEF ServiceAnswersSession, MessageKinds
  <2>2. \/ queue' = queue
        \/ /\ d = current /\ thread = "running"
           /\ queue' = Append(queue, [kind |-> k, dev |-> d])
    BY <2>1, PostType
  <2>3. UNCHANGED <<ui, current, bg, thread, cameraDevice, captureSession,
                    previewReader, crash, permits, surface>>
    BY DEF ServiceAnswersSession, fields
  <2>4. /\ UNCHANGED devState /\ session[d] = "creating"
        /\ \A e \in Devices : session'[e] = session[e] \/ e = d
        /\ session'[d] \in {"configured", "refused"}
    BY DEF ServiceAnswersSession
  <2>5. \A i \in DOMAIN queue' :
           \/ i \in DOMAIN queue /\ queue'[i] = queue[i]
           \/ /\ i = Len(queue) + 1 /\ d = current
              /\ queue'[i].kind = k /\ queue'[i].dev = d
    BY <2>2
  <2>6. HandlerInv'
    BY <2>2, <2>3, <2>4, <2>5
  <2>7. FieldsInv'
    BY <2>3, <2>4 DEF ServiceAnswersSession
  <2>8. ResumedInv'
    BY <2>1, <2>3, <2>4, <2>5
  <2> QED
    BY <1>0, <2>3, <2>6, <2>7, <2>8 DEF ServiceAnswersSession
<1>37. CASE UNCHANGED vars
  BY <1>37 DEF vars
<1>38. CASE OpenCameraThrows
  BY <1>0, <1>38 DEF OpenCameraThrows
<1> QED
  BY <1>1, <1>2, <1>3, <1>4, <1>5, <1>6, <1>7, <1>8, <1>9, <1>10, <1>11,
     <1>12, <1>13, <1>14, <1>15, <1>16, <1>17, <1>18, <1>19, <1>20, <1>21,
     <1>22, <1>23, <1>24, <1>25, <1>26, <1>27, <1>28, <1>29, <1>30, <1>31,
     <1>32, <1>33, <1>34, <1>35, <1>36, <1>37, <1>38 DEF Next, UiStep, Lifecycle,
     BgStep, ServiceAnswer, ServiceLoss

-----------------------------------------------------------------------------
(* Every variable keeps its type, for any set of open calls.               *)
THEOREM TypeCorrect == Spec => []TypeOK
<1>1. IInv => TypeOK
  BY DEF IInv
<1> QED
  BY InitIInv, NextIInv, <1>1, PTL DEF Spec

(* However many open calls, pauses, losses and refused calls there are: of *)
(* the uncaught exceptions only those of manager.openCamera hit outside    *)
(* onPause, for want of the permission or, before the first open call, of  *)
(* a camera.  openCamera always finds a permit, and the callbacks of a     *)
(* resumed fragment find the fields as their own thread left them.         *)
THEOREM CrashesWhereStated == Spec => []CrashPlaces
<1>1. IInv => CrashPlaces
  BY DEF IInv
<1> QED
  BY InitIInv, NextIInv, <1>1, PTL DEF Spec

-----------------------------------------------------------------------------
(* What closeCamera leaves behind.                                         *)

(* The looper runs from onResume until quitSafely.                         *)
ThreadInv == ui \notin {"paused", "join"} => thread = "running"

(* onDisconnected and onError close the device before they forget it.      *)
LostInv ==
  /\ bg.pc \in {"forgetLost", "forgetBroken"} => devState[bg.dev] = "closed"
  /\ \A d \in lost : ~Fresh(d)

(* What the app holds belongs to the current open call or was overtaken.   *)
OthersInv ==
  \A d \in Devices : Held(d) \/ d \in readers => d \in overtaken \/ d = current

(* A camera that closeCamera's test of the field did not overtake: before  *)
(* the test its callback is on the way or has stored it; after the test    *)
(* closeCamera closes it, and the rest of createCameraPreviewSession then  *)
(* finds it unusable, so that no reader made after closeReader survives.   *)
CurrentInv ==
  current \in Devices \ overtaken =>
    /\ ui \in {"resumed", "acquire", "closeSession", "checkDevice"} /\ Held(current)
         => OpenInFlight(current) \/ cameraDevice = current
    /\ ui \in {"closeDevice", "forgetDevice", "closeReader", "release", "quit", "join", "paused"}
         => ~OpenInFlight(current)
    /\ ui = "closeDevice" /\ Held(current) => cameraDevice = current
    /\ ui \in {"forgetDevice", "closeReader", "release", "quit", "join", "paused"}
         => ~Held(current) /\ DeviceUnusable
    /\ current \in readers =>
         IF ui \in {"release", "quit", "join", "paused"}
           THEN ui # "paused" /\ bg.pc \in {"setListener", "createSession"}
           ELSE previewReader = current

LeakInv == ThreadInv /\ LostInv /\ OthersInv /\ CurrentInv

(* The permit.  A camera is taken away after its onOpened has released.    *)
TakenAway == lost # {}

StateCallbacks == {"onOpened", "onDisconnected", "onError"}

(* The current open call has a release() to come.                          *)
ReleaseDue ==
  \/ current # None /\ devState[current] = "opening"
  \/ bg.pc \in StateCallbacks
  \/ \E i \in DOMAIN queue : queue[i].kind \in StateCallbacks

UiHolds == ui \in {"open", "closeSession", "checkDevice", "closeDevice",
                   "forgetDevice", "closeReader", "release"}

(* Unless a camera was taken away there is one permit: free, with the UI   *)
(* thread, or due to be released by exactly one callback.                  *)
OnePermit ==
  ~TakenAway =>
    /\ permits <= 1
    /\ permits > 0 => ~UiHolds /\ ~ReleaseDue
    /\ UiHolds => ~ReleaseDue
    /\ \A i \in DOMAIN queue : queue[i].kind \in StateCallbacks =>
         /\ bg.pc \notin StateCallbacks
         /\ \A j \in DOMAIN queue : queue[j].kind \in StateCallbacks => j = i

(* What onPause leaves open: the initial state, and every step.            *)
LEMMA InitLeakInv == Init => LeakInv
BY DEF Init, LeakInv, ThreadInv, LostInv, OthersInv, CurrentInv, Held, Fresh, Idle

(* The onOpened message of d waits in the queue.                           *)
Queued(d) == \E i \in DOMAIN queue : queue[i] = [kind |-> "onOpened", dev |-> d]

LEMMA PostQueued ==
  ASSUME TypeOK, NEW k \in MessageKinds, NEW d \in Devices, Post(k, d),
         NEW e \in Devices
  PROVE  Queued(e)' <=> \/ Queued(e)
                        \/ k = "onOpened" /\ d = e /\ d = current /\ thread = "running"
<1>1. CASE queue' = queue /\ ~(d = current /\ thread = "running")
  BY <1>1 DEF Queued
<1>2. CASE queue' = Append(queue, [kind |-> k, dev |-> d]) /\ d = current /\ thread = "running"
  <2>1. queue \in Seq(Messages)
    BY DEF TypeOK
  <2>2. /\ \A i \in DOMAIN queue : i \in DOMAIN queue' /\ queue'[i] = queue[i]
        /\ Len(queue) + 1 \in DOMAIN queue'
        /\ queue'[Len(queue) + 1] = [kind |-> k, dev |-> d]
        /\ \A i \in DOMAIN queue' : i \in DOMAIN queue \/ i = Len(queue) + 1
    BY <1>2, <2>1
  <2> QED
    BY <1>2, <2>2 DEF Queued
<1> QED
  BY <1>1, <1>2 DEF Post

LEMMA DispatchQueued ==
  ASSUME TypeOK, HandlerInv, Dispatch, NEW e \in Devices
  PROVE  /\ Queued(e)' => Queued(e)
         /\ Queued(e) => \/ Queued(e)'
                         \/ bg' = [pc |-> "onOpened", dev |-> e]
                         \/ devState[e] = "closed"
         /\ bg'.pc = "onOpened" => Queued(bg'.dev)
         /\ bg' = Idle \/ bg' = [pc |-> queue[1].kind, dev |-> queue[1].dev]
         /\ queue[1] \in Messages
<1>1. /\ Head(queue) \in Messages /\ Head(queue) = queue[1] /\ 1 \in DOMAIN queue
      /\ \A i \in DOMAIN queue' : i + 1 \in DOMAIN queue /\ queue'[i] = queue[i + 1]
  BY HeadTail DEF Dispatch
<1>2. \A i \in DOMAIN queue : i # 1 => i - 1 \in DOMAIN queue' /\ queue'[i - 1] = queue[i]
  BY DEF Dispatch, TypeOK
<1>3. bg' = Idle \/ bg' = [pc |-> queue[1].kind, dev |-> queue[1].dev]
  BY <1>1 DEF Dispatch
<1>4. bg'.pc = "onOpened" => Queued(bg'.dev)
  <2>1. queue[1] = [kind |-> queue[1].kind, dev |-> queue[1].dev]
    BY <1>1 DEF Messages
  <2> QED
    BY <1>1, <1>3, <2>1 DEF Queued, Idle
<1>5. Queued(e)' => Queued(e)
  BY <1>1 DEF Queued
<1>6. ASSUME Queued(e), ~Queued(e)', devState[e] # "closed"
      PROVE  bg' = [pc |-> "onOpened", dev |-> e]
  <2>1. queue[1] = [kind |-> "onOpened", dev |-> e]
    BY <1>2, <1>6 DEF Queued
  <2> QED
    BY <1>1, <1>6, <2>1 DEF Dispatch
<1> QED
  BY <1>1, <1>3, <1>4, <1>5, <1>6

LEMMA NextLeakInv == IInv /\ LeakInv /\ [Next]_vars => LeakInv'
<1> SUFFICES ASSUME IInv, LeakInv, [Next]_vars PROVE LeakInv'
  OBVIOUS
<1>0. TypeOK /\ HandlerInv /\ PermitInv /\ FieldsInv
  BY DEF IInv
<1>b. bg.pc # "idle" => bg.dev \in Devices
  BY <1>0 DEF HandlerInv, TypeOK, Idle
<1> USE DEF LeakInv, ThreadInv, LostInv, OthersInv, CurrentInv, Held, OpenInFlight,
        DeviceUnusable, TypeOK, svcVars, threadVars, fields
<1>1. CASE OnResume
  BY <1>0, <1>1 DEF OnResume, HandlerInv, Fresh
<1>2. CASE OnSurfaceTextureAvailable
  BY <1>0, <1>2 DEF OnSurfaceTextureAvailable, HandlerInv, Fresh
<1>3. CASE OnSurfaceTextureDestroyed
  BY <1>0, <1>3 DEF OnSurfaceTextureDestroyed, HandlerInv, Fresh
<1>4. CASE TryAcquire
  BY <1>0, <1>4 DEF TryAcquire, HandlerInv, Fresh
<1>5. CASE OnPause
  BY <1>0, <1>5 DEF OnPause, HandlerInv, Fresh
<1>6. CASE CloseAcquire
  BY <1>0, <1>6 DEF CloseAcquire, HandlerInv, Fresh
<1>7. CASE CloseSession
  BY <1>0, <1>7 DEF CloseSession, HandlerInv, Fresh
<1>8. CASE CheckDevice
  BY <1>0, <1>8 DEF CheckDevice, HandlerInv, Fresh
<1>9. CASE CloseDevice
  BY <1>0, <1>9 DEF CloseDevice, HandlerInv, Fresh
<1>10. CASE CloseDeviceFails
  BY <1>0, <1>10 DEF CloseDeviceFails, HandlerInv, Fresh
<1>11. CASE ForgetDevice
  BY <1>0, <1>11 DEF ForgetDevice, HandlerInv, Fresh
<1>12. CASE CloseReader
  BY <1>0, <1>12 DEF CloseReader, HandlerInv, Fresh
<1>13. CASE CloseRelease
  BY <1>0, <1>13 DEF CloseRelease, HandlerInv, Fresh
<1>14. CASE QuitSafely
  BY <1>0, <1>14 DEF QuitSafely, HandlerInv, Fresh
<1>15. CASE Join
  BY <1>0, <1>15 DEF Join, HandlerInv, Fresh, Idle
<1>16. CASE Dispatch
  <2>1. \A e \in Devices :
          /\ Queued(e)' => Queued(e)
          /\ Queued(e) => \/ Queued(e)'
                          \/ bg' = [pc |-> "onOpened", dev |-> e]
                          \/ devState[e] = "closed"
          /\ bg'.pc = "onOpened" => Queued(bg'.dev)
    BY <1>0, <1>16, DispatchQueued
  <2>2. \/ bg' = Idle
        \/ bg' = [pc |-> queue[1].kind, dev |-> queue[1].dev] /\ queue[1] \in Messages
    BY <1>0, <1>16, DispatchQueued DEF Dispatch
  <2>3. bg'.pc = "idle" \/ bg'.pc \in MessageKinds
    BY <2>2 DEF Idle, Messages
  <2>4. bg.pc = "idle" /\ bg.dev = None
    BY <1>16 DEF Dispatch, Idle
  <2>5. \A e \in Devices : OpenInFlight(e) <=> devState[e] = "opening" \/ Queued(e)
    BY <2>4 DEF Queued
  <2>6. \A e \in Devices : OpenInFlight(e)' <=>
          \/ devState'[e] = "opening" \/ Queued(e)'
          \/ bg'.dev = e /\ bg'.pc = "onOpened"
    BY <2>3 DEF Queued, MessageKinds
  <2> HIDE DEF OpenInFlight
  <2>7. UNCHANGED <<ui, thread, current, devState, lost, readers, cameraDevice,
                    previewReader, overtaken>>
    BY <1>16 DEF Dispatch
  <2> QED
    BY <1>0, <2>1, <2>3, <2>4, <2>5, <2>6, <2>7 DEF MessageKinds, Fresh
<1>17. CASE CallbackRelease
  <2>1. /\ bg.pc = "onOpened" => bg' = [bg EXCEPT !.pc = "assign"]
        /\ bg.pc = "onDisconnected" => bg' = [bg EXCEPT !.pc = "closeLost"]
        /\ bg.pc = "onError" => bg' = [bg EXCEPT !.pc = "closeBroken"]
    BY <1>17 DEF CallbackRelease, BgGoto
  <2>2. /\ bg'.dev = bg.dev /\ bg'.pc \in {"assign", "closeLost", "closeBroken"}
        /\ bg'.pc = "assign" <=> bg.pc = "onOpened"
        /\ bg.pc \in {"onOpened", "onDisconnected", "onError"}
    BY <1>0, <1>17, <2>1 DEF CallbackRelease
  <2>3. UNCHANGED <<ui, thread, queue, current, devState, lost, readers, cameraDevice,
                    previewReader, overtaken>>
    BY <1>17 DEF CallbackRelease
  <2>4. \A e \in Devices : OpenInFlight(e)' <=> OpenInFlight(e)
    BY <2>2, <2>3
  <2> HIDE DEF OpenInFlight
  <2> QED
    BY <1>0, <2>2, <2>3, <2>4 DEF Fresh
<1>18. CASE OnOpenedAssign
  BY <1>0, <1>18 DEF OnOpenedAssign, HandlerInv, Fresh, BgGoto, Idle
<1>19. CASE CreateCaptureRequest
  BY <1>0, <1>19 DEF CreateCaptureRequest, HandlerInv, Fresh, BgGoto, Idle
<1>20. CASE NewPreviewReader
  BY <1>0, <1>20 DEF NewPreviewReader, HandlerInv, Fresh, BgGoto, Idle
<1>21. CASE SetListener
  BY <1>0, <1>21 DEF SetListener, HandlerInv, Fresh, BgGoto, Idle
<1>22. CASE CreateCaptureSession
  BY <1>0, <1>22 DEF CreateCaptureSession, HandlerInv, Fresh, BgGoto, Idle
<1>23. CASE CreatePreviewSessionFails
  BY <1>0, <1>23 DEF CreatePreviewSessionFails, HandlerInv, Fresh
<1>24. CASE InitializeListener
  BY <1>0, <1>24 DEF InitializeListener, HandlerInv, Fresh, BgGoto, Idle
<1>25. CASE LostClose
  BY <1>0, <1>25 DEF LostClose, HandlerInv, Fresh, BgGoto, Idle
<1>26. CASE LostForget
  BY <1>0, <1>26 DEF LostForget, HandlerInv, Fresh, BgGoto, Idle
<1>27. CASE OnConfigured
  BY <1>0, <1>27 DEF OnConfigured, HandlerInv, Fresh, BgGoto, Idle
<1>28. CASE SetSession
  BY <1>0, <1>28 DEF SetSession, HandlerInv, Fresh, BgGoto, Idle
<1>29. CASE SetRepeatingRequest
  BY <1>0, <1>29 DEF SetRepeatingRequest, HandlerInv, Fresh, BgGoto, Idle
<1>30. CASE SetRepeatingFails
  BY <1>0, <1>30 DEF SetRepeatingFails, HandlerInv, Fresh
<1>31. CASE OnConfigureFailed
  BY <1>0, <1>31 DEF OnConfigureFailed, HandlerInv, Fresh, BgGoto, Idle
<1>32. CASE \E d \in Devices : OpenCamera(d)
  BY <1>0, <1>32 DEF OpenCamera, HandlerInv, PermitInv, Fresh
<1>33. CASE \E d \in Devices : OpenCameraRefused(d)
  BY <1>0, <1>33 DEF OpenCameraRefused, HandlerInv, PermitInv, Fresh
<1>34. CASE \E d \in Devices : ServiceAnswersOpen(d)
  <2> PICK d \in Devices : ServiceAnswersOpen(d)
    BY <1>34
  <2>1. PICK k \in MessageKinds : Post(k, d) /\
           \/ k = "onOpened" /\ devState' = [devState EXCEPT ![d] = "open"]
           \/ /\ k \in {"onDisconnected", "onError"}
              /\ devState' = [devState EXCEPT ![d] = "failed"]
    BY DEF ServiceAnswersOpen, MessageKinds
  <2>2. \A e \in Devices : Queued(e)' <=>
          \/ Queued(e)
          \/ k = "onOpened" /\ d = e /\ d = current /\ thread = "running"
    BY <1>0, <2>1, PostQueued
  <2>3. \A e \in Devices : OpenInFlight(e) <=>
          \/ devState[e] = "opening" \/ Queued(e)
          \/ bg.dev = e /\ bg.pc \in {"onOpened", "assign"}
    BY DEF Queued
  <2>4. \A e \in Devices : OpenInFlight(e)' <=>
          \/ devState'[e] = "opening" \/ Queued(e)'
          \/ bg'.dev = e /\ bg'.pc \in {"onOpened", "assign"}
    BY DEF Queued
  <2> HIDE DEF OpenInFlight
  <2>5. /\ devState[d] = "opening"
        /\ UNCHANGED <<ui, thread, bg, current, readers, cameraDevice, previewReader,
                       lost, overtaken>>
    BY DEF ServiceAnswersOpen
  <2>6. ThreadInv' /\ LostInv' /\ OthersInv'
    BY <1>0, <1>b, <2>1, <2>5 DEF Fresh
  <2>7. cameraDevice # d
    BY <1>0, <2>5 DEF FieldsInv, Fresh
  <2>8. CurrentInv'
    BY <1>0, <2>1, <2>2, <2>3, <2>4, <2>5, <2>7
  <2> QED
    BY <2>6, <2>8
<1>35. CASE \E d \in Devices : ServiceTakesDevice(d)
  <2> PICK d \in Devices : ServiceTakesDevice(d)
    BY <1>35
  <2>1. PICK k \in MessageKinds : Post(k, d) /\ k \in {"onDisconnected", "onError"}
    BY DEF ServiceTakesDevice, MessageKinds
  <2>2. \A e \in Devices : Queued(e)' <=>
          \/ Queued(e)
          \/ k = "onOpened" /\ d = e /\ d = current /\ thread = "running"
    BY <1>0, <2>1, PostQueued
  <2>3. \A e \in Devices : OpenInFlight(e) <=>
          \/ devState[e] = "opening" \/ Queued(e)
          \/ bg.dev = e /\ bg.pc \in {"onOpened", "assign"}
    BY DEF Queued
  <2>4. \A e \in Devices : OpenInFlight(e)' <=>
          \/ devState'[e] = "opening" \/ Queued(e)'
          \/ bg'.dev = e /\ bg'.pc \in {"onOpened", "assign"}
    BY DEF Queued
  <2> HIDE DEF OpenInFlight
  <2>5. /\ devState[d] = "open" /\ lost' = lost \union {d}
        /\ UNCHANGED <<ui, thread, bg, current, readers, cameraDevice, previewReader,
                       overtaken, devState>>
    BY DEF ServiceTakesDevice
  <2>6. \A e \in Devices : OpenInFlight(e)' <=> OpenInFlight(e)
    BY <2>1, <2>2, <2>3, <2>4, <2>5
  <2> QED
    BY <1>0, <2>5, <2>6 DEF Fresh
<1>36. CASE \E d \in Devices : ServiceAnswersSession(d)
  <2> PICK d \in Devices : ServiceAnswersSession(d)
    BY <1>36
  <2>1. PICK k \in MessageKinds : Post(k, d) /\ k # "onOpened"
    BY DEF ServiceAnswersSession, MessageKinds
  <2>2. \A e \in Devices : Queued(e)' <=>
          \/ Queued(e)
          \/ k = "onOpened" /\ d = e /\ d = current /\ thread = "running"
    BY <1>0, <2>1, PostQueued
  <2>3. \A e \in Devices : OpenInFlight(e) <=>
          \/ devState[e] = "opening" \/ Queued(e)
          \/ bg.dev = e /\ bg.pc \in {"onOpened", "assign"}
    BY DEF Queued
  <2>4. \A e \in Devices : OpenInFlight(e)' <=>
          \/ devState'[e] = "opening" \/ Queued(e)'
          \/ bg'.dev = e /\ bg'.pc \in {"onOpened", "assign"}
    BY DEF Queued
  <2> HIDE DEF OpenInFlight
  <2>5. UNCHANGED <<ui, thread, bg, current, readers, cameraDevice, previewReader,
                    overtaken, devState, lost>>
    BY DEF ServiceAnswersSession
  <2>6. \A e \in Devices : OpenInFlight(e)' <=> OpenInFlight(e)
    BY <2>1, <2>2, <2>3, <2>4, <2>5
  <2> QED
    BY <1>0, <2>5, <2>6 DEF Fresh
<1>37. CASE UNCHANGED vars
  BY <1>0, <1>37 DEF vars, Fresh
<1>38. CASE OpenCameraThrows
  BY <1>0, <1>38 DEF OpenCameraThrows, HandlerInv, Fresh
<1> QED
  BY <1>1, <1>2, <1>3, <1>4, <1>5, <1>6, <1>7, <1>8, <1>9, <1>10, <1>11,
     <1>12, <1>13, <1>14, <1>15, <1>16, <1>17, <1>18, <1>19, <1>20, <1>21,
     <1>22, <1>23, <1>24, <1>25, <1>26, <1>27, <1>28, <1>29, <1>30, <1>31,
     <1>32, <1>33, <1>34, <1>35, <1>36, <1>37, <1>38 DEF Next, UiStep, Lifecycle,
     BgStep, ServiceAnswer, ServiceLoss

LEMMA NextOnePermit == IInv /\ LostInv /\ OnePermit /\ [Next]_vars => OnePermit'
<1> SUFFICES ASSUME IInv, LostInv, OnePermit, [Next]_vars, ~TakenAway'
             PROVE  OnePermit'
  BY DEF OnePermit
<1>0. TypeOK /\ HandlerInv /\ PermitInv
  BY DEF IInv
<1> USE DEF OnePermit, UiHolds, ReleaseDue, StateCallbacks, TypeOK, svcVars, threadVars, fields
<1>1. CASE OnResume
  BY <1>0, <1>1 DEF OnResume, HandlerInv, TakenAway, LostInv, Fresh
<1>2. CASE OnSurfaceTextureAvailable
  BY <1>0, <1>2 DEF OnSurfaceTextureAvailable, HandlerInv, TakenAway, LostInv, Fresh
<1>3. CASE OnSurfaceTextureDestroyed
  BY <1>0, <1>3 DEF OnSurfaceTextureDestroyed, HandlerInv, TakenAway, LostInv, Fresh
<1>4. CASE TryAcquire
  BY <1>0, <1>4 DEF TryAcquire, HandlerInv, TakenAway, LostInv, Fresh
<1>5. CASE OnPause
  BY <1>0, <1>5 DEF OnPause, HandlerInv, TakenAway, LostInv, Fresh
<1>6. CASE CloseAcquire
  BY <1>0, <1>6 DEF CloseAcquire, HandlerInv, TakenAway, LostInv, Fresh
<1>7. CASE CloseSession
  BY <1>0, <1>7 DEF CloseSession, HandlerInv, TakenAway, LostInv, Fresh
<1>8. CASE CheckDevice
  BY <1>0, <1>8 DEF CheckDevice, HandlerInv, TakenAway, LostInv, Fresh
<1>9. CASE CloseDevice
  BY <1>0, <1>9 DEF CloseDevice, HandlerInv, TakenAway, LostInv, Fresh
<1>10. CASE CloseDeviceFails
  BY <1>0, <1>10 DEF CloseDeviceFails, HandlerInv, TakenAway, LostInv, Fresh
<1>11. CASE ForgetDevice
  BY <1>0, <1>11 DEF ForgetDevice, HandlerInv, TakenAway, LostInv, Fresh
<1>12. CASE CloseReader
  BY <1>0, <1>12 DEF CloseReader, HandlerInv, TakenAway, LostInv, Fresh
<1>13. CASE CloseRelease
  BY <1>0, <1>13 DEF CloseRelease, HandlerInv, TakenAway, LostInv, Fresh
<1>14. CASE QuitSafely
  BY <1>0, <1>14 DEF QuitSafely, HandlerInv, TakenAway, LostInv, Fresh
<1>15. CASE Join
  BY <1>0, <1>15 DEF Join, HandlerInv, TakenAway, LostInv, Fresh
<1>16. CASE Dispatch
  BY <1>0, <1>16 DEF Dispatch, HandlerInv, TakenAway, LostInv, Fresh
<1>17. CASE CallbackRelease
  <2>1. /\ bg.pc = "onOpened" => bg' = [bg EXCEPT !.pc = "assign"]
        /\ bg.pc = "onDisconnected" => bg' = [bg EXCEPT !.pc = "closeLost"]
        /\ bg.pc = "onError" => bg' = [bg EXCEPT !.pc = "closeBroken"]
    BY <1>17 DEF CallbackRelease, BgGoto
  <2>2. bg'.pc \in {"assign", "closeLost", "closeBroken"} /\ bg.pc \in StateCallbacks
    BY <1>0, <1>17, <2>1 DEF CallbackRelease
  <2>3. permits' = permits + 1 /\ UNCHANGED <<ui, queue, current, devState, lost>>
    BY <1>17 DEF CallbackRelease
  <2>4. current # None => devState[current] # "opening"
    BY <1>0, <2>2 DEF HandlerInv, Idle, Fresh
  <2> QED
    BY <1>0, <2>2, <2>3, <2>4 DEF TakenAway
<1>18. CASE OnOpenedAssign
  BY <1>0, <1>18 DEF OnOpenedAssign, HandlerInv, TakenAway, LostInv, Fresh, BgGoto, Idle
<1>19. CASE CreateCaptureRequest
  BY <1>0, <1>19 DEF CreateCaptureRequest, HandlerInv, TakenAway, LostInv, Fresh, BgGoto, Idle
<1>20. CASE NewPreviewReader
  BY <1>0, <1>20 DEF NewPreviewReader, HandlerInv, TakenAway, LostInv, Fresh, BgGoto, Idle
<1>21. CASE SetListener
  BY <1>0, <1>21 DEF SetListener, HandlerInv, TakenAway, LostInv, Fresh, BgGoto, Idle
<1>22. CASE CreateCaptureSession
  BY <1>0, <1>22 DEF CreateCaptureSession, HandlerInv, TakenAway, LostInv, Fresh, BgGoto, Idle
<1>23. CASE CreatePreviewSessionFails
  BY <1>0, <1>23 DEF CreatePreviewSessionFails, HandlerInv, TakenAway, LostInv, Fresh
<1>24. CASE InitializeListener
  BY <1>0, <1>24 DEF InitializeListener, HandlerInv, TakenAway, LostInv, Fresh, BgGoto, Idle
<1>25. CASE LostClose
  BY <1>0, <1>25 DEF LostClose, HandlerInv, TakenAway, LostInv, Fresh, BgGoto, Idle
<1>26. CASE LostForget
  BY <1>0, <1>26 DEF LostForget, HandlerInv, TakenAway, LostInv, Fresh, BgGoto, Idle
<1>27. CASE OnConfigured
  BY <1>0, <1>27 DEF OnConfigured, HandlerInv, TakenAway, LostInv, Fresh, BgGoto, Idle
<1>28. CASE SetSession
  BY <1>0, <1>28 DEF SetSession, HandlerInv, TakenAway, LostInv, Fresh, BgGoto, Idle
<1>29. CASE SetRepeatingRequest
  BY <1>0, <1>29 DEF SetRepeatingRequest, HandlerInv, TakenAway, LostInv, Fresh, BgGoto, Idle
<1>30. CASE SetRepeatingFails
  BY <1>0, <1>30 DEF SetRepeatingFails, HandlerInv, TakenAway, LostInv, Fresh
<1>31. CASE OnConfigureFailed
  BY <1>0, <1>31 DEF OnConfigureFailed, HandlerInv, TakenAway, LostInv, Fresh, BgGoto, Idle
<1>32. CASE \E d \in Devices : OpenCamera(d)
  BY <1>0, <1>32 DEF OpenCamera, HandlerInv, TakenAway, LostInv, Fresh
<1>33. CASE \E d \in Devices : OpenCameraRefused(d)
  BY <1>0, <1>33 DEF OpenCameraRefused, HandlerInv, TakenAway, LostInv, Fresh
<1>34. CASE \E d \in Devices : ServiceAnswersOpen(d)
  <2> PICK d \in Devices : ServiceAnswersOpen(d)
    BY <1>34
  <2>1. PICK k \in MessageKinds : Post(k, d) /\
           \/ k = "onOpened" /\ devState' = [devState EXCEPT ![d] = "open"]
           \/ /\ k \in {"onDisconnected", "onError"}
              /\ devState' = [devState EXCEPT ![d] = "failed"]
    BY DEF ServiceAnswersOpen, MessageKinds
  <2>2. \/ queue' = queue
        \/ d = current /\ queue' = Append(queue, [kind |-> k, dev |-> d])
    BY <1>0, <2>1, PostType
  <2>3. \A i \in DOMAIN queue' :
          \/ i \in DOMAIN queue /\ queue'[i] = queue[i]
          \/ i = Len(queue) + 1 /\ d = current /\ queue'[i].kind = k
    BY <1>0, <2>2
  <2>4. /\ devState[d] = "opening" /\ d \notin lost
        /\ UNCHANGED <<ui, permits, bg, current, lost>>
    BY DEF ServiceAnswersOpen, LostInv, Fresh
  <2>5. ~TakenAway
    BY <1>0, <2>1, <2>4 DEF TakenAway
  <2>6. d = current => queue = <<>> /\ bg.pc = "idle"
    BY <1>0, <2>4 DEF HandlerInv, Idle, Fresh
  <2>7. ReleaseDue' => ReleaseDue
    BY <1>0, <2>1, <2>3, <2>4
  <2> QED
    BY <1>0, <2>2, <2>3, <2>4, <2>5, <2>6, <2>7
<1>35. CASE \E d \in Devices : ServiceTakesDevice(d)
  BY <1>0, <1>35 DEF ServiceTakesDevice, HandlerInv, TakenAway, LostInv, Fresh
<1>36. CASE \E d \in Devices : ServiceAnswersSession(d)
  <2> PICK d \in Devices : ServiceAnswersSession(d)
    BY <1>36
  <2>1. PICK k \in MessageKinds : Post(k, d) /\ k \notin StateCallbacks
    BY DEF ServiceAnswersSession, MessageKinds
  <2>2. \/ queue' = queue
        \/ d = current /\ queue' = Append(queue, [kind |-> k, dev |-> d])
    BY <1>0, <2>1, PostType
  <2>3. \A i \in DOMAIN queue' :
          \/ i \in DOMAIN queue /\ queue'[i] = queue[i]
          \/ i = Len(queue) + 1 /\ d = current /\ queue'[i].kind = k
    BY <1>0, <2>2
  <2>4. UNCHANGED <<ui, permits, bg, current, devState, lost>>
    BY DEF ServiceAnswersSession
  <2> QED
    BY <1>0, <2>1, <2>3, <2>4 DEF TakenAway
<1>37. CASE UNCHANGED vars
  BY <1>0, <1>37 DEF vars, TakenAway
<1>38. CASE OpenCameraThrows
  BY <1>0, <1>38 DEF OpenCameraThrows, HandlerInv, TakenAway, LostInv, Fresh
<1> QED
  BY <1>1, <1>2, <1>3, <1>4, <1>5, <1>6, <1>7, <1>8, <1>9, <1>10, <1>11,
     <1>12, <1>13, <1>14, <1>15, <1>16, <1>17, <1>18, <1>19, <1>20, <1>21,
     <1>22, <1>23, <1>24, <1>25, <1>26, <1>27, <1>28, <1>29, <1>30, <1>31,
     <1>32, <1>33, <1>34, <1>35, <1>36, <1>37, <1>38 DEF Next, UiStep, Lifecycle,
     BgStep, ServiceAnswer, ServiceLoss

(* After onPause the app holds a camera or an ImageReader only if          *)
(* closeCamera tested cameraDevice before that camera's onOpened callback  *)
(* had stored it, however often the fragment is resumed and paused.        *)
THEOREM LeaksOnlyIfOvertaken == Spec => []LeakOnlyIfOvertaken
<1>1. IInv /\ LeakInv => LeakOnlyIfOvertaken
  BY DEF LeakInv, OthersInv, CurrentInv, LeakOnlyIfOvertaken
<1> QED
  BY InitIInv, NextIInv, InitLeakInv, NextLeakInv, <1>1, PTL DEF Spec

LEMMA InitOnePermit == Init => OnePermit
BY DEF Init, OnePermit, UiHolds, ReleaseDue, StateCallbacks, Idle

(* cameraOpenCloseLock stays a binary semaphore, unless a camera that was  *)
(* open is taken away: then its onOpened callback and its onDisconnected   *)
(* or onError callback each release a permit.  A failed open adds none.    *)
THEOREM BinaryUnlessTaken == Spec => []BinaryUnlessLost
<1>1. IInv /\ OnePermit => BinaryUnlessLost
  BY DEF IInv, TypeOK, OnePermit, BinaryUnlessLost, TakenAway
<1>2. LeakInv => LostInv
  BY DEF LeakInv
<1> QED
  BY InitIInv, NextIInv, InitLeakInv, NextLeakInv, InitOnePermit, NextOnePermit,
     <1>1, <1>2, PTL DEF Spec

=============================================================================
