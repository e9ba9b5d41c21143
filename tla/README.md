# ZeroVision: a TLA+ verification project

ZeroVision is an Android app for blind users with a PHP web service behind it.
The phone's camera feeds a TensorFlow network whose results are spoken; menus,
a dial pad and a list of friends are worked with the two volume keys and
speech; messages, friends and accounts live in a MySQL database that the phones
reach by HTTP. This directory models the parts of it that keep state, checks
them with TLC and proves their safety properties with TLAPS.

Paths below are relative to the repository: `demo/` stands for
`Android/app/src/main/java/org/tensorflow/demo/`, `tensorflowdemo/` for
`Android/app/src/main/java/org/tensorflow/tensorflowdemo/`, `jni/` for
`Android/jni-build/jni/`.

## 1. The system

| Component | State | Operations | Talks to |
|---|---|---|---|
| Camera life cycle (`demo/CameraConnectionFragment.java`) | semaphore `cameraOpenCloseLock`; fields `cameraDevice`, `captureSession`, `previewReader`; a handler thread | `onResume`/`openCamera`, `onPause`/`closeCamera`/`stopBackgroundThread`, surface callbacks, `onOpened`, `onDisconnected`, `onError`, `createCameraPreviewSession`, `onConfigured`, `onConfigureFailed` | camera service (asynchronous calls, callbacks on the handler thread), UI thread |
| Frame pipeline (`demo/TensorFlowImageListener.java`) | flag `computing`, bitmap `croppedBitmap`, `handler`; the reader's two images; a second handler thread | `initialize`, `onImageAvailable`, the inference runnable | camera, native classifier, score view |
| Native classifier (`jni/tensorflow_jni.cc`, `demo/TensorFlowClassifier.java`) | globals `g_compute_graph_initialized`, `g_num_runs`, the session and labels | `initializeTensorFlow`, `classifyImageBmp`, `GetTopN`, parsing of the answer | frame pipeline |
| Asset streams (`jni/jni_utils.cc`, `jni/limiting_file_input_stream.h`) | descriptor, bytes left, protobuf's adaptor and coded stream | reading the graph out of the APK, reading the labels | native classifier, protobuf |
| Colour conversion (`jni/rgb2yuv.cc`, `jni/yuv2rgb.cc`) | the buffers of the caller | RGB to YUV420SP and back, camera planes to RGB | frame pipeline |
| Camera activity (`demo/CameraActivity.java`) | permission state | the permission dialog, setting the fragment | camera fragment |
| Login and session (`tensorflowdemo/LoginActivity`, `Session`, `Signup*`) | three preferences, the static field `session`, the back stack | login, sign-up, screens, back, recreation, process death | accounts service |
| Voice menus (`MainActivity`, `ViewFriendsActivity`, `AppsListActivity`) | a cursor per list | VOLUME_DOWN moves and speaks, VOLUME_UP opens | friends and message services |
| Dial pad (`DialActivity`) | cursor, text and selection, permission | keys, touch, call, delete | phone app |
| Messages (`Web services/message.php`, `MessageActivity`, `ViewFriendsActivity`) | table `message` | `get_message`, `send_msg` | phones, through `SubUrls.PostData` |
| Accounts (`Web services/user.php`) | table `user_login` | `new_user`, `user_verification`, `user_login`, `send_otp`, `user_update_password`, `otp_verify` | phones, SMS provider |
| Friends (`Web services/friend.php`, `AddFriendActivity`) | table `friends` | `send_friends_request`, `friends_list` | phones |
| Location (`Web services/location.php`) | table `location` | `update_location` | nobody: no client calls it |

What is hard here:

* **Three parties around the camera.** The UI thread, the callback thread and
  the camera service share fields without a lock; the semaphore is released in
  callbacks that may come late, twice, or not at all.
* **A flag instead of a lock.** `computing` is read and set on one thread and
  cleared on another; it guards the bitmap and, indirectly, the native globals.
  It outlives pauses, the threads do not.
* **No transactions.** Every PHP request is a series of SQL statements that
  interleave with those of all other requests, and each can fail. Replies get
  lost after the work is done.
* **Static state and killed processes.** The session is a static field, the
  stored login is three separate commits, and Android restores the back stack
  in a new process.
* **Integers at their edges.** 8-bit sums, 64 MB limits, odd image sizes, ties,
  NaN and infinity, and reads that are short, interrupted or fail.
* **A user who cannot see.** A cursor that is not where speech says it is, a
  dialog that never closes, or a digit entered silently cannot be noticed.

The correctness properties of each component are in section 3, and
`PROJECT.json` lists each hazard at its line with the properties that would
catch it going wrong.

## 2. Modules

### CameraLifecycle

One process for the UI thread (`ui` is its place in `onResume`/`onPause`), one
for the handler thread (`queue`, `bg`), and the camera service (external). Each
statement that reads or writes a shared field is a step of its own:
`CheckDevice` and `CloseDevice` are the test and the use of `cameraDevice` at
lines 405 and 406, `CallbackRelease` and `OnOpenedAssign` the release and the
store at lines 153 and 154. A member of `Devices` is one call of
`CameraManager.openCamera`; it also names the session and the reader made for
it. `tryAcquire`'s 2.5 s are a step that may be taken when no permit is there;
`crash` records which statement's uncaught exception ended the process.
`TryAcquire` begins with `setUpCameraOutputs`, which may leave `cameraId` null.
`OpenCameraRefused` is an `openCamera` call that throws `CameraAccessException`,
which is caught and logged; `OpenCameraThrows` is one that throws what nobody
catches, `IllegalArgumentException` for a null `cameraId` or `SecurityException`
without the permission (AppSession says when a fragment is without it).
`lost` holds cameras taken away after they were open; a failed open is a state
of the device. `overtaken` is a history variable.

The surface appears while the fragment is resumed and goes while it is paused, as
a full-screen activity sees it. A surface that appears for a paused but visible
activity, which would open the camera with a null handler, is left out.

Callbacks for a device whose handler has quit are dropped, as a looper drops
messages posted after `quitSafely`.

### FramePipeline

The background thread's `createCameraPreviewSession` (which calls `initialize`
and through it `initializeTensorFlow`) and `onImageAvailable`, the inference
thread's runnable, and the UI thread's part of `onPause`: closing the reader,
quitting both threads, joining them. `computing` is not volatile: `stale` says
that the background thread may still read TRUE after the inference thread wrote
FALSE, until `BecomesVisible`. (The reverse staleness cannot occur: the thread
that sets the flag is the one that tests it.) Starting and joining threads makes
stores visible. `numRuns` and `loaded` are the native globals; TensorFlow's
`Session::Run` is one opaque step. The camera itself is CameraLifecycle's
subject: here it may start a preview at any time after `onResume`.

### FrameSlot

The abstract specification of the frame pipeline: a place for one frame, which
is free, taken, or stuck for good. A frame is taken when the place is free, is
announced, then releases the place; only a frame that was not announced can be
lost, and it takes the place with it. `Progress` says that no frame keeps the
place for ever. FramePipeline maps it: `Place` is the flag together with whether
some thread is still going to clear it, `Current` the frame wherever it is
(being converted, in the inference queue, being classified), `shown` itself.

### NativeClassifier, AssetStream, TopN

What happens inside `initializeTensorFlow` and `recognizeImage`; that the two
calls do not overlap is FramePipeline's result.

AssetStream is `ReadFileToProto`. A byte is its offset in the APK, so `parsed`
says exactly which bytes the parser was given. The path through protobuf is
translated from the copy in the repository: `CopyingInputStreamAdaptor::Skip`
and `Next`, `CodedInputStream::Skip`, `Refresh` and the limits. Its eager
constructor matters: in the large case a block has been read before
`Skip(start)`. The parser itself is reduced to where a message may end
(`FieldEnds`). `RefreshBlock` returns any number of bytes up to the wanted one,
`ReadInterrupted` is `EINTR`, `ReadFails` any other error. `AssetRefused` is a
failed `CHECK_NOTNULL`; that the asset, once opened and whole, is a message is
assumed, as the APK is built with it.

TopN is `GetTopN`, one loop round per step. The queue is a set of pairs and
`Popped` says which of them `pop` may remove: the worst, or, once a NaN has been
pushed and `std::greater` is no ordering any more, any of them.

NativeClassifier adds the native globals, the labels (a label is blank or the
text of its own index), the lines of text and their parsing in Java, and
`setResults`. Whatever Android and TensorFlow are asked for can be refused: the
assets, the session, a run of the network, the bitmap's information, lock and
unlock. `Abort` is the CHECK or `LOG(FATAL)` behind each, and `refused` keeps
which it was. The format CHECK is one of them, although the listener's bitmap
always has the right one. +inf is the number `Infinity` above all confidences
(-inf is below the threshold and is dropped like any small value). `Restart` is
a new process after an abort or an uncaught exception. Running out of memory in
the allocator is not modelled.

### ColorConversion

One step is one pixel. `WriteYUV` accumulates in bytes (`% 256`) over whatever
the buffer held (`Leftover`); `>>` on a negative number is a floor division, as
the compilers of the NDK implement it. The four readers are `ReadSP` (to 8888
and to 565), `ReadHalf` and `ReadPlanes`. `ReadHalfPlanes` is the halfSize branch
of `convertYUV420ToARGB8888`, which hands the Y plane alone to the half-size
reader: what it reads behind the array is any byte of `Beyond` or a fault.
The planes of a camera image, with row and pixel strides and an unpadded last
row, are external. `touched` records the positions the last step accessed. The `__APPLE__` branches are not built.

### Messaging

`req` holds one record per HTTP request with its place among the SQL statements
of `message.php`; `waiting` is the request a phone's modal dialog waits for.
`GiveUp` is any failure inside `PostData`, which answers a text that is not
JSON: the request may have vanished, or be still running there. `Vanish` is a
request, a server or an answer that is lost without a word to the phone. `PostData`
sets neither a connect nor a read timeout, so the phone then waits for ever, or
until the connection breaks. `heard` means that the answer was processed and handed
to `MessageActivity`; its speech, which begins when the engine is ready, is not
modelled.
`overrun`, `selected`, `lostReply` and `unmarked` are history variables.

### Mailbox

The abstract specification of the message service, per message: none, waiting,
then heard by its recipient or lost, both for good; what changes in one step
belongs to one sender and one recipient. A sender is told "Message sent" only of
a message that is stored. Messaging maps it with `Fate`: a row that is unread, or
in an answer that can still arrive, is waiting, and one announced to anybody but
its recipient has a fate that Mailbox does not know. `confirmed` maps to `told`.

### Friends

`friend.php` and the phones that call it, in the manner of Messaging. The tables
are multisets: `friends` counts the rows of a pair, and `Logins` the rows an id
has in `user_login` (Accounts shows how it gets two), so `SelectFriends` has the product that the join returns. `unheard` is a history
variable: rows whose answer reached nobody.

### Accounts

Likewise for `user.php`, with the table as a function from the inserting request
to its row (a user id may have several). The schema is not in the repository; a
unique key on `user_id` would show as an INSERT that fails, which the model
allows. A request carries any code: one that the service may draw, the right one
or another, or 0 or 1, the other values that a column can have. 0 is what
`user_update_password` stores for a used code, and `otp_verify` compares
`user_status` with the code it gets, so 0 finds an account that is not verified
and verifies it.

### AppSession

Preferences, the static field, the back stack, the process. `LoginReplied`,
`SetPassword`, `SetUserType` are the three commits, with a kill possible between
them. `asleep` counts the screens that the current process has not recreated
yet. `Recreate` is a rotation: the dialog is destroyed, the `AsyncTask` is not,
and its `dismiss` on the destroyed window throws (`OrphanReplies`). AsyncTasks
run one after the other (the default serial executor). `MainActivity` swallows
the back key.

CameraActivity is the screen `Camera` with `granted`, `asking` and `fragment`:
`CameraOnCreate(saved)` is its `onCreate`, with or without a saved state,
`PermissionResult` the answer of a request, with a dialog or, after a permanent
denial, without one. Permissions can also be granted or
withdrawn in the system settings; a withdrawal ends the process. `AsksTwice` is
what a recreated activity meets on platforms that allow one request at a time:
the second request is cancelled at once, and the cancelled result asks again.
`OpenUnpermitted` is the uncaught `SecurityException` of a restored fragment.
`elsewhere` is a history variable. Accounts with an empty id, which neither the
app nor `user.php` refuses, are left out: the app takes a stored empty id for no
login.

### VoiceMenus

The three cursors with the tests for the end of the list as they are in the
code, and the entry each list spoke last, by a key or (`TouchApp`) by a touch,
which does not move the cursor. Messages are fetched for the friend at
the cursor, and the cursor is read again when the reply comes. An app is started
by the name of its package, so `LaunchEntry` is the first launcher entry of the
package. `Recreate` is a rotation, or a return to a screen that Android had
destroyed: the cursor begins again while the user still has the last entry in mind, and a request
that was running is an orphan whose reply crashes. (The death of the whole
process is in AppSession.) `stepped` and `touched` are history variables.

### DialPad

The fourteen keys, the editing operators `Enter` and `Delete`
(`onCharacterPressed`, `onDeletePressed`) on a text with a selection, and the
permission dialog. `cursor` is the field `i`; `DialVolumeUp` keeps the missing
`break` of case 7. `onKeyLongPress` is never called (nothing calls `startTracking`), the soft
keyboard's own edits are the EditText's, and the model begins when the speech
engine is ready. A selection may be reported end first (`Select`); entering and
deleting then double what is selected, and the properties hold all the same.

## 3. Runs

| Run | Shows | Bounds |
|---|---|---|
| `camera` | An uncaught exception hits while the UI thread is in `onPause`, or is one that `manager.openCamera` throws for want of the permission or, before the first open call, of a camera. A camera or reader is held after `onPause` only if `closeCamera` overtook `onOpened`. The semaphore exceeds one permit only after an open camera was taken away. `onPause` returns unless an open call was refused. An accepted open call leads to a preview unless camera, session or foreground is lost. | 2 open calls |
| `camera_leak` (violation) | `onOpened` releases before it stores: `onPause` can end with the camera open. | 1 open call |
| `frames` | One frame at a time; no classification during `initializeTensorFlow` and no division by a zero run count; each image is closed; the flag is orphaned only during a pause; the whole implements FrameSlot, its progress included; both joins end. | 4 frames, 3 resumes, 2 images |
| `native` | The parser is given the bytes of the asset, in order and no others; the graph is short only after a read error; `GetTopN` keeps the best entries after every round and returns them in descending order; what is spoken is the best class that has something to say, under its own label; the process dies only of a NaN or an infinity, of a read error or of a refused request, and a refused load never counts as initialized; every call comes back. | asset at offsets 0 to 3, 1 to 4 bytes, blocks of 2, limits 3 and 8, 2 faults; 4 classes, 3 confidences, infinity and NaN, 2 results |
| `colour` | No access leaves its buffer, but for the chroma of the halfSize branch for camera planes; chroma is the average of a whole block in spite of 8-bit sums and an old buffer; what is read back, by the others, has the chroma of its own block; single samples agree with ITU-R BT.601. | 6 sizes up to 4x2 and 3x3, 2 colours per format, 24 values per sample channel, 2 paddings |
| `messaging` | A message marked read has reached its phone, is under way, went with a lost reply, or was inserted between a SELECT and its UPDATE. A message is delivered twice only by overlapping requests or after an UPDATE that failed or was not reached. The whole implements Mailbox: only its recipient hears a message, once lost it stays lost, and "Message sent" means stored. A progress dialog closes, unless its request or answer vanished. | 3 requests, 2 users, 3 messages |
| `friends` | Each row of `friends` was confirmed, is about to be, or its answer was lost; a friend is listed twice only if the account or the pair is stored twice; a list has every friend that was confirmed before it was asked for. | 3 requests, 2 users, 3 ids |
| `accounts` | An id gets two accounts only if two `new_user` overlap; a password changes only with the code the account expects, which has changed none before, or with the 0 that stands for a used one; the last SMS is valid unless sends overlapped or failed. | 3 requests, 2 users, 2 codes |
| `accounts_verified` (violation) | A wrong code is answered "Account Verified". | same |
| `session` | `session` is null only in a restored process; the three preferences agree unless a login was cut; without a sign-up the menu is only reached by a blind user who logged in. The camera screen has its fragment exactly if it has the permission, or waits for the result of a request; the exceptions are a screen restored after a grant, or a withdrawal, in the settings. | 3 users; the model is finite as it is |
| `menus` | VOLUME_UP opens what was spoken, except after a touch and, until the next VOLUME_DOWN, after a recreation; a crash means VOLUME_UP on a list of apps that had no VOLUME_DOWN, an uninstalled app, or a reply to a recreated screen; no friend but the first is ever offered. | up to 2 friends, 3 apps, 2 packages |
| `dial` | The selection stays in the text; back space undoes an entry; the number changes as was spoken, except for key 8. | numbers of 2 characters |

**Why the bounds suffice.** Two open calls let an old device, session or late
callback meet a new one; no step relates three. (With three the same invariants
hold on 5.2 million states.) Three resumes let a stale frame, handler and flag
survive two pauses, and four frames let one be converted, one posted, one
classified and one dropped. Three messages between two users give a pair with
two messages and the opposite direction; three requests let two `get_message`
overlap after a `send_msg`, or a `send_msg` fall into the window of a
`get_message` that has something to deliver. (With four, up to symmetry, the
same invariants hold.) An asset of 1 to 4 bytes with a limit of 3 lies below,
at and above the limit; offsets 0 to 3 with blocks of 2 put the eager block
before the asset, across its start and into it. Four classes for two places let
the queue overflow twice, with ties at and above the threshold and labels that
are missing or blank. The sizes of `colour` have odd and even edges in both
directions, two blocks in a row and in a column; its colours are the ones whose
chroma shares are largest and smallest. Overlap of PHP requests needs two requests; the
third account request sets the table up. A text of two characters has an inner
position, both ends, and empty, partial and full selections; its proof is for
every length. Bounds appear as constants (`MaxFrames`, `MaxResumes`, `MaxLen`,
`MaxFriends`) or as the sets `Devices`, `Requests`, `Messages`.

**Fairness.** Only what the platform guarantees is assumed: threads that can run
do; the camera service answers each open call and each session request; an
activity that called `finish()` is paused; stores become visible; the web server
finishes the requests that do not vanish and a phone processes an answer it got; a native call that has
begun goes on (`GoesOn`; faults of `read` are bounded by `MaxFaults`). Nothing obliges the
user to pause or resume, the camera to deliver frames or be taken away, a
request to be made, or a connection to break: without a timeout in `PostData` a
phone may wait for ever for an answer that was lost, which
`DialogClosesUnlessLost` excepts. The camera's
`PauseCompletes` excepts behaviours in which an open call was refused: after one
the UI thread really can hang (section 4).

**Stopping.** Deadlock is checked in `session`, `native` and `colour`. The other systems really
stop: a crashed process, a UI thread blocked in `acquire()`, a closed activity,
or the bound on requests, frames or open calls being used up.

**Mutants.** Every property of a passing run has a mutated definition beside the
original (a dropped guard, a wrong order, a missing reset) under which TLC finds
the property violated: the mutants are listed in `PROJECT.json`.

## 4. Disagreements found

Two have a run of their own that TLC ends with a counterexample; of the others
a property of a passing run says exactly when they occur.

| Where | What the code does | What it says | Shown by |
|---|---|---|---|
| `demo/CameraConnectionFragment.java:153` | the permit is released before `cameraDevice` is stored, so the app can be paused with the camera open | "A Semaphore to prevent the app from exiting before closing the camera" (213) | `camera_leak`, `LeakOnlyIfOvertaken` |
| `Web services/user.php:46` | tests that the UPDATE ran, not that it matched | "Invalid OTP!" (49) | `accounts_verified` |
| `Web services/user.php:110` | a used code is replaced by 0, which is a code that a request may carry: until the next `send_otp` the password changes again without a code | "Invalid Data!" (116) | the first case of `ChangesByCodeOrZero` |
| `Web services/user.php:138` | `otp_verify` compares the code with `user_status`: no drawn code is accepted, 0 is | | the action `SelectForVerification` |
| `demo/CameraConnectionFragment.java:388` | the catch block keeps the permit; the next `onPause` hangs | "Stops the background thread and its Handler" (433), which is then never reached | the condition of `PauseCompletes` |
| `demo/TensorFlowImageListener.java:180`, `:197` | the error path, or an ignored post, leaves `computing` set for good: after the resume every frame is dropped | "takes in preview frames and converts the image to Bitmaps" (41) | `OrphanedOnlyByPause`; the stuck place of `ImplementsSlot` |
| `tensorflowdemo/DialActivity.java:159` | case 7 falls through: key 8 enters "89" and says "nine" | speaks "eight" (113) | `HeardUnlessEight` |
| `tensorflowdemo/AppsListActivity.java:139` | a touch speaks the app and leaves `i`: back from it, VOLUME_UP opens another app, or crashes at `apps.get(-1)` | | the exceptions of `CursorOnSpoken` and `CrashOnlyUnprepared` |
| `tensorflowdemo/ViewFriendsActivity.java:92` | `size() >= i` is always true: only the first friend is offered | "select Friend" (74) | `OnlyFirstFriend` |
| `Web services/friend.php:25` | a repeated request stores the pair again, and the friend is listed once per row | | `RowsAccountedFor`, `ListedTwiceOnlyIfStoredTwice` |
| `jni/tensorflow_jni.cc:188` | a NaN is not below the threshold, is printed as "nan", an infinity as "inf", and `Float.parseFloat` throws; a value equal to the threshold is kept | "confidence values over threshold" (169) | `DeathIsExplained`, `TopNInOrder` |
| `jni/limiting_file_input_stream.h:41` | a read error at the end of a top-level field passes as the end of the graph | CHECK at `jni_utils.cc:108` | the condition of `ParsedIsAsset` |
| `jni/rgb2yuv.cc:37` | the blocks at an odd edge hold a half or a quarter of their chroma | "the average values of all 4 pixels in the block" | the condition of `ChromaIsAverage` |
| `jni/yuv2rgb.cc:97` | a row of chroma is taken to be `width` bytes | `rgb2yuv.cc:31`: "Odd widths get rounded up" | the condition of `DecodedFromOwnBlock` |
| `jni/yuv2rgb.cc:38` | the comment's formulas for red and blue are each other's; the code is right | "This is the floating point equivalent" (36) | `SamplesAreBT601` and its mutant |
| `jni/imageutils_jni.cc:99` | with halfSize the Y plane is read as a YUV420SP buffer: chroma comes from behind its samples, past the end of the array, and the row stride is ignored | "If true, downsample to 50% in each dimension" (`env/ImageUtils.java:101`) | the exceptions of `InBoundsUnlessHalfPlanes` and `DecodedFromOwnBlock` |
| `tensorflowdemo/SubUrls.java:52` | no timeout is set and the dialog is not cancelable: an answer that never comes keeps it up for ever | | the condition of `DialogClosesUnlessLost` |
| `demo/CameraActivity.java:41` | a screen restored after a grant in the settings stays empty; a denial asks again for ever | | `FragmentMatchesPermission` |

Of the colour conversions the app itself calls only the one for camera planes,
with halfSize false (`TensorFlowImageListener.java:167`), which has no such
condition.

## 5. Proofs

All theorems hold for every value of the constants that meets the named ASSUMEs
(`None` is no device, `MaxImages` is positive, an APK ends below the raised limit
of 1 GB, and so on). The proofs are in modules of their own, which all have the
same outline: an inductive invariant `IInv`, `Init => IInv`, `IInv /\
[Next]_vars => IInv'` with a step per action, and theorems that combine the two
with PTL. Where a result needs more than `IInv`, a second invariant is proved
inductive relative to it. FramePipelineProofs has a second part about
ColorConversion and VoiceMenusProofs one about DialPad, whose invariants are
`ColourInv` and `DialInv`; these two components have names that differ from those
of their neighbours (`ColourSpec`, `DialSpec`), so that one module can extend both.

**CameraLifecycleProofs.** `TypeCorrect`, `CrashesWhereStated`,
`LeaksOnlyIfOvertaken` and `BinaryUnlessTaken`, for any number of open calls.
None of the last three is inductive. `CrashesWhereStated` adds: `PermitInv`, a permit is there
whenever `openCamera` may come, so `tryAcquire` does not time out; `HandlerInv`,
the handler thread works only for the current open call, after the service has
answered it, and is idle once joined; `FieldsInv`, a device in a field has been
answered; `CameraIdInv`, no camera is opened before one was chosen; and `ResumedInv`, while the fragment is resumed the fields the
callbacks use are those of the current call, because every writer runs on the
same handler thread. `LeaksOnlyIfOvertaken` rests on `LeakInv`: what the app
holds belongs to the current call or was overtaken, and a current camera that
was not overtaken is, at each place of `closeCamera`, either on its way to the
field, in the field, or closed; a reader made after `closeReader` is given up
because the device it was made for is already unusable. `BinaryUnlessTaken`
rests on `OnePermit`: unless an open camera was taken away there is one permit, which
is free, with the UI thread, or due from exactly one callback.

**FramePipelineProofs.** `FlagExcludes` (one frame at a time, and the classified
bitmap is the posted one), `NativeIsReady`, `ImagesClosed`, and the action
property `FreezeOnlyByPause`. The invariant's core is `FlagInv`: a frame in
progress implies `computing`. With it `onImageAvailable` passes its test only
when nothing is in progress. `ThreadsInv` says what may be queued when a thread
is gone, and `PreviewInv` that frames and inferences belong to a preview that
was initialized in the current resume, which with the joins keeps `initializeTensorFlow` apart
from a classification. `PipelineIsASlot`: every step is a step of FrameSlot or
leaves it alone. The mapping needs that frames keep their order (`OrderInv`) and
that a frame under way is newer than what is shown (`ShownInv`).

**MessagingProofs.** `MessagesAreAccountedFor`: for any set of requests, each
message marked read is accounted for. The invariant adds that a phone waits only
for a request of its own (so a reply is heard by the right user), the shape of a
request's rows, and `WindowCovered`: every unread row of a pair whose request
stands before its UPDATE was either selected by it or recorded as inserted in
its window. `RepeatsOnlyIfOverlap` (an action property) and
`MessagingImplementsMailbox` add `RowsInv`: whose rows the phones and the
answers hold, that a message has one sender's request, and that a selected row
that is still unread has its UPDATE to come, or had one that failed or was not reached. The
refinement says for each action which messages it moves and from which fate to
which; `FateLemma` reads the fate off a state once and for all. Mailbox states
no fairness, so this is the whole of `ImplementsMailbox`.

**AccountsProofs.** `DuplicatesNeedOverlap`, the action property `ChangesNeedCodeOrZero` and
`LastCodeIsExpected`, for any number of requests. `OverlapInv` carries the first: of two
requests about to insert the same id, or one about to and one that has, both are
recorded as overlapping. `CodeInv` carries the last: where sends do not mix, one
at most is on its way, and a single account expects its code, the code of the
last SMS, or none because it was used. `SpentInv` carries the second: no row
expects a code that has changed a password, and 0 stands only where a code did.

**FriendsProofs.** `RowsHaveAnswers`, `RepeatsAreStored` and the action
property `ListsWhatWasConfirmed`, for any users, ids, numbers of logins and
requests; nothing is assumed of the number of requests that run at once. The
count of `RowsAccountedFor` is inductive once the answers under way are known to
be finitely many (`RowsInv`) and to stand where the code puts them
(`PlaceInv`): an INSERT adds its request to the set, an answer that is heard
or lost takes it out, and the two history counters make up the difference. That
a phone hears only its own answer (`WaitsForOwn`) makes `confirmed` grow for the
pair whose row it is. `ListInv` follows a list from the moment it is asked for:
what was confirmed then has a row, by the count; rows are never deleted and only
ids with an account are inserted, so the join finds them; and a product of
numbers of rows is more than 1 only if one of them is.

**AppSessionProofs.** `NoSessionOnlyAfterRestore`, `PreferencesOfOneUser`,
`MenuForBlindUsers` and `CameraScreenMatches`, for any users. The invariant describes the back
stack (`StackOK`: above the menu there is no way in, and the camera is only ever
on top), what a process that is alive has created, where a pending request's
screen is, which of the three commits are done, and in `FragmentInv` what the
camera screen is like in the saved state too, which is what a restored process
starts from.

**NativeClassifierProofs.** About the composition of NativeClassifier,
AssetStream and TopN, for assets, blocks and labels of any size and any number of
classes. `ParsesTheAsset` accounts for bytes place by place: what is parsed and
what is buffered follow each other in the file, and while no read has failed so
does the file offset; bytes left, bytes read and position are functions of it
(`ParsingInv`; `ConstructedInv` for the block that the constructor reads before
`Skip`). `PicksTheTopN` is inductive with the facts that the queue is finite and
holds only entries that the loop has seen (`LoopInv`): `pop` removes the worst
of N + 1, so no entry outside is better than one inside. `SpeaksTheBest` follows
from it and from `HostInv`, by which the lines are those of the picked entries.
`DiesOfNothingElse` rests on `EndedInv`: a stream that has not failed ends at the
asset's end. That every infinity is met by the parser follows from
`PicksTheTopN`: it is a candidate and only another infinity can displace it
(`InfinityIsRead`).

**FramePipelineProofs, ColorConversion.** `OnlyHalfPlanesOverrun`, `ChromaAveraged`,
`ReadBackOwnBlock` and `EverySampleIsBT601`, for images of every size, odd ones
included, every colour, every padding of a camera's planes and every sample.
`LumaInv` says that the bytes before `p` hold the luma of their pixels.
`ChromaInv` says that the two bytes of a block that was begun hold the sum of the
shares of its pixels before `p`: the first pixel clears what the buffer held, a
share is at most 63, so four of them do not wrap, and no pixel of another block
has the same offset. The rest is index arithmetic, with products by sizes that
are parameters, which the SMT solver does not decide: `At(w, x, y)`, the position
of column x in row y, is hidden behind lemmas (a position is in the plane, has
that row and column, and two of them are different) that are proved once from
the ring laws. `ReadBackOwnBlock` is part of the invariant because `out` grows
pixel by pixel; each reader's step needs that it computes the position that
`WriteYUV` used, which for `ReadHalf` is a sum over rows and for the planes a
quotient and a remainder by the stride. `EverySampleIsBT601` compares two linear
forms on the three ranges that the clamps cut out.

**VoiceMenusProofs.** `OpensWhatWasSpoken`, `TalksToWhomWasSpoken`,
`CrashesOnlyUnprepared` and `OffersOnlyTheFirst` for lists of any length. The invariant needs
`FirstFriend`: the friends' cursor is always 0, and `Walked`: after a
VOLUME_DOWN the cursor of the apps is in the list. The inverted wrap-around test is
what makes the cursor agree with speech: with the test the other way round the
cursor would be one past the friend that was spoken.

**VoiceMenusProofs, DialPad.** `SelectionStaysInText`, `BackSpaceUndoes` and the
action property `EntersWhatIsHeard` for numbers of any length, from lemmas about
`Enter`, `Delete` and about joining and cutting sequences.

No run checks a `TypeOK`: it is proved for every module above (`TypeCorrect`,
`ColourTypeCorrect`, `DialTypeCorrect`).

**Model-checked only.**

* `PauseCompletes`, `PreviewStarts`, `DialogClosesUnlessLost`, `CallsReturn` and the
  progress that `ImplementsSlot` adds to the proved safety of FrameSlot: liveness
  under fairness is outside the prover's reach.

Every invariant and every safety action property that a passing run checks is
stated by a theorem.

## 6. Not modelled

* Preview size, `configureTransform`, `AutoFitTextureView`: stateless functions
  of sizes and layout; a model would repeat the code.
* `location.php` and `subscription.php`: no client calls them. The INSERT of
  `update_location` (line 30) has five values for four columns, so a first
  location is never stored; the other branches copy `user.php` with variables
  that `location.php` does not set. `subscription.php` is an identical copy of
  `friend.php`.
* The descriptor of the APK, which `ReadFileToProto` does not close: one per
  process, since the graph is loaded once.
* The plain-file branches of `jni_utils.cc` and the benchmark options of
  `tensorflow_jni.cc`, which no build file turns on.
* `processResult`, which answers two fixed questions; wording, layout, URL
  encoding, logging and code nothing calls (`isValidEmail`, `saveBitmap`, the
  unused tasks).
* TensorFlow and the generated protobuf files, which are third-party: by far the
  largest part of the repository, of which only the stream functions that
  `ReadFileToProto` runs through are translated.

## 7. Plan

Every part of the program that keeps state is modelled, and every safety
property that the passing runs check is proved. What is left is liveness, which
stays with TLC, and following the code when it changes: the proofs name the
definitions they expand, so a changed action shows as the steps of its name.
