---------------------------- MODULE AssetStream ----------------------------
(***************************************************************************)
(* ReadFileToProto (jni_utils.cc): how the graph is read out of the APK.   *)
(*                                                                         *)
(* AAsset_openFileDescriptor answers a descriptor of the whole APK and the *)
(* place of the asset in it.  A LimitingFileInputStream counts bytes_left_ *)
(* from the start of the APK, a CopyingInputStreamAdaptor turns it into    *)
(* blocks and a CodedInputStream feeds the parser.  A small asset is       *)
(* parsed after adaptor.Skip(start); for a large one the CodedInputStream  *)
(* exists first, and has already read a block (its constructor refreshes   *)
(* eagerly) when coded_stream.Skip(start) is called.                       *)
(*                                                                         *)
(* A byte is identified with its offset in the APK, so that the sequence   *)
(* parsed tells exactly which bytes the parser was given, in which order.  *)
(* What the parser makes of them is one fact: a message may end after some *)
(* prefix exactly when a top-level field ends there (FieldEnds).  The      *)
(* asset as a whole is a message: the APK is built with it.                *)
(*                                                                         *)
(* read() may be interrupted, return fewer bytes than asked for, or fail;  *)
(* lseek on the APK, a regular file, does not fail.                        *)
(***************************************************************************)
EXTENDS Integers, Sequences, FiniteSetsExt

CONSTANTS
  Starts,        \* offsets of the asset in the APK
  Lengths,       \* sizes of the asset
  BlockSize,     \* kDefaultBlockSize of the adaptor
  DefaultLimit,  \* 64 MB: the limit of a CodedInputStream, and the test
  RaisedLimit,   \* 1 GB: SetTotalBytesLimit of the large case
  FieldEnds,     \* prefixes of the asset that are messages themselves
  MaxFaults      \* bound on the faults of read()

ASSUME StreamAssumption ==
  /\ Starts \subseteq Nat /\ Lengths \subseteq Nat \ {0}
  /\ BlockSize \in Nat \ {0} /\ DefaultLimit \in Nat /\ RaisedLimit \in Nat
  /\ BlockSize <= DefaultLimit
  /\ \A s \in Starts, n \in Lengths : s + n < RaisedLimit
  /\ 0 \in FieldEnds /\ FieldEnds \subseteq Nat
  /\ MaxFaults \in Nat

VARIABLES
  reading,     \* where ReadFileToProto stands
  start, length,     \* what AAsset_openFileDescriptor answered
  offset,      \* the file offset of fd
  bytes_left,  \* LimitingFileInputStream::bytes_left_
  failed,      \* CopyingInputStreamAdaptor::failed_
  limit, total_bytes_read,  \* of the CodedInputStream
  buffer,      \* its bytes in buffer_ .. buffer_end_
  parsed,      \* the bytes the parser has consumed
  faults       \* faults of read() in this load

streamVars == <<start, length, offset, bytes_left, failed, limit,
                total_bytes_read, buffer, parsed>>
assetVars  == <<reading, streamVars, faults>>

(* The bytes of the APK from offset lo on. *)
Bytes(lo, n) == [k \in 1..n |-> lo + k - 1]

(* The objects of ReadFileToProto live on its stack. *)
NoStream ==
  /\ start = 0 /\ length = 0 /\ offset = 0 /\ bytes_left = 0
  /\ failed = FALSE /\ limit = 0 /\ total_bytes_read = 0
  /\ buffer = <<>> /\ parsed = <<>> /\ faults = 0

StreamGone ==
  /\ start' = 0 /\ length' = 0 /\ offset' = 0 /\ bytes_left' = 0
  /\ failed' = FALSE /\ limit' = 0 /\ total_bytes_read' = 0
  /\ buffer' = <<>> /\ parsed' = <<>> /\ faults' = 0

AssetInit ==
  /\ reading = "no" /\ NoStream

AssetRestart == reading' = "no" /\ StreamGone

ZeroCopyOffByOne == length <= DefaultLimit  \* mutant: <=

(* A small asset is skipped to before the CodedInputStream exists. *)
ZeroCopy == length < DefaultLimit
-----------------------------------------------------------------------------
(* CHECK_NOTNULL of the asset manager or of what AAssetManager_open answers:
   the APK has no such asset, or the platform cannot open it.  The buffer of
   a compressed asset, which nobody tests, counts with them. *)
AssetRefused ==
  /\ reading = "open"
  /\ reading' = "refused"
  /\ UNCHANGED <<streamVars, faults>>

(* AAssetManager_open and AAsset_openFileDescriptor, when the asset is
   stored uncompressed. *)
OpenDescriptor ==
  /\ reading = "open"
  /\ start' \in Starts /\ length' \in Lengths
  /\ offset' = 0 /\ bytes_left' = start' + length'
  /\ limit' = DefaultLimit
  /\ reading' = IF ZeroCopy' THEN "adaptor.Skip" ELSE "construct"
  /\ UNCHANGED <<failed, total_bytes_read, buffer, parsed, faults>>

(* A compressed asset has no descriptor: it is inflated to memory and
   ParseFromArray sees all of it, without a limit. *)
OpenCompressed ==
  /\ reading = "open"
  /\ length' \in Lengths
  /\ parsed' = Bytes(0, length') /\ reading' = "done"
  /\ UNCHANGED <<start, offset, bytes_left, failed, limit, total_bytes_read,
                 buffer, faults>>

(* LimitingFileInputStream::Skip: the seek is relative, and the bytes that
   are skipped count against the limit. *)
LimitedSkip(count) ==
  /\ offset' = offset + count
  /\ bytes_left' = bytes_left - count

(* CopyingInputStreamAdaptor::Skip; nothing is backed up here, because only
   the destructor of a CodedInputStream backs up. *)
AdaptorSkip(count) ==
  IF failed THEN UNCHANGED <<offset, bytes_left>> ELSE LimitedSkip(count)

(* adaptor.Skip(start), before the CodedInputStream of
   ParseFromZeroCopyStream. *)
SkipToAsset ==
  /\ reading = "adaptor.Skip"
  /\ AdaptorSkip(start)
  /\ reading' = "construct"
  /\ UNCHANGED <<start, length, failed, limit, total_bytes_read, buffer,
                 parsed, faults>>

(* The limit under which the bytes after the constructor are parsed. *)
ParseLimit == IF ZeroCopy THEN DefaultLimit ELSE RaisedLimit
(* What follows the constructor: the parser, or SetTotalBytesLimit and
   coded_stream.Skip. *)
AfterConstructor == IF ZeroCopy THEN "parse" ELSE "coded_stream.Skip"

CodedSkipOfAdaptor ==  \* mutant: the block that was read is skipped as well
  /\ reading = "coded_stream.Skip"
  /\ limit' = ParseLimit /\ buffer' = <<>>
  /\ total_bytes_read' = total_bytes_read + start
  /\ AdaptorSkip(start)
  /\ reading' = "parse"
  /\ UNCHANGED <<start, length, failed, parsed, faults>>

(* CodedInputStream::Skip(start): the block the constructor has read is used
   up first, the rest is the adaptor's business.  Its result is ignored. *)
CodedSkip ==
  /\ reading = "coded_stream.Skip"
  /\ limit' = ParseLimit
  /\ IF start <= Len(buffer)
       THEN /\ buffer' = SubSeq(buffer, start + 1, Len(buffer))
            /\ UNCHANGED <<offset, bytes_left, total_bytes_read>>
       ELSE /\ buffer' = <<>>
            /\ total_bytes_read' = total_bytes_read + (start - Len(buffer))
            /\ AdaptorSkip(start - Len(buffer))
  /\ reading' = "parse"
  /\ UNCHANGED <<start, length, failed, parsed, faults>>

-----------------------------------------------------------------------------
(* CodedInputStream::Refresh is called by the constructor and by the parser
   when it has used up the buffer. *)
Refreshing == \/ reading = "construct"
              \/ reading = "parse" /\ buffer = <<>>

AtLimit == total_bytes_read > limit

Wanted == Min({bytes_left, BlockSize})

(* Next and Read return a block of n bytes; the part of it beyond the limit
   is kept from the parser. *)
RefreshBlock ==
  /\ Refreshing /\ ~AtLimit /\ ~failed
  /\ \E n \in 1..Wanted :
       /\ offset' = offset + n
       /\ bytes_left' = bytes_left - n
       /\ total_bytes_read' = total_bytes_read + n
       /\ buffer' = Bytes(offset, Min({n, limit - total_bytes_read}))
  /\ reading' = IF reading = "construct" THEN AfterConstructor ELSE reading
  /\ UNCHANGED <<start, length, failed, limit, parsed, faults>>

(* read() was interrupted by a signal: the loop of Read calls it again. *)
ReadInterrupted ==
  /\ Refreshing /\ ~AtLimit /\ ~failed
  /\ faults < MaxFaults /\ faults' = faults + 1
  /\ UNCHANGED <<reading, streamVars>>

(* Where a stream without another byte leads: for the parser it is the end
   of the message.  It may end there if a top-level field does, but the end
   at the limit is not a legitimate one, which ParseFromZeroCopyStream tests
   and ParseFromCodedStream does not.  Otherwise the CHECK fails. *)
EndsAtLimit == ZeroCopy /\ total_bytes_read >= limit
MayEnd      == Len(parsed) = length \/ Len(parsed) \in FieldEnds
NoMoreBytes ==
  IF reading = "construct" THEN AfterConstructor
  ELSE IF MayEnd /\ ~EndsAtLimit THEN "done" ELSE "CHECK"

(* read() failed: the adaptor remembers it, and its Next answers false, as
   it does at the end of the stream. *)
ReadFails ==
  /\ Refreshing /\ ~AtLimit /\ ~failed
  /\ faults < MaxFaults /\ faults' = faults + 1
  /\ failed' = TRUE
  /\ reading' = NoMoreBytes
  /\ UNCHANGED <<start, length, offset, bytes_left, limit, total_bytes_read,
                 buffer, parsed>>

(* The end of the stream, of the limit, or a stream that has failed. *)
RefreshNothing ==
  /\ Refreshing
  /\ AtLimit \/ failed \/ Wanted = 0
  /\ reading' = NoMoreBytes
  /\ UNCHANGED <<streamVars, faults>>

(* The parser uses up the buffer. *)
Consume ==
  /\ reading = "parse" /\ buffer # <<>>
  /\ parsed' = parsed \o buffer /\ buffer' = <<>>
  /\ UNCHANGED <<reading, start, length, offset, bytes_left, failed, limit,
                 total_bytes_read, faults>>

AssetNext ==
  \/ AssetRefused \/ OpenDescriptor \/ OpenCompressed \/ SkipToAsset
  \/ CodedSkip \/ RefreshBlock \/ ReadInterrupted \/ ReadFails \/ RefreshNothing
  \/ Consume

-----------------------------------------------------------------------------
Readings == {"no", "open", "adaptor.Skip", "construct", "coded_stream.Skip",
             "parse", "done", "CHECK", "refused"}

(* No count of the streams goes below zero: read is never asked for a
   negative number of bytes. *)
AssetTypeOK ==
  /\ reading \in Readings
  /\ start \in Nat /\ length \in Nat /\ offset \in Nat /\ bytes_left \in Nat
  /\ failed \in BOOLEAN /\ limit \in Nat /\ total_bytes_read \in Nat
  /\ buffer \in Seq(Nat) /\ parsed \in Seq(Nat)
  /\ faults \in 0..MaxFaults

(* The parser is given the bytes of the asset, in their order and none
   beyond its end, whichever way the start was skipped and however the reads
   were cut: the limit is counted from the start of the APK, and the block
   the constructor reads lies before the asset, across its start or in it.
   It is given all of them, unless a read has failed: the CHECKs of
   ReadFileToProto do not notice a read error that falls on the end of a
   top-level field, but nothing else shortens the graph. *)
ParsedIsAsset ==
  /\ Len(parsed) <= length
  /\ parsed = Bytes(start, Len(parsed))
  /\ reading = "done" /\ Len(parsed) < length => failed
=============================================================================
