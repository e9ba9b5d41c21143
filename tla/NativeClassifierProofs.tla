------------------------ MODULE NativeClassifierProofs ------------------------
(***************************************************************************)
(* Machine-checked proofs about NativeClassifier and the two parts it is   *)
(* made of, for any asset in any APK, any block size and limits, any       *)
(* prediction, threshold and number of results: the parser gets the asset  *)
(* and nothing else, GetTopN keeps the best entries in order, what is      *)
(* spoken is the best class that has a name, and the process dies only of  *)
(* a NaN, an infinity, a failed read or a request that was refused.        *)
(***************************************************************************)
EXTENDS NativeClassifier, FiniteSetTheorems, SequenceTheorems, TLAPS

-----------------------------------------------------------------------------
(* The invariant of the streams, place by place.                           *)

(* Before the call, and until the asset is opened, if it is.               *)
ClosedInv == reading \in {"no", "open", "refused"} => NoStream

(* What every place with a descriptor knows: where the asset lies.         *)
OpenInv ==
  reading \in {"adaptor.Skip", "construct", "coded_stream.Skip", "parse"} =>
    start \in Starts /\ length \in Lengths

(* Nothing has been read yet; a small asset is skipped to first.           *)
UnreadInv ==
  reading \in {"adaptor.Skip", "construct"} =>
    /\ limit = DefaultLimit /\ total_bytes_read = 0 /\ ~failed
    /\ buffer = <<>> /\ parsed = <<>>
    /\ reading = "adaptor.Skip" => ZeroCopy
    /\ offset = IF ZeroCopy /\ reading = "construct" THEN start ELSE 0
    /\ bytes_left = start + length - offset

(* The constructor has read the beginning of the APK, not of the asset.    *)
ConstructedInv ==
  reading = "coded_stream.Skip" =>
    /\ ~ZeroCopy /\ parsed = <<>>
    /\ buffer = Bytes(0, Len(buffer))
    /\ total_bytes_read = Len(buffer)
    /\ offset = Len(buffer)
    /\ bytes_left = start + length - offset
    /\ failed => buffer = <<>>

(* Parsed and buffered bytes follow each other, and while no read has      *)
(* failed the file offset follows them.                                    *)
ParsingInv ==
  reading = "parse" =>
    /\ parsed = Bytes(start, Len(parsed))
    /\ buffer = Bytes(start + Len(parsed), Len(buffer))
    /\ Len(parsed) + Len(buffer) <= length
    /\ limit = ParseLimit
    /\ ~failed =>
         /\ offset = start + Len(parsed) + Len(buffer)
         /\ bytes_left = start + length - offset
         /\ total_bytes_read = IF ZeroCopy THEN offset - start ELSE offset

(* A sound stream ends only at the end of the asset.                       *)
EndedInv ==
  reading \in {"done", "CHECK"} =>
    /\ parsed = Bytes(start, Len(parsed)) /\ Len(parsed) <= length
    /\ reading = "CHECK" \/ Len(parsed) < length => failed

StreamInv ==
  /\ AssetTypeOK
  /\ ClosedInv /\ OpenInv /\ UnreadInv /\ ConstructedInv /\ ParsingInv /\ EndedInv

-----------------------------------------------------------------------------
(* The invariant of GetTopN.                                               *)

(* What is kept are entries the loop has seen; nothing is copied out       *)
(* before the loop has ended.                                              *)
LoopInv ==
  /\ picking # "no" => prediction \in Predictions
  /\ IsFiniteSet(queue)
  /\ Kept \subseteq {<<prediction[k], k>> : k \in Seen}
  /\ i < Classes => top_results = <<>>
  /\ picking = "done" => i = Classes /\ queue = {}

PickInv == TopTypeOK /\ LoopInv /\ TopNInOrder

-----------------------------------------------------------------------------
(* The invariant of the calls.                                             *)

Lines ==
  [k \in DOMAIN top_results |->
     [index |-> top_results[k][2], confidence |-> top_results[k][1],
      text  |-> TextOf(top_results[k][2])]]

HostInv ==
  /\ call \in {"idle", "pick", "parse", "shown"} => reading = "no"
  /\ call \in {"parse", "shown", "threw"} => picking = "done" /\ output = Lines
  /\ call \in {"load", "labels"} => ~initialized

HostTypeOK ==
  /\ call \in {"idle", "load", "labels", "pick", "parse", "shown", "aborted", "threw"}
  /\ initialized \in BOOLEAN
  /\ num_runs \in 0..MaxRuns /\ labels \in LabelFiles
  /\ spoken.index \in Indices \cup {-1}
  /\ refused \in Requests \cup {"none"}

IInv ==
  /\ StreamInv /\ PickInv
  /\ HostTypeOK /\ HostInv
  /\ SpokenIsBest /\ DeathIsExplained

-----------------------------------------------------------------------------
(* Runs of bytes.                                                          *)

LEMMA MinOfTwo ==
  ASSUME NEW a \in Int, NEW b \in Int
  PROVE  Min({a, b}) = IF a <= b THEN a ELSE b
BY DEF Min

LEMMA BytesRun ==
  ASSUME NEW lo \in Nat, NEW n \in Nat
  PROVE  /\ Bytes(lo, n) \in Seq(Nat) /\ Len(Bytes(lo, n)) = n
         /\ \A k \in 1..n : Bytes(lo, n)[k] = lo + k - 1
<1>1. Bytes(lo, n) \in [1..n -> Nat]
  BY DEF Bytes
<1>2. Bytes(lo, n) \in Seq(Nat)
  BY <1>1, SeqDef
<1>3. DOMAIN Bytes(lo, n) = 1..n
  BY DEF Bytes
<1>4. Len(Bytes(lo, n)) = n
  <2> DEFINE l == Len(Bytes(lo, n))
  <2>1. l \in Nat /\ 1..l = 1..n
    BY <1>2, <1>3, LenProperties
  <2> HIDE DEF l
  <2>2. (l > 0 => l \in 1..n) /\ (n > 0 => n \in 1..l)
    BY <2>1
  <2> QED
    BY <2>1, <2>2 DEF l
<1> QED
  BY <1>2, <1>4 DEF Bytes

LEMMA NoBytes ==
  ASSUME NEW lo \in Nat
  PROVE  Bytes(lo, 0) = <<>>
BY BytesRun, EmptySeq

(* Two adjacent runs are one.                                              *)
LEMMA BytesJoin ==
  ASSUME NEW lo \in Nat, NEW m \in Nat, NEW n \in Nat
  PROVE  Bytes(lo, m) \o Bytes(lo + m, n) = Bytes(lo, m + n)
<1> DEFINE a == Bytes(lo, m)
           b == Bytes(lo + m, n)
           c == Bytes(lo, m + n)
<1>0. lo + m \in Nat /\ m + n \in Nat
  OBVIOUS
<1>1a. a \in Seq(Nat) /\ Len(a) = m /\ \A k \in 1..m : a[k] = lo + k - 1
  BY BytesRun
<1>1b. b \in Seq(Nat) /\ Len(b) = n /\ \A k \in 1..n : b[k] = lo + m + k - 1
  BY <1>0, BytesRun
<1>1c. c \in Seq(Nat) /\ Len(c) = m + n /\ \A k \in 1..(m + n) : c[k] = lo + k - 1
  BY <1>0, BytesRun
<1> HIDE DEF a, b, c
<1>2. /\ a \o b \in Seq(Nat) /\ Len(a \o b) = m + n
      /\ \A k \in 1..(m + n) : (a \o b)[k] = IF k <= m THEN a[k] ELSE b[k - m]
  <2>0. a \in Seq(Nat) /\ b \in Seq(Nat)
    BY <1>1a, <1>1b
  <2>1. /\ a \o b \in Seq(Nat) /\ Len(a \o b) = Len(a) + Len(b)
        /\ \A k \in 1..(Len(a) + Len(b)) :
             (a \o b)[k] = IF k <= Len(a) THEN a[k] ELSE b[k - Len(a)]
    BY <2>0, ConcatProperties, Zenon
  <2> QED
    BY <1>1a, <1>1b, <1>1c, <2>1
<1>3. \A k \in 1..(m + n) : (a \o b)[k] = c[k]
  <2> SUFFICES ASSUME NEW k \in 1..(m + n) PROVE (a \o b)[k] = c[k]
    OBVIOUS
  <2>1. CASE k <= m
    BY <1>1a, <1>1b, <1>1c, <1>2, <2>1
  <2>2. CASE ~(k <= m)
    <3>1. k - m \in 1..n
      BY <2>2
    <3> QED
      BY <1>1a, <1>1b, <1>1c, <1>2, <2>2, <3>1
  <2> QED
    BY <2>1, <2>2
<1> QED
  BY <1>1a, <1>1b, <1>1c, <1>2, <1>3, SeqEqual DEF a, b, c

(* What is left of a run whose first bytes are skipped.                    *)
LEMMA BytesSkip ==
  ASSUME NEW n \in Nat, NEW s \in Nat, s <= n
  PROVE  SubSeq(Bytes(0, n), s + 1, n) = Bytes(s, n - s)
<1> DEFINE a == Bytes(0, n)
           b == Bytes(s, n - s)
           c == SubSeq(a, s + 1, n)
<1>0. n - s \in Nat
  OBVIOUS
<1>1. a \in Seq(Nat) /\ Len(a) = n /\ \A k \in 1..n : a[k] = k - 1
  BY BytesRun
<1>1b. b \in Seq(Nat) /\ Len(b) = n - s /\ \A k \in 1..(n - s) : b[k] = s + k - 1
  BY <1>0, BytesRun
<1> HIDE DEF a, b
<1>2. \A k \in (s + 1)..n : a[k] \in Nat
  BY <1>1
<1>3. /\ c \in Seq(Nat) /\ Len(c) = n - s
      /\ \A k \in 1..(n - s) : c[k] = a[s + k]
  <2>1. /\ c \in Seq(Nat)
        /\ Len(c) = IF s + 1 <= n THEN n - (s + 1) + 1 ELSE 0
        /\ \A k \in 1..(n - (s + 1) + 1) : c[k] = a[s + 1 + k - 1]
    BY <1>1, SubSeqProperties
  <2> HIDE DEF c
  <2>2. n - (s + 1) + 1 = n - s /\ \A k \in 1..(n - s) : s + 1 + k - 1 = s + k
    OBVIOUS
  <2> QED
    BY <2>1, <2>2
<1> HIDE DEF c
<1>4. \A k \in 1..(n - s) : c[k] = b[k]
  BY <1>1, <1>1b, <1>3
<1> QED
  BY <1>1b, <1>3, <1>4, SeqEqual DEF a, b, c

-----------------------------------------------------------------------------
(* The steps of ReadFileToProto.                                           *)

LEMMA AssetRefusedStep == ASSUME StreamInv, AssetRefused PROVE StreamInv'
<1>1. reading = "open" /\ reading' = "refused" /\ UNCHANGED <<streamVars, faults>>
  BY DEF AssetRefused
<1>2. AssetTypeOK'
  BY <1>1 DEF StreamInv, AssetTypeOK, streamVars, Readings
<1>3. ClosedInv'
  BY <1>1 DEF StreamInv, ClosedInv, NoStream, streamVars
<1>4. OpenInv' /\ UnreadInv' /\ ConstructedInv' /\ ParsingInv' /\ EndedInv'
  BY <1>1 DEF OpenInv, UnreadInv, ConstructedInv, ParsingInv, EndedInv
<1> QED
  BY <1>2, <1>3, <1>4 DEF StreamInv

LEMMA OpenDescriptorStep == ASSUME StreamInv, OpenDescriptor PROVE StreamInv'
<1>1. /\ start' \in Nat /\ length' \in Nat /\ start' \in Starts /\ length' \in Lengths
      /\ DefaultLimit \in Nat
  BY StreamAssumption DEF OpenDescriptor
<1>2. /\ total_bytes_read = 0 /\ failed = FALSE /\ buffer = <<>> /\ parsed = <<>>
  BY DEF StreamInv, ClosedInv, NoStream, OpenDescriptor
<1>3. /\ offset' = 0 /\ bytes_left' = start' + length' /\ limit' = DefaultLimit
      /\ reading' = IF ZeroCopy' THEN "adaptor.Skip" ELSE "construct"
      /\ UNCHANGED <<failed, total_bytes_read, buffer, parsed, faults>>
  BY DEF OpenDescriptor
<1>4. AssetTypeOK'
  <2>0. \A s, n \in Nat : s + n \in Nat
    OBVIOUS
  <2>1. bytes_left' \in Nat
    BY <1>1, <1>3, <2>0, Zenon
  <2>3. reading' \in {"adaptor.Skip", "construct"}
    BY <1>3
  <2>2. failed' \in BOOLEAN
    BY <1>3 DEF StreamInv, AssetTypeOK
  <2> QED
    BY <1>1, <1>3, <2>1, <2>2, <2>3 DEF StreamInv, AssetTypeOK, Readings
<1>5. ClosedInv' /\ OpenInv' /\ ConstructedInv' /\ ParsingInv' /\ EndedInv'
  BY <1>1, <1>3 DEF ClosedInv, OpenInv, ConstructedInv, ParsingInv, EndedInv
<1>6. UnreadInv'
  BY <1>1, <1>2, <1>3 DEF UnreadInv, ZeroCopy
<1> QED
  BY <1>4, <1>5, <1>6 DEF StreamInv

LEMMA OpenCompressedStep == ASSUME StreamInv, OpenCompressed PROVE StreamInv'
<1>1. length' \in Nat /\ start' = 0 /\ reading' = "done" /\ parsed' = Bytes(0, length')
  BY StreamAssumption DEF StreamInv, ClosedInv, NoStream, OpenCompressed
<1>2. parsed' \in Seq(Nat) /\ Len(parsed') = length'
  BY <1>1, BytesRun
<1>3. AssetTypeOK'
  BY <1>1, <1>2 DEF StreamInv, AssetTypeOK, Readings, OpenCompressed
<1>4. EndedInv'
  BY <1>1, <1>2 DEF EndedInv
<1>5. ClosedInv' /\ OpenInv' /\ ConstructedInv' /\ ParsingInv' /\ UnreadInv'
  BY <1>1 DEF ClosedInv, OpenInv, ConstructedInv, ParsingInv, UnreadInv
<1> QED
  BY <1>3, <1>4, <1>5 DEF StreamInv

LEMMA SkipToAssetStep == ASSUME StreamInv, SkipToAsset PROVE StreamInv'
<1>1. /\ start \in Starts /\ length \in Lengths /\ ZeroCopy /\ failed = FALSE
      /\ offset = 0 /\ bytes_left = start + length
      /\ limit = DefaultLimit /\ total_bytes_read = 0 /\ buffer = <<>> /\ parsed = <<>>
  BY DEF StreamInv, AssetTypeOK, UnreadInv, OpenInv, SkipToAsset
<1>2. start \in Nat /\ length \in Nat
  BY DEF StreamInv, AssetTypeOK
<1>3. /\ reading' = "construct" /\ offset' = start /\ bytes_left' = length
      /\ UNCHANGED <<start, length, failed, limit, total_bytes_read, buffer, parsed, faults>>
  BY <1>1, <1>2 DEF SkipToAsset, AdaptorSkip, LimitedSkip
<1>4. AssetTypeOK'
  BY <1>2, <1>3 DEF StreamInv, AssetTypeOK, Readings
<1>5. ClosedInv' /\ OpenInv' /\ ConstructedInv' /\ ParsingInv' /\ EndedInv'
  BY <1>1, <1>3 DEF ClosedInv, OpenInv, ConstructedInv, ParsingInv, EndedInv
<1>6. UnreadInv'
  BY <1>1, <1>2, <1>3 DEF UnreadInv, ZeroCopy
<1> QED
  BY <1>4, <1>5, <1>6 DEF StreamInv

(* The block of the constructor is used up first.                          *)
LEMMA CodedSkipStep == ASSUME StreamInv, CodedSkip PROVE StreamInv'
<1> DEFINE n == Len(buffer)
<1>1. /\ start \in Starts /\ length \in Lengths /\ ~ZeroCopy /\ parsed = <<>>
      /\ buffer = Bytes(0, n) /\ total_bytes_read = n /\ offset = n
      /\ bytes_left = start + length - offset /\ (failed => buffer = <<>>)
  BY DEF StreamInv, ConstructedInv, OpenInv, CodedSkip
<1>2. /\ start \in Nat /\ length \in Nat /\ n \in Nat /\ buffer \in Seq(Nat)
      /\ bytes_left \in Nat /\ failed \in BOOLEAN /\ Len(parsed) = 0
      /\ RaisedLimit \in Nat /\ (buffer = <<>> => n = 0)
  BY <1>1, EmptySeq, LenProperties, StreamAssumption DEF StreamInv, AssetTypeOK
<1>3. /\ reading' = "parse" /\ limit' = RaisedLimit
      /\ UNCHANGED <<start, length, failed, parsed, faults>>
  BY <1>1 DEF CodedSkip, ParseLimit
<1>4. ClosedInv' /\ OpenInv' /\ ConstructedInv' /\ UnreadInv' /\ EndedInv'
  BY <1>1, <1>3 DEF ClosedInv, OpenInv, ConstructedInv, UnreadInv, EndedInv
<1>5. limit' = ParseLimit' /\ ~ZeroCopy'
  BY <1>1, <1>3 DEF ParseLimit, ZeroCopy
<1>6. CASE start <= n
  <2>1. /\ buffer' = SubSeq(buffer, start + 1, n)
        /\ UNCHANGED <<offset, bytes_left, total_bytes_read>>
    BY <1>6 DEF CodedSkip
  <2>2. buffer' = Bytes(start, n - start)
    BY <1>1, <1>2, <1>6, <2>1, BytesSkip
  <2>3. n - start \in Nat
    BY <1>2, <1>6
  <2>4. buffer' \in Seq(Nat) /\ Len(buffer') = n - start
    BY <1>2, <2>2, <2>3, BytesRun
  <2>5. AssetTypeOK'
    BY <1>2, <1>3, <2>1, <2>4 DEF StreamInv, AssetTypeOK, Readings
  <2>6. parsed' = Bytes(start', Len(parsed'))
    BY <1>1, <1>2, <1>3, NoBytes
  <2>7. buffer' = Bytes(start' + Len(parsed'), Len(buffer'))
    <3>1. start + 0 = start
      BY <1>2
    <3>2. start' = start /\ Len(parsed') = 0
      BY <1>2, <1>3
    <3> QED
      BY <2>2, <2>4, <3>1, <3>2
  <2>8. /\ Len(parsed') + Len(buffer') <= length'
        /\ offset' = start' + Len(parsed') + Len(buffer')
        /\ bytes_left' = start' + length' - offset'
        /\ total_bytes_read' = offset'
    BY <1>1, <1>2, <1>3, <1>6, <2>1, <2>3, <2>4
  <2>9. ParsingInv'
    BY <1>5, <2>6, <2>7, <2>8 DEF ParsingInv
  <2> QED
    BY <1>4, <2>5, <2>9 DEF StreamInv
<1>7. CASE ~(start <= n)
  <2>1. /\ buffer' = <<>> /\ total_bytes_read' = n + (start - n)
        /\ offset' = IF failed THEN offset ELSE n + (start - n)
        /\ bytes_left' = IF failed THEN bytes_left ELSE bytes_left - (start - n)
    BY <1>1, <1>7 DEF CodedSkip, AdaptorSkip, LimitedSkip
  <2>2. Len(buffer') = 0 /\ buffer' \in Seq(Nat) /\ Len(parsed') = 0
    BY <1>2, <1>3, <2>1, EmptySeq
  <2>3. total_bytes_read' = start
    BY <1>2, <2>1
  <2>4. ~failed => offset' = start /\ bytes_left' = length
    BY <1>1, <1>2, <2>1
  <2>5. offset' \in Nat /\ bytes_left' \in Nat
    BY <1>1, <1>2, <2>1, <2>4
  <2>6. AssetTypeOK'
    BY <1>2, <1>3, <2>2, <2>3, <2>5 DEF StreamInv, AssetTypeOK, Readings
  <2>7. parsed' = Bytes(start', Len(parsed')) /\ buffer' = Bytes(start' + Len(parsed'), Len(buffer'))
    <3>1. start + 0 = start
      BY <1>2
    <3> QED
      BY <1>1, <1>2, <1>3, <2>1, <2>2, <3>1, NoBytes
  <2>8. /\ Len(parsed') + Len(buffer') <= length'
        /\ ~failed' => /\ offset' = start' + Len(parsed') + Len(buffer')
                       /\ bytes_left' = start' + length' - offset'
                       /\ total_bytes_read' = offset'
    BY <1>2, <1>3, <2>2, <2>3, <2>4
  <2>9. ParsingInv'
    BY <1>5, <2>7, <2>8 DEF ParsingInv
  <2> QED
    BY <1>4, <2>6, <2>9 DEF StreamInv
<1> QED
  BY <1>6, <1>7

(* A block that is read is never cut by the limit: the constructor reads   *)
(* BlockSize bytes at most, and the parser stays below the limit it has.   *)
LEMMA RefreshBlockStep == ASSUME StreamInv, RefreshBlock PROVE StreamInv'
<1>1. PICK n \in 1..Wanted :
        /\ offset' = offset + n /\ bytes_left' = bytes_left - n
        /\ total_bytes_read' = total_bytes_read + n
        /\ buffer' = Bytes(offset, Min({n, limit - total_bytes_read}))
  BY DEF RefreshBlock
<1>2. /\ reading' = IF reading = "construct" THEN AfterConstructor ELSE reading
      /\ UNCHANGED <<start, length, failed, limit, parsed, faults>>
      /\ ~failed /\ Refreshing
  BY DEF RefreshBlock
<1>3. /\ start \in Nat /\ length \in Nat /\ offset \in Nat /\ bytes_left \in Nat
      /\ limit \in Nat /\ total_bytes_read \in Nat /\ parsed \in Seq(Nat)
      /\ failed \in BOOLEAN /\ faults \in 0..MaxFaults
      /\ BlockSize \in Nat \ {0} /\ DefaultLimit \in Nat /\ RaisedLimit \in Nat
      /\ BlockSize <= DefaultLimit
  BY StreamAssumption DEF StreamInv, AssetTypeOK
<1>4. start \in Starts /\ length \in Lengths /\ start + length < RaisedLimit
  BY <1>2, StreamAssumption DEF StreamInv, OpenInv, Refreshing
<1>5. n \in Nat \ {0} /\ n <= bytes_left /\ n <= BlockSize
  <2>1. Wanted = IF bytes_left <= BlockSize THEN bytes_left ELSE BlockSize
    BY <1>3, MinOfTwo DEF Wanted
  <2> QED
    BY <1>3, <2>1
<1>6. ClosedInv' /\ OpenInv' /\ UnreadInv' /\ EndedInv'
  BY <1>2, <1>4 DEF ClosedInv, OpenInv, UnreadInv, EndedInv, AfterConstructor, Refreshing
<1>7. /\ reading' \in {"parse", "coded_stream.Skip"}
      /\ offset' \in Nat /\ bytes_left' \in Nat /\ total_bytes_read' \in Nat
  BY <1>1, <1>2, <1>3, <1>5 DEF AfterConstructor, Refreshing
<1>8. CASE reading = "construct"
  <2>1. /\ limit = DefaultLimit /\ total_bytes_read = 0 /\ parsed = <<>>
        /\ offset = (IF ZeroCopy THEN start ELSE 0)
        /\ bytes_left = start + length - offset
    BY <1>8 DEF StreamInv, UnreadInv
  <2>2. buffer' = Bytes(offset, n)
    <3>1. n <= limit - total_bytes_read /\ limit - total_bytes_read \in Int
      BY <1>3, <1>5, <2>1
    <3>2. Min({n, limit - total_bytes_read}) = n
      BY <1>5, <3>1, MinOfTwo
    <3> QED
      BY <1>1, <3>2
  <2>3. buffer' \in Seq(Nat) /\ Len(buffer') = n /\ Len(parsed') = 0
    BY <1>2, <1>3, <1>5, <2>1, <2>2, BytesRun, EmptySeq
  <2>4. AssetTypeOK'
    BY <1>2, <1>3, <1>7, <2>3 DEF AssetTypeOK, Readings
  <2>5. CASE ZeroCopy
    <3>1. reading' = "parse" /\ offset = start /\ bytes_left = length /\ ZeroCopy'
      BY <1>2, <1>3, <1>8, <2>1, <2>5 DEF AfterConstructor, ZeroCopy
    <3>2. ConstructedInv'
      BY <3>1 DEF ConstructedInv
    <3>3. start + 0 = start
      BY <1>3
    <3>4. parsed' = Bytes(start', Len(parsed')) /\ buffer' = Bytes(start' + Len(parsed'), Len(buffer'))
      BY <1>2, <1>3, <2>1, <2>2, <2>3, <3>1, <3>3, NoBytes
    <3>5. /\ Len(parsed') + Len(buffer') <= length'
          /\ offset' = start' + Len(parsed') + Len(buffer')
          /\ bytes_left' = start' + length' - offset'
          /\ total_bytes_read' = offset' - start'
      BY <1>1, <1>2, <1>3, <1>5, <2>1, <2>3, <3>1
    <3>6. limit' = ParseLimit'
      BY <1>2, <2>1, <3>1 DEF ParseLimit
    <3>7. ParsingInv'
      BY <3>1, <3>4, <3>5, <3>6 DEF ParsingInv
    <3> QED
      BY <1>6, <2>4, <3>2, <3>7 DEF StreamInv
  <2>6. CASE ~ZeroCopy
    <3>1. reading' = "coded_stream.Skip" /\ offset = 0 /\ ~ZeroCopy'
      BY <1>2, <1>8, <2>1, <2>6 DEF AfterConstructor, ZeroCopy
    <3>2. ParsingInv'
      BY <3>1 DEF ParsingInv
    <3>3. /\ total_bytes_read' = Len(buffer') /\ offset' = Len(buffer')
          /\ bytes_left' = start' + length' - offset'
      BY <1>1, <1>2, <1>3, <1>5, <2>1, <2>3, <3>1
    <3>4. parsed' = <<>> /\ buffer' = Bytes(0, Len(buffer')) /\ ~failed'
      BY <1>2, <2>1, <2>2, <2>3, <3>1
    <3>5. ConstructedInv'
      BY <3>1, <3>3, <3>4 DEF ConstructedInv
    <3> QED
      BY <1>6, <2>4, <3>2, <3>5 DEF StreamInv
  <2> QED
    BY <2>5, <2>6
<1>9. CASE reading # "construct"
  <2> DEFINE m == Len(parsed)
  <2>1. reading = "parse" /\ buffer = <<>> /\ reading' = "parse" /\ m \in Nat
    BY <1>2, <1>3, <1>9, LenProperties DEF Refreshing
  <2>2. /\ parsed = Bytes(start, m) /\ limit = ParseLimit
        /\ offset = start + m + Len(buffer)
        /\ bytes_left = start + length - offset
        /\ total_bytes_read = IF ZeroCopy THEN offset - start ELSE offset
    BY <1>2, <2>1 DEF StreamInv, ParsingInv
  <2>3. offset = start + m /\ m <= length /\ n <= length - m
    <3>1. Len(buffer) = 0
      BY <2>1, EmptySeq
    <3> QED
      BY <1>3, <1>5, <2>1, <2>2, <3>1
  <2>4. total_bytes_read + n < limit
    <3>1. ZeroCopy => limit = DefaultLimit /\ length < DefaultLimit
      BY <2>2 DEF ParseLimit, ZeroCopy
    <3>2. ~ZeroCopy => limit = RaisedLimit
      BY <2>2 DEF ParseLimit
    <3>3. CASE ZeroCopy
      BY <1>3, <1>5, <2>1, <2>2, <2>3, <3>1, <3>3
    <3>4. CASE ~ZeroCopy
      BY <1>3, <1>4, <1>5, <2>1, <2>2, <2>3, <3>2, <3>4
    <3> QED
      BY <3>3, <3>4
  <2>5. buffer' = Bytes(offset, n)
    <3>1. n <= limit - total_bytes_read /\ limit - total_bytes_read \in Int
      BY <1>3, <1>5, <2>4
    <3>2. Min({n, limit - total_bytes_read}) = n
      BY <1>5, <3>1, MinOfTwo
    <3> QED
      BY <1>1, <3>2
  <2>6. buffer' \in Seq(Nat) /\ Len(buffer') = n /\ Len(parsed') = m
    BY <1>2, <1>3, <1>5, <2>5, BytesRun
  <2>7. AssetTypeOK'
    BY <1>2, <1>3, <1>7, <2>6 DEF AssetTypeOK, Readings
  <2>8. parsed' = Bytes(start', Len(parsed')) /\ buffer' = Bytes(start' + Len(parsed'), Len(buffer'))
    BY <1>2, <2>2, <2>3, <2>5, <2>6
  <2>9. (ZeroCopy' <=> ZeroCopy) /\ limit' = ParseLimit'
    BY <1>2, <2>2 DEF ParseLimit, ZeroCopy
  <2>10. /\ Len(parsed') + Len(buffer') <= length'
         /\ offset' = start' + Len(parsed') + Len(buffer')
         /\ bytes_left' = start' + length' - offset'
         /\ total_bytes_read' = IF ZeroCopy THEN offset' - start' ELSE offset'
    <3> HIDE DEF m
    <3> QED
      BY <1>1, <1>2, <1>3, <1>5, <2>1, <2>2, <2>3, <2>6
  <2>11. ParsingInv'
    BY <2>8, <2>9, <2>10 DEF ParsingInv
  <2>12. ConstructedInv'
    BY <2>1 DEF ConstructedInv
  <2> QED
    BY <1>6, <2>7, <2>11, <2>12 DEF StreamInv
<1> QED
  BY <1>8, <1>9

LEMMA ReadInterruptedStep == ASSUME StreamInv, ReadInterrupted PROVE StreamInv'
<1>1. UNCHANGED <<reading, start, length, offset, bytes_left, failed, limit,
                  total_bytes_read, buffer, parsed>>
  BY DEF ReadInterrupted, streamVars
<1>2. faults' \in 0..MaxFaults
  BY StreamAssumption DEF ReadInterrupted, StreamInv, AssetTypeOK
<1>3. reading' \notin {"no", "open", "refused"}
  BY <1>1 DEF ReadInterrupted, Refreshing
<1>4. AssetTypeOK'
  BY <1>1, <1>2 DEF StreamInv, AssetTypeOK
<1>5. ClosedInv' /\ OpenInv' /\ UnreadInv' /\ ConstructedInv'
  BY <1>1, <1>3 DEF StreamInv, ClosedInv, OpenInv, UnreadInv, ConstructedInv, ZeroCopy
<1>6. ParsingInv' /\ EndedInv'
  BY <1>1 DEF StreamInv, ParsingInv, EndedInv, ZeroCopy, ParseLimit
<1> QED
  BY <1>4, <1>5, <1>6 DEF StreamInv

(* Where a stream without another byte leads: while no read has failed, it *)
(* is the end of the asset, and below the limit.                           *)
LEMMA NothingLeft ==
  ASSUME StreamInv, Refreshing, reading' = NoMoreBytes,
         failed \/ failed' \/ AtLimit \/ Wanted = 0, failed => failed',
         failed' \in BOOLEAN, faults' \in 0..MaxFaults,
         UNCHANGED <<start, length, offset, bytes_left, limit, total_bytes_read,
                     buffer, parsed>>
  PROVE  StreamInv'
<1>1. /\ start \in Nat /\ length \in Nat /\ offset \in Nat /\ bytes_left \in Nat
      /\ limit \in Nat /\ total_bytes_read \in Nat
      /\ BlockSize \in Nat \ {0} /\ DefaultLimit \in Nat /\ RaisedLimit \in Nat
  BY StreamAssumption DEF StreamInv, AssetTypeOK
<1>2. start \in Starts /\ length \in Lengths /\ start + length < RaisedLimit
  BY StreamAssumption DEF StreamInv, OpenInv, Refreshing
<1>3. Len(<<>>) = 0
  BY EmptySeq
<1>4. reading' \in {"parse", "coded_stream.Skip", "done", "CHECK"}
  BY DEF NoMoreBytes, AfterConstructor
<1>5. AssetTypeOK'
  BY <1>4 DEF StreamInv, AssetTypeOK, Readings
<1>6. ClosedInv' /\ OpenInv' /\ UnreadInv'
  BY <1>2, <1>4 DEF ClosedInv, OpenInv, UnreadInv
<1>7. CASE reading = "construct"
  <2>1. /\ reading' = AfterConstructor /\ limit = DefaultLimit /\ total_bytes_read = 0
        /\ buffer = <<>> /\ parsed = <<>>
        /\ offset = (IF ZeroCopy THEN start ELSE 0)
        /\ bytes_left = start + length - offset
    BY <1>7 DEF NoMoreBytes, StreamInv, UnreadInv
  <2>2. EndedInv'
    BY <2>1 DEF EndedInv, AfterConstructor
  <2>3. Bytes(start, 0) = <<>> /\ Bytes(0, 0) = <<>> /\ start + 0 = start
    BY <1>1, NoBytes
  <2>4. CASE ZeroCopy
    <3>1. reading' = "parse" /\ ZeroCopy' /\ limit' = ParseLimit'
      BY <2>1, <2>4 DEF AfterConstructor, ZeroCopy, ParseLimit
    <3>2. parsed' = Bytes(start', Len(parsed')) /\ buffer' = Bytes(start' + Len(parsed'), Len(buffer'))
      BY <1>3, <2>1, <2>3
    <3>3. /\ Len(parsed') + Len(buffer') <= length'
          /\ offset' = start' + Len(parsed') + Len(buffer')
          /\ bytes_left' = start' + length' - offset'
          /\ total_bytes_read' = offset' - start'
      BY <1>1, <1>3, <2>1, <2>4
    <3> QED
      BY <1>5, <1>6, <2>2, <3>1, <3>2, <3>3 DEF StreamInv, ParsingInv, ConstructedInv
  <2>5. CASE ~ZeroCopy
    <3>1. reading' = "coded_stream.Skip" /\ ~ZeroCopy'
      BY <2>1, <2>5 DEF AfterConstructor, ZeroCopy
    <3>2. ConstructedInv'
      BY <1>1, <1>3, <2>1, <2>3, <2>5, <3>1 DEF ConstructedInv
    <3> QED
      BY <1>5, <1>6, <2>2, <3>1, <3>2 DEF StreamInv, ParsingInv
  <2> QED
    BY <2>4, <2>5
<1>8. CASE reading # "construct"
  <2> DEFINE m == Len(parsed)
  <2>1. /\ reading = "parse" /\ buffer = <<>> /\ m \in Nat
        /\ reading' = IF MayEnd /\ ~EndsAtLimit THEN "done" ELSE "CHECK"
    BY <1>8, LenProperties DEF Refreshing, NoMoreBytes, StreamInv, AssetTypeOK
  <2>2. /\ parsed = Bytes(start, m) /\ m + Len(buffer) <= length /\ limit = ParseLimit
        /\ ~failed => /\ offset = start + m + Len(buffer)
                      /\ bytes_left = start + length - offset
                      /\ total_bytes_read = IF ZeroCopy THEN offset - start ELSE offset
    BY <2>1 DEF StreamInv, ParsingInv
  <2>3. m <= length
    BY <1>1, <1>3, <2>1, <2>2
  <2>4. ASSUME ~failed, ~failed' PROVE reading' = "done" /\ m = length
    <3>1. offset = start + m
      BY <1>1, <1>3, <2>1, <2>2, <2>4
    <3>2. total_bytes_read < limit
      <4>1. ZeroCopy => limit = DefaultLimit /\ length < DefaultLimit
        BY <2>2 DEF ParseLimit, ZeroCopy
      <4>2. ~ZeroCopy => limit = RaisedLimit
        BY <2>2 DEF ParseLimit
      <4>3. CASE ZeroCopy
        BY <1>1, <2>1, <2>2, <2>3, <2>4, <3>1, <4>1, <4>3
      <4>4. CASE ~ZeroCopy
        BY <1>1, <1>2, <2>1, <2>2, <2>3, <2>4, <3>1, <4>2, <4>4
      <4> QED
        BY <4>3, <4>4
    <3>3. Wanted = 0
      BY <1>1, <2>4, <3>2 DEF AtLimit
    <3>4. bytes_left = 0
      BY <1>1, <3>3, MinOfTwo DEF Wanted
    <3>5. m = length
      BY <1>1, <2>1, <2>2, <2>4, <3>1, <3>4
    <3>6. ~EndsAtLimit
      BY <1>1, <3>2 DEF EndsAtLimit
    <3> QED
      BY <2>1, <3>5, <3>6 DEF MayEnd
  <2>5. reading' \in {"done", "CHECK"}
    BY <2>1
  <2>6. EndedInv'
    BY <1>1, <2>1, <2>2, <2>3, <2>4 DEF EndedInv
  <2> QED
    BY <1>5, <1>6, <2>5, <2>6 DEF StreamInv, ParsingInv, ConstructedInv
<1> QED
  BY <1>7, <1>8

LEMMA ReadFailsStep == ASSUME StreamInv, ReadFails PROVE StreamInv'
<1>1. faults' \in 0..MaxFaults /\ failed' = TRUE
  BY StreamAssumption DEF ReadFails, StreamInv, AssetTypeOK
<1> QED
  BY <1>1, NothingLeft DEF ReadFails

LEMMA RefreshNothingStep == ASSUME StreamInv, RefreshNothing PROVE StreamInv'
<1>1. /\ UNCHANGED <<start, length, offset, bytes_left, failed, limit,
                     total_bytes_read, buffer, parsed, faults>>
      /\ Refreshing /\ reading' = NoMoreBytes
      /\ AtLimit \/ failed \/ Wanted = 0
  BY DEF RefreshNothing, streamVars
<1>2. failed' \in BOOLEAN /\ faults' \in 0..MaxFaults
  BY <1>1 DEF StreamInv, AssetTypeOK
<1> QED
  BY <1>1, <1>2, NothingLeft

LEMMA ConsumeStep == ASSUME StreamInv, Consume PROVE StreamInv'
<1> DEFINE m == Len(parsed)
           n == Len(buffer)
<1>1. /\ reading = "parse" /\ parsed' = parsed \o buffer /\ buffer' = <<>>
      /\ UNCHANGED <<reading, start, length, offset, bytes_left, failed, limit,
                     total_bytes_read, faults>>
  BY DEF Consume
<1>2. /\ start \in Starts /\ length \in Lengths
      /\ parsed = Bytes(start, m) /\ buffer = Bytes(start + m, n)
      /\ m + n <= length /\ limit = ParseLimit
      /\ ~failed => /\ offset = start + m + n
                    /\ bytes_left = start + length - offset
                    /\ total_bytes_read = IF ZeroCopy THEN offset - start ELSE offset
  BY <1>1 DEF StreamInv, OpenInv, ParsingInv
<1>3. start \in Nat /\ length \in Nat /\ m \in Nat /\ n \in Nat
  BY LenProperties DEF StreamInv, AssetTypeOK
<1>4. parsed' = Bytes(start, m + n)
  <2>1. Bytes(start, m) \o Bytes(start + m, n) = Bytes(start, m + n)
    BY <1>3, BytesJoin
  <2>2. parsed' = Bytes(start, m) \o Bytes(start + m, n)
    BY <1>1, <1>2, Zenon
  <2> QED
    BY <2>1, <2>2, Zenon
<1>5. /\ parsed' \in Seq(Nat) /\ Len(parsed') = m + n
      /\ buffer' \in Seq(Nat) /\ Len(buffer') = 0
  BY <1>1, <1>3, <1>4, BytesRun, EmptySeq
<1>6. AssetTypeOK'
  BY <1>1, <1>5 DEF StreamInv, AssetTypeOK
<1>7. ClosedInv' /\ OpenInv' /\ UnreadInv' /\ ConstructedInv' /\ EndedInv'
  BY <1>1, <1>2 DEF ClosedInv, OpenInv, UnreadInv, ConstructedInv, EndedInv
<1>8. buffer' = Bytes(start' + Len(parsed'), Len(buffer'))
  <2>1. start + (m + n) \in Nat
    BY <1>3
  <2> QED
    BY <1>1, <1>5, <2>1, NoBytes
<1>9. parsed' = Bytes(start', Len(parsed'))
  BY <1>1, <1>4, <1>5
<1>10. /\ Len(parsed') + Len(buffer') <= length'
       /\ ~failed' => /\ offset' = start' + Len(parsed') + Len(buffer')
                      /\ bytes_left' = start' + length' - offset'
                      /\ total_bytes_read' = IF ZeroCopy THEN offset' - start' ELSE offset'
  <2>1. /\ m + n <= length
        /\ ~failed => /\ offset = start + m + n
                      /\ bytes_left = start + length - offset
                      /\ total_bytes_read = IF ZeroCopy THEN offset - start ELSE offset
    BY <1>2
  <2>2. /\ UNCHANGED <<start, length, offset, bytes_left, failed, total_bytes_read>>
        /\ Len(parsed') = m + n /\ Len(buffer') = 0
    BY <1>1, <1>5
  <2> HIDE DEF m, n
  <2>3. m + n + 0 = m + n /\ start + (m + n) + 0 = start + m + n
    BY <1>3
  <2> QED
    BY <2>1, <2>2, <2>3
<1>11. (ZeroCopy' <=> ZeroCopy) /\ limit' = ParseLimit'
  BY <1>1, <1>2 DEF ParseLimit, ZeroCopy
<1>12. ParsingInv'
  BY <1>8, <1>9, <1>10, <1>11 DEF ParsingInv
<1> QED
  BY <1>6, <1>7, <1>12 DEF StreamInv

LEMMA AssetStep == ASSUME StreamInv, AssetNext PROVE StreamInv'
BY AssetRefusedStep, OpenDescriptorStep, OpenCompressedStep, SkipToAssetStep, CodedSkipStep,
   RefreshBlockStep, ReadInterruptedStep, ReadFailsStep, RefreshNothingStep, ConsumeStep DEF AssetNext

LEMMA StreamGoneInv ==
  ASSUME reading' = "no", StreamGone
  PROVE  StreamInv'
<1>0. <<>> \in Seq(Nat) /\ MaxFaults \in Nat
  BY StreamAssumption, EmptySeq
<1>1. AssetTypeOK'
  <2>1. failed' \in BOOLEAN /\ buffer' \in Seq(Nat) /\ parsed' \in Seq(Nat)
    BY <1>0, Zenon DEF StreamGone
  <2>2. 0 \in Nat /\ 0 \in 0..MaxFaults
    BY <1>0
  <2>3. reading' \in Readings
    BY DEF Readings
  <2> QED
    BY <2>1, <2>2, <2>3, Zenon DEF StreamGone, AssetTypeOK
<1>2. ClosedInv'
  BY DEF StreamGone, ClosedInv, NoStream
<1>3. OpenInv' /\ UnreadInv' /\ ConstructedInv' /\ ParsingInv' /\ EndedInv'
  BY DEF OpenInv, UnreadInv, ConstructedInv, ParsingInv, EndedInv
<1> QED
  BY <1>1, <1>2, <1>3 DEF StreamInv

LEMMA StreamUnchanged ==
  ASSUME StreamInv, UNCHANGED assetVars
  PROVE  StreamInv'
BY DEF assetVars, streamVars, StreamInv, AssetTypeOK, ClosedInv, NoStream, OpenInv, UnreadInv,
       ConstructedInv, ParsingInv, EndedInv, ZeroCopy, ParseLimit

LEMMA StreamOpens ==
  ASSUME StreamInv, reading = "no", reading' = "open", UNCHANGED <<streamVars, faults>>
  PROVE  StreamInv'
<1>1. AssetTypeOK'
  BY DEF StreamInv, AssetTypeOK, streamVars, Readings
<1>2. ClosedInv'
  BY DEF StreamInv, ClosedInv, NoStream, streamVars
<1>3. OpenInv' /\ UnreadInv' /\ ConstructedInv' /\ ParsingInv' /\ EndedInv'
  BY DEF OpenInv, UnreadInv, ConstructedInv, ParsingInv, EndedInv
<1> QED
  BY <1>1, <1>2, <1>3 DEF StreamInv

LEMMA StreamImplies == StreamInv => ParsedIsAsset
<1> SUFFICES ASSUME StreamInv PROVE ParsedIsAsset
  OBVIOUS
<1>1. /\ start \in Nat /\ length \in Nat /\ parsed \in Seq(Nat) /\ Len(parsed) \in Nat
      /\ buffer \in Seq(Nat) /\ Len(buffer) \in Nat /\ reading \in Readings
  BY LenProperties DEF StreamInv, AssetTypeOK
<1>2. Bytes(start, 0) = <<>> /\ Len(<<>>) = 0
  BY <1>1, NoBytes, EmptySeq
<1>3. CASE parsed = <<>> /\ reading # "done"
  BY <1>1, <1>2, <1>3 DEF ParsedIsAsset
<1>4. CASE reading = "parse"
  BY <1>1, <1>4 DEF ParsedIsAsset, StreamInv, ParsingInv
<1>5. CASE reading \in {"done", "CHECK"}
  BY <1>1, <1>5 DEF ParsedIsAsset, StreamInv, EndedInv
<1>6. reading \in {"no", "open", "refused", "adaptor.Skip", "construct", "coded_stream.Skip"}
        => parsed = <<>> /\ reading # "done"
  BY DEF StreamInv, ClosedInv, NoStream, UnreadInv, ConstructedInv
<1> QED
  BY <1>1, <1>3, <1>4, <1>5, <1>6 DEF Readings

-----------------------------------------------------------------------------
(* GetTopN.                                                                *)

(* The entries of a prediction, of which the queue keeps some.             *)
AllEntries == {<<prediction[k], k>> : k \in Indices}

LEMMA NumbersAreNatural ==
  ASSUME TopTypeOK, AllNumbers
  PROVE  \A k \in Indices : prediction[k] \in Nat /\ k \in Nat
<1> SUFFICES ASSUME NEW k \in Indices PROVE prediction[k] \in Nat /\ k \in Nat
  OBVIOUS
<1>1. prediction[k] \in Confidences \cup {NaN, 0} /\ prediction[k] # NaN
  BY DEF TopTypeOK, AllNumbers
<1>2. prediction[k] \in Nat
  <2>1. 0 \in Nat /\ Confidences \subseteq Nat
    BY TopNAssumption
  <2> QED
    BY <1>1, <2>1, Zenon
<1>3. k \in Nat
  BY TopNAssumption DEF Indices
<1> QED
  BY <1>2, <1>3

LEMMA BeatsOrders ==
  ASSUME TopTypeOK, AllNumbers
  PROVE  /\ \A e, f, g \in AllEntries : Beats(e, f) /\ Beats(f, g) => Beats(e, g)
         /\ \A e \in AllEntries : e[1] \in Nat /\ e[2] \in Indices /\ e = <<e[1], e[2]>>
<1>1. \A k \in Indices : prediction[k] \in Nat /\ k \in Nat
  BY NumbersAreNatural
<1>2. \A e \in AllEntries : e[1] \in Nat /\ e[2] \in Indices /\ e = <<e[1], e[2]>>
  BY <1>1 DEF AllEntries
<1>3. ASSUME NEW e \in AllEntries, NEW f \in AllEntries, NEW g \in AllEntries,
             Beats(e, f), Beats(f, g)
      PROVE  Beats(e, g)
  <2>1. /\ e[1] \in Nat /\ f[1] \in Nat /\ g[1] \in Nat
        /\ e[2] \in Int /\ f[2] \in Int /\ g[2] \in Int
    BY <1>1, <1>2, <1>3
  <2> QED
    BY <1>3, <2>1 DEF Beats
<1> QED
  BY <1>2, <1>3

(* What the loop has seen, and the candidates among it.                    *)
LEMMA SeenEntries ==
  ASSUME TopTypeOK
  PROVE  /\ Seen \subseteq Indices
         /\ {<<prediction[k], k>> : k \in Seen} \subseteq AllEntries
         /\ Candidates \subseteq AllEntries
<1>1. Seen \subseteq Indices
  BY TopNAssumption DEF TopTypeOK, Seen, Indices
<1> QED
  BY <1>1 DEF Candidates, AllEntries

LEMMA NoResults == top_results = <<>> => Results = {} /\ Kept = queue
<1> SUFFICES ASSUME top_results = <<>> PROVE Results = {} /\ Kept = queue
  OBVIOUS
<1>1. DOMAIN top_results = {}
  OBVIOUS
<1> QED
  BY <1>1 DEF Results, Kept

(* One round of the loop keeps the N best of what it has seen.             *)
LEMMA PushKeeps ==
  ASSUME PickInv, AllNumbers, top_results = <<>>, UNCHANGED prediction,
         i \in Indices, i' = i + 1,
         NEW x, x = <<prediction[i], i>>,
         queue \subseteq {<<prediction[k], k>> : k \in Seen}, x \notin queue,
         \/ Dropped(prediction[i]) /\ queue' = queue
         \/ ~Dropped(prediction[i]) /\ ~AtCapacity(queue \cup {x}) /\ queue' = queue \cup {x}
         \/ /\ ~Dropped(prediction[i]) /\ AtCapacity(queue \cup {x})
            /\ \E p \in Worst(queue \cup {x}) : queue' = (queue \cup {x}) \ {p}
  PROVE  /\ queue' \subseteq Candidates' /\ Cardinality(queue') <= NumResults
         /\ \A c \in Candidates' \ queue' :
              /\ Cardinality(queue') = NumResults
              /\ \A p \in queue' : Beats(p, c)
<1> DEFINE full == queue \cup {x}
<1>1. /\ queue \subseteq Candidates /\ Cardinality(queue) <= NumResults
      /\ \A c \in Candidates \ queue :
           /\ Cardinality(queue) = NumResults
           /\ \A p \in queue : Beats(p, c)
  BY NoResults DEF PickInv, TopNInOrder, KeepsTheBest
<1>2. /\ NumResults \in Nat /\ Threshold \in Nat /\ prediction[i] \in Nat
      /\ i \in Nat
  BY TopNAssumption, NumbersAreNatural DEF PickInv
<1>3. \A c : c \in Candidates' <=> c \in Candidates \/ (c = x /\ prediction[i] >= Threshold)
  <2>1. \A k : k \in Seen' <=> k \in Seen \/ k = i
    BY <1>2 DEF Seen
  <2> QED
    BY <2>1 DEF Candidates
<1>4. Dropped(prediction[i]) <=> ~(prediction[i] >= Threshold)
  BY <1>2, TopNAssumption DEF Dropped
<1>5. /\ IsFiniteSet(queue) /\ IsFiniteSet(full) /\ Cardinality(queue) \in Nat
      /\ Cardinality(full) = Cardinality(queue) + 1
  BY FS_AddElement, FS_CardinalityType DEF PickInv, LoopInv
<1>6. CASE Dropped(prediction[i])
  <2>1. queue' = queue /\ \A c : c \in Candidates' <=> c \in Candidates
    BY <1>3, <1>4, <1>6
  <2> QED
    BY <1>1, <2>1
<1>7. CASE ~Dropped(prediction[i]) /\ ~AtCapacity(full)
  <2>1. queue' = full /\ ~(Cardinality(full) > NumResults)
    BY <1>7 DEF AtCapacity
  <2>2. Cardinality(queue) # NumResults
    BY <1>2, <1>5, <2>1
  <2>3. \A c : c \in Candidates' <=> c \in full
    BY <1>1, <1>3, <1>4, <1>7, <2>2
  <2> HIDE DEF full
  <2> QED
    BY <1>2, <1>5, <2>1, <2>3
<1>8. CASE ~Dropped(prediction[i]) /\ AtCapacity(full)
  <2>1. PICK p \in Worst(full) : queue' = full \ {p}
    BY <1>8
  <2>2. p \in full /\ \A r \in full \ {p} : Beats(r, p)
    BY DEF Worst
  <2>3. Cardinality(queue) = NumResults
    BY <1>1, <1>2, <1>5, <1>8 DEF AtCapacity
  <2>4. Cardinality(queue') = NumResults
    <3>1. Cardinality(full \ {p}) = Cardinality(full) - 1
      BY <1>5, <2>2, FS_RemoveElement
    <3> HIDE DEF full
    <3> QED
      BY <1>2, <1>5, <2>1, <2>3, <3>1
  <2>5. queue' \subseteq Candidates'
    BY <1>1, <1>3, <1>4, <1>8, <2>1
  <2>6. ASSUME NEW c \in Candidates' \ queue', NEW q \in queue'
        PROVE  Beats(q, c)
    <3>1. CASE c \in full
      BY <2>1, <2>2, <2>6, <3>1
    <3>2. CASE c \notin full
      <4>1. c \in Candidates \ queue /\ \A r \in queue : Beats(r, c)
        BY <1>1, <1>3, <2>6, <3>2
      <4>2. CASE q \in queue
        BY <4>1, <4>2
      <4>3. CASE q \notin queue
        <5>1. q = x /\ p # x /\ p \in queue /\ q \in full \ {p}
          BY <2>1, <2>2, <2>6, <4>3
        <5>2. Beats(q, p) /\ Beats(p, c)
          BY <2>2, <4>1, <5>1
        <5>3. q \in AllEntries /\ p \in AllEntries /\ c \in AllEntries
          BY <1>1, <4>1, <5>1, SeenEntries DEF PickInv, AllEntries
        <5> QED
          BY <5>2, <5>3, BeatsOrders DEF PickInv
      <4> QED
        BY <4>2, <4>3
    <3> QED
      BY <3>1, <3>2
  <2> QED
    BY <1>2, <2>4, <2>5, <2>6
<1> QED
  BY <1>6, <1>7, <1>8

LEMMA PushStep == ASSUME PickInv, Push PROVE PickInv'
<1> DEFINE x == <<prediction[i], i>>
           full == queue \cup {x}
           bad  == Disordered \/ prediction[i] = NaN
<1>1. /\ picking = "loop" /\ i < Classes /\ i' = i + 1
      /\ UNCHANGED <<picking, prediction, top_results>>
      /\ \/ Dropped(prediction[i]) /\ queue' = queue
         \/ ~Dropped(prediction[i]) /\ ~AtCapacity(full) /\ queue' = full
         \/ /\ ~Dropped(prediction[i]) /\ AtCapacity(full)
            /\ \E p \in Popped(full, bad) : queue' = full \ {p}
  BY DEF Push
<1>2. i \in Nat /\ Classes \in Nat /\ i \in Indices /\ i' \in 0..Classes
  BY <1>1, TopNAssumption DEF PickInv, TopTypeOK, Indices
<1>3. /\ top_results = <<>> /\ prediction \in Predictions /\ IsFiniteSet(queue)
      /\ queue \subseteq {<<prediction[k], k>> : k \in Seen}
  BY <1>1, NoResults DEF PickInv, LoopInv
<1>4. x \notin queue
  BY <1>2, <1>3 DEF Seen
<1>5. queue' \subseteq full
  BY <1>1
<1>6. x \in Entries
  BY <1>2, <1>3 DEF Predictions, Entries
<1>7. TopTypeOK'
  BY <1>1, <1>2, <1>5, <1>6 DEF PickInv, TopTypeOK
<1>8. Results' = {} /\ Kept' = queue'
  BY <1>1, <1>3 DEF Results, Kept
<1>9. LoopInv'
  <2>1. IsFiniteSet(queue')
    BY <1>3, <1>5, FS_AddElement, FS_Subset
  <2>2. \A k : k \in Seen' <=> k \in Seen \/ k = i
    BY <1>1, <1>2 DEF Seen
  <2>3. queue' \subseteq {<<prediction[k], k>> : k \in Seen'}
    BY <1>3, <1>5, <2>2
  <2> QED
    BY <1>1, <1>3, <1>8, <2>1, <2>3 DEF LoopInv
<1>10. TopNInOrder'
  <2> SUFFICES ASSUME AllNumbers PROVE KeepsTheBest' /\ Descending'
    BY <1>1 DEF TopNInOrder, AllNumbers
  <2>1. bad = FALSE
    BY <1>2, SeenEntries DEF AllNumbers, Disordered, Seen, PickInv
  <2>2. Popped(full, bad) = Worst(full)
    BY <2>1 DEF Popped
  <2>3. \/ Dropped(prediction[i]) /\ queue' = queue
        \/ ~Dropped(prediction[i]) /\ ~AtCapacity(queue \cup {x}) /\ queue' = queue \cup {x}
        \/ /\ ~Dropped(prediction[i]) /\ AtCapacity(queue \cup {x})
           /\ \E p \in Worst(queue \cup {x}) : queue' = (queue \cup {x}) \ {p}
    BY <1>1, <2>2
  <2>4. /\ queue' \subseteq Candidates' /\ Cardinality(queue') <= NumResults
        /\ \A c \in Candidates' \ queue' :
             /\ Cardinality(queue') = NumResults
             /\ \A p \in queue' : Beats(p, c)
    <3> HIDE DEF x
    <3>1. x = <<prediction[i], i>>
      BY DEF x
    <3> QED
      BY <1>1, <1>2, <1>3, <1>4, <2>3, <3>1, PushKeeps
  <2>5. KeepsTheBest'
    BY <1>8, <2>4 DEF KeepsTheBest
  <2>6. Descending'
    BY <1>1, <1>3 DEF Descending
  <2> QED
    BY <2>5, <2>6
<1> QED
  BY <1>7, <1>9, <1>10 DEF PickInv

(* The worst entry of the queue goes to the front of the output.           *)
LEMMA DrainStep == ASSUME PickInv, Drain PROVE PickInv'
<1>1. PICK p \in Popped(queue, Disordered) :
        queue' = queue \ {p} /\ top_results' = <<p>> \o top_results
  BY DEF Drain
<1>2. picking = "loop" /\ i = Classes /\ UNCHANGED <<picking, prediction, i>>
  BY DEF Drain
<1>3. p \in queue
  BY DEF Popped, Worst
<1> DEFINE n == Len(top_results)
<1>4. /\ queue \subseteq Entries /\ top_results \in Seq(Entries) /\ p \in Entries
      /\ n \in Nat /\ DOMAIN top_results = 1..n
  BY <1>3, LenProperties DEF PickInv, TopTypeOK
<1>5. /\ top_results' \in Seq(Entries) /\ Len(top_results') = n + 1
      /\ DOMAIN top_results' = 1..(n + 1) /\ top_results'[1] = p
      /\ \A k \in 1..n : top_results'[k + 1] = top_results[k]
  <2>1. <<p>> \in Seq(Entries) /\ Len(<<p>>) = 1 /\ <<p>>[1] = p
    BY <1>4
  <2>2. /\ <<p>> \o top_results \in Seq(Entries)
        /\ Len(<<p>> \o top_results) = Len(<<p>>) + Len(top_results)
        /\ \A k \in 1..(Len(<<p>>) + Len(top_results)) : (<<p>> \o top_results)[k] =
             IF k <= Len(<<p>>) THEN <<p>>[k] ELSE top_results[k - Len(<<p>>)]
    BY <1>4, <2>1, ConcatProperties, Zenon
  <2>3. /\ top_results' \in Seq(Entries) /\ Len(top_results') = 1 + n
        /\ \A k \in 1..(1 + n) : top_results'[k] = IF k <= 1 THEN <<p>>[k] ELSE top_results[k - 1]
    BY <1>1, <2>1, <2>2
  <2> HIDE DEF n
  <2>4. 1 + n = n + 1 /\ 1 \in 1..(1 + n) /\ \A k \in 1..n : k + 1 \in 1..(1 + n) /\ ~(k + 1 <= 1) /\ (k + 1) - 1 = k
    BY <1>4
  <2>5. DOMAIN top_results' = 1..(n + 1)
    BY <2>3, <2>4, LenProperties
  <2>6. top_results'[1] = p
    BY <2>1, <2>3, <2>4
  <2>7. \A k \in 1..n : top_results'[k + 1] = top_results[k]
    BY <2>3, <2>4
  <2> QED
    BY <2>3, <2>4, <2>5, <2>6, <2>7
<1> HIDE DEF n
<1>6. \A k \in DOMAIN top_results' :
        k # 1 => k - 1 \in 1..n /\ top_results'[k] = top_results[k - 1]
  <2> SUFFICES ASSUME NEW k \in 1..(n + 1), k # 1
               PROVE  k - 1 \in 1..n /\ top_results'[k] = top_results[k - 1]
    BY <1>5
  <2>1. k - 1 \in 1..n /\ (k - 1) + 1 = k
    BY <1>4
  <2> QED
    BY <1>5, <2>1
<1>7. Results' = Results \cup {p}
  <2>1. ASSUME NEW x \in Results' PROVE x \in Results \cup {p}
    BY <1>4, <1>5, <1>6, <2>1 DEF Results
  <2>2. ASSUME NEW x \in Results PROVE x \in Results'
    <3>1. PICK k \in 1..n : x = top_results[k]
      BY <1>4, <2>2 DEF Results
    <3>2. k + 1 \in DOMAIN top_results' /\ top_results'[k + 1] = x
      BY <1>4, <1>5, <3>1
    <3> QED
      BY <3>2 DEF Results
  <2>3. p \in Results'
    BY <1>4, <1>5 DEF Results
  <2> QED
    BY <2>1, <2>2, <2>3
<1>8. Kept' = Kept
  BY <1>1, <1>3, <1>7 DEF Kept
<1>9. TopTypeOK'
  BY <1>1, <1>2, <1>4, <1>5 DEF PickInv, TopTypeOK
<1>10. LoopInv'
  <2>1. IsFiniteSet(queue')
    BY <1>1, FS_RemoveElement DEF PickInv, LoopInv
  <2>2. Seen' = Seen
    BY <1>2 DEF Seen
  <2>3. ~(i < Classes)
    BY <1>2, TopNAssumption
  <2> QED
    BY <1>2, <1>8, <2>1, <2>2, <2>3 DEF PickInv, LoopInv
<1>11. TopNInOrder'
  <2> SUFFICES ASSUME AllNumbers PROVE KeepsTheBest' /\ Descending'
    BY <1>2 DEF TopNInOrder, AllNumbers
  <2>1. Candidates' = Candidates
    BY <1>2 DEF Candidates, Seen
  <2>2. KeepsTheBest'
    BY <1>8, <2>1 DEF PickInv, TopNInOrder, KeepsTheBest
  <2>3. Disordered = FALSE
    BY SeenEntries DEF AllNumbers, Disordered, Seen, PickInv
  <2>4. \A r \in queue \ {p} : Beats(r, p)
    BY <2>3 DEF Popped, Worst
  <2>5. /\ \A k \in 1..n : \A l \in 1..n : k < l => Beats(top_results[k], top_results[l])
        /\ \A k \in 1..n : \A q \in queue : Beats(q, top_results[k])
    BY <1>4 DEF PickInv, TopNInOrder, Descending
  <2>6. ASSUME NEW k \in DOMAIN top_results', NEW l \in DOMAIN top_results', k < l
        PROVE  Beats(top_results'[k], top_results'[l])
    <3>1. l # 1
      BY <1>4, <1>5, <2>6
    <3>2. l - 1 \in 1..n /\ top_results'[l] = top_results[l - 1]
      BY <1>6, <2>6, <3>1
    <3>3. CASE k = 1
      BY <1>3, <1>5, <2>5, <3>2, <3>3
    <3>4. CASE k # 1
      <4>1. k - 1 \in 1..n /\ top_results'[k] = top_results[k - 1] /\ k - 1 < l - 1
        BY <1>4, <1>5, <1>6, <2>6, <3>4
      <4> QED
        BY <2>5, <3>2, <4>1
    <3> QED
      BY <3>3, <3>4
  <2>7. ASSUME NEW k \in DOMAIN top_results', NEW q \in queue'
        PROVE  Beats(q, top_results'[k])
    <3>1. CASE k = 1
      BY <1>1, <1>5, <2>4, <2>7, <3>1
    <3>2. CASE k # 1
      BY <1>1, <1>6, <2>5, <2>7, <3>2
    <3> QED
      BY <3>1, <3>2
  <2>8. Descending'
    BY <2>6, <2>7 DEF Descending
  <2> QED
    BY <2>2, <2>8
<1> QED
  BY <1>9, <1>10, <1>11 DEF PickInv

LEMMA TopDoneStep == ASSUME PickInv, TopDone PROVE PickInv'
<1>1. /\ picking = "loop" /\ i = Classes /\ queue = {} /\ picking' = "done"
      /\ UNCHANGED <<prediction, i, queue, top_results>>
  BY DEF TopDone
<1>2. TopTypeOK'
  BY <1>1 DEF PickInv, TopTypeOK
<1>3. Results' = Results /\ Kept' = Kept /\ Seen' = Seen /\ Candidates' = Candidates
  BY <1>1 DEF Results, Kept, Seen, Candidates
<1>4. LoopInv'
  BY <1>1, <1>3 DEF PickInv, LoopInv
<1>5. TopNInOrder'
  BY <1>1, <1>3 DEF PickInv, TopNInOrder, AllNumbers, KeepsTheBest, Descending
<1> QED
  BY <1>2, <1>4, <1>5 DEF PickInv

LEMMA TopStep == ASSUME PickInv, TopNext PROVE PickInv'
BY PushStep, DrainStep, TopDoneStep DEF TopNext

LEMMA PickUnchanged ==
  ASSUME PickInv, UNCHANGED topVars
  PROVE  PickInv'
<1>1. UNCHANGED <<picking, prediction, i, queue, top_results>>
  BY DEF topVars
<1>2. TopTypeOK'
  BY <1>1 DEF PickInv, TopTypeOK
<1>3. Results' = Results /\ Kept' = Kept /\ Seen' = Seen /\ Candidates' = Candidates
  BY <1>1 DEF Results, Kept, Seen, Candidates
<1>4. LoopInv'
  BY <1>1, <1>3 DEF PickInv, LoopInv
<1>5. TopNInOrder'
  BY <1>1, <1>3 DEF PickInv, TopNInOrder, AllNumbers, KeepsTheBest, Descending
<1> QED
  BY <1>2, <1>4, <1>5 DEF PickInv

(* An empty queue and output, before the loop has seen an entry.           *)
LEMMA PickBegins ==
  ASSUME picking' \in {"no", "loop"},
         prediction' \in [Indices -> Confidences \cup {NaN, 0}],
         picking' = "loop" => prediction' \in Predictions,
         i' = 0, queue' = {}, top_results' = <<>>
  PROVE  PickInv'
<1>1. Classes \in Nat /\ NumResults \in Nat
  BY TopNAssumption
<1>2. TopTypeOK'
  BY <1>1, EmptySeq DEF TopTypeOK
<1>3. Seen' = {} /\ Results' = {} /\ Kept' = {} /\ Candidates' = {} /\ DOMAIN top_results' = {}
  BY DEF Seen, Results, Kept, Candidates
<1>4. LoopInv'
  BY <1>3, FS_EmptySet DEF LoopInv
<1>5. TopNInOrder'
  BY <1>1, <1>3, FS_EmptySet DEF TopNInOrder, KeepsTheBest, Descending
<1> QED
  BY <1>2, <1>4, <1>5 DEF PickInv

-----------------------------------------------------------------------------
(* What is spoken.                                                         *)

(* A label that has nothing to say.                                        *)
Silent(d) == d < Len(labels) /\ labels[d + 1] = "blank"

LEMMA LabelTexts ==
  ASSUME HostTypeOK, NEW d \in Indices
  PROVE  /\ TextOf(d) = "blank" <=> Silent(d)
         /\ d < Len(labels) <=> TextOf(d) \in Texts
<1>1. PICK n \in 0..Classes : labels \in [1..n -> Texts]
  BY DEF HostTypeOK, LabelFiles
<1>2. n \in Nat
  BY <1>1, TopNAssumption
<1>3. labels \in Seq(Texts) /\ Len(labels) \in Nat
  BY <1>1, <1>2, SeqDef, LenProperties
<1>4. d \in Nat
  BY TopNAssumption DEF Indices
<1>5. d < Len(labels) => labels[d + 1] \in Texts
  <2> SUFFICES ASSUME d < Len(labels) PROVE labels[d + 1] \in Texts
    OBVIOUS
  <2>1. d + 1 \in 1..Len(labels)
    BY <1>3, <1>4
  <2> QED
    BY <1>3, <2>1, ElementOfSeq
<1> QED
  BY <1>5 DEF TextOf, Texts, Silent

(* The output of GetTopN, entry by entry, once its queue is empty.         *)
LEMMA ResultsAreEntries ==
  ASSUME PickInv, picking = "done"
  PROVE  /\ \A k \in DOMAIN top_results :
              LET d == top_results[k][2]
              IN  d \in Indices /\ top_results[k] = Entry(d)
         /\ Kept = Results /\ Seen = Indices
<1>1. queue = {} /\ i = Classes /\ Kept \subseteq {<<prediction[k], k>> : k \in Seen}
  BY DEF PickInv, LoopInv
<1>2. Kept = Results /\ Seen = Indices
  BY <1>1 DEF Kept, Seen, Indices
<1>3. \A k \in DOMAIN top_results : top_results[k] \in Kept
  BY <1>2 DEF Results
<1> QED
  BY <1>1, <1>2, <1>3 DEF Entry

LEMMA LinesOfResults ==
  ASSUME output = Lines
  PROVE  /\ DOMAIN output = DOMAIN top_results
         /\ \A k \in DOMAIN top_results :
              /\ output[k].index = top_results[k][2]
              /\ output[k].confidence = top_results[k][1]
              /\ output[k].text = TextOf(top_results[k][2])
BY DEF Lines

(* The entries with a blank label that push a class out are as many        *)
(* classes.                                                                *)
LEMMA SilentClasses ==
  ASSUME PickInv, HostTypeOK, picking = "done", AllNumbers,
         \A k \in DOMAIN top_results : Silent(top_results[k][2]),
         NEW c \in Indices, prediction[c] >= Threshold, Entry(c) \notin Kept
  PROVE  Cardinality({d \in Indices : /\ d < Len(labels) /\ labels[d + 1] = "blank"
                                      /\ Beats(Entry(d), Entry(c))}) >= NumResults
<1> DEFINE D == {d \in Indices : /\ d < Len(labels) /\ labels[d + 1] = "blank"
                                 /\ Beats(Entry(d), Entry(c))}
           f == [e \in Kept |-> e[2]]
<1>1. Kept = Results /\ Seen = Indices
  BY ResultsAreEntries
<1>2. Entry(c) \in Candidates
  BY <1>1 DEF Candidates, Entry
<1>3. /\ Cardinality(Kept) = NumResults
      /\ \A p \in Kept : Beats(p, Entry(c))
  BY <1>2 DEF PickInv, TopNInOrder, KeepsTheBest
<1>4. \A e \in Kept : e[2] \in Indices /\ e = Entry(e[2]) /\ Silent(e[2])
  BY <1>1, ResultsAreEntries DEF Results
<1>5. \A e \in Kept : e[2] \in D
  BY <1>3, <1>4 DEF Silent
<1> HIDE DEF D
<1>6. f \in [Kept -> D]
  BY <1>5
<1>7. \A a, b \in Kept : f[a] = f[b] => a = b
  BY <1>4
<1> HIDE DEF f
<1>8. f \in Injection(Kept, D)
  BY <1>6, <1>7 DEF Injection, IsInjective
<1>9. IsFiniteSet(D)
  <2>1. IsFiniteSet(Indices)
    BY FS_Interval, TopNAssumption DEF Indices
  <2>2. D \subseteq Indices
    BY DEF D
  <2> QED
    BY <2>1, <2>2, FS_Subset
<1>10. Cardinality(Kept) <= Cardinality(D) /\ Cardinality(D) \in Nat
  BY <1>8, <1>9, FS_Injection, FS_CardinalityType
<1>11. Cardinality(D) >= NumResults
  BY <1>3, <1>10, TopNAssumption
<1> QED
  BY <1>11 DEF D

(* The first line with a title is the best audible class.                  *)
LEMMA FirstTitleIsBest ==
  ASSUME PickInv, HostTypeOK, picking = "done", output = Lines, AllNumbers,
         NEW k \in Recognitions, \A l \in Recognitions : k <= l
  PROVE  LET d == output[k].index
         IN  /\ d \in Audible
             /\ d < Len(labels) <=> output[k].text = "text"
             /\ \A c \in Audible \ {d} : Beats(Entry(d), Entry(c))
<1> DEFINE d == output[k].index
<1>1. k \in DOMAIN top_results /\ output[k].text # "blank"
  BY LinesOfResults DEF Recognitions, HasTitle
<1>2. d \in Indices /\ top_results[k] = Entry(d) /\ output[k].text = TextOf(d)
  BY <1>1, LinesOfResults, ResultsAreEntries
<1>3. Kept = Results /\ Seen = Indices /\ Entry(d) \in Kept
  BY <1>1, <1>2, ResultsAreEntries DEF Results
<1>4. Kept \subseteq Candidates /\ Descending
      /\ \A c \in Candidates \ Kept : \A p \in Kept : Beats(p, c)
  BY DEF PickInv, TopNInOrder, KeepsTheBest
<1> HIDE DEF d
<1>5. prediction[d] >= Threshold
  BY <1>3, <1>4 DEF Candidates, Entry
<1>6. d \in Audible
  BY <1>1, <1>2, <1>5, LabelTexts DEF Audible, Silent
<1>7. d < Len(labels) <=> output[k].text = "text"
  BY <1>1, <1>2, LabelTexts DEF Texts
<1>8. ASSUME NEW c \in Audible, c # d
      PROVE  Beats(Entry(d), Entry(c))
  <2>1. c \in Indices /\ prediction[c] >= Threshold /\ ~Silent(c)
    BY <1>8 DEF Audible, Silent
  <2>2. Entry(c) \in Candidates
    BY <1>3, <2>1 DEF Candidates, Entry
  <2>3. CASE Entry(c) \notin Kept
    BY <1>3, <1>4, <2>2, <2>3
  <2>4. CASE Entry(c) \in Kept
    <3>1. PICK l \in DOMAIN top_results : Entry(c) = top_results[l]
      BY <1>3, <2>4 DEF Results
    <3>2. top_results[l][2] = c
      BY <3>1 DEF Entry
    <3>3. l \in Recognitions
      BY <2>1, <3>2, LinesOfResults, LabelTexts DEF Recognitions, HasTitle
    <3>4. l # k
      BY <1>2, <1>8, <3>1 DEF Entry
    <3>5. k < l
      <4>1. DOMAIN top_results = 1..Len(top_results) /\ Len(top_results) \in Nat
        BY LenProperties DEF PickInv, TopTypeOK
      <4>2. k \in Nat /\ l \in Nat
        BY <1>1, <3>1, <4>1
      <4> QED
        BY <3>3, <3>4, <4>2
    <3> QED
      BY <1>1, <1>2, <1>4, <3>1, <3>5 DEF Descending
  <2> QED
    BY <2>3, <2>4
<1> QED
  BY <1>6, <1>7, <1>8 DEF d

-----------------------------------------------------------------------------
(* The calls.                                                              *)

(* Only a process that has aborted has met a refusal.                      *)
LEMMA NotRefused == ASSUME IInv, call # "aborted" PROVE refused = "none"
BY DEF IInv, DeathIsExplained

LEMMA NothingSaid ==
  ASSUME call' \notin {"shown", "threw", "aborted"}, refused' = "none"
  PROVE  SpokenIsBest' /\ DeathIsExplained'
BY DEF SpokenIsBest, DeathIsExplained

LEMMA AbortIsOfReadError ==
  ASSUME call' = "aborted", failed', refused' = "none"
  PROVE  SpokenIsBest' /\ DeathIsExplained'
BY DEF SpokenIsBest, DeathIsExplained

LEMMA AbortIsOfRefusal ==
  ASSUME NEW request \in Requests, Abort(request),
         request \in {"asset", "create", "labels"} => ~initialized'
  PROVE  /\ SpokenIsBest' /\ DeathIsExplained'
         /\ call' = "aborted" /\ refused' \in Requests \cup {"none"}
<1>1. call' = "aborted" /\ refused' = request /\ request # "none"
  BY DEF Abort, Requests
<1> QED
  BY <1>1 DEF SpokenIsBest, DeathIsExplained

(* A call that goes on with its globals as they were.                      *)
LEMMA HostTypeStays ==
  ASSUME HostTypeOK, UNCHANGED <<initialized, num_runs, labels, spoken>>,
         refused' \in Requests \cup {"none"},
         call' \in {"idle", "load", "labels", "pick", "parse", "shown", "aborted", "threw"}
  PROVE  HostTypeOK'
BY DEF HostTypeOK

LEMMA InitializeStep ==
  ASSUME IInv, InitializeTensorFlow \/ InitializeAgain
  PROVE  IInv'
<1>1. /\ call = "idle" /\ num_runs' = 0 /\ call' \in {"load", "idle"}
      /\ UNCHANGED <<topVars, initialized, labels, output, spoken, refused>>
      /\ call' = "load" => ~initialized
  BY DEF InitializeTensorFlow, InitializeAgain
<1>2. reading = "no"
  BY <1>1 DEF IInv, HostInv
<1>3. StreamInv' /\ (call' = "idle" => reading' = "no")
  <2>1. CASE InitializeTensorFlow
    <3>1. reading' = "open" /\ call' = "load" /\ UNCHANGED <<streamVars, faults>>
      BY <2>1 DEF InitializeTensorFlow
    <3> QED
      BY <1>2, <3>1, StreamOpens DEF IInv
  <2>2. CASE InitializeAgain
    <3>1. UNCHANGED assetVars /\ reading' = reading
      BY <2>2 DEF InitializeAgain, assetVars
    <3> QED
      BY <1>2, <3>1, StreamUnchanged DEF IInv
  <2> QED
    BY <2>1, <2>2
<1>4. PickInv'
  BY <1>1, PickUnchanged DEF IInv
<1>5. HostTypeOK'
  BY <1>1, RunsAssumption DEF IInv, HostTypeOK
<1>6. HostInv'
  BY <1>1, <1>3 DEF HostInv
<1>7. SpokenIsBest' /\ DeathIsExplained'
  BY <1>1, NothingSaid, NotRefused
<1> QED
  BY <1>3, <1>4, <1>5, <1>6, <1>7 DEF IInv

LEMMA LoadStep == ASSUME IInv, Load PROVE IInv'
<1>1. /\ call = "load" /\ AssetNext /\ UNCHANGED topVars
      /\ UNCHANGED <<call, initialized, num_runs, labels, output, spoken, refused>>
  BY DEF Load, hostVars
<1>2. StreamInv'
  BY <1>1, AssetStep DEF IInv
<1>3. PickInv'
  BY <1>1, PickUnchanged DEF IInv
<1>4. HostTypeOK' /\ HostInv'
  BY <1>1, HostTypeStays DEF IInv, HostInv, HostTypeOK
<1>5. SpokenIsBest' /\ DeathIsExplained'
  BY <1>1, NothingSaid, NotRefused
<1> QED
  BY <1>2, <1>3, <1>4, <1>5 DEF IInv

LEMMA LoadAbortsStep == ASSUME IInv, LoadAborts PROVE IInv'
<1>1. /\ call = "load" /\ call' = "aborted" /\ UNCHANGED <<assetVars, topVars>>
      /\ UNCHANGED <<initialized, num_runs, labels, output, spoken>>
      /\ \/ reading = "CHECK" /\ UNCHANGED refused
         \/ Abort("asset")
  BY DEF LoadAborts, Abort
<1>2. StreamInv' /\ PickInv'
  BY <1>1, StreamUnchanged, PickUnchanged DEF IInv
<1>3. reading = "CHECK" => failed'
  BY <1>1 DEF IInv, StreamInv, EndedInv, assetVars, streamVars
<1>4. ~initialized'
  BY <1>1 DEF IInv, HostInv
<1>5. SpokenIsBest' /\ DeathIsExplained' /\ refused' \in Requests \cup {"none"}
  <2>1. refused = "none" /\ "asset" \in Requests
    BY <1>1, NotRefused DEF Requests
  <2>2. CASE reading = "CHECK" /\ UNCHANGED refused
    BY <1>1, <1>3, <2>1, <2>2, AbortIsOfReadError
  <2>3. CASE Abort("asset")
    BY <1>4, <2>1, <2>3, AbortIsOfRefusal
  <2> QED
    BY <1>1, <2>2, <2>3
<1>6. HostTypeOK' /\ HostInv'
  BY <1>1, <1>5, HostTypeStays DEF IInv, HostInv
<1> QED
  BY <1>2, <1>5, <1>6 DEF IInv

LEMMA CreateSessionStep == ASSUME IInv, CreateSession PROVE IInv'
<1>1. /\ call = "load" /\ UNCHANGED <<assetVars, topVars>>
      /\ UNCHANGED <<initialized, num_runs, labels, output, spoken>>
      /\ (call' = "labels" /\ UNCHANGED refused) \/ Abort("create")
  BY DEF CreateSession
<1>2. StreamInv' /\ PickInv'
  BY <1>1, StreamUnchanged, PickUnchanged DEF IInv
<1>3. ~initialized'
  BY <1>1 DEF IInv, HostInv
<1>4. /\ SpokenIsBest' /\ DeathIsExplained'
      /\ call' \in {"labels", "aborted"} /\ refused' \in Requests \cup {"none"}
  <2>1. refused = "none" /\ "create" \in Requests
    BY <1>1, NotRefused DEF Requests
  <2>2. CASE call' = "labels" /\ UNCHANGED refused
    BY <2>1, <2>2, NothingSaid
  <2>3. CASE Abort("create")
    BY <1>3, <2>1, <2>3, AbortIsOfRefusal
  <2> QED
    BY <1>1, <2>2, <2>3
<1>5. HostTypeOK'
  BY <1>1, <1>4, HostTypeStays DEF IInv
<1>6. HostInv'
  BY <1>3, <1>4 DEF HostInv
<1> QED
  BY <1>2, <1>4, <1>5, <1>6 DEF IInv

LEMMA ReadLabelsStep == ASSUME IInv, ReadLabels PROVE IInv'
<1>1. /\ call = "labels" /\ UNCHANGED topVars
      /\ UNCHANGED <<num_runs, output, spoken>>
  BY DEF ReadLabels
<1>2. refused = "none" /\ ~initialized
  BY <1>1, NotRefused DEF IInv, HostInv
<1>3. CASE Abort("labels") /\ UNCHANGED <<assetVars, initialized, labels>>
  <2>1. StreamInv' /\ PickInv'
    BY <1>1, <1>3, StreamUnchanged, PickUnchanged DEF IInv
  <2>2. "labels" \in Requests /\ ~initialized'
    BY <1>2, <1>3 DEF Requests
  <2>3. /\ SpokenIsBest' /\ DeathIsExplained'
        /\ call' = "aborted" /\ refused' \in Requests \cup {"none"}
    BY <1>3, <2>2, AbortIsOfRefusal
  <2>4. HostTypeOK' /\ HostInv'
    BY <1>1, <1>3, <2>3, HostTypeStays DEF IInv, HostInv
  <2> QED
    BY <2>1, <2>3, <2>4 DEF IInv
<1>4. CASE /\ labels' \in LabelFiles /\ initialized' = TRUE /\ call' = "idle"
           /\ reading' = "no" /\ StreamGone /\ UNCHANGED refused
  <2>1. StreamInv' /\ PickInv'
    BY <1>1, <1>4, StreamGoneInv, PickUnchanged DEF IInv
  <2>2. HostTypeOK'
    BY <1>1, <1>4 DEF IInv, HostTypeOK
  <2>3. HostInv'
    BY <1>4 DEF HostInv
  <2>4. SpokenIsBest' /\ DeathIsExplained'
    BY <1>2, <1>4, NothingSaid
  <2> QED
    BY <2>1, <2>2, <2>3, <2>4 DEF IInv
<1> QED
  BY <1>3, <1>4 DEF ReadLabels

LEMMA BitmapRefusedStep == ASSUME IInv, BitmapRefused PROVE IInv'
<1>1. /\ Abort("bitmap") /\ UNCHANGED <<assetVars, topVars>>
      /\ UNCHANGED <<initialized, num_runs, labels, output, spoken>>
  BY DEF BitmapRefused
<1>2. StreamInv' /\ PickInv'
  BY <1>1, StreamUnchanged, PickUnchanged DEF IInv
<1>3. "bitmap" \in Requests
  BY DEF Requests
<1>4. /\ SpokenIsBest' /\ DeathIsExplained'
      /\ call' = "aborted" /\ refused' \in Requests \cup {"none"}
  BY <1>1, <1>3, AbortIsOfRefusal
<1>5. HostTypeOK' /\ HostInv'
  BY <1>1, <1>4, HostTypeStays DEF IInv, HostInv
<1> QED
  BY <1>2, <1>4, <1>5 DEF IInv

LEMMA ClassifyImageStep == ASSUME IInv, ClassifyImage PROVE IInv'
<1>1. /\ num_runs < MaxRuns /\ num_runs' = num_runs + 1
      /\ UNCHANGED assetVars
      /\ UNCHANGED <<initialized, labels, output, spoken>>
      /\ \/ /\ prediction' \in Predictions
            /\ picking' = "loop" /\ i' = 0 /\ queue' = {} /\ top_results' = <<>>
            /\ call' = "pick" /\ UNCHANGED refused
         \/ Abort("run") /\ UNCHANGED topVars
      /\ call = "idle"
  BY DEF ClassifyImage, MayClassify
<1>2. StreamInv'
  BY <1>1, StreamUnchanged DEF IInv
<1>3. PickInv'
  <2>1. CASE UNCHANGED topVars
    BY <2>1, PickUnchanged DEF IInv
  <2>2. CASE /\ prediction' \in Predictions /\ picking' = "loop"
             /\ i' = 0 /\ queue' = {} /\ top_results' = <<>>
    <3>1. prediction' \in [Indices -> Confidences \cup {NaN, 0}]
      BY <2>2 DEF Predictions
    <3> QED
      BY <2>2, <3>1, PickBegins
  <2> QED
    BY <1>1, <2>1, <2>2
<1>6. /\ SpokenIsBest' /\ DeathIsExplained'
      /\ call' \in {"pick", "aborted"} /\ refused' \in Requests \cup {"none"}
  <2>1. refused = "none" /\ "run" \in Requests
    BY <1>1, NotRefused DEF Requests
  <2>2. CASE call' = "pick" /\ UNCHANGED refused
    BY <2>1, <2>2, NothingSaid
  <2>3. CASE Abort("run")
    BY <2>1, <2>3, AbortIsOfRefusal
  <2> QED
    BY <1>1, <2>2, <2>3
<1>4. HostTypeOK'
  <2>1. num_runs' \in 0..MaxRuns
    BY <1>1, RunsAssumption DEF IInv, HostTypeOK
  <2> QED
    BY <1>1, <1>6, <2>1 DEF IInv, HostTypeOK
<1>5. HostInv'
  <2>1. reading' = reading
    BY <1>1 DEF assetVars
  <2> QED
    BY <1>1, <1>6, <2>1 DEF IInv, HostInv
<1> QED
  BY <1>2, <1>3, <1>4, <1>5, <1>6 DEF IInv

LEMMA PickStep == ASSUME IInv, Pick PROVE IInv'
<1>1. /\ call = "pick" /\ TopNext /\ UNCHANGED assetVars
      /\ UNCHANGED <<call, initialized, num_runs, labels, output, spoken, refused>>
  BY DEF Pick, hostVars
<1>2. StreamInv' /\ PickInv'
  BY <1>1, StreamUnchanged, TopStep DEF IInv
<1>3. HostTypeOK' /\ HostInv'
  BY <1>1, HostTypeStays DEF IInv, HostInv, HostTypeOK, assetVars
<1>4. SpokenIsBest' /\ DeathIsExplained'
  BY <1>1, NothingSaid, NotRefused
<1> QED
  BY <1>2, <1>3, <1>4 DEF IInv

LEMMA WriteLinesStep == ASSUME IInv, WriteLines PROVE IInv'
<1>1. /\ call = "pick" /\ picking = "done" /\ output' = Lines
      /\ (call' = "parse" /\ UNCHANGED refused) \/ Abort("unlock")
      /\ UNCHANGED <<assetVars, topVars>>
      /\ UNCHANGED <<initialized, num_runs, labels, spoken>>
  BY DEF WriteLines, Lines
<1>2. StreamInv' /\ PickInv'
  BY <1>1, StreamUnchanged, PickUnchanged DEF IInv
<1>3. /\ SpokenIsBest' /\ DeathIsExplained'
      /\ call' \in {"parse", "aborted"} /\ refused' \in Requests \cup {"none"}
  <2>1. refused = "none" /\ "unlock" \in Requests
    BY <1>1, NotRefused DEF Requests
  <2>2. CASE call' = "parse" /\ UNCHANGED refused
    BY <2>1, <2>2, NothingSaid
  <2>3. CASE Abort("unlock")
    BY <2>1, <2>3, AbortIsOfRefusal
  <2> QED
    BY <1>1, <2>2, <2>3
<1>4. HostTypeOK'
  BY <1>1, <1>3, HostTypeStays DEF IInv
<1>5. HostInv'
  <2>1. reading' = reading
    BY <1>1 DEF assetVars
  <2> QED
    BY <1>1, <1>3, <2>1 DEF IInv, HostInv, Lines, TextOf, topVars
<1> QED
  BY <1>2, <1>3, <1>4, <1>5 DEF IInv

(* A line that cannot be read is of an entry that is not a finite number.  *)
LEMMA ParseThrowsStep == ASSUME IInv, ParseThrows PROVE IInv'
<1>1. /\ call = "parse" /\ Unreadable /\ call' = "threw"
      /\ UNCHANGED <<assetVars, topVars>>
      /\ UNCHANGED <<initialized, num_runs, labels, output, spoken, refused>>
  BY DEF ParseThrows
<1>2. StreamInv' /\ PickInv'
  BY <1>1, StreamUnchanged, PickUnchanged DEF IInv
<1>3. picking = "done" /\ output = Lines
  BY <1>1 DEF IInv, HostInv
<1>4. HostTypeOK' /\ HostInv'
  <2>1. refused' \in Requests \cup {"none"}
    BY <1>1 DEF IInv, HostTypeOK
  <2> QED
    BY <1>1, <1>3, <2>1, HostTypeStays DEF IInv, HostInv, Lines, TextOf, topVars
<1>5. \E c \in Indices : prediction[c] \in {NaN, Infinity}
  <2>1. PICK k \in DOMAIN output : output[k].confidence \in {NaN, Infinity}
    BY <1>1 DEF Unreadable
  <2>2. k \in DOMAIN top_results /\ top_results[k][1] \in {NaN, Infinity}
    BY <1>3, <2>1, LinesOfResults
  <2>3. top_results[k][2] \in Indices /\ top_results[k] = Entry(top_results[k][2])
    BY <1>3, <2>2, ResultsAreEntries DEF IInv
  <2> QED
    BY <2>2, <2>3 DEF Entry
<1>6. SpokenIsBest' /\ DeathIsExplained'
  <2>1. UNCHANGED prediction /\ refused' = "none"
    BY <1>1, NotRefused DEF topVars
  <2> QED
    BY <1>1, <1>5, <2>1 DEF SpokenIsBest, DeathIsExplained
<1> QED
  BY <1>2, <1>4, <1>6 DEF IInv

(* An infinity is a candidate, and only infinities beat it: one is among   *)
(* the results.                                                            *)
LEMMA InfinityIsRead ==
  ASSUME PickInv, picking = "done", output = Lines, ~Unreadable, AllNumbers
  PROVE  \A c \in Indices : prediction[c] # Infinity
<1> SUFFICES ASSUME NEW c \in Indices, prediction[c] = Infinity PROVE FALSE
  OBVIOUS
<1>1. /\ Classes \in Nat /\ Infinity \in Nat /\ Threshold \in Nat /\ Threshold < Infinity
      /\ NumResults \in Nat \ {0} /\ \A v \in Confidences : v <= Infinity
  BY TopNAssumption
<1>2. Kept = Results /\ KeepsTheBest /\ TopTypeOK
  BY ResultsAreEntries DEF PickInv, TopNInOrder
<1>3. \A p \in Kept : p[1] # Infinity
  <2> SUFFICES ASSUME NEW k \in DOMAIN top_results PROVE top_results[k][1] # Infinity
    BY <1>2 DEF Results
  <2> QED
    BY LinesOfResults DEF Unreadable
<1>4. Entry(c) \in Candidates
  <2>1. i = Classes
    BY DEF PickInv, LoopInv
  <2>2. c \in Seen /\ prediction[c] >= Threshold
    BY <1>1, <2>1 DEF Seen, Indices
  <2> QED
    BY <2>2 DEF Candidates, Entry
<1>5. Entry(c) \notin Kept
  BY <1>3 DEF Entry
<1>6. Cardinality(Kept) = NumResults /\ \A p \in Kept : Beats(p, Entry(c))
  BY <1>2, <1>4, <1>5 DEF KeepsTheBest
<1>7. PICK p \in Kept : TRUE
  <2>1. Kept # {}
    BY <1>1, <1>6, FS_EmptySet
  <2> QED
    BY <2>1
<1>8. p[1] \in Nat /\ p[1] <= Infinity
  <2>1. PICK d \in Indices : p = Entry(d)
    BY <1>2, <1>7, ResultsAreEntries DEF Results
  <2>2. p[1] = prediction[d] /\ prediction[d] \in Nat
    BY <1>2, <2>1, NumbersAreNatural DEF Entry
  <2>3. prediction[d] \in Confidences \cup {NaN, 0} /\ prediction[d] # NaN
    BY <1>2 DEF TopTypeOK, AllNumbers
  <2> QED
    BY <1>1, <2>2, <2>3
<1>9. p[1] >= Infinity
  <2>1. Beats(p, Entry(c)) /\ Entry(c)[1] = Infinity
    BY <1>6, <1>7 DEF Entry
  <2> QED
    BY <1>1, <1>8, <2>1 DEF Beats
<1> QED
  BY <1>1, <1>3, <1>7, <1>8, <1>9

LEMMA SetResultsStep == ASSUME IInv, SetResults PROVE IInv'
<1>1. /\ call = "parse" /\ call' = "shown" /\ UNCHANGED <<assetVars, topVars>>
      /\ UNCHANGED <<initialized, num_runs, labels, output, refused>> /\ ~Unreadable
      /\ \/ Recognitions = {} /\ spoken' = Nothing
         \/ \E k \in Recognitions :
              /\ \A l \in Recognitions : k <= l
              /\ spoken' = [index |-> output[k].index, text |-> output[k].text]
  BY DEF SetResults
<1>2. StreamInv' /\ PickInv'
  BY <1>1, StreamUnchanged, PickUnchanged DEF IInv
<1>3. picking = "done" /\ output = Lines /\ PickInv /\ HostTypeOK
  BY <1>1 DEF IInv, HostInv
<1>4. \A k \in Recognitions : k \in DOMAIN top_results /\ output[k].index \in Indices
  BY <1>3, LinesOfResults, ResultsAreEntries DEF Recognitions
<1>5. HostTypeOK'
  <2>1. spoken'.index \in Indices \cup {-1}
    BY <1>1, <1>4 DEF Nothing
  <2> QED
    BY <1>1, <1>3, <2>1 DEF HostTypeOK
<1>6. HostInv'
  <2>1. reading' = reading
    BY <1>1 DEF assetVars
  <2> QED
    BY <1>1, <1>3, <2>1 DEF IInv, HostInv, Lines, TextOf, topVars
<1>7. DeathIsExplained'
  <2>1. UNCHANGED prediction /\ refused' = "none"
    BY <1>1, NotRefused DEF topVars
  <2>2. AllNumbers => \A c \in Indices : prediction[c] # Infinity
    BY <1>1, <1>3, InfinityIsRead
  <2> QED
    BY <1>1, <2>1, <2>2 DEF DeathIsExplained, AllNumbers
<1>8. SpokenIsBest'
  <2>1. UNCHANGED prediction
    BY <1>1 DEF topVars
  <2> SUFFICES
        ASSUME AllNumbers
        PROVE  IF spoken' = Nothing
                 THEN \A c \in Audible :
                        Cardinality({d \in Indices :
                                       /\ d < Len(labels) /\ labels[d + 1] = "blank"
                                       /\ Beats(Entry(d), Entry(c))}) >= NumResults
                 ELSE /\ spoken'.index \in Audible
                      /\ spoken'.index < Len(labels) <=> spoken'.text = "text"
                      /\ \A c \in Audible \ {spoken'.index} :
                           Beats(Entry(spoken'.index), Entry(c))
    BY <1>1, <2>1 DEF SpokenIsBest, Audible, Entry, AllNumbers
  <2>2. CASE Recognitions = {} /\ spoken' = Nothing
    <3>1. \A k \in DOMAIN top_results : Silent(top_results[k][2])
      <4> SUFFICES ASSUME NEW k \in DOMAIN top_results PROVE Silent(top_results[k][2])
        OBVIOUS
      <4>1. output[k].text = "blank"
        BY <1>3, <2>2, LinesOfResults DEF Recognitions, HasTitle
      <4> QED
        BY <1>3, <4>1, LinesOfResults, ResultsAreEntries, LabelTexts
    <3>2. ASSUME NEW c \in Audible PROVE Entry(c) \notin Kept
      <4> SUFFICES ASSUME Entry(c) \in Kept PROVE FALSE
        OBVIOUS
      <4>1. PICK k \in DOMAIN top_results : Entry(c) = top_results[k]
        BY <1>3, ResultsAreEntries DEF Results
      <4>2. top_results[k][2] = c
        BY <4>1 DEF Entry
      <4> QED
        BY <3>1, <3>2, <4>2 DEF Audible, Silent
    <3>3. \A c \in Audible : c \in Indices /\ prediction[c] >= Threshold
      BY DEF Audible
    <3> QED
      BY <1>3, <2>2, <3>1, <3>2, <3>3, SilentClasses
  <2>3. ASSUME NEW k \in Recognitions, \A l \in Recognitions : k <= l,
               spoken' = [index |-> output[k].index, text |-> output[k].text]
        PROVE  /\ spoken' # Nothing /\ spoken'.index \in Audible
               /\ spoken'.index < Len(labels) <=> spoken'.text = "text"
               /\ \A c \in Audible \ {spoken'.index} : Beats(Entry(spoken'.index), Entry(c))
    <3>1. spoken'.index = output[k].index /\ spoken'.text = output[k].text
      BY <2>3
    <3>2. spoken' # Nothing
      <4>1. output[k].index \in Nat
        BY <1>4, <2>3, TopNAssumption DEF Indices
      <4>2. Nothing.index = -1 /\ -1 \notin Nat
        BY DEF Nothing
      <4> QED
        BY <3>1, <4>1, <4>2
    <3> QED
      BY <1>3, <2>3, <3>1, <3>2, FirstTitleIsBest
  <2> QED
    BY <1>1, <2>2, <2>3
<1> QED
  BY <1>2, <1>5, <1>6, <1>7, <1>8 DEF IInv

LEMMA ReturnStep == ASSUME IInv, Return PROVE IInv'
<1>1. /\ call = "shown" /\ call' = "idle" /\ TopGone /\ spoken' = Nothing
      /\ UNCHANGED assetVars /\ UNCHANGED <<initialized, num_runs, labels, refused>>
  BY DEF Return
<1>2. StreamInv'
  BY <1>1, StreamUnchanged DEF IInv
<1>3. PickInv'
  <2>1. NoPrediction \in [Indices -> Confidences \cup {NaN, 0}]
    BY DEF NoPrediction
  <2> QED
    BY <1>1, <2>1, PickBegins DEF TopGone
<1>4. HostTypeOK'
  BY <1>1 DEF IInv, HostTypeOK, Nothing
<1>5. HostInv'
  BY <1>1 DEF IInv, HostInv, assetVars
<1>6. SpokenIsBest' /\ DeathIsExplained'
  BY <1>1, NothingSaid, NotRefused
<1> QED
  BY <1>2, <1>3, <1>4, <1>5, <1>6 DEF IInv

LEMMA NoLabels == <<>> \in LabelFiles
<1>1. <<>> \in [1..0 -> Texts] /\ 0 \in 0..Classes
  BY TopNAssumption
<1> QED
  BY <1>1 DEF LabelFiles

LEMMA RestartStep == ASSUME IInv, Restart PROVE IInv'
<1>1. /\ reading' = "no" /\ StreamGone /\ TopGone
      /\ call' = "idle" /\ initialized' = FALSE /\ num_runs' = 0
      /\ labels' = <<>> /\ spoken' = Nothing /\ refused' = "none"
  BY DEF Restart, AssetRestart
<1>2. StreamInv'
  BY <1>1, StreamGoneInv
<1>3. PickInv'
  <2>1. NoPrediction \in [Indices -> Confidences \cup {NaN, 0}]
    BY DEF NoPrediction
  <2> QED
    BY <1>1, <2>1, PickBegins DEF TopGone
<1>4. HostTypeOK'
  <2>1. 0 \in 0..MaxRuns
    BY RunsAssumption
  <2> QED
    BY <1>1, <2>1, NoLabels DEF HostTypeOK, Nothing
<1>5. HostInv'
  BY <1>1 DEF HostInv
<1>6. SpokenIsBest' /\ DeathIsExplained'
  BY <1>1, NothingSaid
<1> QED
  BY <1>2, <1>3, <1>4, <1>5, <1>6 DEF IInv

-----------------------------------------------------------------------------
(* The theorems.                                                           *)

LEMMA InitIInv == Init => IInv
<1> SUFFICES ASSUME Init PROVE IInv
  OBVIOUS
<1>1. reading = "no" /\ NoStream
  BY DEF Init, AssetInit
<1>2. StreamInv
  <2>1. failed \in BOOLEAN /\ buffer \in Seq(Nat) /\ parsed \in Seq(Nat)
    BY <1>1, EmptySeq, Zenon DEF NoStream
  <2>2. 0 \in Nat /\ 0 \in 0..MaxFaults
    BY StreamAssumption
  <2>3. reading \in Readings
    BY <1>1 DEF Readings
  <2>4. AssetTypeOK
    BY <1>1, <2>1, <2>2, <2>3, Zenon DEF NoStream, AssetTypeOK
  <2>5. ClosedInv /\ OpenInv /\ UnreadInv /\ ConstructedInv /\ ParsingInv /\ EndedInv
    BY <1>1 DEF ClosedInv, OpenInv, UnreadInv, ConstructedInv, ParsingInv, EndedInv
  <2> QED
    BY <2>4, <2>5 DEF StreamInv
<1>3. PickInv
  <2>0. /\ picking = "no" /\ prediction = NoPrediction
        /\ i = 0 /\ queue = {} /\ top_results = <<>>
    BY DEF Init, TopInit
  <2>1. Classes \in Nat /\ NumResults \in Nat
    BY TopNAssumption
  <2>2. TopTypeOK
    BY <2>0, <2>1, EmptySeq DEF TopTypeOK, NoPrediction
  <2>3. Seen = {} /\ Results = {} /\ Kept = {} /\ Candidates = {} /\ DOMAIN top_results = {}
    BY <2>0 DEF Seen, Results, Kept, Candidates
  <2>4. LoopInv
    BY <2>0, <2>3, FS_EmptySet DEF LoopInv
  <2>5. TopNInOrder
    BY <2>0, <2>1, <2>3, FS_EmptySet DEF TopNInOrder, KeepsTheBest, Descending
  <2> QED
    BY <2>2, <2>4, <2>5 DEF PickInv
<1>4. /\ call = "idle" /\ initialized = FALSE /\ num_runs = 0
      /\ labels = <<>> /\ spoken = Nothing /\ refused = "none"
  BY DEF Init, HostInit
<1>5. HostTypeOK
  <2>1. 0 \in 0..MaxRuns
    BY RunsAssumption
  <2> QED
    BY <1>4, <2>1, NoLabels DEF HostTypeOK, Nothing
<1>6. HostInv /\ SpokenIsBest /\ DeathIsExplained
  BY <1>1, <1>4 DEF HostInv, SpokenIsBest, DeathIsExplained
<1> QED
  BY <1>2, <1>3, <1>5, <1>6 DEF IInv

LEMMA NextIInv == IInv /\ [Next]_vars => IInv'
<1> SUFFICES ASSUME IInv, [Next]_vars PROVE IInv'
  OBVIOUS
<1>1. CASE UNCHANGED vars
  <2>1. UNCHANGED <<assetVars, topVars>> /\ UNCHANGED hostVars
    BY <1>1 DEF vars
  <2>2. UNCHANGED <<call, initialized, num_runs, labels, output, spoken, refused>>
        /\ UNCHANGED <<reading, failed>> /\ UNCHANGED <<picking, prediction, top_results>>
    BY <2>1 DEF hostVars, assetVars, streamVars, topVars
  <2>3. StreamInv' /\ PickInv'
    BY <2>1, StreamUnchanged, PickUnchanged DEF IInv
  <2>4. HostTypeOK'
    BY <2>2 DEF IInv, HostTypeOK
  <2>5. HostInv'
    BY <2>2 DEF IInv, HostInv, Lines, TextOf
  <2>6. DeathIsExplained'
    BY <2>2 DEF IInv, DeathIsExplained, AllNumbers
  <2>7. SpokenIsBest'
    BY <2>2 DEF IInv, SpokenIsBest, Audible, Entry, AllNumbers
  <2> QED
    BY <2>3, <2>4, <2>5, <2>6, <2>7 DEF IInv
<1>2. CASE Next
  BY <1>2, InitializeStep, LoadStep, LoadAbortsStep, CreateSessionStep, ReadLabelsStep,
     BitmapRefusedStep, ClassifyImageStep, PickStep, WriteLinesStep, ParseThrowsStep, SetResultsStep,
     ReturnStep, RestartStep DEF Next, Initialize, Recognize
<1> QED
  BY <1>1, <1>2

LEMMA IInvHolds == Spec => []IInv
BY InitIInv, NextIInv, PTL DEF Spec

(* Type correctness of the native globals, the streams and GetTopN: no     *)
(* count of the streams goes below zero.                                   *)
THEOREM TypeCorrect == Spec => []TypeOK
<1>1. IInv => TypeOK
  BY DEF IInv, StreamInv, PickInv, HostTypeOK, TypeOK
<1> QED
  BY <1>1, IInvHolds, PTL

(* ReadFileToProto: the parser gets the bytes of the asset, in order, none *)
(* beyond, and all of them unless a read failed, for every place of the    *)
(* asset, every block size and both ways to skip to it.                    *)
THEOREM ParsesTheAsset == Spec => []ParsedIsAsset
<1>1. IInv => ParsedIsAsset
  BY StreamImplies DEF IInv
<1> QED
  BY <1>1, IInvHolds, PTL

(* GetTopN: the N best candidates over the threshold, in descending order, *)
(* for every prediction of numbers.                                        *)
THEOREM PicksTheTopN == Spec => []TopNInOrder
<1>1. IInv => TopNInOrder
  BY DEF IInv, PickInv
<1> QED
  BY <1>1, IInvHolds, PTL

(* What RecognitionScoreView speaks is the best audible class under its    *)
(* own label; silence means there is none, or N better blank ones.         *)
THEOREM SpeaksTheBest == Spec => []SpokenIsBest
<1>1. IInv => SpokenIsBest
  BY DEF IInv
<1> QED
  BY <1>1, IInvHolds, PTL

(* The parser throws only because of a NaN or an infinity, and on every    *)
(* infinity; the process aborts only because a request was refused or a    *)
(* read of the graph failed: an asset that can be read fails no CHECK.     *)
THEOREM DiesOfNothingElse == Spec => []DeathIsExplained
<1>1. IInv => DeathIsExplained
  BY DEF IInv
<1> QED
  BY <1>1, IInvHolds, PTL

=============================================================================
