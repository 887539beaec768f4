--------------------------- MODULE TransferProofs ---------------------------
(***************************************************************************)
(* Theorems about the transfer of a file in ranges, about removing and     *)
(* replacing downloads in bulk, and about refreshing releases.             *)
(***************************************************************************)
EXTENDS HttpTransfer, BulkReplace, ReleaseRefresh, PriorityQueueTheorems

-----------------------------------------------------------------------------
(***************************************************************************)
(* The transfer (HttpTransfer): a file that was handed over holds every    *)
(* block of the stream, for any length, number of connections, number of   *)
(* tries and smallest range, and whatever stops.                           *)
(*                                                                         *)
(* The invariant says what every worker owes. While a level of ranges is   *)
(* under way each block is in the file or some range that has not given up *)
(* still covers it (BlocksOwed); a range is cancelled only because the     *)
(* caller stopped or another range failed for good, which ends the level   *)
(* in an error (CancelledForCause); a single stream has written a prefix   *)
(* (StreamPrefix). A file is closed with success only when the ranges of   *)
(* its level, or its stream, have all ended well, and then nothing is      *)
(* owed.                                                                   *)
(***************************************************************************)

(* Arithmetic of the ranges.                                               *)

LEMMA TransferNumbers ==
  /\ Total \in Nat \ {0} /\ MinPart \in Nat \ {0} /\ Connections \in Nat \ {0}
  /\ Tries \in Nat \ {0} /\ RangeRetries \in Nat
BY TransferAssumption

LEMMA LeastOfTwo ==
  ASSUME NEW a \in Nat, NEW b \in Nat
  PROVE  Min({a, b}) \in {a, b} /\ Min({a, b}) <= a /\ Min({a, b}) <= b
<1> DEFINE T == {a, b}
<1>1. T \subseteq Nat /\ T # {} /\ a \in T /\ b \in T
  OBVIOUS
<1> HIDE DEF T
<1>2. Min(T) \in T /\ \A k \in T : Min(T) <= k
  BY <1>1, MinIsLeast
<1> QED  BY <1>1, <1>2 DEF T

(* PartSize(n) is at least one, and n parts hold the whole file.           *)
LEMMA PartsHoldAll ==
  ASSUME NEW n \in Nat \ {0}
  PROVE  PartSize(n) \in Nat \ {0} /\ n * PartSize(n) >= Total
<1>1. \A t \in Nat \ {0} : (t + n - 1) \div n \in Nat \ {0} /\ n * ((t + n - 1) \div n) >= t
  OBVIOUS
<1> QED  BY <1>1, TransferNumbers DEF PartSize

(* Every block lies in the range of one of the n workers that start.       *)
LEMMA PartOfBlock ==
  ASSUME NEW n \in Nat \ {0}, NEW b \in Blocks
  PROVE  \E w \in 1 .. n : (w - 1) * PartSize(n) <= b /\ b < w * PartSize(n)
<1> DEFINE p == PartSize(n)
           T == {k \in Nat : b < k * p}
<1>1. p \in Nat \ {0} /\ n * p >= Total /\ b \in Nat /\ b < Total /\ Total \in Nat
  BY PartsHoldAll, TransferNumbers DEF Blocks
<1> HIDE DEF p
<1>2. n \in T
  <2>1. n * p \in Nat
    BY <1>1
  <2>2. b < n * p
    BY <1>1, <2>1
  <2> QED  BY <2>2
<1>3. PICK w \in T : \A k \in T : w <= k
  BY <1>2, LeastNatural
<1>4. w \in Nat /\ b < w * p /\ w <= n /\ w # 0
  BY <1>1, <1>2, <1>3
<1>5. w - 1 \in Nat /\ w - 1 \notin T
  BY <1>3, <1>4
<1>6. (w - 1) * p <= b
  BY <1>1, <1>5
<1> QED  BY <1>4, <1>6 DEF p

RangeStates == {"none", "open", "copy", "done", "failed", "cancelled"}
Fetchers == [offset : 0 .. Total, end : 0 .. Total - 1, tries : 0 .. Tries, state : RangeStates]

(* The ranges a level begins with are well formed, none has failed yet,    *)
(* and they hold every block.                                              *)
LEMMA RangesHoldAll ==
  ASSUME NEW n \in 1 .. Connections
  PROVE  /\ Ranges(n) \in [Workers -> Fetchers]
         /\ \A w \in Workers : Ranges(n)[w].state \in {"none", "open"}
         /\ \A b \in Blocks : \E w \in Workers :
              /\ Ranges(n)[w].state = "open"
              /\ Ranges(n)[w].offset <= b /\ b <= Ranges(n)[w].end
<1> DEFINE p == PartSize(n)
           from(w) == (w - 1) * p
           to(w) == Min({Total - 1, from(w) + p - 1})
           open(w) == [offset |-> from(w), end |-> to(w), tries |-> 1, state |-> "open"]
<1>1. /\ n \in Nat \ {0} /\ p \in Nat \ {0} /\ Total \in Nat \ {0} /\ Tries \in Nat \ {0}
      /\ Connections \in Nat
  BY PartsHoldAll, TransferNumbers
<1>2. ASSUME NEW w \in Workers
      PROVE  /\ from(w) \in Nat /\ to(w) \in 0 .. Total - 1
             /\ to(w) \in {Total - 1, from(w) + p - 1}
             /\ Ranges(n)[w] = IF w > n \/ from(w) > to(w) THEN Idle ELSE open(w)
  <2>1. w \in Nat \ {0}
    BY <1>1 DEF Workers
  <2>2. from(w) \in Nat
    <3>1. w - 1 \in Nat
      BY <2>1
    <3> HIDE DEF p
    <3> QED  BY <1>1, <3>1
  <2>3. from(w) + p - 1 \in Nat /\ Total - 1 \in Nat
    <3> HIDE DEF from, p
    <3> QED  BY <1>1, <2>2 DEF from
  <2>4. to(w) \in {Total - 1, from(w) + p - 1} /\ to(w) <= Total - 1 /\ to(w) \in Nat
    <3> HIDE DEF from, p
    <3> QED  BY <2>3, LeastOfTwo
  <2>5. Ranges(n)[w] = IF w > n \/ from(w) > to(w) THEN Idle ELSE open(w)
    BY DEF Ranges
  <2> HIDE DEF from, to, p
  <2> QED  BY <1>1, <2>2, <2>4, <2>5
<1> HIDE DEF p
<1>3. ASSUME NEW w \in Workers
      PROVE  Ranges(n)[w] \in Fetchers /\ Ranges(n)[w].state \in {"none", "open"}
  <2>1. Idle \in Fetchers /\ Idle.state = "none"
    BY <1>1 DEF Idle, Fetchers, RangeStates
  <2>2. CASE w > n \/ from(w) > to(w)
    BY <1>2, <2>1, <2>2
  <2>3. CASE ~(w > n \/ from(w) > to(w))
    <3>1. Ranges(n)[w] = open(w)
      BY <1>2, <2>3
    <3>2. from(w) \in 0 .. Total /\ to(w) \in 0 .. Total - 1 /\ 1 \in 0 .. Tries
      <4> HIDE DEF from, to
      <4>1. from(w) \in Nat /\ to(w) \in 0 .. Total - 1
        BY <1>2
      <4> QED  BY <1>1, <2>3, <4>1
    <3>3. open(w) \in Fetchers /\ open(w).state = "open"
      <4> HIDE DEF from, to
      <4> QED  BY <3>2 DEF Fetchers, RangeStates
    <3> QED  BY <3>1, <3>3
  <2> QED  BY <2>2, <2>3
<1>4. ASSUME NEW b \in Blocks
      PROVE  \E w \in Workers : /\ Ranges(n)[w].state = "open"
                                /\ Ranges(n)[w].offset <= b /\ b <= Ranges(n)[w].end
  <2>1. PICK w \in 1 .. n : (w - 1) * PartSize(n) <= b /\ b < w * PartSize(n)
    BY <1>1, PartOfBlock
  <2>2. w \in Workers /\ w \in Nat \ {0} /\ ~(w > n)
    BY <1>1, <2>1 DEF Workers
  <2>3. from(w) <= b /\ b < from(w) + p /\ b <= Total - 1 /\ b \in Nat
    BY <1>1, <2>1, <2>2 DEF p, Blocks
  <2>4. b <= to(w) /\ ~(from(w) > to(w))
    <3>1. from(w) \in Nat /\ to(w) \in 0 .. Total - 1 /\ to(w) \in {Total - 1, from(w) + p - 1}
      BY <1>2, <2>2
    <3> HIDE DEF from, to
    <3> QED  BY <1>1, <2>3, <3>1
  <2>5. Ranges(n)[w] = open(w)
    BY <1>2, <2>2, <2>4
  <2> HIDE DEF from, to
  <2> QED  BY <2>2, <2>3, <2>4, <2>5
<1>5. Ranges(n) = [w \in Workers |-> Ranges(n)[w]]
  BY DEF Ranges
<1> QED  BY <1>3, <1>4, <1>5

-----------------------------------------------------------------------------
(* The type invariant.                                                     *)

Contents == {"missing", "reserved", "data"}

LEMMA LevelBounds ==
  ASSUME NEW n \in 2 .. Connections
  PROVE  NextLevel(n) = 1 \/ NextLevel(n) \in 2 .. Connections
<1>1. n \in Nat /\ Connections \in Nat
  BY TransferNumbers
<1>2. CASE n > 2
  <2> DEFINE h == n \div 2
             T == {2, h}
  <2>1. h \in Nat /\ h <= n
    BY <1>1
  <2> HIDE DEF h
  <2>2. Max(T) \in T
    <3>1. 2 <= h \/ h <= 2
      BY <2>1
    <3>2. \E x \in T : \A y \in T : x >= y
      BY <2>1, <3>1
    <3> QED  BY <3>2 DEF Max
  <2>3. NextLevel(n) = Max(T)
    BY <1>2 DEF NextLevel, h
  <2>4. Max(T) = 2 \/ (Max(T) = h /\ h >= 2)
    <3>1. CASE h >= 2
      BY <2>2, <3>1
    <3>2. CASE ~(h >= 2)
      <4>1. \A x \in T : (\A y \in T : x >= y) => x = 2
        BY <2>1, <3>2
      <4>2. \E x \in T : \A y \in T : x >= y
        BY <2>1, <3>2
      <4> QED  BY <4>1, <4>2 DEF Max
    <3> QED  BY <3>1, <3>2
  <2>5. NextLevel(n) \in 2 .. n
    BY <1>1, <1>2, <2>1, <2>3, <2>4
  <2> QED  BY <1>1, <2>5
<1>3. CASE ~(n > 2)
  BY <1>3 DEF NextLevel
<1> QED  BY <1>2, <1>3

LEMMA WrittenBlocks ==
  ASSUME NEW f \in [Blocks -> Contents], NEW b \in Blocks
  PROVE  /\ Written(f, b) \in [Blocks -> Contents]
         /\ Written(f, b)[b] = "data"
         /\ \A c \in Blocks : f[c] = "data" => Written(f, b)[c] = "data"
         /\ (\A c \in Blocks : c < b => f[c] = "data") =>
              \A c \in Blocks : c # b => Written(f, b)[c] = f[c]
BY DEF Written, Contents

RangesLevel ==
  /\ phase \in {"ranges", "backoff"} => level >= 2
  /\ phase = "backoff" => repeated < RangeRetries
TransferTypes == TransferTypeOK /\ RangesLevel

LEMMA BeginRangesTypes ==
  ASSUME TransferTypes, NEW n \in 2 .. Connections, NEW r \in 0 .. RangeRetries, BeginRanges(n, r),
         UNCHANGED <<known, authenticated, aborted, err, refreshed, published>>
  PROVE  TransferTypes'
<1>1. n \in 1 .. Connections /\ n >= 2 /\ n \in 0 .. Connections
  BY TransferNumbers
<1>2. fetcher' \in [Workers -> Fetchers]
  BY <1>1, RangesHoldAll DEF BeginRanges
<1>3. file' \in [Blocks -> Contents] /\ transferred' \in Nat
  BY DEF BeginRanges, ResetTo, Reserved, Contents
<1>4. /\ phase' = "ranges" /\ level' = n /\ repeated' = r /\ attempt' = attempt
  BY DEF BeginRanges
<1> QED  BY <1>1, <1>2, <1>3, <1>4 DEF TransferTypes, TransferTypeOK, RangesLevel, Fetchers, RangeStates, Contents

LEMMA SingleTypes ==
  ASSUME TransferTypes, ToSingle,
         (file' = file /\ transferred' = transferred) \/ ResetTo(NoFile),
         UNCHANGED <<known, authenticated, aborted, err, refreshed, published>>
  PROVE  TransferTypes'
<1>1. file' \in [Blocks -> Contents] /\ transferred' \in Nat
  BY DEF TransferTypes, TransferTypeOK, ResetTo, NoFile, Contents
<1>2. 1 \in 0 .. Connections /\ 1 \in 0 .. Tries
  BY TransferNumbers
<1> QED  BY <1>1, <1>2 DEF TransferTypes, TransferTypeOK, RangesLevel, ToSingle, Contents

LEMMA LowerLevelTypes ==
  ASSUME TransferTypes, phase \in {"ranges", "backoff"}, LowerLevel,
         UNCHANGED <<known, authenticated, aborted, err, refreshed, published>>
  PROVE  TransferTypes'
<1>1. level \in 2 .. Connections
  BY TransferNumbers DEF TransferTypes, TransferTypeOK, RangesLevel
<1>2. CASE NextLevel(level) = 1
  BY <1>2, SingleTypes DEF LowerLevel, ResetSingle
<1>3. CASE NextLevel(level) # 1
  <2>1. NextLevel(level) \in 2 .. Connections /\ 0 \in 0 .. RangeRetries
    BY <1>1, <1>3, LevelBounds, TransferNumbers
  <2>2. BeginRanges(NextLevel(level), 0)
    BY <1>3 DEF LowerLevel
  <2> QED  BY <2>1, <2>2, BeginRangesTypes
<1> QED  BY <1>2, <1>3

LEMMA FetcherTypes ==
  ASSUME TransferTypes, NEW w \in Workers
  PROVE  /\ fetcher[w] \in Fetchers
         /\ \A s \in RangeStates : Becomes(w, s) => fetcher' \in [Workers -> Fetchers]
         /\ fetcher[w].tries # Tries /\ AnotherTry(w) => fetcher' \in [Workers -> Fetchers]
<1>1. fetcher \in [Workers -> Fetchers]
  BY DEF TransferTypes, TransferTypeOK, Fetchers, RangeStates
<1>2. fetcher[w] \in Fetchers
  BY <1>1
<1>3. ASSUME NEW s \in RangeStates, Becomes(w, s)  PROVE fetcher' \in [Workers -> Fetchers]
  <2>1. [fetcher[w] EXCEPT !.state = s] \in Fetchers
    BY <1>2 DEF Fetchers
  <2> QED  BY <1>1, <1>3, <2>1 DEF Becomes
<1>4. ASSUME fetcher[w].tries # Tries, AnotherTry(w)  PROVE fetcher' \in [Workers -> Fetchers]
  <2>1. fetcher[w].tries + 1 \in 0 .. Tries /\ "open" \in RangeStates
    <3>1. fetcher[w].tries \in 0 .. Tries
      BY <1>2 DEF Fetchers
    <3> QED  BY <1>4, <3>1, TransferNumbers DEF RangeStates
  <2> DEFINE up == fetcher[w].tries + 1
  <2>2. fetcher' = [fetcher EXCEPT ![w] = [fetcher[w] EXCEPT !.state = "open", !.tries = up]]
    BY <1>1, <1>4 DEF AnotherTry
  <2> HIDE DEF up
  <2>3. [fetcher[w] EXCEPT !.state = "open", !.tries = up] \in Fetchers
    BY <1>2, <2>1 DEF Fetchers, up
  <2> QED  BY <1>1, <2>2, <2>3
<1> QED  BY <1>2, <1>3, <1>4

LEMMA RangeStepTypes ==
  ASSUME TransferTypes, NEW w \in Workers, RangeStep(w)
  PROVE  TransferTypes'
<1> USE DEF RangeStates
<1>1. fetcher[w] \in Fetchers
  BY FetcherTypes
<1>2. /\ RangeUnchanged
      /\ \/ Becomes(w, "copy") \/ Becomes(w, "cancelled") \/ Becomes(w, "failed") \/ Becomes(w, "done")
         \/ fetcher[w].tries # Tries /\ AnotherTry(w)
         \/ CopyRange(w)
      /\ CopyRange(w) \/ UNCHANGED <<file, transferred>>
  BY DEF RangeStep, OpenRange, RefuseRange, CopyRange, EndRange
<1>3. fetcher' \in [Workers -> Fetchers]
  <2>1. CASE CopyRange(w)
    <3>1. fetcher[w].offset \in Nat /\ fetcher[w].offset + 1 \in 0 .. Total
      <4>1. /\ fetcher[w].offset \in 0 .. Total /\ fetcher[w].end \in 0 .. Total - 1
            /\ fetcher[w].offset <= fetcher[w].end
        BY <1>1, <2>1 DEF Fetchers, CopyRange
      <4> QED  BY <4>1, TransferNumbers
    <3> DEFINE up == fetcher[w].offset + 1
    <3>2. fetcher \in [Workers -> Fetchers]
      BY DEF TransferTypes, TransferTypeOK, Fetchers
    <3>3. fetcher' = [fetcher EXCEPT ![w] = [fetcher[w] EXCEPT !.offset = up]]
      BY <2>1, <3>2 DEF CopyRange
    <3> HIDE DEF up
    <3>4. [fetcher[w] EXCEPT !.offset = up] \in Fetchers
      BY <1>1, <3>1 DEF Fetchers, up
    <3> QED  BY <3>2, <3>3, <3>4
  <2> QED  BY <1>2, <2>1, FetcherTypes
<1>4. file' \in [Blocks -> Contents] /\ transferred' \in Nat
  <2>1. file \in [Blocks -> Contents] /\ transferred \in Nat
    BY DEF TransferTypes, TransferTypeOK, Contents
  <2>2. CASE CopyRange(w)
    <3>1. fetcher[w].offset \in Blocks
      <4>1. /\ fetcher[w].offset \in 0 .. Total /\ fetcher[w].end \in 0 .. Total - 1
            /\ fetcher[w].offset <= fetcher[w].end
        BY <1>1, <2>2 DEF Fetchers, CopyRange
      <4> QED  BY <4>1, TransferNumbers DEF Blocks
    <3> QED  BY <2>1, <2>2, <3>1, WrittenBlocks DEF CopyRange
  <2> QED  BY <1>2, <2>1, <2>2
<1> QED  BY <1>2, <1>3, <1>4 DEF RangeUnchanged, TransferTypes, TransferTypeOK, RangesLevel, Fetchers, Contents

LEMMA TransferTypesInit == TransferInit => TransferTypes
<1> SUFFICES ASSUME TransferInit  PROVE TransferTypes
  OBVIOUS
<1>1. /\ 0 \in 0 .. Connections /\ 0 \in 0 .. RangeRetries /\ 0 \in 0 .. Tries
      /\ 0 \in 0 .. Total /\ 0 \in 0 .. Total - 1
  BY TransferNumbers
<1>2. Idle \in Fetchers
  BY <1>1 DEF Idle, Fetchers, RangeStates
<1> QED  BY <1>1, <1>2 DEF TransferInit, TransferTypes, TransferTypeOK, RangesLevel, NoFile, Fetchers, RangeStates

LEMMA TransferTypesNext == TransferTypes /\ [TransferNext]_transferVars => TransferTypes'
<1> SUFFICES ASSUME TransferTypes, [TransferNext]_transferVars  PROVE TransferTypes'
  OBVIOUS
<1> DEFINE Rest == /\ fetcher' = fetcher /\ level' = level /\ repeated' = repeated
                   /\ known' = known /\ authenticated' = authenticated
<1>0. /\ file \in [Blocks -> Contents] /\ transferred \in Nat /\ NoFile \in [Blocks -> Contents]
      /\ attempt \in 0 .. Tries
  BY DEF TransferTypes, TransferTypeOK, NoFile, Contents
<1>1. CASE BeginTransfer
  <2>1. CASE Single
    BY <1>1, <2>1, SingleTypes DEF BeginTransfer, Single
  <2> QED  BY <1>1, <2>1 DEF BeginTransfer, TransferTypes, TransferTypeOK, RangesLevel
<1>2. CASE Probe
  <2>1. CASE Single \/ ResetSingle
    BY <1>2, <2>1, SingleTypes DEF Probe, Single, ResetSingle
  <2>2. CASE ~(Single \/ ResetSingle)
    <3> DEFINE n == Min({Connections, PartCount})
    <3>1. ~(n < 2) /\ BeginRanges(n, 0)
      BY <1>2, <2>2 DEF Probe
    <3>2. PartCount \in Nat /\ Connections \in Nat /\ 0 \in 0 .. RangeRetries
      BY TransferNumbers DEF PartCount
    <3>3. n \in Nat /\ n <= Connections
      BY <3>2, LeastOfTwo
    <3> HIDE DEF n
    <3>4. n \in 2 .. Connections
      BY <3>1, <3>2, <3>3
    <3> QED  BY <1>2, <3>1, <3>2, <3>4, BeginRangesTypes DEF Probe
  <2> QED  BY <2>1, <2>2
<1>3. CASE ProbeCancelled
  BY <1>3 DEF ProbeCancelled, TransferTypes, TransferTypeOK, RangesLevel
<1>4. CASE JoinRanges
  <2>1. CASE LowerLevel
    BY <1>4, <2>1, LowerLevelTypes DEF JoinRanges
  <2> QED  BY <1>4, <2>1 DEF JoinRanges, TransferTypes, TransferTypeOK, RangesLevel
<1>5. CASE RepeatRanges
  <2>1. CASE LowerLevel
    BY <1>5, <2>1, LowerLevelTypes DEF RepeatRanges
  <2>2. CASE ~LowerLevel
    <3>1. BeginRanges(level, repeated + 1)
      BY <1>5, <2>2 DEF RepeatRanges
    <3>2. level \in 2 .. Connections
      BY <1>5, TransferNumbers DEF RepeatRanges, TransferTypes, TransferTypeOK, RangesLevel
    <3>3. repeated + 1 \in 0 .. RangeRetries
      BY <1>5, TransferNumbers DEF RepeatRanges, TransferTypes, TransferTypeOK, RangesLevel
    <3> QED  BY <1>5, <3>1, <3>2, <3>3, BeginRangesTypes DEF RepeatRanges
  <2> QED  BY <2>1, <2>2
<1>6. CASE OpenStream
  BY <1>0, <1>6 DEF OpenStream, StreamUnchanged, Restarted, ResetTo, TransferTypes, TransferTypeOK, RangesLevel, Contents
<1>7. CASE RefuseStream
  BY <1>0, <1>7 DEF RefuseStream, StreamUnchanged, Restarted, ResetTo, TransferTypes, TransferTypeOK, RangesLevel, Contents
<1>8. CASE RejectStream
  BY <1>0, <1>8 DEF RejectStream, StreamUnchanged, Restarted, ResetTo, TransferTypes, TransferTypeOK, RangesLevel, Contents
<1>9. CASE CopyStream
  <2>1. transferred \in Blocks
    BY <1>0, <1>9, TransferNumbers DEF CopyStream, Blocks
  <2>2. Written(file, transferred) \in [Blocks -> Contents]
    BY <1>0, <2>1, WrittenBlocks
  <2> QED  BY <1>0, <1>9, <2>2 DEF CopyStream, StreamUnchanged, TransferTypes, TransferTypeOK, RangesLevel, Contents
<1>10. CASE EndStream
  BY <1>10 DEF EndStream, StreamUnchanged, TransferTypes, TransferTypeOK, RangesLevel
<1>11. CASE PauseStream
  <2>1. attempt' \in 0 .. Tries
    BY <1>0, <1>11, TransferNumbers DEF PauseStream
  <2>2. phase' \in {"open", "closing"} /\ err' \in {"none", "failed", "cancelled", "rejected"}
    BY <1>11 DEF PauseStream, TransferTypes, TransferTypeOK
  <2>3. UNCHANGED <<file, transferred>> /\ StreamUnchanged
    BY <1>11 DEF PauseStream
  <2> QED  BY <2>1, <2>2, <2>3 DEF StreamUnchanged, TransferTypes, TransferTypeOK, RangesLevel
<1>12. CASE RefreshURL
  BY <1>0, <1>12 DEF RefreshURL, ResetTo, TransferTypes, TransferTypeOK, RangesLevel, Contents
<1>13. CASE AbandonFile
  BY <1>0, <1>13 DEF AbandonFile, TransferTypes, TransferTypeOK, RangesLevel, Contents
<1>14. CASE PublishFile
  BY <1>0, <1>14 DEF PublishFile, TransferTypes, TransferTypeOK, RangesLevel, Contents
<1>15. CASE CancelTransfer
  BY <1>15 DEF CancelTransfer, TransferTypes, TransferTypeOK, RangesLevel
<1>16. CASE \E w \in Workers : RangeStep(w)
  BY <1>16, RangeStepTypes
<1>17. CASE UNCHANGED transferVars
  BY <1>17 DEF transferVars, TransferTypes, TransferTypeOK, RangesLevel
<1> QED  BY <1>1, <1>2, <1>3, <1>4, <1>5, <1>6, <1>7, <1>8, <1>9, <1>10, <1>11, <1>12, <1>13,
            <1>14, <1>15, <1>16, <1>17 DEF TransferNext, ControlStep

-----------------------------------------------------------------------------
(* The invariant.                                                          *)

(* The blocks that worker w has still to write.                            *)
Owes(w, b) ==
  /\ fetcher[w].state \notin {"none", "done"}
  /\ fetcher[w].offset <= b /\ b <= fetcher[w].end

(* While ranges are fetched, each block is there or some worker owes it.   *)
BlocksOwed ==
  phase = "ranges" => \A b \in Blocks : file[b] = "data" \/ \E w \in Workers : Owes(w, b)

(* A worker is only cancelled where the download was, or another worker    *)
(* has failed: so ranges that are returned as a success without a worker   *)
(* that failed, and without a cancellation, are all done.                  *)
CancelledForCause ==
  phase = "ranges" /\ (\E w \in Workers : fetcher[w].state = "cancelled") =>
    aborted \/ \E w \in Workers : fetcher[w].state = "failed"

(* What a stream has counted is what the file holds, without a gap.        *)
Prefix ==
  /\ transferred <= Total
  /\ \A b \in Blocks : file[b] = IF b < transferred THEN "data" ELSE "missing"

StreamPrefix == phase \in {"start", "probe", "open", "copy", "pause"} => Prefix

(* What a transfer without an error hands to the verification.             *)
Whole == \A b \in Blocks : file[b] = "data"
HandedOver == phase = "closing" /\ err = "none" /\ ~aborted => Whole \/ (~known /\ Prefix)

TransferInv ==
  /\ TransferTypes
  /\ BlocksOwed /\ CancelledForCause /\ StreamPrefix /\ HandedOver
  /\ PublishedIsWhole

-----------------------------------------------------------------------------

LEMMA EmptyIsPrefix ==
  ASSUME ResetTo(NoFile)
  PROVE  Prefix'
<1>1. \A b \in Blocks : b \in Nat /\ ~(b < 0)
  BY TransferNumbers DEF Blocks
<1>2. file' = NoFile /\ transferred' = 0 /\ 0 <= Total
  BY TransferNumbers DEF ResetTo
<1> QED  BY <1>1, <1>2 DEF Prefix, NoFile

LEMMA BeginRangesKeeps ==
  ASSUME TransferInv, NEW n \in 2 .. Connections, NEW r \in 0 .. RangeRetries, BeginRanges(n, r),
         UNCHANGED <<known, authenticated, aborted, err, refreshed, published>>
  PROVE  TransferInv'
<1>1. n \in 1 .. Connections
  BY TransferNumbers
<1>2. TransferTypes'
  BY BeginRangesTypes DEF TransferInv
<1>3. phase' = "ranges" /\ fetcher' = Ranges(n)
  BY DEF BeginRanges
<1>4. BlocksOwed'
  BY <1>1, <1>3, RangesHoldAll DEF BlocksOwed, Owes
<1>5. CancelledForCause'
  BY <1>1, <1>3, RangesHoldAll DEF CancelledForCause
<1>6. PublishedIsWhole'
  BY DEF TransferInv, PublishedIsWhole
<1> QED  BY <1>2, <1>3, <1>4, <1>5, <1>6 DEF TransferInv, StreamPrefix, HandedOver

LEMMA SingleKeeps ==
  ASSUME TransferInv, ToSingle,
         (Prefix /\ file' = file /\ transferred' = transferred) \/ ResetTo(NoFile),
         UNCHANGED <<known, authenticated, aborted, err, refreshed, published>>
  PROVE  TransferInv'
<1>1. Prefix'
  BY EmptyIsPrefix DEF Prefix
<1>2. TransferTypes'
  BY SingleTypes DEF TransferInv
<1>3. phase' = "open"
  BY DEF ToSingle
<1>4. PublishedIsWhole'
  BY DEF TransferInv, PublishedIsWhole
<1> QED  BY <1>1, <1>2, <1>3, <1>4 DEF TransferInv, BlocksOwed, CancelledForCause, StreamPrefix, HandedOver

LEMMA LowerLevelKeeps ==
  ASSUME TransferInv, phase \in {"ranges", "backoff"}, LowerLevel,
         UNCHANGED <<known, authenticated, aborted, err, refreshed, published>>
  PROVE  TransferInv'
<1>1. level \in 2 .. Connections
  BY TransferNumbers DEF TransferInv, TransferTypes, TransferTypeOK, RangesLevel
<1>2. CASE NextLevel(level) = 1
  BY <1>2, SingleKeeps DEF LowerLevel, ResetSingle
<1>3. CASE NextLevel(level) # 1
  <2>1. NextLevel(level) \in 2 .. Connections /\ 0 \in 0 .. RangeRetries
    BY <1>1, <1>3, LevelBounds, TransferNumbers
  <2>2. BeginRanges(NextLevel(level), 0)
    BY <1>3 DEF LowerLevel
  <2> QED  BY <2>1, <2>2, BeginRangesKeeps
<1> QED  BY <1>2, <1>3

(* One step of one worker.                                                 *)
LEMMA RangeStepKeeps ==
  ASSUME TransferInv, NEW w \in Workers, RangeStep(w)
  PROVE  TransferInv'
<1>1. /\ phase = "ranges" /\ phase' = "ranges" /\ RangeUnchanged
      /\ aborted' = aborted /\ published' = published /\ known' = known
  BY DEF RangeStep, OpenRange, RefuseRange, CopyRange, EndRange, RangeUnchanged
<1>2. TransferTypes'
  BY RangeStepTypes DEF TransferInv
<1>3. PublishedIsWhole'
  BY <1>1 DEF TransferInv, PublishedIsWhole
<1>4. fetcher \in [Workers -> Fetchers] /\ fetcher[w] \in Fetchers
  BY DEF TransferInv, TransferTypes, TransferTypeOK, Fetchers, RangeStates
<1>5. /\ DOMAIN fetcher' = Workers
      /\ \A v \in Workers : v # w => fetcher'[v] = fetcher[v]
  BY <1>4 DEF RangeStep, OpenRange, RefuseRange, CopyRange, EndRange, Becomes, AnotherTry
<1>6. BlocksOwed'
  <2>1. CASE CopyRange(w)
    <3> DEFINE o == fetcher[w].offset
    <3>1. /\ o \in 0 .. Total /\ fetcher[w].end \in 0 .. Total - 1 /\ o <= fetcher[w].end
      BY <1>4, <2>1 DEF Fetchers, CopyRange
    <3>2. o \in Blocks
      BY <3>1, TransferNumbers DEF Blocks
    <3>3. file' = Written(file, o) /\ file \in [Blocks -> Contents]
      BY <2>1 DEF CopyRange, TransferInv, TransferTypes, TransferTypeOK, Contents
    <3>4. file'[o] = "data" /\ \A c \in Blocks : file[c] = "data" => file'[c] = "data"
      BY <3>2, <3>3, WrittenBlocks
    <3>5. /\ fetcher'[w].state = fetcher[w].state /\ fetcher'[w].end = fetcher[w].end
          /\ fetcher'[w].offset = o + 1
      BY <1>4, <2>1 DEF CopyRange, Fetchers
    <3>6. ASSUME NEW b \in Blocks, b # o, NEW v \in Workers, Owes(v, b)  PROVE Owes(v, b)'
      <4>1. CASE v = w
        <5>1. b \in Nat /\ o \in Nat
          BY <3>1, TransferNumbers DEF Blocks
        <5> QED  BY <3>5, <3>6, <4>1, <5>1 DEF Owes
      <4>2. CASE v # w
        BY <1>5, <3>6, <4>2 DEF Owes
      <4> QED  BY <4>1, <4>2
    <3>7. \A b \in Blocks : file[b] = "data" \/ \E v \in Workers : Owes(v, b)
      BY <1>1 DEF TransferInv, BlocksOwed
    <3> HIDE DEF o
    <3> QED  BY <3>4, <3>6, <3>7 DEF BlocksOwed
  <2>2. CASE ~CopyRange(w)
    <3>1. file' = file
      BY <2>2 DEF RangeStep, OpenRange, RefuseRange, EndRange
    <3>2. /\ fetcher'[w].offset = fetcher[w].offset /\ fetcher'[w].end = fetcher[w].end
          /\ fetcher[w].state \in {"open", "copy"}
          /\ \/ fetcher'[w].state \in {"open", "copy", "failed", "cancelled"}
             \/ fetcher[w].offset > fetcher[w].end
      BY <1>4, <2>2 DEF RangeStep, OpenRange, RefuseRange, EndRange, Becomes, AnotherTry, Fetchers
    <3>3. fetcher[w].offset \in Nat /\ fetcher[w].end \in Nat /\ \A b \in Blocks : b \in Nat
      BY <1>4, TransferNumbers DEF Fetchers, Blocks
    <3>4. ASSUME NEW b \in Blocks, NEW v \in Workers, Owes(v, b)  PROVE Owes(v, b)'
      <4>1. CASE v = w
        BY <3>2, <3>3, <3>4, <4>1 DEF Owes
      <4>2. CASE v # w
        BY <1>5, <3>4, <4>2 DEF Owes
      <4> QED  BY <4>1, <4>2
    <3>5. \A b \in Blocks : file[b] = "data" \/ \E v \in Workers : Owes(v, b)
      BY <1>1 DEF TransferInv, BlocksOwed
    <3> QED  BY <3>1, <3>4, <3>5 DEF BlocksOwed
  <2> QED  BY <2>1, <2>2
<1>7. CancelledForCause'
  <2>1. fetcher[w].state \in {"open", "copy"}
    BY DEF RangeStep, OpenRange, RefuseRange, CopyRange, EndRange
  <2>2. \A v \in Workers : fetcher[v].state = "failed" => fetcher'[v].state = "failed"
    BY <1>5, <2>1
  <2>3. fetcher'[w].state = "cancelled" => Stopped
    BY <1>4, <2>1 DEF RangeStep, OpenRange, RefuseRange, CopyRange, EndRange, Becomes, AnotherTry, Fetchers
  <2>4. Stopped => aborted \/ \E v \in Workers : fetcher[v].state = "failed"
    BY <1>1 DEF Stopped, TransferInv, CancelledForCause
  <2>5. \A v \in Workers : fetcher'[v].state = "cancelled" => Stopped
    BY <1>5, <2>3 DEF Stopped
  <2> QED  BY <1>1, <2>2, <2>4, <2>5 DEF CancelledForCause
<1> QED  BY <1>1, <1>2, <1>3, <1>6, <1>7 DEF TransferInv, StreamPrefix, HandedOver

LEMMA TransferInvInit == TransferInit => TransferInv
<1> SUFFICES ASSUME TransferInit  PROVE TransferInv
  OBVIOUS
<1>1. \A b \in Blocks : b \in Nat /\ ~(b < 0)
  BY TransferNumbers DEF Blocks
<1>2. Prefix
  BY <1>1, TransferNumbers DEF TransferInit, Prefix, NoFile
<1>3. TransferTypes
  BY TransferTypesInit
<1>4. PublishedIsWhole
  BY DEF TransferInit, PublishedIsWhole, Nothing
<1>5. phase = "start"
  BY DEF TransferInit
<1> QED  BY <1>2, <1>3, <1>4, <1>5 DEF TransferInv, BlocksOwed, CancelledForCause, StreamPrefix, HandedOver

(* A step that leaves the published file alone and the ranges behind.      *)
LEMMA StreamKeeps ==
  ASSUME TransferInv, TransferTypes', phase' \in {"open", "copy", "pause", "start", "probe"}, Prefix',
         UNCHANGED <<known, published>>
  PROVE  TransferInv'
<1>1. PublishedIsWhole'
  BY DEF TransferInv, PublishedIsWhole
<1> QED  BY <1>1 DEF TransferInv, BlocksOwed, CancelledForCause, StreamPrefix, HandedOver

LEMMA ClosingKeeps ==
  ASSUME TransferInv, TransferTypes', phase' = "closing", UNCHANGED <<known, published>>,
         err' = "none" /\ ~aborted' => Whole' \/ (~known /\ Prefix')
  PROVE  TransferInv'
<1>1. PublishedIsWhole'
  BY DEF TransferInv, PublishedIsWhole
<1> QED  BY <1>1 DEF TransferInv, BlocksOwed, CancelledForCause, StreamPrefix, HandedOver

LEMMA TransferInvNext == TransferInv /\ [TransferNext]_transferVars => TransferInv'
<1> SUFFICES ASSUME TransferInv, [TransferNext]_transferVars  PROVE TransferInv'
  OBVIOUS
<1>0. TransferTypes /\ TransferTypes'
  BY TransferTypesNext DEF TransferInv
<1>a. /\ transferred \in Nat /\ file \in [Blocks -> Contents] /\ level \in 0 .. Connections
      /\ \A b \in Blocks : b \in Nat /\ b < Total
  BY <1>0, TransferNumbers DEF TransferTypes, TransferTypeOK, Contents, Blocks
<1>1. CASE BeginTransfer
  <2>1. Prefix /\ UNCHANGED <<file, transferred>>
    BY <1>1 DEF BeginTransfer, Single, TransferInv, StreamPrefix
  <2>2. Prefix'
    BY <2>1 DEF Prefix
  <2>3. phase' \in {"open", "probe"} /\ UNCHANGED <<known, published>>
    BY <1>1 DEF BeginTransfer, Single, ToSingle
  <2> QED  BY <1>0, <2>2, <2>3, StreamKeeps
<1>2. CASE Probe
  <2>1. Prefix
    BY <1>2 DEF Probe, TransferInv, StreamPrefix
  <2>2. CASE Single \/ ResetSingle
    BY <1>2, <2>1, <2>2, SingleKeeps DEF Probe, Single, ResetSingle
  <2>3. CASE ~(Single \/ ResetSingle)
    <3> DEFINE n == Min({Connections, PartCount})
    <3>1. ~(n < 2) /\ BeginRanges(n, 0)
      BY <1>2, <2>3 DEF Probe
    <3>2. PartCount \in Nat /\ Connections \in Nat /\ 0 \in 0 .. RangeRetries
      BY TransferNumbers DEF PartCount
    <3>3. n \in Nat /\ n <= Connections
      BY <3>2, LeastOfTwo
    <3> HIDE DEF n
    <3>4. n \in 2 .. Connections
      BY <3>1, <3>2, <3>3
    <3> QED  BY <1>2, <3>1, <3>2, <3>4, BeginRangesKeeps DEF Probe
  <2> QED  BY <2>2, <2>3
<1>3. CASE ProbeCancelled
  BY <1>0, <1>3, ClosingKeeps DEF ProbeCancelled
<1>4. CASE JoinRanges
  <2>1. CASE LowerLevel
    BY <1>4, <2>1, LowerLevelKeeps DEF JoinRanges
  <2>2. CASE phase' = "backoff"
    <3>1. PublishedIsWhole'
      BY <1>4 DEF JoinRanges, TransferInv, PublishedIsWhole
    <3> QED  BY <1>0, <2>2, <3>1 DEF TransferInv, BlocksOwed, CancelledForCause, StreamPrefix, HandedOver
  <2>3. CASE /\ phase' = "closing" /\ UNCHANGED <<file, transferred>>
             /\ \A w \in Workers : fetcher[w].state # "failed"
    <3>1. ~aborted' => Whole'
      <4> SUFFICES ASSUME ~aborted  PROVE Whole'
        BY <1>4 DEF JoinRanges
      <4>1. \A w \in Workers : fetcher[w].state # "cancelled"
        BY <1>4, <2>3 DEF JoinRanges, TransferInv, CancelledForCause
      <4>2. \A w \in Workers : fetcher[w].state \in RangeStates
        BY <1>0 DEF TransferTypes, TransferTypeOK, RangeStates
      <4>3. \A w \in Workers : fetcher[w].state \in {"none", "done"}
        BY <1>4, <2>3, <4>1, <4>2 DEF JoinRanges, Joined, RangeStates
      <4>4. \A b \in Blocks : file[b] = "data"
        BY <1>4, <4>3 DEF JoinRanges, TransferInv, BlocksOwed, Owes
      <4> QED  BY <2>3, <4>4 DEF Whole
    <3> QED  BY <1>0, <1>4, <2>3, <3>1, ClosingKeeps DEF JoinRanges
  <2> QED  BY <1>4, <2>1, <2>2, <2>3 DEF JoinRanges
<1>5. CASE RepeatRanges
  <2>1. CASE LowerLevel
    BY <1>5, <2>1, LowerLevelKeeps DEF RepeatRanges
  <2>2. CASE ~LowerLevel
    <3>1. BeginRanges(level, repeated + 1)
      BY <1>5, <2>2 DEF RepeatRanges
    <3>2. level \in 2 .. Connections /\ repeated + 1 \in 0 .. RangeRetries
      BY <1>0, <1>5, TransferNumbers DEF RepeatRanges, TransferTypes, TransferTypeOK, RangesLevel
    <3> QED  BY <1>5, <3>1, <3>2, BeginRangesKeeps DEF RepeatRanges
  <2> QED  BY <2>1, <2>2
<1>6. CASE OpenStream \/ RefuseStream
  <2>1. Prefix
    BY <1>6 DEF OpenStream, RefuseStream, TransferInv, StreamPrefix
  <2>2. (UNCHANGED <<file, transferred>>) \/ ResetTo(NoFile)
    BY <1>6 DEF OpenStream, RefuseStream, Restarted
  <2>3. Prefix'
    BY <2>1, <2>2, EmptyIsPrefix DEF Prefix
  <2>4. phase' \in {"copy", "pause"} /\ UNCHANGED <<known, published>>
    BY <1>6 DEF OpenStream, RefuseStream, StreamUnchanged
  <2> QED  BY <1>0, <2>3, <2>4, StreamKeeps
<1>7. CASE RejectStream
  BY <1>0, <1>7, ClosingKeeps DEF RejectStream, StreamUnchanged
<1>8. CASE CopyStream
  <2>1. Prefix
    BY <1>8 DEF CopyStream, TransferInv, StreamPrefix
  <2>2. transferred \in Blocks /\ transferred < Total
    BY <1>a, <1>8, TransferNumbers DEF CopyStream, Blocks
  <2>3. /\ file' = Written(file, transferred) /\ transferred' = transferred + 1
        /\ phase' = "copy" /\ UNCHANGED <<known, published>>
    BY <1>8 DEF CopyStream, StreamUnchanged
  <2>4. \A c \in Blocks : c < transferred => file[c] = "data"
    BY <2>1 DEF Prefix
  <2>5. file'[transferred] = "data" /\ \A c \in Blocks : c # transferred => file'[c] = file[c]
    BY <1>a, <2>2, <2>3, <2>4, WrittenBlocks
  <2>6. transferred' <= Total
    BY <1>a, <2>2, <2>3, TransferNumbers
  <2>7. ASSUME NEW b \in Blocks
        PROVE  file'[b] = IF b < transferred + 1 THEN "data" ELSE "missing"
    <3>1. b = transferred \/ (b # transferred /\ (b < transferred + 1 <=> b < transferred))
      BY <1>a
    <3>2. b = transferred => b < transferred + 1
      BY <1>a
    <3> QED  BY <2>1, <2>5, <3>1, <3>2 DEF Prefix
  <2>8. Prefix'
    BY <2>3, <2>6, <2>7 DEF Prefix
  <2> QED  BY <1>0, <2>3, <2>8, StreamKeeps
<1>9. CASE EndStream
  <2>1. Prefix /\ UNCHANGED <<file, transferred, known, published>>
    BY <1>9 DEF EndStream, StreamUnchanged, TransferInv, StreamPrefix
  <2>2. Prefix'
    BY <2>1 DEF Prefix
  <2>3. CASE phase' = "pause"
    BY <1>0, <2>1, <2>2, <2>3, StreamKeeps
  <2>4. CASE phase' = "closing" /\ CompleteStream
    <3>1. known => Whole'
      <4>1. known => transferred = Total
        BY <2>4 DEF CompleteStream
      <4> QED  BY <1>a, <2>1, <4>1 DEF Prefix, Whole
    <3> QED  BY <1>0, <2>1, <2>2, <2>4, <3>1, ClosingKeeps
  <2> QED  BY <1>9, <2>3, <2>4 DEF EndStream
<1>10. CASE PauseStream
  <2>1. Prefix /\ UNCHANGED <<file, transferred, known, published>>
    BY <1>10 DEF PauseStream, StreamUnchanged, TransferInv, StreamPrefix
  <2>2. Prefix'
    BY <2>1 DEF Prefix
  <2>3. phase' = "open" \/ (phase' = "closing" /\ err' # "none")
    BY <1>10 DEF PauseStream
  <2> QED  BY <1>0, <2>1, <2>2, <2>3, StreamKeeps, ClosingKeeps
<1>11. CASE RefreshURL
  <2>1. CASE phase' = "start" /\ ResetTo(NoFile)
    BY <1>0, <1>11, <2>1, EmptyIsPrefix, StreamKeeps DEF RefreshURL
  <2>2. CASE phase' = "closing" /\ err' = "failed"
    BY <1>0, <1>11, <2>2, ClosingKeeps DEF RefreshURL
  <2> QED  BY <1>11, <2>1, <2>2 DEF RefreshURL
<1>12. CASE AbandonFile
  BY <1>0, <1>12 DEF AbandonFile, TransferInv, BlocksOwed, CancelledForCause, StreamPrefix, HandedOver,
     PublishedIsWhole
<1>13. CASE PublishFile
  <2>1. Whole \/ (~known /\ Prefix)
    BY <1>13 DEF PublishFile, ProbePasses, TransferInv, HandedOver
  <2>2. published' = file /\ known' = known /\ phase' = "ended" /\ DOMAIN file = Blocks
    BY <1>a, <1>13 DEF PublishFile
  <2>3. PublishedIsWhole'
    BY <2>1, <2>2 DEF PublishedIsWhole, Whole, Prefix
  <2> QED  BY <1>0, <2>2, <2>3 DEF TransferInv, BlocksOwed, CancelledForCause, StreamPrefix, HandedOver
<1>14. CASE CancelTransfer
  <2>1. /\ UNCHANGED <<phase, known, file, transferred, fetcher, err, published>>
        /\ aborted'
    BY <1>14 DEF CancelTransfer
  <2> QED  BY <1>0, <2>1 DEF TransferInv, BlocksOwed, Owes, CancelledForCause, StreamPrefix, Prefix,
              HandedOver, PublishedIsWhole
<1>15. CASE \E w \in Workers : RangeStep(w)
  BY <1>15, RangeStepKeeps
<1>16. CASE UNCHANGED transferVars
  BY <1>0, <1>16 DEF transferVars, TransferInv, BlocksOwed, Owes, CancelledForCause, StreamPrefix, Prefix,
              Whole, HandedOver, PublishedIsWhole
<1> QED  BY <1>1, <1>2, <1>3, <1>4, <1>5, <1>6, <1>7, <1>8, <1>9, <1>10, <1>11, <1>12, <1>13,
            <1>14, <1>15, <1>16 DEF TransferNext, ControlStep

(* The file that gets its final name was written through, whatever size    *)
(* the file has, however many connections fetch it, and wherever workers   *)
(* fail, levels are lowered, streams resume and the download is cancelled. *)
THEOREM PublishedFilesAreWhole == TransferSpec => []PublishedIsWhole
<1>1. TransferInv => PublishedIsWhole
  BY DEF TransferInv
<1> QED  BY <1>1, TransferInvInit, TransferInvNext, PTL DEF TransferSpec

-----------------------------------------------------------------------------
(***************************************************************************)
(* Removing and replacing in bulk (BulkReplace), for any releases, calls   *)
(* and number of downloads made by others.                                 *)
(***************************************************************************)

USE BulkAssumption

Work == [pc : {"idle", "listed", "working", "over"}, replace : BOOLEAN,
         items : SUBSET Keys, old : SUBSET Keys, replacements : SUBSET BulkReleases]
Downloads == [Keys -> {"none", "active", "failed", "gone"}]

Typed == /\ dl \in Downloads /\ madeBy \in [BulkReleases -> BulkCalls \cup {0}]
         /\ bulk \in [BulkCalls -> Work]

(* A job that replaces has no history to delete, and only such a job has   *)
(* replacements to start.                                                  *)
ReplacesOrDeletes ==
  \A j \in BulkCalls : /\ bulk[j].replace => bulk[j].old = {}
                       /\ bulk[j].replacements # {} => bulk[j].replace

(* The job that made a download has neither clean-ups nor history left,    *)
(* and selects nothing any more.                                           *)
MakersAreDone ==
  \A r \in BulkReleases : madeBy[r] \in BulkCalls =>
    /\ bulk[madeBy[r]].pc \in {"working", "over"}
    /\ bulk[madeBy[r]].items = {} /\ bulk[madeBy[r]].old = {}

BulkInv == Typed /\ ReplacesOrDeletes /\ MakersAreDone

-----------------------------------------------------------------------------
(* What a step keeps.                                                      *)

LEMMA TorrentIsKey == \A r \in BulkReleases : Torrent(r) \in Keys
BY DEF Torrent, Keys

LEMMA SetTypes ==
  ASSUME Typed, NEW k \in Keys, NEW state \in {"none", "active", "failed", "gone"}, Set(k, state)
  PROVE  /\ dl' \in Downloads /\ madeBy' \in [BulkReleases -> BulkCalls \cup {0}]
         /\ \A r \in BulkReleases : madeBy'[r] \in {madeBy[r], 0}
<1>1. k[1] \in BulkReleases
  BY DEF Keys
<1> QED  BY <1>1 DEF Set, Typed, Downloads

(* A step at which no download finds a maker, and every job either stays   *)
(* or does what its maker may do.                                          *)
LEMMA JobStays ==
  ASSUME BulkInv, \A r \in BulkReleases : madeBy'[r] \in {madeBy[r], 0}, UNCHANGED bulk
  PROVE  ReplacesOrDeletes' /\ MakersAreDone'
BY DEF BulkInv, ReplacesOrDeletes, MakersAreDone

LEMMA JobMoves ==
  ASSUME BulkInv, NEW j \in BulkCalls, NEW w \in Work, bulk' = [bulk EXCEPT ![j] = w],
         \A r \in BulkReleases : madeBy'[r] \in {madeBy[r], 0},
         w.replace => w.old = {}, w.replacements # {} => w.replace,
         \/ bulk[j].pc \in {"idle", "listed"}
         \/ bulk[j].items # {}
         \/ w.pc \in {"working", "over"} /\ w.items \subseteq bulk[j].items /\ w.old \subseteq bulk[j].old
  PROVE  bulk' \in [BulkCalls -> Work] /\ ReplacesOrDeletes' /\ MakersAreDone'
<1>1. bulk' \in [BulkCalls -> Work] /\ bulk'[j] = w /\ \A i \in BulkCalls \ {j} : bulk'[i] = bulk[i]
  BY DEF BulkInv, Typed
<1>2. ReplacesOrDeletes'
  BY <1>1 DEF BulkInv, ReplacesOrDeletes
<1>3. ASSUME NEW r \in BulkReleases, madeBy'[r] \in BulkCalls
      PROVE  /\ bulk'[madeBy'[r]].pc \in {"working", "over"}
             /\ bulk'[madeBy'[r]].items = {} /\ bulk'[madeBy'[r]].old = {}
  <2>1. madeBy'[r] = madeBy[r]
    BY <1>3, BulkAssumption
  <2>2. /\ bulk[madeBy[r]].pc \in {"working", "over"}
        /\ bulk[madeBy[r]].items = {} /\ bulk[madeBy[r]].old = {}
    BY <1>3, <2>1 DEF BulkInv, MakersAreDone
  <2> QED  BY <1>1, <1>3, <2>1, <2>2
<1> QED  BY <1>1, <1>2, <1>3 DEF MakersAreDone

LEMMA BulkInvInit == BulkInit => BulkInv
<1> SUFFICES ASSUME BulkInit  PROVE BulkInv
  OBVIOUS
<1>1. NoWork \in Work
  BY DEF NoWork, Work
<1>2. Typed
  BY <1>1 DEF BulkInit, Typed, Downloads
<1>3. ReplacesOrDeletes /\ MakersAreDone
  BY BulkAssumption DEF BulkInit, NoWork, ReplacesOrDeletes, MakersAreDone
<1> QED  BY <1>2, <1>3 DEF BulkInv

LEMMA BulkInvStep == BulkInv /\ [BulkNext]_bulkVars => BulkInv'
<1> SUFFICES ASSUME BulkInv, [BulkNext]_bulkVars  PROVE BulkInv'
  OBVIOUS
<1>0. Typed /\ ReplacesOrDeletes /\ MakersAreDone
  BY DEF BulkInv
<1>1. ASSUME NEW k \in Keys, MakeOrRetry(k)  PROVE BulkInv'
  <2>1. UNCHANGED bulk /\ Set(k, "active")
    BY <1>1 DEF MakeOrRetry
  <2> QED  BY <1>0, <2>1, SetTypes, JobStays DEF BulkInv, Typed
<1>2. ASSUME NEW k \in Keys, DownloadEnds(k)  PROVE BulkInv'
  <2>1. UNCHANGED <<madeBy, bulk>> /\ dl' \in Downloads
    BY <1>0, <1>2 DEF DownloadEnds, Typed, Downloads
  <2> QED  BY <1>0, <2>1, JobStays DEF BulkInv, Typed
<1>3. ASSUME NEW j \in BulkCalls, Select(j)  PROVE BulkInv'
  <2>1. PICK chosen \in SUBSET {k \in Keys : dl[k] # "none"}, replace \in BOOLEAN :
          bulk' = [bulk EXCEPT ![j] =
            [pc |-> "listed", replace |-> replace,
             old |-> IF replace THEN {} ELSE {k \in chosen : IsHistory(k)},
             items |-> chosen \ (IF replace THEN {} ELSE {k \in chosen : IsHistory(k)}),
             replacements |-> {}]]
    BY <1>3 DEF Select
  <2> DEFINE old == IF replace THEN {} ELSE {k \in chosen : IsHistory(k)}
             w == [pc |-> "listed", replace |-> replace, old |-> old, items |-> chosen \ old,
                   replacements |-> {}]
  <2>2. w \in Work /\ (w.replace => w.old = {}) /\ w.replacements = {}
    BY DEF Work
  <2>3. bulk' = [bulk EXCEPT ![j] = w] /\ bulk[j].pc = "idle" /\ UNCHANGED <<dl, madeBy>>
    BY <1>3, <2>1 DEF Select
  <2> HIDE DEF w
  <2> QED  BY <1>0, <2>2, <2>3, JobMoves DEF BulkInv, Typed
<1>4. ASSUME NEW j \in BulkCalls, Register(j)  PROVE BulkInv'
  <2>1. bulk[j] \in Work /\ bulk[j].pc = "listed" /\ UNCHANGED <<dl, madeBy>>
    BY <1>0, <1>4 DEF Register, Typed
  <2>2. PICK pc \in {"working", "over"} : bulk' = [bulk EXCEPT ![j].pc = pc]
    BY <1>4 DEF Register
  <2> DEFINE w == [bulk[j] EXCEPT !.pc = pc]
  <2>3. w \in Work /\ w.replace = bulk[j].replace /\ w.old = bulk[j].old
        /\ w.replacements = bulk[j].replacements
    BY <2>1 DEF Work
  <2>4. (w.replace => w.old = {}) /\ (w.replacements # {} => w.replace)
    BY <1>0, <2>3 DEF ReplacesOrDeletes
  <2>5. bulk' = [bulk EXCEPT ![j] = w]
    BY <2>2
  <2> HIDE DEF w
  <2> QED  BY <1>0, <2>1, <2>3, <2>4, <2>5, JobMoves DEF BulkInv, Typed
<1>5. ASSUME NEW j \in BulkCalls, FinishBulk(j)  PROVE BulkInv'
  <2> DEFINE w == [bulk[j] EXCEPT !.pc = "over"]
  <2>1. bulk[j] \in Work /\ bulk' = [bulk EXCEPT ![j] = w] /\ UNCHANGED <<dl, madeBy>>
    BY <1>0, <1>5 DEF FinishBulk, Typed
  <2>2. w \in Work /\ w.replace = bulk[j].replace /\ w.old = bulk[j].old /\ w.pc = "over"
        /\ w.items = bulk[j].items /\ w.replacements = bulk[j].replacements
    BY <2>1 DEF Work
  <2>3. (w.replace => w.old = {}) /\ (w.replacements # {} => w.replace)
    BY <1>0, <2>2 DEF ReplacesOrDeletes
  <2> HIDE DEF w
  <2> QED  BY <1>0, <2>1, <2>2, <2>3, JobMoves DEF BulkInv, Typed
<1>6. ASSUME NEW j \in BulkCalls, NEW k \in Keys, CleanUpItem(j, k)  PROVE BulkInv'
  <2>1. PICK S \in {bulk[j].replacements, bulk[j].replacements \cup {k[1]}} :
          /\ bulk' = [bulk EXCEPT ![j].items = @ \ {k}, ![j].replacements = S]
          /\ bulk[j].replace \/ S = bulk[j].replacements
    <3>1. bulk[j] = [bulk[j] EXCEPT !.replacements = bulk[j].replacements]
      BY <1>0 DEF Typed, Work
    <3> QED  BY <1>0, <1>6, <3>1 DEF CleanUpItem, Typed, Work
  <2> DEFINE w == [bulk[j] EXCEPT !.items = @ \ {k}, !.replacements = S]
  <2>2. bulk[j] \in Work /\ k[1] \in BulkReleases /\ bulk[j].items # {}
    BY <1>0, <1>6 DEF CleanUpItem, Typed, Keys
  <2>3. w \in Work /\ w.replace = bulk[j].replace /\ w.old = bulk[j].old /\ w.replacements = S
    BY <2>1, <2>2 DEF Work
  <2>4. (w.replace => w.old = {}) /\ (w.replacements # {} => w.replace)
    BY <1>0, <2>1, <2>3 DEF ReplacesOrDeletes
  <2>5. bulk' = [bulk EXCEPT ![j] = w]
    BY <1>0, <2>1 DEF Typed
  <2>6. /\ dl' \in Downloads /\ madeBy' \in [BulkReleases -> BulkCalls \cup {0}]
        /\ \A r \in BulkReleases : madeBy'[r] \in {madeBy[r], 0}
    <3>1. CASE Set(k, "none")
      BY <1>0, <3>1, SetTypes
    <3>2. CASE UNCHANGED <<dl, madeBy>>
      BY <1>0, <3>2 DEF Typed
    <3> QED  BY <1>6, <3>1, <3>2 DEF CleanUpItem
  <2> HIDE DEF w
  <2> QED  BY <1>0, <2>2, <2>3, <2>4, <2>5, <2>6, JobMoves DEF BulkInv, Typed
<1>7. ASSUME NEW j \in BulkCalls, NEW k \in Keys, DeleteHistory(j, k)  PROVE BulkInv'
  <2> DEFINE w == [bulk[j] EXCEPT !.old = @ \ {k}]
  <2>1. bulk[j] \in Work /\ bulk' = [bulk EXCEPT ![j] = w] /\ bulk[j].pc = "working"
    BY <1>0, <1>7 DEF DeleteHistory, Typed
  <2>2. w \in Work /\ w.replace = bulk[j].replace /\ w.old \subseteq bulk[j].old /\ w.pc = "working"
        /\ w.items = bulk[j].items /\ w.replacements = bulk[j].replacements
    BY <2>1 DEF Work
  <2>3. (w.replace => w.old = {}) /\ (w.replacements # {} => w.replace)
    BY <1>0, <2>2 DEF ReplacesOrDeletes
  <2>4. /\ dl' \in Downloads /\ madeBy' \in [BulkReleases -> BulkCalls \cup {0}]
        /\ \A r \in BulkReleases : madeBy'[r] \in {madeBy[r], 0}
    <3>1. CASE Set(k, "none")
      BY <1>0, <3>1, SetTypes
    <3>2. CASE UNCHANGED <<dl, madeBy>>
      BY <1>0, <3>2 DEF Typed
    <3> QED  BY <1>7, <3>1, <3>2 DEF DeleteHistory
  <2> HIDE DEF w
  <2> QED  BY <1>0, <2>1, <2>2, <2>3, <2>4, JobMoves DEF BulkInv, Typed
<1>8. ASSUME NEW j \in BulkCalls, NEW r \in BulkReleases, Replace(j, r)  PROVE BulkInv'
  <2> DEFINE w == [bulk[j] EXCEPT !.replacements = @ \ {r}]
  <2>1. /\ bulk[j] \in Work /\ bulk' = [bulk EXCEPT ![j] = w] /\ bulk[j].pc = "working"
        /\ bulk[j].items = {} /\ bulk[j].replacements # {}
    BY <1>0, <1>8 DEF Replace, AllCleaned, Typed
  <2>2. w \in Work /\ w.replace = bulk[j].replace /\ w.old = bulk[j].old /\ w.pc = "working"
        /\ w.items = {} /\ w.replacements \subseteq bulk[j].replacements
    BY <2>1 DEF Work
  <2>3. bulk[j].replace /\ bulk[j].old = {}
    BY <1>0, <2>1 DEF ReplacesOrDeletes
  <2>4. /\ dl' \in Downloads /\ madeBy' \in [BulkReleases -> BulkCalls \cup {0}]
        /\ \A q \in BulkReleases : madeBy'[q] \in {madeBy[q], j}
    BY <1>0, <1>8, TorrentIsKey DEF Replace, Typed, Downloads
  <2> HIDE DEF w
  <2>5. bulk' \in [BulkCalls -> Work] /\ bulk'[j] = w /\ \A i \in BulkCalls \ {j} : bulk'[i] = bulk[i]
    BY <1>0, <2>1, <2>2 DEF Typed
  <2>6. ReplacesOrDeletes'
    BY <1>0, <2>2, <2>3, <2>5 DEF ReplacesOrDeletes
  <2>7. MakersAreDone'
    <3>1. w.pc \in {"working", "over"} /\ w.items = {} /\ w.old = {}
      BY <2>2, <2>3
    <3> QED  BY <1>0, <2>4, <2>5, <3>1 DEF MakersAreDone
  <2> QED  BY <2>4, <2>5, <2>6, <2>7 DEF BulkInv, Typed
<1>9. ASSUME UNCHANGED bulkVars  PROVE BulkInv'
  BY <1>0, <1>9 DEF bulkVars, BulkInv, Typed, ReplacesOrDeletes, MakersAreDone
<1> QED  BY <1>1, <1>2, <1>3, <1>4, <1>5, <1>6, <1>7, <1>8, <1>9 DEF BulkNext

-----------------------------------------------------------------------------
(* A job does not remove what it has put in the place of a download        *)
(* (StartBulkRemoveAndReplace: "so a second selected transport cannot      *)
(* delete the new job").                                                   *)
THEOREM ReplacementsAreKept == BulkSpec => ReplacementsStay
<1> DEFINE Stays == \A j \in BulkCalls, r \in BulkReleases :
                      madeBy[r] = j /\ dl[Torrent(r)] # "none" /\ bulk'[j] # bulk[j]
                        => dl'[Torrent(r)] # "none"
<1>1. BulkInv /\ [BulkNext]_bulkVars => [Stays]_bulkVars
  <2> SUFFICES ASSUME BulkInv, BulkNext, NEW j \in BulkCalls, NEW r \in BulkReleases,
                      madeBy[r] = j, dl[Torrent(r)] # "none", bulk'[j] # bulk[j]
               PROVE  dl'[Torrent(r)] # "none"
    BY DEF bulkVars
  <2>1. bulk[j].pc \in {"working", "over"} /\ bulk[j].items = {} /\ bulk[j].old = {}
    BY DEF BulkInv, MakersAreDone
  <2>2. Typed
    BY DEF BulkInv
  <2>3. CASE \E k \in Keys : MakeOrRetry(k) \/ DownloadEnds(k)
    BY <2>3 DEF MakeOrRetry, DownloadEnds
  <2>4. ASSUME NEW i \in BulkCalls, i # j,
               \/ Select(i) \/ Register(i) \/ FinishBulk(i)
               \/ \E k \in Keys : CleanUpItem(i, k) \/ DeleteHistory(i, k)
               \/ \E q \in BulkReleases : Replace(i, q)
        PROVE  FALSE
    BY <2>2, <2>4 DEF Select, Register, FinishBulk, CleanUpItem, DeleteHistory, Replace, Typed
  <2>5. CASE Select(j) \/ Register(j) \/ FinishBulk(j)
    BY <2>1, <2>5 DEF Select, Register, FinishBulk
  <2>6. CASE \E k \in Keys : CleanUpItem(j, k) \/ DeleteHistory(j, k)
    BY <2>1, <2>6 DEF CleanUpItem, DeleteHistory
  <2>7. ASSUME NEW q \in BulkReleases, Replace(j, q)  PROVE dl'[Torrent(r)] # "none"
    BY <2>2, <2>7, TorrentIsKey DEF Replace, Typed, Downloads
  <2> QED  BY <2>3, <2>4, <2>5, <2>6, <2>7 DEF BulkNext
<1> QED  BY <1>1, BulkInvInit, BulkInvStep, PTL DEF BulkSpec, ReplacementsStay

-----------------------------------------------------------------------------
(***************************************************************************)
(* The refreshes of releases (ReleaseRefresh): what is saved long after it *)
(* was read, for any releases, workers and bounds.                         *)
(***************************************************************************)
Versions == 0 .. MaxVersion
StoredRow == [mark : BOOLEAN, ver : Versions, dated : Versions]
RefresherState ==
  [pc : {"idle", "check", "read", "scrape", "shots", "save", "reread", "done", "failed"},
   of : SUBSET RefreshRows, read : StoredRow, found : Versions, cancelled : BOOLEAN]

(* The part of the types that a save depends on.                           *)
SavedTypes ==
  /\ row \in [RefreshRows -> StoredRow] /\ page \in [RefreshRows -> Versions]
  /\ refresher \in [Refreshers -> RefresherState]
  /\ sweep.todo \subseteq [rel : RefreshRows, ver : Versions]

(* A refresher at rest, with the row of a new release.                     *)
LEMMA NothingRead == NewRow \in StoredRow /\ Resting \in RefresherState
<1>1. 0 \in Versions
  BY RefreshAssumption DEF Versions
<1> QED  BY <1>1 DEF NewRow, Resting, StoredRow, RefresherState

(* A step that gives one refresher a new state.                            *)
LEMMA OneRefresher ==
  ASSUME SavedTypes, NEW p \in Refreshers, NEW new \in RefresherState,
         refresher' = [refresher EXCEPT ![p] = new], UNCHANGED <<row, page, sweep>>
  PROVE  SavedTypes'
BY DEF SavedTypes

(* Every step keeps the types.                                             *)
LEMMA SavedTypesStep ==
  ASSUME SavedTypes, [RefreshNext]_refreshVars
  PROVE  SavedTypes'
<1>0. /\ row \in [RefreshRows -> StoredRow] /\ page \in [RefreshRows -> Versions]
      /\ refresher \in [Refreshers -> RefresherState]
      /\ sweep.todo \subseteq [rel : RefreshRows, ver : Versions]
      /\ Resting \in RefresherState
  BY NothingRead DEF SavedTypes
<1>1. ASSUME NEW r \in RefreshRows, NEW mark \in BOOLEAN, EditMark(r, mark)  PROVE SavedTypes'
  <2>1. [row[r] EXCEPT !.mark = mark] \in StoredRow
    BY <1>0 DEF StoredRow
  <2>2. row' = [row EXCEPT ![r] = [row[r] EXCEPT !.mark = mark]]
    BY <1>0, <1>1 DEF EditMark, StoredRow
  <2>3. row' \in [RefreshRows -> StoredRow]
    BY <1>0, <2>1, <2>2
  <2> QED  BY <1>1, <2>3 DEF EditMark, SavedTypes
<1>2. ASSUME NEW r \in RefreshRows, PageChanges(r)  PROVE SavedTypes'
  <2>1. page[r] + 1 \in Versions
    BY <1>0, <1>2, RefreshAssumption DEF PageChanges, Versions
  <2> QED  BY <1>0, <1>2, <2>1 DEF PageChanges, StoreUnchanged, SavedTypes
<1>3. ASSUME NEW r \in RefreshRows, StartRelease(r)  PROVE SavedTypes'
  <2>1. [Resting EXCEPT !.pc = "read", !.of = {r}] \in RefresherState
    BY <1>0 DEF RefresherState
  <2>2. r \in Refreshers
    BY DEF Refreshers
  <2> QED  BY <1>3, <2>1, <2>2, OneRefresher DEF StartRelease, StoreUnchanged
<1>4. CASE StopRefreshes
  <2>1. \A p \in Refreshers : [refresher[p] EXCEPT !.cancelled = TRUE] \in RefresherState
    BY <1>0 DEF RefresherState
  <2>2. refresher' \in [Refreshers -> RefresherState]
    BY <1>0, <1>4, <2>1 DEF StopRefreshes
  <2> QED  BY <1>4, <2>2 DEF StopRefreshes, StoreUnchanged, OthersUnchanged, SavedTypes
<1>5. ASSUME NEW p \in Refreshers,
             NEW pc \in {"read", "scrape", "shots", "save", "reread", "done", "failed"}, Go(p, pc),
             row' \in [RefreshRows -> StoredRow], OthersUnchanged
      PROVE  SavedTypes'
  <2>1. [refresher[p] EXCEPT !.pc = pc] \in RefresherState
    BY <1>0 DEF RefresherState
  <2>2. refresher' \in [Refreshers -> RefresherState]
    BY <1>0, <1>5, <2>1 DEF Go
  <2> QED  BY <1>5, <2>2 DEF OthersUnchanged, SavedTypes
<1>6. ASSUME NEW p \in Refreshers, Fails(p) \/ Reread(p)  PROVE SavedTypes'
  BY <1>0, <1>5, <1>6 DEF Fails, Reread, StoreUnchanged
<1>7. ASSUME NEW p \in Refreshers, FetchShots(p)  PROVE SavedTypes'
  BY <1>0, <1>5, <1>7 DEF FetchShots
<1>8. ASSUME NEW p \in Refreshers, ReadRow(p)  PROVE SavedTypes'
  <2>1. PICK r \in RefreshRows : refresher' = [refresher EXCEPT ![p].pc = "scrape", ![p].read = row[r]]
    BY <1>0, <1>8 DEF ReadRow, RefresherState
  <2>2. [refresher[p] EXCEPT !.pc = "scrape", !.read = row[r]] \in RefresherState
    BY <1>0 DEF RefresherState
  <2>3. refresher' = [refresher EXCEPT ![p] = [refresher[p] EXCEPT !.pc = "scrape", !.read = row[r]]]
    BY <1>0, <2>1 DEF RefresherState
  <2> QED  BY <1>8, <2>2, <2>3, OneRefresher DEF ReadRow, StoreUnchanged, OthersUnchanged
<1>9. ASSUME NEW p \in Refreshers, Scrape(p)  PROVE SavedTypes'
  <2>1. PICK r \in RefreshRows : refresher' = [refresher EXCEPT ![p].pc = "shots", ![p].found = page[r]]
    BY <1>0, <1>9 DEF Scrape, RefresherState
  <2>2. [refresher[p] EXCEPT !.pc = "shots", !.found = page[r]] \in RefresherState
    BY <1>0 DEF RefresherState
  <2>3. refresher' = [refresher EXCEPT ![p] = [refresher[p] EXCEPT !.pc = "shots", !.found = page[r]]]
    BY <1>0, <2>1 DEF RefresherState
  <2> QED  BY <1>9, <2>2, <2>3, OneRefresher DEF Scrape, StoreUnchanged, OthersUnchanged
<1>10. ASSUME NEW p \in Refreshers, SaveRow(p)  PROVE SavedTypes'
  <2>1. PICK r \in RefreshRows :
          row' = [row EXCEPT ![r] =
                   [mark |-> MergedMark(row[r].mark, refresher[p].read.mark),
                    ver |-> IF refresher[p].found = 0 THEN row[r].ver ELSE refresher[p].found,
                    dated |-> IF refresher[p].found # row[r].ver /\ p \notin SweepWorkers
                              THEN refresher[p].found ELSE row[r].dated]]
    BY <1>0, <1>10 DEF SaveRow, RefresherState
  <2>2. MergedMark(row[r].mark, refresher[p].read.mark) \in BOOLEAN
    BY DEF MergedMark
  <2>3. /\ (IF refresher[p].found = 0 THEN row[r].ver ELSE refresher[p].found) \in Versions
        /\ (IF refresher[p].found # row[r].ver /\ p \notin SweepWorkers
            THEN refresher[p].found ELSE row[r].dated) \in Versions
    BY <1>0 DEF StoredRow, RefresherState
  <2> HIDE DEF MergedMark
  <2>4. row' \in [RefreshRows -> StoredRow]
    BY <1>0, <2>1, <2>2, <2>3 DEF StoredRow
  <2> QED  BY <1>5, <1>10, <2>4 DEF SaveRow
<1>11. ASSUME NEW r \in RefreshRows, FinishManual(r)  PROVE SavedTypes'
  BY <1>0, <1>11, OneRefresher DEF FinishManual, StoreUnchanged, Refreshers
<1>12. CASE StartSweep \/ ListSweep \/ EndSweep
  <2>1. sweep'.todo \subseteq [rel : RefreshRows, ver : Versions]
    <3>1. CASE StartSweep
      BY <3>1 DEF StartSweep
    <3>2. CASE ListSweep
      <4>1. \A r \in RefreshRows : [rel |-> r, ver |-> row[r].ver] \in [rel : RefreshRows, ver : Versions]
        BY <1>0 DEF StoredRow
      <4>2. sweep'.todo \in {{[rel |-> r, ver |-> row[r].ver] : r \in RefreshRows}, {}} \/ sweep'.todo = sweep.todo
        BY <3>2 DEF ListSweep
      <4> QED  BY <1>0, <4>1, <4>2
    <3>3. CASE EndSweep
      BY <1>0, <3>3 DEF EndSweep
    <3> QED  BY <1>12, <3>1, <3>2, <3>3
  <2> QED  BY <1>12, <2>1 DEF StartSweep, ListSweep, EndSweep, StoreUnchanged, SavedTypes
<1>13. ASSUME NEW w \in SweepWorkers, Hand(w)  PROVE SavedTypes'
  <2>1. PICK item \in sweep.todo :
          /\ sweep' = [sweep EXCEPT !.todo = @ \ {item}]
          /\ refresher' = [refresher EXCEPT ![w] =
               [Resting EXCEPT !.pc = "check", !.of = {item.rel}, !.found = item.ver]]
    BY <1>13 DEF Hand
  <2>2. item \in [rel : RefreshRows, ver : Versions]
    BY <1>0
  <2>3. [Resting EXCEPT !.pc = "check", !.of = {item.rel}, !.found = item.ver] \in RefresherState
    BY <1>0, <2>2 DEF RefresherState
  <2>4. refresher' \in [Refreshers -> RefresherState]
    BY <1>0, <2>1, <2>3
  <2>5. sweep'.todo \subseteq sweep.todo
    <3>1. CASE "todo" \in DOMAIN sweep
      BY <2>1, <3>1
    <3>2. CASE "todo" \notin DOMAIN sweep
      BY <2>1, <3>2
    <3> QED  BY <3>1, <3>2
  <2> QED  BY <1>0, <1>13, <2>4, <2>5 DEF Hand, StoreUnchanged, SavedTypes
<1>14. ASSUME NEW w \in SweepWorkers, CheckShots(w) \/ NoteChecked(w)  PROVE SavedTypes'
  <2>0. w \in Refreshers
    BY DEF Refreshers
  <2>1. CASE refresher' = [refresher EXCEPT ![w] = Resting]
    BY <1>0, <1>14, <2>0, <2>1, OneRefresher DEF CheckShots, NoteChecked, OthersUnchanged
  <2>2. CASE Go(w, "read")
    BY <1>0, <1>5, <1>14, <2>0, <2>2 DEF CheckShots, NoteChecked, OthersUnchanged
  <2> QED  BY <1>14, <2>1, <2>2 DEF CheckShots, NoteChecked
<1>15. ASSUME NEW r \in RefreshRows, LoseShots(r)  PROVE SavedTypes'
  BY <1>15 DEF LoseShots, SavedTypes
<1>16. CASE UNCHANGED refreshVars
  BY <1>16 DEF refreshVars, SavedTypes
<1> QED
  BY <1>1, <1>2, <1>3, <1>4, <1>6, <1>7, <1>8, <1>9, <1>10, <1>11, <1>12, <1>13, <1>14, <1>15, <1>16
     DEF RefreshNext

(* The types hold throughout.                                              *)
LEMMA RefreshTypes == RefreshSpec => []SavedTypes
<1>1. ASSUME RefreshInit  PROVE SavedTypes
  <2>1. 0 \in Versions
    BY RefreshAssumption DEF Versions
  <2>2. sweep.todo = {}
    BY <1>1 DEF RefreshInit
  <2>3. /\ row = [r \in RefreshRows |-> NewRow] /\ page = [r \in RefreshRows |-> 0]
        /\ refresher = [p \in Refreshers |-> Resting]
    BY <1>1 DEF RefreshInit
  <2> QED  BY <2>1, <2>2, <2>3, NothingRead DEF SavedTypes
<1> QED  BY <1>1, SavedTypesStep, PTL DEF RefreshSpec

(* A mark is kept by every step but the user's: a save merges what it read *)
(* with the row that is stored by then, and nothing else writes marks.     *)
LEMMA MarkStep ==
  ASSUME SavedTypes, RefreshNext, NEW r \in RefreshRows, row[r].mark, ~row'[r].mark
  PROVE  EditMark(r, FALSE)
<1>0. row \in [RefreshRows -> StoredRow]
  BY DEF SavedTypes
<1>1. row' # row
  OBVIOUS
<1>2. ASSUME NEW q \in RefreshRows, NEW mark \in BOOLEAN, EditMark(q, mark)  PROVE EditMark(r, FALSE)
  <2>1. row' = [row EXCEPT ![q] = [row[q] EXCEPT !.mark = mark]]
    BY <1>0, <1>2 DEF EditMark, StoredRow
  <2>2. q = r
    BY <1>0, <2>1
  <2>3. row'[r].mark = mark
    BY <1>0, <2>1, <2>2 DEF StoredRow
  <2>4. mark = FALSE
    BY <2>3, Zenon
  <2> QED  BY <1>2, <2>2, <2>4
<1>3. ASSUME NEW p \in Refreshers, SaveRow(p)  PROVE FALSE
  <2>1. refresher[p].of \subseteq RefreshRows
    BY DEF SavedTypes, RefresherState
  <2>2. PICK q \in RefreshRows :
          row' = [row EXCEPT ![q] =
                   [mark |-> MergedMark(row[q].mark, refresher[p].read.mark),
                    ver |-> IF refresher[p].found = 0 THEN row[q].ver ELSE refresher[p].found,
                    dated |-> IF refresher[p].found # row[q].ver /\ p \notin SweepWorkers
                              THEN refresher[p].found ELSE row[q].dated]]
    BY <1>0, <1>3, <2>1 DEF SaveRow
  <2>3. row'[q].mark = MergedMark(row[q].mark, refresher[p].read.mark)
    BY <1>0, <2>2
  <2>4. q = r
    BY <1>0, <2>2
  <2>5. row[q].mark \/ refresher[p].read.mark
    BY <2>4
  <2> QED  BY <2>3, <2>4, <2>5, Zenon DEF MergedMark
<1> QED
  BY <1>1, <1>2, <1>3
     DEF RefreshNext, PageChanges, LoseShots, StartRelease, FinishManual, StopRefreshes, StartSweep,
         ListSweep, EndSweep, ReadRow, Scrape, FetchShots, Reread, Fails, CheckShots, NoteChecked,
         Hand, StoreUnchanged

(* MarksStaySet for any number of refreshes that save what they read long  *)
(* before: an update of a release never clears a mark the user has set.    *)
THEOREM MarksAreKept == RefreshSpec => MarksStaySet
<1>1. ASSUME SavedTypes, [RefreshNext]_refreshVars
      PROVE  [\A r \in RefreshRows : row[r].mark /\ ~row'[r].mark => EditMark(r, FALSE)]_refreshVars
  BY <1>1, MarkStep
<1> QED  BY <1>1, RefreshTypes, PTL DEF RefreshSpec, MarksStaySet
=============================================================================
