---------------------------- MODULE HttpTransfer ----------------------------
(* The bytes of one HTTP download (src/internal/download/service.go, from  *)
(* the opening of the .part file to its renaming).  The file is fetched in *)
(* ranges by several workers, whose number is reduced when they keep       *)
(* failing, and in a single stream at last, which goes on where its last   *)
(* attempt stopped; an authenticated transfer that failed is repeated from *)
(* a fresh URL.  A file of Total blocks stands for the download; a block   *)
(* of the .part file is missing, reserved (by Truncate, or passed over by  *)
(* a Seek) or holds its data.                                              *)
EXTENDS Naturals, FiniteSets, FiniteSetsExt

CONSTANTS
  Total,         \* blocks of the selected file
  MinPart,       \* minimumPartSize, in blocks
  Connections,   \* httpConnections(settings)
  Tries,         \* requests for one range, and streams: 3 in the code
  RangeRetries   \* repetitions of one level of connections: 3 in the code

ASSUME TransferAssumption ==
  /\ {Total, MinPart, Connections, Tries} \subseteq Nat \ {0}
  /\ RangeRetries \in Nat

Blocks == 0 .. Total - 1
Workers == 1 .. Connections

VARIABLES
  phase,         \* where the run is
  known,         \* the provider told the size (total > 0)
  authenticated, \* resolved.Authenticated
  aborted,       \* ctx is done
  file,          \* the .part file
  transferred,   \* the counter, which is also where a stream resumes
  level,         \* connections in use
  repeated,      \* repetitions of this level so far
  fetcher,       \* the ranges: offset, end, attempts, state
  attempt,       \* streams so far
  err,           \* what the transfer returned
  refreshed,     \* the URL was resolved once more
  published      \* the renamed file, or Nothing

transferVars == <<phase, known, authenticated, aborted, file, transferred, level, repeated,
                  fetcher, attempt, err, refreshed, published>>

Nothing == [b \in {} |-> "missing"]
NoFile == [b \in Blocks |-> "missing"]
Reserved == [b \in Blocks |-> "reserved"]

\* A write at offset b: what lies before it and was missing reads as zeros.
Written(f, b) ==
  [c \in Blocks |-> IF c = b THEN "data"
                    ELSE IF c < b /\ f[c] = "missing" THEN "reserved" ELSE f[c]]

Idle == [offset |-> 0, end |-> 0, tries |-> 0, state |-> "none"]

TransferTypeOK ==
  /\ phase \in {"start", "probe", "ranges", "backoff", "open", "copy", "pause", "closing", "ended"}
  /\ {known, authenticated, aborted, refreshed} \subseteq BOOLEAN
  /\ file \in [Blocks -> {"missing", "reserved", "data"}]
  /\ transferred \in Nat /\ level \in 0 .. Connections /\ repeated \in 0 .. RangeRetries
  /\ fetcher \in [Workers -> [offset : 0 .. Total, end : 0 .. Total - 1, tries : 0 .. Tries,
                             state : {"none", "open", "copy", "done", "failed", "cancelled"}]]
  /\ attempt \in 0 .. Tries /\ err \in {"none", "failed", "cancelled", "rejected"}
  /\ published \in {Nothing} \cup [Blocks -> {"missing", "reserved", "data"}]

\* The .part file is opened truncated.
TransferInit ==
  /\ phase = "start" /\ known \in BOOLEAN /\ authenticated \in BOOLEAN /\ aborted = FALSE
  /\ file = NoFile /\ transferred = 0 /\ level = 0 /\ repeated = 0
  /\ fetcher = [w \in Workers |-> Idle] /\ attempt = 0 /\ err = "none"
  /\ refreshed = FALSE /\ published = Nothing

CancelTransfer ==
  /\ ~aborted /\ phase # "ended" /\ aborted' = TRUE
  /\ UNCHANGED <<phase, known, authenticated, file, transferred, level, repeated, fetcher, attempt,
                 err, refreshed, published>>

-----------------------------------------------------------------------------
(* downloadHTTPToFileCoordinated: how it goes on.  resetHTTPTransfer is    *)
(* told the size to reserve, or nothing.                                   *)
ResetTo(f) == file' = f /\ transferred' = 0

ToSingle == phase' = "open" /\ attempt' = 1 /\ level' = 1 /\ UNCHANGED <<repeated, fetcher>>
Single == ToSingle /\ UNCHANGED <<file, transferred>>
\* Mutant. The stream takes the counter of the ranges for its own.
StaleSingle == ToSingle /\ UNCHANGED <<file, transferred>>

ResetSingle == ToSingle /\ ResetTo(NoFile)

\* Ranges of equal size; a worker without one does not start.
PartSize(n) == (Total + n - 1) \div n
Ranges(n) ==
  [w \in Workers |->
     LET from == (w - 1) * PartSize(n)
         to == Min({Total - 1, from + PartSize(n) - 1})
     IN IF w > n \/ from > to THEN Idle
        ELSE [offset |-> from, end |-> to, tries |-> 1, state |-> "open"]]

BeginRanges(n, r) ==
  /\ phase' = "ranges" /\ level' = n /\ repeated' = r /\ fetcher' = Ranges(n)
  /\ ResetTo(Reserved) /\ UNCHANGED attempt

\* No ranges of what is small, or of unknown size.
BeginTransfer ==
  /\ phase = "start"
  /\ IF Connections < 2 \/ ~known THEN Single
     ELSE phase' = "probe" /\ UNCHANGED <<file, transferred, level, repeated, fetcher, attempt>>
  /\ UNCHANGED <<known, authenticated, aborted, err, refreshed, published>>

PartCount == (Total + MinPart - 1) \div MinPart

\* The probe, with its three attempts: the ranges are served, or are not
\* supported, or it failed; a cancellation between two attempts ends it.
Probe ==
  /\ phase = "probe"
  /\ \/ ~aborted /\ IF Min({Connections, PartCount}) < 2 THEN Single
                      ELSE BeginRanges(Min({Connections, PartCount}), 0)
     \/ ~aborted /\ Single
     \/ ResetSingle
  /\ UNCHANGED <<known, authenticated, aborted, err, refreshed, published>>

ProbeCancelled ==
  /\ phase = "probe" /\ aborted /\ phase' = "closing" /\ err' = "cancelled"
  /\ UNCHANGED <<known, authenticated, aborted, file, transferred, level, repeated, fetcher,
                 attempt, refreshed, published>>

-----------------------------------------------------------------------------
(* downloadHTTPRanges and its workers.  The first that fails cancels the   *)
(* context of the others; startHTTPStallGuard breaks a copy that makes no  *)
(* progress.                                                               *)
Stopped == aborted \/ \E w \in Workers : fetcher[w].state \in {"failed", "cancelled"}

Becomes(w, state) == fetcher' = [fetcher EXCEPT ![w].state = state]
AnotherTry(w) == fetcher' = [fetcher EXCEPT ![w].state = "open", ![w].tries = @ + 1]

RangeUnchanged ==
  /\ phase = "ranges"
  /\ UNCHANGED <<phase, known, authenticated, aborted, level, repeated, attempt, err, refreshed,
                 published>>

\* openHTTPDownloadRange: a partial answer with exactly the range asked for.
OpenRange(w) ==
  /\ fetcher[w].state = "open" /\ ~Stopped /\ Becomes(w, "copy")
  /\ RangeUnchanged /\ UNCHANGED <<file, transferred>>

\* No such answer: what has cancelled the context is the error, then.
RefuseRange(w) ==
  /\ fetcher[w].state = "open"
  /\ IF Stopped THEN Becomes(w, "cancelled")
     ELSE IF fetcher[w].tries = Tries THEN Becomes(w, "failed") ELSE AnotherTry(w)
  /\ RangeUnchanged /\ UNCHANGED <<file, transferred>>

\* A write that was under way when the context was cancelled still happens.
CopyRange(w) ==
  /\ fetcher[w].state = "copy" /\ fetcher[w].offset <= fetcher[w].end
  /\ file' = Written(file, fetcher[w].offset) /\ transferred' = transferred + 1
  /\ fetcher' = [fetcher EXCEPT ![w].offset = @ + 1]
  /\ RangeUnchanged

\* The range is there, or its answer broke off; the error of a last attempt
\* may be that of the cancelled context.
EndRange(w) ==
  /\ fetcher[w].state = "copy"
  /\ IF fetcher[w].offset > fetcher[w].end THEN Becomes(w, "done")
     ELSE IF fetcher[w].tries = Tries
          THEN Becomes(w, "failed") \/ (Stopped /\ Becomes(w, "cancelled"))
          ELSE IF Stopped THEN Becomes(w, "cancelled") ELSE AnotherTry(w)
  /\ RangeUnchanged /\ UNCHANGED <<file, transferred>>

RangeStep(w) == OpenRange(w) \/ RefuseRange(w) \/ CopyRange(w) \/ EndRange(w)

Joined == \A w \in Workers : fetcher[w].state \notin {"open", "copy"}

\* Mutant. The levels of connections end at two.
EndlessLevels(n) == Max({2, n \div 2})

NextLevel(n) == IF n > 2 THEN Max({2, n \div 2}) ELSE 1
LowerLevel == IF NextLevel(level) = 1 THEN ResetSingle ELSE BeginRanges(NextLevel(level), 0)

\* The ranges are joined.  Errors that are cancellations are passed over, so
\* that ranges which only a cancellation ended are returned as a success.
JoinRanges ==
  /\ phase = "ranges" /\ Joined
  /\ IF \A w \in Workers : fetcher[w].state # "failed"
     THEN phase' = "closing" /\ UNCHANGED <<file, transferred, level, repeated, fetcher, attempt>>
     ELSE IF repeated < RangeRetries
          THEN phase' = "backoff" /\ UNCHANGED <<file, transferred, level, repeated, fetcher, attempt>>
          ELSE LowerLevel
  /\ UNCHANGED <<known, authenticated, aborted, err, refreshed, published>>

\* runCoordinatedHTTPRangeRetries: the sleep before a repetition, which a
\* cancellation ends; the level has failed, then.
RepeatRanges ==
  /\ phase = "backoff"
  /\ BeginRanges(level, repeated + 1) \/ (aborted /\ LowerLevel)
  /\ UNCHANGED <<known, authenticated, aborted, err, refreshed, published>>

-----------------------------------------------------------------------------
(* downloadHTTPSingleStream: each attempt asks for what is missing after   *)
(* the counter, if the size is known and the server knows ranges.          *)
StreamUnchanged ==
  UNCHANGED <<known, authenticated, aborted, level, repeated, fetcher, refreshed, published>>

FromOffset == known /\ transferred > 0

\* The .part file as the request finds it: without a size it starts again.
Restarted == IF known THEN UNCHANGED <<file, transferred>> ELSE ResetTo(NoFile)

\* A range that is not supported is replaced by the whole.
OpenStream ==
  /\ phase = "open" /\ ~aborted /\ phase' = "copy"
  /\ \/ (FromOffset => transferred < Total) /\ Restarted
     \/ FromOffset /\ ResetTo(NoFile)
  /\ UNCHANGED <<attempt, err>> /\ StreamUnchanged

\* No answer, after the attempts of openHTTPDownloadStream, or one of
\* another size.
RefuseStream ==
  /\ phase = "open" /\ phase' = "pause"
  /\ Restarted \/ (FromOffset /\ ResetTo(NoFile))
  /\ UNCHANGED <<attempt, err>> /\ StreamUnchanged

\* The answer is smaller than the safeguards allow, which ends the attempts.
\* A refreshed URL comes without the limit: service.go copies it to itself.
RejectStream ==
  /\ phase = "open" /\ ~aborted /\ ~refreshed /\ phase' = "closing" /\ err' = "rejected"
  /\ IF FromOffset THEN ResetTo(NoFile) ELSE Restarted
  /\ UNCHANGED attempt /\ StreamUnchanged

CopyStream ==
  /\ phase = "copy" /\ transferred < Total
  /\ file' = Written(file, transferred) /\ transferred' = transferred + 1
  /\ UNCHANGED <<phase, attempt, err>> /\ StreamUnchanged

\* Without a size any end of the answer is taken for the end of the file.
CompleteStream == known => transferred = Total

EndStream ==
  /\ phase = "copy" /\ phase' \in {"pause"} \cup IF CompleteStream THEN {"closing"} ELSE {}
  /\ UNCHANGED <<file, transferred, attempt, err>> /\ StreamUnchanged

\* The sleep between two attempts, or the end of them.
PauseStream ==
  /\ phase = "pause"
  /\ \/ attempt < Tries /\ phase' = "open" /\ attempt' = attempt + 1 /\ UNCHANGED err
     \/ (aborted \/ attempt = Tries) /\ phase' = "closing"
        /\ err' = (IF aborted THEN "cancelled" ELSE "failed") /\ UNCHANGED attempt
  /\ UNCHANGED <<file, transferred>> /\ StreamUnchanged

-----------------------------------------------------------------------------
(* runHTTPDownload, once the transfer has returned.                        *)
MayRefresh == err # "none" /\ ~aborted /\ authenticated /\ ~refreshed

\* An authenticated transfer that failed is repeated with a URL that is
\* resolved once more, unless that fails too.
RefreshURL ==
  /\ phase = "closing" /\ MayRefresh /\ refreshed' = TRUE
  /\ \/ phase' = "start" /\ err' = "none" /\ ResetTo(NoFile)
     \/ phase' = "closing" /\ err' = "failed" /\ UNCHANGED <<file, transferred>>
  /\ UNCHANGED <<known, authenticated, aborted, level, repeated, fetcher, attempt, published>>

\* A failure of the transfer, of the closing, the verification, the video
\* check or the renaming: the .part file is removed.
AbandonFile ==
  /\ phase = "closing" /\ ~MayRefresh /\ phase' = "ended" /\ file' = NoFile
  /\ UNCHANGED <<known, authenticated, aborted, transferred, level, repeated, fetcher, attempt,
                 err, refreshed, published>>

\* verifyHTTPDownloadFile for a provider without checksums: the size only,
\* which is that of the selection or what was counted.
SizeMatches == {b \in Blocks : file[b] # "missing"} = 0 .. (IF known THEN Total ELSE transferred) - 1

\* Mutant. The check does not end with the download it belongs to.
Detached == TRUE

\* ffprobeVideo: a video with holes may well pass, but nothing passes once
\* the context of the download is done.
ProbePasses == ~aborted

\* verifyDownloadedVideo under the context of the download, and the renaming.
PublishFile ==
  /\ phase = "closing" /\ err = "none" /\ SizeMatches /\ ProbePasses
  /\ phase' = "ended" /\ published' = file
  /\ UNCHANGED <<known, authenticated, aborted, file, transferred, level, repeated, fetcher, attempt,
                 err, refreshed>>

ControlStep ==
  \/ BeginTransfer \/ Probe \/ ProbeCancelled \/ JoinRanges \/ RepeatRanges
  \/ OpenStream \/ RefuseStream \/ RejectStream \/ CopyStream \/ EndStream \/ PauseStream
  \/ RefreshURL \/ AbandonFile \/ PublishFile

TransferNext == ControlStep \/ CancelTransfer \/ \E w \in Workers : RangeStep(w)

TransferFairness ==
  /\ WF_transferVars(ControlStep)
  /\ \A w \in Workers : WF_transferVars(RangeStep(w))

TransferSpec == TransferInit /\ [][TransferNext]_transferVars /\ TransferFairness

-----------------------------------------------------------------------------
(* The file that gets its final name was written through: it has no block  *)
(* that only the reservation or a seek left there, and all of them if the  *)
(* size was known, whatever workers failed, levels were lowered, streams   *)
(* resumed and cancellations were taken for a success.                     *)
PublishedIsWhole ==
  /\ \A b \in DOMAIN published : published[b] # "reserved"
  /\ published # Nothing /\ known => \A b \in Blocks : published[b] = "data"

(* Every transfer that was begun ends, with a file or without, after a     *)
(* finite number of levels, repetitions and streams: requests and reads    *)
(* end by themselves, at the latest by the stall guard.                    *)
TransferEnds == phase # "start" ~> phase = "ended"
=============================================================================
