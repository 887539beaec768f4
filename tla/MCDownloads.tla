---------------------------- MODULE MCDownloads ----------------------------
(* Instances for TLC of four parts of the download side, one of which a    *)
(* behaviour runs: the slots of HTTP transfers, the torrents with their    *)
(* pipelines, the Search + Download queue, and the copies that downloads   *)
(* make in the PikPak drive.  They share no state.                         *)
EXTENDS HttpSlots, Torrents, SearchQueue, AccountDrive

CONSTANTS r1, r2, r3, d1, d2, t1

VARIABLE part   \* the part that runs in this behaviour

\* HttpSlots: three runs of two downloads, of two priorities that may be
\* edited, under a setting that is invalid, two, or unreadable.
ThreeRuns == {r1, r2, r3}
TwoDownloads == {d1, d2}
TwoPriorities == {1, 50}
LastIsUrgent == [r \in ThreeRuns |-> IF r = r3 THEN 1 ELSE 50]
EitherSetting == {0, 2}

\* Torrents: one torrent.
OneTorrent == {t1}

\* SearchQueue: two calls for one release, the second one forced.
TwoCalls == {1, 2}
TheRelease == {1}
SameRelease == [c \in TwoCalls |-> 1]
SamePriority == [c \in TwoCalls |-> 2]
SecondOnly == {2}
MoreUrgent == {1}

\* AccountDrive: two copies at most, and two rows of the release.
TwoCopies == {1, 2}
TwoRows == {1, 2}

-----------------------------------------------------------------------------
DownloadsTypeOK == TypeOK /\ TorrentTypeOK /\ SearchTypeOK /\ DriveTypeOK

DownloadsInit ==
  /\ part \in {"slots", "torrents", "search", "drive"}
  /\ Init /\ TorrentInit /\ SearchInit /\ DriveInit
  /\ part # "slots" => setting = 2
  /\ part # "drive" => users = {} /\ ~cleanupSet

SlotsPart == part = "slots" /\ Next /\ UNCHANGED <<part, torrentVars, searchVars, driveVars>>
TorrentsPart ==
  part = "torrents" /\ TorrentNext /\ UNCHANGED <<part, vars, searchVars, driveVars>>
SearchPart == part = "search" /\ SearchNext /\ UNCHANGED <<part, vars, torrentVars, driveVars>>
DrivePart == part = "drive" /\ AccountNext /\ UNCHANGED <<part, vars, torrentVars, searchVars>>

DownloadsNext == SlotsPart \/ TorrentsPart \/ SearchPart \/ DrivePart

\* The fairness of the parts of which something must happen, for the
\* behaviours that run them.
DownloadsFairness ==
  /\ \A r \in Runs : WF_vars(part = "slots" /\ GoesOn(r))
  /\ WF_torrentVars(part = "torrents" /\ PollStep)
  /\ WF_torrentVars(part = "torrents" /\ (ProgressFetch \/ ProgressRemember))
  /\ \A j \in Jobs : WF_torrentVars(part = "torrents" /\ PipelineStep(j))
  /\ \A d \in Rows : WF_torrentVars(part = "torrents" /\ (SaveAdded(d) \/ DeleteRows(d)))

DownloadsSpec ==
  /\ DownloadsInit
  /\ [][DownloadsNext]_<<part, vars, torrentVars, searchVars, driveVars>>
  /\ DownloadsFairness
=============================================================================
