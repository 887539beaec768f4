---------------------------- MODULE AccountDrive ----------------------------
(* The files of the user's PikPak drive that downloads make and delete     *)
(* (src/internal/download/http_provider.go, pikpak_health.go, and          *)
(* service.go where it uses them).  To download an authenticated original, *)
(* the shared file is restored, that is copied, into the drive; a copy     *)
(* that is there already is used instead; and a copy that was restored is  *)
(* deleted with its download, or after it.  PikPak copies in its own time, *)
(* and may have taken a request whose answer was lost.                     *)
(* The model follows the downloads of one release, which are for the same  *)
(* shared file and of which one is active; every copy has its name and     *)
(* size.  Of what the user does it has the copies there were before, and   *)
(* deletions: a copy the user adds during a download is not told apart     *)
(* from one the download asked for.                                        *)
EXTENDS Naturals, FiniteSets

CONSTANTS
  Copies,           \* ids of copies in the drive
  HttpRows,         \* rows of the release
  ResolveAttempts,  \* 3 in the code
  RestoreAttempts,  \* 3 in the code
  MaxStarts,        \* bound on the runs of the downloads
  NoCopy

ASSUME DriveAssumption ==
  /\ {ResolveAttempts, RestoreAttempts} \subseteq Nat \ {0}
  /\ MaxStarts \in Nat /\ NoCopy \notin Copies

VARIABLES
  drive,      \* a copy is absent, coming (accepted, not shown), shown, trashed
              \* by the user, or deleted by a download
  users,      \* the copies the user put there
  cleanupSet, \* pikpak_cleanup_restored
  account,    \* the rows: restored_file_id, restored_file_owned, and their state
  run,        \* the active run
  starts      \* runs so far

driveVars == <<drive, users, cleanupSet, account, run, starts>>

BlankRow == [file |-> NoCopy, owned |-> FALSE, state |-> "absent"]
NotRunning ==
  [row |-> 0, pc |-> "none", tries |-> 0, before |-> {}, submits |-> 0, file |-> NoCopy,
   newly |-> FALSE, cleanups |-> {}, held |-> BlankRow, again |-> FALSE]

DriveTypeOK ==
  LET HttpRow == [file : Copies \cup {NoCopy}, owned : BOOLEAN,
              state : {"absent", "active", "failed", "completed", "deleted"}]
  IN /\ drive \in [Copies -> {"absent", "coming", "shown", "trashed", "deleted"}]
     /\ users \subseteq Copies /\ cleanupSet \in BOOLEAN /\ starts \in 0 .. MaxStarts
     /\ account \in [HttpRows -> HttpRow]
     /\ run \in [row : HttpRows \cup {0},
                 pc : {"none", "resolve", "account", "restore", "reconcile", "poll", "details", "transfer", "cleanup"},
                 tries : 0 .. ResolveAttempts, before : SUBSET Copies, submits : 0 .. RestoreAttempts,
                 file : Copies \cup {NoCopy}, newly : BOOLEAN, cleanups : SUBSET Copies,
                 held : HttpRow, again : BOOLEAN]

\* The user may have a copy of the file from before.
DriveInit ==
  /\ users \in {{}} \cup {{c} : c \in Copies}
  /\ drive = [c \in Copies |-> IF c \in users THEN "shown" ELSE "absent"]
  /\ cleanupSet \in BOOLEAN /\ account = [r \in HttpRows |-> BlankRow]
  /\ run = NotRunning /\ starts = 0

Visible == {c \in Copies : drive[c] = "shown"}
Missing == {c \in Copies : drive[c] = "absent"}

\* deleteFile: a copy that is not there any more is no error.
DeleteCopies(set) ==
  drive' = [c \in Copies |-> IF c \in set \cap Visible THEN "deleted" ELSE drive[c]]

Go(pc) == run' = [run EXCEPT !.pc = pc]
RunUnchanged == UNCHANGED <<users, cleanupSet, starts>>

\* PikPak completes a restore; the user deletes a copy.
CopyAppears(c) ==
  /\ drive[c] = "coming" /\ drive' = [drive EXCEPT ![c] = "shown"]
  /\ UNCHANGED <<account, run>> /\ RunUnchanged
UserDeletesCopy(c) ==
  /\ drive[c] = "shown" /\ drive' = [drive EXCEPT ![c] = "trashed"]
  /\ UNCHANGED <<account, run>> /\ RunUnchanged

\* runHTTPDownload begins, for a new row, a retry, or after a restart, with
\* what the row says.
StartRow(r) ==
  /\ run.pc = "none" /\ account[r].state \in {"absent", "failed", "active"}
  /\ \A q \in HttpRows \ {r} : account[q].state # "active"
  /\ starts < MaxStarts /\ starts' = starts + 1
  /\ account' = [account EXCEPT ![r].state = "active"]
  /\ run' = [NotRunning EXCEPT !.row = r, !.pc = "resolve", !.tries = 1, !.held = account'[r]]
  /\ UNCHANGED <<drive, users, cleanupSet>>

-----------------------------------------------------------------------------
(* restoreSharedFile.                                                      *)

\* An attempt of Resolve failed: another one, or the failure of the run (or
\* of its second resolution, which leaves the first failure).
SaveRow(row) ==
  account' = [account EXCEPT ![run.row] = IF @.state = "deleted" THEN @ ELSE row]

FailRun == SaveRow([run.held EXCEPT !.state = "failed"]) /\ run' = NotRunning

AttemptFails ==
  \/ run.tries < ResolveAttempts /\ UNCHANGED account
     /\ run' = [run EXCEPT !.pc = "resolve", !.tries = @ + 1]
  \/ FailRun

\* The share is found and listed, and the file selected; or it is gone, or
\* has no such file.
InspectShare ==
  /\ run.pc = "resolve" /\ Go("account") /\ UNCHANGED <<drive, account>> /\ RunUnchanged
ShareFails ==
  /\ run.pc = "resolve" /\ AttemptFails /\ UNCHANGED drive /\ RunUnchanged

\* Neither the saved session, nor its refresh, nor the password serves.
SignInFails ==
  /\ run.pc = "account" /\ AttemptFails /\ UNCHANGED drive /\ RunUnchanged

\* Mutant. The copy that is found counts as one this attempt restored.
FoundIsNew(c) == run' = [run EXCEPT !.pc = "details", !.file = c, !.newly = TRUE]

\* A copy that is in the restore area already, from whomever.
UseExisting(c) == run' = [run EXCEPT !.pc = "details", !.file = c, !.newly = FALSE]

\* Of several copies the drive lists any first.
Inventory ==
  /\ run.pc = "account" /\ UNCHANGED <<drive, account>> /\ RunUnchanged
  /\ IF Visible # {} THEN \E c \in Visible : UseExisting(c)
     ELSE run' = [run EXCEPT !.pc = "restore", !.before = Visible, !.submits = 1]

\* The request to restore is taken or not, and answered or not.
SubmitRestore ==
  /\ run.pc = "restore" /\ RunUnchanged
  /\ \/ \E c \in Missing : drive' = [drive EXCEPT ![c] = "coming"] /\ UNCHANGED account
                           /\ (Go("poll") \/ Go("reconcile"))
     \/ UNCHANGED <<drive, account>> /\ Go("reconcile")
     \/ AttemptFails /\ UNCHANGED drive

\* findRestoredFile: a copy the inventory did not have is the restored one.
IsNew(c) == c \notin run.before

FindRestored ==
  \E c \in Visible : run' = [run EXCEPT !.pc = "details", !.file = c, !.newly = IsNew(c)]

\* After a lost answer the drive is looked through before the next request;
\* where it cannot be listed, the next request follows as well.
Reconcile ==
  /\ run.pc = "reconcile" /\ UNCHANGED drive /\ RunUnchanged
  /\ \/ FindRestored /\ UNCHANGED account
     \/ IF run.submits < RestoreAttempts
        THEN run' = [run EXCEPT !.pc = "restore", !.submits = @ + 1] /\ UNCHANGED account
        ELSE AttemptFails

\* The task and the drive are polled until the copy is there, for a while.
PollRestore ==
  /\ run.pc = "poll" /\ UNCHANGED drive /\ RunUnchanged
  /\ \/ FindRestored /\ UNCHANGED account
     \/ AttemptFails

-----------------------------------------------------------------------------
(* What a resolution gives the run: the copy, and whether to delete it.    *)
\* Mutant. Every copy that was used is deleted with the download.
CleansAll == cleanupSet

\* resolved.Cleanup is set only for a copy the attempt restored.
CleansUp == cleanupSet /\ run.newly

\* The identity is kept in the row: the first resolution saves it before
\* the transfer starts, the second one leaves that to the next save.
Resolved ==
  /\ run.pc = "details" /\ drive[run.file] = "shown" /\ UNCHANGED drive /\ RunUnchanged
  /\ LET row == [run.held EXCEPT !.file = run.file, !.owned = @ \/ run.newly]
     IN /\ run' = [run EXCEPT !.pc = "transfer", !.held = row,
                              !.cleanups = IF CleansUp THEN @ \cup {run.file} ELSE @]
        /\ IF run.again THEN UNCHANGED account ELSE SaveRow(row)

DetailsFail ==
  /\ run.pc = "details" /\ AttemptFails /\ UNCHANGED drive /\ RunUnchanged

\* The progress of the transfer is saved every second, with the whole row.
SaveProgress ==
  /\ run.pc = "transfer" /\ account[run.row] # run.held /\ SaveRow(run.held)
  /\ UNCHANGED <<drive, run>> /\ RunUnchanged

\* The transfer fails and is repeated with a fresh URL, once.
ResolveAgain ==
  /\ run.pc = "transfer" /\ ~run.again
  /\ run' = [run EXCEPT !.pc = "resolve", !.again = TRUE, !.tries = 1]
  /\ UNCHANGED <<drive, account>> /\ RunUnchanged

TransferFails ==
  /\ run.pc = "transfer" /\ run.again /\ FailRun /\ UNCHANGED drive /\ RunUnchanged

TransferSucceeds ==
  /\ run.pc = "transfer" /\ Go("cleanup") /\ UNCHANGED <<drive, account>> /\ RunUnchanged

\* The clean-ups, each of which may fail; the row keeps what is not deleted.
CleanUp ==
  /\ run.pc = "cleanup" /\ RunUnchanged
  /\ \E failing \in SUBSET run.cleanups :
       LET done == run.cleanups # {} /\ failing = {}
       IN /\ DeleteCopies(run.cleanups \ failing)
          /\ SaveRow([run.held EXCEPT !.owned = @ /\ ~done, !.state = "completed"])
  /\ run' = NotRunning

-----------------------------------------------------------------------------
(* removeHTTPReleaseDownloads: the run of the selected row is cancelled and*)
(* waited for, the owned copies of all rows of the release are deleted,    *)
(* and then the rows; the run of another row goes on without its row.      *)
OwnedCopies == {account[r].file : r \in {q \in HttpRows : account[q].owned}} \ {NoCopy}

RemoveRows(r) ==
  /\ account[r].state \notin {"absent", "deleted"}
  /\ run' = IF run.row = r THEN NotRunning ELSE run
  /\ DeleteCopies(OwnedCopies)
  /\ account' = [q \in HttpRows |->
                   IF account[q].state = "absent" THEN account[q] ELSE [BlankRow EXCEPT !.state = "deleted"]]
  /\ RunUnchanged

\* One of the deletions fails: the rows stay, the copies before it are gone.
RemovalFails(r) ==
  /\ account[r].state \notin {"absent", "deleted"} /\ OwnedCopies # {}
  /\ \E gone \in SUBSET OwnedCopies : gone # OwnedCopies /\ DeleteCopies(gone)
  /\ run' = IF run.row = r THEN NotRunning ELSE run
  /\ UNCHANGED account /\ RunUnchanged

\* The process dies; the row stays active and its run is resumed.
DriveCrash ==
  /\ run.pc # "none" /\ run' = NotRunning
  /\ UNCHANGED <<drive, account>> /\ RunUnchanged

AccountNext ==
  \/ \E c \in Copies : CopyAppears(c) \/ UserDeletesCopy(c)
  \/ \E r \in HttpRows : StartRow(r) \/ RemoveRows(r) \/ RemovalFails(r)
  \/ InspectShare \/ ShareFails \/ SignInFails \/ Inventory \/ SubmitRestore \/ Reconcile \/ PollRestore
  \/ Resolved \/ DetailsFail \/ SaveProgress \/ ResolveAgain \/ TransferFails \/ TransferSucceeds
  \/ CleanUp \/ DriveCrash

AccountSpec == DriveInit /\ [][AccountNext]_driveVars

-----------------------------------------------------------------------------
(* A copy the user put into the drive is deleted by nobody but the user,   *)
(* through resolutions that are repeated after a copy was found, requests  *)
(* whose answer was lost, restarts, and removals of one row or another.    *)
UserFilesStay == \A c \in users : drive[c] # "deleted"
=============================================================================
