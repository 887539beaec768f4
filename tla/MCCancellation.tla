--------------------------- MODULE MCCancellation ---------------------------
(* Instances for TLC of four parts that share no state, one of which a     *)
(* behaviour runs: the calls of the solver pool and the transfer of an     *)
(* HTTP download, which cancellations cut into; and the removal of         *)
(* downloads in bulk and the refresh of releases, whose rows others change *)
(* meanwhile.                                                              *)
EXTENDS MCSolverPool, HttpTransfer, BulkReplace, ReleaseRefresh

VARIABLE part   \* the part that runs in this behaviour

\* BulkReplace: two calls that may select both transports of a release.
\* ReleaseRefresh: a release refreshed by hand and by a worker of the sweep.
OneReleaseOnly == {1}
TwoCalls == {1, 2}
OneWorker == {11}

CancellationTypeOK == TypeOK /\ TransferTypeOK /\ BulkTypeOK /\ RefreshTypeOK

CancellationInit ==
  /\ part \in {"calls", "transfer", "bulk", "refresh"}
  /\ Init /\ TransferInit /\ BulkInit /\ RefreshInit
  /\ part # "transfer" => ~known /\ ~authenticated
  /\ part # "bulk" => \A k \in Keys : dl[k] = "none"

CallsPart == part = "calls" /\ Next /\ UNCHANGED <<part, transferVars, bulkVars, refreshVars>>
TransferPart ==
  part = "transfer" /\ TransferNext /\ UNCHANGED <<part, vars, bulkVars, refreshVars>>
BulkPart == part = "bulk" /\ BulkNext /\ UNCHANGED <<part, vars, transferVars, refreshVars>>
RefreshPart == part = "refresh" /\ RefreshNext /\ UNCHANGED <<part, vars, transferVars, bulkVars>>

CancellationNext == CallsPart \/ TransferPart \/ BulkPart \/ RefreshPart

CancellationSpec ==
  /\ CancellationInit
  /\ [][CancellationNext]_<<part, vars, transferVars, bulkVars, refreshVars>>
  /\ WF_transferVars(part = "transfer" /\ ControlStep)
  /\ \A w \in Workers : WF_transferVars(part = "transfer" /\ RangeStep(w))
=============================================================================
