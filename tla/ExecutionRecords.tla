-------------------------- MODULE ExecutionRecords --------------------------
(***************************************************************************)
(* The status column of the table execution_records and the three          *)
(* statements that write it (tako_vm/storage.py).  Each statement is one   *)
(* SQL command, hence atomic: it is modelled as an operator from the       *)
(* status of the row before it to the status after it.  "absent" stands    *)
(* for a row that does not exist.                                          *)
(***************************************************************************)

InFlight == {"queued", "running"}

\* TERMINAL_STATUSES: once a row has one of these, no statement may change it.
Terminal == {"succeeded", "failed", "timeout", "oom", "cancelled"}

RowStatus == {"absent"} \cup InFlight \cup Terminal

\* Mutant: the upsert without its WHERE guard.
SaveRecordUnguarded(old, new) == new

\* save_record: INSERT ... ON CONFLICT DO UPDATE ... WHERE status NOT IN terminal.
\* A refused update (rowcount 0) is logged and reported to nobody.
SaveRecord(old, new) == IF old \in Terminal THEN old ELSE new

\* Mutant: UPDATE ... WHERE execution_id = ... only.
MarkRecordRunningUnguarded(old) == "running"

\* mark_record_running: UPDATE ... WHERE status = 'queued'.
MarkRecordRunning(old) == IF old = "queued" THEN "running" ELSE old

\* Mutant: rows still running are overlooked.
ReconcileQueued(old) == IF old = "queued" THEN "failed" ELSE old

\* reconcile_stale_records: UPDATE ... WHERE status IN ('queued', 'running').
ReconcileStale(old) == IF old \in InFlight THEN "failed" ELSE old
=============================================================================
