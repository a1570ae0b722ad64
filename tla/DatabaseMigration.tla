------------------------- MODULE DatabaseMigration -------------------------
(***************************************************************************)
(* The database migration gate: backend/database_migration.py (prepare,     *)
(* apply, recover) over backend/database_migration_commit.py (the marker    *)
(* journal and the file replacement), the owner lock of                     *)
(* backend/instance_ownership.py and the startup of server.py.              *)
(*                                                                          *)
(* A database file is known by its image (the code: its SHA-256 and logical *)
(* hash): "old" has the schema that needs a migration, "edited" is what an  *)
(* outside writer made of it, an operation names the candidate it prepared, *)
(* "served" is a migrated image that was written to afterwards.  An         *)
(* operation is one prepared.json (operation_id = prepared_sha256).         *)
(*                                                                          *)
(* Everything but work, owner and serving is on disk and survives a crash.  *)
(* Stop is a crash, a kill and every exception: the owner lock is released  *)
(* and the files stay as they are.  Abstracted: paths, aliases, sidecars,   *)
(* digests and schema checks of the artifacts, which only refuse; backup    *)
(* and candidate files, which nothing writes after prepare.                 *)
(***************************************************************************)
EXTENDS Sequences, Naturals

CONSTANTS
    Ops,        \* prepared migrations (operation ids)
    Procs,      \* runs of the migration tool
    Nobody,     \* no owner
    Server,     \* the server as owner
    NoOp,
    MaxMarkers  \* bound: a finalize is retried while the journal is shorter

ASSUME MigrationAssumption ==
    /\ Nobody \notin Procs /\ Server \notin Procs /\ Nobody # Server
    /\ NoOp \notin Ops
    /\ {"old", "edited", "served", "absent"} \cap Ops = {}
    /\ MaxMarkers \in Nat

VARIABLES
    source,     \* the image at the configured database path
    prepared,   \* source image each prepared.json is bound to, or "absent"
    rollback,   \* .migration-<op>.source-before.sqlite3
    failed,     \* .migration-<op>.failed-candidate.sqlite3
    receipt,    \* the receipt of each operation
    journal,    \* the marker files of each operation
    owner,      \* holder of the owner lock
    work,       \* where each run of the tool is, and for which operation
    serving     \* the server passed its startup check

files == <<source, rollback, failed, receipt>>
migrationVars == <<source, prepared, rollback, failed, receipt, journal,
                   owner, work, serving>>

OldSchema == {"old", "edited"}
NewSchema == Ops \cup {"served"}
Images == OldSchema \cup NewSchema \cup {"absent"}
Terminal == {"complete", "rolled_back", "aborted"}
Events == Terminal \cup
    {"intent", "replace_started", "replace_returned", "verified",
     "recovery_verified", "receipt_committed", "rollback_started",
     "rollback_receipt_committed", "abort_verified"}

Idle == [at |-> "idle", op |-> NoOp]
Unleased == {"checked", "intent", "started", "replaced", "rollback", "restored"}
Leased == {"returned", "verifying", "verified", "receipt", "committed",
           "abort", "aborting", "pending_receipt", "rollback_receipt",
           "rollback_committed"}
Places == {"idle", "scanned"} \cup Unleased \cup Leased

MigrationTypeOK ==
    /\ source \in Images
    /\ prepared \in [Ops -> OldSchema \cup {"absent"}]
    /\ rollback \in [Ops -> Images] /\ failed \in [Ops -> Images]
    /\ receipt \in [Ops -> {"absent", "migration", "rollback"}]
    /\ journal \in [Ops -> Seq(Events)]
    /\ owner \in Procs \cup {Nobody, Server}
    /\ work \in [Procs -> [at : Places, op : Ops \cup {NoOp}]]
    /\ serving \in BOOLEAN

MigrationInit ==
    /\ source = "old"
    /\ prepared = [o \in Ops |-> "absent"]
    /\ rollback = [o \in Ops |-> "absent"]
    /\ failed = [o \in Ops |-> "absent"]
    /\ receipt = [o \in Ops |-> "absent"]
    /\ journal = [o \in Ops |-> <<>>]
    /\ owner = Nobody
    /\ work = [p \in Procs |-> Idle]
    /\ serving = FALSE

-----------------------------------------------------------------------------
(* The journal. *)

LastEvent(o) == IF journal[o] = <<>> THEN "none" ELSE journal[o][Len(journal[o])]
Marked(o, e) == \E i \in DOMAIN journal[o] : journal[o][i] = e
Active(o) == journal[o] # <<>> /\ LastEvent(o) \notin Terminal
NoActiveOperation == \A o \in Ops : ~Active(o)

MayFollow(e) ==
    CASE e = "intent" -> {"none"}
      [] e = "replace_started" -> {"intent"}
      [] e = "replace_returned" -> {"replace_started"}
      [] e = "verified" -> {"replace_returned"}
      [] e \in {"recovery_verified", "rollback_started"} ->
            {"replace_started", "replace_returned", "verified"}
            \cup (IF e = "recovery_verified" THEN {e} ELSE {"recovery_verified"})
      [] e = "receipt_committed" -> {"verified", "recovery_verified"}
      [] e = "complete" -> {"receipt_committed"}
      [] e = "rollback_receipt_committed" -> {"rollback_started"}
      [] e = "rolled_back" -> {"rollback_receipt_committed"}
      [] e = "abort_verified" -> {"intent", "replace_started"}
      [] e = "aborted" -> {"abort_verified"}

CanAppend(o, e) == LastEvent(o) \in MayFollow(e)
AppendMarker(o, e) ==
    /\ CanAppend(o, e)
    /\ journal' = [journal EXCEPT ![o] = Append(@, e)]

\* Recovery appends a marker unless a run that stopped left it as the last.
EnsureMarker(o, e) ==
    IF LastEvent(o) = e THEN UNCHANGED journal ELSE AppendMarker(o, e)

-----------------------------------------------------------------------------
(* The owner lock: one process at a time, released when its holder dies. *)

At(p, place) == work[p].at = place
Go(p, place) == work' = [work EXCEPT ![p].at = place]
Leave(p) == work' = [work EXCEPT ![p] = Idle] /\ owner' = Nobody

\* Every step under the lock but the ones that move files.
Step(p, from, to) ==
    /\ At(p, from) /\ Go(p, to)
    /\ UNCHANGED <<prepared, owner, serving>>

Prepare(o) ==
    /\ owner = Nobody /\ prepared[o] = "absent"
    /\ NoActiveOperation
    /\ source \in OldSchema
    /\ prepared' = [prepared EXCEPT ![o] = source]
    /\ UNCHANGED <<files, journal, owner, work, serving>>

\* A crash, or any refusal or exception of a run.
Stop(p) ==
    /\ ~At(p, "idle")
    /\ work' = [work EXCEPT ![p] = Idle]
    /\ owner' = IF owner = p THEN Nobody ELSE owner
    /\ UNCHANGED <<files, prepared, journal, serving>>

-----------------------------------------------------------------------------
(* apply_authorized_migration.  The journals are read before the lock is    *)
(* taken, the images after.                                                 *)

ScanBeforeLock(p, o) ==
    /\ At(p, "idle") /\ prepared[o] # "absent"
    /\ receipt[o] = "absent" /\ journal[o] = <<>>
    /\ NoActiveOperation
    /\ work' = [work EXCEPT ![p] = [at |-> "scanned", op |-> o]]
    /\ UNCHANGED <<files, prepared, journal, owner, serving>>

ImagesAuthorized(o) ==
    rollback[o] = "absent" /\ failed[o] = "absent" /\ source = prepared[o]

LockAndCheck(p) ==
    /\ At(p, "scanned") /\ owner = Nobody
    /\ ImagesAuthorized(work[p].op)
    /\ owner' = p /\ Go(p, "checked")
    /\ UNCHANGED <<files, prepared, journal, serving>>

PublishIntent(p) ==
    /\ Step(p, "checked", "intent") /\ AppendMarker(work[p].op, "intent")
    /\ UNCHANGED files

StartReplacement(p) ==
    /\ Step(p, "intent", "started")
    /\ AppendMarker(work[p].op, "replace_started")
    /\ UNCHANGED files

SourceIs_Unchecked(image) ==   \* mutant: the hash was checked before the lease only
    source # "absent"

\* The hash of the file that is about to be replaced, under its lease.
SourceIs(image) == source = image

ReplaceSource(p) ==
    LET o == work[p].op IN
    /\ Step(p, "started", "replaced") /\ SourceIs(prepared[o])
    /\ source' = o
    /\ rollback' = [rollback EXCEPT ![o] = source]
    /\ UNCHANGED <<failed, receipt, journal>>

\* ReplaceFileW moved the source away and died before moving the candidate in.
TearReplacement(p) ==
    LET o == work[p].op IN
    /\ At(p, "started") /\ SourceIs(prepared[o])
    /\ source' = "absent"
    /\ rollback' = [rollback EXCEPT ![o] = source]
    /\ Leave(p)
    /\ UNCHANGED <<prepared, failed, receipt, journal, serving>>

Replaced(o) == source = o /\ rollback[o] = prepared[o]

RecordReplacement_Unchecked(p) ==   \* mutant: trusts the result of ReplaceFileW
    /\ Step(p, "replaced", "returned")
    /\ AppendMarker(work[p].op, "replace_returned")
    /\ UNCHANGED files

\* The lease on the new source, the checks after the replacement, the marker.
RecordReplacement(p) ==
    /\ Step(p, "replaced", "returned") /\ Replaced(work[p].op)
    /\ AppendMarker(work[p].op, "replace_returned")
    /\ UNCHANGED files

RecordVerified(p) ==
    /\ Step(p, "returned", "verified") /\ Replaced(work[p].op)
    /\ AppendMarker(work[p].op, "verified")
    /\ UNCHANGED files

WriteReceipt(p) ==
    LET o == work[p].op IN
    /\ Step(p, "verified", "receipt") /\ receipt[o] = "absent"
    /\ receipt' = [receipt EXCEPT ![o] = "migration"]
    /\ UNCHANGED <<source, rollback, failed, journal>>

CommitReceipt(p) ==
    /\ Step(p, "receipt", "committed")
    /\ EnsureMarker(work[p].op, "receipt_committed")
    /\ UNCHANGED files

Complete(p) ==
    /\ At(p, "committed") /\ AppendMarker(work[p].op, "complete")
    /\ Leave(p)
    /\ UNCHANGED <<files, prepared, serving>>

-----------------------------------------------------------------------------
(* recover_pending_database_migration. *)

RollbackStarted(o) == Marked(o, "rollback_started")

Classification(o) ==
    CASE /\ source = prepared[o] /\ RollbackStarted(o)
         /\ rollback[o] = "absent" /\ failed[o] = o -> "ROLLED_BACK_PENDING_RECEIPT"
      [] /\ source = prepared[o] /\ ~RollbackStarted(o)
         /\ rollback[o] = "absent" /\ failed[o] = "absent" -> "SOURCE_BEFORE"
      [] Replaced(o) /\ failed[o] = "absent" -> "CANDIDATE"
      [] OTHER -> "UNKNOWN"

CanAbort(o) == Classification(o) = "SOURCE_BEFORE" /\ receipt[o] = "absent"

CanFinalize_NoReceipt(o) ==   \* mutant: a receipt that is already there is refused
    /\ Classification(o) = "CANDIDATE" /\ ~RollbackStarted(o)
    /\ receipt[o] = "absent" /\ LastEvent(o) # "receipt_committed"

CanFinalize(o) ==
    /\ Classification(o) = "CANDIDATE" /\ ~RollbackStarted(o)
    /\ \/ receipt[o] = "migration"
       \/ receipt[o] = "absent" /\ LastEvent(o) # "receipt_committed"

CanRollBack_AnyReceipt(o) ==   \* mutant: the receipt is not looked at
    Classification(o) \in {"CANDIDATE", "ROLLED_BACK_PENDING_RECEIPT"}

CanRollBack(o) ==
    \/ Classification(o) = "CANDIDATE" /\ receipt[o] = "absent"
    \/ Classification(o) = "ROLLED_BACK_PENDING_RECEIPT"

Recover(p, o, place) ==
    /\ At(p, "idle") /\ owner = Nobody /\ Active(o)
    /\ owner' = p
    /\ work' = [work EXCEPT ![p] = [at |-> place, op |-> o]]
    /\ UNCHANGED <<files, prepared, journal, serving>>

StartAbort(p, o) == CanAbort(o) /\ Recover(p, o, "abort")

VerifyAbort(p) ==
    /\ Step(p, "abort", "aborting") /\ EnsureMarker(work[p].op, "abort_verified")
    /\ UNCHANGED files

FinishAbort(p) ==
    /\ At(p, "aborting") /\ AppendMarker(work[p].op, "aborted")
    /\ Leave(p)
    /\ UNCHANGED <<files, prepared, serving>>

StartFinalize(p, o) ==
    /\ CanFinalize(o)
    /\ Recover(p, o, IF receipt[o] = "absent" THEN "verifying" ELSE "receipt")

\* Continues with WriteReceipt, CommitReceipt and Complete of apply.
VerifyRecovery(p) ==
    LET o == work[p].op IN
    /\ Step(p, "verifying", "verified")
    /\ Len(journal[o]) < MaxMarkers
    /\ AppendMarker(o, "recovery_verified")
    /\ UNCHANGED files

StartRollback(p, o) ==
    /\ CanRollBack(o)
    /\ Recover(p, o, IF Classification(o) = "CANDIDATE"
                     THEN "rollback" ELSE "pending_receipt")

MarkRollback(p) ==
    LET o == work[p].op IN
    /\ At(p, "rollback") /\ ~RollbackStarted(o)
    /\ AppendMarker(o, "rollback_started")
    /\ UNCHANGED <<files, prepared, owner, work, serving>>

RestoreSource(p) ==
    LET o == work[p].op IN
    /\ Step(p, "rollback", "restored")
    /\ RollbackStarted(o) /\ SourceIs(o)
    /\ source' = rollback[o]
    /\ failed' = [failed EXCEPT ![o] = source]
    /\ rollback' = [rollback EXCEPT ![o] = "absent"]
    /\ UNCHANGED <<receipt, journal>>

TearRestore(p) ==
    LET o == work[p].op IN
    /\ At(p, "rollback") /\ RollbackStarted(o) /\ SourceIs(o)
    /\ source' = "absent"
    /\ failed' = [failed EXCEPT ![o] = source]
    /\ Leave(p)
    /\ UNCHANGED <<prepared, rollback, receipt, journal, serving>>

LeaseRestored(p) ==
    LET o == work[p].op IN
    /\ Step(p, "restored", "pending_receipt")
    /\ SourceIs(prepared[o]) /\ failed[o] = o
    /\ UNCHANGED <<files, journal>>

WriteRollbackReceipt(p) ==
    LET o == work[p].op IN
    /\ Step(p, "pending_receipt", "rollback_receipt")
    /\ receipt[o] \in {"absent", "rollback"}
    /\ receipt' = [receipt EXCEPT ![o] = "rollback"]
    /\ UNCHANGED <<source, rollback, failed, journal>>

CommitRollbackReceipt(p) ==
    /\ Step(p, "rollback_receipt", "rollback_committed")
    /\ EnsureMarker(work[p].op, "rollback_receipt_committed")
    /\ UNCHANGED files

FinishRollback(p) ==
    /\ At(p, "rollback_committed") /\ AppendMarker(work[p].op, "rolled_back")
    /\ Leave(p)
    /\ UNCHANGED <<files, prepared, serving>>

-----------------------------------------------------------------------------
(* The server, and writers that do not respect the owner lock: a lease on   *)
(* the source shuts them out.                                               *)

ServerLock ==
    /\ owner = Nobody /\ owner' = Server
    /\ UNCHANGED <<files, prepared, journal, work, serving>>

ReadyForStartup_SchemaOnly ==   \* mutant: no scan of the journals
    source \in NewSchema

ReadyForStartup == NoActiveOperation /\ source \in NewSchema

ServerStart ==
    /\ owner = Server /\ ~serving
    /\ serving' = ReadyForStartup
    /\ owner' = IF ReadyForStartup THEN Server ELSE Nobody
    /\ UNCHANGED <<files, prepared, journal, work>>

ServerWrite ==
    /\ serving /\ source' = "served"
    /\ UNCHANGED <<prepared, rollback, failed, receipt, journal, owner, work, serving>>

ServerStop ==
    /\ owner = Server
    /\ owner' = Nobody /\ serving' = FALSE
    /\ UNCHANGED <<files, prepared, journal, work>>

OutsideWrite ==
    /\ source # "absent"
    /\ \A p \in Procs : work[p].at \notin Leased
    /\ source' = IF source \in OldSchema THEN "edited" ELSE "served"
    /\ UNCHANGED <<prepared, rollback, failed, receipt, journal, owner, work, serving>>

ApplyStep(p) ==
    \/ \E o \in Ops : ScanBeforeLock(p, o)
    \/ LockAndCheck(p) \/ PublishIntent(p) \/ StartReplacement(p)
    \/ ReplaceSource(p) \/ TearReplacement(p) \/ RecordReplacement(p)
    \/ RecordVerified(p) \/ WriteReceipt(p) \/ CommitReceipt(p) \/ Complete(p)

RecoveryStep(p) ==
    \/ \E o \in Ops : StartAbort(p, o) \/ StartFinalize(p, o) \/ StartRollback(p, o)
    \/ VerifyAbort(p) \/ FinishAbort(p) \/ VerifyRecovery(p)
    \/ MarkRollback(p) \/ RestoreSource(p) \/ TearRestore(p) \/ LeaseRestored(p)
    \/ WriteRollbackReceipt(p) \/ CommitRollbackReceipt(p) \/ FinishRollback(p)

ServerStep == ServerLock \/ ServerStart \/ ServerWrite \/ ServerStop

MigrationNext ==
    \/ \E o \in Ops : Prepare(o)
    \/ \E p \in Procs : ApplyStep(p) \/ RecoveryStep(p) \/ Stop(p)
    \/ ServerStep \/ OutsideWrite

MigrationSpec == MigrationInit /\ [][MigrationNext]_migrationVars

-----------------------------------------------------------------------------
(* Properties. *)

\* An operation the code can still bring to an end: some recovery action
\* accepts its files, and its journal accepts the marker the action appends.
Recoverable(o) ==
    \/ CanAbort(o) /\ LastEvent(o) \in MayFollow("abort_verified") \cup {"abort_verified"}
    \/ CanFinalize(o) /\ LastEvent(o) \in MayFollow("recovery_verified")
    \/ CanFinalize(o) /\ receipt[o] = "migration"
       /\ LastEvent(o) \in MayFollow("receipt_committed") \cup {"receipt_committed"}
    \/ CanRollBack(o) /\ LastEvent(o) \in MayFollow("rollback_started")
           \cup {"rollback_started", "rollback_receipt_committed"}

\* No other operation ever published an intent.
Alone(o) == \A q \in Ops \ {o} : journal[q] = <<>>

\* A crash at any point of apply or of a recovery, however often, leaves an
\* operation that some recovery action can still end, unless somebody else
\* wrote the database, the replacement itself was torn, or a second operation
\* interfered (database_migration.py:1806-1868 against the marker automaton
\* of database_migration_commit.py:1095-1143).
PendingIsRecoverable ==
    \A o \in Ops : Active(o) /\ source \in {prepared[o], o} /\ Alone(o)
                       => Recoverable(o)

\* The same without the exception for a second operation: whatever other
\* migrations were tried, an interrupted one whose files are intact can be
\* ended (docs/database_migration_gate.md:43; the scan before the lock,
\* database_migration.py:1278-1289).
EveryPendingIsRecoverable ==
    \A o \in Ops : Active(o) /\ source \notin {"absent", "edited", "served"}
                       => Recoverable(o)

\* What the markers, the receipt and the files of an operation say of its
\* outcome agrees, whatever was interrupted and retried: a receipt is never
\* contradicted by a later marker or a later replacement.
OutcomesAgree ==
    \A o \in Ops :
        /\ receipt[o] = "migration" =>
              /\ Marked(o, "verified") \/ Marked(o, "recovery_verified")
              /\ ~RollbackStarted(o) /\ ~Marked(o, "abort_verified")
              /\ rollback[o] = prepared[o] /\ failed[o] = "absent"
        /\ receipt[o] = "rollback" =>
              /\ RollbackStarted(o) /\ ~Marked(o, "receipt_committed")
              /\ rollback[o] = "absent" /\ failed[o] = o
        /\ LastEvent(o) = "complete" => receipt[o] = "migration"
        /\ LastEvent(o) = "rolled_back" => receipt[o] = "rollback"
        /\ Marked(o, "abort_verified") =>
              receipt[o] = "absent" /\ rollback[o] = "absent" /\ failed[o] = "absent"

\* Only the authorized image is ever taken out of the database path: what
\* somebody wrote after prepare (or after the replacement) is never moved
\* away by apply or rollback (the hash check under the lease,
\* database_migration_commit.py:790-819).
OnlyAuthorizedIsReplaced ==
    \A o \in Ops : rollback[o] \in {"absent", prepared[o]} /\ failed[o] \in {"absent", o}

\* While the server serves, no migration is pending and none of the runs is
\* past the owner lock (server.py:21-45).
ServesOnlySettled ==
    serving => NoActiveOperation /\ \A p \in Procs : work[p].at \in {"idle", "scanned"}

\* The images a run verified stay in place until its receipt and its terminal
\* marker are on disk: nobody writes or replaces them under the leases.
VerifiedImagesStay ==
    \A p \in Procs :
        /\ work[p].at \in {"returned", "verified", "receipt", "committed"} =>
              Replaced(work[p].op)
        /\ work[p].at \in {"pending_receipt", "rollback_receipt", "rollback_committed"} =>
              source = prepared[work[p].op] /\ failed[work[p].op] = work[p].op
=============================================================================
