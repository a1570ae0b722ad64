-------------------------- MODULE ServerStateProofs --------------------------
(***************************************************************************)
(* Proofs about what a server finds when it starts.  DatabaseMigration, for  *)
(* any number of prepared operations and runs of the tool, rests on LockInv: *)
(* a run past its check of the images holds the owner lock, and a serving    *)
(* server holds it too; the marker steps, which move no file, are treated    *)
(* together (MarkerFrame).  Its outcomes rest on OutcomeInv: what the last   *)
(* marker says of the earlier ones, of the receipt and of the images.        *)
(* PluginLifecycle, for any versions, families, builds, rooms and requests,  *)
(* rests on PluginInv: who names a replacement is no longer ready.  There     *)
(* a transition verifies its own target again (VerifiedIffReplays); that the *)
(* other chains and the replacements stay right is the invariant's part.     *)
(***************************************************************************)
EXTENDS DatabaseMigration, PluginLifecycle, TLAPS


\* Who is at work holds the lock and works on a prepared migration.
LockHeld ==
    /\ \A p \in Procs :
          /\ work[p].at \notin {"idle", "scanned"} => owner = p
          /\ work[p].at # "idle" => work[p].op \in Ops
    /\ serving => owner = Server

LockInv == MigrationTypeOK /\ LockHeld

\* The steps that only publish a marker and move the run that publishes it.
MarkerAction(p) ==
    \/ PublishIntent(p) \/ StartReplacement(p) \/ RecordReplacement(p)
    \/ RecordVerified(p) \/ CommitReceipt(p) \/ Complete(p)
    \/ VerifyAbort(p) \/ FinishAbort(p) \/ VerifyRecovery(p)
    \/ MarkRollback(p) \/ CommitRollbackReceipt(p) \/ FinishRollback(p)

\* A marker keeps the journal's type.
LEMMA MarkerType ==
    ASSUME MigrationTypeOK, NEW o \in Ops, NEW e \in Events,
           EnsureMarker(o, e) \/ AppendMarker(o, e)
    PROVE  journal' \in [Ops -> Seq(Events)]
<1>1. journal[o] \in Seq(Events) /\ journal \in [Ops -> Seq(Events)]
  BY DEF MigrationTypeOK
<1>2. Append(journal[o], e) \in Seq(Events)
  BY <1>1
<1> QED
  BY <1>1, <1>2 DEF EnsureMarker, AppendMarker

\* A marker step belongs to the holder of the lock and touches the journal of
\* its own operation only.
LEMMA MarkerFrame ==
    ASSUME LockInv, NEW p \in Procs, MarkerAction(p)
    PROVE  /\ work[p].at \notin {"idle", "scanned"} /\ owner = p /\ work[p].op \in Ops
           /\ UNCHANGED <<source, prepared, rollback, failed, receipt, serving>>
           /\ \E e \in Events : EnsureMarker(work[p].op, e) \/ AppendMarker(work[p].op, e)
           /\ \/ UNCHANGED <<owner, work>>
              \/ owner' = owner /\ \E to \in Places \ {"idle", "scanned"} :
                                      work' = [work EXCEPT ![p].at = to]
              \/ owner' = Nobody /\ work' = [work EXCEPT ![p] = Idle]
<1>1. CASE PublishIntent(p)
  BY <1>1 DEF PublishIntent, Step, At, Go, files, LockInv, LockHeld,
     MigrationTypeOK, Events, Terminal, Places, Unleased, Leased
<1>2. CASE StartReplacement(p)
  BY <1>2 DEF StartReplacement, Step, At, Go, files, LockInv, LockHeld,
     MigrationTypeOK, Events, Terminal, Places, Unleased, Leased
<1>3. CASE RecordReplacement(p)
  BY <1>3 DEF RecordReplacement, Step, At, Go, files, LockInv, LockHeld,
     MigrationTypeOK, Events, Terminal, Places, Unleased, Leased
<1>4. CASE RecordVerified(p)
  BY <1>4 DEF RecordVerified, Step, At, Go, files, LockInv, LockHeld,
     MigrationTypeOK, Events, Terminal, Places, Unleased, Leased
<1>5. CASE CommitReceipt(p)
  BY <1>5 DEF CommitReceipt, Step, At, Go, files, LockInv, LockHeld,
     MigrationTypeOK, Events, Terminal, Places, Unleased, Leased
<1>6. CASE Complete(p)
  BY <1>6 DEF Complete, At, Leave, files, LockInv, LockHeld, MigrationTypeOK,
     Events, Terminal, Places, Unleased, Leased
<1>7. CASE VerifyAbort(p)
  BY <1>7 DEF VerifyAbort, Step, At, Go, files, LockInv, LockHeld,
     MigrationTypeOK, Events, Terminal, Places, Unleased, Leased
<1>8. CASE FinishAbort(p)
  BY <1>8 DEF FinishAbort, At, Leave, files, LockInv, LockHeld,
     MigrationTypeOK, Events, Terminal, Places, Unleased, Leased
<1>9. CASE VerifyRecovery(p)
  BY <1>9 DEF VerifyRecovery, Step, At, Go, files, LockInv, LockHeld,
     MigrationTypeOK, Events, Terminal, Places, Unleased, Leased
<1>10. CASE MarkRollback(p)
  BY <1>10 DEF MarkRollback, At, files, LockInv, LockHeld, MigrationTypeOK,
     Events, Terminal, Places, Unleased, Leased
<1>11. CASE CommitRollbackReceipt(p)
  BY <1>11 DEF CommitRollbackReceipt, Step, At, Go, files, LockInv, LockHeld,
     MigrationTypeOK, Events, Terminal, Places, Unleased, Leased
<1>12. CASE FinishRollback(p)
  BY <1>12 DEF FinishRollback, At, Leave, files, LockInv, LockHeld,
     MigrationTypeOK, Events, Terminal, Places, Unleased, Leased
<1> QED
  BY <1>1, <1>2, <1>3, <1>4, <1>5, <1>6, <1>7, <1>8, <1>9, <1>10, <1>11, <1>12 DEF
     MarkerAction

\* A run that goes on under the lock.
LEMMA WorkStep ==
    ASSUME LockInv, NEW p \in Procs, NEW to \in Places \ {"idle", "scanned"},
           work[p].at \notin {"idle", "scanned"},
           work' = [work EXCEPT ![p].at = to], UNCHANGED <<owner, serving>>
    PROVE  work' \in [Procs -> [at : Places, op : Ops \cup {NoOp}]] /\ LockHeld'
<1>1. work \in [Procs -> [at : Places, op : Ops \cup {NoOp}]]
  BY DEF LockInv, MigrationTypeOK
<1>2. work' \in [Procs -> [at : Places, op : Ops \cup {NoOp}]]
  BY <1>1
<1>3. /\ work'[p].at = to /\ work'[p].op = work[p].op
      /\ \A q \in Procs \ {p} : work'[q] = work[q]
  BY <1>1
<1> QED
  BY <1>2, <1>3 DEF LockInv, LockHeld

\* A run that ends, here or by a crash.
LEMMA WorkEnds ==
    ASSUME LockInv, NEW p \in Procs, work[p].at # "idle",
           work' = [work EXCEPT ![p] = Idle], UNCHANGED serving,
           owner' = IF owner = p THEN Nobody ELSE owner
    PROVE  work' \in [Procs -> [at : Places, op : Ops \cup {NoOp}]] /\ LockHeld'
<1>1. work \in [Procs -> [at : Places, op : Ops \cup {NoOp}]]
  BY DEF LockInv, MigrationTypeOK
<1>2. Idle \in [at : Places, op : Ops \cup {NoOp}] /\ Idle.at = "idle"
  BY DEF Idle, Places
<1>3. work'[p] = Idle /\ \A q \in Procs \ {p} : work'[q] = work[q]
  BY <1>1
<1>4. work' \in [Procs -> [at : Places, op : Ops \cup {NoOp}]]
  BY <1>1, <1>2
<1> QED
  BY <1>2, <1>3, <1>4, MigrationAssumption DEF LockInv, LockHeld

\* Marker steps keep the types and the lock.
LEMMA MarkerLock ==
    ASSUME LockInv, NEW p \in Procs, MarkerAction(p)
    PROVE  LockInv'
<1>1. journal' \in [Ops -> Seq(Events)]
  BY MarkerFrame, MarkerType DEF LockInv
<1>2. CASE UNCHANGED <<owner, work>>
  BY <1>1, <1>2, MarkerFrame DEF LockInv, MigrationTypeOK, LockHeld
<1>3. CASE owner' = owner /\ \E to \in Places \ {"idle", "scanned"} :
                                work' = [work EXCEPT ![p].at = to]
  BY <1>1, <1>3, MarkerFrame, WorkStep DEF LockInv, MigrationTypeOK
<1>4. CASE owner' = Nobody /\ work' = [work EXCEPT ![p] = Idle]
  <2>1. work' \in [Procs -> [at : Places, op : Ops \cup {NoOp}]] /\ LockHeld'
    BY <1>4, MarkerFrame, WorkEnds
  <2> QED
    BY <1>1, <1>4, <2>1, MarkerFrame DEF LockInv, MigrationTypeOK
<1> QED
  BY <1>2, <1>3, <1>4, MarkerFrame

\* Every step keeps the types and the lock.
LEMMA LockStep ==
    ASSUME LockInv, [MigrationNext]_migrationVars
    PROVE  LockInv'
<1>1. ASSUME NEW o \in Ops, Prepare(o) PROVE LockInv'
  BY <1>1, MigrationAssumption DEF Prepare, files, LockInv, LockHeld,
     MigrationTypeOK, Idle, Places, Unleased, Leased, Images, OldSchema,
     NewSchema
<1>2. ASSUME NEW p \in Procs, NEW o \in Ops, ScanBeforeLock(p, o) PROVE LockInv'
  BY <1>2, MigrationAssumption DEF ScanBeforeLock, At, files, LockInv,
     LockHeld, MigrationTypeOK, Idle, Places, Unleased, Leased, Images,
     OldSchema, NewSchema
<1>3. ASSUME NEW p \in Procs, LockAndCheck(p) PROVE LockInv'
  BY <1>3, MigrationAssumption DEF LockAndCheck, At, Go, files, LockInv,
     LockHeld, MigrationTypeOK, Idle, Places, Unleased, Leased, Images,
     OldSchema, NewSchema
<1>4. ASSUME NEW p \in Procs, ReplaceSource(p) PROVE LockInv'
  <2>1. work[p].at \notin {"idle", "scanned"} /\ work' = [work EXCEPT ![p].at = "replaced"]
        /\ UNCHANGED <<prepared, owner, serving>>
    BY <1>4 DEF ReplaceSource, Step, At, Go
  <2>2. "replaced" \in Places \ {"idle", "scanned"}
    BY DEF Places, Unleased, Leased
  <2>3. work' \in [Procs -> [at : Places, op : Ops \cup {NoOp}]] /\ LockHeld'
    BY <2>1, <2>2, WorkStep
  <2> QED
    BY <1>4, <2>1, <2>3 DEF ReplaceSource, SourceIs, LockInv, LockHeld, MigrationTypeOK, Images, OldSchema, NewSchema
<1>5. ASSUME NEW p \in Procs, TearReplacement(p) PROVE LockInv'
  BY <1>5, MigrationAssumption DEF TearReplacement, At, Leave, SourceIs,
     LockInv, LockHeld, MigrationTypeOK, Idle, Places, Unleased, Leased,
     Images, OldSchema, NewSchema
<1>6. ASSUME NEW p \in Procs, WriteReceipt(p) PROVE LockInv'
  <2>1. work[p].at \notin {"idle", "scanned"} /\ work' = [work EXCEPT ![p].at = "receipt"]
        /\ UNCHANGED <<prepared, owner, serving>>
    BY <1>6 DEF WriteReceipt, Step, At, Go
  <2>2. "receipt" \in Places \ {"idle", "scanned"}
    BY DEF Places, Unleased, Leased
  <2>3. work' \in [Procs -> [at : Places, op : Ops \cup {NoOp}]] /\ LockHeld'
    BY <2>1, <2>2, WorkStep
  <2> QED
    BY <1>6, <2>1, <2>3 DEF WriteReceipt, LockInv, LockHeld, MigrationTypeOK, Images, OldSchema, NewSchema
<1>7. ASSUME NEW p \in Procs, NEW o \in Ops, StartAbort(p, o) PROVE LockInv'
  BY <1>7, MigrationAssumption DEF StartAbort, At, files, Recover, LockInv,
     LockHeld, MigrationTypeOK, Idle, Places, Unleased, Leased, Images,
     OldSchema, NewSchema
<1>8. ASSUME NEW p \in Procs, NEW o \in Ops, StartFinalize(p, o) PROVE LockInv'
  BY <1>8, MigrationAssumption DEF StartFinalize, At, files, Recover, LockInv,
     LockHeld, MigrationTypeOK, Idle, Places, Unleased, Leased, Images,
     OldSchema, NewSchema
<1>9. ASSUME NEW p \in Procs, NEW o \in Ops, StartRollback(p, o) PROVE LockInv'
  BY <1>9, MigrationAssumption DEF StartRollback, At, files, Recover, LockInv,
     LockHeld, MigrationTypeOK, Idle, Places, Unleased, Leased, Images,
     OldSchema, NewSchema
<1>10. ASSUME NEW p \in Procs, RestoreSource(p) PROVE LockInv'
  <2>1. work[p].at \notin {"idle", "scanned"} /\ work' = [work EXCEPT ![p].at = "restored"]
        /\ UNCHANGED <<prepared, owner, serving>>
    BY <1>10 DEF RestoreSource, Step, At, Go
  <2>2. "restored" \in Places \ {"idle", "scanned"}
    BY DEF Places, Unleased, Leased
  <2>3. work' \in [Procs -> [at : Places, op : Ops \cup {NoOp}]] /\ LockHeld'
    BY <2>1, <2>2, WorkStep
  <2> QED
    BY <1>10, <2>1, <2>3 DEF RestoreSource, SourceIs, LockInv, LockHeld, MigrationTypeOK, Images, OldSchema, NewSchema
<1>11. ASSUME NEW p \in Procs, TearRestore(p) PROVE LockInv'
  BY <1>11, MigrationAssumption DEF TearRestore, At, Leave, SourceIs, LockInv,
     LockHeld, MigrationTypeOK, Idle, Places, Unleased, Leased, Images,
     OldSchema, NewSchema
<1>12. ASSUME NEW p \in Procs, LeaseRestored(p) PROVE LockInv'
  <2>1. work[p].at \notin {"idle", "scanned"} /\ work' = [work EXCEPT ![p].at = "pending_receipt"]
        /\ UNCHANGED <<prepared, owner, serving>>
    BY <1>12 DEF LeaseRestored, Step, At, Go
  <2>2. "pending_receipt" \in Places \ {"idle", "scanned"}
    BY DEF Places, Unleased, Leased
  <2>3. work' \in [Procs -> [at : Places, op : Ops \cup {NoOp}]] /\ LockHeld'
    BY <2>1, <2>2, WorkStep
  <2> QED
    BY <1>12, <2>1, <2>3 DEF LeaseRestored, files, LockInv, LockHeld, MigrationTypeOK, Images, OldSchema, NewSchema
<1>13. ASSUME NEW p \in Procs, WriteRollbackReceipt(p) PROVE LockInv'
  <2>1. work[p].at \notin {"idle", "scanned"} /\ work' = [work EXCEPT ![p].at = "rollback_receipt"]
        /\ UNCHANGED <<prepared, owner, serving>>
    BY <1>13 DEF WriteRollbackReceipt, Step, At, Go
  <2>2. "rollback_receipt" \in Places \ {"idle", "scanned"}
    BY DEF Places, Unleased, Leased
  <2>3. work' \in [Procs -> [at : Places, op : Ops \cup {NoOp}]] /\ LockHeld'
    BY <2>1, <2>2, WorkStep
  <2> QED
    BY <1>13, <2>1, <2>3 DEF WriteRollbackReceipt, LockInv, LockHeld, MigrationTypeOK, Images, OldSchema, NewSchema
<1>14. ASSUME NEW p \in Procs, Stop(p) PROVE LockInv'
  BY <1>14, MigrationAssumption DEF Stop, At, files, LockInv, LockHeld,
     MigrationTypeOK, Idle, Places, Unleased, Leased, Images, OldSchema,
     NewSchema
<1>15. ASSUME ServerLock PROVE LockInv'
  BY <1>15, MigrationAssumption DEF ServerLock, files, LockInv, LockHeld,
     MigrationTypeOK, Idle, Places, Unleased, Leased, Images, OldSchema,
     NewSchema
<1>16. ASSUME ServerStart PROVE LockInv'
  <2>1. serving' \in BOOLEAN
    BY <1>16 DEF ServerStart, ReadyForStartup
  <2>2. serving' => owner' = Server
    BY <1>16 DEF ServerStart
  <2> QED
    BY <1>16, <2>1, <2>2, MigrationAssumption DEF ServerStart, files, LockInv, LockHeld, MigrationTypeOK
<1>17. ASSUME ServerWrite PROVE LockInv'
  BY <1>17, MigrationAssumption DEF ServerWrite, LockInv, LockHeld,
     MigrationTypeOK, Idle, Places, Unleased, Leased, Images, OldSchema,
     NewSchema
<1>18. ASSUME ServerStop PROVE LockInv'
  BY <1>18, MigrationAssumption DEF ServerStop, files, LockInv, LockHeld,
     MigrationTypeOK, Idle, Places, Unleased, Leased, Images, OldSchema,
     NewSchema
<1>19. ASSUME OutsideWrite PROVE LockInv'
  BY <1>19, MigrationAssumption DEF OutsideWrite, LockInv, LockHeld,
     MigrationTypeOK, Idle, Places, Unleased, Leased, Images, OldSchema,
     NewSchema
<1>20. ASSUME NEW p \in Procs, MarkerAction(p) PROVE LockInv'
  BY <1>20, MarkerLock
<1>21. ASSUME UNCHANGED migrationVars PROVE LockInv'
  BY <1>21 DEF migrationVars, LockInv, LockHeld, MigrationTypeOK, Idle,
     Places, Unleased, Leased, Images, OldSchema, NewSchema
<1>22. ASSUME NEW p \in Procs, ApplyStep(p) PROVE LockInv'
  BY <1>22, <1>2, <1>3, <1>4, <1>5, <1>6, <1>20 DEF ApplyStep, MarkerAction
<1>23. ASSUME NEW p \in Procs, RecoveryStep(p) PROVE LockInv'
  BY <1>23, <1>7, <1>8, <1>9, <1>10, <1>11, <1>12, <1>13, <1>20 DEF
     RecoveryStep, MarkerAction
<1>24. ASSUME ServerStep PROVE LockInv'
  BY <1>24, <1>15, <1>16, <1>17, <1>18 DEF ServerStep
<1> QED
  BY <1>1, <1>14, <1>19, <1>21, <1>22, <1>23, <1>24 DEF MigrationNext

\* Only authorized images are moved: the hash check guards all four moves.
LEMMA AuthorizedStep ==
    ASSUME LockInv, OnlyAuthorizedIsReplaced, [MigrationNext]_migrationVars
    PROVE  OnlyAuthorizedIsReplaced'
<1>1. ASSUME NEW o \in Ops, Prepare(o) PROVE OnlyAuthorizedIsReplaced'
  BY <1>1, MigrationAssumption DEF Prepare, files, LockInv, LockHeld,
     MigrationTypeOK, OnlyAuthorizedIsReplaced
<1>2. ASSUME NEW p \in Procs, NEW o \in Ops, ScanBeforeLock(p, o) PROVE OnlyAuthorizedIsReplaced'
  BY <1>2, MigrationAssumption DEF ScanBeforeLock, At, files, LockInv,
     LockHeld, MigrationTypeOK, OnlyAuthorizedIsReplaced
<1>3. ASSUME NEW p \in Procs, LockAndCheck(p) PROVE OnlyAuthorizedIsReplaced'
  BY <1>3, MigrationAssumption DEF LockAndCheck, At, Go, files, LockInv,
     LockHeld, MigrationTypeOK, OnlyAuthorizedIsReplaced
<1>4. ASSUME NEW p \in Procs, ReplaceSource(p) PROVE OnlyAuthorizedIsReplaced'
  BY <1>4, MigrationAssumption DEF ReplaceSource, Step, At, Go, SourceIs,
     LockInv, LockHeld, MigrationTypeOK, OnlyAuthorizedIsReplaced
<1>5. ASSUME NEW p \in Procs, TearReplacement(p) PROVE OnlyAuthorizedIsReplaced'
  BY <1>5, MigrationAssumption DEF TearReplacement, At, Leave, SourceIs,
     LockInv, LockHeld, MigrationTypeOK, OnlyAuthorizedIsReplaced
<1>6. ASSUME NEW p \in Procs, WriteReceipt(p) PROVE OnlyAuthorizedIsReplaced'
  BY <1>6, MigrationAssumption DEF WriteReceipt, Step, At, Go, LockInv,
     LockHeld, MigrationTypeOK, OnlyAuthorizedIsReplaced
<1>7. ASSUME NEW p \in Procs, NEW o \in Ops, StartAbort(p, o) PROVE OnlyAuthorizedIsReplaced'
  BY <1>7, MigrationAssumption DEF StartAbort, At, files, Recover, LockInv,
     LockHeld, MigrationTypeOK, OnlyAuthorizedIsReplaced
<1>8. ASSUME NEW p \in Procs, NEW o \in Ops, StartFinalize(p, o) PROVE OnlyAuthorizedIsReplaced'
  BY <1>8, MigrationAssumption DEF StartFinalize, At, files, Recover, LockInv,
     LockHeld, MigrationTypeOK, OnlyAuthorizedIsReplaced
<1>9. ASSUME NEW p \in Procs, NEW o \in Ops, StartRollback(p, o) PROVE OnlyAuthorizedIsReplaced'
  BY <1>9, MigrationAssumption DEF StartRollback, At, files, Recover, LockInv,
     LockHeld, MigrationTypeOK, OnlyAuthorizedIsReplaced
<1>10. ASSUME NEW p \in Procs, RestoreSource(p) PROVE OnlyAuthorizedIsReplaced'
  BY <1>10, MigrationAssumption DEF RestoreSource, Step, At, Go, SourceIs,
     LockInv, LockHeld, MigrationTypeOK, OnlyAuthorizedIsReplaced
<1>11. ASSUME NEW p \in Procs, TearRestore(p) PROVE OnlyAuthorizedIsReplaced'
  BY <1>11, MigrationAssumption DEF TearRestore, At, Leave, SourceIs, LockInv,
     LockHeld, MigrationTypeOK, OnlyAuthorizedIsReplaced
<1>12. ASSUME NEW p \in Procs, LeaseRestored(p) PROVE OnlyAuthorizedIsReplaced'
  BY <1>12, MigrationAssumption DEF LeaseRestored, Step, At, Go, files,
     SourceIs, LockInv, LockHeld, MigrationTypeOK, OnlyAuthorizedIsReplaced
<1>13. ASSUME NEW p \in Procs, WriteRollbackReceipt(p) PROVE OnlyAuthorizedIsReplaced'
  BY <1>13, MigrationAssumption DEF WriteRollbackReceipt, Step, At, Go,
     LockInv, LockHeld, MigrationTypeOK, OnlyAuthorizedIsReplaced
<1>14. ASSUME NEW p \in Procs, Stop(p) PROVE OnlyAuthorizedIsReplaced'
  BY <1>14, MigrationAssumption DEF Stop, At, files, LockInv, LockHeld,
     MigrationTypeOK, OnlyAuthorizedIsReplaced
<1>15. ASSUME ServerLock PROVE OnlyAuthorizedIsReplaced'
  BY <1>15, MigrationAssumption DEF ServerLock, files, LockInv, LockHeld,
     MigrationTypeOK, OnlyAuthorizedIsReplaced
<1>16. ASSUME ServerStart PROVE OnlyAuthorizedIsReplaced'
  BY <1>16, MigrationAssumption DEF ServerStart, files, LockInv, LockHeld,
     MigrationTypeOK, OnlyAuthorizedIsReplaced
<1>17. ASSUME ServerWrite PROVE OnlyAuthorizedIsReplaced'
  BY <1>17, MigrationAssumption DEF ServerWrite, LockInv, LockHeld,
     MigrationTypeOK, OnlyAuthorizedIsReplaced
<1>18. ASSUME ServerStop PROVE OnlyAuthorizedIsReplaced'
  BY <1>18, MigrationAssumption DEF ServerStop, files, LockInv, LockHeld,
     MigrationTypeOK, OnlyAuthorizedIsReplaced
<1>19. ASSUME OutsideWrite PROVE OnlyAuthorizedIsReplaced'
  BY <1>19, MigrationAssumption DEF OutsideWrite, LockInv, LockHeld,
     MigrationTypeOK, OnlyAuthorizedIsReplaced
<1>20. ASSUME NEW p \in Procs, MarkerAction(p) PROVE OnlyAuthorizedIsReplaced'
  BY <1>20, MarkerFrame DEF OnlyAuthorizedIsReplaced
<1>21. ASSUME UNCHANGED migrationVars PROVE OnlyAuthorizedIsReplaced'
  BY <1>21 DEF migrationVars, LockInv, LockHeld, MigrationTypeOK,
     OnlyAuthorizedIsReplaced
<1>22. ASSUME NEW p \in Procs, ApplyStep(p) PROVE OnlyAuthorizedIsReplaced'
  BY <1>22, <1>2, <1>3, <1>4, <1>5, <1>6, <1>20 DEF ApplyStep, MarkerAction
<1>23. ASSUME NEW p \in Procs, RecoveryStep(p) PROVE OnlyAuthorizedIsReplaced'
  BY <1>23, <1>7, <1>8, <1>9, <1>10, <1>11, <1>12, <1>13, <1>20 DEF
     RecoveryStep, MarkerAction
<1>24. ASSUME ServerStep PROVE OnlyAuthorizedIsReplaced'
  BY <1>24, <1>15, <1>16, <1>17, <1>18 DEF ServerStep
<1> QED
  BY <1>1, <1>14, <1>19, <1>21, <1>22, <1>23, <1>24 DEF MigrationNext

\* The server and the runs of the tool exclude each other.
LEMMA SettledStep ==
    ASSUME LockInv, ServesOnlySettled, [MigrationNext]_migrationVars
    PROVE  ServesOnlySettled'
<1>1. ASSUME NEW o \in Ops, Prepare(o) PROVE ServesOnlySettled'
  BY <1>1, MigrationAssumption DEF Prepare, files, LockInv, LockHeld,
     MigrationTypeOK, ServesOnlySettled, NoActiveOperation, Active, LastEvent,
     Idle
<1>2. ASSUME NEW p \in Procs, NEW o \in Ops, ScanBeforeLock(p, o) PROVE ServesOnlySettled'
  BY <1>2, MigrationAssumption DEF ScanBeforeLock, At, files, LockInv,
     LockHeld, MigrationTypeOK, ServesOnlySettled, NoActiveOperation, Active,
     LastEvent, Idle
<1>3. ASSUME NEW p \in Procs, LockAndCheck(p) PROVE ServesOnlySettled'
  BY <1>3, MigrationAssumption DEF LockAndCheck, At, Go, files, LockInv,
     LockHeld, MigrationTypeOK, ServesOnlySettled, NoActiveOperation, Active,
     LastEvent, Idle
<1>4. ASSUME NEW p \in Procs, ReplaceSource(p) PROVE ServesOnlySettled'
  BY <1>4, MigrationAssumption DEF ReplaceSource, Step, At, Go, SourceIs,
     LockInv, LockHeld, MigrationTypeOK, ServesOnlySettled, NoActiveOperation,
     Active, LastEvent, Idle
<1>5. ASSUME NEW p \in Procs, TearReplacement(p) PROVE ServesOnlySettled'
  BY <1>5, MigrationAssumption DEF TearReplacement, At, Leave, SourceIs,
     LockInv, LockHeld, MigrationTypeOK, ServesOnlySettled, NoActiveOperation,
     Active, LastEvent, Idle
<1>6. ASSUME NEW p \in Procs, WriteReceipt(p) PROVE ServesOnlySettled'
  BY <1>6, MigrationAssumption DEF WriteReceipt, Step, At, Go, LockInv,
     LockHeld, MigrationTypeOK, ServesOnlySettled, NoActiveOperation, Active,
     LastEvent, Idle
<1>7. ASSUME NEW p \in Procs, NEW o \in Ops, StartAbort(p, o) PROVE ServesOnlySettled'
  BY <1>7, MigrationAssumption DEF StartAbort, At, files, Recover, LockInv,
     LockHeld, MigrationTypeOK, ServesOnlySettled, NoActiveOperation, Active,
     LastEvent, Idle
<1>8. ASSUME NEW p \in Procs, NEW o \in Ops, StartFinalize(p, o) PROVE ServesOnlySettled'
  BY <1>8, MigrationAssumption DEF StartFinalize, At, files, Recover, LockInv,
     LockHeld, MigrationTypeOK, ServesOnlySettled, NoActiveOperation, Active,
     LastEvent, Idle
<1>9. ASSUME NEW p \in Procs, NEW o \in Ops, StartRollback(p, o) PROVE ServesOnlySettled'
  BY <1>9, MigrationAssumption DEF StartRollback, At, files, Recover, LockInv,
     LockHeld, MigrationTypeOK, ServesOnlySettled, NoActiveOperation, Active,
     LastEvent, Idle
<1>10. ASSUME NEW p \in Procs, RestoreSource(p) PROVE ServesOnlySettled'
  BY <1>10, MigrationAssumption DEF RestoreSource, Step, At, Go, SourceIs,
     LockInv, LockHeld, MigrationTypeOK, ServesOnlySettled, NoActiveOperation,
     Active, LastEvent, Idle
<1>11. ASSUME NEW p \in Procs, TearRestore(p) PROVE ServesOnlySettled'
  BY <1>11, MigrationAssumption DEF TearRestore, At, Leave, SourceIs, LockInv,
     LockHeld, MigrationTypeOK, ServesOnlySettled, NoActiveOperation, Active,
     LastEvent, Idle
<1>12. ASSUME NEW p \in Procs, LeaseRestored(p) PROVE ServesOnlySettled'
  BY <1>12, MigrationAssumption DEF LeaseRestored, Step, At, Go, files,
     SourceIs, LockInv, LockHeld, MigrationTypeOK, ServesOnlySettled,
     NoActiveOperation, Active, LastEvent, Idle
<1>13. ASSUME NEW p \in Procs, WriteRollbackReceipt(p) PROVE ServesOnlySettled'
  BY <1>13, MigrationAssumption DEF WriteRollbackReceipt, Step, At, Go,
     LockInv, LockHeld, MigrationTypeOK, ServesOnlySettled, NoActiveOperation,
     Active, LastEvent, Idle
<1>14. ASSUME NEW p \in Procs, Stop(p) PROVE ServesOnlySettled'
  BY <1>14, MigrationAssumption DEF Stop, At, files, LockInv, LockHeld,
     MigrationTypeOK, ServesOnlySettled, NoActiveOperation, Active, LastEvent,
     Idle
<1>15. ASSUME ServerLock PROVE ServesOnlySettled'
  BY <1>15, MigrationAssumption DEF ServerLock, files, LockInv, LockHeld,
     MigrationTypeOK, ServesOnlySettled, NoActiveOperation, Active, LastEvent,
     Idle
<1>16. ASSUME ServerStart PROVE ServesOnlySettled'
  <2>1. \A p \in Procs : work[p].at \in {"idle", "scanned"}
    BY <1>16, MigrationAssumption DEF ServerStart, LockInv, LockHeld
  <2>2. serving' => NoActiveOperation
    BY <1>16 DEF ServerStart, ReadyForStartup
  <2> QED
    BY <1>16, <2>1, <2>2 DEF ServerStart, ServesOnlySettled, NoActiveOperation,
       Active, LastEvent
<1>17. ASSUME ServerWrite PROVE ServesOnlySettled'
  BY <1>17, MigrationAssumption DEF ServerWrite, LockInv, LockHeld,
     MigrationTypeOK, ServesOnlySettled, NoActiveOperation, Active, LastEvent,
     Idle
<1>18. ASSUME ServerStop PROVE ServesOnlySettled'
  BY <1>18, MigrationAssumption DEF ServerStop, files, LockInv, LockHeld,
     MigrationTypeOK, ServesOnlySettled, NoActiveOperation, Active, LastEvent,
     Idle
<1>19. ASSUME OutsideWrite PROVE ServesOnlySettled'
  BY <1>19, MigrationAssumption DEF OutsideWrite, LockInv, LockHeld,
     MigrationTypeOK, ServesOnlySettled, NoActiveOperation, Active, LastEvent,
     Idle
<1>20. ASSUME NEW p \in Procs, MarkerAction(p) PROVE ServesOnlySettled'
  BY <1>20, MarkerFrame, MigrationAssumption DEF LockInv, LockHeld, ServesOnlySettled
<1>21. ASSUME UNCHANGED migrationVars PROVE ServesOnlySettled'
  BY <1>21 DEF migrationVars, LockInv, LockHeld, MigrationTypeOK,
     ServesOnlySettled, NoActiveOperation, Active, LastEvent, Idle
<1>22. ASSUME NEW p \in Procs, ApplyStep(p) PROVE ServesOnlySettled'
  BY <1>22, <1>2, <1>3, <1>4, <1>5, <1>6, <1>20 DEF ApplyStep, MarkerAction
<1>23. ASSUME NEW p \in Procs, RecoveryStep(p) PROVE ServesOnlySettled'
  BY <1>23, <1>7, <1>8, <1>9, <1>10, <1>11, <1>12, <1>13, <1>20 DEF
     RecoveryStep, MarkerAction
<1>24. ASSUME ServerStep PROVE ServesOnlySettled'
  BY <1>24, <1>15, <1>16, <1>17, <1>18 DEF ServerStep
<1> QED
  BY <1>1, <1>14, <1>19, <1>21, <1>22, <1>23, <1>24 DEF MigrationNext

\* VerifiedImagesStay, and the place where a finalize has accepted the images.
ImagesKept ==
    \A p \in Procs :
        /\ work[p].at \in {"returned", "verifying", "verified", "receipt", "committed"} =>
              Replaced(work[p].op)
        /\ work[p].at \in {"pending_receipt", "rollback_receipt", "rollback_committed"} =>
              source = prepared[work[p].op] /\ failed[work[p].op] = work[p].op

\* While a run holds the lock no other run is at a place that has images to keep.
LEMMA OthersOut ==
    ASSUME LockInv, NEW p \in Procs, owner = p
    PROVE  \A q \in Procs \ {p} : work[q].at \in {"idle", "scanned"}
BY DEF LockInv, LockHeld

\* What recovery concludes from the files.
LEMMA ClassificationMeans ==
    ASSUME NEW o \in Ops
    PROVE  /\ Classification(o) = "CANDIDATE" => Replaced(o)
           /\ Classification(o) = "ROLLED_BACK_PENDING_RECEIPT" =>
                 source = prepared[o] /\ failed[o] = o
BY DEF Classification

\* Marker steps are taken only while the images are in place.
LEMMA MarkerImages ==
    ASSUME LockInv, ImagesKept, NEW p \in Procs, MarkerAction(p)
    PROVE  ImagesKept'
<1> USE DEF Replaced
<1>1. \A q \in Procs \ {p} : work'[q].at \in {"idle", "scanned"}
  BY MarkerFrame, OthersOut DEF LockInv, MigrationTypeOK
<1>2. UNCHANGED <<source, prepared, rollback, failed>> /\ work[p].op \in Ops
  BY MarkerFrame
<1>3. CASE PublishIntent(p)
  BY <1>1, <1>2, <1>3 DEF PublishIntent, Step, At, Go, LockInv,
     MigrationTypeOK, ImagesKept
<1>4. CASE StartReplacement(p)
  BY <1>1, <1>2, <1>4 DEF StartReplacement, Step, At, Go, LockInv,
     MigrationTypeOK, ImagesKept
<1>5. CASE RecordReplacement(p)
  BY <1>1, <1>2, <1>5 DEF RecordReplacement, Step, At, Go, LockInv,
     MigrationTypeOK, ImagesKept
<1>6. CASE RecordVerified(p)
  BY <1>1, <1>2, <1>6 DEF RecordVerified, Step, At, Go, LockInv,
     MigrationTypeOK, ImagesKept
<1>7. CASE CommitReceipt(p)
  BY <1>1, <1>2, <1>7 DEF CommitReceipt, Step, At, Go, LockInv,
     MigrationTypeOK, ImagesKept
<1>8. CASE Complete(p)
  BY <1>1, <1>2, <1>8 DEF Complete, At, Leave, LockInv, MigrationTypeOK,
     ImagesKept, Idle
<1>9. CASE VerifyAbort(p)
  BY <1>1, <1>2, <1>9 DEF VerifyAbort, Step, At, Go, LockInv, MigrationTypeOK,
     ImagesKept
<1>10. CASE FinishAbort(p)
  BY <1>1, <1>2, <1>10 DEF FinishAbort, At, Leave, LockInv, MigrationTypeOK,
     ImagesKept, Idle
<1>11. CASE VerifyRecovery(p)
  BY <1>1, <1>2, <1>11 DEF VerifyRecovery, Step, At, Go, LockInv,
     MigrationTypeOK, ImagesKept
<1>12. CASE MarkRollback(p)
  BY <1>1, <1>2, <1>12 DEF MarkRollback, At, LockInv, MigrationTypeOK,
     ImagesKept
<1>13. CASE CommitRollbackReceipt(p)
  BY <1>1, <1>2, <1>13 DEF CommitRollbackReceipt, Step, At, Go, LockInv,
     MigrationTypeOK, ImagesKept
<1>14. CASE FinishRollback(p)
  BY <1>1, <1>2, <1>14 DEF FinishRollback, At, Leave, LockInv,
     MigrationTypeOK, ImagesKept, Idle
<1> QED
  BY <1>3, <1>4, <1>5, <1>6, <1>7, <1>8, <1>9, <1>10, <1>11, <1>12, <1>13, <1>14 DEF
     MarkerAction

\* Only the holder of the lock, or a writer while there is no lease, moves them.
LEMMA ImagesStep ==
    ASSUME LockInv, ImagesKept, [MigrationNext]_migrationVars
    PROVE  ImagesKept'
<1>1. ASSUME NEW o \in Ops, Prepare(o) PROVE ImagesKept'
  BY <1>1, OthersOut, MigrationAssumption DEF Prepare, files, LockInv,
     LockHeld, MigrationTypeOK, ImagesKept, Replaced, Idle
<1>2. ASSUME NEW p \in Procs, NEW o \in Ops, ScanBeforeLock(p, o) PROVE ImagesKept'
  BY <1>2, OthersOut, MigrationAssumption DEF ScanBeforeLock, At, files,
     LockInv, LockHeld, MigrationTypeOK, ImagesKept, Replaced, Idle
<1>3. ASSUME NEW p \in Procs, LockAndCheck(p) PROVE ImagesKept'
  BY <1>3, OthersOut, MigrationAssumption DEF LockAndCheck, At, Go, files,
     LockInv, LockHeld, MigrationTypeOK, ImagesKept, Replaced, Idle
<1>4. ASSUME NEW p \in Procs, ReplaceSource(p) PROVE ImagesKept'
  BY <1>4, OthersOut, MigrationAssumption, SMTT(30) DEF ReplaceSource, Step, At, Go,
     SourceIs, LockInv, LockHeld, MigrationTypeOK, ImagesKept, Replaced, Idle
<1>5. ASSUME NEW p \in Procs, TearReplacement(p) PROVE ImagesKept'
  BY <1>5, OthersOut, MigrationAssumption DEF TearReplacement, At, Leave,
     SourceIs, LockInv, LockHeld, MigrationTypeOK, ImagesKept, Replaced, Idle
<1>6. ASSUME NEW p \in Procs, WriteReceipt(p) PROVE ImagesKept'
  BY <1>6, OthersOut, MigrationAssumption DEF WriteReceipt, Step, At, Go,
     LockInv, LockHeld, MigrationTypeOK, ImagesKept, Replaced, Idle
<1>7. ASSUME NEW p \in Procs, NEW o \in Ops, StartAbort(p, o) PROVE ImagesKept'
  BY <1>7, OthersOut, MigrationAssumption DEF StartAbort, At, files, Recover,
     LockInv, LockHeld, MigrationTypeOK, ImagesKept, Replaced, Idle
<1>8. ASSUME NEW p \in Procs, NEW o \in Ops, StartFinalize(p, o) PROVE ImagesKept'
  <2>1. \A q \in Procs : work[q].at \in {"idle", "scanned"}
    BY <1>8, MigrationAssumption DEF StartFinalize, Recover, LockInv, LockHeld
  <2>2. \A q \in Procs \ {p} : work'[q].at \in {"idle", "scanned"}
    BY <1>8, <2>1 DEF StartFinalize, Recover, LockInv, MigrationTypeOK
  <2>3. work'[p].op = o /\ UNCHANGED <<source, prepared, rollback, failed>>
    BY <1>8 DEF StartFinalize, Recover, files, LockInv, MigrationTypeOK
  <2>4. Replaced(o) /\ work'[p].at \in {"verifying", "receipt"}
    BY <1>8, ClassificationMeans DEF StartFinalize, CanFinalize, Recover, LockInv, MigrationTypeOK
  <2> QED
    BY <2>2, <2>3, <2>4 DEF ImagesKept, Replaced
<1>9. ASSUME NEW p \in Procs, NEW o \in Ops, StartRollback(p, o) PROVE ImagesKept'
  <2>1. \A q \in Procs : work[q].at \in {"idle", "scanned"}
    BY <1>9, MigrationAssumption DEF StartRollback, Recover, LockInv, LockHeld
  <2>2. \A q \in Procs \ {p} : work'[q].at \in {"idle", "scanned"}
    BY <1>9, <2>1 DEF StartRollback, Recover, LockInv, MigrationTypeOK
  <2>3. work'[p].op = o /\ UNCHANGED <<source, prepared, rollback, failed>>
    BY <1>9 DEF StartRollback, Recover, files, LockInv, MigrationTypeOK
  <2>4. \/ work'[p].at = "rollback"
        \/ work'[p].at = "pending_receipt" /\ source = prepared[o] /\ failed[o] = o
    BY <1>9, ClassificationMeans DEF StartRollback, CanRollBack, Recover, LockInv, MigrationTypeOK
  <2> QED
    BY <2>2, <2>3, <2>4 DEF ImagesKept, Replaced
<1>10. ASSUME NEW p \in Procs, RestoreSource(p) PROVE ImagesKept'
  <2>1. owner = p
    BY <1>10 DEF RestoreSource, Step, At, LockInv, LockHeld
  <2>2. \A q \in Procs \ {p} : work'[q].at \in {"idle", "scanned"}
    BY <1>10, <2>1, OthersOut DEF RestoreSource, Step, At, Go, Leave, LockInv, MigrationTypeOK
  <2>3. work'[p].at = "restored"
    BY <1>10 DEF RestoreSource, Step, At, Go, Leave, Idle, LockInv, MigrationTypeOK
  <2> QED
    BY <2>2, <2>3 DEF ImagesKept
<1>11. ASSUME NEW p \in Procs, TearRestore(p) PROVE ImagesKept'
  <2>1. owner = p
    BY <1>11 DEF TearRestore, At, LockInv, LockHeld
  <2>2. \A q \in Procs \ {p} : work'[q].at \in {"idle", "scanned"}
    BY <1>11, <2>1, OthersOut DEF TearRestore, At, Go, Leave, LockInv, MigrationTypeOK
  <2>3. work'[p].at = "idle"
    BY <1>11 DEF TearRestore, At, Go, Leave, Idle, LockInv, MigrationTypeOK
  <2> QED
    BY <2>2, <2>3 DEF ImagesKept
<1>12. ASSUME NEW p \in Procs, LeaseRestored(p) PROVE ImagesKept'
  BY <1>12, OthersOut, MigrationAssumption DEF LeaseRestored, Step, At, Go,
     files, SourceIs, LockInv, LockHeld, MigrationTypeOK, ImagesKept,
     Replaced, Idle
<1>13. ASSUME NEW p \in Procs, WriteRollbackReceipt(p) PROVE ImagesKept'
  BY <1>13, OthersOut, MigrationAssumption DEF WriteRollbackReceipt, Step, At,
     Go, LockInv, LockHeld, MigrationTypeOK, ImagesKept, Replaced, Idle
<1>14. ASSUME NEW p \in Procs, Stop(p) PROVE ImagesKept'
  BY <1>14, OthersOut, MigrationAssumption DEF Stop, At, files, LockInv,
     LockHeld, MigrationTypeOK, ImagesKept, Replaced, Idle
<1>15. ASSUME ServerLock PROVE ImagesKept'
  BY <1>15, OthersOut, MigrationAssumption DEF ServerLock, files, LockInv,
     LockHeld, MigrationTypeOK, ImagesKept, Replaced, Idle
<1>16. ASSUME ServerStart PROVE ImagesKept'
  BY <1>16, OthersOut, MigrationAssumption DEF ServerStart, files, LockInv,
     LockHeld, MigrationTypeOK, ImagesKept, Replaced, Idle
<1>17. ASSUME ServerWrite PROVE ImagesKept'
  <2>1. \A p \in Procs : work[p].at \in {"idle", "scanned"}
    BY <1>17, MigrationAssumption DEF ServerWrite, LockInv, LockHeld
  <2> QED
    BY <1>17, <2>1 DEF ServerWrite, ImagesKept
<1>18. ASSUME ServerStop PROVE ImagesKept'
  BY <1>18, OthersOut, MigrationAssumption DEF ServerStop, files, LockInv,
     LockHeld, MigrationTypeOK, ImagesKept, Replaced, Idle
<1>19. ASSUME OutsideWrite PROVE ImagesKept'
  <2>1. \A p \in Procs : work'[p].at \notin Leased
    BY <1>19 DEF OutsideWrite
  <2> QED
    BY <2>1 DEF ImagesKept, Leased
<1>20. ASSUME NEW p \in Procs, MarkerAction(p) PROVE ImagesKept'
  BY <1>20, MarkerImages
<1>21. ASSUME UNCHANGED migrationVars PROVE ImagesKept'
  BY <1>21 DEF migrationVars, LockInv, LockHeld, MigrationTypeOK, ImagesKept,
     Replaced, Idle
<1>22. ASSUME NEW p \in Procs, ApplyStep(p) PROVE ImagesKept'
  BY <1>22, <1>2, <1>3, <1>4, <1>5, <1>6, <1>20 DEF ApplyStep, MarkerAction
<1>23. ASSUME NEW p \in Procs, RecoveryStep(p) PROVE ImagesKept'
  BY <1>23, <1>7, <1>8, <1>9, <1>10, <1>11, <1>12, <1>13, <1>20 DEF
     RecoveryStep, MarkerAction
<1>24. ASSUME ServerStep PROVE ImagesKept'
  BY <1>24, <1>15, <1>16, <1>17, <1>18 DEF ServerStep
<1> QED
  BY <1>1, <1>14, <1>19, <1>21, <1>22, <1>23, <1>24 DEF MigrationNext

-----------------------------------------------------------------------------
(* The theorems. *)

\* No run is at work at the start.
LEMMA LockInit == MigrationInit => LockInv
<1> SUFFICES ASSUME MigrationInit PROVE LockInv
  OBVIOUS
<1>1. <<>> \in Seq(Events) /\ "absent" \in Images /\ "old" \in Images
  BY DEF Images, OldSchema
<1>2. Idle \in [at : Places, op : Ops \cup {NoOp}] /\ Idle.at = "idle"
  BY DEF Idle, Places
<1>3. MigrationTypeOK
  BY <1>1, <1>2 DEF MigrationInit, MigrationTypeOK
<1>4. LockHeld
  BY <1>2 DEF MigrationInit, LockHeld
<1> QED
  BY <1>3, <1>4 DEF LockInv

\* LockInv is inductive.
LEMMA LockAlways == MigrationSpec => []LockInv
BY LockInit, LockStep, PTL DEF MigrationSpec

\* Whatever is interrupted, the files hold images, the journals markers, and
\* the owner lock is held by a run or by the server.
THEOREM MigrationTypes == MigrationSpec => []MigrationTypeOK
BY LockAlways, PTL DEF LockInv

\* apply and rollback move nothing out of the database path that is not the
\* image they were authorized for (replace_file_with_backup).
THEOREM NothingElseIsReplaced == MigrationSpec => []OnlyAuthorizedIsReplaced
<1>1. MigrationInit => OnlyAuthorizedIsReplaced
  BY DEF MigrationInit, OnlyAuthorizedIsReplaced
<1>2. LockInv /\ OnlyAuthorizedIsReplaced /\ [MigrationNext]_migrationVars
          => OnlyAuthorizedIsReplaced'
  BY AuthorizedStep
<1> QED
  BY <1>1, <1>2, LockAlways, PTL DEF MigrationSpec

\* The server serves only when no migration is pending and no run of the tool
\* is past the lock (assert_database_ready_for_startup, acquire).
THEOREM ServerWaits == MigrationSpec => []ServesOnlySettled
<1>1. MigrationInit => ServesOnlySettled
  BY DEF MigrationInit, ServesOnlySettled
<1>2. LockInv /\ ServesOnlySettled /\ [MigrationNext]_migrationVars
          => ServesOnlySettled'
  BY SettledStep
<1> QED
  BY <1>1, <1>2, LockAlways, PTL DEF MigrationSpec

\* What a run verified under its leases stays until its outcome is recorded.
THEOREM LeasesProtect == MigrationSpec => []VerifiedImagesStay
<1>1. MigrationInit => ImagesKept
  BY DEF MigrationInit, ImagesKept, Idle
<1>2. LockInv /\ ImagesKept /\ [MigrationNext]_migrationVars => ImagesKept'
  BY ImagesStep
<1>3. ImagesKept => VerifiedImagesStay
  BY DEF ImagesKept, VerifiedImagesStay
<1> QED
  BY <1>1, <1>2, <1>3, LockAlways, PTL DEF MigrationSpec

-----------------------------------------------------------------------------
(* The outcome of a migration.                                              *)

\* The candidate was verified in place, by apply or by a recovery.
Checked(o) == Marked(o, "verified") \/ Marked(o, "recovery_verified")

\* What the last marker says of the markers before it.
Shape(o) ==
    LET last == LastEvent(o) IN
    /\ Marked(o, "abort_verified") <=> last \in {"abort_verified", "aborted"}
    /\ Marked(o, "rollback_started") <=>
          last \in {"rollback_started", "rollback_receipt_committed", "rolled_back"}
    /\ Marked(o, "receipt_committed") <=> last \in {"receipt_committed", "complete"}
    /\ Checked(o) => last \notin {"none", "intent", "replace_started", "replace_returned",
                                  "abort_verified", "aborted"}
    /\ last \in {"verified", "recovery_verified", "receipt_committed", "complete"} => Checked(o)

\* The outcome of one operation.
Agrees(o) ==
    LET last == LastEvent(o) IN
    /\ receipt[o] = "migration" => /\ Checked(o) /\ ~RollbackStarted(o)
                                   /\ rollback[o] = prepared[o] /\ failed[o] = "absent"
    /\ receipt[o] = "rollback" => RollbackStarted(o) /\ rollback[o] = "absent" /\ failed[o] = o
    /\ last \in {"receipt_committed", "complete"} => receipt[o] = "migration"
    /\ last \in {"rollback_receipt_committed", "rolled_back"} => receipt[o] = "rollback"
    /\ last \in {"abort_verified", "aborted"} =>
          receipt[o] = "absent" /\ rollback[o] = "absent" /\ failed[o] = "absent"
    /\ last # "none" => prepared[o] # "absent"

\* The three things the images of an operation can be while it is pending.
Untouched(o) == source \in OldSchema /\ rollback[o] = "absent" /\ failed[o] = "absent"
MovedIn(o) == source \in {o, "served"} /\ rollback[o] = prepared[o] /\ failed[o] = "absent"
MovedBack(o) == source \in OldSchema /\ rollback[o] = "absent" /\ failed[o] = o

\* What a run at a place of the code may rely on, and the runs that are there.
PlaceFacts(o, at) ==
    LET last == LastEvent(o) IN
    /\ at # "idle" => prepared[o] # "absent"
    /\ at \in {"checked", "intent", "started", "abort", "aborting"} => Untouched(o)
    /\ at \in {"replaced", "returned", "verified", "receipt", "committed", "verifying",
               "rollback"} => MovedIn(o)
    /\ at \in {"restored", "pending_receipt", "rollback_receipt", "rollback_committed"} =>
          MovedBack(o) /\ RollbackStarted(o)
    /\ at = "intent" => last = "intent"
    /\ at \in {"started", "replaced"} => last = "replace_started"
    /\ at = "returned" => last = "replace_returned"
    /\ at = "verified" => last \in {"verified", "recovery_verified"}
    /\ at \in {"receipt", "committed"} => receipt[o] = "migration"
    /\ at = "committed" => last = "receipt_committed"
    /\ at \in {"abort", "rollback"} => receipt[o] = "absent"
    /\ at = "aborting" => last = "abort_verified"
    /\ at \in {"rollback_receipt", "rollback_committed"} => receipt[o] = "rollback"
    /\ at = "rollback_committed" => last = "rollback_receipt_committed"

PlaceOK(p) == PlaceFacts(work[p].op, work[p].at)

\* The images of a pending operation that no other interfered with.
Pending(o) ==
    Active(o) /\ Alone(o) =>
        LET last == LastEvent(o) IN
        \/ source = "absent"
        \/ Untouched(o) /\ last \in {"intent", "replace_started", "abort_verified"}
        \/ MovedIn(o) /\ last \in {"replace_started", "replace_returned", "verified",
                                   "recovery_verified", "receipt_committed", "rollback_started"}
        \/ MovedBack(o) /\ last \in {"rollback_started", "rollback_receipt_committed"}

OperationOK(o) == Shape(o) /\ Agrees(o) /\ Pending(o)

\* The inductive invariant of the outcomes.
OutcomeInv ==
    /\ LockInv /\ ServesOnlySettled
    /\ \A o \in Ops : OperationOK(o)
    /\ \A p \in Procs : PlaceOK(p)

\* What a marker adds to a journal.
LEMMA JournalGrows ==
    ASSUME MigrationTypeOK, NEW o \in Ops, NEW e \in Events, AppendMarker(o, e)
    PROVE  /\ LastEvent(o) \in MayFollow(e) /\ LastEvent(o)' = e /\ journal'[o] # <<>>
           /\ \A x : Marked(o, x)' <=> Marked(o, x) \/ x = e
           /\ \A q \in Ops \ {o} : journal'[q] = journal[q]
<1>1. journal \in [Ops -> Seq(Events)] /\ journal[o] \in Seq(Events)
  BY DEF MigrationTypeOK
<1>2. /\ journal'[o] = Append(journal[o], e)
      /\ \A q \in Ops \ {o} : journal'[q] = journal[q]
  BY <1>1 DEF AppendMarker
<1> DEFINE n == Len(journal[o]) + 1
<1>3. /\ Len(journal[o]) \in Nat /\ Len(journal'[o]) = n /\ DOMAIN journal[o] = 1 .. Len(journal[o])
      /\ DOMAIN journal'[o] = 1 .. n /\ journal'[o][n] = e
      /\ \A i \in 1 .. Len(journal[o]) : journal'[o][i] = journal[o][i]
      /\ journal'[o] # <<>>
  BY <1>1, <1>2
<1>4. LastEvent(o)' = e
  BY <1>3 DEF LastEvent
<1>5. \A i : i \in 1 .. n <=> i \in 1 .. Len(journal[o]) \/ i = n
  BY <1>3
<1> HIDE DEF n
<1>6. \A x : Marked(o, x)' <=> Marked(o, x) \/ x = e
  BY <1>3, <1>5 DEF Marked
<1> QED
  BY <1>2, <1>3, <1>4, <1>6 DEF AppendMarker, CanAppend

\* A journal that stays says the same.
LEMMA JournalStays ==
    ASSUME NEW o, journal'[o] = journal[o]
    PROVE  /\ LastEvent(o)' = LastEvent(o)
           /\ \A x : Marked(o, x)' <=> Marked(o, x)
BY DEF LastEvent, Marked

\* A journal has a last marker unless it is empty.
LEMMA EmptyJournal ==
    ASSUME MigrationTypeOK, NEW o \in Ops
    PROVE  /\ LastEvent(o) = "none" <=> journal[o] = <<>>
           /\ LastEvent(o) \in Events \cup {"none"}
<1>1. journal[o] \in Seq(Events)
  BY DEF MigrationTypeOK
<1>2. journal[o] # <<>> => journal[o][Len(journal[o])] \in Events
  BY <1>1
<1>3. "none" \notin Events
  BY DEF Events, Terminal
<1> QED
  BY <1>2, <1>3 DEF LastEvent

\* The automaton of the markers keeps what the last one says.
LEMMA ShapeStep ==
    ASSUME MigrationTypeOK, NEW o \in Ops, NEW e \in Events, AppendMarker(o, e), Shape(o)
    PROVE  Shape(o)'
<1>1. /\ LastEvent(o) \in MayFollow(e) /\ LastEvent(o)' = e
      /\ \A x : Marked(o, x)' <=> Marked(o, x) \/ x = e
  BY JournalGrows
<1>2. /\ Marked(o, "abort_verified")' <=> Marked(o, "abort_verified") \/ "abort_verified" = e
      /\ Marked(o, "rollback_started")' <=> Marked(o, "rollback_started") \/ "rollback_started" = e
      /\ Marked(o, "receipt_committed")' <=> Marked(o, "receipt_committed") \/ "receipt_committed" = e
      /\ Checked(o)' <=> Checked(o) \/ "verified" = e \/ "recovery_verified" = e
  BY <1>1 DEF Checked
<1> QED
  BY <1>1, <1>2 DEF Shape, MayFollow, Events, Terminal

\* What a marker may be published on.
Fits(o, e) ==
    /\ prepared[o] # "absent"
    /\ e \in {"intent", "replace_started", "abort_verified"} => Untouched(o)
    /\ e \in {"replace_returned", "verified", "recovery_verified", "receipt_committed",
              "rollback_started"} => MovedIn(o)
    /\ e = "rollback_receipt_committed" => MovedBack(o)
    /\ e \in {"abort_verified", "rollback_started"} => receipt[o] = "absent"
    /\ e \in {"receipt_committed", "complete"} => receipt[o] = "migration"
    /\ e \in {"rollback_receipt_committed", "rolled_back"} => receipt[o] = "rollback"

\* Then it leaves the operation in order.
LEMMA MarkerOutcome ==
    ASSUME MigrationTypeOK, NEW o \in Ops, NEW e \in Events, AppendMarker(o, e),
           Shape(o), Agrees(o), Fits(o, e), UNCHANGED <<files, prepared>>
    PROVE  OperationOK(o)' /\ LastEvent(o)' = e /\ journal'[o] # <<>>
<1>1. /\ LastEvent(o) \in MayFollow(e) /\ LastEvent(o)' = e /\ journal'[o] # <<>>
      /\ \A x : Marked(o, x)' <=> Marked(o, x) \/ x = e
  BY JournalGrows
<1>2. Shape(o)'
  BY ShapeStep
<1>3. /\ RollbackStarted(o)' <=> RollbackStarted(o) \/ "rollback_started" = e
      /\ Checked(o)' <=> Checked(o) \/ "verified" = e \/ "recovery_verified" = e
  BY <1>1 DEF Checked, RollbackStarted
<1>4. /\ source' = source /\ prepared' = prepared /\ rollback' = rollback
      /\ failed' = failed /\ receipt' = receipt
  BY DEF files
<1>5. e = "aborted" => LastEvent(o) = "abort_verified"
  BY <1>1 DEF MayFollow
<1>6. Agrees(o)'
  BY <1>1, <1>3, <1>4, <1>5 DEF Agrees, Fits, Untouched
<1>7. Pending(o)'
  BY <1>1, <1>4 DEF Pending, Fits, Untouched, MovedIn, MovedBack, Active, Events, Terminal
<1> QED
  BY <1>1, <1>2, <1>6, <1>7 DEF OperationOK

\* What an operation's state is made of: the rest may change.
LEMMA OperationStays ==
    ASSUME NEW o \in Ops, journal'[o] = journal[o], prepared'[o] = prepared[o],
           rollback'[o] = rollback[o], failed'[o] = failed[o], receipt'[o] = receipt[o]
    PROVE  /\ Shape(o) => Shape(o)'
           /\ Agrees(o) => Agrees(o)'
<1>1. LastEvent(o)' = LastEvent(o) /\ \A x : Marked(o, x)' <=> Marked(o, x)
  BY JournalStays
<1>2. /\ Checked(o)' <=> Checked(o)
      /\ RollbackStarted(o)' <=> RollbackStarted(o)
      /\ Marked(o, "abort_verified")' <=> Marked(o, "abort_verified")
      /\ Marked(o, "rollback_started")' <=> Marked(o, "rollback_started")
      /\ Marked(o, "receipt_committed")' <=> Marked(o, "receipt_committed")
  BY <1>1 DEF Checked, RollbackStarted
<1>3. Shape(o) => Shape(o)'
  BY <1>1, <1>2 DEF Shape
<1>4. Agrees(o) => Agrees(o)'
  BY <1>1, <1>2 DEF Agrees
<1> QED
  BY <1>3, <1>4

\* Where no file moves and no marker is added nothing of this changes.
LEMMA NothingMoves ==
    ASSUME UNCHANGED <<files, prepared, journal>>
    PROVE  /\ \A o \in Ops : OperationOK(o) => OperationOK(o)'
           /\ \A o, at : PlaceFacts(o, at)' <=> PlaceFacts(o, at)
<1>1. /\ source' = source /\ prepared' = prepared /\ rollback' = rollback
      /\ failed' = failed /\ receipt' = receipt /\ journal' = journal
  BY DEF files
<1>2. \A o \in Ops : OperationOK(o) => OperationOK(o)'
  <2> SUFFICES ASSUME NEW o \in Ops, OperationOK(o) PROVE OperationOK(o)'
    OBVIOUS
  <2>1. Shape(o)' /\ Agrees(o)'
    BY <1>1, OperationStays DEF OperationOK
  <2>2. LastEvent(o)' = LastEvent(o)
    BY <1>1, JournalStays
  <2>3. Pending(o)'
    BY <1>1, <2>2 DEF OperationOK, Pending, Active, Alone, Untouched, MovedIn, MovedBack
  <2> QED
    BY <2>1, <2>3 DEF OperationOK
<1>3. \A o, at : PlaceFacts(o, at)' <=> PlaceFacts(o, at)
  <2> TAKE o, at
  <2>1. LastEvent(o)' = LastEvent(o) /\ (RollbackStarted(o)' <=> RollbackStarted(o))
    BY <1>1, JournalStays DEF RollbackStarted
  <2>2. /\ Untouched(o)' <=> Untouched(o)
        /\ MovedIn(o)' <=> MovedIn(o)
        /\ MovedBack(o)' <=> MovedBack(o)
    BY <1>1 DEF Untouched, MovedIn, MovedBack
  <2> QED
    BY <1>1, <2>1, <2>2 DEF PlaceFacts
<1> QED
  BY <1>2, <1>3

\* One run at work: it holds the lock, so the others are where they rely on
\* nothing, and it publishes, moves and records for its own operation only.
LEMMA WorkerStep ==
    ASSUME OutcomeInv, NEW p \in Procs, NEW o \in Ops, NEW at,
           owner = p \/ owner = Nobody, [MigrationNext]_migrationVars,
           work'[p].op = o \/ at = "idle", work'[p].at = at,
           \A r \in Procs \ {p} : work'[r] = work[r],
           UNCHANGED <<prepared, serving>>,
           \A q \in Ops \ {o} : /\ journal'[q] = journal[q] /\ rollback'[q] = rollback[q]
                                /\ failed'[q] = failed[q] /\ receipt'[q] = receipt[q],
           journal'[o] # <<>>, OperationOK(o)', PlaceFacts(o, at)'
    PROVE  OutcomeInv'
<1>1. LockInv' /\ ServesOnlySettled'
  BY LockStep, SettledStep DEF OutcomeInv
<1>2. ASSUME NEW q \in Ops, q # o PROVE OperationOK(q)'
  <2>1. Shape(q)' /\ Agrees(q)'
    BY <1>2, OperationStays DEF OutcomeInv, OperationOK
  <2>2. ~Alone(q)'
    BY <1>2 DEF Alone
  <2> QED
    BY <2>1, <2>2 DEF OperationOK, Pending
<1>3. ASSUME NEW r \in Procs, r # p PROVE PlaceOK(r)'
  <2>1. work[r].at \in {"idle", "scanned"}
    <3>1. owner = Nobody => work[r].at \in {"idle", "scanned"}
      BY MigrationAssumption DEF OutcomeInv, LockInv, LockHeld
    <3> QED
      BY <1>3, <3>1, OthersOut DEF OutcomeInv
  <2>2. PICK a, q : a = work[r].at /\ q = work[r].op
    OBVIOUS
  <2>3. PlaceFacts(q, a)
    BY <2>2 DEF OutcomeInv, PlaceOK
  <2>4. PlaceFacts(q, a)'
    BY <2>1, <2>2, <2>3 DEF PlaceFacts
  <2> QED
    BY <1>3, <2>2, <2>4 DEF PlaceOK
<1>4. PlaceOK(p)'
  <2>1. PICK q : q = work'[p].op
    OBVIOUS
  <2>2. PlaceFacts(q, at)'
    <3>1. CASE q = o
      BY <3>1
    <3>2. CASE q # o
      BY <2>1, <3>2 DEF PlaceFacts
    <3> QED
      BY <3>1, <3>2
  <2> QED
    BY <2>1, <2>2 DEF PlaceOK
<1> QED
  BY <1>1, <1>2, <1>3, <1>4 DEF OutcomeInv

\* A run that goes on, or leaves, after publishing a marker.
LEMMA PublishStep ==
    ASSUME OutcomeInv, NEW p \in Procs, MarkerAction(p), NEW o, o = work[p].op,
           NEW e \in Events, AppendMarker(o, e) \/ (LastEvent(o) = e /\ UNCHANGED journal),
           Fits(o, e), NEW at, work'[p].at = at,
           OperationOK(o)' /\ LastEvent(o)' = e => PlaceFacts(o, at)'
    PROVE  OutcomeInv'
<1>1. /\ work[p].at \notin {"idle", "scanned"} /\ owner = p /\ o \in Ops
      /\ UNCHANGED <<source, prepared, rollback, failed, receipt, serving>>
      /\ \/ UNCHANGED <<owner, work>>
         \/ owner' = owner /\ \E to \in Places \ {"idle", "scanned"} :
                                 work' = [work EXCEPT ![p].at = to]
         \/ owner' = Nobody /\ work' = [work EXCEPT ![p] = Idle]
  BY MarkerFrame DEF OutcomeInv
<1>2. MigrationTypeOK /\ OperationOK(o)
  BY <1>1 DEF OutcomeInv, LockInv
<1>3. MigrationNext
  BY DEF MarkerAction, MigrationNext, ApplyStep, RecoveryStep
<1>4. UNCHANGED <<files, prepared>>
  BY <1>1 DEF files
<1>5. OperationOK(o)' /\ LastEvent(o)' = e /\ journal'[o] # <<>>
  <2>1. CASE AppendMarker(o, e)
    BY <1>1, <1>2, <1>4, <2>1, MarkerOutcome DEF OperationOK
  <2>2. CASE LastEvent(o) = e /\ UNCHANGED journal
    <3>1. OperationOK(o)'
      BY <1>1, <1>2, <1>4, <2>2, NothingMoves
    <3>2. LastEvent(o)' = e
      BY <2>2, JournalStays
    <3>3. journal[o] # <<>>
      <4>1. e # "none"
        BY DEF Events, Terminal
      <4> QED
        BY <1>1, <1>2, <2>2, <4>1, EmptyJournal
    <3> QED
      BY <2>2, <3>1, <3>2, <3>3
  <2> QED
    BY <2>1, <2>2
<1>6. \A q \in Ops \ {o} : journal'[q] = journal[q]
  BY <1>1, <1>2, JournalGrows
<1>7. /\ \A r \in Procs \ {p} : work'[r] = work[r]
      /\ work'[p].op = o \/ at = "idle"
  <2>1. work \in [Procs -> [at : Places, op : Ops \cup {NoOp}]] /\ Idle.at = "idle"
    BY <1>2 DEF MigrationTypeOK, Idle
  <2> QED
    BY <1>1, <2>1
<1>8. PlaceFacts(o, at)'
  BY <1>5
<1> QED
  BY <1>1, <1>3, <1>5, <1>6, <1>7, <1>8, WorkerStep

\* The marker steps: each publishes what the files and the receipt say.
LEMMA MarkersOutcome ==
    ASSUME OutcomeInv, NEW p \in Procs, MarkerAction(p)
    PROVE  OutcomeInv'
<1>1. PICK o, from : o = work[p].op /\ from = work[p].at
  OBVIOUS
<1>2. PlaceFacts(o, from) /\ o \in Ops /\ Shape(o) /\ Agrees(o)
  <2>1. o \in Ops
    BY <1>1, MarkerFrame DEF OutcomeInv
  <2> QED
    BY <1>1, <2>1 DEF OutcomeInv, PlaceOK, OperationOK
<1>3. /\ UNCHANGED <<source, prepared, rollback, failed, receipt>>
      /\ work \in [Procs -> [at : Places, op : Ops \cup {NoOp}]]
  BY MarkerFrame DEF OutcomeInv, LockInv, MigrationTypeOK
<1>4. /\ Untouched(o)' <=> Untouched(o)
      /\ MovedIn(o)' <=> MovedIn(o)
      /\ MovedBack(o)' <=> MovedBack(o)
  BY <1>3 DEF Untouched, MovedIn, MovedBack
<1>5. CASE PublishIntent(p)
  <2>1. /\ from = "checked" /\ work'[p].at = "intent" /\ "intent" \in Events
        /\ AppendMarker(o, "intent")
    BY <1>1, <1>3, <1>5 DEF PublishIntent, Step, At, Go, Events, Terminal
  <2>2. Fits(o, "intent")
    BY <1>2, <2>1 DEF Fits, PlaceFacts
  <2>3. OperationOK(o)' /\ LastEvent(o)' = "intent" => PlaceFacts(o, "intent")'
    BY <1>2, <1>3, <1>4, <2>1 DEF PlaceFacts
  <2> QED
    BY <1>1, <2>1, <2>2, <2>3, PublishStep
<1>6. CASE StartReplacement(p)
  <2>1. /\ from = "intent" /\ work'[p].at = "started" /\ "replace_started" \in Events
        /\ AppendMarker(o, "replace_started")
    BY <1>1, <1>3, <1>6 DEF StartReplacement, Step, At, Go, Events, Terminal
  <2>2. Fits(o, "replace_started")
    BY <1>2, <2>1 DEF Fits, PlaceFacts
  <2>3. OperationOK(o)' /\ LastEvent(o)' = "replace_started" => PlaceFacts(o, "started")'
    BY <1>2, <1>3, <1>4, <2>1 DEF PlaceFacts
  <2> QED
    BY <1>1, <2>1, <2>2, <2>3, PublishStep
<1>7. CASE RecordReplacement(p)
  <2>1. /\ from = "replaced" /\ work'[p].at = "returned" /\ "replace_returned" \in Events
        /\ AppendMarker(o, "replace_returned")
    BY <1>1, <1>3, <1>7 DEF RecordReplacement, Step, At, Go, Events, Terminal
  <2>2. Fits(o, "replace_returned")
    BY <1>2, <2>1 DEF Fits, PlaceFacts
  <2>3. OperationOK(o)' /\ LastEvent(o)' = "replace_returned" => PlaceFacts(o, "returned")'
    BY <1>2, <1>3, <1>4, <2>1 DEF PlaceFacts
  <2> QED
    BY <1>1, <2>1, <2>2, <2>3, PublishStep
<1>8. CASE RecordVerified(p)
  <2>1. /\ from = "returned" /\ work'[p].at = "verified" /\ "verified" \in Events
        /\ AppendMarker(o, "verified")
    BY <1>1, <1>3, <1>8 DEF RecordVerified, Step, At, Go, Events, Terminal
  <2>2. Fits(o, "verified")
    BY <1>2, <2>1 DEF Fits, PlaceFacts
  <2>3. OperationOK(o)' /\ LastEvent(o)' = "verified" => PlaceFacts(o, "verified")'
    BY <1>2, <1>3, <1>4, <2>1 DEF PlaceFacts
  <2> QED
    BY <1>1, <2>1, <2>2, <2>3, PublishStep
<1>9. CASE CommitReceipt(p)
  <2>1. /\ from = "receipt" /\ work'[p].at = "committed" /\ "receipt_committed" \in Events
        /\ AppendMarker(o, "receipt_committed") \/ (LastEvent(o) = "receipt_committed" /\ UNCHANGED journal)
    BY <1>1, <1>3, <1>9 DEF CommitReceipt, Step, At, Go, EnsureMarker, Events, Terminal
  <2>2. Fits(o, "receipt_committed")
    BY <1>2, <2>1 DEF Fits, PlaceFacts
  <2>3. OperationOK(o)' /\ LastEvent(o)' = "receipt_committed" => PlaceFacts(o, "committed")'
    BY <1>2, <1>3, <1>4, <2>1 DEF PlaceFacts
  <2> QED
    BY <1>1, <2>1, <2>2, <2>3, PublishStep
<1>10. CASE Complete(p)
  <2>1. /\ from = "committed" /\ work'[p].at = "idle" /\ "complete" \in Events
        /\ AppendMarker(o, "complete")
    BY <1>1, <1>3, <1>10 DEF Complete, At, Leave, Idle, Events, Terminal
  <2>2. Fits(o, "complete")
    BY <1>2, <2>1 DEF Fits, PlaceFacts
  <2>3. OperationOK(o)' /\ LastEvent(o)' = "complete" => PlaceFacts(o, "idle")'
    BY <1>2, <1>3, <1>4, <2>1 DEF PlaceFacts
  <2> QED
    BY <1>1, <2>1, <2>2, <2>3, PublishStep
<1>11. CASE VerifyAbort(p)
  <2>1. /\ from = "abort" /\ work'[p].at = "aborting" /\ "abort_verified" \in Events
        /\ AppendMarker(o, "abort_verified") \/ (LastEvent(o) = "abort_verified" /\ UNCHANGED journal)
    BY <1>1, <1>3, <1>11 DEF VerifyAbort, Step, At, Go, EnsureMarker, Events, Terminal
  <2>2. Fits(o, "abort_verified")
    BY <1>2, <2>1 DEF Fits, PlaceFacts
  <2>3. OperationOK(o)' /\ LastEvent(o)' = "abort_verified" => PlaceFacts(o, "aborting")'
    BY <1>2, <1>3, <1>4, <2>1 DEF PlaceFacts
  <2> QED
    BY <1>1, <2>1, <2>2, <2>3, PublishStep
<1>12. CASE FinishAbort(p)
  <2>1. /\ from = "aborting" /\ work'[p].at = "idle" /\ "aborted" \in Events
        /\ AppendMarker(o, "aborted")
    BY <1>1, <1>3, <1>12 DEF FinishAbort, At, Leave, Idle, Events, Terminal
  <2>2. Fits(o, "aborted")
    BY <1>2, <2>1 DEF Fits, PlaceFacts
  <2>3. OperationOK(o)' /\ LastEvent(o)' = "aborted" => PlaceFacts(o, "idle")'
    BY <1>2, <1>3, <1>4, <2>1 DEF PlaceFacts
  <2> QED
    BY <1>1, <2>1, <2>2, <2>3, PublishStep
<1>13. CASE VerifyRecovery(p)
  <2>1. /\ from = "verifying" /\ work'[p].at = "verified" /\ "recovery_verified" \in Events
        /\ AppendMarker(o, "recovery_verified")
    BY <1>1, <1>3, <1>13 DEF VerifyRecovery, Step, At, Go, Events, Terminal
  <2>2. Fits(o, "recovery_verified")
    BY <1>2, <2>1 DEF Fits, PlaceFacts
  <2>3. OperationOK(o)' /\ LastEvent(o)' = "recovery_verified" => PlaceFacts(o, "verified")'
    BY <1>2, <1>3, <1>4, <2>1 DEF PlaceFacts
  <2> QED
    BY <1>1, <2>1, <2>2, <2>3, PublishStep
<1>14. CASE MarkRollback(p)
  <2>1. /\ from = "rollback" /\ work'[p].at = "rollback" /\ "rollback_started" \in Events
        /\ AppendMarker(o, "rollback_started")
    BY <1>1, <1>3, <1>14 DEF MarkRollback, At, Events, Terminal
  <2>2. Fits(o, "rollback_started")
    BY <1>2, <2>1 DEF Fits, PlaceFacts
  <2>3. OperationOK(o)' /\ LastEvent(o)' = "rollback_started" => PlaceFacts(o, "rollback")'
    BY <1>2, <1>3, <1>4, <2>1 DEF PlaceFacts
  <2> QED
    BY <1>1, <2>1, <2>2, <2>3, PublishStep
<1>15. CASE CommitRollbackReceipt(p)
  <2>1. /\ from = "rollback_receipt" /\ work'[p].at = "rollback_committed" /\ "rollback_receipt_committed" \in Events
        /\ AppendMarker(o, "rollback_receipt_committed") \/ (LastEvent(o) = "rollback_receipt_committed" /\ UNCHANGED journal)
    BY <1>1, <1>3, <1>15 DEF CommitRollbackReceipt, Step, At, Go, EnsureMarker, Events, Terminal
  <2>2. Fits(o, "rollback_receipt_committed")
    BY <1>2, <2>1 DEF Fits, PlaceFacts
  <2>3. OperationOK(o)' /\ LastEvent(o)' = "rollback_receipt_committed" => PlaceFacts(o, "rollback_committed")'
    BY <1>2, <1>3, <1>4, <2>1 DEF PlaceFacts, OperationOK, Shape, RollbackStarted
  <2> QED
    BY <1>1, <2>1, <2>2, <2>3, PublishStep
<1>16. CASE FinishRollback(p)
  <2>1. /\ from = "rollback_committed" /\ work'[p].at = "idle" /\ "rolled_back" \in Events
        /\ AppendMarker(o, "rolled_back")
    BY <1>1, <1>3, <1>16 DEF FinishRollback, At, Leave, Idle, Events, Terminal
  <2>2. Fits(o, "rolled_back")
    BY <1>2, <2>1 DEF Fits, PlaceFacts
  <2>3. OperationOK(o)' /\ LastEvent(o)' = "rolled_back" => PlaceFacts(o, "idle")'
    BY <1>2, <1>3, <1>4, <2>1 DEF PlaceFacts
  <2> QED
    BY <1>1, <2>1, <2>2, <2>3, PublishStep
<1> QED
  BY <1>5, <1>6, <1>7, <1>8, <1>9, <1>10, <1>11, <1>12, <1>13, <1>14, <1>15, <1>16 DEF MarkerAction

\* A run that reads, at no operation's cost: nothing moves but the run.
LEMMA QuietStep ==
    ASSUME OutcomeInv, NEW p \in Procs, NEW o, NEW at, [MigrationNext]_migrationVars,
           \A r \in Procs \ {p} : work'[r] = work[r], UNCHANGED <<files, prepared, journal>>,
           work'[p].op = o, work'[p].at = at, PlaceFacts(o, at)
    PROVE  OutcomeInv'
<1>1. LockInv' /\ ServesOnlySettled'
  BY LockStep, SettledStep DEF OutcomeInv
<1>2. /\ \A q \in Ops : OperationOK(q)'
      /\ \A q, a : PlaceFacts(q, a)' <=> PlaceFacts(q, a)
  BY NothingMoves DEF OutcomeInv
<1>3. ASSUME NEW r \in Procs PROVE PlaceOK(r)'
  <2>1. PICK q, a : q = work'[r].op /\ a = work'[r].at
    OBVIOUS
  <2>2. PlaceFacts(q, a)
    BY <2>1 DEF OutcomeInv, PlaceOK
  <2>3. PlaceFacts(q, a)'
    BY <1>2, <2>2
  <2> QED
    BY <2>1, <2>3 DEF PlaceOK
<1> QED
  BY <1>1, <1>2, <1>3 DEF OutcomeInv

\* What the files say of an operation that was prepared.
LEMMA PreparedImage ==
    ASSUME OutcomeInv, NEW o \in Ops
    PROVE  /\ prepared[o] # "absent" => prepared[o] \in OldSchema
           /\ o \notin OldSchema \cup {"absent", "served"} /\ "served" \notin OldSchema
           /\ "absent" \notin OldSchema
           /\ Active(o) => prepared[o] # "absent"
<1>1. prepared[o] \in OldSchema \cup {"absent"}
  BY DEF OutcomeInv, LockInv, MigrationTypeOK
<1>2. Active(o) => LastEvent(o) # "none"
  BY EmptyJournal DEF Active, OutcomeInv, LockInv
<1>3. Active(o) => prepared[o] # "absent"
  BY <1>2 DEF OutcomeInv, OperationOK, Agrees
<1> QED
  BY <1>1, <1>3, MigrationAssumption DEF OldSchema

\* The steps of recovery that take the lock and read.
LEMMA RecoverOutcome ==
    ASSUME OutcomeInv, NEW p \in Procs, NEW o \in Ops,
           StartAbort(p, o) \/ StartFinalize(p, o) \/ StartRollback(p, o)
    PROVE  OutcomeInv'
<1>1. PICK at : Recover(p, o, at) /\ PlaceFacts(o, at)
  <2>1. CASE StartAbort(p, o)
    <3>1. /\ Recover(p, o, "abort") /\ Active(o) /\ receipt[o] = "absent"
          /\ source = prepared[o] /\ rollback[o] = "absent" /\ failed[o] = "absent"
      BY <2>1 DEF StartAbort, CanAbort, Classification, Recover
    <3>2. PlaceFacts(o, "abort")
      BY <3>1, PreparedImage DEF PlaceFacts, Untouched
    <3> QED
      BY <3>1, <3>2
  <2>2. CASE StartFinalize(p, o)
    <3>1. /\ Recover(p, o, IF receipt[o] = "absent" THEN "verifying" ELSE "receipt")
          /\ Active(o) /\ receipt[o] \in {"absent", "migration"}
          /\ source = o /\ rollback[o] = prepared[o] /\ failed[o] = "absent"
      BY <2>2 DEF StartFinalize, CanFinalize, Classification, Recover, Replaced
    <3>2. CASE receipt[o] = "absent"
      <4>1. PlaceFacts(o, "verifying")
        BY <3>1, PreparedImage DEF PlaceFacts, MovedIn
      <4> QED
        BY <3>1, <3>2, <4>1
    <3>3. CASE receipt[o] = "migration"
      <4>1. PlaceFacts(o, "receipt")
        BY <3>1, <3>3, PreparedImage DEF PlaceFacts, MovedIn
      <4> QED
        BY <3>1, <3>3, <4>1
    <3> QED
      BY <3>1, <3>2, <3>3
  <2>3. CASE StartRollback(p, o)
    <3>1. /\ Recover(p, o, IF Classification(o) = "CANDIDATE" THEN "rollback" ELSE "pending_receipt")
          /\ Active(o) /\ CanRollBack(o)
      BY <2>3 DEF StartRollback, Recover
    <3>2. CASE Classification(o) = "CANDIDATE"
      <4>1. /\ source = o /\ rollback[o] = prepared[o] /\ failed[o] = "absent"
            /\ receipt[o] = "absent"
        BY <3>1, <3>2 DEF CanRollBack, Classification, Replaced
      <4>2. PlaceFacts(o, "rollback")
        BY <3>1, <4>1, PreparedImage DEF PlaceFacts, MovedIn
      <4> QED
        BY <3>1, <3>2, <4>2
    <3>3. CASE Classification(o) # "CANDIDATE"
      <4>1. /\ source = prepared[o] /\ RollbackStarted(o)
            /\ rollback[o] = "absent" /\ failed[o] = o
        BY <3>1, <3>3 DEF CanRollBack, Classification
      <4>2. PlaceFacts(o, "pending_receipt")
        BY <3>1, <4>1, PreparedImage DEF PlaceFacts, MovedBack
      <4> QED
        BY <3>1, <3>3, <4>2
    <3> QED
      BY <3>2, <3>3
  <2> QED
    BY <2>1, <2>2, <2>3
<1>2. MigrationNext
  BY DEF MigrationNext, RecoveryStep
<1>3. /\ UNCHANGED <<files, prepared, journal>>
      /\ work' = [work EXCEPT ![p] = [at |-> at, op |-> o]]
  BY <1>1 DEF Recover
<1>4. /\ work'[p].op = o /\ work'[p].at = at
      /\ \A r \in Procs \ {p} : work'[r] = work[r]
  <2>1. work \in [Procs -> [at : Places, op : Ops \cup {NoOp}]]
    BY DEF OutcomeInv, LockInv, MigrationTypeOK
  <2> QED
    BY <1>3, <2>1
<1> QED
  BY <1>1, <1>2, <1>3, <1>4, QuietStep

\* The steps before a run publishes anything, and its end by a crash.
LEMMA ReadingOutcome ==
    ASSUME OutcomeInv, NEW p \in Procs,
           \/ \E o \in Ops : ScanBeforeLock(p, o)
           \/ LockAndCheck(p) \/ LeaseRestored(p) \/ Stop(p)
    PROVE  OutcomeInv'
<1>1. MigrationNext
  BY DEF MigrationNext, ApplyStep, RecoveryStep
<1>2. work \in [Procs -> [at : Places, op : Ops \cup {NoOp}]] /\ PlaceOK(p)
  BY DEF OutcomeInv, LockInv, MigrationTypeOK
<1>3. ASSUME NEW o \in Ops, ScanBeforeLock(p, o) PROVE OutcomeInv'
  <2>1. /\ UNCHANGED <<files, prepared, journal>> /\ prepared[o] # "absent"
        /\ work' = [work EXCEPT ![p] = [at |-> "scanned", op |-> o]]
    BY <1>3 DEF ScanBeforeLock
  <2>2. /\ work'[p].op = o /\ work'[p].at = "scanned"
        /\ \A r \in Procs \ {p} : work'[r] = work[r]
    BY <1>2, <2>1
  <2>3. PlaceFacts(o, "scanned")
    BY <2>1 DEF PlaceFacts
  <2> QED
    BY <1>1, <2>1, <2>2, <2>3, QuietStep
<1>4. CASE LockAndCheck(p)
  <2>1. PICK o : o = work[p].op
    OBVIOUS
  <2>2. /\ UNCHANGED <<files, prepared, journal>> /\ work[p].at = "scanned"
        /\ rollback[o] = "absent" /\ failed[o] = "absent" /\ source = prepared[o]
        /\ work' = [work EXCEPT ![p].at = "checked"]
    BY <1>4, <2>1 DEF LockAndCheck, ImagesAuthorized, At, Go
  <2>3. /\ work'[p].op = o /\ work'[p].at = "checked"
        /\ \A r \in Procs \ {p} : work'[r] = work[r]
    BY <1>2, <2>1, <2>2
  <2>4. o \in Ops /\ prepared[o] # "absent"
    BY <1>2, <2>1, <2>2 DEF OutcomeInv, LockInv, LockHeld, PlaceOK, PlaceFacts
  <2>5. PlaceFacts(o, "checked")
    BY <2>2, <2>4, PreparedImage DEF PlaceFacts, Untouched
  <2> QED
    BY <1>1, <2>2, <2>3, <2>5, QuietStep
<1>5. CASE LeaseRestored(p)
  <2>1. PICK o : o = work[p].op
    OBVIOUS
  <2>2. /\ UNCHANGED <<files, prepared, journal>> /\ work[p].at = "restored"
        /\ work' = [work EXCEPT ![p].at = "pending_receipt"]
    BY <1>5, <2>1 DEF LeaseRestored, Step, At, Go
  <2>3. /\ work'[p].op = o /\ work'[p].at = "pending_receipt"
        /\ \A r \in Procs \ {p} : work'[r] = work[r]
    BY <1>2, <2>1, <2>2
  <2>4. PlaceFacts(o, "pending_receipt")
    BY <1>2, <2>1, <2>2 DEF PlaceOK, PlaceFacts
  <2> QED
    BY <1>1, <2>2, <2>3, <2>4, QuietStep
<1>6. CASE Stop(p)
  <2>1. UNCHANGED <<files, prepared, journal>> /\ work' = [work EXCEPT ![p] = Idle]
    BY <1>6 DEF Stop
  <2>2. /\ work'[p].op = NoOp /\ work'[p].at = "idle"
        /\ \A r \in Procs \ {p} : work'[r] = work[r]
    BY <1>2, <2>1 DEF Idle
  <2>3. PlaceFacts(NoOp, "idle")
    BY DEF PlaceFacts
  <2> QED
    BY <1>1, <2>1, <2>2, <2>3, QuietStep
<1> QED
  BY <1>3, <1>4, <1>5, <1>6

\* The steps that move a file or write a receipt.
LEMMA MovesOutcome ==
    ASSUME OutcomeInv, NEW p \in Procs,
           \/ ReplaceSource(p) \/ TearReplacement(p) \/ WriteReceipt(p)
           \/ RestoreSource(p) \/ TearRestore(p) \/ WriteRollbackReceipt(p)
    PROVE  OutcomeInv'
<1>1. MigrationNext
  BY DEF MigrationNext, ApplyStep, RecoveryStep
<1>2. PICK o, from : o = work[p].op /\ from = work[p].at
  OBVIOUS
<1>3. /\ from \notin {"idle", "scanned"} /\ owner = p /\ o \in Ops
      /\ work \in [Procs -> [at : Places, op : Ops \cup {NoOp}]]
      /\ rollback \in [Ops -> Images] /\ failed \in [Ops -> Images]
      /\ receipt \in [Ops -> {"absent", "migration", "rollback"}]
  BY <1>2 DEF ReplaceSource, TearReplacement, WriteReceipt, RestoreSource, TearRestore,
     WriteRollbackReceipt, Step, At, OutcomeInv, LockInv, LockHeld, MigrationTypeOK
<1>4. PlaceFacts(o, from) /\ Shape(o) /\ Agrees(o) /\ prepared[o] \in OldSchema
  BY <1>2, <1>3, PreparedImage DEF OutcomeInv, PlaceOK, OperationOK, PlaceFacts
<1>5. /\ o \notin OldSchema \cup {"absent", "served"} /\ "served" \notin OldSchema
      /\ "absent" \notin OldSchema
  BY <1>3, PreparedImage
<1>6. ASSUME UNCHANGED journal
      PROVE  /\ LastEvent(o)' = LastEvent(o)
             /\ Checked(o)' <=> Checked(o)
             /\ RollbackStarted(o)' <=> RollbackStarted(o)
             /\ LastEvent(o) # "none" => journal'[o] # <<>>
  <2>1. LastEvent(o)' = LastEvent(o) /\ \A x : Marked(o, x)' <=> Marked(o, x)
    BY <1>6, JournalStays
  <2>2. LastEvent(o) # "none" => journal[o] # <<>>
    BY <1>3, EmptyJournal DEF OutcomeInv, LockInv
  <2> QED
    BY <1>6, <2>1, <2>2 DEF Checked, RollbackStarted
<1>7. UNCHANGED journal => Shape(o)'
  <2>1. ASSUME UNCHANGED journal PROVE Shape(o)'
    <3>1. /\ Marked(o, "abort_verified")' <=> Marked(o, "abort_verified")
          /\ Marked(o, "rollback_started")' <=> Marked(o, "rollback_started")
          /\ Marked(o, "receipt_committed")' <=> Marked(o, "receipt_committed")
      BY <2>1, JournalStays
    <3> QED
      BY <1>4, <1>6, <2>1, <3>1 DEF Shape
  <2> QED
    BY <2>1
<1>8. CASE ReplaceSource(p)
  <2>1. /\ from = "started" /\ UNCHANGED <<journal, prepared, serving>>
        /\ source' = o /\ rollback' = [rollback EXCEPT ![o] = source] /\ source = prepared[o]
        /\ UNCHANGED <<failed, receipt>>
        /\ work' = [work EXCEPT ![p].at = "replaced"]
    BY <1>2, <1>3, <1>8 DEF ReplaceSource, Step, At, Go, SourceIs
  <2>2. /\ work'[p].op = o /\ work'[p].at = "replaced"
        /\ \A r \in Procs \ {p} : work'[r] = work[r]
    BY <1>2, <1>3, <2>1 DEF Idle
  <2>3. /\ LastEvent(o)' = LastEvent(o) /\ journal'[o] # <<>> /\ Shape(o)'
        /\ Checked(o)' <=> Checked(o)
        /\ RollbackStarted(o)' <=> RollbackStarted(o)
        /\ LastEvent(o) = "replace_started" /\ receipt[o] = "absent"
    BY <1>3, <1>4, <1>6, <1>7, <2>1 DEF PlaceFacts, Shape, Agrees, RollbackStarted
  <2>4. /\ \A q \in Ops \ {o} : /\ journal'[q] = journal[q] /\ rollback'[q] = rollback[q]
                                /\ failed'[q] = failed[q] /\ receipt'[q] = receipt[q]
        /\ rollback'[o] = prepared'[o] /\ failed'[o] = "absent" /\ receipt'[o] = "absent"
    BY <1>3, <1>4, <2>1, <2>3 DEF PlaceFacts, Untouched, MovedIn, MovedBack
  <2>5. Agrees(o)' /\ PlaceFacts(o, "replaced")'
    BY <1>4, <1>5, <2>1, <2>3, <2>4 DEF Agrees, PlaceFacts, MovedIn, MovedBack
  <2>6. Pending(o)'
    BY <2>1, <2>3, <2>4 DEF Pending, MovedIn, MovedBack
  <2> QED
    BY <1>1, <1>3, <2>1, <2>2, <2>3, <2>4, <2>5, <2>6, WorkerStep DEF OperationOK
<1>9. CASE TearReplacement(p)
  <2>1. /\ from = "started" /\ UNCHANGED <<journal, prepared, serving>>
        /\ source' = "absent" /\ rollback' = [rollback EXCEPT ![o] = source] /\ source = prepared[o]
        /\ UNCHANGED <<failed, receipt>>
        /\ work' = [work EXCEPT ![p] = Idle]
    BY <1>2, <1>3, <1>9 DEF TearReplacement, At, Leave, Idle, SourceIs
  <2>2. /\ work'[p].at = "idle"
        /\ \A r \in Procs \ {p} : work'[r] = work[r]
    BY <1>2, <1>3, <2>1 DEF Idle
  <2>3. /\ LastEvent(o)' = LastEvent(o) /\ journal'[o] # <<>> /\ Shape(o)'
        /\ Checked(o)' <=> Checked(o)
        /\ RollbackStarted(o)' <=> RollbackStarted(o)
        /\ LastEvent(o) = "replace_started" /\ receipt[o] = "absent"
    BY <1>3, <1>4, <1>6, <1>7, <2>1 DEF PlaceFacts, Shape, Agrees, RollbackStarted
  <2>4. /\ \A q \in Ops \ {o} : /\ journal'[q] = journal[q] /\ rollback'[q] = rollback[q]
                                /\ failed'[q] = failed[q] /\ receipt'[q] = receipt[q]
        /\ failed'[o] = "absent" /\ receipt'[o] = "absent"
    BY <1>3, <1>4, <2>1, <2>3 DEF PlaceFacts, Untouched, MovedIn, MovedBack
  <2>5. Agrees(o)' /\ PlaceFacts(o, "idle")'
    BY <1>4, <1>5, <2>1, <2>3, <2>4 DEF Agrees, PlaceFacts, MovedIn, MovedBack
  <2>6. Pending(o)'
    BY <2>1, <2>3, <2>4 DEF Pending, MovedIn, MovedBack
  <2> QED
    BY <1>1, <1>3, <2>1, <2>2, <2>3, <2>4, <2>5, <2>6, WorkerStep DEF OperationOK
<1>10. CASE WriteReceipt(p)
  <2>1. /\ from = "verified" /\ UNCHANGED <<journal, prepared, serving>>
        /\ receipt' = [receipt EXCEPT ![o] = "migration"]
        /\ UNCHANGED <<source, rollback, failed>>
        /\ work' = [work EXCEPT ![p].at = "receipt"]
    BY <1>2, <1>3, <1>10 DEF WriteReceipt, Step, At, Go, SourceIs
  <2>2. /\ work'[p].op = o /\ work'[p].at = "receipt"
        /\ \A r \in Procs \ {p} : work'[r] = work[r]
    BY <1>2, <1>3, <2>1 DEF Idle
  <2>3. /\ LastEvent(o)' = LastEvent(o) /\ journal'[o] # <<>> /\ Shape(o)'
        /\ Checked(o)' <=> Checked(o)
        /\ RollbackStarted(o)' <=> RollbackStarted(o)
        /\ LastEvent(o) \in {"verified", "recovery_verified"} /\ MovedIn(o)
        /\ Checked(o) /\ ~RollbackStarted(o)
    BY <1>4, <1>6, <1>7, <2>1 DEF PlaceFacts, Shape, RollbackStarted
  <2>4. /\ \A q \in Ops \ {o} : /\ journal'[q] = journal[q] /\ rollback'[q] = rollback[q]
                                /\ failed'[q] = failed[q] /\ receipt'[q] = receipt[q]
        /\ rollback'[o] = prepared'[o] /\ failed'[o] = "absent" /\ receipt'[o] = "migration"
    BY <1>3, <1>4, <2>1, <2>3 DEF PlaceFacts, Untouched, MovedIn, MovedBack
  <2>5. Agrees(o)' /\ PlaceFacts(o, "receipt")'
    BY <1>4, <1>5, <2>1, <2>3, <2>4 DEF Agrees, PlaceFacts, MovedIn, MovedBack
  <2>6. Pending(o)'
    BY <2>1, <2>3, <2>4 DEF Pending, MovedIn, MovedBack
  <2> QED
    BY <1>1, <1>3, <2>1, <2>2, <2>3, <2>4, <2>5, <2>6, WorkerStep DEF OperationOK
<1>11. CASE RestoreSource(p)
  <2>1. /\ from = "rollback" /\ UNCHANGED <<journal, prepared, serving>>
        /\ source' = rollback[o] /\ failed' = [failed EXCEPT ![o] = source] /\ source = o
        /\ rollback' = [rollback EXCEPT ![o] = "absent"] /\ RollbackStarted(o)
        /\ UNCHANGED receipt
        /\ work' = [work EXCEPT ![p].at = "restored"]
    BY <1>2, <1>3, <1>11 DEF RestoreSource, Step, At, Go, SourceIs
  <2>2. /\ work'[p].op = o /\ work'[p].at = "restored"
        /\ \A r \in Procs \ {p} : work'[r] = work[r]
    BY <1>2, <1>3, <2>1 DEF Idle
  <2>3. /\ LastEvent(o)' = LastEvent(o) /\ journal'[o] # <<>> /\ Shape(o)'
        /\ Checked(o)' <=> Checked(o)
        /\ RollbackStarted(o)' <=> RollbackStarted(o)
        /\ LastEvent(o) = "rollback_started" /\ receipt[o] = "absent" /\ MovedIn(o)
    BY <1>4, <1>6, <1>7, <2>1 DEF PlaceFacts, Shape, Agrees, RollbackStarted
  <2>4. /\ \A q \in Ops \ {o} : /\ journal'[q] = journal[q] /\ rollback'[q] = rollback[q]
                                /\ failed'[q] = failed[q] /\ receipt'[q] = receipt[q]
        /\ rollback'[o] = "absent" /\ failed'[o] = o /\ receipt'[o] = "absent" /\ source' \in OldSchema
    BY <1>3, <1>4, <2>1, <2>3 DEF PlaceFacts, Untouched, MovedIn, MovedBack
  <2>5. Agrees(o)' /\ PlaceFacts(o, "restored")'
    BY <1>4, <1>5, <2>1, <2>3, <2>4 DEF Agrees, PlaceFacts, MovedIn, MovedBack
  <2>6. Pending(o)'
    BY <2>1, <2>3, <2>4 DEF Pending, MovedIn, MovedBack
  <2> QED
    BY <1>1, <1>3, <2>1, <2>2, <2>3, <2>4, <2>5, <2>6, WorkerStep DEF OperationOK
<1>12. CASE TearRestore(p)
  <2>1. /\ from = "rollback" /\ UNCHANGED <<journal, prepared, serving>>
        /\ source' = "absent" /\ failed' = [failed EXCEPT ![o] = source] /\ source = o
        /\ RollbackStarted(o)
        /\ UNCHANGED <<rollback, receipt>>
        /\ work' = [work EXCEPT ![p] = Idle]
    BY <1>2, <1>3, <1>12 DEF TearRestore, At, Leave, Idle, SourceIs
  <2>2. /\ work'[p].at = "idle"
        /\ \A r \in Procs \ {p} : work'[r] = work[r]
    BY <1>2, <1>3, <2>1 DEF Idle
  <2>3. /\ LastEvent(o)' = LastEvent(o) /\ journal'[o] # <<>> /\ Shape(o)'
        /\ Checked(o)' <=> Checked(o)
        /\ RollbackStarted(o)' <=> RollbackStarted(o)
        /\ LastEvent(o) = "rollback_started" /\ receipt[o] = "absent" /\ MovedIn(o)
    BY <1>4, <1>6, <1>7, <2>1 DEF PlaceFacts, Shape, Agrees, RollbackStarted
  <2>4. /\ \A q \in Ops \ {o} : /\ journal'[q] = journal[q] /\ rollback'[q] = rollback[q]
                                /\ failed'[q] = failed[q] /\ receipt'[q] = receipt[q]
        /\ failed'[o] = o /\ receipt'[o] = "absent"
    BY <1>3, <1>4, <2>1, <2>3 DEF PlaceFacts, Untouched, MovedIn, MovedBack
  <2>5. Agrees(o)' /\ PlaceFacts(o, "idle")'
    BY <1>4, <1>5, <2>1, <2>3, <2>4 DEF Agrees, PlaceFacts, MovedIn, MovedBack
  <2>6. Pending(o)'
    BY <2>1, <2>3, <2>4 DEF Pending, MovedIn, MovedBack
  <2> QED
    BY <1>1, <1>3, <2>1, <2>2, <2>3, <2>4, <2>5, <2>6, WorkerStep DEF OperationOK
<1>13. CASE WriteRollbackReceipt(p)
  <2>1. /\ from = "pending_receipt" /\ UNCHANGED <<journal, prepared, serving>>
        /\ receipt' = [receipt EXCEPT ![o] = "rollback"] /\ receipt[o] # "migration"
        /\ UNCHANGED <<source, rollback, failed>>
        /\ work' = [work EXCEPT ![p].at = "rollback_receipt"]
    BY <1>2, <1>3, <1>13 DEF WriteRollbackReceipt, Step, At, Go, SourceIs
  <2>2. /\ work'[p].op = o /\ work'[p].at = "rollback_receipt"
        /\ \A r \in Procs \ {p} : work'[r] = work[r]
    BY <1>2, <1>3, <2>1 DEF Idle
  <2>3. /\ LastEvent(o)' = LastEvent(o) /\ journal'[o] # <<>> /\ Shape(o)'
        /\ Checked(o)' <=> Checked(o)
        /\ RollbackStarted(o)' <=> RollbackStarted(o)
        /\ LastEvent(o) \in {"rollback_started", "rollback_receipt_committed", "rolled_back"}
        /\ MovedBack(o) /\ RollbackStarted(o)
    BY <1>4, <1>6, <1>7, <2>1 DEF PlaceFacts, Shape, RollbackStarted
  <2>4. /\ \A q \in Ops \ {o} : /\ journal'[q] = journal[q] /\ rollback'[q] = rollback[q]
                                /\ failed'[q] = failed[q] /\ receipt'[q] = receipt[q]
        /\ rollback'[o] = "absent" /\ failed'[o] = o /\ receipt'[o] = "rollback" /\ source' \in OldSchema
    BY <1>3, <1>4, <2>1, <2>3 DEF PlaceFacts, Untouched, MovedIn, MovedBack
  <2>5. Agrees(o)' /\ PlaceFacts(o, "rollback_receipt")'
    BY <1>4, <1>5, <2>1, <2>3, <2>4 DEF Agrees, PlaceFacts, MovedIn, MovedBack
  <2>6. Pending(o)'
    BY <2>1, <2>3, <2>4 DEF Pending, MovedIn, MovedBack, Active, Terminal
  <2> QED
    BY <1>1, <1>3, <2>1, <2>2, <2>3, <2>4, <2>5, <2>6, WorkerStep DEF OperationOK
<1> QED
  BY <1>8, <1>9, <1>10, <1>11, <1>12, <1>13

\* A migration is prepared while nobody is at work.
LEMMA PrepareOutcome ==
    ASSUME OutcomeInv, NEW o \in Ops, Prepare(o)
    PROVE  OutcomeInv'
<1>1. MigrationNext
  BY DEF MigrationNext
<1>2. LockInv' /\ ServesOnlySettled'
  BY <1>1, LockStep, SettledStep DEF OutcomeInv
<1>3. /\ UNCHANGED <<files, journal, work>> /\ prepared[o] = "absent"
      /\ prepared' = [prepared EXCEPT ![o] = source] /\ source \in OldSchema
      /\ prepared \in [Ops -> OldSchema \cup {"absent"}]
  BY DEF Prepare, OutcomeInv, LockInv, MigrationTypeOK
<1>4. /\ source' = source /\ rollback' = rollback /\ failed' = failed /\ receipt' = receipt
      /\ journal' = journal /\ work' = work
  BY <1>3 DEF files
<1>5. /\ prepared'[o] \in OldSchema /\ "absent" \notin OldSchema
      /\ \A q \in Ops \ {o} : prepared'[q] = prepared[q]
  BY <1>3 DEF OldSchema
<1>6. LastEvent(o) = "none" /\ receipt[o] = "absent" /\ Shape(o) /\ Agrees(o)
  <2>1. LastEvent(o) = "none" /\ Shape(o) /\ Agrees(o)
    BY <1>3 DEF OutcomeInv, OperationOK, Agrees
  <2>2. receipt[o] \in {"absent", "migration", "rollback"}
    BY DEF OutcomeInv, LockInv, MigrationTypeOK
  <2> QED
    BY <2>1, <2>2 DEF Agrees, Shape, RollbackStarted
<1>7. \A q, x : LastEvent(q)' = LastEvent(q) /\ (Marked(q, x)' <=> Marked(q, x))
  BY <1>4, JournalStays
<1>8. OperationOK(o)'
  <2>1. Shape(o)'
    BY <1>6, <1>7 DEF Shape, Checked
  <2>2. Agrees(o)'
    BY <1>4, <1>5, <1>6, <1>7 DEF Agrees
  <2>3. journal[o] = <<>>
    BY <1>6, EmptyJournal DEF OutcomeInv, LockInv
  <2>4. Pending(o)'
    BY <1>4, <2>3 DEF Pending, Active
  <2> QED
    BY <2>1, <2>2, <2>4 DEF OperationOK
<1>9. ASSUME NEW q \in Ops, q # o PROVE OperationOK(q)'
  <2>1. Shape(q)' /\ Agrees(q)'
    BY <1>4, <1>5, <1>9, OperationStays DEF OutcomeInv, OperationOK
  <2>2. Pending(q)
    BY DEF OutcomeInv, OperationOK
  <2>3. LastEvent(q)' = LastEvent(q) /\ prepared'[q] = prepared[q]
    BY <1>5, <1>7, <1>9
  <2>4. Pending(q)'
    BY <1>4, <2>2, <2>3 DEF Pending, Active, Alone, Untouched, MovedIn, MovedBack
  <2> QED
    BY <2>1, <2>4 DEF OperationOK
<1>10. ASSUME NEW p \in Procs PROVE PlaceOK(p)'
  <2>1. work[p].at \in {"idle", "scanned"}
    BY MigrationAssumption DEF Prepare, OutcomeInv, LockInv, LockHeld
  <2>2. PICK q, a : q = work[p].op /\ a = work[p].at
    OBVIOUS
  <2>3. PlaceFacts(q, a) /\ (a # "idle" => q \in Ops)
    BY <2>2 DEF OutcomeInv, PlaceOK, LockInv, LockHeld
  <2>4. a # "idle" => prepared'[q] # "absent"
    BY <1>5, <2>3 DEF PlaceFacts
  <2>5. PlaceFacts(q, a)'
    BY <2>1, <2>2, <2>4 DEF PlaceFacts
  <2> QED
    BY <1>4, <2>2, <2>5 DEF PlaceOK
<1> QED
  BY <1>2, <1>8, <1>9, <1>10 DEF OutcomeInv

\* Somebody writes the database: the server while it serves, or a writer that
\* does not know the owner lock.  An image of a schema stays one of it.
LEMMA WriteOutcome ==
    ASSUME OutcomeInv, ServerWrite \/ OutsideWrite
    PROVE  OutcomeInv'
<1>1. MigrationNext
  BY DEF MigrationNext, ServerStep
<1>2. LockInv' /\ ServesOnlySettled'
  BY <1>1, LockStep, SettledStep DEF OutcomeInv
<1>3. /\ UNCHANGED <<prepared, rollback, failed, receipt, journal, work>>
      /\ \/ source \in OldSchema /\ source' \in OldSchema
         \/ source \notin OldSchema \cup {"absent"} /\ source' = "served"
         \/ NoActiveOperation /\ \A p \in Procs : work[p].at \in {"idle", "scanned"}
  BY DEF ServerWrite, OutsideWrite, OutcomeInv, ServesOnlySettled, OldSchema
<1>4. \A o \in Ops : o \notin OldSchema \cup {"absent", "served"} /\ "served" \notin OldSchema
  BY PreparedImage
<1>5. \/ NoActiveOperation /\ \A p \in Procs : work[p].at \in {"idle", "scanned"}
      \/ /\ source # "absent"
         /\ \A o \in Ops : /\ Untouched(o) => Untouched(o)'
                           /\ MovedIn(o) => MovedIn(o)'
                           /\ MovedBack(o) => MovedBack(o)'
  BY <1>3, <1>4 DEF Untouched, MovedIn, MovedBack, OldSchema
<1>6. \A o : LastEvent(o)' = LastEvent(o) /\ (RollbackStarted(o)' <=> RollbackStarted(o))
  BY <1>3, JournalStays DEF RollbackStarted
<1>7. ASSUME NEW o \in Ops PROVE OperationOK(o)'
  <2>1. Shape(o)' /\ Agrees(o)'
    BY <1>3, OperationStays DEF OutcomeInv, OperationOK
  <2>2. Pending(o)
    BY DEF OutcomeInv, OperationOK
  <2>3. (Active(o)' <=> Active(o)) /\ (Alone(o)' <=> Alone(o))
    BY <1>3, <1>6 DEF Active, Alone
  <2>4. Pending(o)'
    BY <1>5, <1>6, <2>2, <2>3 DEF Pending, NoActiveOperation
  <2> QED
    BY <2>1, <2>4 DEF OperationOK
<1>8. ASSUME NEW p \in Procs PROVE PlaceOK(p)'
  <2>1. PICK q, a : q = work[p].op /\ a = work[p].at
    OBVIOUS
  <2>2. PlaceFacts(q, a) /\ (a # "idle" => q \in Ops)
    BY <2>1 DEF OutcomeInv, PlaceOK, LockInv, LockHeld
  <2>3. PlaceFacts(q, a)'
    <3>1. CASE a \in {"idle", "scanned"}
      BY <1>3, <2>2, <3>1 DEF PlaceFacts
    <3>2. CASE a \notin {"idle", "scanned"}
      <4>1. /\ Untouched(q) => Untouched(q)'
            /\ MovedIn(q) => MovedIn(q)'
            /\ MovedBack(q) => MovedBack(q)'
        BY <1>5, <2>1, <2>2, <3>2
      <4> QED
        BY <1>3, <1>6, <2>2, <4>1 DEF PlaceFacts
    <3> QED
      BY <3>1, <3>2
  <2> QED
    BY <1>3, <2>1, <2>3 DEF PlaceOK
<1> QED
  BY <1>2, <1>7, <1>8 DEF OutcomeInv

\* The server takes and leaves the lock and looks; or nothing happens.
LEMMA ServerOutcome ==
    ASSUME OutcomeInv, ServerLock \/ ServerStart \/ ServerStop \/ UNCHANGED migrationVars
    PROVE  OutcomeInv'
<1>1. [MigrationNext]_migrationVars
  BY DEF MigrationNext, ServerStep
<1>2. LockInv' /\ ServesOnlySettled'
  BY <1>1, LockStep, SettledStep DEF OutcomeInv
<1>3. UNCHANGED <<files, prepared, journal>> /\ work' = work
  BY DEF ServerLock, ServerStart, ServerStop, migrationVars, files
<1>4. /\ \A q \in Ops : OperationOK(q)'
      /\ \A q, a : PlaceFacts(q, a)' <=> PlaceFacts(q, a)
  BY <1>3, NothingMoves DEF OutcomeInv
<1>5. ASSUME NEW p \in Procs PROVE PlaceOK(p)'
  <2>1. PICK q, a : q = work[p].op /\ a = work[p].at
    OBVIOUS
  <2>2. PlaceFacts(q, a)
    BY <2>1 DEF OutcomeInv, PlaceOK
  <2>3. PlaceFacts(q, a)'
    BY <1>4, <2>2
  <2> QED
    BY <1>3, <2>1, <2>3 DEF PlaceOK
<1> QED
  BY <1>2, <1>4, <1>5 DEF OutcomeInv

\* Every step keeps the outcomes in order.
LEMMA OutcomeStep ==
    ASSUME OutcomeInv, [MigrationNext]_migrationVars
    PROVE  OutcomeInv'
<1>1. ASSUME NEW p \in Procs, ApplyStep(p) PROVE OutcomeInv'
  BY <1>1, ReadingOutcome, MovesOutcome, MarkersOutcome DEF ApplyStep, MarkerAction
<1>2. ASSUME NEW p \in Procs, RecoveryStep(p) PROVE OutcomeInv'
  BY <1>2, RecoverOutcome, ReadingOutcome, MovesOutcome, MarkersOutcome
     DEF RecoveryStep, MarkerAction
<1>3. ASSUME NEW p \in Procs, Stop(p) PROVE OutcomeInv'
  BY <1>3, ReadingOutcome
<1>4. ASSUME ServerStep \/ OutsideWrite PROVE OutcomeInv'
  BY <1>4, ServerOutcome, WriteOutcome DEF ServerStep
<1>5. ASSUME NEW o \in Ops, Prepare(o) PROVE OutcomeInv'
  BY <1>5, PrepareOutcome
<1>6. ASSUME UNCHANGED migrationVars PROVE OutcomeInv'
  BY <1>6, ServerOutcome
<1> QED
  BY <1>1, <1>2, <1>3, <1>4, <1>5, <1>6 DEF MigrationNext

\* At the start nothing was prepared.
LEMMA OutcomeInit == MigrationInit => OutcomeInv
<1> SUFFICES ASSUME MigrationInit PROVE OutcomeInv
  OBVIOUS
<1>1. LockInv
  BY LockInit
<1>2. /\ \A o \in Ops : /\ journal[o] = <<>> /\ receipt[o] = "absent"
      /\ \A p \in Procs : work[p].at = "idle" /\ ~serving
  BY DEF MigrationInit, Idle
<1>3. ServesOnlySettled
  BY DEF MigrationInit, ServesOnlySettled
<1>4. ASSUME NEW o \in Ops PROVE OperationOK(o)
  <2>1. LastEvent(o) = "none" /\ (\A x : ~Marked(o, x)) /\ receipt[o] = "absent" /\ ~Active(o)
    BY <1>2 DEF LastEvent, Marked, Active
  <2> QED
    BY <2>1 DEF OperationOK, Shape, Agrees, Pending, Checked, RollbackStarted
<1>5. \A p \in Procs : PlaceOK(p)
  BY <1>2 DEF PlaceOK, PlaceFacts
<1> QED
  BY <1>1, <1>3, <1>4, <1>5 DEF OutcomeInv

\* OutcomeInv is inductive, beside the lock and what is verified under it.
LEMMA OutcomeAlways == MigrationSpec => []OutcomeInv
BY OutcomeInit, OutcomeStep, PTL DEF MigrationSpec

\* The markers, the receipt and the files of an operation tell one outcome
\* (the marker automaton, _commit_receipt and _recover_operation).
THEOREM OneOutcomeIsTold == MigrationSpec => []OutcomesAgree
<1>1. ASSUME OutcomeInv, NEW o \in Ops
      PROVE  /\ receipt[o] = "migration" =>
                   /\ Marked(o, "verified") \/ Marked(o, "recovery_verified")
                   /\ ~RollbackStarted(o) /\ ~Marked(o, "abort_verified")
                   /\ rollback[o] = prepared[o] /\ failed[o] = "absent"
             /\ receipt[o] = "rollback" =>
                   /\ RollbackStarted(o) /\ ~Marked(o, "receipt_committed")
                   /\ rollback[o] = "absent" /\ failed[o] = o
             /\ LastEvent(o) = "complete" => receipt[o] = "migration"
             /\ LastEvent(o) = "rolled_back" => receipt[o] = "rollback"
             /\ Marked(o, "abort_verified") =>
                   receipt[o] = "absent" /\ rollback[o] = "absent" /\ failed[o] = "absent"
  <2>1. Shape(o) /\ Agrees(o)
    BY <1>1 DEF OutcomeInv, OperationOK
  <2> QED
    BY <2>1 DEF Shape, Agrees, Checked, RollbackStarted
<1>2. OutcomeInv => OutcomesAgree
  BY <1>1 DEF OutcomesAgree
<1> QED
  BY <1>2, OutcomeAlways, PTL

\* An interrupted migration that nobody interfered with can always be ended:
\* some recovery accepts its files and its journal.
THEOREM InterruptedCanBeEnded == MigrationSpec => []PendingIsRecoverable
<1>1. ASSUME OutcomeInv, NEW o \in Ops, Active(o), source \in {prepared[o], o}, Alone(o)
      PROVE  Recoverable(o)
  <2>1. Shape(o) /\ Agrees(o) /\ Pending(o)
    BY <1>1 DEF OutcomeInv, OperationOK
  <2>2. /\ prepared[o] \in OldSchema /\ "absent" \notin OldSchema
        /\ o \notin OldSchema \cup {"absent", "served"} /\ "served" \notin OldSchema
        /\ receipt[o] \in {"absent", "migration", "rollback"}
    BY <1>1, PreparedImage DEF OutcomeInv, LockInv, MigrationTypeOK
  <2>3. CASE Untouched(o) /\ LastEvent(o) \in {"intent", "replace_started", "abort_verified"}
    <3>1. /\ source = prepared[o] /\ source # o
          /\ ~RollbackStarted(o) /\ receipt[o] = "absent"
      BY <1>1, <2>1, <2>2, <2>3 DEF Untouched, Shape, Agrees, RollbackStarted
    <3>2. CanAbort(o)
      BY <2>3, <3>1 DEF CanAbort, Classification, Untouched, Replaced
    <3> QED
      BY <2>3, <3>2 DEF Recoverable, MayFollow
  <2>4. CASE MovedIn(o) /\ LastEvent(o) \in {"replace_started", "replace_returned", "verified",
                                "recovery_verified", "receipt_committed", "rollback_started"}
    <3>1. source = o /\ source # prepared[o] /\ rollback[o] = prepared[o] /\ failed[o] = "absent"
      BY <1>1, <2>2, <2>4 DEF MovedIn
    <3>2. Classification(o) = "CANDIDATE"
      BY <3>1 DEF Classification, Replaced
    <3>3. CASE LastEvent(o) = "rollback_started"
      <4>1. receipt[o] = "absent"
        BY <2>1, <2>2, <3>1, <3>3 DEF Shape, Agrees, RollbackStarted
      <4> QED
        BY <3>2, <3>3, <4>1 DEF Recoverable, CanRollBack
    <3>4. CASE LastEvent(o) = "receipt_committed"
      <4>1. receipt[o] = "migration" /\ ~RollbackStarted(o)
        BY <2>1, <3>4 DEF Shape, Agrees, RollbackStarted
      <4> QED
        BY <3>2, <3>4, <4>1 DEF Recoverable, CanFinalize
    <3>5. CASE LastEvent(o) \in {"replace_started", "replace_returned", "verified",
                                 "recovery_verified"}
      <4>1. receipt[o] \in {"absent", "migration"} /\ ~RollbackStarted(o)
        BY <2>1, <2>2, <3>5 DEF Shape, Agrees, RollbackStarted
      <4> QED
        BY <3>2, <3>5, <4>1 DEF Recoverable, CanFinalize, MayFollow
    <3> QED
      BY <2>4, <3>3, <3>4, <3>5
  <2>5. CASE MovedBack(o) /\ LastEvent(o) \in {"rollback_started", "rollback_receipt_committed"}
    <3>1. source = prepared[o] /\ source # o /\ RollbackStarted(o)
      BY <1>1, <2>1, <2>2, <2>5 DEF MovedBack, Shape, RollbackStarted
    <3>2. CanRollBack(o)
      BY <2>5, <3>1 DEF CanRollBack, Classification, MovedBack, Replaced
    <3> QED
      BY <2>5, <3>2 DEF Recoverable
  <2> QED
    BY <1>1, <2>1, <2>2, <2>3, <2>4, <2>5 DEF Pending
<1>2. OutcomeInv => PendingIsRecoverable
  BY <1>1 DEF PendingIsRecoverable
<1> QED
  BY <1>2, OutcomeAlways, PTL

-----------------------------------------------------------------------------
(* Plugin versions.                                                         *)

Holders == PluginRooms \cup PluginRounds
Frozen == UNION {[S -> Nat] : S \in SUBSET Targets}

PluginTypes ==
    /\ registered \subseteq Targets /\ installed \subseteq registered
    /\ events \in [Targets -> Seq(LifecycleEvents)]
    /\ head \in [Targets -> [sequence : Nat, state : States]]
    /\ resolution \in [Holders -> Frozen]

\* The head of every version is where its events lead, and versions that were
\* never registered have none.
HeadsFollow ==
    \A t \in Targets :
        /\ head[t].sequence = Len(events[t])
        /\ head[t].state = StateAfter(t, Len(events[t]))
        /\ t \notin registered => events[t] = <<>>

\* A version that names a replacement is deprecated or tombstoned, so it is not
\* ready: none can become the replacement of another.
NamedAreRetired ==
    \A t \in Targets :
        /\ Declarations(t) # {} =>
              \E i \in Declarations(t) : \A j \in Declarations(t) : j <= i
        /\ EffectiveReplacement(t) # NoTarget => head[t].state.catalog # "active"

NoCycle == \A C \in SUBSET Targets : C # {} => {EffectiveReplacement(s) : s \in C} # C

\* The inductive invariant of the ledger of versions.
PluginInv ==
    /\ PluginTypes /\ HeadsFollow /\ NamedAreRetired /\ NoCycle
    /\ \A t \in registered : ChainVerifies(t)
    /\ FrozenResolutionsVerify

\* What an action makes of a state that allows it.
LEMMA ApplyIsState ==
    ASSUME NEW s \in States, NEW a \in LifecycleActions, Allows(s, a)
    PROVE  /\ Apply(s, a) \in States
           /\ Apply(s, a).catalog = IF a = "deprecate" THEN "deprecated"
                                    ELSE IF a = "reinstate" THEN "active"
                                    ELSE IF a = "tombstone" THEN "tombstoned" ELSE s.catalog
<1>1. CASE a = "disable"
  BY <1>1 DEF Apply, States
<1>2. CASE a = "enable"
  BY <1>2 DEF Apply, States
<1>3. CASE a = "quarantine"
  BY <1>3 DEF Apply, States, Allows
<1>4. CASE a = "clear_quarantine"
  BY <1>4 DEF Apply, States
<1>5. CASE a = "deprecate"
  BY <1>5 DEF Apply, States
<1>6. CASE a = "reinstate"
  BY <1>6 DEF Apply, States
<1>7. CASE a = "tombstone"
  BY <1>7 DEF Apply, States
<1> QED
  BY <1>1, <1>2, <1>3, <1>4, <1>5, <1>6, <1>7 DEF LifecycleActions, Restoring, Retiring

\* The view of a state loses its resume state, and only that.
LEMMA ViewIsState ==
    ASSUME NEW s \in States
    PROVE  /\ View(s) \in States /\ View(s).catalog = s.catalog
           /\ \A a : Allows(View(s), a) <=> Allows(s, a)
BY DEF View, States, Allows

\* The state after no event, and after the last one.
LEMMA HeadState ==
    ASSUME PluginInv, NEW t \in Targets
    PROVE  /\ events[t] \in Seq(LifecycleEvents) /\ Len(events[t]) \in Nat
           /\ DOMAIN events[t] = 1 .. Len(events[t])
           /\ head[t].sequence = Len(events[t]) /\ head[t].state \in States
           /\ head[t].state = StateAfter(t, Len(events[t]))
BY DEF PluginInv, PluginTypes, HeadsFollow

\* An event that is recorded.
EventAdded(t, e) ==
    /\ events' = [events EXCEPT ![t] = Append(@, e)]
    /\ head' = [head EXCEPT ![t] = [sequence |-> @.sequence + 1, state |-> e.state]]

\* What it leaves of the events and the heads.
LEMMA EventsGrow ==
    ASSUME PluginInv, NEW t \in Targets, NEW e \in LifecycleEvents, EventAdded(t, e)
    PROVE  LET n == Len(events[t]) IN
           /\ n \in Nat /\ Len(events'[t]) = n + 1 /\ events'[t][n + 1] = e
           /\ DOMAIN events[t] = 1 .. n /\ DOMAIN events'[t] = 1 .. n + 1
           /\ \A i \in 1 .. n : events'[t][i] = events[t][i]
           /\ \A s \in Targets \ {t} : events'[s] = events[s] /\ head'[s] = head[s]
           /\ head'[t].sequence = n + 1 /\ head'[t].state = e.state
           /\ events' \in [Targets -> Seq(LifecycleEvents)]
           /\ head' \in [Targets -> [sequence : Nat, state : States]]
<1>1. /\ events \in [Targets -> Seq(LifecycleEvents)] /\ events[t] \in Seq(LifecycleEvents)
      /\ head \in [Targets -> [sequence : Nat, state : States]]
      /\ head[t].sequence = Len(events[t]) /\ Len(events[t]) \in Nat
  BY HeadState DEF PluginInv, PluginTypes
<1>2. /\ events'[t] = Append(events[t], e)
      /\ \A s \in Targets \ {t} : events'[s] = events[s] /\ head'[s] = head[s]
      /\ head'[t] = [sequence |-> head[t].sequence + 1, state |-> e.state]
  BY <1>1 DEF EventAdded
<1>3. e.state \in States
  BY DEF LifecycleEvents
<1>4. events' \in [Targets -> Seq(LifecycleEvents)]
  <2>1. Append(events[t], e) \in Seq(LifecycleEvents)
    BY <1>1
  <2> QED
    BY <1>1, <2>1 DEF EventAdded
<1>5. head' \in [Targets -> [sequence : Nat, state : States]]
  BY <1>1, <1>3 DEF EventAdded
<1>6. /\ Len(Append(events[t], e)) = Len(events[t]) + 1
      /\ Append(events[t], e)[Len(events[t]) + 1] = e
      /\ \A i \in 1 .. Len(events[t]) : Append(events[t], e)[i] = events[t][i]
      /\ DOMAIN events[t] = 1 .. Len(events[t])
      /\ DOMAIN Append(events[t], e) = 1 .. Len(events[t]) + 1
  BY <1>1
<1> QED
  BY <1>1, <1>2, <1>4, <1>5, <1>6

\* The states along the events do not change with what comes after.
LEMMA StatesStay ==
    ASSUME PluginInv, NEW t \in Targets, NEW e \in LifecycleEvents, EventAdded(t, e),
           NEW s \in Targets, NEW n \in Nat, n <= Len(events[s])
    PROVE  StateAfter(s, n)' = StateAfter(s, n)
<1>1. CASE n = 0
  BY <1>1 DEF StateAfter
<1>2. CASE n # 0
  <2>1. n \in 1 .. Len(events[s]) /\ Len(events[s]) \in Nat
    BY <1>2, HeadState
  <2>2. events'[s][n] = events[s][n]
    BY <2>1, EventsGrow
  <2> QED
    BY <1>2, <2>2 DEF StateAfter
<1> QED
  BY <1>1, <1>2

\* What declares a replacement, or clears it, after an event is recorded.
Declares(e) ==
    \/ e.action \in {"deprecate", "reinstate"}
    \/ e.action = "tombstone" /\ e.replacement # NoTarget

\* The last declaration is the new event, or the one that was the last.
LEMMA ReplacementAfter ==
    ASSUME PluginInv, NEW t \in Targets, NEW e \in LifecycleEvents, EventAdded(t, e),
           NEW s \in Targets
    PROVE  /\ Declarations(s)' # {} =>
                 \E i \in Declarations(s)' : \A j \in Declarations(s)' : j <= i
           /\ EffectiveReplacement(s)' =
                 IF s = t /\ Declares(e)
                 THEN IF e.action = "reinstate" THEN NoTarget ELSE e.replacement
                 ELSE EffectiveReplacement(s)
<1>1. CASE s # t
  <2>1. events'[s] = events[s]
    BY <1>1, EventsGrow
  <2>2. Declarations(s)' = Declarations(s)
    BY <2>1 DEF Declarations
  <2>3. LastDeclaration(s)' = LastDeclaration(s)
    BY <2>2 DEF LastDeclaration
  <2>4. EffectiveReplacement(s)' = EffectiveReplacement(s)
    BY <2>1, <2>2, <2>3 DEF EffectiveReplacement
  <2> QED
    BY <1>1, <2>2, <2>4 DEF PluginInv, NamedAreRetired
<1>2. CASE s = t
  <2> DEFINE n == Len(events[t])
  <2>1. /\ n \in Nat /\ events'[t][n + 1] = e
        /\ DOMAIN events[t] = 1 .. n /\ DOMAIN events'[t] = 1 .. n + 1
        /\ \A i \in 1 .. n : events'[t][i] = events[t][i]
    BY EventsGrow
  <2> HIDE DEF n
  <2>2. \A i : i \in 1 .. n + 1 <=> i \in 1 .. n \/ i = n + 1
    BY <2>1
  <2>3. \A i : i \in Declarations(t) <=> i \in 1 .. n /\ Declares(events[t][i])
    BY <2>1 DEF Declarations, Declares
  <2>4. \A i : i \in Declarations(t)' <=> i \in 1 .. n + 1 /\ Declares(events'[t][i])
    BY <2>1 DEF Declarations, Declares
  <2>5. \A i : i \in Declarations(t)' <=> i \in Declarations(t) \/ (i = n + 1 /\ Declares(e))
    <3>1. ASSUME NEW i, i \in 1 .. n PROVE i \in Declarations(t)' <=> i \in Declarations(t)
      BY <2>1, <2>2, <2>3, <2>4, <3>1
    <3>2. n + 1 \in Declarations(t)' <=> Declares(e)
      BY <2>1, <2>2, <2>4
    <3>3. n + 1 \notin 1 .. n
      BY <2>1
    <3> QED
      BY <2>2, <2>3, <2>4, <3>1, <3>2, <3>3
  <2>6. CASE Declares(e)
    <3>1. /\ n + 1 \in Declarations(t)'
          /\ \A j \in Declarations(t)' : j \in Nat /\ j <= n + 1
      BY <2>1, <2>3, <2>5, <2>6
    <3>2. LastDeclaration(t)' = n + 1
      <4>1. \A i : i \in Declarations(t)' /\ (\A j \in Declarations(t)' : j <= i) => i = n + 1
        BY <2>1, <3>1
      <4> QED
        BY <3>1, <4>1 DEF LastDeclaration
    <3>3. events'[t][LastDeclaration(t)'] = e
      BY <2>1, <3>2
    <3> QED
      BY <1>2, <2>6, <3>1, <3>3 DEF EffectiveReplacement
  <2>7. CASE ~Declares(e)
    <3>1. Declarations(t)' = Declarations(t)
      BY <2>5, <2>7
    <3>2. LastDeclaration(t)' = LastDeclaration(t)
      BY <3>1 DEF LastDeclaration
    <3>3. Declarations(t) # {} => \E i \in Declarations(t) : \A j \in Declarations(t) : j <= i
      BY DEF PluginInv, NamedAreRetired
    <3>4. Declarations(t) # {} => LastDeclaration(t) \in 1 .. n
      BY <2>3, <3>3 DEF LastDeclaration
    <3>5. EffectiveReplacement(t)' = EffectiveReplacement(t)
      <4>1. CASE Declarations(t) = {}
        BY <3>1, <4>1 DEF EffectiveReplacement
      <4>2. CASE Declarations(t) # {}
        <5>1. events'[t][LastDeclaration(t)'] = events[t][LastDeclaration(t)]
          BY <2>1, <3>2, <3>4, <4>2
        <5> QED
          BY <3>1, <5>1 DEF EffectiveReplacement
      <4> QED
        BY <4>1, <4>2
    <3> QED
      BY <1>2, <2>7, <3>1, <3>3, <3>5
  <2> QED
    BY <2>6, <2>7
<1> QED
  BY <1>1, <1>2

\* A transition records one event: the action applied to the view of the head.
LEMMA TransitionEvent ==
    ASSUME PluginInv, NEW q \in PluginRequests, NEW t \in Targets, NEW a \in LifecycleActions,
           NEW r \in Targets \cup {NoTarget}, PreviewAccepts(t, a, r), Record(q, t, a, r)
    PROVE  \E e \in LifecycleEvents :
              /\ EventAdded(t, e)
              /\ e.action = a /\ e.replacement = r /\ e.state = Apply(View(head[t].state), a)
              /\ e.available \/ a \notin Restoring
<1> DEFINE e == [action |-> a, replacement |-> r, request |-> q,
                 state |-> Apply(View(head[t].state), a), available |-> t \in installed]
<1>1. Allows(head[t].state, a) /\ (t \in installed \/ a \notin Restoring)
  BY DEF PreviewAccepts
<1>2. Apply(View(head[t].state), a) \in States
  BY <1>1, HeadState, ViewIsState, ApplyIsState
<1>3. (t \in installed) \in BOOLEAN
  OBVIOUS
<1>4. e \in LifecycleEvents
  BY <1>2, <1>3 DEF LifecycleEvents
<1>5. /\ e.action = a /\ e.replacement = r /\ e.state = Apply(View(head[t].state), a)
      /\ e.available = (t \in installed)
  OBVIOUS
<1>6. EventAdded(t, e)
  BY DEF EventAdded, Record
<1> HIDE DEF e
<1> QED
  BY <1>1, <1>4, <1>5, <1>6

\* A version that verifies after an event joined its chain has the state that the
\* event's action makes of the one before.
LEMMA VerifiedReplays ==
    ASSUME PluginInv, NEW t \in Targets, NEW e \in LifecycleEvents, EventAdded(t, e),
           t \in IntactTargets'
    PROVE  e.state = Apply(head[t].state, e.action)
<1>1. ChainVerifies(t)'
  BY DEF IntactTargets, Intact
<1>2. PICK n \in Nat : n = Len(events[t])
  BY HeadState
<1>3. DOMAIN events'[t] = 1 .. n + 1 /\ events'[t][n + 1] = e
  BY <1>2, EventsGrow
<1>4. n + 1 \in DOMAIN events'[t] /\ (n + 1) - 1 = n
  BY <1>3
<1>5. events'[t][n + 1].state = Apply(StateAfter(t, (n + 1) - 1)', events'[t][n + 1].action)
  BY <1>1, <1>4 DEF ChainVerifies, StateAfter
<1>6. StateAfter(t, (n + 1) - 1)' = head[t].state
  <2>1. StateAfter(t, n)' = StateAfter(t, n)
    BY <1>2, StatesStay
  <2> QED
    BY <1>2, <1>4, <2>1, HeadState DEF StateAfter
<1> QED
  BY <1>3, <1>5, <1>6

\* The chain of every version still verifies when an event joins one of them.
LEMMA ChainsGrow ==
    ASSUME PluginInv, NEW t \in Targets, NEW e \in LifecycleEvents, EventAdded(t, e),
           t \in registered, registered' = registered,
           Allows(head[t].state, e.action), e.state = Apply(head[t].state, e.action),
           ReplacementContract(t, e.action, e.replacement),
           e.available \/ e.action \notin Restoring,
           NEW s \in registered
    PROVE  ChainVerifies(s)'
<1>1. s \in Targets /\ ChainVerifies(s)
  BY DEF PluginInv, PluginTypes
<1>2. PICK n \in Nat : n = Len(events[s]) /\ DOMAIN events[s] = 1 .. n
  BY <1>1, HeadState
<1>3. \A k \in 0 .. n : StateAfter(s, k)' = StateAfter(s, k)
  BY <1>1, <1>2, StatesStay
<1>4. ASSUME NEW i \in 1 .. n, events'[s][i] = events[s][i]
      PROVE  /\ Allows(StateAfter(s, i - 1)', events'[s][i].action)
             /\ events'[s][i].state = Apply(StateAfter(s, i - 1)', events'[s][i].action)
             /\ ReplacementContract(s, events'[s][i].action, events'[s][i].replacement)
             /\ events'[s][i].available \/ events'[s][i].action \notin Restoring
  <2>1. i - 1 \in 0 .. n
    BY <1>2
  <2>2. StateAfter(s, i - 1)' = StateAfter(s, i - 1)
    BY <1>3, <2>1
  <2>3. /\ Allows(StateAfter(s, i - 1), events[s][i].action)
        /\ events[s][i].state = Apply(StateAfter(s, i - 1), events[s][i].action)
        /\ ReplacementContract(s, events[s][i].action, events[s][i].replacement)
        /\ events[s][i].available \/ events[s][i].action \notin Restoring
    BY <1>1, <1>2 DEF ChainVerifies
  <2> QED
    BY <1>4, <2>2, <2>3
<1>5. CASE s # t
  <2>1. events'[s] = events[s] /\ head'[s] = head[s]
    BY <1>1, <1>5, EventsGrow
  <2>2. head[s].sequence = n /\ head[s].state = StateAfter(s, n)
    BY <1>1, <1>2, HeadState
  <2>3. StateAfter(s, n)' = StateAfter(s, n)
    BY <1>2, <1>3
  <2>4. Len(events'[s]) = n /\ DOMAIN events'[s] = 1 .. n
    BY <1>2, <2>1
  <2>5. head'[s].state = StateAfter(s, Len(events[s]))'
    BY <2>1, <2>2, <2>3, <2>4 DEF StateAfter
  <2> QED
    BY <1>4, <2>1, <2>2, <2>4, <2>5 DEF ChainVerifies, ReplacementContract
<1>6. CASE s = t
  <2>1. /\ Len(events'[s]) = n + 1 /\ DOMAIN events'[s] = 1 .. n + 1 /\ events'[s][n + 1] = e
        /\ \A i \in 1 .. n : events'[s][i] = events[s][i]
        /\ head'[s].sequence = n + 1 /\ head'[s].state = e.state
    BY <1>2, <1>6, EventsGrow
  <2>2. StateAfter(s, n)' = head[s].state
    <3>1. StateAfter(s, n)' = StateAfter(s, n)
      BY <1>2, <1>3
    <3> QED
      BY <3>1, <1>1, <1>2, <1>6, HeadState
  <2>3. head'[s].state = StateAfter(s, Len(events[s]))'
    BY <1>2, <2>1 DEF StateAfter
  <2>4. /\ Allows(StateAfter(s, n)', events'[s][n + 1].action)
        /\ events'[s][n + 1].state = Apply(StateAfter(s, n)', events'[s][n + 1].action)
        /\ ReplacementContract(s, events'[s][n + 1].action, events'[s][n + 1].replacement)
        /\ events'[s][n + 1].available \/ events'[s][n + 1].action \notin Restoring
    BY <1>6, <2>1, <2>2
  <2>5. (n + 1) - 1 = n
    BY <1>2
  <2>6. StateAfter(s, (n + 1) - 1)' = StateAfter(s, n)'
    BY <2>5 DEF StateAfter
  <2>7. \A i \in 1 .. n + 1 : i \in 1 .. n \/ i = n + 1
    BY <1>2
  <2>8. ASSUME NEW i \in DOMAIN events'[s]
        PROVE  /\ Allows(StateAfter(s, i - 1)', events'[s][i].action)
               /\ events'[s][i].state = Apply(StateAfter(s, i - 1)', events'[s][i].action)
               /\ ReplacementContract(s, events'[s][i].action, events'[s][i].replacement)
               /\ events'[s][i].available \/ events'[s][i].action \notin Restoring
    <3>1. CASE i \in 1 .. n
      BY <1>4, <2>1, <3>1
    <3>2. CASE i = n + 1
      BY <2>4, <2>6, <3>2
    <3> QED
      BY <2>1, <2>7, <2>8, <3>1, <3>2
  <2> QED
    BY <2>1, <2>3, <2>8 DEF ChainVerifies, ReplacementContract
<1> QED
  BY <1>5, <1>6

\* The heads follow the events when one joins them.
LEMMA HeadsGrow ==
    ASSUME PluginInv, NEW t \in Targets, NEW e \in LifecycleEvents, EventAdded(t, e),
           t \in registered, registered' = registered
    PROVE  HeadsFollow'
<1> SUFFICES ASSUME NEW s \in Targets
             PROVE  /\ head'[s].sequence = Len(events'[s])
                    /\ head'[s].state = StateAfter(s, Len(events[s]))'
                    /\ s \notin registered => events'[s] = <<>>
  BY DEF HeadsFollow
<1>1. CASE s # t
  <2>1. events'[s] = events[s] /\ head'[s] = head[s]
    BY <1>1, EventsGrow
  <2>2. /\ head[s].sequence = Len(events[s]) /\ head[s].state = StateAfter(s, Len(events[s]))
        /\ s \notin registered => events[s] = <<>>
    BY DEF PluginInv, HeadsFollow
  <2>3. StateAfter(s, Len(events[s]))' = StateAfter(s, Len(events[s]))
    BY <2>1 DEF StateAfter
  <2> QED
    BY <2>1, <2>2, <2>3
<1>2. CASE s = t
  <2>1. /\ Len(events'[s]) = Len(events[s]) + 1 /\ events'[s][Len(events[s]) + 1] = e
        /\ head'[s].sequence = Len(events[s]) + 1 /\ head'[s].state = e.state
        /\ Len(events[s]) \in Nat
    BY <1>2, EventsGrow
  <2>2. StateAfter(s, Len(events[s]))' = e.state
    BY <2>1 DEF StateAfter
  <2> QED
    BY <1>2, <2>1, <2>2
<1> QED
  BY <1>1, <1>2

\* Who names a replacement stays retired when an event is recorded.
LEMMA NamedStayRetired ==
    ASSUME PluginInv, NEW t \in Targets, NEW e \in LifecycleEvents, EventAdded(t, e),
           Allows(head[t].state, e.action), e.state = Apply(head[t].state, e.action)
    PROVE  NamedAreRetired'
<1>1. ASSUME NEW s \in Targets, EffectiveReplacement(s)' # NoTarget
      PROVE  head'[s].state.catalog # "active"
  <2>1. EffectiveReplacement(s) # NoTarget => head[s].state.catalog # "active"
    BY DEF PluginInv, NamedAreRetired
  <2>2. CASE s # t
    <3>1. head'[s] = head[s]
      BY <2>2, EventsGrow
    <3>2. EffectiveReplacement(s)' = EffectiveReplacement(s)
      BY <2>2, ReplacementAfter
    <3> QED
      BY <1>1, <2>1, <3>1, <3>2
  <2>3. CASE s = t
    <3>1. e.action \in LifecycleActions /\ head[t].state \in States
      BY HeadState DEF LifecycleEvents
    <3>2. head'[t].state.catalog = IF e.action = "deprecate" THEN "deprecated"
                                   ELSE IF e.action = "reinstate" THEN "active"
                                   ELSE IF e.action = "tombstone" THEN "tombstoned"
                                   ELSE head[t].state.catalog
      <4>1. head'[t].state = Apply(head[t].state, e.action)
        BY EventsGrow
      <4> QED
        BY <3>1, <4>1, ApplyIsState
    <3>3. CASE Declares(e)
      <4>1. e.action # "reinstate"
        BY <1>1, <2>3, <3>3, ReplacementAfter
      <4> QED
        BY <2>3, <3>2, <3>3, <4>1 DEF Declares
    <3>4. CASE ~Declares(e)
      <4>1. EffectiveReplacement(s)' = EffectiveReplacement(s)
        BY <2>3, <3>4, ReplacementAfter
      <4>2. head[t].state.catalog # "active"
        BY <1>1, <2>1, <2>3, <4>1
      <4>3. e.action # "reinstate"
        BY <3>4 DEF Declares
      <4> QED
        BY <2>3, <3>2, <4>2, <4>3
    <3> QED
      BY <3>3, <3>4
  <2> QED
    BY <2>2, <2>3
<1>2. \A s \in Targets : Declarations(s)' # {} =>
          \E i \in Declarations(s)' : \A j \in Declarations(s)' : j <= i
  BY ReplacementAfter
<1> QED
  BY <1>1, <1>2 DEF NamedAreRetired

\* No circle of replacements closes: the replacement that is declared names none.
LEMMA NoCycleCloses ==
    ASSUME PluginInv, NEW t \in Targets, NEW e \in LifecycleEvents, EventAdded(t, e),
           e.replacement # NoTarget =>
               e.replacement \in Targets \ {t} /\ TargetReady(e.replacement)
    PROVE  NoCycle'
<1> SUFFICES ASSUME NEW C \in SUBSET Targets, C # {},
                    {EffectiveReplacement(s)' : s \in C} = C
             PROVE  FALSE
  BY DEF NoCycle
<1>1. {EffectiveReplacement(s) : s \in C} # C
  BY DEF PluginInv, NoCycle
<1>2. t \in C /\ Declares(e)
  <2> SUFFICES ASSUME t \notin C \/ ~Declares(e)
               PROVE  FALSE
    OBVIOUS
  <2>1. \A s \in C : EffectiveReplacement(s)' = EffectiveReplacement(s)
    BY ReplacementAfter
  <2>2. {EffectiveReplacement(s)' : s \in C} = {EffectiveReplacement(s) : s \in C}
    BY <2>1
  <2> QED
    BY <1>1, <2>2
<1>3. EffectiveReplacement(t)' = IF e.action = "reinstate" THEN NoTarget ELSE e.replacement
  BY <1>2, ReplacementAfter
<1>4. NoTarget \notin C
  BY PluginAssumption
<1>5. /\ EffectiveReplacement(t)' \in C
      /\ \A s \in C : EffectiveReplacement(s)' \in C
  BY <1>2
<1>6. e.replacement # NoTarget /\ e.replacement \in C
  BY <1>3, <1>4, <1>5
<1>7. EffectiveReplacement(e.replacement) = NoTarget
  <2>1. RuntimeState(head[e.replacement].state) = "ready"
    BY <1>6 DEF TargetReady
  <2>2. head[e.replacement].state \in States
    BY <1>6, HeadState
  <2>3. head[e.replacement].state.catalog = "active"
    BY <2>1, <2>2 DEF RuntimeState, States
  <2> QED
    BY <1>6, <2>3 DEF PluginInv, NamedAreRetired
<1>8. EffectiveReplacement(e.replacement)' = NoTarget
  BY <1>6, <1>7, ReplacementAfter
<1> QED
  BY <1>4, <1>5, <1>6, <1>8

\* What rooms and rounds froze is not disturbed by later events.
LEMMA FrozenStay ==
    ASSUME PluginInv, NEW t \in Targets, NEW e \in LifecycleEvents, EventAdded(t, e),
           resolution' = resolution
    PROVE  FrozenResolutionsVerify'
<1> SUFFICES ASSUME NEW h \in PluginRooms \cup PluginRounds, NEW s \in DOMAIN resolution[h]
             PROVE  /\ resolution[h][s] <= Len(events'[s])
                    /\ RuntimeState(StateAfter(s, resolution[h][s])') = "ready"
  BY DEF FrozenResolutionsVerify, StateAfter
<1>1. PICK n : n = resolution[h][s]
  OBVIOUS
<1>2. s \in Targets /\ n \in Nat
  BY <1>1 DEF PluginInv, PluginTypes, Frozen, Holders
<1>3. n <= Len(events[s]) /\ RuntimeState(StateAfter(s, n)) = "ready"
  BY <1>1 DEF PluginInv, FrozenResolutionsVerify
<1>4. StateAfter(s, n)' = StateAfter(s, n)
  BY <1>2, <1>3, StatesStay
<1>5. Len(events[s]) <= Len(events'[s])
  <2>1. CASE s = t
    BY <2>1, EventsGrow
  <2>2. CASE s # t
    <3>1. Len(events'[s]) = Len(events[s]) /\ Len(events[s]) \in Nat
      BY <1>2, <2>2, EventsGrow, HeadState
    <3> QED
      BY <3>1
  <2> QED
    BY <2>1, <2>2
<1>6. Len(events[s]) \in Nat /\ Len(events'[s]) \in Nat
  <2>1. events' \in [Targets -> Seq(LifecycleEvents)]
    BY EventsGrow
  <2> QED
    BY <1>2, <2>1, HeadState
<1>7. StateAfter(s, resolution[h][s])' = StateAfter(s, n)'
  BY <1>1 DEF StateAfter
<1> QED
  BY <1>1, <1>2, <1>3, <1>4, <1>5, <1>6, <1>7

\* A replacement that is in force is a registered version.
LEMMA ReplacementsRegistered ==
    ASSUME PluginInv, NEW t \in registered
    PROVE  EffectiveReplacement(t) \in registered \cup {NoTarget}
<1> SUFFICES ASSUME Declarations(t) # {},
                    EffectiveReplacement(t) = events[t][LastDeclaration(t)].replacement,
                    EffectiveReplacement(t) # NoTarget
             PROVE  EffectiveReplacement(t) \in registered
  BY DEF EffectiveReplacement
<1>1. t \in Targets
  BY DEF PluginInv, PluginTypes
<1>2. \E i \in Declarations(t) : \A j \in Declarations(t) : j <= i
  BY <1>1 DEF PluginInv, NamedAreRetired
<1>3. LastDeclaration(t) \in DOMAIN events[t]
  BY <1>2 DEF LastDeclaration, Declarations
<1>4. LET e == events[t][LastDeclaration(t)] IN ReplacementContract(t, e.action, e.replacement)
  BY <1>3 DEF PluginInv, ChainVerifies
<1> QED
  BY <1>4 DEF ReplacementContract

\* Under the invariant every chain verifies, replacements lead to registered
\* versions, and none is on a circle of them.
LEMMA CatalogFollows == PluginInv => CatalogStaysVerifiable
<1> SUFFICES ASSUME PluginInv, NEW t \in registered
             PROVE  Intact(t)
  BY DEF CatalogStaysVerifiable, CatalogVerifies, IntactTargets
<1>1. ASSUME NEW C \in SUBSET registered, t \in C
      PROVE  {EffectiveReplacement(s) : s \in C} # C
  BY <1>1 DEF PluginInv, PluginTypes, NoCycle
<1>2. ~OnReplacementCycle(t)
  BY <1>1 DEF OnReplacementCycle
<1>3. \A s \in registered :
          ChainVerifies(s) /\ EffectiveReplacement(s) \in registered \cup {NoTarget}
  BY ReplacementsRegistered DEF PluginInv
<1> QED
  BY <1>2, <1>3 DEF Intact

\* What is recorded keeps the invariant when the view has lost nothing: when the
\* state is the one that the action makes of the head itself.
LEMMA RecordPreserves ==
    ASSUME PluginInv, NEW q \in PluginRequests, NEW t \in Targets, NEW a \in LifecycleActions,
           NEW r \in Targets \cup {NoTarget}, PreviewAccepts(t, a, r), Record(q, t, a, r),
           Apply(View(head[t].state), a) = Apply(head[t].state, a)
    PROVE  PluginInv'
<1>1. PICK e \in LifecycleEvents :
          /\ EventAdded(t, e)
          /\ e.action = a /\ e.replacement = r /\ e.state = Apply(head[t].state, a)
          /\ e.available \/ a \notin Restoring
  BY TransitionEvent
<1>2. /\ t \in registered /\ Allows(head[t].state, e.action)
      /\ ReplacementContract(t, e.action, e.replacement)
      /\ e.replacement # NoTarget => TargetReady(e.replacement)
      /\ e.state = Apply(head[t].state, e.action)
      /\ e.available \/ e.action \notin Restoring
  BY <1>1 DEF PreviewAccepts
<1>3. registered' = registered /\ installed' = installed /\ resolution' = resolution
  BY DEF Record
<1>4. PluginTypes'
  <2>1. /\ events' \in [Targets -> Seq(LifecycleEvents)]
        /\ head' \in [Targets -> [sequence : Nat, state : States]]
    BY <1>1, EventsGrow
  <2> QED
    BY <1>3, <2>1 DEF PluginTypes, PluginInv
<1>5. HeadsFollow'
  BY <1>1, <1>2, <1>3, HeadsGrow
<1>6. NamedAreRetired'
  BY <1>1, <1>2, NamedStayRetired
<1>7. NoCycle'
  <2>1. e.replacement # NoTarget => e.replacement \in Targets \ {t}
    BY <1>2 DEF ReplacementContract, PluginInv, PluginTypes
  <2> QED
    BY <1>1, <1>2, <2>1, NoCycleCloses
<1>8. \A s \in registered : ChainVerifies(s)'
  BY <1>1, <1>2, <1>3, ChainsGrow
<1>9. FrozenResolutionsVerify'
  BY <1>1, <1>3, FrozenStay
<1> QED
  BY <1>3, <1>4, <1>5, <1>6, <1>7, <1>8, <1>9 DEF PluginInv

\* Of what the preview accepts, the verification in the transaction rejects
\* exactly what the lost resume state spoils.
LEMMA VerifiedIffReplays ==
    ASSUME PluginInv, NEW q \in PluginRequests, NEW t \in Targets, NEW a \in LifecycleActions,
           NEW r \in Targets \cup {NoTarget}, PreviewAccepts(t, a, r), Record(q, t, a, r)
    PROVE  t \in IntactTargets' <=> Apply(View(head[t].state), a) = Apply(head[t].state, a)
<1>1. ASSUME t \in IntactTargets'
      PROVE  Apply(View(head[t].state), a) = Apply(head[t].state, a)
  <2>1. PICK e \in LifecycleEvents :
            EventAdded(t, e) /\ e.action = a /\ e.state = Apply(View(head[t].state), a)
    BY TransitionEvent
  <2> QED
    BY <1>1, <2>1, VerifiedReplays
<1>2. ASSUME Apply(View(head[t].state), a) = Apply(head[t].state, a)
      PROVE  t \in IntactTargets'
  <2>1. PluginInv'
    BY <1>2, RecordPreserves
  <2>2. CatalogStaysVerifiable'
    BY <2>1, CatalogFollows, PTL
  <2>3. t \in registered'
    BY DEF PreviewAccepts, Record
  <2> QED
    BY <2>2, <2>3 DEF CatalogStaysVerifiable, CatalogVerifies
<1> QED
  BY <1>1, <1>2

\* A transition keeps the invariant.
LEMMA TransitionPreserves ==
    ASSUME PluginInv, NEW q \in PluginRequests, NEW t \in Targets, NEW a \in LifecycleActions,
           NEW r \in Targets \cup {NoTarget}, LifecycleTransition(q, t, a, r)
    PROVE  PluginInv'
<1>1. PreviewAccepts(t, a, r) /\ Record(q, t, a, r) /\ t \in IntactTargets'
  BY DEF LifecycleTransition
<1> QED
  BY <1>1, VerifiedIffReplays, RecordPreserves

\* Replacements are read from the events alone.
LEMMA ReplacementsStay ==
    ASSUME PluginInv, UNCHANGED <<events, head>>
    PROVE  NamedAreRetired' /\ NoCycle'
<1>1. ASSUME NEW t \in Targets
      PROVE  /\ Declarations(t)' = Declarations(t)
             /\ EffectiveReplacement(t)' = EffectiveReplacement(t)
  <2>1. Declarations(t)' = Declarations(t)
    BY DEF Declarations
  <2>2. LastDeclaration(t)' = LastDeclaration(t)
    BY <2>1 DEF LastDeclaration
  <2> QED
    BY <2>1, <2>2 DEF EffectiveReplacement
<1>2. NamedAreRetired'
  BY <1>1 DEF PluginInv, NamedAreRetired
<1>3. NoCycle'
  <2> SUFFICES ASSUME NEW C \in SUBSET Targets, C # {}
               PROVE  {EffectiveReplacement(s)' : s \in C} # C
    BY DEF NoCycle
  <2>1. {EffectiveReplacement(s)' : s \in C} = {EffectiveReplacement(s) : s \in C}
    BY <1>1
  <2> QED
    BY <2>1 DEF PluginInv, NoCycle
<1> QED
  BY <1>2, <1>3

\* A new build registers versions that have no events yet.
LEMMA BuildPreserves ==
    ASSUME PluginInv, NEW build \in Builds, ChangeBuild(build)
    PROVE  PluginInv'
<1>1. /\ installed' = build /\ registered' = registered \cup build /\ build \subseteq Targets
      /\ events' = events /\ head' = head /\ resolution' = resolution
  BY PluginAssumption DEF ChangeBuild
<1>2. PluginTypes'
  BY <1>1 DEF PluginTypes, PluginInv
<1>3. \A t \in Targets : \A n : StateAfter(t, n)' = StateAfter(t, n)
  BY <1>1 DEF StateAfter
<1>4. HeadsFollow'
  <2> SUFFICES ASSUME NEW t \in Targets
               PROVE  /\ head[t].sequence = Len(events[t])
                      /\ head[t].state = StateAfter(t, Len(events[t]))'
                      /\ t \notin registered' => events[t] = <<>>
    BY <1>1 DEF HeadsFollow
  <2>1. /\ head[t].sequence = Len(events[t])
        /\ head[t].state = StateAfter(t, Len(events[t]))
        /\ t \notin registered => events[t] = <<>>
    BY DEF PluginInv, HeadsFollow
  <2>2. StateAfter(t, Len(events[t]))' = StateAfter(t, Len(events[t]))
    BY <1>1 DEF StateAfter
  <2> QED
    BY <1>1, <2>1, <2>2
<1>6. NamedAreRetired' /\ NoCycle'
  BY <1>1, ReplacementsStay
<1>8. \A t \in registered' : ChainVerifies(t)'
  <2> SUFFICES ASSUME NEW t \in registered'
               PROVE  ChainVerifies(t)'
    OBVIOUS
  <2>1. t \in Targets
    BY <1>1 DEF PluginInv, PluginTypes
  <2>2. head'[t].sequence = Len(events'[t]) /\ head'[t].state = StateAfter(t, Len(events[t]))'
    BY <1>4, <2>1 DEF HeadsFollow
  <2>3. ASSUME NEW i \in DOMAIN events[t]
        PROVE  /\ Allows(StateAfter(t, i - 1)', events[t][i].action)
               /\ events[t][i].state = Apply(StateAfter(t, i - 1)', events[t][i].action)
               /\ ReplacementContract(t, events[t][i].action, events[t][i].replacement)'
               /\ events[t][i].available \/ events[t][i].action \notin Restoring
    <3>1. t \in registered
      <4>1. events[t] # <<>>
        BY <2>1, <2>3, HeadState
      <4> QED
        BY <2>1, <4>1 DEF PluginInv, HeadsFollow
    <3>2. /\ Allows(StateAfter(t, i - 1), events[t][i].action)
          /\ events[t][i].state = Apply(StateAfter(t, i - 1), events[t][i].action)
          /\ ReplacementContract(t, events[t][i].action, events[t][i].replacement)
          /\ events[t][i].available \/ events[t][i].action \notin Restoring
      BY <3>1 DEF PluginInv, ChainVerifies
    <3>3. StateAfter(t, i - 1)' = StateAfter(t, i - 1)
      BY <1>3, <2>1
    <3>4. ReplacementContract(t, events[t][i].action, events[t][i].replacement)'
      BY <1>1, <3>2 DEF ReplacementContract
    <3> QED
      BY <3>2, <3>3, <3>4
  <2> QED
    BY <1>1, <2>2, <2>3 DEF ChainVerifies
<1>9. FrozenResolutionsVerify'
  BY <1>1 DEF PluginInv, FrozenResolutionsVerify, StateAfter
<1> QED
  BY <1>1, <1>2, <1>4, <1>6, <1>8, <1>9 DEF PluginInv

\* A resolution of versions that are ready freezes heads that verify.
LEMMA BindingPreserves ==
    ASSUME PluginInv, NEW h \in PluginRooms \cup PluginRounds, NEW S \in SUBSET Targets,
           \A t \in S : TargetReady(t),
           resolution' = [resolution EXCEPT ![h] = BuildResolution(S)],
           UNCHANGED <<registered, installed, events, head>>
    PROVE  PluginInv'
<1>1. PICK b : b = BuildResolution(S)
  OBVIOUS
<1>2. /\ b \in [S -> Nat] /\ DOMAIN b = S
      /\ \A t \in S : b[t] = Len(events[t]) /\ StateAfter(t, b[t]) = head[t].state
  <2>1. \A t \in S : /\ head[t].sequence \in Nat /\ head[t].sequence = Len(events[t])
                     /\ head[t].state = StateAfter(t, Len(events[t]))
    BY HeadState
  <2> QED
    BY <1>1, <2>1 DEF BuildResolution
<1>3. /\ resolution' \in [Holders -> Frozen] /\ resolution'[h] = b
      /\ \A g \in PluginRooms \cup PluginRounds : g # h => resolution'[g] = resolution[g]
  <2>1. b \in Frozen
    BY <1>2 DEF Frozen
  <2>2. resolution \in [Holders -> Frozen] /\ resolution' = [resolution EXCEPT ![h] = b]
    BY <1>1 DEF PluginInv, PluginTypes
  <2> QED
    BY <2>1, <2>2 DEF Holders
<1>4. PluginTypes'
  BY <1>3 DEF PluginInv, PluginTypes
<1>5. FrozenResolutionsVerify'
  <2> SUFFICES ASSUME NEW g \in PluginRooms \cup PluginRounds, NEW t \in DOMAIN resolution'[g]
               PROVE  /\ resolution'[g][t] <= Len(events[t])
                      /\ RuntimeState(StateAfter(t, resolution'[g][t])) = "ready"
    BY DEF FrozenResolutionsVerify, StateAfter
  <2>1. CASE g # h
    BY <1>3, <2>1 DEF PluginInv, FrozenResolutionsVerify
  <2>2. CASE g = h
    <3>1. t \in S /\ resolution'[g][t] = b[t]
      BY <1>2, <1>3, <2>2
    <3>2. RuntimeState(head[t].state) = "ready" /\ Len(events[t]) \in Nat
      BY <3>1, HeadState DEF TargetReady
    <3> QED
      BY <1>2, <3>1, <3>2
  <2> QED
    BY <2>1, <2>2
<1>6. HeadsFollow'
  BY DEF PluginInv, HeadsFollow, StateAfter
<1>7. NamedAreRetired' /\ NoCycle'
  BY ReplacementsStay
<1>8. \A t \in registered' : ChainVerifies(t)'
  BY DEF PluginInv, ChainVerifies, StateAfter, ReplacementContract
<1> QED
  BY <1>4, <1>5, <1>6, <1>7, <1>8 DEF PluginInv

\* Nothing has happened yet.
LEMMA PluginStart == PluginInit => PluginInv
<1> SUFFICES ASSUME PluginInit
             PROVE  PluginInv
  OBVIOUS
<1>1. /\ installed \in Builds /\ registered = installed /\ registered \subseteq Targets
      /\ \A t \in Targets : events[t] = <<>>
      /\ \A t \in Targets : head[t] = [sequence |-> 0, state |-> InitialState]
  BY PluginAssumption DEF PluginInit
<1>2. InitialState \in States
  BY DEF InitialState, States
<1>3. PluginTypes
  <2>1. events \in [Targets -> Seq(LifecycleEvents)]
    <3>1. <<>> \in Seq(LifecycleEvents)
      OBVIOUS
    <3> QED
      BY <3>1 DEF PluginInit
  <2>2. head \in [Targets -> [sequence : Nat, state : States]]
    BY <1>2 DEF PluginInit
  <2>3. Unbound \in Frozen
    <3>1. Unbound \in [{} -> Nat] /\ {} \in SUBSET Targets
      BY DEF Unbound
    <3> QED
      BY <3>1 DEF Frozen
  <2> QED
    BY <1>1, <2>1, <2>2, <2>3 DEF PluginTypes, PluginInit, Holders
<1>4. \A t \in Targets : Len(events[t]) = 0 /\ DOMAIN events[t] = {}
  <2>1. Len(<<>>) = 0 /\ DOMAIN <<>> = {}
    OBVIOUS
  <2> QED
    BY <1>1, <2>1
<1>5. HeadsFollow
  <2> SUFFICES ASSUME NEW t \in Targets
               PROVE  /\ head[t].sequence = Len(events[t])
                      /\ head[t].state = StateAfter(t, Len(events[t]))
                      /\ events[t] = <<>>
    BY DEF HeadsFollow
  <2>1. StateAfter(t, Len(events[t])) = InitialState
    BY <1>4 DEF StateAfter
  <2> QED
    BY <1>1, <1>4, <2>1
<1>6. \A t \in Targets : Declarations(t) = {} /\ EffectiveReplacement(t) = NoTarget
  BY <1>4 DEF Declarations, EffectiveReplacement
<1>7. NamedAreRetired
  BY <1>6 DEF NamedAreRetired
<1>8. NoCycle
  <2> SUFFICES ASSUME NEW C \in SUBSET Targets, C # {}, {EffectiveReplacement(s) : s \in C} = C
               PROVE  FALSE
    BY DEF NoCycle
  <2>1. NoTarget \in C
    BY <1>6
  <2> QED
    BY <2>1, PluginAssumption
<1>9. \A t \in registered : ChainVerifies(t)
  BY <1>1, <1>4, <1>5 DEF ChainVerifies, HeadsFollow
<1>10. FrozenResolutionsVerify
  BY DEF PluginInit, FrozenResolutionsVerify, Unbound
<1> QED
  BY <1>3, <1>5, <1>7, <1>8, <1>9, <1>10 DEF PluginInv

\* Every step keeps it.
LEMMA PluginStep == PluginInv /\ [PluginNext]_pluginVars => PluginInv'
<1> SUFFICES ASSUME PluginInv, [PluginNext]_pluginVars
             PROVE  PluginInv'
  OBVIOUS
<1>1. ASSUME NEW build \in Builds, ChangeBuild(build)
      PROVE  PluginInv'
  BY <1>1, BuildPreserves
<1>2. ASSUME NEW q \in PluginRequests, NEW t \in Targets, NEW a \in LifecycleActions,
             NEW r \in Targets \cup {NoTarget}, LifecycleTransition(q, t, a, r)
      PROVE  PluginInv'
  BY <1>2, TransitionPreserves
<1>3. ASSUME NEW room \in PluginRooms, NEW S \in SUBSET Targets, BindRoom(room, S)
      PROVE  PluginInv'
  <2>1. /\ room \in PluginRooms \cup PluginRounds /\ \A t \in S : TargetReady(t)
        /\ resolution' = [resolution EXCEPT ![room] = BuildResolution(S)]
        /\ UNCHANGED <<registered, installed, events, head>>
    BY <1>3 DEF BindRoom
  <2> QED
    BY <2>1, BindingPreserves
<1>4. ASSUME NEW room \in PluginRooms, NEW round \in PluginRounds, BindRound(room, round)
      PROVE  PluginInv'
  <2>1. PICK S : S = DOMAIN resolution[room]
    OBVIOUS
  <2>2. S \in SUBSET Targets
    BY <2>1 DEF PluginInv, PluginTypes, Frozen, Holders
  <2>3. /\ round \in PluginRooms \cup PluginRounds /\ \A t \in S : TargetReady(t)
        /\ resolution' = [resolution EXCEPT ![round] = BuildResolution(S)]
        /\ UNCHANGED <<registered, installed, events, head>>
    BY <1>4, <2>1 DEF BindRound
  <2> QED
    BY <2>2, <2>3, BindingPreserves
<1>5. CASE UNCHANGED pluginVars
  <2> USE <1>5 DEF pluginVars
  <2>1. PluginTypes'
    BY DEF PluginInv, PluginTypes
  <2>2. HeadsFollow'
    BY DEF PluginInv, HeadsFollow, StateAfter
  <2>3. NamedAreRetired' /\ NoCycle'
    BY ReplacementsStay
  <2>4. \A t \in registered' : ChainVerifies(t)'
    BY DEF PluginInv, ChainVerifies, StateAfter, ReplacementContract
  <2>5. FrozenResolutionsVerify'
    BY DEF PluginInv, FrozenResolutionsVerify, StateAfter
  <2> QED
    BY <2>1, <2>2, <2>3, <2>4, <2>5 DEF PluginInv
<1> QED
  BY <1>1, <1>2, <1>3, <1>4, <1>5 DEF PluginNext

\* The ledger of plugin versions keeps its invariant.
LEMMA PluginAlways == PluginSpec => []PluginInv
BY PluginStart, PluginStep, PTL DEF PluginSpec

\* Whatever builds the server starts with and whatever its users confirm, in
\* any order, no reader of the catalog ever refuses it, although a state is
\* recorded from a view that has lost part of it and a transition verifies only
\* its own target: every chain replays, also those of versions that the target
\* replaces, and no circle of replacements ever closes
\* (CatalogStaysVerifiable; store.py:5303-5330, 7127).
THEOREM CatalogNeverBreaks == PluginSpec => []CatalogStaysVerifiable
BY PluginAlways, CatalogFollows, PTL

\* What a room or a round has frozen can be verified for ever: every head it
\* names is an event that was recorded, and the version was ready there
\* (FrozenResolutionsVerify; store.py:5499).
THEOREM ResolutionsNeverBreak == PluginSpec => []FrozenResolutionsVerify
<1>1. PluginInv => FrozenResolutionsVerify
  BY DEF PluginInv
<1> QED
  BY <1>1, PluginAlways, PTL
=============================================================================
