----------------------------- MODULE StoreReset -----------------------------
(***************************************************************************)
(* The on-disk store and the commands that write it, one file-system       *)
(* operation per step: Open with its clean-up of an earlier reset, fetch   *)
(* and reprocess as far as they change the store, recover --mode keep-old, *)
(* and the crash-safe reset behind recover --mode discard-old --yes        *)
(* (internal/store/recovery.go).  A command can be killed, or give up on   *)
(* an error, between any two operations; the files then stay as they are.  *)
(*                                                                         *)
(* One command runs at a time: every writer holds the non-blocking writer  *)
(* lock (module ProcessLocks).                                             *)
(*                                                                         *)
(* Abstractions: reports and messages are represented by the UIDVALIDITY   *)
(* epoch they come from (emails/ really has a subdirectory per epoch); of  *)
(* recovery_required only curr_uid_validity is kept, the other fields are  *)
(* only displayed; an empty staging directory and none are the same state. *)
(***************************************************************************)
EXTENDS Naturals

CONSTANTS
    Uids,           \* UIDVALIDITY values the IMAP server can announce
    MaxAborts,      \* bound: commands that are killed or fail
    CleanupMayFail  \* may a removal that the code only logs fail?

\* UIDVALIDITY is an nz-number in IMAP; ResetForRecovery gives 0 a meaning of
\* its own.
ASSUME UidsAssumption == Uids \subseteq Nat \ {0}
ASSUME BoundsAssumption == MaxAborts \in Nat /\ CleanupMayFail \in BOOLEAN

VARIABLES
    serverUid,      \* UIDVALIDITY of the mailbox
    sentinel,       \* .tlsrpt-digest-meta.json
    manifest,       \* .tlsrpt-digest-reset-manifest.json
    root,           \* tlsrpt.json and emails/
    staging,        \* tlsrpt.json and emails/ inside the staging directory
    cmd,            \* the command that holds the writer lock
    pc,             \* its next operation
    target,         \* the UIDVALIDITY it works for
    kept,           \* history: epochs an operator chose to keep
    aborts          \* commands killed or failed so far

disk == <<sentinel, manifest, root, staging>>
vars == <<serverUid, sentinel, manifest, root, staging, cmd, pc, target,
          kept, aborts>>

-----------------------------------------------------------------------------
(* Files.                                                                  *)

NoUid == 0
OptionalUid == Uids \cup {NoUid}

NoManifest == [phase |-> 0, curr |-> NoUid]
ManifestWritten == 1    \* resetPhaseManifestWritten
Committed == 4          \* resetPhaseCommitted

\* A data file (its reports) and an emails directory (its messages).
Tree == [file : BOOLEAN, reports : SUBSET Uids,
         dir : BOOLEAN, emails : SUBSET Uids]

NoTree == [file |-> FALSE, reports |-> {}, dir |-> FALSE, emails |-> {}]

\* What an interrupted or failed RemoveAll may leave of tree t.
Remnants(t) ==
    {s \in Tree : /\ s.file => t.file
                  /\ s.reports = IF s.file THEN t.reports ELSE {}
                  /\ s.dir => t.dir
                  /\ s.emails \subseteq IF s.dir THEN t.emails ELSE {}}

RecoveryRequired == sentinel.rr # NoUid

\* HasPendingReset: a manifest that is not committed.
HasPendingReset == manifest.phase = ManifestWritten

\* cleanupCompletedReset refuses to open: the reset has not been committed.
ResetInFlight ==
    /\ manifest.phase # NoManifest.phase
    /\ \/ ~sentinel.exists
       \/ RecoveryRequired /\ manifest.curr = sentinel.rr

-----------------------------------------------------------------------------
Commands == {"fetch", "reprocess", "status", "keepOld", "discardOld"}

OpenSteps == {"cleanup", "cleanupStaging", "cleanupManifest", "openEmails",
              "openData", "openSentinel"}
FetchSteps == {"adopt", "saveRecovery", "saveEmails", "saveReports", "saveUid"}
ResetSteps == {"reset", "dropStaging", "dropManifest", "initManifest",
               "writeManifest", "stageData", "stageEmails", "commitSentinel",
               "commitManifest", "removeStaging", "removeManifest",
               "resetDone"}
Steps == {"idle", "run", "reprocess", "apply"}
             \cup OpenSteps \cup FetchSteps \cup ResetSteps

\* Steps that run os.RemoveAll on the staging directory.
RemovingStaging == {"cleanupStaging", "dropStaging", "initManifest",
                    "removeStaging"}

TypeOK ==
    /\ serverUid \in Uids
    /\ sentinel \in [exists : BOOLEAN, uid : OptionalUid, rr : OptionalUid]
    /\ manifest \in [phase : {0, ManifestWritten, Committed},
                     curr : OptionalUid]
    /\ root \in Tree
    /\ staging \in Tree
    /\ cmd \in Commands \cup {"none"}
    /\ pc \in Steps
    /\ target \in OptionalUid
    /\ kept \subseteq Uids
    /\ aborts \in 0..MaxAborts

Init ==
    /\ serverUid \in Uids
    /\ sentinel = [exists |-> FALSE, uid |-> NoUid, rr |-> NoUid]
    /\ manifest = NoManifest
    /\ root = NoTree
    /\ staging = NoTree
    /\ cmd = "none"
    /\ pc = "idle"
    /\ target = NoUid
    /\ kept = {}
    /\ aborts = 0

-----------------------------------------------------------------------------
(* Control of one command.                                                 *)

Goto(step) == pc' = step /\ UNCHANGED <<cmd, target, serverUid, kept, aborts>>

GotoFor(step, u) ==
    /\ pc' = step
    /\ target' = u
    /\ UNCHANGED <<cmd, serverUid, kept, aborts>>

\* The command returns, successfully or with an error; its lock is released.
Return ==
    /\ pc' = "idle"
    /\ cmd' = "none"
    /\ target' = NoUid
    /\ UNCHANGED <<serverUid, kept, aborts>>

\* Variant: recover --mode discard-old opens like any other command and
\* creates the data file and the emails directory anew.
StartRecreatingFiles(c) ==
    /\ pc = "idle"
    /\ cmd' = c
    /\ pc' = IF c = "discardOld" THEN "openEmails" ELSE "cleanup"
    /\ UNCHANGED <<disk, target, serverUid, kept, aborts>>

\* Bootstrap: take the writer lock and open the store.  Only recover
\* --mode discard-old --yes opens in mode OpenRecoverReset, which skips the
\* clean-up and does not create the data file or the emails directory.
Start(c) ==
    /\ pc = "idle"
    /\ cmd' = c
    /\ pc' = IF c = "discardOld" THEN "openSentinel" ELSE "cleanup"
    /\ UNCHANGED <<disk, target, serverUid, kept, aborts>>

\* The process is killed, or an operation fails and the command returns its
\* error.  Of a RemoveAll, any part may have been done.
Abort ==
    /\ pc # "idle"
    /\ aborts < MaxAborts
    /\ aborts' = aborts + 1
    /\ IF pc \in RemovingStaging THEN staging' \in Remnants(staging)
                                 ELSE UNCHANGED staging
    /\ pc' = "idle"
    /\ cmd' = "none"
    /\ target' = NoUid
    /\ UNCHANGED <<sentinel, manifest, root, serverUid, kept>>

\* The mailbox is recreated on the server.
ServerChange ==
    /\ serverUid' \in Uids \ {serverUid}
    /\ UNCHANGED <<disk, cmd, pc, target, kept, aborts>>

-----------------------------------------------------------------------------
(* Open in mode OpenReadWrite.                                             *)

\* Variant: Open leaves a reset in flight alone and goes on.
CleanupIgnoringReset ==
    /\ pc = "cleanup"
    /\ IF ResetInFlight THEN Goto("openEmails") ELSE Goto("cleanupStaging")
    /\ UNCHANGED disk

\* cleanupCompletedReset decides on recovery_required, not on the phase.
Cleanup ==
    /\ pc = "cleanup"
    /\ IF ResetInFlight THEN Return ELSE Goto("cleanupStaging")
    /\ UNCHANGED disk

\* Best effort: a failed removal is logged and the open goes on.
CleanupStaging ==
    /\ pc = "cleanupStaging"
    /\ \/ staging' = NoTree
       \/ CleanupMayFail /\ staging' \in Remnants(staging)
    /\ Goto("cleanupManifest")
    /\ UNCHANGED <<sentinel, manifest, root>>

\* Variant: the phase is taken for the commit signal.
CleanupManifestByPhase ==
    /\ pc = "cleanupManifest"
    /\ manifest' = IF HasPendingReset THEN manifest ELSE NoManifest
    /\ Goto("openEmails")
    /\ UNCHANGED <<sentinel, root, staging>>

CleanupManifest ==
    /\ pc = "cleanupManifest"
    /\ \/ manifest' = NoManifest
       \/ CleanupMayFail /\ UNCHANGED manifest
    /\ Goto("openEmails")
    /\ UNCHANGED <<sentinel, root, staging>>

OpenEmails ==
    /\ pc = "openEmails"
    /\ root' = [root EXCEPT !.dir = TRUE]
    /\ Goto("openData")
    /\ UNCHANGED <<sentinel, manifest, staging>>

\* initDataFile writes an empty data file unless there is one.
OpenData ==
    /\ pc = "openData"
    /\ root' = [root EXCEPT !.file = TRUE]
    /\ Goto("openSentinel")
    /\ UNCHANGED <<sentinel, manifest, staging>>

OpenSentinel ==
    /\ pc = "openSentinel"
    /\ sentinel' = [sentinel EXCEPT !.exists = TRUE]
    /\ Goto("run")
    /\ UNCHANGED <<manifest, root, staging>>

-----------------------------------------------------------------------------
(* fetch, as far as it changes the store.                                  *)

\* Variant: a UIDVALIDITY that differs from the stored one goes unnoticed.
FetchUnvalidated ==
    /\ pc = "run"
    /\ cmd = "fetch"
    /\ IF RecoveryRequired THEN Return
       ELSE GotoFor(IF sentinel.uid = NoUid THEN "adopt" ELSE "saveEmails",
                    serverUid)
    /\ UNCHANGED disk

\* Fail closed if recovery is pending, FetchMeta, then fetchValidateUID.
Fetch ==
    /\ pc = "run"
    /\ cmd = "fetch"
    /\ IF RecoveryRequired THEN Return
       ELSE GotoFor(CASE sentinel.uid = NoUid     -> "adopt"
                      [] sentinel.uid = serverUid -> "saveEmails"
                      [] OTHER                    -> "saveRecovery",
                    serverUid)
    /\ UNCHANGED disk

Adopt ==
    /\ pc = "adopt"
    /\ sentinel' = [sentinel EXCEPT !.uid = target]
    /\ Goto("saveEmails")
    /\ UNCHANGED <<manifest, root, staging>>

SaveRecoveryRequired ==
    /\ pc = "saveRecovery"
    /\ sentinel' = [sentinel EXCEPT !.rr = target]
    /\ Return
    /\ UNCHANGED <<manifest, root, staging>>

\* There may be nothing new in the mailbox.
SaveEmails ==
    /\ pc = "saveEmails"
    /\ \/ root' = [root EXCEPT !.emails = @ \cup {target}]
       \/ UNCHANGED root
    /\ Goto("saveReports")
    /\ UNCHANGED <<sentinel, manifest, staging>>

\* Reports come from the messages of this run, which are all on disk now.
SaveReports ==
    /\ pc = "saveReports"
    /\ \/ /\ target \in root.emails
          /\ root' = [root EXCEPT !.reports = @ \cup {target}]
       \/ UNCHANGED root
    /\ Goto("saveUid")
    /\ UNCHANGED <<sentinel, manifest, staging>>

\* Variant: the last save asks the server again.
SaveUIDValidityAgain ==
    /\ pc = "saveUid"
    /\ sentinel' = [sentinel EXCEPT !.uid = serverUid]
    /\ Return
    /\ UNCHANGED <<manifest, root, staging>>

SaveUIDValidity ==
    /\ pc = "saveUid"
    /\ sentinel' = [sentinel EXCEPT !.uid = target]
    /\ Return
    /\ UNCHANGED <<manifest, root, staging>>

-----------------------------------------------------------------------------
(* reprocess.                                                              *)

Reprocess ==
    /\ pc = "run"
    /\ cmd = "reprocess"
    /\ IF RecoveryRequired THEN Return ELSE Goto("reprocess")
    /\ UNCHANGED disk

\* Every stored message is read again; some may not parse.
ReprocessReports ==
    /\ pc = "reprocess"
    /\ \E epochs \in SUBSET root.emails :
           root' = [root EXCEPT !.reports = @ \cup epochs]
    /\ Return
    /\ UNCHANGED <<sentinel, manifest, staging>>

-----------------------------------------------------------------------------
(* recover.                                                                *)

\* recover without a mode, or discard-old without --yes: display only.
RecoverStatus ==
    /\ pc = "run"
    /\ cmd = "status"
    /\ Return
    /\ UNCHANGED disk

RecoverKeepOld ==
    /\ pc = "run"
    /\ cmd = "keepOld"
    /\ IF RecoveryRequired /\ ~HasPendingReset
       THEN GotoFor("apply", sentinel.rr)
       ELSE Return
    /\ UNCHANGED disk

ApplyRecovery ==
    /\ pc = "apply"
    /\ sentinel' = [sentinel EXCEPT !.uid = target, !.rr = NoUid]
    /\ kept' = kept \cup root.reports \cup root.emails
    /\ pc' = "idle"
    /\ cmd' = "none"
    /\ target' = NoUid
    /\ UNCHANGED <<manifest, root, staging, serverUid, aborts>>

\* With recovery_required set, ResetForRecovery(curr); without it,
\* handleNoRecoveryRequired: ResetForRecovery(0) if a manifest is pending.
RecoverDiscardOld ==
    /\ pc = "run"
    /\ cmd = "discardOld"
    /\ IF RecoveryRequired \/ HasPendingReset
       THEN GotoFor("reset", sentinel.rr)
       ELSE Return
    /\ UNCHANGED disk

-----------------------------------------------------------------------------
(* ResetForRecovery(target).                                               *)

\* Variant: a manifest is taken for proof that the files have been moved.
ResetAssumingStaged ==
    /\ pc = "reset"
    /\ CASE manifest.phase = NoManifest.phase -> Goto("initManifest")
         [] manifest.phase = Committed        -> Goto("dropStaging")
         [] OTHER -> GotoFor("commitSentinel", manifest.curr)
    /\ UNCHANGED disk

\* Variant: a committed manifest means there is nothing left to do.
ResetIfNotCommitted ==
    /\ pc = "reset"
    /\ CASE manifest.phase = NoManifest.phase -> Goto("initManifest")
         [] manifest.phase = Committed        -> Return
         [] OTHER ->
              IF target \notin {NoUid, manifest.curr}
              THEN Goto("dropStaging")
              ELSE GotoFor("stageData", manifest.curr)
    /\ UNCHANGED disk

\* A committed manifest, or one for another UIDVALIDITY, is dropped and the
\* reset starts afresh; any other manifest is resumed.
ResetForRecovery ==
    /\ pc = "reset"
    /\ CASE manifest.phase = NoManifest.phase -> Goto("initManifest")
         [] manifest.phase = Committed        -> Goto("dropStaging")
         [] OTHER ->
              IF target \notin {NoUid, manifest.curr}
              THEN Goto("dropStaging")
              ELSE GotoFor("stageData", manifest.curr)
    /\ UNCHANGED disk

\* removeStaleCommittedManifest, whose errors are returned.
DropStaging ==
    /\ pc = "dropStaging"
    /\ staging' = NoTree
    /\ Goto("dropManifest")
    /\ UNCHANGED <<sentinel, manifest, root>>

DropManifest ==
    /\ pc = "dropManifest"
    /\ manifest' = NoManifest
    /\ Goto("initManifest")
    /\ UNCHANGED <<sentinel, root, staging>>

\* Variant: files are moved without a manifest.
InitManifestLate ==
    /\ pc = "initManifest"
    /\ IF RecoveryRequired /\ sentinel.rr = target
       THEN staging' = NoTree /\ Goto("stageData")
       ELSE Return /\ UNCHANGED staging
    /\ UNCHANGED <<sentinel, manifest, root>>

\* initResetManifest: check recovery_required, wipe staging, ...
InitManifest ==
    /\ pc = "initManifest"
    /\ IF RecoveryRequired /\ sentinel.rr = target
       THEN staging' = NoTree /\ Goto("writeManifest")
       ELSE Return /\ UNCHANGED staging
    /\ UNCHANGED <<sentinel, manifest, root>>

\* Variant: a phase of the earlier format, which readers reject.
WriteManifestPhase2 ==
    /\ pc = "writeManifest"
    /\ manifest' = [phase |-> 2, curr |-> target]
    /\ Goto("stageData")
    /\ UNCHANGED <<sentinel, root, staging>>

\* ... and write the manifest before anything is moved.
WriteManifest ==
    /\ pc = "writeManifest"
    /\ manifest' = [phase |-> ManifestWritten, curr |-> target]
    /\ Goto("stageData")
    /\ UNCHANGED <<sentinel, root, staging>>

\* A rename replaces a data file that is in staging already.
StageData ==
    /\ pc = "stageData"
    /\ IF root.file
       THEN /\ staging' = [staging EXCEPT !.file = TRUE,
                                          !.reports = root.reports]
            /\ root' = [root EXCEPT !.file = FALSE, !.reports = {}]
       ELSE UNCHANGED <<root, staging>>
    /\ Goto("stageEmails")
    /\ UNCHANGED <<sentinel, manifest>>

\* Renaming onto a directory that is not empty fails: one with files, or with
\* subdirectories that are all a removal left of it.
StageEmails ==
    /\ pc = "stageEmails"
    /\ \/ /\ ~root.dir
          /\ Goto("commitSentinel")
          /\ UNCHANGED <<root, staging>>
       \/ /\ root.dir /\ staging.dir
          /\ Return
          /\ UNCHANGED <<root, staging>>
       \/ /\ root.dir /\ staging.emails = {}
          /\ staging' = [staging EXCEPT !.dir = TRUE, !.emails = root.emails]
          /\ root' = [root EXCEPT !.dir = FALSE, !.emails = {}]
          /\ Goto("commitSentinel")
    /\ UNCHANGED <<sentinel, manifest>>

\* Variant: the new UIDVALIDITY is left to the next fetch.
CommitSentinelFlagOnly ==
    /\ pc = "commitSentinel"
    /\ sentinel' = [sentinel EXCEPT !.rr = NoUid]
    /\ kept' = {}
    /\ pc' = "commitManifest"
    /\ UNCHANGED <<manifest, root, staging, cmd, target, serverUid, aborts>>

\* commitReset: the sentinel first.  This is the commit point.
CommitSentinel ==
    /\ pc = "commitSentinel"
    /\ sentinel' = [sentinel EXCEPT !.uid = target, !.rr = NoUid]
    /\ kept' = {}
    /\ pc' = "commitManifest"
    /\ UNCHANGED <<manifest, root, staging, cmd, target, serverUid, aborts>>

CommitManifest ==
    /\ pc = "commitManifest"
    /\ manifest' = [phase |-> Committed, curr |-> target]
    /\ Goto("removeStaging")
    /\ UNCHANGED <<sentinel, root, staging>>

RemoveStaging ==
    /\ pc = "removeStaging"
    /\ \/ staging' = NoTree
       \/ CleanupMayFail /\ staging' \in Remnants(staging)
    /\ Goto("removeManifest")
    /\ UNCHANGED <<sentinel, manifest, root>>

\* A failure here is returned: Abort.
RemoveManifest ==
    /\ pc = "removeManifest"
    /\ manifest' = NoManifest
    /\ Goto("resetDone")
    /\ UNCHANGED <<sentinel, root, staging>>

\* recover reports "Recovery completed".
ResetDone ==
    /\ pc = "resetDone"
    /\ Return
    /\ UNCHANGED disk

-----------------------------------------------------------------------------
OpenStep ==
    \/ Cleanup \/ CleanupStaging \/ CleanupManifest
    \/ OpenEmails \/ OpenData \/ OpenSentinel

FetchStep ==
    \/ Fetch \/ Adopt \/ SaveRecoveryRequired
    \/ SaveEmails \/ SaveReports \/ SaveUIDValidity

ReprocessStep == Reprocess \/ ReprocessReports

RecoverStep ==
    \/ RecoverStatus \/ RecoverKeepOld \/ ApplyRecovery \/ RecoverDiscardOld

ResetStep ==
    \/ ResetForRecovery \/ DropStaging \/ DropManifest
    \/ InitManifest \/ WriteManifest \/ StageData \/ StageEmails
    \/ CommitSentinel \/ CommitManifest
    \/ RemoveStaging \/ RemoveManifest \/ ResetDone

\* The running command takes its next step.
Step == OpenStep \/ FetchStep \/ ReprocessStep \/ RecoverStep \/ ResetStep

Next ==
    \/ \E c \in Commands : Start(c)
    \/ Step
    \/ Abort
    \/ ServerChange

Spec == Init /\ [][Next]_vars

\* A command runs to its end unless it aborts, and cron keeps starting fetch.
FairSpec == Spec /\ WF_vars(Step) /\ SF_vars(Start("fetch"))

\* The operator also keeps running recover --mode discard-old --yes.
OperatorSpec == FairSpec /\ SF_vars(Start("discardOld"))

-----------------------------------------------------------------------------
(* Properties.                                                             *)

Contents(tree) == tree.reports \cup tree.emails

\* While no recovery is required no report and no message leaves the store:
\* neither Open's clean-up nor a reset whose commit already landed may touch
\* what fetch saved since (recover.go, handleNoRecoveryRequired).
LiveDataKept ==
    [][~RecoveryRequired =>
           /\ root.reports \subseteq root'.reports
           /\ root.emails \subseteq root'.emails]_vars

\* As long as recovery is required the old reports and messages exist,
\* in place or in staging, whatever commands run, die and are run again:
\* discard-old destroys nothing before its commit point (ADR-0003).
OldDataKeptUntilCommit ==
    [][RecoveryRequired /\ RecoveryRequired' =>
           /\ (root.reports \cup staging.reports)
                  \subseteq (root'.reports \cup staging'.reports)
           /\ (root.emails \cup staging.emails)
                  \subseteq (root'.emails \cup staging'.emails)]_vars

\* No command but discard-old ever gets to work on a store whose reset has
\* moved files and is not committed (Open fails with ErrPendingReset).
HalfResetNotOpened ==
    (/\ cmd # "discardOld"
     /\ pc \in {"run", "reprocess", "apply"} \cup FetchSteps
     /\ RecoveryRequired) => Contents(staging) = {}

\* Without a manifest there is nothing in staging: what Open removes as an
\* orphaned staging directory is never a reset in flight.
StagingHasManifest ==
    manifest.phase = NoManifest.phase => Contents(staging) = {}

\* Reports and messages of an epoch other than the store's are there only
\* because an operator chose keep-old.
EpochsMixOnlyByChoice ==
    ~RecoveryRequired => Contents(root) \subseteq kept \cup {sentinel.uid}

\* After the first fetch, uid_validity only ever moves to the value that was
\* detected and recorded in recovery_required, whichever manifest is found.
UidFollowsDetection ==
    [][sentinel'.uid # sentinel.uid =>
           \/ sentinel.uid = NoUid
           \/ RecoveryRequired /\ sentinel'.uid = sentinel.rr]_vars

\* When discard-old reports success, after any number of interrupted
\* attempts, the store is empty, consistent and free of a manifest.
ResetComplete ==
    pc = "resetDone" =>
        /\ ~RecoveryRequired
        /\ sentinel.uid = target
        /\ Contents(root) = {}
        /\ manifest = NoManifest

\* The store's logical contents: until the commit point, staged files count.
LogicalReports ==
    root.reports \cup IF RecoveryRequired THEN staging.reports ELSE {}
LogicalEmails ==
    root.emails \cup IF RecoveryRequired THEN staging.emails ELSE {}

Atomic == INSTANCE Recovery WITH
    uid <- sentinel.uid,
    rr <- sentinel.rr,
    reports <- LogicalReports,
    emails <- LogicalEmails

\* The files, renames and crashes implement a recovery that takes effect in
\* one step: ApplyRecovery and commitReset are its only commit points.
ImplementsRecovery == Atomic!Spec

\* If the operator keeps running discard-old, a required recovery ends,
\* however often earlier attempts were interrupted.
RecoveryEnds == RecoveryRequired ~> ~RecoveryRequired

\* Once a reset is committed, the next commands that cron starts remove what
\* it left behind ("removed automatically on the next fetch or gc").
LeftoversRemoved ==
    (~RecoveryRequired /\ manifest # NoManifest) ~> (manifest = NoManifest)

=============================================================================
