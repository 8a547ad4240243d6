-------------------------- MODULE StoreResetProofs --------------------------
(***************************************************************************)
(* Proofs about StoreReset for every set of UIDVALIDITY values and every   *)
(* number of aborted commands.                                             *)
(***************************************************************************)
EXTENDS StoreReset, TLAPS

-----------------------------------------------------------------------------
(* The inductive invariant, for a store whose best-effort removals work.   *)

\* Which command is at which step.
CommandInv ==
    /\ pc = "idle" <=> cmd = "none"
    /\ pc \in OpenSteps \ {"openSentinel"} => cmd # "discardOld"
    /\ pc \in FetchSteps => cmd = "fetch"
    /\ pc = "reprocess" => cmd = "reprocess"
    /\ pc = "apply" => cmd = "keepOld"
    /\ pc \in ResetSteps => cmd = "discardOld"

\* Steps of an opened store, with the data file and the emails directory.
Working == {"reprocess", "apply"} \cup FetchSteps
Opened == pc \in Working \/ (pc \in {"openSentinel", "run"} /\ cmd # "discardOld")

\* Contents need a file, and no file is both in place and in staging.
FilesInv ==
    /\ root.reports # {} => root.file
    /\ root.emails # {} => root.dir
    /\ root.file => staging.reports = {}
    /\ root.dir => staging.emails = {}
    /\ pc = "openData" \/ Opened => root.dir
    /\ Opened => root.file

\* What the sentinel says while a command works for target.
SentinelInv ==
    /\ ~sentinel.exists => sentinel.uid = NoUid /\ sentinel.rr = NoUid
    /\ pc \in {"run"} \cup Working \cup ResetSteps => sentinel.exists
    /\ pc = "adopt" => ~RecoveryRequired /\ sentinel.uid = NoUid /\ target \in Uids
    /\ pc = "saveRecovery" => /\ ~RecoveryRequired
                              /\ target \in Uids
                              /\ sentinel.uid \notin {NoUid, target}
    /\ pc \in {"saveEmails", "saveReports", "saveUid"} =>
           ~RecoveryRequired /\ target \in Uids /\ sentinel.uid = target
    /\ pc = "reprocess" => ~RecoveryRequired
    /\ pc = "apply" => RecoveryRequired /\ target = sentinel.rr

\* The manifest tells an unfinished reset from the remains of a committed one.
ManifestInv ==
    /\ manifest.phase = NoManifest.phase => manifest = NoManifest
    /\ manifest # NoManifest => sentinel.exists /\ manifest.curr \in Uids
    /\ manifest # NoManifest /\ RecoveryRequired =>
           HasPendingReset /\ manifest.curr = sentinel.rr
    /\ manifest # NoManifest /\ ~RecoveryRequired =>
           sentinel.uid = manifest.curr /\ Contents(root) = {}

\* Staged files are covered by the manifest, and Open leaves neither.
StagingInv ==
    /\ manifest = NoManifest => Contents(staging) = {}
    /\ pc \in {"cleanupManifest", "removeManifest"} => Contents(staging) = {}
    /\ pc \in {"cleanupStaging", "cleanupManifest"} => ~ResetInFlight
    /\ pc \in {"openEmails", "openData"} \/ Opened => manifest = NoManifest

\* How far the reset has got.
ResetInv ==
    /\ pc \notin {"dropStaging", "dropManifest"}
    /\ pc = "reset" =>
           target = sentinel.rr /\ (RecoveryRequired \/ HasPendingReset)
    /\ pc \in {"initManifest", "writeManifest"} =>
           /\ RecoveryRequired
           /\ target = sentinel.rr
           /\ manifest = NoManifest
    /\ pc \in {"stageData", "stageEmails", "commitSentinel"} =>
           HasPendingReset /\ manifest.curr = target /\ target \in Uids
    /\ pc \in {"stageEmails", "commitSentinel"} => root.reports = {}
    /\ pc = "commitSentinel" => root.emails = {}
    /\ pc \in {"commitManifest", "removeStaging", "removeManifest"} =>
           /\ ~RecoveryRequired
           /\ manifest # NoManifest
           /\ manifest.curr = target
           /\ target \in Uids
    /\ pc = "resetDone" =>
           /\ ~RecoveryRequired
           /\ manifest = NoManifest
           /\ sentinel.uid = target
           /\ Contents(root) = {}

ResetInvariant ==
    /\ CommandInv
    /\ FilesInv
    /\ SentinelInv
    /\ ManifestInv
    /\ StagingInv
    /\ ResetInv

-----------------------------------------------------------------------------
(* Type correctness.                                                       *)

\* TypeOK alone is not inductive: fetch stores messages under target.
FetchTarget == pc \in FetchSteps => target \in Uids

\* The empty tree is a tree.
LEMMA NoTreeType == NoTree \in Tree
  BY DEF NoTree, Tree

\* What is left of a tree is a tree.
LEMMA RemnantsType ==
  ASSUME NEW t, NEW s \in Remnants(t)
  PROVE  s \in Tree
  BY DEF Remnants

\* A tree stays one if its file or its directory comes, goes or is filled.
LEMMA TreeUpdates ==
  ASSUME NEW t \in Tree, NEW here \in BOOLEAN, NEW uids \in SUBSET Uids
  PROVE  /\ [t EXCEPT !.dir = here] \in Tree
         /\ [t EXCEPT !.file = here] \in Tree
         /\ [t EXCEPT !.emails = @ \cup uids] \in Tree
         /\ [t EXCEPT !.reports = @ \cup uids] \in Tree
         /\ [t EXCEPT !.file = here, !.reports = uids] \in Tree
         /\ [t EXCEPT !.dir = here, !.emails = uids] \in Tree
         /\ t.emails \in SUBSET Uids /\ t.reports \in SUBSET Uids
  BY DEF Tree

\* Every state of the store and of the command that writes it has its type,
\* whether or not best-effort removals fail.
THEOREM TypeCorrect == Spec => []TypeOK
<1> USE UidsAssumption, BoundsAssumption
<1>1. Init => TypeOK /\ FetchTarget
  BY DEF Init, TypeOK, NoManifest, NoTree, Tree, OptionalUid, NoUid, Commands,
         Steps, FetchTarget, FetchSteps
<1>2. TypeOK /\ FetchTarget /\ [Next]_vars => TypeOK' /\ FetchTarget'
  <2> SUFFICES ASSUME TypeOK, FetchTarget, [Next]_vars
               PROVE  TypeOK' /\ FetchTarget'
    OBVIOUS
  <2> USE NoTreeType, RemnantsType
      DEF TypeOK, OptionalUid, NoUid, NoManifest, Commands,
              Steps, OpenSteps, FetchSteps, ResetSteps, ManifestWritten,
              Committed, Goto, GotoFor, Return, disk, FetchTarget
  <2>1. ASSUME NEW c \in Commands, Start(c) PROVE TypeOK' /\ FetchTarget'
    BY <2>1 DEF Start
  <2>2. CASE Abort
    BY <2>2 DEF Abort
  <2>3. CASE ServerChange
    BY <2>3 DEF ServerChange
  <2>4. CASE Cleanup
    <3>1. CASE ResetInFlight
      BY <2>4, <3>1 DEF Cleanup
    <3>2. CASE ~ResetInFlight
      BY <2>4, <3>2 DEF Cleanup
    <3> QED
      BY <3>1, <3>2
  <2>5. CASE CleanupStaging
    <3>0. staging' = NoTree \/ staging' \in Remnants(staging)
      BY <2>5 DEF CleanupStaging
    <3>1. staging' \in Tree
      BY <3>0
    <3> QED
      BY <2>5, <3>1 DEF CleanupStaging
  <2>6. CASE CleanupManifest
    BY <2>6 DEF CleanupManifest
  <2>7. CASE OpenEmails
    <3>1. root' \in Tree
      <4>1. root' = [root EXCEPT !.dir = TRUE] /\ root \in Tree
        BY <2>7 DEF OpenEmails
      <4> QED
        BY <4>1, TreeUpdates, Zenon
    <3> QED
      BY <2>7, <3>1 DEF OpenEmails
  <2>8. CASE OpenData
    <3>1. root' \in Tree
      <4>1. root' = [root EXCEPT !.file = TRUE] /\ root \in Tree
        BY <2>8 DEF OpenData
      <4> QED
        BY <4>1, TreeUpdates, Zenon
    <3> QED
      BY <2>8, <3>1 DEF OpenData
  <2>9. CASE OpenSentinel
    BY <2>9 DEF OpenSentinel
  <2>10. CASE Fetch
    BY <2>10 DEF Fetch, RecoveryRequired
  <2>11. CASE Adopt
    BY <2>11 DEF Adopt
  <2>12. CASE SaveRecoveryRequired
    BY <2>12 DEF SaveRecoveryRequired
  <2>13. CASE SaveEmails
    <3>1. root' \in Tree
      <4>1. /\ root' = [root EXCEPT !.emails = @ \cup {target}] \/ root' = root
            /\ root \in Tree /\ {target} \in SUBSET Uids
        BY <2>13 DEF SaveEmails
      <4> QED
        BY <4>1, TreeUpdates, Zenon
    <3> QED
      BY <2>13, <3>1 DEF SaveEmails
  <2>14. CASE SaveReports
    <3>1. root' \in Tree
      <4>1. /\ root' = [root EXCEPT !.reports = @ \cup {target}] \/ root' = root
            /\ root \in Tree /\ {target} \in SUBSET Uids
        BY <2>14 DEF SaveReports
      <4> QED
        BY <4>1, TreeUpdates, Zenon
    <3> QED
      BY <2>14, <3>1 DEF SaveReports
  <2>15. CASE SaveUIDValidity
    BY <2>15 DEF SaveUIDValidity
  <2>16. CASE Reprocess
    <3>1. pc' \in Steps /\ cmd' \in Commands \cup {"none"} /\ target' \in OptionalUid
      BY <2>16 DEF Reprocess, RecoveryRequired
    <3> QED
      BY <2>16, <3>1 DEF Reprocess, RecoveryRequired
  <2>17. CASE ReprocessReports
    <3>1. root' \in Tree
      <4>1. PICK epochs \in SUBSET root.emails :
                root' = [root EXCEPT !.reports = @ \cup epochs]
        BY <2>17 DEF ReprocessReports
      <4>2. root \in Tree
        OBVIOUS
      <4>3. epochs \in SUBSET Uids
        BY <4>2, TreeUpdates
      <4> QED
        BY <4>1, <4>2, <4>3, TreeUpdates, Zenon
    <3> QED
      BY <2>17, <3>1 DEF ReprocessReports
  <2>18. CASE RecoverStatus
    BY <2>18 DEF RecoverStatus
  <2>19. CASE RecoverKeepOld
    BY <2>19 DEF RecoverKeepOld, RecoveryRequired
  <2>20. CASE ApplyRecovery
    BY <2>20 DEF ApplyRecovery, Tree
  <2>21. CASE RecoverDiscardOld
    BY <2>21 DEF RecoverDiscardOld, RecoveryRequired
  <2>22. CASE ResetForRecovery
    BY <2>22 DEF ResetForRecovery
  <2>23. CASE DropStaging
    BY <2>23 DEF DropStaging
  <2>24. CASE DropManifest
    BY <2>24 DEF DropManifest
  <2>25. CASE InitManifest
    <3>1. staging' \in Tree
      <4>1. CASE RecoveryRequired /\ sentinel.rr = target
        BY <2>25, <4>1 DEF InitManifest
      <4>2. CASE ~(RecoveryRequired /\ sentinel.rr = target)
        BY <2>25, <4>2 DEF InitManifest
      <4> QED
        BY <4>1, <4>2
    <3> QED
      BY <2>25, <3>1 DEF InitManifest, RecoveryRequired
  <2>26. CASE WriteManifest
    BY <2>26 DEF WriteManifest
  <2>27. CASE StageData
    <3>1. root' \in Tree /\ staging' \in Tree
      <4>1. /\ staging' \in {staging, [staging EXCEPT !.file = TRUE, !.reports = root.reports]}
            /\ root' \in {root, [root EXCEPT !.file = FALSE, !.reports = {}]}
        BY <2>27 DEF StageData
      <4>2. root \in Tree /\ staging \in Tree /\ {} \in SUBSET Uids
        OBVIOUS
      <4>3. root.reports \in SUBSET Uids
        BY <4>2, TreeUpdates
      <4>4. /\ [staging EXCEPT !.file = TRUE, !.reports = root.reports] \in Tree
            /\ [root EXCEPT !.file = FALSE, !.reports = {}] \in Tree
        BY <4>2, <4>3, TreeUpdates, Zenon
      <4> QED
        BY <4>1, <4>2, <4>4, Zenon
    <3> QED
      BY <2>27, <3>1 DEF StageData
  <2>28. CASE StageEmails
    <3>1. root' \in Tree /\ staging' \in Tree
      <4>1. CASE root.dir /\ staging.emails = {} /\ pc' = "commitSentinel"
        <5>1. /\ staging' = [staging EXCEPT !.dir = TRUE, !.emails = root.emails]
              /\ root' = [root EXCEPT !.dir = FALSE, !.emails = {}]
          BY <2>28, <4>1 DEF StageEmails
        <5>2. root \in Tree /\ staging \in Tree /\ {} \in SUBSET Uids
          OBVIOUS
        <5>3. root.emails \in SUBSET Uids
          BY <5>2, TreeUpdates
        <5> QED
          BY <5>1, <5>2, <5>3, TreeUpdates, Zenon
      <4>2. CASE ~(root.dir /\ staging.emails = {} /\ pc' = "commitSentinel")
        BY <2>28, <4>2 DEF StageEmails
      <4> QED
        BY <4>1, <4>2
    <3> QED
      BY <2>28, <3>1 DEF StageEmails
  <2>29. CASE CommitSentinel
    BY <2>29 DEF CommitSentinel
  <2>30. CASE CommitManifest
    BY <2>30 DEF CommitManifest
  <2>31. CASE RemoveStaging
    <3>0. staging' = NoTree \/ staging' \in Remnants(staging)
      BY <2>31 DEF RemoveStaging
    <3>1. staging' \in Tree
      BY <3>0
    <3> QED
      BY <2>31, <3>1 DEF RemoveStaging
  <2>32. CASE RemoveManifest
    BY <2>32 DEF RemoveManifest
  <2>33. CASE ResetDone
    BY <2>33 DEF ResetDone
  <2>34. CASE UNCHANGED vars
    BY <2>34 DEF vars
  <2> QED
    BY <2>1, <2>2, <2>3, <2>4, <2>5, <2>6, <2>7, <2>8, <2>9, <2>10, <2>11,
       <2>12, <2>13, <2>14, <2>15, <2>16, <2>17, <2>18, <2>19, <2>20, <2>21,
       <2>22, <2>23, <2>24, <2>25, <2>26, <2>27, <2>28, <2>29, <2>30, <2>31,
       <2>32, <2>33, <2>34
       DEF Next, Step, OpenStep, FetchStep, ReprocessStep, RecoverStep, ResetStep
<1> QED
  BY <1>1, <1>2, PTL DEF Spec

-----------------------------------------------------------------------------
(* The invariant of the reset.                                             *)

\* The invariant above holds of every reachable state when the removals that
\* the code only logs do succeed.
THEOREM ResetInvariantHolds ==
  ASSUME CleanupMayFail = FALSE
  PROVE  Spec => []ResetInvariant
<1> USE UidsAssumption
<1>1. Init => ResetInvariant
  BY DEF Init, ResetInvariant, CommandInv, FilesInv, SentinelInv, ManifestInv,
         StagingInv, ResetInv, Opened, Working, OpenSteps, FetchSteps,
         ResetSteps, NoManifest, NoTree, NoUid, Contents, RecoveryRequired,
         HasPendingReset, ResetInFlight
<1>2. TypeOK /\ ResetInvariant /\ [Next]_vars => ResetInvariant'
  <2> SUFFICES ASSUME TypeOK, ResetInvariant, [Next]_vars
               PROVE  ResetInvariant'
    OBVIOUS
  <2> USE DEF TypeOK, Tree, OptionalUid, NoUid, NoManifest, NoTree, Commands,
              Steps, OpenSteps, FetchSteps, ResetSteps, Working, Opened,
              ManifestWritten, Committed, Goto, GotoFor, Return, disk,
              Contents, RecoveryRequired, HasPendingReset, ResetInFlight,
              ResetInvariant, CommandInv, FilesInv, SentinelInv, ManifestInv,
              StagingInv, ResetInv
  <2>1. ASSUME NEW c \in Commands, Start(c) PROVE ResetInvariant'
    BY <2>1 DEF Start
  <2>2. CASE Abort
    BY <2>2 DEF Abort, Remnants, RemovingStaging
  <2>3. CASE ServerChange
    BY <2>3 DEF ServerChange
  <2>4. CASE Cleanup
    BY <2>4 DEF Cleanup
  <2>5. CASE CleanupStaging
    BY <2>5 DEF CleanupStaging
  <2>6. CASE CleanupManifest
    BY <2>6 DEF CleanupManifest
  <2>7. CASE OpenEmails
    BY <2>7 DEF OpenEmails
  <2>8. CASE OpenData
    BY <2>8 DEF OpenData
  <2>9. CASE OpenSentinel
    BY <2>9 DEF OpenSentinel
  <2>10. CASE Fetch
    BY <2>10 DEF Fetch
  <2>11. CASE Adopt
    BY <2>11 DEF Adopt
  <2>12. CASE SaveRecoveryRequired
    BY <2>12 DEF SaveRecoveryRequired
  <2>13. CASE SaveEmails
    BY <2>13 DEF SaveEmails
  <2>14. CASE SaveReports
    BY <2>14 DEF SaveReports
  <2>15. CASE SaveUIDValidity
    BY <2>15 DEF SaveUIDValidity
  <2>16. CASE Reprocess
    BY <2>16 DEF Reprocess
  <2>17. CASE ReprocessReports
    BY <2>17 DEF ReprocessReports
  <2>18. CASE RecoverStatus
    BY <2>18 DEF RecoverStatus
  <2>19. CASE RecoverKeepOld
    BY <2>19 DEF RecoverKeepOld
  <2>20. CASE ApplyRecovery
    BY <2>20 DEF ApplyRecovery
  <2>21. CASE RecoverDiscardOld
    BY <2>21 DEF RecoverDiscardOld
  <2>22. CASE ResetForRecovery
    <3>1. CASE manifest = NoManifest
      BY <2>22, <3>1 DEF ResetForRecovery
    <3>2. CASE manifest # NoManifest
      <4>1. HasPendingReset /\ target \in {NoUid, manifest.curr}
        BY <2>22, <3>2 DEF ResetForRecovery
      <4>2. manifest.curr \in Uids
        BY <3>2, <4>1
      <4> QED
        BY <2>22, <3>2, <4>1, <4>2 DEF ResetForRecovery
    <3> QED
      BY <3>1, <3>2
  <2>23. CASE DropStaging
    BY <2>23 DEF DropStaging
  <2>24. CASE DropManifest
    BY <2>24 DEF DropManifest
  <2>25. CASE InitManifest
    BY <2>25 DEF InitManifest
  <2>26. CASE WriteManifest
    BY <2>26 DEF WriteManifest
  <2>27. CASE StageData
    <3>1. CASE root.file
      <4>1. /\ staging' = [staging EXCEPT !.file = TRUE, !.reports = root.reports]
            /\ root' = [root EXCEPT !.file = FALSE, !.reports = {}]
            /\ UNCHANGED <<sentinel, manifest, cmd, target>>
            /\ pc = "stageData" /\ pc' = "stageEmails"
        BY <2>27, <3>1 DEF StageData
      <4>2. /\ staging'.reports = root.reports
            /\ staging'.emails = staging.emails
            /\ root'.dir = root.dir /\ root'.emails = root.emails
            /\ root'.file = FALSE /\ root'.reports = {}
        BY <4>1
      <4> QED
        BY <3>1, <4>1, <4>2
    <3>2. CASE ~root.file
      BY <2>27, <3>2 DEF StageData
    <3> QED
      BY <3>1, <3>2
  <2>28. CASE StageEmails
    <3>1. CASE root.dir /\ staging.emails = {} /\ pc' = "commitSentinel"
      <4>1. /\ staging' = [staging EXCEPT !.dir = TRUE, !.emails = root.emails]
            /\ root' = [root EXCEPT !.dir = FALSE, !.emails = {}]
            /\ UNCHANGED <<sentinel, manifest, cmd, target>>
            /\ pc = "stageEmails" /\ pc' = "commitSentinel"
        BY <2>28, <3>1 DEF StageEmails
      <4>2. /\ staging'.reports = staging.reports
            /\ staging'.emails = root.emails
            /\ root'.file = root.file /\ root'.reports = root.reports
            /\ root'.dir = FALSE /\ root'.emails = {}
        BY <4>1
      <4> QED
        BY <3>1, <4>1, <4>2
    <3>2. CASE ~(root.dir /\ staging.emails = {} /\ pc' = "commitSentinel")
      BY <2>28, <3>2 DEF StageEmails
    <3> QED
      BY <3>1, <3>2
  <2>29. CASE CommitSentinel
    BY <2>29 DEF CommitSentinel
  <2>30. CASE CommitManifest
    BY <2>30 DEF CommitManifest
  <2>31. CASE RemoveStaging
    BY <2>31 DEF RemoveStaging
  <2>32. CASE RemoveManifest
    BY <2>32 DEF RemoveManifest
  <2>33. CASE ResetDone
    BY <2>33 DEF ResetDone
  <2>34. CASE UNCHANGED vars
    BY <2>34 DEF vars
  <2> QED
    BY <2>1, <2>2, <2>3, <2>4, <2>5, <2>6, <2>7, <2>8, <2>9, <2>10, <2>11,
       <2>12, <2>13, <2>14, <2>15, <2>16, <2>17, <2>18, <2>19, <2>20, <2>21,
       <2>22, <2>23, <2>24, <2>25, <2>26, <2>27, <2>28, <2>29, <2>30, <2>31,
       <2>32, <2>33, <2>34
       DEF Next, Step, OpenStep, FetchStep, ReprocessStep, RecoverStep, ResetStep
<1> QED
  BY <1>1, <1>2, TypeCorrect, PTL DEF Spec

-----------------------------------------------------------------------------
(* Refinement: StoreReset implements Recovery.                             *)

\* Steps that leave the sentinel, the data file and the emails directory, and
\* the staged contents while they count, do nothing at the abstract level.
LEMMA StutterStep ==
  ASSUME UNCHANGED sentinel,
         UNCHANGED <<root.reports, root.emails>>,
         RecoveryRequired => UNCHANGED <<staging.reports, staging.emails>>
  PROVE  UNCHANGED Atomic!vars
  BY DEF Atomic!vars, LogicalReports, LogicalEmails, RecoveryRequired, NoUid

\* Every step of the files and processes is a step of Recovery or none at all.
LEMMA StepRefines ==
  ASSUME CleanupMayFail = FALSE, TypeOK, ResetInvariant, [Next]_vars
  PROVE  [Atomic!Next]_(Atomic!vars)
<1> USE UidsAssumption DEF NoUid, NoManifest, ManifestWritten, Committed, disk,
        Contents, RecoveryRequired, HasPendingReset, ResetInvariant
<1> DEFINE Quiet == UNCHANGED Atomic!vars
<1>1. ASSUME NEW c \in Commands, Start(c) PROVE Quiet
  BY <1>1, StutterStep DEF Start
<1>2. CASE ServerChange
  BY <1>2, StutterStep DEF ServerChange
<1>3. CASE UNCHANGED vars
  BY <1>3, StutterStep DEF vars
<1>4. CASE Abort
  <2>1. pc \in RemovingStaging /\ RecoveryRequired => Contents(staging) = {}
    BY DEF RemovingStaging, ResetInv, StagingInv, ManifestInv, ResetInFlight,
           CommandInv, OpenSteps, ResetSteps
  <2>2. staging' \in Remnants(staging) => /\ staging'.reports \subseteq staging.reports
                                          /\ staging'.emails \subseteq staging.emails
    BY DEF Remnants
  <2> QED
    BY <1>4, <2>1, <2>2, StutterStep DEF Abort
<1>5. CASE Cleanup
  BY <1>5, StutterStep DEF Cleanup, Goto, GotoFor, Return, TypeOK, Tree
<1>6. CASE Fetch
  BY <1>6, StutterStep DEF Fetch, Goto, GotoFor, Return, TypeOK, Tree
<1>7. CASE Reprocess
  BY <1>7, StutterStep DEF Reprocess, Goto, GotoFor, Return, TypeOK, Tree
<1>8. CASE RecoverStatus
  BY <1>8, StutterStep DEF RecoverStatus, Goto, GotoFor, Return, TypeOK, Tree
<1>9. CASE RecoverKeepOld
  BY <1>9, StutterStep DEF RecoverKeepOld, Goto, GotoFor, Return, TypeOK, Tree
<1>10. CASE RecoverDiscardOld
  BY <1>10, StutterStep DEF RecoverDiscardOld, Goto, GotoFor, Return, TypeOK, Tree
<1>11. CASE ResetForRecovery
  BY <1>11, StutterStep DEF ResetForRecovery, Goto, GotoFor, Return, TypeOK, Tree
<1>12. CASE ResetDone
  BY <1>12, StutterStep DEF ResetDone, Goto, GotoFor, Return, TypeOK, Tree
<1>13. CASE CleanupManifest
  BY <1>13, StutterStep DEF CleanupManifest, Goto, GotoFor, Return, TypeOK, Tree
<1>14. CASE OpenEmails
  BY <1>14, StutterStep DEF OpenEmails, Goto, GotoFor, Return, TypeOK, Tree
<1>15. CASE OpenData
  BY <1>15, StutterStep DEF OpenData, Goto, GotoFor, Return, TypeOK, Tree
<1>16. CASE DropManifest
  BY <1>16, StutterStep DEF DropManifest, Goto, GotoFor, Return, TypeOK, Tree
<1>17. CASE WriteManifest
  BY <1>17, StutterStep DEF WriteManifest, Goto, GotoFor, Return, TypeOK, Tree
<1>18. CASE CommitManifest
  BY <1>18, StutterStep DEF CommitManifest, Goto, GotoFor, Return, TypeOK, Tree
<1>19. CASE RemoveManifest
  BY <1>19, StutterStep DEF RemoveManifest, Goto, GotoFor, Return, TypeOK, Tree
<1>20. CASE CleanupStaging
  <2>1. RecoveryRequired => Contents(staging) = {}
    BY <1>20 DEF CleanupStaging, ResetInv, StagingInv, ManifestInv, ResetInFlight
  <2>2. staging' = NoTree \/ UNCHANGED staging
    BY <1>20 DEF CleanupStaging, Goto, GotoFor, Return, TypeOK, Tree
  <2> QED
    BY <1>20, <2>1, <2>2, StutterStep DEF CleanupStaging, NoTree
<1>21. CASE RemoveStaging
  <2>1. RecoveryRequired => Contents(staging) = {}
    BY <1>21 DEF RemoveStaging, ResetInv, StagingInv, ManifestInv, ResetInFlight
  <2>2. staging' = NoTree \/ UNCHANGED staging
    BY <1>21 DEF RemoveStaging, Goto, GotoFor, Return, TypeOK, Tree
  <2> QED
    BY <1>21, <2>1, <2>2, StutterStep DEF RemoveStaging, NoTree
<1>22. CASE DropStaging
  <2>1. RecoveryRequired => Contents(staging) = {}
    BY <1>22 DEF DropStaging, ResetInv, StagingInv, ManifestInv, ResetInFlight
  <2>2. staging' = NoTree \/ UNCHANGED staging
    BY <1>22 DEF DropStaging, Goto, GotoFor, Return, TypeOK, Tree
  <2> QED
    BY <1>22, <2>1, <2>2, StutterStep DEF DropStaging, NoTree
<1>23. CASE InitManifest
  <2>1. RecoveryRequired => Contents(staging) = {}
    BY <1>23 DEF InitManifest, ResetInv, StagingInv, ManifestInv, ResetInFlight
  <2>2. staging' = NoTree \/ UNCHANGED staging
    BY <1>23 DEF InitManifest, Goto, GotoFor, Return, TypeOK, Tree
  <2> QED
    BY <1>23, <2>1, <2>2, StutterStep DEF InitManifest, NoTree
<1>24. CASE OpenSentinel
  <2>1. UNCHANGED <<sentinel.uid, sentinel.rr, root, staging>>
    BY <1>24 DEF OpenSentinel, TypeOK
  <2> QED
    BY <1>24, <2>1 DEF OpenSentinel, Atomic!vars, LogicalReports, LogicalEmails
<1>25. CASE Adopt
  <2>1. Atomic!Adopt(target) /\ target \in Uids
    BY <1>25 DEF Adopt, SentinelInv, TypeOK, Atomic!Adopt, Atomic!NoUid,
             LogicalReports, LogicalEmails
  <2> QED
    BY <2>1 DEF Atomic!Next
<1>26. CASE SaveRecoveryRequired
  <2>1. manifest = NoManifest
    BY <1>26 DEF SaveRecoveryRequired, StagingInv, Opened, Working, FetchSteps
  <2>2. Contents(staging) = {}
    BY <2>1 DEF StagingInv
  <2>3. Atomic!Detect(target) /\ target \in Uids
    BY <1>26, <2>2 DEF SaveRecoveryRequired, SentinelInv, TypeOK, Atomic!Detect,
                   Atomic!NoUid, LogicalReports, LogicalEmails
  <2> QED
    BY <2>3 DEF Atomic!Next
<1>27. CASE SaveEmails
  <2>1. ~RecoveryRequired /\ sentinel.uid = target /\ target \in Uids
    BY <1>27 DEF SaveEmails, SentinelInv
  <2>2. CASE UNCHANGED root
    BY <1>27, <2>2, StutterStep DEF SaveEmails
  <2>3. CASE root' = [root EXCEPT !.emails = @ \cup {target}]
    <3>1. Atomic!StoreEmails
      BY <1>27, <2>1, <2>3 DEF SaveEmails, TypeOK, Tree, Atomic!StoreEmails,
                           Atomic!NoUid, LogicalReports, LogicalEmails
    <3> QED
      BY <3>1 DEF Atomic!Next
  <2> QED
    BY <1>27, <2>2, <2>3 DEF SaveEmails
<1>28. CASE SaveReports
  <2>1. ~RecoveryRequired
    BY <1>28 DEF SaveReports, SentinelInv
  <2>2. CASE UNCHANGED root
    BY <1>28, <2>2, StutterStep DEF SaveReports
  <2>3. CASE /\ target \in root.emails
             /\ root' = [root EXCEPT !.reports = @ \cup {target}]
    <3>1. Atomic!StoreReports({target}) /\ {target} \in SUBSET Uids
      BY <1>28, <2>1, <2>3 DEF SaveReports, TypeOK, Tree, Atomic!StoreReports,
                           Atomic!NoUid, LogicalReports, LogicalEmails
    <3> QED
      BY <3>1 DEF Atomic!Next
  <2> QED
    BY <1>28, <2>2, <2>3 DEF SaveReports
<1>29. CASE SaveUIDValidity
  <2>1. UNCHANGED sentinel
    BY <1>29 DEF SaveUIDValidity, SentinelInv, TypeOK
  <2> QED
    BY <1>29, <2>1, StutterStep DEF SaveUIDValidity
<1>30. CASE ReprocessReports
  <2>1. ~RecoveryRequired
    BY <1>30 DEF ReprocessReports, SentinelInv
  <2>2. PICK epochs \in SUBSET root.emails :
            root' = [root EXCEPT !.reports = @ \cup epochs]
    BY <1>30 DEF ReprocessReports
  <2>3. Atomic!StoreReports(epochs) /\ epochs \in SUBSET Uids
    BY <1>30, <2>1, <2>2 DEF ReprocessReports, TypeOK, Tree, Atomic!StoreReports,
                         Atomic!NoUid, LogicalReports, LogicalEmails
  <2> QED
    BY <2>3 DEF Atomic!Next
<1>31. CASE ApplyRecovery
  <2>1. manifest = NoManifest
    BY <1>31 DEF ApplyRecovery, StagingInv, Opened, Working
  <2>2. Contents(staging) = {}
    BY <2>1 DEF StagingInv
  <2>3. Atomic!KeepOld
    BY <1>31, <2>2 DEF ApplyRecovery, SentinelInv, TypeOK, Atomic!KeepOld,
                   Atomic!NoUid, LogicalReports, LogicalEmails
  <2> QED
    BY <2>3 DEF Atomic!Next
<1>32. CASE StageData
  <2>1. UNCHANGED sentinel
    BY <1>32 DEF StageData
  <2>2. CASE ~root.file
    BY <1>32, <2>2, StutterStep DEF StageData
  <2>3. CASE root.file
    <3>1. /\ root'.reports = {}
          /\ root'.emails = root.emails
          /\ staging'.reports = root.reports
          /\ staging'.emails = staging.emails
      BY <1>32, <2>3 DEF StageData, TypeOK, Tree
    <3>2. staging.reports = {}
      BY <2>3 DEF FilesInv
    <3>3. ~RecoveryRequired => root.reports = {}
      BY <1>32 DEF StageData, ResetInv, ManifestInv
    <3> QED
      BY <2>1, <3>1, <3>2, <3>3 DEF Atomic!vars, LogicalReports, LogicalEmails
  <2> QED
    BY <2>2, <2>3
<1>33. CASE StageEmails
  <2>1. UNCHANGED sentinel
    BY <1>33 DEF StageEmails
  <2>2. CASE ~root.dir
    BY <1>33, <2>2, StutterStep DEF StageEmails
  <2>3. CASE root.dir /\ UNCHANGED <<root, staging>>
    BY <1>33, <2>3, StutterStep DEF StageEmails
  <2>4. CASE root.dir /\ ~UNCHANGED <<root, staging>>
    <3>1. staging.emails = {}
      BY <2>4 DEF FilesInv
    <3>2. /\ root'.emails = {}
          /\ root'.reports = root.reports
          /\ staging'.emails = root.emails
          /\ staging'.reports = staging.reports
      BY <1>33, <2>4, <3>1 DEF StageEmails, TypeOK, Tree
    <3>3. ~RecoveryRequired => root.emails = {}
      BY <1>33 DEF StageEmails, ResetInv, ManifestInv
    <3> QED
      BY <2>1, <3>1, <3>2, <3>3 DEF Atomic!vars, LogicalReports, LogicalEmails
  <2> QED
    BY <2>2, <2>3, <2>4
<1>34. CASE CommitSentinel
  <2>1. root.reports = {} /\ root.emails = {}
    BY <1>34 DEF CommitSentinel, ResetInv
  <2>2. /\ sentinel'.uid = target /\ sentinel'.rr = NoUid
        /\ UNCHANGED <<root, staging>>
    BY <1>34 DEF CommitSentinel, TypeOK
  <2>3. CASE RecoveryRequired
    <3>1. target = sentinel.rr
      BY <1>34, <2>3 DEF CommitSentinel, ResetInv, ManifestInv
    <3>2. Atomic!DiscardOld
      BY <2>1, <2>2, <2>3, <3>1 DEF Atomic!DiscardOld, Atomic!NoUid,
                                    LogicalReports, LogicalEmails
    <3> QED
      BY <3>2 DEF Atomic!Next
  <2>4. CASE ~RecoveryRequired
    <3>1. target = sentinel.uid
      BY <1>34, <2>4 DEF CommitSentinel, ResetInv, ManifestInv
    <3> QED
      BY <2>1, <2>2, <2>4, <3>1 DEF Atomic!vars, LogicalReports, LogicalEmails
  <2> QED
    BY <2>3, <2>4
<1> QED
  BY <1>1, <1>2, <1>3, <1>4, <1>5, <1>6, <1>7, <1>8, <1>9, <1>10, <1>11,
     <1>12, <1>13, <1>14, <1>15, <1>16, <1>17, <1>18, <1>19, <1>20, <1>21,
     <1>22, <1>23, <1>24, <1>25, <1>26, <1>27, <1>28, <1>29, <1>30, <1>31,
     <1>32, <1>33, <1>34
     DEF Next, Step, OpenStep, FetchStep, ReprocessStep, RecoverStep, ResetStep

\* The store on disk, with its renames, manifest and crashes, behaves like the
\* store of Recovery, in which keep-old and discard-old are single steps.
THEOREM StoreImplementsRecovery ==
  ASSUME CleanupMayFail = FALSE
  PROVE  Spec => ImplementsRecovery
<1>1. Init => Atomic!Init
  BY DEF Init, Atomic!Init, LogicalReports, LogicalEmails, RecoveryRequired,
         NoTree, NoUid, Atomic!NoUid
<1>2. TypeOK /\ ResetInvariant /\ [Next]_vars => [Atomic!Next]_(Atomic!vars)
  BY StepRefines
<1> QED
  BY <1>1, <1>2, TypeCorrect, ResetInvariantHolds, PTL
     DEF Spec, ImplementsRecovery, Atomic!Spec

-----------------------------------------------------------------------------
(* Safety properties that follow from the invariant.                       *)

\* No command but discard-old works on a half-reset store.
THEOREM HalfResetIsNeverOpened ==
  ASSUME CleanupMayFail = FALSE
  PROVE  Spec => []HalfResetNotOpened
<1>1. TypeOK /\ ResetInvariant => HalfResetNotOpened
  BY DEF TypeOK, ResetInvariant, StagingInv, Opened, Working,
         HalfResetNotOpened
<1> QED
  BY <1>1, TypeCorrect, ResetInvariantHolds, PTL

\* What Open removes as an orphaned staging directory is empty or old.
THEOREM StagingAlwaysHasManifest ==
  ASSUME CleanupMayFail = FALSE
  PROVE  Spec => []StagingHasManifest
<1>1. ResetInvariant => StagingHasManifest
  BY DEF ResetInvariant, StagingInv, ManifestInv, StagingHasManifest
<1> QED
  BY <1>1, ResetInvariantHolds, PTL

\* Until the commit point of a recovery, the old contents are never lost:
\* they are the contents of Recovery, which only DiscardOld removes.
THEOREM OldDataIsKept ==
  ASSUME CleanupMayFail = FALSE
  PROVE  Spec => OldDataKeptUntilCommit
<1>1. TypeOK /\ ResetInvariant /\ [Next]_vars =>
        [RecoveryRequired /\ RecoveryRequired' =>
             /\ (root.reports \cup staging.reports)
                    \subseteq (root'.reports \cup staging'.reports)
             /\ (root.emails \cup staging.emails)
                    \subseteq (root'.emails \cup staging'.emails)]_vars
  <2> SUFFICES ASSUME TypeOK, ResetInvariant, [Next]_vars,
                      RecoveryRequired, RecoveryRequired'
               PROVE  /\ (root.reports \cup staging.reports)
                             \subseteq (root'.reports \cup staging'.reports)
                      /\ (root.emails \cup staging.emails)
                             \subseteq (root'.emails \cup staging'.emails)
    OBVIOUS
  <2>1. [Atomic!Next]_(Atomic!vars)
    BY StepRefines
  <2>2. LogicalReports \subseteq LogicalReports' /\ LogicalEmails \subseteq LogicalEmails'
    BY <2>1 DEF Atomic!Next, Atomic!vars, Atomic!Adopt, Atomic!Detect,
                Atomic!StoreEmails, Atomic!StoreReports, Atomic!KeepOld,
                Atomic!DiscardOld, Atomic!NoUid, RecoveryRequired, NoUid
  <2> QED
    BY <2>2 DEF LogicalReports, LogicalEmails
<1> QED
  BY <1>1, TypeCorrect, ResetInvariantHolds, PTL DEF Spec, OldDataKeptUntilCommit

\* Only fetch sets recovery_required, and it leaves the contents alone.
LEMMA OnlyFetchDetects ==
  ASSUME TypeOK, [Next]_vars, ~RecoveryRequired, RecoveryRequired'
  PROVE  UNCHANGED root
<1>1. sentinel' # sentinel
  BY DEF RecoveryRequired
<1>2. sentinel.rr = NoUid /\ sentinel'.rr # NoUid
  BY DEF RecoveryRequired
<1>3. CASE OpenStep
  BY <1>1, <1>2, <1>3
     DEF OpenStep, Cleanup, CleanupStaging, CleanupManifest, OpenEmails,
         OpenData, OpenSentinel, disk, TypeOK
<1>4. CASE FetchStep
  BY <1>1, <1>2, <1>4
     DEF FetchStep, Fetch, Adopt, SaveRecoveryRequired, SaveEmails,
         SaveReports, SaveUIDValidity, disk, TypeOK
<1>5. CASE ReprocessStep
  BY <1>1, <1>5 DEF ReprocessStep, Reprocess, ReprocessReports, disk
<1>6. CASE RecoverStep
  BY <1>1, <1>2, <1>6
     DEF RecoverStep, RecoverStatus, RecoverKeepOld, ApplyRecovery,
         RecoverDiscardOld, disk, TypeOK
<1>7. CASE ResetStep
  BY <1>1, <1>2, <1>7
     DEF ResetStep, ResetForRecovery, DropStaging, DropManifest, InitManifest,
         WriteManifest, StageData, StageEmails, CommitSentinel, CommitManifest,
         RemoveStaging, RemoveManifest, ResetDone, disk, TypeOK
<1>8. CASE UNCHANGED vars
  BY <1>1, <1>8 DEF vars
<1>9. CASE Abort \/ ServerChange \/ \E c \in Commands : Start(c)
  BY <1>1, <1>9 DEF Abort, ServerChange, Start, disk
<1> QED
  BY <1>3, <1>4, <1>5, <1>6, <1>7, <1>8, <1>9 DEF Next, Step

\* While no recovery is required, nothing leaves the store.
THEOREM LiveDataIsKept ==
  ASSUME CleanupMayFail = FALSE
  PROVE  Spec => LiveDataKept
<1>1. TypeOK /\ ResetInvariant /\ [Next]_vars =>
        [~RecoveryRequired =>
             /\ root.reports \subseteq root'.reports
             /\ root.emails \subseteq root'.emails]_vars
  <2> SUFFICES ASSUME TypeOK, ResetInvariant, [Next]_vars, ~RecoveryRequired
               PROVE  /\ root.reports \subseteq root'.reports
                      /\ root.emails \subseteq root'.emails
    OBVIOUS
  <2>1. [Atomic!Next]_(Atomic!vars)
    BY StepRefines
  <2>2. LogicalReports \subseteq LogicalReports' /\ LogicalEmails \subseteq LogicalEmails'
    BY <2>1 DEF Atomic!Next, Atomic!vars, Atomic!Adopt, Atomic!Detect,
                Atomic!StoreEmails, Atomic!StoreReports, Atomic!KeepOld,
                Atomic!DiscardOld, Atomic!NoUid, RecoveryRequired, NoUid
  <2>3. CASE ~RecoveryRequired'
    BY <2>2, <2>3 DEF LogicalReports, LogicalEmails
  <2>4. CASE RecoveryRequired'
    <3>1. UNCHANGED root
      BY <2>4, OnlyFetchDetects
    <3> QED
      BY <3>1
  <2> QED
    BY <2>3, <2>4
<1> QED
  BY <1>1, TypeCorrect, ResetInvariantHolds, PTL DEF Spec, LiveDataKept

-----------------------------------------------------------------------------
(* Whatever the best-effort removals leave behind.                         *)

\* Contents need a file, and an opened store has its files.
PlaceInv ==
    /\ root.reports # {} => root.file
    /\ root.emails # {} => root.dir
    /\ pc = "openData" \/ Opened => root.dir
    /\ Opened => root.file

\* A manifest that is not committed may be of a reset in flight or left over
\* from one whose commit landed; to resume it is to move to the UIDVALIDITY
\* that was detected, or to stay.
ResumeInv ==
    /\ HasPendingReset =>
           manifest.curr \in Uids /\ manifest.curr \in {sentinel.rr, sentinel.uid}
    /\ pc = "apply" => ~HasPendingReset
    /\ pc \in {"reset", "dropStaging", "dropManifest", "initManifest"} =>
           target = sentinel.rr
    /\ pc = "reset" => RecoveryRequired \/ HasPendingReset
    /\ pc = "writeManifest" => RecoveryRequired /\ target = sentinel.rr
    /\ pc \in {"stageData", "stageEmails", "commitSentinel"} =>
           /\ HasPendingReset /\ manifest.curr = target
           /\ target = IF RecoveryRequired THEN sentinel.rr ELSE sentinel.uid
    /\ pc \in {"stageEmails", "commitSentinel"} => root.reports = {}
    /\ pc = "commitSentinel" => root.emails = {}
    /\ pc \in {"commitManifest", "removeStaging", "removeManifest", "resetDone"} =>
           ~RecoveryRequired /\ sentinel.uid = target /\ Contents(root) = {}
    /\ pc = "resetDone" => manifest = NoManifest

FaultyInvariant ==
    /\ CommandInv
    /\ SentinelInv
    /\ PlaceInv
    /\ ResumeInv
    /\ EpochsMixOnlyByChoice

\* This invariant needs no clean-up to succeed.
LEMMA FaultyInvariantHolds == Spec => []FaultyInvariant
<1> USE UidsAssumption
<1>1. Init => FaultyInvariant
  BY SMTT(30) DEF Init, FaultyInvariant, CommandInv, SentinelInv, PlaceInv, ResumeInv,
         EpochsMixOnlyByChoice, Opened, Working, OpenSteps, FetchSteps,
         ResetSteps, NoManifest, NoTree, NoUid, Contents, RecoveryRequired,
         HasPendingReset, ManifestWritten
<1>2. TypeOK /\ FaultyInvariant /\ [Next]_vars => FaultyInvariant'
  <2> SUFFICES ASSUME TypeOK, FaultyInvariant, [Next]_vars
               PROVE  FaultyInvariant'
    OBVIOUS
  <2> USE DEF TypeOK, Tree, OptionalUid, NoUid, NoManifest, NoTree, Commands,
              Steps, OpenSteps, FetchSteps, ResetSteps, Working, Opened,
              ManifestWritten, Committed, Goto, GotoFor, Return, disk,
              Contents, RecoveryRequired, HasPendingReset, ResetInFlight,
              FaultyInvariant, CommandInv, SentinelInv, PlaceInv, ResumeInv,
              EpochsMixOnlyByChoice
  <2>1. ASSUME NEW c \in Commands, Start(c) PROVE FaultyInvariant'
    BY <2>1 DEF Start
  <2>2. CASE Abort
    BY <2>2 DEF Abort
  <2>3. CASE ServerChange
    BY <2>3 DEF ServerChange
  <2>4. CASE Cleanup
    BY <2>4 DEF Cleanup
  <2>5. CASE CleanupStaging
    BY <2>5 DEF CleanupStaging
  <2>6. CASE CleanupManifest
    BY <2>6 DEF CleanupManifest
  <2>7. CASE OpenEmails
    BY <2>7 DEF OpenEmails
  <2>8. CASE OpenData
    BY <2>8 DEF OpenData
  <2>9. CASE OpenSentinel
    BY <2>9 DEF OpenSentinel
  <2>10. CASE Fetch
    BY <2>10 DEF Fetch
  <2>11. CASE Adopt
    BY <2>11 DEF Adopt
  <2>12. CASE SaveRecoveryRequired
    BY <2>12 DEF SaveRecoveryRequired
  <2>13. CASE SaveEmails
    BY <2>13 DEF SaveEmails
  <2>14. CASE SaveReports
    BY <2>14 DEF SaveReports
  <2>15. CASE SaveUIDValidity
    BY <2>15 DEF SaveUIDValidity
  <2>16. CASE Reprocess
    BY <2>16 DEF Reprocess
  <2>17. CASE ReprocessReports
    BY <2>17 DEF ReprocessReports
  <2>18. CASE RecoverStatus
    BY <2>18 DEF RecoverStatus
  <2>19. CASE RecoverKeepOld
    BY <2>19 DEF RecoverKeepOld
  <2>20. CASE ApplyRecovery
    BY <2>20 DEF ApplyRecovery
  <2>21. CASE RecoverDiscardOld
    BY <2>21 DEF RecoverDiscardOld
  <2>22. CASE ResetForRecovery
    BY <2>22 DEF ResetForRecovery
  <2>23. CASE DropStaging
    BY <2>23 DEF DropStaging
  <2>24. CASE DropManifest
    BY <2>24 DEF DropManifest
  <2>25. CASE InitManifest
    BY <2>25 DEF InitManifest
  <2>26. CASE WriteManifest
    BY <2>26 DEF WriteManifest
  <2>27. CASE StageData
    <3>1. CASE root.file
      <4>1. /\ staging' = [staging EXCEPT !.file = TRUE, !.reports = root.reports]
            /\ root' = [root EXCEPT !.file = FALSE, !.reports = {}]
            /\ UNCHANGED <<sentinel, manifest, cmd, target>>
            /\ pc = "stageData" /\ pc' = "stageEmails"
        BY <2>27, <3>1 DEF StageData
      <4>2. /\ staging'.reports = root.reports
            /\ staging'.emails = staging.emails
            /\ root'.dir = root.dir /\ root'.emails = root.emails
            /\ root'.file = FALSE /\ root'.reports = {}
        BY <4>1
      <4>3. CommandInv' /\ SentinelInv'
        BY <4>1
      <4>4. PlaceInv'
        BY <4>1, <4>2
      <4>5. ResumeInv'
        BY <4>1, <4>2
      <4>6. EpochsMixOnlyByChoice'
        BY <2>27, <4>1, <4>2 DEF StageData
      <4> QED
        BY <4>3, <4>4, <4>5, <4>6
    <3>2. CASE ~root.file
      BY <2>27, <3>2 DEF StageData
    <3> QED
      BY <3>1, <3>2
  <2>28. CASE StageEmails
    <3>1. CASE root.dir /\ staging.emails = {} /\ pc' = "commitSentinel"
      <4>1. /\ staging' = [staging EXCEPT !.dir = TRUE, !.emails = root.emails]
            /\ root' = [root EXCEPT !.dir = FALSE, !.emails = {}]
            /\ UNCHANGED <<sentinel, manifest, cmd, target>>
            /\ pc = "stageEmails" /\ pc' = "commitSentinel"
        BY <2>28, <3>1 DEF StageEmails
      <4>2. /\ staging'.reports = staging.reports
            /\ staging'.emails = root.emails
            /\ root'.file = root.file /\ root'.reports = root.reports
            /\ root'.dir = FALSE /\ root'.emails = {}
        BY <4>1
      <4> QED
        BY <3>1, <4>1, <4>2
    <3>2. CASE ~(root.dir /\ staging.emails = {} /\ pc' = "commitSentinel")
      BY <2>28, <3>2 DEF StageEmails
    <3> QED
      BY <3>1, <3>2
  <2>29. CASE CommitSentinel
    BY <2>29 DEF CommitSentinel
  <2>30. CASE CommitManifest
    BY <2>30 DEF CommitManifest
  <2>31. CASE RemoveStaging
    BY <2>31 DEF RemoveStaging
  <2>32. CASE RemoveManifest
    BY <2>32 DEF RemoveManifest
  <2>33. CASE ResetDone
    BY <2>33 DEF ResetDone
  <2>34. CASE UNCHANGED vars
    BY <2>34 DEF vars
  <2> QED
    BY <2>1, <2>2, <2>3, <2>4, <2>5, <2>6, <2>7, <2>8, <2>9, <2>10, <2>11,
       <2>12, <2>13, <2>14, <2>15, <2>16, <2>17, <2>18, <2>19, <2>20, <2>21,
       <2>22, <2>23, <2>24, <2>25, <2>26, <2>27, <2>28, <2>29, <2>30, <2>31,
       <2>32, <2>33, <2>34
       DEF Next, Step, OpenStep, FetchStep, ReprocessStep, RecoverStep, ResetStep
<1> QED
  BY <1>1, <1>2, TypeCorrect, PTL DEF Spec

\* discard-old reports success only on an empty store of the new UIDVALIDITY
\* without a manifest, whatever clean-ups have failed before.
THEOREM ResetsAreComplete == Spec => []ResetComplete
<1>1. FaultyInvariant => ResetComplete
  BY DEF FaultyInvariant, ResumeInv, ResetComplete
<1> QED
  BY <1>1, FaultyInvariantHolds, PTL

\* Epochs mix only where an operator chose keep-old, whatever clean-ups fail.
THEOREM EpochsAreNotMixed == Spec => []EpochsMixOnlyByChoice
<1>1. FaultyInvariant => EpochsMixOnlyByChoice
  BY DEF FaultyInvariant
<1> QED
  BY <1>1, FaultyInvariantHolds, PTL

\* uid_validity moves only to the value that was detected, whichever manifest
\* a reset finds.
THEOREM UidMovesToDetected == Spec => UidFollowsDetection
<1>1. ASSUME TypeOK, FaultyInvariant, [Next]_vars, sentinel'.uid # sentinel.uid
      PROVE  \/ sentinel.uid = NoUid
             \/ RecoveryRequired /\ sentinel'.uid = sentinel.rr
  <2> USE DEF TypeOK, FaultyInvariant, SentinelInv, ResumeInv
  <2>1. CASE Adopt \/ SaveUIDValidity \/ SaveRecoveryRequired
    BY <1>1, <2>1 DEF Adopt, SaveUIDValidity, SaveRecoveryRequired
  <2>2. CASE ApplyRecovery \/ CommitSentinel
    BY <1>1, <2>2 DEF ApplyRecovery, CommitSentinel
  <2>3. CASE OpenSentinel
    BY <1>1, <2>3 DEF OpenSentinel
  <2>4. CASE UNCHANGED sentinel
    BY <1>1, <2>4
  <2>5. \/ Adopt \/ SaveUIDValidity \/ SaveRecoveryRequired
        \/ ApplyRecovery \/ CommitSentinel \/ OpenSentinel
        \/ UNCHANGED sentinel
    BY <1>1 DEF Start, Abort, ServerChange, Cleanup, CleanupStaging,
       CleanupManifest, OpenEmails, OpenData, Fetch, SaveEmails, SaveReports,
       Reprocess, ReprocessReports, RecoverStatus, RecoverKeepOld,
       RecoverDiscardOld, ResetForRecovery, DropStaging, DropManifest,
       InitManifest, WriteManifest, StageData, StageEmails, CommitManifest,
       RemoveStaging, RemoveManifest, ResetDone, disk, vars,
       Next, Step, OpenStep, FetchStep, ReprocessStep, RecoverStep, ResetStep
  <2> QED
    BY <2>1, <2>2, <2>3, <2>4, <2>5
<1>2. TypeOK /\ FaultyInvariant /\ [Next]_vars =>
        [sentinel'.uid # sentinel.uid =>
             \/ sentinel.uid = NoUid
             \/ RecoveryRequired /\ sentinel'.uid = sentinel.rr]_vars
  BY <1>1
<1> QED
  BY <1>2, TypeCorrect, FaultyInvariantHolds, PTL DEF Spec, UidFollowsDetection

=============================================================================
