---------------------------- MODULE ProcessLocks ----------------------------
(***************************************************************************)
(* Processes of the CLI running side by side on one store: writers (fetch, *)
(* recover; gc and reprocess lock like a fetch that detects nothing) and   *)
(* summaries.  Writers take the store-wide lock without waiting            *)
(* (LOCK_EX|LOCK_NB, internal/storelock).  Whoever changes                 *)
(* recovery_required also takes the guard exclusively, and waits for it    *)
(* (withGuardExclusive); a summary holds the guard shared from bootstrap   *)
(* to exit (AcquireSummaryConsistencyGuard).                               *)
(*                                                                         *)
(* Of the sentinel, recovery_required and whether uid_validity is set are  *)
(* kept, of the reports whether there are any.  Every save of the sentinel *)
(* is a read, a change of the copy and an atomic replacement, so that      *)
(* SaveUIDValidity, which neither changes recovery_required nor takes the  *)
(* guard, writes back the recovery_required that it read.                  *)
(***************************************************************************)
EXTENDS Naturals, FiniteSets

CONSTANTS
    Writers, Summaries,     \* process identities, each of which runs often
    NoProc,                 \* nobody
    MaxRuns                 \* bound: commands a process starts

ASSUME ProcessAssumption ==
    /\ Writers \cap Summaries = {}
    /\ NoProc \notin Writers \cup Summaries
    /\ MaxRuns \in Nat

Procs == Writers \cup Summaries

VARIABLES
    rootDir,        \* does the store directory exist?
    sentinel,       \* .tlsrpt-digest-meta.json
    reports,        \* are there reports in tlsrpt.json?
    writerLock,     \* process that holds .tlsrpt-digest-store.lock
    exclusive,      \* process that holds the guard with LOCK_EX
    shared,         \* processes that hold the guard with LOCK_SH
    noop,           \* summaries that got the no-op guard
    pc,             \* next operation of each process
    copy,           \* the sentinel as a writer read it
    runs            \* commands each process started

vars == <<rootDir, sentinel, reports, writerLock, exclusive, shared, noop, pc,
          copy, runs>>
locks == <<writerLock, exclusive, shared, noop>>

Sentinel == [uidKnown : BOOLEAN, required : BOOLEAN]
Required == sentinel.required

FetchSteps == {"fetch", "adopt", "writeAdopt", "saveReports", "saveUid",
               "writeUid"}
GuardedSteps == {"readDetect", "writeDetect", "readClear", "writeClear",
                 "unguard"}
LockedSteps == FetchSteps \cup GuardedSteps
                   \cup {"guardDetect", "recover", "stage", "guardClear", "close"}
WriterSteps == LockedSteps \cup {"mkdir", "lock"}
SummarySteps == {"acquire", "check", "generate", "send", "closeSummary"}

TypeOK ==
    /\ rootDir \in BOOLEAN
    /\ sentinel \in Sentinel
    /\ reports \in BOOLEAN
    /\ writerLock \in Writers \cup {NoProc}
    /\ exclusive \in Writers \cup {NoProc}
    /\ shared \subseteq Summaries
    /\ noop \subseteq Summaries
    /\ pc \in [Procs -> {"idle"} \cup WriterSteps \cup SummarySteps]
    /\ copy \in [Writers -> Sentinel]
    /\ runs \in [Procs -> 0..MaxRuns]

Init ==
    /\ rootDir \in BOOLEAN
    /\ sentinel \in [uidKnown : {FALSE, rootDir}, required : {FALSE}]
    /\ reports \in {FALSE, rootDir}
    /\ writerLock = NoProc
    /\ exclusive = NoProc
    /\ shared = {}
    /\ noop = {}
    /\ pc = [p \in Procs |-> "idle"]
    /\ copy = [w \in Writers |-> sentinel]
    /\ runs = [p \in Procs |-> 0]

-----------------------------------------------------------------------------
At(p, step) == pc[p] = step
Goto(p, step) == pc' = [pc EXCEPT ![p] = step]

Start(p, step) ==
    /\ At(p, "idle")
    /\ runs[p] < MaxRuns
    /\ runs' = [runs EXCEPT ![p] = @ + 1]
    /\ Goto(p, step)
    /\ UNCHANGED <<rootDir, sentinel, reports, locks, copy>>

\* A process that dies drops its locks: flock belongs to the open file.
Crash(p) ==
    /\ ~At(p, "idle")
    /\ Goto(p, "idle")
    /\ writerLock' = IF writerLock = p THEN NoProc ELSE writerLock
    /\ exclusive' = IF exclusive = p THEN NoProc ELSE exclusive
    /\ shared' = shared \ {p}
    /\ noop' = noop \ {p}
    /\ UNCHANGED <<rootDir, sentinel, reports, copy, runs>>

-----------------------------------------------------------------------------
(* Writers.                                                                *)

\* validateAndEnsureRootDir comes before the lock, which is a file in it.
EnsureRootDir(w) ==
    /\ At(w, "mkdir")
    /\ rootDir' = TRUE
    /\ Goto(w, "lock")
    /\ UNCHANGED <<sentinel, reports, locks, copy, runs>>

\* Variant: the lock is not taken.
AcquireNothing(w) ==
    /\ At(w, "lock")
    /\ \/ Goto(w, "fetch")
       \/ Goto(w, "recover")
    /\ UNCHANGED <<rootDir, sentinel, reports, locks, copy, runs>>

\* storelock.Acquire does not wait: ErrLockHeld ends the command.
AcquireWriterLock(w) ==
    /\ At(w, "lock")
    /\ \/ /\ writerLock = NoProc
          /\ writerLock' = w
          /\ \/ Goto(w, "fetch")
             \/ Goto(w, "recover")
       \/ /\ writerLock # NoProc
          /\ UNCHANGED writerLock
          /\ Goto(w, "idle")
    /\ UNCHANGED <<rootDir, sentinel, reports, exclusive, shared, noop, copy, runs>>

\* fetch fails closed if recovery is required.  Otherwise UIDVALIDITY is
\* the first one, the stored one, or another one.
Fetch(w) ==
    /\ At(w, "fetch")
    /\ \/ Required /\ Goto(w, "close")
       \/ ~Required /\ ~sentinel.uidKnown /\ Goto(w, "adopt")
       \/ ~Required /\ sentinel.uidKnown /\ Goto(w, "saveReports")
       \/ ~Required /\ sentinel.uidKnown /\ Goto(w, "guardDetect")
    /\ UNCHANGED <<rootDir, sentinel, reports, locks, copy, runs>>

\* SaveReports replaces the data file atomically; there may be no report.
SaveReports(w) ==
    /\ At(w, "saveReports")
    /\ reports' \in {reports, TRUE}
    /\ Goto(w, "saveUid")
    /\ UNCHANGED <<rootDir, sentinel, locks, copy, runs>>

\* recover with a mode: keep-old goes on to ApplyRecovery, discard-old moves
\* the data file to staging and goes on to commitReset; the latter also without
\* recovery_required, if it finds the manifest of a reset that was cut short
\* (module StoreReset has the manifest).
Recover(w) ==
    /\ At(w, "recover")
    /\ \/ ~Required /\ Goto(w, "close")
       \/ Required /\ Goto(w, "guardClear")
       \/ Goto(w, "stage")
    /\ UNCHANGED <<rootDir, sentinel, reports, locks, copy, runs>>

\* stageDataFile: without the guard.
StageReports(w) ==
    /\ At(w, "stage")
    /\ reports' = FALSE
    /\ Goto(w, "guardClear")
    /\ UNCHANGED <<rootDir, sentinel, locks, copy, runs>>

Load(w, from, to) ==
    /\ At(w, from)
    /\ copy' = [copy EXCEPT ![w] = sentinel]
    /\ Goto(w, to)
    /\ UNCHANGED <<rootDir, sentinel, reports, locks, runs>>

Save(w, from, value, to) ==
    /\ At(w, from)
    /\ sentinel' = value
    /\ Goto(w, to)
    /\ UNCHANGED <<rootDir, reports, locks, copy, runs>>

\* SaveUIDValidity: under the writer lock only.
SaveUIDValidity(w, from, write, to) ==
    \/ Load(w, from, write)
    \/ Save(w, write, [copy[w] EXCEPT !.uidKnown = TRUE], to)

\* Variant: LOCK_EX is granted although summaries hold the guard.
GuardIgnoringShared(w, from, to) ==
    /\ At(w, from)
    /\ exclusive = NoProc
    /\ exclusive' = w
    /\ Goto(w, to)
    /\ UNCHANGED <<rootDir, sentinel, reports, writerLock, shared, noop, copy, runs>>

\* withGuardExclusive waits for LOCK_EX.
GuardExclusive(w, from, to) ==
    /\ At(w, from)
    /\ exclusive = NoProc
    /\ shared = {}
    /\ exclusive' = w
    /\ Goto(w, to)
    /\ UNCHANGED <<rootDir, sentinel, reports, writerLock, shared, noop, copy, runs>>

SaveRecoveryRequired(w) ==
    \/ GuardExclusive(w, "guardDetect", "readDetect")
    \/ Load(w, "readDetect", "writeDetect")
    \/ Save(w, "writeDetect", [copy[w] EXCEPT !.required = TRUE], "unguard")

\* ApplyRecovery, commitReset
CommitRecovery(w) ==
    \/ GuardExclusive(w, "guardClear", "readClear")
    \/ Load(w, "readClear", "writeClear")
    \/ Save(w, "writeClear",
            [copy[w] EXCEPT !.uidKnown = TRUE, !.required = FALSE], "unguard")

\* Variant: the guard is kept after the sentinel is written.
KeepGuard(w) ==
    /\ At(w, "unguard")
    /\ Goto(w, "close")
    /\ UNCHANGED <<rootDir, sentinel, reports, locks, copy, runs>>

\* The deferred close of the guard file.
ReleaseGuard(w) ==
    /\ At(w, "unguard")
    /\ exclusive' = NoProc
    /\ Goto(w, "close")
    /\ UNCHANGED <<rootDir, sentinel, reports, writerLock, shared, noop, copy, runs>>

CloseWriter(w) ==
    /\ At(w, "close")
    /\ writerLock' = NoProc
    /\ Goto(w, "idle")
    /\ UNCHANGED <<rootDir, sentinel, reports, exclusive, shared, noop, copy, runs>>

-----------------------------------------------------------------------------
(* summary.                                                                *)

\* Variant: the summary asks for LOCK_EX.
AcquireSummaryExclusive(s) ==
    /\ At(s, "acquire")
    /\ rootDir
    /\ exclusive = NoProc
    /\ exclusive' = s
    /\ Goto(s, "check")
    /\ UNCHANGED <<rootDir, sentinel, reports, writerLock, shared, noop, copy,
                   runs>>

\* Without a store directory the guard is a no-op.  Otherwise the summary
\* waits for LOCK_SH.
AcquireSummaryGuard(s) ==
    /\ At(s, "acquire")
    /\ \/ ~rootDir /\ noop' = noop \cup {s} /\ UNCHANGED shared
       \/ /\ rootDir
          /\ exclusive = NoProc
          /\ shared' = shared \cup {s}
          /\ UNCHANGED noop
    /\ Goto(s, "check")
    /\ UNCHANGED <<rootDir, sentinel, reports, writerLock, exclusive, copy, runs>>

\* The no-op guard always answers that no recovery is required.
CheckRecoveryRequired(s) ==
    /\ At(s, "check")
    /\ Goto(s, IF s \in shared /\ Required THEN "closeSummary" ELSE "generate")
    /\ UNCHANGED <<rootDir, sentinel, reports, locks, copy, runs>>

\* There may be no report in the window.
GenerateSummary(s) ==
    /\ At(s, "generate")
    /\ \/ reports /\ Goto(s, "send")
       \/ Goto(s, "closeSummary")
    /\ UNCHANGED <<rootDir, sentinel, reports, locks, copy, runs>>

SendSummary(s) ==
    /\ At(s, "send")
    /\ Goto(s, "closeSummary")
    /\ UNCHANGED <<rootDir, sentinel, reports, locks, copy, runs>>

CloseSummary(s) ==
    /\ At(s, "closeSummary")
    /\ shared' = shared \ {s}
    /\ noop' = noop \ {s}
    /\ Goto(s, "idle")
    /\ UNCHANGED <<rootDir, sentinel, reports, writerLock, exclusive, copy, runs>>

-----------------------------------------------------------------------------
WriterStep(w) ==
    \/ EnsureRootDir(w) \/ AcquireWriterLock(w)
    \/ Fetch(w) \/ SaveReports(w)
    \/ SaveUIDValidity(w, "adopt", "writeAdopt", "saveReports")
    \/ SaveUIDValidity(w, "saveUid", "writeUid", "close")
    \/ Recover(w) \/ StageReports(w)
    \/ SaveRecoveryRequired(w) \/ CommitRecovery(w)
    \/ ReleaseGuard(w) \/ CloseWriter(w)

SummaryStep(s) ==
    \/ AcquireSummaryGuard(s) \/ CheckRecoveryRequired(s)
    \/ GenerateSummary(s) \/ SendSummary(s) \/ CloseSummary(s)

Next ==
    \/ \E w \in Writers : Start(w, "mkdir") \/ WriterStep(w)
    \/ \E s \in Summaries : Start(s, "acquire") \/ SummaryStep(s)
    \/ \E p \in Procs : Crash(p)

Spec == Init /\ [][Next]_vars

\* A running process takes its next step; a waiter gets a lock that stays
\* free.
FairSpec ==
    /\ Spec
    /\ \A w \in Writers : WF_vars(WriterStep(w))
    /\ \A s \in Summaries : WF_vars(SummaryStep(s))

-----------------------------------------------------------------------------
(* Properties.                                                             *)

Reporting(s) == At(s, "generate") \/ At(s, "send")

\* A summary that holds the guard neither reads the reports nor is sent while
\* recovery is required, that is while they are doubtful or being moved away:
\* fetch's SaveRecoveryRequired cannot come between summary's only check and
\* its Flush.
GuardedSummaryAvoidsRecovery ==
    \A s \in shared : Reporting(s) => ~Required

\* process_locking.md says so of every summary, also of one that found no
\* store and has the no-op guard.
NoSummaryDuringRecovery ==
    \A s \in Summaries : Reporting(s) => ~Required

\* recovery_required, once set, is cleared by recover only; no other save of
\* the sentinel, such as SaveUIDValidity's without the guard, writes an old
\* value over it.
RequiredNotLost ==
    [][Required /\ ~Required' => \E w \in Writers : At(w, "writeClear")]_vars

\* Whoever holds the guard exclusively holds the writer lock, so that no one
\* ever waits for the guard of a process that waits for the writer lock.
GuardUnderWriterLock == exclusive # NoProc => writerLock = exclusive

\* Every command ends: a writer gets the guard once the summaries are done,
\* a summary once the writer has saved the sentinel.
EveryCommandEnds ==
    \A p \in Procs : ~At(p, "idle") ~> At(p, "idle")

=============================================================================
