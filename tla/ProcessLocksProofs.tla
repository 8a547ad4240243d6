------------------------- MODULE ProcessLocksProofs -------------------------
(***************************************************************************)
(* Proofs about ProcessLocks, for any number of writers and summaries and  *)
(* of commands they run.                                                   *)
(*                                                                         *)
(* The inductive invariant ties every lock to the steps of its holder: a   *)
(* process holds the writer lock exactly in its locked steps, the guard    *)
(* exclusively exactly in its guarded steps, and a summary has a guard,    *)
(* shared or no-op, exactly from acquire to close.  Since one process at a *)
(* time is in a locked step, the copy a writer is about to write back is   *)
(* the sentinel as it is.                                                  *)
(***************************************************************************)
EXTENDS ProcessLocks, TLAPS

\* Steps that write the sentinel back.
WriteBack == {"writeAdopt", "writeUid", "writeDetect", "writeClear"}

StepsInv ==
    /\ \A w \in Writers : pc[w] \in {"idle"} \cup WriterSteps
    /\ \A s \in Summaries : pc[s] \in {"idle"} \cup SummarySteps

LocksInv ==
    /\ \A w \in Writers : writerLock = w <=> pc[w] \in LockedSteps
    /\ \A w \in Writers : exclusive = w <=> pc[w] \in GuardedSteps
    /\ \A s \in Summaries :
           s \in shared \cup noop <=> pc[s] \in SummarySteps \ {"acquire"}

CopyInv == \A w \in Writers : pc[w] \in WriteBack => copy[w] = sentinel

GuardInv == exclusive # NoProc => shared = {}

Inv == TypeOK /\ StepsInv /\ LocksInv /\ CopyInv /\ GuardInv

\* The locks and the copies are consistent at the start.
LEMMA InitInv == Init => Inv
  <1> SUFFICES ASSUME Init PROVE Inv
    OBVIOUS
  <1> USE ProcessAssumption DEF ProcessAssumption
  <1>1. TypeOK
    <2>1. rootDir \in BOOLEAN
      BY DEF Init
    <2>2. {FALSE, rootDir} \subseteq BOOLEAN
      BY <2>1, Zenon
    <2>3. sentinel \in Sentinel
      BY <2>2 DEF Init, Sentinel
    <2>7. reports \in BOOLEAN
      BY <2>2 DEF Init
    <2>4. copy \in [Writers -> Sentinel]
      BY <2>3 DEF Init
    <2>5. pc \in [Procs -> {"idle"} \cup WriterSteps \cup SummarySteps]
      BY DEF Init
    <2>6. runs \in [Procs -> 0..MaxRuns]
      BY DEF Init
    <2> QED
      BY <2>1, <2>3, <2>4, <2>5, <2>6, <2>7 DEF Init, TypeOK
  <1>2. StepsInv
    BY DEF Init, StepsInv, Procs
  <1>3. LocksInv
    BY DEF Init, LocksInv, Procs, LockedSteps, GuardedSteps, FetchSteps,
           SummarySteps
  <1>4. CopyInv /\ GuardInv
    BY DEF Init, CopyInv, GuardInv, WriteBack, Procs
  <1> QED
    BY <1>1, <1>2, <1>3, <1>4 DEF Inv

\* A step that moves one process without crossing the border of a lock, and
\* leaves the sentinel alone, preserves the invariant.
LEMMA PlainStep ==
  ASSUME Inv, NEW p \in Procs, NEW step,
         pc' = [pc EXCEPT ![p] = step],
         UNCHANGED <<sentinel, locks, copy>>,
         rootDir' \in BOOLEAN, reports' \in BOOLEAN,
         runs' \in [Procs -> 0..MaxRuns],
         p \in Writers =>
             /\ step \in {"idle"} \cup WriterSteps
             /\ step \notin WriteBack
             /\ step \in LockedSteps <=> pc[p] \in LockedSteps
             /\ step \in GuardedSteps <=> pc[p] \in GuardedSteps,
         p \in Summaries =>
             /\ step \in {"idle"} \cup SummarySteps
             /\ step \in SummarySteps \ {"acquire"}
                    <=> pc[p] \in SummarySteps \ {"acquire"}
  PROVE  Inv'
  <1> USE ProcessAssumption DEF ProcessAssumption, Inv, Procs, locks
  <1>1. TypeOK'
    BY DEF TypeOK
  <1>2. StepsInv'
    BY DEF StepsInv, TypeOK
  <1>3. LocksInv'
    BY DEF LocksInv, TypeOK
  <1>4. CopyInv' /\ GuardInv'
    BY DEF CopyInv, GuardInv, TypeOK
  <1> QED
    BY <1>1, <1>2, <1>3, <1>4

\* Taking the writer lock, or giving up, preserves the invariant.
LEMMA WriterLockStep ==
  ASSUME Inv, NEW w \in Writers, AcquireWriterLock(w) \/ CloseWriter(w)
  PROVE  Inv'
  <1> USE ProcessAssumption
      DEF ProcessAssumption, Inv, Procs, locks, At, Goto, AcquireWriterLock,
          CloseWriter, WriteBack, WriterSteps, LockedSteps, GuardedSteps,
          FetchSteps
  <1>1. TypeOK'
    BY DEF TypeOK
  <1>2. StepsInv'
    BY DEF StepsInv, TypeOK
  <1>3. LocksInv'
    BY DEF LocksInv, TypeOK
  <1>4. CopyInv' /\ GuardInv'
    BY DEF CopyInv, GuardInv, TypeOK
  <1> QED
    BY <1>1, <1>2, <1>3, <1>4

\* Taking and releasing the guard exclusively preserves the invariant.
LEMMA ExclusiveStep ==
  ASSUME Inv, NEW w \in Writers,
         \/ GuardExclusive(w, "guardDetect", "readDetect")
         \/ GuardExclusive(w, "guardClear", "readClear")
         \/ ReleaseGuard(w)
  PROVE  Inv'
  <1> USE ProcessAssumption
      DEF ProcessAssumption, Inv, Procs, locks, At, Goto, GuardExclusive,
          ReleaseGuard, WriteBack, WriterSteps, LockedSteps, GuardedSteps,
          FetchSteps
  <1>1. TypeOK'
    BY DEF TypeOK
  <1>2. StepsInv'
    BY DEF StepsInv, TypeOK
  <1>3. LocksInv'
    BY DEF LocksInv, TypeOK
  <1>4. CopyInv' /\ GuardInv'
    BY DEF CopyInv, GuardInv, TypeOK
  <1> QED
    BY <1>1, <1>2, <1>3, <1>4

\* Reading the sentinel: the copy is the sentinel.
LEMMA LoadStep ==
  ASSUME Inv, NEW w \in Writers, NEW from, NEW to, Load(w, from, to),
         to \in WriteBack, from \in LockedSteps,
         from \in GuardedSteps <=> to \in GuardedSteps
  PROVE  Inv'
  <1> USE ProcessAssumption
      DEF ProcessAssumption, Inv, Procs, locks, At, Goto, Load
  <1>1. to \in WriterSteps /\ to \in LockedSteps
    BY DEF WriteBack, WriterSteps, LockedSteps, FetchSteps, GuardedSteps
  <1>2. TypeOK'
    BY <1>1 DEF TypeOK
  <1>3. StepsInv'
    BY <1>1 DEF StepsInv, TypeOK
  <1>4. LocksInv'
    BY <1>1 DEF LocksInv, TypeOK
  <1>5. CopyInv' /\ GuardInv'
    BY DEF CopyInv, GuardInv, TypeOK
  <1> QED
    BY <1>2, <1>3, <1>4, <1>5

\* Writing the sentinel back: no other writer is about to write one back,
\* for no other writer is in a locked step.
LEMMA SaveStep ==
  ASSUME Inv, NEW w \in Writers, NEW from, NEW value, NEW to,
         Save(w, from, value, to), value \in Sentinel,
         from \in WriteBack, to \in LockedSteps, to \notin WriteBack,
         from \in GuardedSteps <=> to \in GuardedSteps
  PROVE  Inv'
  <1> USE ProcessAssumption
      DEF ProcessAssumption, Inv, Procs, locks, At, Goto, Save
  <1>1. WriteBack \subseteq LockedSteps
    BY DEF WriteBack, LockedSteps, FetchSteps, GuardedSteps
  <1>2. TypeOK'
    BY DEF TypeOK, WriterSteps
  <1>3. StepsInv'
    BY DEF StepsInv, TypeOK, WriterSteps
  <1>4. LocksInv'
    BY <1>1 DEF LocksInv, TypeOK
  <1>5. \A v \in Writers \ {w} : pc[v] \notin WriteBack
    BY <1>1 DEF LocksInv
  <1>6. CopyInv' /\ GuardInv'
    BY <1>5 DEF CopyInv, GuardInv, TypeOK
  <1> QED
    BY <1>2, <1>3, <1>4, <1>6

\* The guard of a summary.
LEMMA SummaryGuardStep ==
  ASSUME Inv, NEW s \in Summaries, AcquireSummaryGuard(s) \/ CloseSummary(s)
  PROVE  Inv'
  <1> USE ProcessAssumption
      DEF ProcessAssumption, Inv, Procs, locks, At, Goto, AcquireSummaryGuard,
          CloseSummary, SummarySteps
  <1>1. TypeOK'
    BY DEF TypeOK
  <1>2. StepsInv'
    BY DEF StepsInv, TypeOK
  <1>3. LocksInv'
    BY DEF LocksInv, TypeOK
  <1>4. CopyInv' /\ GuardInv'
    BY DEF CopyInv, GuardInv, TypeOK
  <1> QED
    BY <1>1, <1>2, <1>3, <1>4

\* A crash drops the locks of the process and nothing else.
LEMMA CrashStep ==
  ASSUME Inv, NEW p \in Procs, Crash(p)
  PROVE  Inv'
  <1> USE ProcessAssumption
      DEF ProcessAssumption, Inv, Procs, locks, At, Goto, Crash
  <1>1. /\ "idle" \notin LockedSteps
        /\ "idle" \notin GuardedSteps
        /\ "idle" \notin SummarySteps
        /\ "idle" \notin WriteBack
    BY DEF LockedSteps, GuardedSteps, FetchSteps, SummarySteps, WriteBack
  <1>2. TypeOK'
    BY DEF TypeOK
  <1>3. StepsInv'
    BY DEF StepsInv, TypeOK
  <1>4. LocksInv'
    BY <1>1 DEF LocksInv, TypeOK
  <1>5. CopyInv' /\ GuardInv'
    BY <1>1 DEF CopyInv, GuardInv, TypeOK
  <1> QED
    BY <1>2, <1>3, <1>4, <1>5

-----------------------------------------------------------------------------
(* The invariant is inductive.                                             *)

\* What a writer saves is the sentinel as it is, but for the fields of the
\* operation.
LEMMA SavedValues ==
  ASSUME Inv, NEW w \in Writers, pc[w] \in WriteBack
  PROVE  /\ [copy[w] EXCEPT !.uidKnown = TRUE] \in Sentinel
         /\ [copy[w] EXCEPT !.uidKnown = TRUE].required = Required
         /\ [copy[w] EXCEPT !.required = TRUE] \in Sentinel
         /\ [copy[w] EXCEPT !.uidKnown = TRUE, !.required = FALSE] \in Sentinel
  BY DEF Inv, CopyInv, TypeOK, Sentinel, Required

\* Every step of a writer preserves the invariant.
LEMMA WriterInv ==
  ASSUME Inv, NEW w \in Writers, Start(w, "mkdir") \/ WriterStep(w)
  PROVE  Inv'
  <1> USE ProcessAssumption DEF ProcessAssumption
  <1>1. w \in Procs /\ w \notin Summaries
    BY DEF Procs
  <1>2. CASE Start(w, "mkdir")
    <2>1. runs' \in [Procs -> 0..MaxRuns] /\ rootDir' \in BOOLEAN
            /\ reports' \in BOOLEAN
      BY <1>1, <1>2 DEF Start, Inv, TypeOK
    <2> QED
      BY <1>1, <1>2, <2>1, PlainStep
         DEF Start, At, Goto, WriteBack, WriterSteps, LockedSteps,
             GuardedSteps, FetchSteps
  <1>3. CASE EnsureRootDir(w) \/ Fetch(w) \/ SaveReports(w) \/ Recover(w)
               \/ StageReports(w)
    <2>1. rootDir \in BOOLEAN /\ reports \in BOOLEAN
            /\ runs \in [Procs -> 0..MaxRuns]
      BY DEF Inv, TypeOK
    <2>2. rootDir' \in BOOLEAN
      BY <1>3, <2>1 DEF EnsureRootDir, Fetch, SaveReports, Recover, StageReports
    <2>3. reports' \in BOOLEAN
      BY <1>3, <2>1, Zenon
         DEF EnsureRootDir, Fetch, SaveReports, Recover, StageReports
    <2>4. /\ runs' \in [Procs -> 0..MaxRuns]
          /\ UNCHANGED <<sentinel, locks, copy>>
      BY <1>3, <2>1 DEF EnsureRootDir, Fetch, SaveReports, Recover, StageReports
    <2>5. PICK step \in WriterSteps :
            /\ pc' = [pc EXCEPT ![w] = step]
            /\ step \notin WriteBack
            /\ step \in LockedSteps <=> pc[w] \in LockedSteps
            /\ step \in GuardedSteps <=> pc[w] \in GuardedSteps
      BY <1>3 DEF EnsureRootDir, Fetch, SaveReports, Recover, StageReports,
                  At, Goto, WriteBack, WriterSteps, LockedSteps, GuardedSteps,
                  FetchSteps
    <2> QED
      BY <1>1, <2>2, <2>3, <2>4, <2>5, PlainStep
  <1>4. CASE AcquireWriterLock(w) \/ CloseWriter(w)
    BY <1>4, WriterLockStep
  <1>5. CASE SaveUIDValidity(w, "adopt", "writeAdopt", "saveReports")
               \/ SaveUIDValidity(w, "saveUid", "writeUid", "close")
    <2>1. CASE Load(w, "adopt", "writeAdopt") \/ Load(w, "saveUid", "writeUid")
      BY <2>1, LoadStep
         DEF WriteBack, LockedSteps, GuardedSteps, FetchSteps
    <2> DEFINE value == [copy[w] EXCEPT !.uidKnown = TRUE]
    <2>2. CASE Save(w, "writeAdopt", value, "saveReports")
                 \/ Save(w, "writeUid", value, "close")
      <3>1. value \in Sentinel
        BY <2>2, SavedValues DEF Save, At, WriteBack
      <3> HIDE DEF value
      <3> QED
        BY <2>2, <3>1, SaveStep
           DEF WriteBack, LockedSteps, GuardedSteps, FetchSteps
    <2> QED
      BY <1>5, <2>1, <2>2 DEF SaveUIDValidity
  <1>6. CASE SaveRecoveryRequired(w)
    <2>1. CASE GuardExclusive(w, "guardDetect", "readDetect")
      BY <2>1, ExclusiveStep
    <2>2. CASE Load(w, "readDetect", "writeDetect")
      BY <2>2, LoadStep
         DEF WriteBack, LockedSteps, GuardedSteps, FetchSteps
    <2> DEFINE value == [copy[w] EXCEPT !.required = TRUE]
    <2>3. CASE Save(w, "writeDetect", value, "unguard")
      <3>1. value \in Sentinel
        BY <2>3, SavedValues DEF Save, At, WriteBack
      <3> HIDE DEF value
      <3> QED
        BY <2>3, <3>1, SaveStep
           DEF WriteBack, LockedSteps, GuardedSteps, FetchSteps
    <2> QED
      BY <1>6, <2>1, <2>2, <2>3 DEF SaveRecoveryRequired
  <1>7. CASE CommitRecovery(w)
    <2>1. CASE GuardExclusive(w, "guardClear", "readClear")
      BY <2>1, ExclusiveStep
    <2>2. CASE Load(w, "readClear", "writeClear")
      BY <2>2, LoadStep
         DEF WriteBack, LockedSteps, GuardedSteps, FetchSteps
    <2> DEFINE value ==
          [copy[w] EXCEPT !.uidKnown = TRUE, !.required = FALSE]
    <2>3. CASE Save(w, "writeClear", value, "unguard")
      <3>1. value \in Sentinel
        BY <2>3, SavedValues DEF Save, At, WriteBack
      <3> HIDE DEF value
      <3> QED
        BY <2>3, <3>1, SaveStep
           DEF WriteBack, LockedSteps, GuardedSteps, FetchSteps
    <2> QED
      BY <1>7, <2>1, <2>2, <2>3 DEF CommitRecovery
  <1>8. CASE ReleaseGuard(w)
    BY <1>8, ExclusiveStep
  <1> QED
    BY <1>2, <1>3, <1>4, <1>5, <1>6, <1>7, <1>8 DEF WriterStep

\* Every step of a summary preserves the invariant.
LEMMA SummaryInv ==
  ASSUME Inv, NEW s \in Summaries, Start(s, "acquire") \/ SummaryStep(s)
  PROVE  Inv'
  <1> USE ProcessAssumption DEF ProcessAssumption
  <1>1. s \in Procs /\ s \notin Writers
    BY DEF Procs
  <1>2. rootDir \in BOOLEAN /\ reports \in BOOLEAN
          /\ runs \in [Procs -> 0..MaxRuns]
    BY DEF Inv, TypeOK
  <1>3. CASE Start(s, "acquire")
    <2>1. runs' \in [Procs -> 0..MaxRuns] /\ rootDir' \in BOOLEAN
            /\ reports' \in BOOLEAN
      BY <1>1, <1>2, <1>3 DEF Start
    <2> QED
      BY <1>1, <1>3, <2>1, PlainStep DEF Start, At, Goto, SummarySteps
  <1>4. CASE CheckRecoveryRequired(s) \/ GenerateSummary(s) \/ SendSummary(s)
    <2>1. /\ rootDir' \in BOOLEAN /\ reports' \in BOOLEAN
          /\ runs' \in [Procs -> 0..MaxRuns]
          /\ UNCHANGED <<sentinel, locks, copy>>
      BY <1>2, <1>4 DEF CheckRecoveryRequired, GenerateSummary, SendSummary
    <2>2. PICK step \in SummarySteps :
            /\ pc' = [pc EXCEPT ![s] = step]
            /\ step # "acquire" /\ pc[s] \in SummarySteps \ {"acquire"}
      BY <1>4 DEF CheckRecoveryRequired, GenerateSummary, SendSummary, At,
                  Goto, SummarySteps
    <2> QED
      BY <1>1, <2>1, <2>2, PlainStep
  <1>5. CASE AcquireSummaryGuard(s) \/ CloseSummary(s)
    BY <1>5, SummaryGuardStep
  <1> QED
    BY <1>3, <1>4, <1>5 DEF SummaryStep

\* The invariant is inductive.
LEMMA StepInv == Inv /\ [Next]_vars => Inv'
  <1> SUFFICES ASSUME Inv, [Next]_vars PROVE Inv'
    OBVIOUS
  <1>1. CASE UNCHANGED vars
    BY <1>1 DEF vars, Inv, TypeOK, StepsInv, LocksInv, CopyInv, GuardInv
  <1>2. CASE Next
    BY <1>2, WriterInv, SummaryInv, CrashStep DEF Next
  <1> QED
    BY <1>1, <1>2

\* The locks are held exactly in the steps that need them, and what a writer
\* writes back is up to date, whatever crashes.
THEOREM LocksHold == Spec => []Inv
  BY InitInv, StepInv, PTL DEF Spec

\* The variables have their types: in particular no summary holds the guard
\* exclusively or the writer lock.
THEOREM TypeCorrect == Spec => []TypeOK
  <1>1. Inv => TypeOK
    BY DEF Inv
  <1> QED
    BY <1>1, LocksHold, PTL

\* The exclusive guard is only taken under the writer lock: the one order in
\* which the two locks are taken.
THEOREM GuardIsUnderWriterLock == Spec => []GuardUnderWriterLock
  <1>1. Inv => GuardUnderWriterLock
    BY DEF Inv, TypeOK, LocksInv, LockedSteps, GuardUnderWriterLock
  <1> QED
    BY <1>1, LocksHold, PTL

\* Only recover's commit clears recovery_required; the save of UIDVALIDITY,
\* which takes no guard, writes back the value that is there.
THEOREM RequiredIsNotLost == Spec => RequiredNotLost
  <1>1. Inv /\ [Next]_vars =>
          [Required /\ ~Required' =>
               \E w \in Writers : At(w, "writeClear")]_vars
    <2> SUFFICES ASSUME Inv, [Next]_vars, Required, ~Required'
                 PROVE  \E w \in Writers : At(w, "writeClear")
      OBVIOUS
    <2>1. sentinel' # sentinel
      BY DEF Required
    <2>2. PICK w \in Writers : WriterStep(w)
      BY <2>1 DEF Next, vars, Start, SummaryStep, AcquireSummaryGuard,
                  CheckRecoveryRequired, GenerateSummary, SendSummary,
                  CloseSummary, Crash
    <2>3. CASE SaveUIDValidity(w, "adopt", "writeAdopt", "saveReports")
                 \/ SaveUIDValidity(w, "saveUid", "writeUid", "close")
      <3>1. /\ pc[w] \in WriteBack
            /\ sentinel' = [copy[w] EXCEPT !.uidKnown = TRUE]
        BY <2>1, <2>3 DEF SaveUIDValidity, Load, Save, At, WriteBack
      <3>2. Required' = Required
        BY <3>1, SavedValues DEF Required
      <3> QED
        BY <3>2
    <2>4. CASE SaveRecoveryRequired(w)
      <3>1. sentinel' = [copy[w] EXCEPT !.required = TRUE]
        BY <2>1, <2>4 DEF SaveRecoveryRequired, GuardExclusive, Load, Save
      <3>2. copy[w] \in Sentinel
        BY DEF Inv, TypeOK
      <3> QED
        BY <3>1, <3>2 DEF Required, Sentinel
    <2>5. CASE CommitRecovery(w)
      BY <2>1, <2>5 DEF CommitRecovery, GuardExclusive, Load, Save
    <2> QED
      BY <2>1, <2>2, <2>3, <2>4, <2>5
         DEF WriterStep, EnsureRootDir, AcquireWriterLock, Fetch, SaveReports,
             Recover, StageReports, ReleaseGuard, CloseWriter
  <1> QED
    BY <1>1, LocksHold, PTL DEF Spec, RequiredNotLost

-----------------------------------------------------------------------------
(* Summaries that hold the guard.                                          *)

\* No step of a writer disturbs a summary that has passed the check under the
\* guard: to set recovery_required it must hold the guard exclusively.
LEMMA WriterKeepsSummary ==
  ASSUME Inv, GuardedSummaryAvoidsRecovery, NEW w \in Writers,
         Start(w, "mkdir") \/ WriterStep(w)
  PROVE  GuardedSummaryAvoidsRecovery'
  <1> USE ProcessAssumption DEF ProcessAssumption, Reporting, At
  <1>1. shared' = shared
    BY DEF Start, WriterStep, EnsureRootDir,
           AcquireWriterLock, Fetch, SaveReports, SaveUIDValidity, Recover,
           StageReports, SaveRecoveryRequired, CommitRecovery,
           GuardExclusive, Load, Save, ReleaseGuard, CloseWriter, locks
  <1>2. \A s \in Summaries : pc'[s] = pc[s]
    BY DEF Start, WriterStep, EnsureRootDir,
           AcquireWriterLock, Fetch, SaveReports, SaveUIDValidity, Recover,
           StageReports, SaveRecoveryRequired, CommitRecovery,
           GuardExclusive, Load, Save, ReleaseGuard, CloseWriter, Goto, Inv,
           TypeOK, Procs
  <1>3. shared \subseteq Summaries
    BY DEF Inv, TypeOK
  <1>4. CASE sentinel' = sentinel
    BY <1>1, <1>2, <1>3, <1>4 DEF GuardedSummaryAvoidsRecovery, Required
  <1>5. CASE Save(w, "writeAdopt", [copy[w] EXCEPT !.uidKnown = TRUE],
                  "saveReports")
               \/ Save(w, "writeUid", [copy[w] EXCEPT !.uidKnown = TRUE],
                       "close")
    <2>1. Required' = Required
      BY <1>5, SavedValues DEF Save, WriteBack, Required
    <2> QED
      BY <1>1, <1>2, <1>3, <2>1 DEF GuardedSummaryAvoidsRecovery
  <1>6. CASE At(w, "writeDetect") \/ At(w, "writeClear")
    <2>1. shared = {}
      BY <1>6 DEF Inv, LocksInv, GuardInv, GuardedSteps
    <2> QED
      BY <1>1, <2>1 DEF GuardedSummaryAvoidsRecovery
  <1> QED
    BY <1>4, <1>5, <1>6
       DEF Start, WriterStep, EnsureRootDir, AcquireWriterLock, Fetch,
           SaveReports, SaveUIDValidity, Recover, StageReports,
           SaveRecoveryRequired, CommitRecovery, GuardExclusive, Load,
           Save, ReleaseGuard, CloseWriter

\* A summary with the guard passes the check only if no recovery is required.
LEMMA SummaryKeepsSummary ==
  ASSUME Inv, GuardedSummaryAvoidsRecovery, NEW s \in Summaries,
         Start(s, "acquire") \/ SummaryStep(s)
  PROVE  GuardedSummaryAvoidsRecovery'
  <1> USE DEF Start, SummaryStep, AcquireSummaryGuard, CheckRecoveryRequired,
              GenerateSummary, SendSummary, CloseSummary, locks, Reporting, At
  <1>1. shared' \subseteq shared \cup {s}
    OBVIOUS
  <1>2. Required' = Required
    BY DEF Required
  <1>3. /\ \A t \in shared \ {s} : pc'[t] = pc[t]
        /\ shared \subseteq Summaries
    BY DEF Goto, Inv, TypeOK, Procs
  <1>4. s \in shared' /\ pc'[s] \in {"generate", "send"} => ~Required
    BY DEF Goto, Inv, TypeOK, Procs, GuardedSummaryAvoidsRecovery
  <1> QED
    BY <1>1, <1>2, <1>3, <1>4 DEF GuardedSummaryAvoidsRecovery

\* No summary that holds the guard reads or sends anything while recovery is
\* required, for any number of processes.
THEOREM GuardedSummariesAvoidRecovery ==
  Spec => []GuardedSummaryAvoidsRecovery
  <1>1. Init => GuardedSummaryAvoidsRecovery
    BY DEF Init, GuardedSummaryAvoidsRecovery
  <1>2. Inv /\ GuardedSummaryAvoidsRecovery /\ [Next]_vars
          => GuardedSummaryAvoidsRecovery'
    <2> SUFFICES ASSUME Inv, GuardedSummaryAvoidsRecovery, [Next]_vars
                 PROVE  GuardedSummaryAvoidsRecovery'
      OBVIOUS
    <2>1. CASE UNCHANGED vars
      BY <2>1 DEF vars, GuardedSummaryAvoidsRecovery, Required, Reporting, At
    <2>2. ASSUME NEW p \in Procs, Crash(p) PROVE GuardedSummaryAvoidsRecovery'
      BY <2>2 DEF Crash, Goto, GuardedSummaryAvoidsRecovery, Required,
                  Reporting, At, Inv, TypeOK, Procs
    <2> QED
      BY <2>1, <2>2, WriterKeepsSummary, SummaryKeepsSummary DEF Next
  <1> QED
    BY <1>1, <1>2, LocksHold, PTL DEF Spec

=============================================================================
