# A verification project for tlsrpt-digest

`tlsrpt-digest` is a command-line tool, run from cron, that fetches SMTP TLS
reports (TLSRPT) from an IMAP mailbox, keeps them in a directory, alerts Slack
about failures and sends periodic summaries. The program is small; what is hard
about it is that a run may die anywhere, that several processes share one store
without a server, and that the mailbox, Slack and the store can each change or
fail on their own. This directory holds TLA+ modules for those parts, the TLC
configurations that check them, and TLAPS proofs about each of them.

## 1. Inventory

### The parts

| Part | Source | State | Operations |
|---|---|---|---|
| Store, sentinel | `internal/store/{store,sentinel,atomicfile}.go` | `tlsrpt.json`, `emails/<uidvalidity>/<YYYYMM>/<uid>.eml`, the email index, the sentinel `.tlsrpt-digest-meta.json` (`uid_validity`, `recovery_required`) | `Open` (read-write, recover, discard-old), creation of missing files, clean-up of an earlier reset |
| UIDVALIDITY recovery | `internal/store/recovery.go`, `cmd/.../recover.go` | reset manifest (phase 1 or 4), staging directory | `SaveRecoveryRequired`, `ApplyRecovery` (keep-old), `ResetForRecovery` (discard-old) |
| Process locking | `internal/storelock`, `cmd/.../lock.go`, `boot.go`; guard in `recovery.go` | writer lock (`LOCK_EX`, non-blocking), consistency guard (`LOCK_EX`/`LOCK_SH`, blocking), no-op guard | acquire at bootstrap, `withGuardExclusive`, release at exit or death |
| fetch | `cmd/.../fetch.go` | none beyond the run | 14 steps from `FetchMeta` to the final `SaveUIDValidity` |
| Email and report store | `internal/store/{emails,reports}.go` | `.eml` files, index, reports | `SaveEmail`, `SaveEmailMetas`, `SaveReports`, `LoadEmails`, deletion by age |
| IMAP client | `internal/imap/client.go` | connection | `FetchMeta`, `Download`, `MarkSeen`, `DeleteOlderThan`, each with a SELECT of its own |
| Slack delivery | `internal/notify/{handler,retry}.go` | buffer of messages | `Handle`, `Flush`, retries |
| summary | `cmd/.../summary.go`, `internal/notify/aggregate.go` | none | check, load, aggregate, send, all under the shared guard |
| reprocess, gc | `cmd/.../{reprocess,gc}.go` | none | rebuild reports from `.eml` files; delete by age |
| Parsing | `internal/{mailparse,tlsrpt}` | none | attachments of a message within limits, reports in them |
| Formatting | `internal/notify/{format,helpers,message,aggregate}.go` | none | alerts, warnings, errors and summaries as Slack messages within Slack's limits |
| Command line, configuration, bootstrap | `cmd/.../{main,boot,duration}.go`, `internal/config` | none | flags, exit codes, validation, webhooks and handlers, errors on the way to a command |

### How they interact

Every command goes through `Bootstrap`: writers (fetch, gc, reprocess, recover)
make the store directory, take the writer lock or give up, and open the store;
summary takes the shared guard instead. fetch reads the mailbox, compares its
UIDVALIDITY with the sentinel's, and either works (files, index, reports, Slack,
`\Seen`, in this order) or records `recovery_required` and stops. From then on
every fetch, reprocess and summary refuses to work until the operator runs
`recover --mode keep-old` or `--mode discard-old --yes`. Processes share only
files and `flock`s; there are no messages or callbacks between them.

### What is hard

- *Crashes.* Every command can be killed between two file operations, and the
  next command, possibly another one, starts from what is there. The reset
  moves two directory entries, replaces the sentinel and removes a manifest; it
  commits by replacing the sentinel.
- *Best-effort removals.* The clean-up of a committed reset only logs its
  failures, so remains can survive into later, successful runs.
- *Interleaving.* The sentinel is saved by read-modify-write, sometimes without
  the guard; summary checks `recovery_required` once and sends later.
- *Delivery.* Slack may have got what was reported as failed; `\Seen`, the only
  mark that a message is done with, can be set by other mail clients as well.
- *Limits.* A message may exceed the parser's budget in the middle of a part, a
  batch of alerts the number of attachments, a report the number of details; what
  is cut off must still be counted, and what is refused be warned of.
- *Windows.* Four periods in days (fetch, summary, reports, originals) and one on
  the server must fit together at their boundaries.
- *Stale identities.* UIDs mean something only together with UIDVALIDITY, and
  each IMAP operation selects the mailbox anew.

### What correctness means

- Store and recovery: the reset takes effect at once or not at all; nothing is
  lost before the commit point, and nothing that was saved after it; no command
  works on a half-reset store; an interrupted reset can always be finished.
- Locking: no summary reads or reports doubtful data; `recovery_required` is
  never overwritten; nobody waits for ever.
- fetch: every message that it lists is notified of at least once, repeated only
  after a failure or a lost answer of Slack; `\Seen` is set only on what is done; a
  saved report has its original.
- Retention: what is old goes in the end, from the disk and the server; nothing
  goes early; no file is orphaned; a saved report can be rebuilt.
- Summary: every report without failures is counted by one summary, and is there
  when it is.
- Parsing and formatting: every failing policy, and every attachment that decodes
  and yields no report, is accounted for in Slack; every report that can be read is
  in the store.
- Command line: a dry run changes nothing, on any path.
- Slack delivery: a record is delivered or its failure reported; only a lost
  answer duplicates one; waiting is bounded.

The hazards are listed one by one, with their lines, in `PROJECT.json`.

## 2. Modules

| Module | Models | Extends / instantiates |
|---|---|---|
| `Recovery` | abstract contract of the store: contents, UIDVALIDITY, an atomic decision of the operator | |
| `StoreReset` | the files of the store under fetch, reprocess and recover, one file operation per step, with aborts (gc, which deletes by age, is in `EmailStore`) | instantiates `Recovery` |
| `StoreResetProofs` | theorems about `StoreReset` | extends it |
| `ProcessLocks` | writers and summaries side by side, with locks and crashes | |
| `ProcessLocksProofs` | theorems about `ProcessLocks` | extends it |
| `Fetch` | one fetch after another against a mailbox, Slack and the store | uses the recovery as `Recovery` states it |
| `FetchProofs` | theorems about `Fetch` | extends it |
| `EmailStore` | retention: fetch, reprocess, gc and summary against files, index, reports and server, day by day | |
| `EmailStoreProofs` | theorems about `EmailStore` | extends it |
| `Notifier` | abstract contract of `Handle` and `Flush` | |
| `SlackDelivery` | the Slack handler: buffer, batches, retries | instantiates `Notifier` |
| `SlackDeliveryProofs` | theorems about `SlackDelivery` | extends it |
| `Lists` | operators on sequences that the next three share: sums, selections, sorting | |
| `MailParse` | operators: from a message to the reports in it | extends `Lists` |
| `SlackFormat` | operators: from reports to alerts, summaries and Slack messages | extends `Lists` |
| `Invocation` | one invocation after another: command line, bootstrap, handlers, and the data of fetch, reprocess and summary from the mailbox to Slack | extends `MailParse`, `SlackFormat` |
| `ListProofs` | what the operators of `Lists` compute, for sequences of any length | extends `Lists` |
| `ContentProofs` | theorems about the operators of `MailParse` and `SlackFormat` | extends both and `ListProofs` |
| `InvocationProofs` | theorems about `Invocation` | extends `Invocation`, `ContentProofs` |
| `MCStoreReset`, `MCFetch`, `MCInvocation` | constants and symmetry for TLC | extend the above |

The components meet at four interfaces. `StoreReset`, `Fetch`, `EmailStore` and
`Invocation` run one writer at a time because `ProcessLocks` shows that the writer
lock allows one.
`Fetch` treats a recovery as a single step because `StoreReset` implements
`Recovery`. `Fetch` and `Invocation` treat `Flush` as one step that delivers all,
or any part and returns an error, because `SlackDelivery` implements `Notifier`.
`Notifier` speaks of the set of records that were delivered, not of how often: a
post whose answer is lost is repeated by the same Flush, which `SlackDelivery` counts
and `Fetch` has as a step of its own (`LostAnswer`). `Invocation` looks at what
messages say and keeps one copy of each. What `Fetch` and `EmailStore` call a message that parses or reports failures,
`Invocation` computes from its parts.

### StoreReset

`sentinel`, `manifest`, `root` and `staging` are the files on disk; `cmd`, `pc`
and `target` are the command that runs, its next operation and the UIDVALIDITY
it works for. `root` and `staging` are each a data file and an emails directory;
reports and messages are represented by the UIDVALIDITY they are filed under,
since that is what recovery tells apart. (A UIDVALIDITY is only a label here. That
a UID can name another message after the mailbox was recreated is the subject of
`Fetch`.)

`Start(c)` is bootstrap up to `Open`. `Cleanup`, `CleanupStaging` and
`CleanupManifest` are `cleanupCompletedReset`; `OpenEmails`, `OpenData` and
`OpenSentinel` create what is missing. `Fetch` to `SaveUIDValidity` are what
fetch does to the store. `RecoverStatus`, `RecoverKeepOld`, `ApplyRecovery` and
`RecoverDiscardOld` are `recover`, and `ResetForRecovery` with the steps after
it is the reset: drop the remains of an older reset, wipe staging, write the
manifest, rename the two entries, replace the sentinel (the commit point), mark
the manifest, remove both. `Abort` ends the command between any two of them; it
stands for a kill and for every error return, including the identity and
permission checks, which change nothing. `atomicWriteFile` writes a temporary
file, syncs it, renames it and syncs the directory, so a save is one step.
`CleanupMayFail` says whether removals that the code only logs can fail; a
failed `os.RemoveAll` leaves any part (`Remnants`). A rename of the emails directory
fails if the one in staging has remains in it, files or empty subdirectories.

### ProcessLocks

`pc[p]` is the next step of each process, `writerLock`, `exclusive` and `shared`
the `flock`s, `noop` the summaries that found no store directory, and `copy[w]`
what a writer read of the sentinel and will write back. `Load` and `Save` are the
two halves of every save. A fetch goes one of the ways the code has (fail closed,
adopt the first UIDVALIDITY, work, detect a change); which one follows from the
sentinel except that a known UIDVALIDITY may or may not match. `Crash` drops the
locks, as closing the files does. `CommitRecovery` is the guarded save of
`ApplyRecovery` and `commitReset`. Without `recovery_required`, discard-old may or
may not find a manifest to resume; the manifest itself is in `StoreReset`. The store's own `ClearRecoveryRequired` has no
caller and is left out.

### Fetch

Server: `epoch`, `mailbox`, `seen`. Slack: `delivered`. Store: `stored`,
`required`, `eml`, `index`, `reports`. The rest is local to the run. A message is
a pair of UIDVALIDITY and UID; a *key* is such a pair too, as the run computes it
from the UIDVALIDITY that `FetchMeta` returned. `eml[k]` is the message that is
really in the file for key `k`, so that a listing that has gone stale can be told.
`Fail` ends the run at any step, keeping whatever has reached the server, Slack or
the disk; in `Flush` any part of the buffer may have been delivered before.
`LostAnswer` is a post during `Flush` that Slack accepts without the run learning of
it; `postWithRetry` repeats it. `Unlisted` are the messages that `FetchMeta` skips and
only logs (`client.go:186-206`: no internal date or envelope, or an RFC822.SIZE above
`max_message_bytes`), and `Oversized` those whose body is above that limit, which
fail the whole `Download` of every run that has to read them (`client.go:268`). So
`EveryMessageDone` is about messages that are listed, as long as no oversized body is
listed with them.
`Arrive`, `Expunge`, `Toggle` (another client changes `\Seen`) and `Recreate`
belong to the environment; with `Interference`, `MarkSeen` may also find the
mailbox read-only, which the code only warns of. `touched` are the messages whose
`\Seen` is as another client left it, and `interfered` counts such events, so that
the properties can say what fetch answers for. `RecoverKeepOld` and
`RecoverDiscardOld` belong to the operator.

### EmailStore

`received`, `mailbox`, `seen` and `flagged` are the server's; `files`, `index` and
`reports` the store's; the rest belongs to the command that runs. Time is counted
in days because every cutoff is a day boundary (`Duration.Cutoff`), and a month is
a constant number of days. A file is a message and the month it is filed under,
as `buildEmailPath` does, and the index has a date for each message. fetch indexes
a message with its INTERNALDATE, reprocess with the date in the index or else the
first day of the month in the path, and neither changes a date that is there. gc
deletes reports by the end of their period, then files one by one, then saves the
index, then marks and expunges on the server. `Fail` ends a command between any
two steps, and a single removal can fail as well, which keeps the index entry and
makes gc stop before it turns to the server. `guessed` records for which messages
the date was taken from the path and is wrong.

A summary is due every `WindowDays` days. It takes its window when it starts and
reads the reports later, in one step, while writers work; `digest = "late"` is a
summary that started before midnight and reads after it. It is assumed to end
within that day. `Validate` is `config.validate` as far as the periods go.

Abstractions: one UIDVALIDITY; one report in each message, about the day before it
was received; the cutoffs of the configuration (no `--before`,
`--max-email-age`); a server with UIDPLUS and a writable mailbox; the directories
that gc removes when they are empty are not there. `ConfigAssumption` is what
`Validate` checks, and nothing else; two properties depend on more and say so.
`ReportsRebuildable` is for `max_email_age_days >= retention_days`, which the program
warns about when it is not met (`config/load_file.go:47`). The part of
`DeletesNothingNeeded` about reports is for `retention_days >= window_days` plus the
days since the running summary took its window. Equal periods, which the program
accepts without a warning, are thus enough except for a summary that starts before
midnight and reads after it: a gc in between deletes reports of the first day of its
window.

### SlackDelivery

`buf` is the handler's buffer; `snapshot`, `todo` and `msg` are the batch of the
running Flush, `attempt` and `waited` the loop variables of `postWithRetry`.
`Handle` can happen at any time, `TakeSnapshot` is the part of Flush under the
mutex, `Attempt` is `doAttempt` with one disjunct for each class of answer, and
`Backoff` the sleep before the next attempt. `AnswerLost` is a post that Slack
accepted and whose answer came too late or not at all; the code cannot tell it
from a failed one. A message is the set of records it is about, alerts of one
batch sharing a message as in `formatRecords`. Sleeps are counted in seconds and
do not fail, since no command cancels its context. `Contract` maps the buffer, the
batch, what Slack accepted and what was reported to `Notifier`.

### MailParse, SlackFormat and Invocation

A message is the sequence of its MIME parts, each with what matters of it: nesting
depth, decoded size, whether it decodes, and for an attachment its format, its size
when decompressed, the fields it lacks and the report in it. `ProcessPart` folds
`extractParts` and `processPart` over them with the running total that
`decodeContent` keeps; `ProcessMail` adds `parseTLSRPTAttachment` and the warnings.
`Acceptable`, `Claimed` and `Genuine` say the same of a whole message without any
running total; they are the reference for the properties. An attachment with broken
base64 or an unsupported encoding is dropped without a warning, by design
(`mailparse.go:138`, `187`; AC-07 and AC-13 of `docs/tasks/0011_mailparse`), so
`Claimed`, the attachments that must appear as a report or in a warning, has only
those that decode.

`SlackFormat` has `LogAlert` (sort, cap, totals), `FormatAlerts` (attachments,
overflow), `GenerateSummary` and `FormatSummary`. Fields are records with the
numbers that go into their text; texts, and that a long text is cut, are left out.
Session counts are integers without a limit: no sum overflows an `int64`.
`WithinLimits` has the fields of an attachment, and the attachments of every message.
`formatSummary` puts nine organizations into an attachment and does not cap the
attachments (`format.go:487-501`); for a summary the bound is therefore stated for as
many organizations as fit (`FewEnough`), which is 900.

`Invocation` runs command lines one after the other. `Invoke` is `runCLI` up to
`Bootstrap`; `Boot`, `BuildNotifier`, `AcquireWriterLock` and `OpenStore` are the
bootstrap in the code's order, each with its failure and what it notifies.
`FetchMeta` lists what is `listable` and has a size of at most `max_message_bytes`.
What a message decodes to is no larger than itself, so fetch never meets the
parser's limit of the same value; reprocess does, on files that were saved under a
larger limit (`SavedBefore`). The
handlers are `buffer`, a function whose domain follows from the webhooks that are
set (`BuildHandlers`); `Flush` formats and empties both and, unless it is a dry
run, posts all messages, or reports an error after any part of them, all of them
included: a message that Slack accepted may count as failed. Then each command does
its steps as in the code. Failures return the code's exit code and lose `buffer`.
gc and recover appear with their effect on the store only. A summary that Slack
does not take is lost although the command exits with 0, as in the code, which only
logs the failure.

Reports are replaced by `report-id` alone, so two organizations that use the same id
overwrite each other; that is a documented choice (AC-08), and `StoreHoldsLatest`
says what remains.

## 3. Runs

Names are those of `PROJECT.json`. Distinct states and times are for two workers.

| Run | cfg | Checks | Size |
|---|---|---|---|
| `reset` | `StoreReset.cfg` | types, `HalfResetNotOpened`, `StagingHasManifest`, `LiveDataKept`, `OldDataKeptUntilCommit`, refinement `ImplementsRecovery`, `LeftoversRemoved` | 216k, 22 s |
| `reset_faults` | `StoreResetFaults.cfg` | with failing removals: `ResetComplete`, `EpochsMixOnlyByChoice`, `UidFollowsDetection`, `RecoveryEnds` | 515k, 65 s |
| `reset_residue` | `StoreResetResidue.cfg` | with failing removals `LiveDataKept` is violated (finding 1) | |
| `locks` | `ProcessLocks.cfg` | with or without a store at first: types, `GuardedSummaryAvoidsRecovery`, `RequiredNotLost`, `EveryCommandEnds` | 69k, 25 s |
| `locks_noop` | `ProcessLocksNoop.cfg` | without the guard, `NoSummaryDuringRecovery` is violated (finding 2) | |
| `fetch` | `Fetch.cfg` | failures, lost answers, other clients, a read-only mailbox, messages too large: types, `SeenIsDone`, `DuplicatesOnlyAfterFailure`, `CompleteRunIndexes`, `EveryMessageDone` | 778k, 220 s |
| `fetch_seen` | `FetchSeen.cfg` | other clients change `\Seen`: `SkippedIsProcessed` is violated (finding 3) | |
| `fetch_recreated` | `FetchRecreated.cfg` | mailbox recreated during a run: `SeenIsDone` is violated (finding 4) | |
| `retention` | `EmailStore.cfg` | types, `ReportsRebuildable`, `EntryGoesWithFile`, `DeletedWithinAMonth`, `CountedOnce`, `DeletesNothingNeeded` (what a summary will count, what fetch still lists), `RetentionEnforced` | 751k, 80 s |
| `retention_age` | `EmailStoreAge.cfg` | `DeletedOnlyWhenOld` is violated (finding 5) | |
| `slack` | `SlackDelivery.cfg` | types, `DuplicatesNeedLostAnswer`, `WaitsInBounds`, refinement `ImplementsNotifier`, `AllAttempted`, `EveryRecordSettled` | 117k, 13 s |
| `invocation` | `Invocation.cfg` | `AlertsAccounted`, `WarningsAccounted`, `DetailsAddUp`, `MessagesWithinLimits`, `SummaryMatchesStore`, `StoreHoldsLatest` (and one report per id), `DryRunChangesNothing` | 297k, 155 s |

What the properties of `invocation` compare: after a run that exits with 0, the
messages at Slack and the reports in the store with the reference definitions over
the messages that were processed. They go through parsing, routing by level, the
encoding of records, caps and formatting at once, so an error in any of them, or
between them, shows.

### Bounds

- `Uids`: three values let the mailbox change twice and return to an earlier
  value, two are enough for a stale manifest. `MaxAborts = 2` interrupts a reset
  and then the command that meets its remains; the proofs are for any number.
- Two writers and a summary with two commands each: a writer and the summary
  overlap with both commands of the other writer, and one can see what another
  left. The proofs are for any number.
- Five messages in two mailboxes: two that report failures, one that does not parse,
  one whose body is too large and one that is not listed. Two troubles, each a
  failed run, a lost answer, a change of `\Seen` by another client or a read-only
  mailbox, break a run and then its repetition, or combine. `delivered` is counted up to `MaxDeliveries`, one
  more than `DuplicatesOnlyAfterFailure` allows.
- `CHECK_DEADLOCK FALSE` in the lock runs: processes stop after `MaxRuns`
  commands. `EveryCommandEnds` is what says that they do not wait for each other.
  Also in `invocation`, which ends after two, and in `slack`, where a handler
  without records has nothing to do.
- Two messages, months of three days and seven days, on the first four of which
  mail arrives, so that messages are filed under two months and every one grows
  old before time stops. All periods are two or three days: what matters is their
  order, and that the window of a summary (two days) and the retention of reports
  (three) differ by the one day that is needed. One failure breaks a fetch, a gc or
  a reprocess anywhere; the commands after it deal with what it left.
- Two alerts and one other record, so that a batch is one, two or three records in
  one or two messages; the real values 3, 2 s and 14 s of the retry loop;
  `Retry-After` of 0, less than a backoff or two, and more than the limit; two
  lost answers.
- Nine messages: one and several reports, failures in several policies, one report
  id used twice, nested parts, a report with a missing field, one too large when
  decompressed, a part that breaks off, a total exactly at the limit and one byte
  above it, nesting one too deep, one that is no message at all and one that is
  not listable. The one above the limit was saved before and may be deleted by gc.
  At most two of them are in a fetch window; reprocess then sees what a fetch saved
  and what was there before. The
  limits are scaled down (4 bytes, depth 1, two policies in an attachment, two
  attachments, seven fields) with the relations the code has between them, so that
  two reports overflow. 21 command lines, accepted and refused, two invocations,
  every combination of webhooks.

### Fairness

- `StoreReset!FairSpec`: a running command takes its next step or is aborted
  (weak fairness of `Step`), and cron starts fetch again and again (strong
  fairness of `Start("fetch")`, since other commands may hold the lock in
  between). `OperatorSpec` adds an operator who repeats `discard-old`. A recovery
  needs that operator: the code never decides by itself. Aborts are bounded, so
  some attempt is not interrupted.
- `ProcessLocks!FairSpec`: weak fairness of each process. A process that waits in
  `flock` gets a lock that stays free; nothing is assumed about who gets it
  first. Since commands are bounded, the property does not say that a writer
  survives an endless stream of overlapping summaries; `flock` does not
  guarantee that either.
- `Fetch!FairSpec`: cron starts fetch (strong, since recovery may forbid it at
  times), a run proceeds, and the operator decides a required recovery.
- `EmailStore!FairSpec`: days pass, a command takes its steps, cron starts gc
  again and again, and at some time the operator runs reprocess. The last one is
  needed: only reprocess indexes a file whose message has left the window of
  fetch, and gc looks at the index alone.
- `SlackDelivery!FairSpec`: a Flush that was called takes its steps; that it is
  called is not assumed. fetch returns with records in the buffer and without a
  Flush when a step between logging and delivery fails (`fetch.go:142`, `148`,
  `153`, `258`), and they are lost with the process. Their messages do not have
  `\Seen`, so a later fetch logs them again; that is `Fetch!Fail`.

## 4. Proofs

TLC checks small instances; the theorems hold for every value of the constants
that the named assumptions admit. Every safety invariant, action property and
refinement of the passing runs is proved; liveness is not (at the end of this
section). Each inductive invariant was first checked with TLC.

### StoreResetProofs

For every set of UIDVALIDITY values and every `MaxAborts`:

- `TypeCorrect`: `TypeOK`, without further assumptions;
- under `CleanupMayFail = FALSE`: `ResetInvariantHolds` and from it
  `StoreImplementsRecovery` (every step of the files is a step of `Recovery` or
  a stutter), `HalfResetIsNeverOpened`, `StagingAlwaysHasManifest`,
  `OldDataIsKept` and `LiveDataIsKept`;
- whether or not removals fail: `ResetsAreComplete`, `EpochsAreNotMixed` and
  `UidMovesToDetected`.

The assumption of the second group is needed: `reset_residue` is a counterexample to
`LiveDataKept` without it. None of the properties is inductive, because they do not
say why a manifest can be trusted. `ResetInvariant` does: its parts say which command
is at which step, that no entry is both in place and staged, what the sentinel says
in each step, that a manifest belongs either to the recorded recovery or to a store
that is committed and still empty, that staged files have a manifest, and how far
the reset has got. The central conjunct is the one on manifests (`ManifestInv`):
a phase-1 manifest next to a cleared `recovery_required` is a reset that
committed and died, so its removal loses nothing. `OldDataIsKept` and
`LiveDataIsKept` follow from the refinement: in `Recovery` only `DiscardOld` removes
anything.

With failing removals that conjunct is false. `FaultyInvariant` replaces it by
`ResumeInv`: whatever manifest is found, the UIDVALIDITY in it is the one that was
detected or the one the store has already, so resuming it moves the store nowhere
else; and at every step after a rename the entry it moved is gone from its place.

### ProcessLocksProofs

For every set of processes and every `MaxRuns`:

- `LocksHold`, the inductive invariant: a lock is held exactly in the steps that
  need it, and the copy a writer is about to write back equals the sentinel;
- from it `TypeCorrect`, `GuardIsUnderWriterLock` and `RequiredIsNotLost`;
- `GuardedSummariesAvoidRecovery`: what a summary with the guard checked stays true
  until it has sent, because whoever sets `recovery_required` holds the guard
  exclusively. `locks_noop` shows that it does not extend to the no-op guard.

The copy in the invariant is the heart of `RequiredIsNotLost`:
`SaveUIDValidity` takes no guard, and is safe only because all writers of the
sentinel hold the writer lock while they read and write.

### FetchProofs

For every set of messages, every bound on failures and interference:

- `TypeCorrect` and `CompletedRunsAreIndexed`, without further assumptions. `RunInv`
  says what a run knows of its own files in each of its steps; it does not mention
  the mailbox, so a recreation does not matter;
- under `RecreatedAnyTime = FALSE`: `MarkedMessagesAreDone` and
  `NotificationsArePaidFor`, lost answers being among the troubles that pay.
  `fetch_recreated` is a counterexample to the first one
  without it.

`EpochInv` says that the keys of a run name messages of the mailbox that it has
listed and validated. `DoneInv` carries `SeenIsDone` through a run: the new messages
are in the buffer or delivered, and their reports collected or saved, before the
step that marks them. `PaidInv` is an account: a message that a later run could
notify of again, because it lacks `\Seen` or its file, has been notified of no more
often than there were troubles, without the one notification that
`DuplicatesOnlyAfterFailure` grants for free. The same holds for what the current run
is going to read; and a message that had `\Seen` when it was listed and has lost it
since needs two troubles, because this run and the next may both repeat it.

### EmailStoreProofs

For every set of messages, every length of the month and number of days, any number
of failures, and all periods that `config.validate` accepts (section 2 has the two
conditions that the properties name):
`TypeCorrect`, `ReportsStayRebuildable`, `EntriesOutliveFiles`,
`FilesStayLongEnough`, `NoReportCountedTwice` and `NothingNeededIsDeleted`.

`StoreInv` has four parts. `DateInv`: wherever a message is known to the store (file,
index, metadata in memory) it is under the month in which it was received; hence a
message has one file, a guessed date errs by less than a month, and
`DeletedWithinAMonth` follows. `GcInv`: what gc has chosen is old, by the date it saw
when it chose, and what it is going to drop from the index has no file any more.
`FileInv`: a report has its file unless its date was guessed, since reports go no
later than originals. `CountInv`: a counted report ended before the base day of a
summary that is past; two base days are a whole number of windows apart (lemma
`WindowsApart`), so no report is in two of them. `FileInv` and
`ReportsStayRebuildable` use the condition on `max_email_age_days`,
`NothingNeededIsDeleted` the one on `retention_days`; it compares gc's cutoff with
the first day of the window of the summary that runs and of all later ones.

### SlackDeliveryProofs

For every set of records and alerts, every `RetryCount`, base of the backoff and
limit: `TypeCorrect`, `NoUnexplainedDuplicate`, `WaitsStayInBounds`,
`FlushAttemptsAll`, and `HandlerKeepsContract`, the refinement of `Notifier`.

`DeliveryInv` says that a record is in the buffer, in the batch of the running Flush,
or in neither; that the messages of a batch are disjoint, so that an answer settles
each record once; that a settled record was posted, and delivered unless Flush is
going to return an error; that a record which is still open was accepted only by
posts whose answer was lost, hence one time less than a settled one may be; and what
`postWithRetry` knows of its attempts and sleeps.

### ListProofs

What is in Slack and in the store is computed by walking, filtering, flattening,
sorting and adding up sequences. That needs induction over their lengths. The
induction theorems of the library take a predicate, which the provers do not
instantiate, so the induction is over sets: `SetInduction` says that a set which
contains 0, and with each number the next one, contains all natural numbers. It
follows from the well-foundedness of `<` (`NatLessThanWellFounded`, `WFMin`). A
proof by induction defines the set of numbers for which the claim holds.
`Recursion` shows with it that a function which is defined by recursion on
`0..n` exists; `SumDef` and `FlattenDef` unfold `Sum` and `FlattenSeq` by it.

The rest of the module relates a sequence to the set it comes from.
`Listed(s, P, val, R)` says that `s` has the values `val[p]` for all `p` in `P`,
each once, in the order `R`. It is kept by concatenation, flattening, filters, maps
and renaming (`ListedConcat`, `FlattenListed`, `ListedRenamed`, ...), and it
determines lengths (`Cardinality(P)`) and sums: two listings of the same set have
the same sum, in whatever order (`SumRemove` takes out one element, induction does
the rest), so a sum over a sequence equals `SumOf` over the set. `Descending` and
`Ascending` are shown to exist for all arguments.

### ContentProofs

- `MailTakenAsAWhole`: what the walk over the parts gives, with its budget that is
  only noticed in the middle of a part, is what the reference definitions say of
  the message as a whole: if it is `Acceptable`, its `Genuine` reports in their
  order and one warning for each other attachment that decodes and claims to be a
  report; or else no report and one warning. The induction is over the parts, with the sum of
  their sizes so far.
- `ChunkSizes` and `ChunksKeepAll` (slices are full, not too large, and lose
  nothing), and `DetailsAllCounted`.
- `AlertsCutToFit`: a message about any number of alerts keeps to Slack's limits. It
  shows a prefix of the alerts in their order: all of them if they fit, or else as
  many as fit with the last attachment kept short for the note on the others, and
  what is shown and what the note counts add up to all alerts and all failed
  sessions. `AlertAttachmentsBounded` is the number of attachments alone.
- Lemmas on the messages: their fields by title, their size and their Run ID, what
  the numbers in them add up to (`SummaryMessage`, `AlertsCounted`,
  `DetailsOfPolicy`, `NoticesWithinLimits`, ...).

`FormatAssumption` states the relations between the limits that `format.go` has:
`maxPoliciesInLastChunkWithOverflow <= maxAlertPoliciesPerChunk` (2 and 3), the
fields of a full attachment with its Run ID (three for each policy, one for the
note on the others, one for each organization) within the ten that Slack accepts,
and as many details in a record as are displayed or more.

### InvocationProofs

- `DryRunsChangeNothing`: for every mailbox, all command lines and webhooks. The
  invariant is that a dry run is of a command that takes the flag and is at one of
  the steps up to the first of the command itself; so it never gets to the steps
  that save, post or mark, and those it can take were examined one by one.
- `StoreHoldsTheLatest`, `WarningsAllAccounted`, `AlertsAllAccounted`,
  `DetailsAllAddUp`, `AllWithinLimits` and `SummaryIsTheStore`: the properties of
  the run `invocation` about content, for every finite mailbox of messages with any
  number of parts, reports, policies and details, and for all limits.
- `WindowFitsInt`: the bound in `parseDuration` excludes an overflow of weeks into
  days.

The content properties speak about the end of a run, and about what Slack and the
store have got by then; they are not inductive, because they do not say what is in
the buffer before. `ContentInv` does. `DataInv`: the batch is a sequence of UIDs of
the mailbox, and the store holds one report for each id. `HandlerInv`: from the
step that collects to the one that flushes, the handler of the error webhook holds
exactly `Records`, the records of the batch; before and after the handlers are
empty. `SavedInv`: after saving, the store is some earlier one with all reports of
the batch saved on top. `PostedInv`: nothing was posted before the flush, and at
the end the messages of the batch, any part of them if the command failed, an error
report, or the digest of the reports in the store. From `ContentInv` each property
is a statement about operators: `Alerts`, `Found` and `FailingPolicies` list the
same policies (`AlertsListed`), so their numbers and sums agree.

`MailboxAssumption` says that the mailbox is a finite function from numbers to
messages as `MailParse` describes them, that `SavedBefore` are some of them, and that
no message decodes to more than its size. `Mails` has any integers as session counts,
since the parser rejects none; only the sessions of failure details are natural
numbers, which RFC 8460 demands and the parser does not check.

### Only model-checked

Liveness: `RecoveryEnds`, `LeftoversRemoved`, `EveryCommandEnds`,
`EveryMessageDone`, `RetentionEnforced`, `EveryRecordSettled`. Fairness is out of
the prover's reach. The violated properties of section 5 have counterexamples, which
TLC finds.

## 5. Findings

1. **discard-old on a leftover manifest deletes live data** (`recover.go:138`,
   `reset_residue`). discard-old dies between saving the sentinel and marking the
   manifest; the next fetch cannot remove the manifest and only logs it; it saves
   new mail; a later discard-old, which finds nothing to recover, resumes the
   manifest and stages and deletes the live files.
2. **The no-op guard does not exclude writers** (`recovery.go:630`,
   `locks_noop`). A summary that starts without a store directory runs unguarded
   even if two fetches create the store, fill it and detect a change meanwhile.
3. **`\Seen` and a file do not mean processed** (`fetch.go:271`, `fetch_seen`).
   A message another client has read, whose first fetch died after saving the
   `.eml`, is skipped by every later fetch.
4. **UIDs outlive their mailbox** (`client.go:293`, `fetch_recreated`).
   `Download` and `MarkSeen` select the mailbox again without comparing
   UIDVALIDITY, so after a recreation during the run they act on other messages.
5. **A guessed date decides about deletion** (`emails.go:165`, `retention_age`). A
   file that a failed fetch left without an index entry is indexed by reprocess
   under the first day of its month; no later fetch corrects the date, and gc
   deletes the original up to a month before it has reached its age.
   `DeletedWithinAMonth` shows that it is never more than that.

## 6. What is not modelled

- Bytes and texts: MIME headers, base64, gzip and JSON syntax, wording, the
  truncation of long texts, TOML, host names, certificates and the syntax of URLs.
  The models have whether something decodes or is accepted.
- Warnings that a file's size differs from RFC822.SIZE.
- Mail that nobody is told of. `FetchMeta` skips messages above `max_message_bytes`
  or without a date or envelope and logs it; report parts that do not decode are
  dropped (section 2). The models have both, and no property says that such mail is
  reported, because it is not.
- Summaries of more than 900 organizations, which exceed Slack's 100 attachments.
- Copies of a Slack message after a lost answer in `Invocation`; `SlackDelivery` and
  `Fetch` count them.
- Overflow of session counts. A report could claim counts whose sum exceeds
  `int64`; the models add up integers of any size.
- gc against a server without UIDPLUS, where it deletes nothing; TLS and login.
- Removal of empty directories by gc; permission bits; logging.
- Power failures. A crash here is the death of the process, which keeps the order of
  file operations. The renames into staging are not followed by an fsync of their
  own (`recovery.go:297`), but all entries they touch are in the root directory or
  below staging, and saving the sentinel and the manifest syncs the root directory
  after the renames; a commit that survives a power failure therefore finds them
  done. This argument is about the file system, not about the program's steps.
- The mocks of the unit tests and the CI script under `.github/scripts`.

## 7. Plan

Done, in this order: `Recovery`, `StoreReset` with its runs and proofs;
`ProcessLocks` with its runs and proofs; `Fetch`; `EmailStore`, then with summaries
and configuration; `SlackDelivery`, then `Notifier` as its contract; `MailParse`,
`SlackFormat` and `Invocation`; then the proofs about `SlackDelivery`, `Fetch`,
`EmailStore` and `Invocation`, and about `StoreReset` when removals fail; last
`ListProofs`, `ContentProofs` and what `Invocation` says about content.

Next:

1. `ProcessLocks`: that at most one writer works on the store, as a theorem that
   the assumption of one writer in the other modules can cite.
2. `Invocation`: what each exit code says about the store and the mailbox.
