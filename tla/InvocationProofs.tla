-------------------------- MODULE InvocationProofs --------------------------
(***************************************************************************)
(* What module Invocation guarantees for every mailbox, every command line *)
(* and all the limits: that a dry run changes nothing, and, of the other   *)
(* runs, what the messages posted to Slack and the saved reports say.      *)
(***************************************************************************)
EXTENDS Invocation, ContentProofs

-----------------------------------------------------------------------------
(* Dry runs.                                                               *)

\* The commands that accept --dry-run, and the steps at which a dry run can
\* be: none beyond the first step of the command itself.
DryRunCommands == {"fetch", "summary", "gc"}
DryRunSteps == {"boot", "notifier", "lock", "open", "run"}

\* The flag recovery_required is a Boolean: that a change of UIDVALIDITY leaves
\* it alone in a dry run needs to know that it was FALSE before.
FlagInv == recovery \in BOOLEAN

\* A dry run ends at the first step of its command: it is never at a step that
\* saves reports, sends notifications or marks messages.
StepInv == pc # "done" /\ cmd.dryRun =>
               cmd.sub \in DryRunCommands /\ pc \in DryRunSteps

DryRunInv == FlagInv /\ StepInv

\* Accepting a command line establishes the invariant (validateFlags).
LEMMA AcceptedDryRun ==
    ASSUME NEW c, ValidateFlags(c), c.dryRun
    PROVE  c.sub \in DryRunCommands
BY DEF ValidateFlags, DryRunCommands

\* An error report of a dry run goes to the log and not to Slack.
LEMMA DryErrorsAreLogged ==
    ASSUME NEW b, NEW what, cmd.dryRun, NotifySystemErrorVia(b, what)
    PROVE  posted' = posted
BY DEF NotifySystemErrorVia, Flush

\* The invariant, step by step.
LEMMA DryRunInvariant == Spec => []DryRunInv
<1>1. Init => DryRunInv
  BY DEF Init, DryRunInv, FlagInv, StepInv
<1>2. DryRunInv /\ [Next]_vars => DryRunInv'
  <2> SUFFICES ASSUME DryRunInv, [Next]_vars
               PROVE  DryRunInv'
    OBVIOUS
  <2> USE DEF DryRunInv, FlagInv, StepInv
  <2>1. ASSUME NEW c \in CommandLines, Invoke(c)
        PROVE  DryRunInv'
    <3>1. recovery' = recovery
      BY <2>1 DEF Invoke, store
    <3>2. CASE RegisterFlags(c) /\ ValidateFlags(c)
      <4>1. pc' = "boot" /\ cmd' = c
        BY <2>1, <3>2 DEF Invoke
      <4> QED
        BY <3>1, <3>2, <4>1, AcceptedDryRun DEF DryRunSteps
    <3>3. CASE ~(RegisterFlags(c) /\ ValidateFlags(c))
      BY <2>1, <3>1, <3>3 DEF Invoke
    <3> QED
      BY <3>2, <3>3
  <2>2. CASE Bootstrap
    BY <2>2 DEF Bootstrap, BootFails, Boot, BuildNotifier, AcquireWriterLock,
                OpenStore, Exit, Goto, store, DryRunSteps
  <2>3. CASE FetchFails
    BY <2>3 DEF FetchFails, Exit, store
  <2>4. CASE UIDValidityChanged
    BY <2>4 DEF UIDValidityChanged, Exit
  <2>5. ASSUME NEW window, FetchDownload(window)
        PROVE  DryRunInv'
    BY <2>5 DEF FetchDownload, Exit, Goto
  <2>6. ASSUME NEW window, DownloadFails(window)
        PROVE  DryRunInv'
    BY <2>6 DEF DownloadFails, Exit
  <2>7. CASE LoadEmails
    BY <2>7 DEF LoadEmails, Exit, Goto, store, DryRunCommands
  <2>8. CASE CollectReports
    BY <2>8 DEF CollectReports, Goto, store, DryRunSteps
  <2>9. CASE SaveReports
    BY <2>9 DEF SaveReports, Exit, Goto, DryRunSteps
  <2>10. CASE FlushNotifications
    BY <2>10 DEF FlushNotifications, Exit, Goto, store, DryRunSteps
  <2>11. CASE MarkSeen
    BY <2>11 DEF MarkSeen, Exit, store
  <2>12. CASE Summary
    BY <2>12 DEF Summary, Exit, store
  <2>13. CASE Gc
    BY <2>13 DEF Gc, Exit
  <2>14. CASE Recover
    BY <2>14 DEF Recover, Exit, store
  <2>15. CASE UNCHANGED vars
    BY <2>15 DEF vars, store
  <2> QED
    BY <2>1, <2>2, <2>3, <2>4, <2>5, <2>6, <2>7, <2>8, <2>9, <2>10, <2>11, <2>12,
       <2>13, <2>14, <2>15 DEF Next
<1> QED
  BY <1>1, <1>2, PTL DEF Spec

\* With --dry-run no step of any command, the failing ones included, changes
\* the store or the mailbox or sends anything to Slack, whatever the command
\* lines, the mailbox and the webhooks are.
THEOREM DryRunsChangeNothing == Spec => DryRunChangesNothing
<1> DEFINE Safe == cmd.dryRun /\ pc # "done" => UNCHANGED <<seen, store, posted>>
<1>1. DryRunInv /\ [Next]_vars => [Safe]_vars
  <2> SUFFICES ASSUME DryRunInv, Next, cmd.dryRun, pc # "done"
               PROVE  seen' = seen /\ store' = store /\ posted' = posted
    BY DEF store
  <2>1. cmd.sub \in DryRunCommands /\ pc \in DryRunSteps /\ recovery \in BOOLEAN
    BY DEF DryRunInv, StepInv, FlagInv
  <2>2. \A b, what : NotifySystemErrorVia(b, what) => posted' = posted
    BY DryErrorsAreLogged
  <2>3. \A what : NotifySystemError(what) => posted' = posted
    BY <2>2 DEF NotifySystemError
  <2>4. \A b, ok : Flush(b, ok) => posted' = posted
    BY DEF Flush
  <2>5. ~ \E c \in CommandLines : Invoke(c)
    BY DEF Invoke
  <2>6. CASE Bootstrap
    BY <2>3, <2>6 DEF Bootstrap, BootFails, Boot, BuildNotifier, AcquireWriterLock,
                      OpenStore, notifier
  <2>7. CASE FetchFails
    BY <2>3, <2>7 DEF FetchFails, notifier
  <2>8. CASE UIDValidityChanged
    BY <2>1, <2>3, <2>8 DEF UIDValidityChanged, store
  <2>9. ASSUME NEW window, FetchDownload(window)
        PROVE  seen' = seen /\ store' = store /\ posted' = posted
    BY <2>4, <2>9 DEF FetchDownload, store
  <2>10. ~ \E window \in SUBSET UIDs : DownloadFails(window)
    BY DEF DownloadFails
  <2>11. ~LoadEmails /\ ~Recover
    BY <2>1 DEF LoadEmails, Recover, DryRunCommands
  <2>12. ~CollectReports /\ ~SaveReports /\ ~FlushNotifications /\ ~MarkSeen
    BY <2>1 DEF CollectReports, SaveReports, FlushNotifications, MarkSeen, DryRunSteps
  <2>13. CASE Summary
    BY <2>2, <2>4, <2>13 DEF Summary, notifier
  <2>14. CASE Gc
    BY <2>3, <2>14 DEF Gc, notifier, store
  <2> QED
    BY <2>5, <2>6, <2>7, <2>8, <2>9, <2>10, <2>11, <2>12, <2>13, <2>14 DEF Next
<1> QED
  BY <1>1, DryRunInvariant, PTL DEF Spec, DryRunChangesNothing

-----------------------------------------------------------------------------
(* The window of summary.                                                  *)

\* A window that parseDuration accepts is a number of days that fits an int:
\* the bound it checks for weeks leaves no overflow of the product.
THEOREM WindowFitsInt ==
    ASSUME NEW window, window[1] \in Nat, ParseDuration(window)
    PROVE  Days(window) \in 1..MaxInt
<1>1. MaxInt \in Nat
  BY InvocationAssumption
<1>2. CASE window[2] = "w"
  <2>1. window[1] > 0 /\ window[1] <= MaxInt \div 7
    BY <1>2 DEF ParseDuration
  <2>2. 7 * window[1] \in 1..MaxInt
    BY <1>1, <2>1
  <2> QED
    BY <1>2, <2>2 DEF Days
<1>3. CASE window[2] # "w"
  BY <1>1, <1>3 DEF ParseDuration, Days
<1> QED
  BY <1>2, <1>3

-----------------------------------------------------------------------------
(* The records of a batch.                                                 *)

\* The reports of the batch, in their order.
Collection == FlattenSeq(Map(Results, LAMBDA r : r.reports))

\* What each message of the batch gives.
LEMMA BatchResults ==
    ASSUME batch \in Seq(UIDs)
    PROVE  /\ Len(batch) \in Nat /\ DOMAIN batch = 1..Len(batch)
           /\ Len(Results) = Len(batch) /\ DOMAIN Results = 1..Len(batch)
           /\ \A i \in 1..Len(batch) :
                 /\ Mailbox[batch[i]] \in Mails
                 /\ Results[i] = ProcessMail(Mailbox[batch[i]])
                 /\ Results[i].reports \in Seq(Reports) /\ Results[i].warnings \in Nat
<1> DEFINE n == Len(batch)
<1>1. n \in Nat /\ DOMAIN batch = 1..n /\ \A i \in 1..n : batch[i] \in UIDs
  OBVIOUS
<1> HIDE DEF n
<1>2. Results = [i \in 1..n |-> ProcessMail(Mailbox[batch[i]])]
  BY <1>1 DEF Results, Map
<1>3. ASSUME NEW i \in 1..n
      PROVE  /\ Mailbox[batch[i]] \in Mails
             /\ Results[i] = ProcessMail(Mailbox[batch[i]])
             /\ Results[i].reports \in Seq(Reports) /\ Results[i].warnings \in Nat
  <2>1. Mailbox[batch[i]] \in Mails
    BY <1>1, MailboxAssumption DEF UIDs
  <2>2. Results[i] = ProcessMail(Mailbox[batch[i]])
    BY <1>2
  <2> QED
    BY <2>1, <2>2, ProcessMailType
<1>4. Len(Results) = n /\ DOMAIN Results = 1..n
  <2> DEFINE s == Results
             A == {s[i] : i \in 1..n}
  <2>1. s = [i \in 1..n |-> s[i]]
    BY <1>2
  <2> HIDE DEF s
  <2>2. \A i \in 1..n : s[i] \in A
    OBVIOUS
  <2> HIDE DEF A
  <2> QED
    BY <1>1, <2>1, <2>2, Tabulated, Zenon DEF s
<1> QED
  BY <1>1, <1>3, <1>4 DEF n

\* The alerts of one message, none if it is not new.
AlertsOf(i) ==
    IF Alerting(batch[i]) THEN FlattenSeq(Map(Results[i].reports, LogAlerts)) ELSE <<>>
AlertLists == [i \in DOMAIN batch |-> AlertsOf(i)]

\* The alerts of a batch are those of its messages, one list after the other.
LEMMA AlertListsType ==
    ASSUME batch \in Seq(UIDs)
    PROVE  /\ AlertLists \in Seq(Seq(AlertRecords)) /\ Len(AlertLists) = Len(batch)
           /\ \A i \in 1..Len(batch) : AlertLists[i] = AlertsOf(i)
           /\ Alerts = FlattenSeq(AlertLists)
           /\ Alerts \in Seq(AlertRecords)
<1> DEFINE n == Len(batch)
           s == AlertLists
<1>1. /\ n \in Nat /\ DOMAIN batch = 1..n
      /\ \A i \in 1..n : Results[i].reports \in Seq(Reports)
  BY BatchResults
<1> HIDE DEF n
<1>2. s = [i \in 1..n |-> AlertsOf(i)]
  BY <1>1 DEF AlertLists
<1>3. \A i \in 1..n : AlertsOf(i) \in Seq(AlertRecords)
  <2> TAKE i \in 1..n
  <2>1. FlattenSeq(Map(Results[i].reports, LogAlerts)) \in Seq(AlertRecords)
    BY <1>1, AllAlertsType
  <2>2. <<>> \in Seq(AlertRecords)
    OBVIOUS
  <2> QED
    BY <2>1, <2>2, Zenon DEF AlertsOf
<1>4. Alerts = FlattenSeq(s)
  BY Zenon DEF Alerts, AlertLists, AlertsOf
<1> HIDE DEF s
<1>5. \A i \in 1..n : s[i] = AlertsOf(i)
  BY <1>2
<1>6. s \in Seq(Seq(AlertRecords)) /\ Len(s) = n
  <2>1. s = [i \in 1..n |-> s[i]] /\ \A i \in 1..n : s[i] \in Seq(AlertRecords)
    BY <1>2, <1>3, <1>5
  <2> QED
    BY <1>1, <2>1, Tabulated, Zenon
<1>7. FlattenSeq(s) \in Seq(AlertRecords)
  BY <1>6, FlattenType, Zenon
<1> QED
  BY <1>4, <1>5, <1>6, <1>7 DEF s, n

\* The warnings of the messages are a number each.
LEMMA WarningsType ==
    ASSUME batch \in Seq(UIDs)
    PROVE  /\ Map(Results, LAMBDA r : r.warnings) \in Seq(Nat)
           /\ Len(Map(Results, LAMBDA r : r.warnings)) = Len(batch)
           /\ \A i \in 1..Len(batch) :
                 Map(Results, LAMBDA r : r.warnings)[i] = Results[i].warnings
           /\ Warnings \in Nat
<1> DEFINE n == Len(batch)
           s == Map(Results, LAMBDA r : r.warnings)
<1>1. n \in Nat /\ DOMAIN Results = 1..n /\ \A i \in 1..n : Results[i].warnings \in Nat
  BY BatchResults
<1> HIDE DEF n
<1>2. s = [i \in 1..n |-> Results[i].warnings]
  BY <1>1 DEF Map
<1> HIDE DEF s
<1>3. \A i \in 1..n : s[i] = Results[i].warnings /\ s[i] \in Nat
  BY <1>1, <1>2
<1>4. s \in Seq(Nat) /\ Len(s) = n
  <2>1. s = [i \in 1..n |-> s[i]]
    BY <1>2
  <2> QED
    BY <1>1, <1>3, <2>1, Tabulated, Zenon
<1>5. Sum(s) \in Nat
  BY <1>4, SumNat, Zenon
<1>6. Warnings \in Nat
  <2>1. Warnings = IF Notifying THEN Sum(s) ELSE 0
    BY DEF Warnings, s
  <2> QED
    BY <1>5, <2>1
<1> QED
  BY <1>3, <1>4, <1>6 DEF s, n

\* The messages for a batch: one for all alerts, one for each warning.
LEMMA RecordsFormatted ==
    ASSUME batch \in Seq(UIDs)
    PROVE  FormatRecords(Records) = MessagesFor(Alerts, Warnings, "parse_failure")
<1>1. Alerts \in Seq(AlertRecords)
  BY AlertListsType, Zenon
<1>2. Warnings \in Nat
  BY WarningsType, Zenon
<1>3. Records = RecordsFor(Alerts, Warnings, "parse_failure")
  BY DEF Records, RecordsFor
<1> QED
  BY <1>1, <1>2, <1>3, AlertsAndWarnings

-----------------------------------------------------------------------------
(* What an invocation has done at each of its steps.                       *)

Channels == {"info", "warn"}
ErrorKinds == {"lock_held", "store_permission", "open", "store_corruption",
               "recovery_required", "imap_credentials_missing", "imap",
               "uidvalidity_changed", "gc"}
Errors == {FormatSystemError(what) : what \in ErrorKinds}
ReadOnly == FormatWarning("mailbox_read_only")
BatchMessages == FormatRecords(Records)
BatchRange == {BatchMessages[i] : i \in 1..Len(BatchMessages)}
Sent == BatchRange \cup Errors \cup {ReadOnly}
Digest == FormatSummary(GenerateSummary(reports, Start, End))

\* The steps before the command gets its messages, and those with handlers.
FirstSteps == {"boot", "notifier", "lock", "open", "run"}
LaterSteps == {"collect", "save", "flush", "markSeen"}
Steps == FirstSteps \cup LaterSteps \cup {"done"}

\* The store holds reports, one for each report-id.
StoreOK(saved) ==
    /\ saved \in SUBSET Reports /\ IsFiniteSet(saved)
    /\ \A r, s \in saved : r.id = s.id => r = s

DataInv ==
    /\ webhooks \in SUBSET Channels
    /\ files \in SUBSET UIDs
    /\ StoreOK(reports)
    /\ pc \in Steps
    /\ batch \in Seq(UIDs)
    /\ pc \in FirstSteps => batch = <<>>
    /\ pc \in LaterSteps => cmd.sub \in {"fetch", "reprocess"}

\* A handler holds the records of the batch from when they are collected to
\* when they are sent, and nothing else; fetch and reprocess have the one for
\* the error webhook.
HandlerInv ==
    /\ DOMAIN buffer \in SUBSET Channels
    /\ cmd.sub \in {"fetch", "reprocess"} /\ pc \in {"lock", "open", "run"} \cup LaterSteps =>
           "warn" \in DOMAIN buffer
    /\ pc # "done" =>
           \A h \in DOMAIN buffer :
               buffer[h] = IF h = "warn" /\ pc \in {"save", "flush"} THEN Records ELSE <<>>

\* What is saved are the reports of the batch, on top of what there was.
SavedInv ==
    /\ pc = "save" => collected = Collection
    /\ pc \in {"flush", "markSeen"} \/ Complete =>
           \E old : StoreOK(old) /\ reports = Upserted(old, Collection)

\* What Slack got: nothing before the flush, and in the end the messages of the
\* batch, a part of them if the flush failed, or an error, or a summary.
PostedInv ==
    /\ posted \in [Channels -> Seq(Sent \cup {Digest})]
    /\ posted["warn"] \in Seq(Sent) /\ posted["info"] \in Seq({Digest})
    /\ pc # "done" =>
           /\ posted["info"] = <<>>
           /\ posted["warn"] = IF pc = "markSeen" THEN BatchMessages ELSE <<>>
    /\ Complete => posted["warn"] \in {BatchMessages, BatchMessages \o <<ReadOnly>>}

ContentInv == DataInv /\ HandlerInv /\ SavedInv /\ PostedInv

\* The messages of a batch are a sequence.
LEMMA BatchMessagesType ==
    ASSUME batch \in Seq(UIDs)
    PROVE  BatchMessages \in Seq(BatchRange) /\ <<>> \o Records = Records
<1>1. Alerts \in Seq(AlertRecords) /\ Warnings \in Nat
  BY AlertListsType, WarningsType, Zenon
<1>2. BatchMessages = MessagesFor(Alerts, Warnings, "parse_failure")
  BY RecordsFormatted DEF BatchMessages
<1>3. Records = RecordsFor(Alerts, Warnings, "parse_failure")
  BY DEF Records, RecordsFor
<1>4. <<>> \o Records = Records
  BY <1>1, <1>3, RecordsForType
<1> DEFINE m == BatchMessages
           U == {FormatAlerts(Alerts), FormatWarning("parse_failure")}
<1>5. m \in Seq(U)
  BY <1>1, <1>2, MessagesForIs, Zenon
<1> HIDE DEF m, U
<1>6. m \in Seq({m[i] : i \in 1..Len(m)})
  BY <1>5
<1> QED
  BY <1>4, <1>6 DEF m, BatchRange

\* Sending the records in the handlers of b.
LEMMA FlushAdds ==
    ASSUME NEW b, NEW ok \in BOOLEAN, Flush(b, ok), NEW N, posted \in [Channels -> Seq(N)],
           NEW M, \A h \in DOMAIN b : FormatRecords(b[h]) \in Seq(M)
    PROVE  /\ buffer' = [h \in DOMAIN b |-> <<>>]
           /\ posted' = [h \in Channels |-> posted'[h]]
           /\ \A h \in Channels \ DOMAIN b : posted'[h] = posted[h]
           /\ \A h \in Channels \cap DOMAIN b : \E I :
                  posted'[h] = posted[h] \o Subsequence(FormatRecords(b[h]), I)
           /\ ok /\ ~cmd.dryRun => \A h \in Channels \cap DOMAIN b :
                  posted'[h] = posted[h] \o FormatRecords(b[h])
<1>1. buffer' = [h \in DOMAIN b |-> <<>>]
  BY DEF Flush
<1>2. DOMAIN posted = Channels /\ \A h \in Channels : posted[h] \in Seq(N)
  OBVIOUS
<1>3. CASE cmd.dryRun
  <2>1. posted' = posted
    BY <1>3 DEF Flush
  <2>2. posted' = [h \in Channels |-> posted'[h]]
    BY <2>1
  <2>3. ASSUME NEW h \in Channels \cap DOMAIN b
        PROVE  \E I : posted'[h] = posted[h] \o Subsequence(FormatRecords(b[h]), I)
    <3> DEFINE f == FormatRecords(b[h])
               p == posted[h]
    <3>1. f \in Seq(M) /\ {} \cap DOMAIN f = {} /\ p \in Seq(N)
      BY <1>2
    <3> HIDE DEF f, p
    <3>2. Subsequence(f, {}) = <<>>
      BY <3>1, SubsequenceAll, Zenon
    <3>3. p \o <<>> = p
      BY <3>1
    <3>4. posted'[h] = p \o Subsequence(f, {})
      BY <2>1, <3>2, <3>3 DEF p
    <3> QED
      BY <3>4 DEF p, f
  <2> QED
    BY <1>1, <1>3, <2>1, <2>2, <2>3
<1>4. CASE ~cmd.dryRun
  <2> DEFINE messages == [h \in DOMAIN b |-> FormatRecords(b[h])]
             I(h, lost) == {i \in DOMAIN messages[h] : <<h, i>> \notin lost}
             New(h, lost) == posted[h] \o (IF h \notin DOMAIN b THEN <<>>
                                           ELSE Subsequence(messages[h], I(h, lost)))
  <2>1. PICK lost : (ok => lost = {}) /\ posted' = [h \in Channels |-> New(h, lost)]
    BY <1>2, <1>4 DEF Flush
  <2>2. \A h \in Channels : posted'[h] = New(h, lost)
    <3> HIDE DEF New
    <3> QED
      BY <2>1
  <2>3. posted' = [h \in Channels |-> posted'[h]]
    <3> HIDE DEF New
    <3> QED
      BY <2>1
  <2>4. ASSUME NEW h \in Channels \ DOMAIN b
        PROVE  posted'[h] = posted[h]
    <3>1. posted'[h] = posted[h] \o <<>>
      BY <2>2
    <3> DEFINE p == posted[h]
    <3>2. p \in Seq(N)
      BY <1>2
    <3> HIDE DEF p
    <3>3. p \o <<>> = p
      BY <3>2
    <3> QED
      BY <3>1, <3>3 DEF p
  <2>5. ASSUME NEW h \in Channels \cap DOMAIN b
        PROVE  posted'[h] = posted[h] \o Subsequence(FormatRecords(b[h]), I(h, lost))
    BY <2>2
  <2>6. ASSUME NEW h \in Channels \cap DOMAIN b, ok
        PROVE  posted'[h] = posted[h] \o FormatRecords(b[h])
    <3> DEFINE f == FormatRecords(b[h])
    <3>1. f \in Seq(M) /\ messages[h] = f
      OBVIOUS
    <3>2. DOMAIN f \subseteq I(h, lost)
      BY <2>1, <2>6, <3>1
    <3> HIDE DEF f, I, messages
    <3>3. Subsequence(f, I(h, lost)) = f
      BY <3>1, <3>2, SubsequenceAll, Zenon
    <3> QED
      BY <2>5, <3>3 DEF f
  <2> HIDE DEF I, New
  <2>7. \A h \in Channels \cap DOMAIN b : \E J :
            posted'[h] = posted[h] \o Subsequence(FormatRecords(b[h]), J)
    BY <2>5, Zenon
  <2> QED
    BY <1>1, <2>3, <2>4, <2>6, <2>7
<1> QED
  BY <1>3, <1>4

\* An error is all that is sent if there is nothing else in the handlers.
LEMMA ErrorSent ==
    ASSUME NEW b, NEW what \in ErrorKinds, NotifySystemErrorVia(b, what),
           DOMAIN b \in SUBSET Channels, \A h \in DOMAIN b : b[h] = <<>>,
           posted = NothingPosted
    PROVE  /\ DOMAIN buffer' \in SUBSET Channels
           /\ posted' = [h \in Channels |-> posted'[h]]
           /\ posted'["info"] = <<>> /\ posted'["warn"] \in Seq(Errors)
<1> DEFINE r == [kind |-> "error", what |-> what]
           e == FormatSystemError(what)
           c == Logged(b, "error", <<r>>)
<1>1. PICK ok \in BOOLEAN : Flush(c, ok)
  BY DEF NotifySystemErrorVia
<1>2. DOMAIN c = DOMAIN b
  BY DEF Logged
<1>3. \A h \in DOMAIN b : c[h] = IF h = "warn" THEN <<r>> ELSE <<>>
  <2>1. <<>> \o <<r>> = <<r>>
    OBVIOUS
  <2> HIDE DEF r
  <2> QED
    BY <2>1 DEF Logged, Enabled, Channels
<1>4. FormatRecords(<<r>>) = <<e>> /\ FormatRecords(<<>>) = <<>>
  <2>1. r.kind = "error" /\ r.what = what
    OBVIOUS
  <2> HIDE DEF r
  <2> QED
    BY <2>1, OneRecord
<1> HIDE DEF c, r
<1>5. \A h \in DOMAIN c : FormatRecords(c[h]) = IF h = "warn" THEN <<e>> ELSE <<>>
  BY <1>2, <1>3, <1>4
<1>6. e \in Errors
  BY DEF Errors
<1> HIDE DEF e
<1>7. \A h \in DOMAIN c : FormatRecords(c[h]) \in Seq(Errors)
  <2>1. <<e>> \in Seq(Errors) /\ <<>> \in Seq(Errors)
    BY <1>6
  <2> QED
    BY <1>5, <2>1, Zenon
<1>8. posted \in [Channels -> Seq({})] /\ \A h \in Channels : posted[h] = <<>>
  BY DEF NothingPosted, Channels
<1>9. /\ buffer' = [h \in DOMAIN c |-> <<>>]
      /\ posted' = [h \in Channels |-> posted'[h]]
      /\ \A h \in Channels \ DOMAIN c : posted'[h] = posted[h]
      /\ \A h \in Channels \cap DOMAIN c : \E I :
             posted'[h] = posted[h] \o Subsequence(FormatRecords(c[h]), I)
  BY <1>1, <1>7, <1>8, FlushAdds
<1>10. posted'["info"] = <<>>
  <2>1. CASE "info" \in DOMAIN c
    <3>0. "info" \in Channels \cap DOMAIN c
      BY <2>1 DEF Channels
    <3>1. PICK I : posted'["info"] = posted["info"] \o Subsequence(FormatRecords(c["info"]), I)
      BY <1>9, <3>0, Zenon
    <3>4. posted["info"] = <<>> /\ FormatRecords(c["info"]) = <<>>
      BY <1>5, <1>8, <2>1, <3>0
    <3>2. Subsequence(<<>>, I) = <<>>
      BY SubsequenceOne, Zenon
    <3>3. <<>> \o <<>> = <<>>
      OBVIOUS
    <3> QED
      BY <3>1, <3>2, <3>3, <3>4, Zenon
  <2>2. CASE "info" \notin DOMAIN c
    BY <1>8, <1>9, <2>2 DEF Channels
  <2> QED
    BY <2>1, <2>2
<1>11. posted'["warn"] \in Seq(Errors)
  <2>1. CASE "warn" \in DOMAIN c
    <3>0. "warn" \in Channels \cap DOMAIN c
      BY <2>1 DEF Channels
    <3>1. PICK I : posted'["warn"] = posted["warn"] \o Subsequence(FormatRecords(c["warn"]), I)
      BY <1>9, <3>0, Zenon
    <3>4. posted["warn"] = <<>> /\ FormatRecords(c["warn"]) = <<e>>
      BY <1>5, <1>8, <2>1, <3>0
    <3>2. Subsequence(<<e>>, I) \in {<<e>>, <<>>}
      BY SubsequenceOne, Zenon
    <3>3. <<>> \o <<e>> \in Seq(Errors) /\ <<>> \o <<>> \in Seq(Errors)
      BY <1>6
    <3> QED
      BY <3>1, <3>2, <3>3, <3>4, Zenon
  <2>2. CASE "warn" \notin DOMAIN c
    BY <1>8, <1>9, <2>2 DEF Channels
  <2> QED
    BY <2>1, <2>2
<1>12. DOMAIN buffer' = DOMAIN b
  BY <1>2, <1>9
<1> QED
  BY <1>9, <1>10, <1>11, <1>12

-----------------------------------------------------------------------------
(* Saving the reports of a list, one by one.                               *)

Stores == {saved \in SUBSET Reports : StoreOK(saved)}

\* Saving a report keeps the store in order.
LEMMA UpsertOK ==
    ASSUME NEW saved \in Stores, NEW report \in Reports
    PROVE  Upsert(saved, report) \in Stores
<1>1. /\ saved \in SUBSET Reports /\ IsFiniteSet(saved)
      /\ \A r, s \in saved : r.id = s.id => r = s
  BY DEF Stores, StoreOK
<1> DEFINE others == {r \in saved : r.id # report.id}
<1>2. IsFiniteSet(others)
  <2>1. others \subseteq saved
    OBVIOUS
  <2> QED
    BY <1>1, <2>1, FS_Subset, Zenon
<1>3. IsFiniteSet(others \cup {report})
  BY <1>2, FS_AddElement, Zenon
<1>4. \A r, s \in others \cup {report} : r.id = s.id => r = s
  BY <1>1
<1> QED
  BY <1>1, <1>3, <1>4 DEF Upsert, Stores, StoreOK

\* The store after each report of the list.
SavingOf(f, saved, list) ==
    /\ f \in [0..Len(list) -> Stores]
    /\ f[0] = saved
    /\ \A i \in 1..Len(list) : f[i] = Upsert(f[i - 1], list[i])

\* Upserted saves the reports of the list one after the other.
LEMMA UpsertedIs ==
    ASSUME NEW saved \in Stores, NEW list \in Seq(Reports)
    PROVE  \E f : SavingOf(f, saved, list) /\ Upserted(saved, list) = f[Len(list)]
<1> DEFINE n == Len(list)
           P(f) == f = [i \in 0..n |-> IF i = 0 THEN saved ELSE Upsert(f[i - 1], list[i])]
           after == CHOOSE f : P(f)
           step == [i \in 1..n |-> [v \in Stores |-> Upsert(v, list[i])]]
<1>1. n \in Nat /\ \A i \in 1..n : list[i] \in Reports
  OBVIOUS
<1>2. Upserted(saved, list) = after[n]
  BY DEF Upserted
<1> HIDE DEF n
<1>3. \A i \in 1..n, v \in Stores : step[i][v] \in Stores
  BY <1>1, UpsertOK
<1>4. PICK g \in [0..n -> Stores] : Iterates(g, n, saved, step)
  <2> HIDE DEF step
  <2> QED
    BY <1>1, <1>3, Recursion
<1>5. ASSUME NEW i \in 1..n
      PROVE  g[i] = Upsert(g[i - 1], list[i])
  <2>1. i - 1 \in 0..n
    BY <1>1
  <2>2. g[i - 1] \in Stores
    BY <2>1
  <2>3. g[i] = step[i][g[i - 1]]
    BY <1>4 DEF Iterates
  <2> QED
    BY <2>2, <2>3
<1>6. P(g)
  BY <1>1, <1>4, <1>5 DEF Iterates
<1>7. P(after)
  <2> HIDE DEF P
  <2> QED
    BY <1>6, Zenon
<1> HIDE DEF after
<1>8. after[0] = saved /\ \A i \in 1..n : after[i] = Upsert(after[i - 1], list[i])
  BY <1>1, <1>7
<1>9. \A i \in 0..n : after[i] \in Stores
  <2>1. ASSUME NEW i \in 1..n, after[i - 1] \in Stores
        PROVE  after[i] \in Stores
    BY <1>1, <1>8, <2>1, UpsertOK
  <2>2. after[0] \in Stores
    BY <1>8
  <2> QED
    BY <1>1, <2>1, <2>2, RecursionType, Zenon
<1>10. after \in [0..n -> Stores]
  BY <1>7, <1>9
<1>11. SavingOf(after, saved, list)
  BY <1>8, <1>10 DEF SavingOf, n
<1> QED
  BY <1>2, <1>11 DEF n

\* Saving reports leaves a well-formed store.
LEMMA UpsertedOK ==
    ASSUME NEW saved, StoreOK(saved), NEW list \in Seq(Reports)
    PROVE  StoreOK(Upserted(saved, list))
<1>1. saved \in Stores
  BY DEF Stores, StoreOK
<1>2. PICK f : SavingOf(f, saved, list) /\ Upserted(saved, list) = f[Len(list)]
  BY <1>1, UpsertedIs
<1>3. Len(list) \in 0..Len(list)
  OBVIOUS
<1>4. f[Len(list)] \in Stores
  BY <1>2, <1>3 DEF SavingOf
<1> QED
  BY <1>2, <1>4 DEF Stores

\* Of the reports under one id, the last in the list is in the store.
LEMMA LastIsSaved ==
    ASSUME NEW saved, StoreOK(saved), NEW list \in Seq(Reports), NEW i \in 1..Len(list)
    PROVE  \E j \in i..Len(list) : /\ list[j].id = list[i].id
                                   /\ list[j] \in Upserted(saved, list)
<1> DEFINE n == Len(list)
<1>1. n \in Nat /\ i \in 1..n
  OBVIOUS
<1>2. PICK f : SavingOf(f, saved, list) /\ Upserted(saved, list) = f[n]
  <2>1. saved \in Stores
    BY DEF Stores, StoreOK
  <2> QED
    BY <2>1, UpsertedIs
<1>3. \A k \in 1..n : f[k] = Upsert(f[k - 1], list[k])
  BY <1>2 DEF SavingOf
<1> HIDE DEF n
<1> DEFINE A == {k \in i..n : list[k].id = list[i].id}
<1>4. PICK j \in A : \A k \in A : k <= j
  <2>1. A \in SUBSET (0..n) /\ i \in A
    BY <1>1
  <2> HIDE DEF A
  <2> QED
    BY <1>1, <2>1, GreatestElement
<1>5. j \in 1..n /\ j \in i..n /\ list[j].id = list[i].id
  BY <1>1
<1>6. \A k \in 1..n : j < k => list[k].id # list[j].id
  BY <1>1, <1>4, <1>5
<1> HIDE DEF A
<1> DEFINE T == {k \in Nat : j + k <= n => list[j] \in f[j + k]}
<1>7. 0 \in T
  <2>1. list[j] \in f[j]
    BY <1>3, <1>5 DEF Upsert
  <2>2. j + 0 = j
    BY <1>5
  <2> QED
    BY <2>1, <2>2
<1>8. ASSUME NEW k \in Nat, k \in T
      PROVE  k + 1 \in T
  <2> SUFFICES ASSUME j + (k + 1) <= n
               PROVE  list[j] \in f[j + (k + 1)]
    OBVIOUS
  <2> DEFINE l == j + (k + 1)
  <2>1. l \in 1..n /\ l - 1 = j + k /\ j < l /\ j + k <= n
    BY <1>1, <1>5
  <2>2. list[j] \in f[j + k]
    BY <1>8, <2>1
  <2>3. f[l] = Upsert(f[j + k], list[l]) /\ list[l].id # list[j].id
    BY <1>3, <1>6, <2>1
  <2> HIDE DEF l
  <2>4. list[j] \in f[l]
    BY <2>2, <2>3 DEF Upsert
  <2> QED
    BY <2>4 DEF l
<1>9. Nat \subseteq T
  <2> HIDE DEF T
  <2> QED
    BY <1>7, <1>8, SetInduction
<1>10. list[j] \in f[n]
  <2>1. n - j \in Nat /\ j + (n - j) = n /\ j + (n - j) <= n
    BY <1>1, <1>5
  <2>2. n - j \in T
    BY <1>9, <2>1
  <2>3. list[j] \in f[j + (n - j)]
    BY <2>1, <2>2
  <2> QED
    BY <2>1, <2>3
<1> QED
  BY <1>2, <1>5, <1>10 DEF n

-----------------------------------------------------------------------------
(* The invariant, step by step.                                            *)

\* The reports of a batch are those of its messages, one list after the other.
LEMMA CollectionType ==
    ASSUME batch \in Seq(UIDs)
    PROVE  /\ Map(Results, LAMBDA r : r.reports) \in Seq(Seq(Reports))
           /\ Len(Map(Results, LAMBDA r : r.reports)) = Len(batch)
           /\ \A i \in 1..Len(batch) :
                 Map(Results, LAMBDA r : r.reports)[i] = Results[i].reports
           /\ Collection \in Seq(Reports)
<1> DEFINE n == Len(batch)
           s == Map(Results, LAMBDA r : r.reports)
<1>1. n \in Nat /\ DOMAIN Results = 1..n /\ \A i \in 1..n : Results[i].reports \in Seq(Reports)
  BY BatchResults
<1> HIDE DEF n
<1>2. s = [i \in 1..n |-> Results[i].reports]
  BY <1>1 DEF Map
<1>3. Collection = FlattenSeq(s)
  BY DEF Collection
<1> HIDE DEF s
<1>4. \A i \in 1..n : s[i] = Results[i].reports /\ s[i] \in Seq(Reports)
  BY <1>1, <1>2
<1>5. s \in Seq(Seq(Reports)) /\ Len(s) = n
  <2>1. s = [i \in 1..n |-> s[i]]
    BY <1>2
  <2> QED
    BY <1>1, <1>4, <2>1, Tabulated, Zenon
<1>6. FlattenSeq(s) \in Seq(Reports)
  BY <1>5, FlattenType, Zenon
<1> QED
  BY <1>3, <1>4, <1>5, <1>6 DEF s, n

\* What a batch gives depends on the batch and the command only.
LEMMA SameBatch ==
    ASSUME batch' = batch, unseen' = unseen, cmd' = cmd
    PROVE  /\ Records' = Records /\ Collection' = Collection
           /\ BatchMessages' = BatchMessages
<1>1. Results' = Results
  BY DEF Results, Map
<1>2. Alerts' = Alerts
  BY <1>1 DEF Alerts, Alerting
<1>3. Warnings' = Warnings
  BY <1>1 DEF Warnings, Notifying, Map
<1>4. Records' = Records
  <2>1. Records = RecordsFor(Alerts, Warnings, "parse_failure")
    BY DEF Records, RecordsFor, Map
  <2>2. Records' = RecordsFor(Alerts', Warnings', "parse_failure")
    BY DEF Records, RecordsFor, Map
  <2> QED
    BY <1>2, <1>3, <2>1, <2>2
<1>5. Collection' = Collection
  BY <1>1 DEF Collection, Map
<1> QED
  BY <1>4, <1>5 DEF BatchMessages

\* Slack got errors, if anything, and nothing else.
OnlyErrors ==
    /\ DOMAIN buffer \in SUBSET Channels
    /\ posted = [h \in Channels |-> posted[h]]
    /\ posted["info"] = <<>> /\ posted["warn"] \in Seq(Errors)

\* In the first steps the handlers are empty, and nothing has been sent.
LEMMA NothingYet ==
    ASSUME ContentInv, pc \in FirstSteps \cup {"collect"}
    PROVE  /\ DOMAIN buffer \in SUBSET Channels
           /\ \A h \in DOMAIN buffer : buffer[h] = <<>>
           /\ posted = NothingPosted /\ OnlyErrors
<1>1. DOMAIN buffer \in SUBSET Channels /\ \A h \in DOMAIN buffer : buffer[h] = <<>>
  BY DEF ContentInv, HandlerInv, FirstSteps
<1>2. /\ posted = [h \in Channels |-> posted[h]]
      /\ posted["info"] = <<>> /\ posted["warn"] = <<>>
  BY DEF ContentInv, PostedInv, FirstSteps
<1>3. posted = NothingPosted
  BY <1>2 DEF NothingPosted, Channels
<1>4. <<>> \in Seq(Errors)
  OBVIOUS
<1> QED
  BY <1>1, <1>2, <1>3, <1>4 DEF OnlyErrors

\* An error before the messages are fetched posts the error report alone.
LEMMA ErrorEnds ==
    ASSUME ContentInv, pc \in FirstSteps, NEW what \in ErrorKinds, NotifySystemError(what)
    PROVE  OnlyErrors'
<1>1. /\ DOMAIN buffer \in SUBSET Channels /\ \A h \in DOMAIN buffer : buffer[h] = <<>>
      /\ posted = NothingPosted
  BY NothingYet
<1>2. NotifySystemErrorVia(buffer, what)
  BY DEF NotifySystemError
<1> QED
  BY <1>1, <1>2, ErrorSent DEF OnlyErrors

\* A command that ends before its messages are fetched, and leaves the
\* notifier alone, posted nothing but error reports.
LEMMA QuietEnds ==
    ASSUME ContentInv, pc \in FirstSteps, UNCHANGED notifier
    PROVE  OnlyErrors'
BY NothingYet DEF OnlyErrors, notifier

\* An invocation that ends before it gets its messages.
LEMMA EndsEarly ==
    ASSUME ContentInv, pc \in FirstSteps, NEW code, Exit(code), OnlyErrors',
           files' \in SUBSET UIDs, StoreOK(reports')
    PROVE  ContentInv'
<1>1. /\ pc' = "done" /\ batch' = batch /\ batch = <<>> /\ webhooks' = webhooks
      /\ batch \in Seq(UIDs) /\ webhooks \in SUBSET Channels
  BY DEF Exit, local, ContentInv, DataInv
<1>2. ~Complete'
  BY <1>1 DEF Complete
<1>3. DataInv'
  BY <1>1 DEF DataInv, Steps, FirstSteps, LaterSteps
<1>4. HandlerInv'
  BY <1>1 DEF HandlerInv, OnlyErrors, LaterSteps
<1>5. SavedInv'
  BY <1>1, <1>2 DEF SavedInv
<1>6. PostedInv'
  <2>1. posted'["warn"] \in Seq(Errors) /\ posted'["info"] = <<>>
    BY DEF OnlyErrors
  <2>2. posted'["warn"] \in Seq(Sent')
    <3>1. Errors \subseteq Sent'
      BY DEF Sent, Errors
    <3> HIDE DEF Errors, Sent
    <3> QED
      BY <2>1, <3>1
  <2>3. posted'["info"] \in Seq({Digest'})
    BY <2>1
  <2>4. posted' \in [Channels -> Seq((Sent \cup {Digest})')]
    <3> DEFINE U == (Sent \cup {Digest})'
    <3>1. Sent' \subseteq U /\ {Digest'} \subseteq U
      OBVIOUS
    <3> HIDE DEF U
    <3>2. posted'["warn"] \in Seq(U) /\ posted'["info"] \in Seq(U)
      BY <2>2, <2>3, <3>1
    <3>3. posted' = [h \in Channels |-> posted'[h]]
      BY DEF OnlyErrors
    <3>4. posted' \in [Channels -> Seq(U)]
      BY <3>2, <3>3 DEF Channels
    <3> QED
      BY <3>4 DEF U
  <2> QED
    BY <1>1, <1>2, <2>2, <2>3, <2>4 DEF PostedInv
<1> QED
  BY <1>3, <1>4, <1>5, <1>6 DEF ContentInv

\* An invocation that goes on without having sent or saved anything.
LEMMA GoesOn ==
    ASSUME ContentInv, pc \in FirstSteps, pc' \in FirstSteps \cup {"collect"},
           posted' = posted, DataInv', HandlerInv'
    PROVE  ContentInv'
<1>1. pc' \notin {"done", "save", "flush", "markSeen"}
  BY DEF FirstSteps
<1>2. posted' = NothingPosted
  BY NothingYet
<1>3. SavedInv'
  BY <1>1 DEF SavedInv, Complete
<1>4. PostedInv'
  <2>1. posted'["warn"] = <<>> /\ posted'["info"] = <<>>
    BY <1>2 DEF NothingPosted
  <2>2. /\ <<>> \in Seq(Sent') /\ <<>> \in Seq({Digest'})
        /\ <<>> \in Seq((Sent \cup {Digest})')
    OBVIOUS
  <2>3. posted' \in [Channels -> Seq((Sent \cup {Digest})')]
    BY <1>2, <2>2 DEF NothingPosted, Channels
  <2> QED
    BY <1>1, <2>1, <2>2, <2>3 DEF PostedInv, Complete
<1> QED
  BY <1>3, <1>4 DEF ContentInv

\* Accepting or refusing a command line.
LEMMA InvokeContent ==
    ASSUME ContentInv, NEW c, Invoke(c)
    PROVE  ContentInv'
<1>1. /\ pc' \in {"boot", "done"} /\ batch' = <<>> /\ buffer' = NoHandlers
      /\ posted' = NothingPosted /\ webhooks' = webhooks
      /\ files' = files /\ reports' = reports
  BY DEF Invoke, store
<1>2. ~Complete'
  BY <1>1 DEF Complete
<1>3. DataInv'
  BY <1>1 DEF ContentInv, DataInv, Steps, FirstSteps, LaterSteps
<1>4. HandlerInv'
  BY <1>1 DEF HandlerInv, NoHandlers, LaterSteps
<1>5. SavedInv'
  BY <1>1, <1>2 DEF SavedInv
<1>6. PostedInv'
  <2>1. posted'["warn"] = <<>> /\ posted'["info"] = <<>>
    BY <1>1 DEF NothingPosted
  <2>2. /\ <<>> \in Seq(Sent') /\ <<>> \in Seq({Digest'})
        /\ <<>> \in Seq((Sent \cup {Digest})')
    OBVIOUS
  <2>3. posted' \in [Channels -> Seq((Sent \cup {Digest})')]
    BY <1>1, <2>2 DEF NothingPosted, Channels
  <2> QED
    BY <1>1, <1>2, <2>1, <2>2, <2>3 DEF PostedInv
<1> QED
  BY <1>3, <1>4, <1>5, <1>6 DEF ContentInv

\* The bootstrap.
LEMMA BootstrapContent ==
    ASSUME ContentInv, Bootstrap
    PROVE  ContentInv'
<1>1. /\ files' = files /\ reports' = reports /\ pc \in FirstSteps
      /\ files' \in SUBSET UIDs /\ StoreOK(reports')
  BY DEF ContentInv, DataInv, Bootstrap, BootFails, Boot, BuildNotifier, AcquireWriterLock,
         OpenStore, store, FirstSteps
<1>2. ASSUME NEW step \in FirstSteps, Goto(step), UNCHANGED local, UNCHANGED posted, HandlerInv'
      PROVE  ContentInv'
  <2>1. pc' = step /\ batch' = batch /\ cmd' = cmd /\ webhooks' = webhooks /\ posted' = posted
    BY <1>2 DEF Goto, local
  <2>2. DataInv'
    BY <1>1, <2>1 DEF ContentInv, DataInv, Steps, FirstSteps, LaterSteps
  <2> QED
    BY <1>1, <1>2, <2>1, <2>2, GoesOn
<1>3. CASE BootFails
  <2>1. Exit(1) /\ OnlyErrors'
    BY <1>1, <1>3, QuietEnds DEF BootFails
  <2> QED
    BY <1>1, <2>1, EndsEarly
<1>4. CASE Boot
  <2>1. /\ Goto(IF cmd.sub = "summary" THEN "run" ELSE "notifier")
        /\ UNCHANGED local /\ UNCHANGED posted /\ buffer' = buffer /\ pc = "boot"
    BY <1>4 DEF Boot, notifier
  <2>2. HandlerInv'
    BY <1>1, <2>1, NothingYet DEF HandlerInv, Goto, LaterSteps
  <2>3. (IF cmd.sub = "summary" THEN "run" ELSE "notifier") \in FirstSteps
    BY DEF FirstSteps
  <2> QED
    BY <1>2, <2>1, <2>2, <2>3
<1>5. CASE BuildNotifier
  <2>1. CASE cmd.sub = "recover" /\ Goto("lock") /\ UNCHANGED <<buffer, local>>
    <3>1. UNCHANGED posted /\ UNCHANGED local /\ buffer' = buffer
      BY <1>5, <2>1 DEF BuildNotifier
    <3>2. HandlerInv'
      BY <1>1, <2>1, <3>1, NothingYet DEF HandlerInv, Goto
    <3>3. "lock" \in FirstSteps
      BY DEF FirstSteps
    <3> QED
      BY <1>2, <2>1, <3>1, <3>2, <3>3
  <2>2. CASE Buildable /\ buffer' = Built /\ Goto("lock") /\ UNCHANGED local
    <3>1. UNCHANGED posted
      BY <1>5 DEF BuildNotifier
    <3>2. /\ webhooks \in SUBSET Channels /\ webhooks # {"info"}
      BY <2>2 DEF ContentInv, DataInv, Buildable
    <3>3. Handlers \in SUBSET Channels /\ "warn" \in Handlers
      BY <3>2 DEF Handlers, Channels
    <3>4. HandlerInv'
      BY <2>2, <3>3 DEF HandlerInv, Goto, Built
    <3>5. "lock" \in FirstSteps
      BY DEF FirstSteps
    <3> QED
      BY <1>2, <2>2, <3>1, <3>4, <3>5
  <2>3. CASE Exit(1) /\ UNCHANGED buffer
    <3>1. UNCHANGED notifier
      BY <1>5, <2>3 DEF BuildNotifier, notifier
    <3> QED
      BY <1>1, <2>3, <3>1, QuietEnds, EndsEarly
  <2> QED
    BY <1>5, <2>1, <2>2, <2>3 DEF BuildNotifier
<1>6. CASE AcquireWriterLock
  <2>1. CASE Goto("open") /\ UNCHANGED <<notifier, local>>
    <3>1. UNCHANGED posted /\ UNCHANGED local /\ buffer' = buffer /\ pc = "lock"
      BY <1>6, <2>1 DEF AcquireWriterLock, notifier
    <3>2. HandlerInv'
      BY <1>1, <2>1, <3>1, NothingYet DEF ContentInv, HandlerInv, Goto
    <3>3. "open" \in FirstSteps
      BY DEF FirstSteps
    <3> QED
      BY <1>2, <2>1, <3>1, <3>2, <3>3
  <2>2. ASSUME NEW what \in {"lock_held", "store_permission"}, NotifySystemError(what), Exit(1)
        PROVE  ContentInv'
    <3>1. what \in ErrorKinds
      BY DEF ErrorKinds
    <3>2. OnlyErrors'
      BY <1>1, <2>2, <3>1, ErrorEnds
    <3> QED
      BY <1>1, <2>2, <3>2, EndsEarly
  <2> QED
    BY <1>6, <2>1, <2>2 DEF AcquireWriterLock
<1>7. CASE OpenStore
  <2>1. CASE Goto("run") /\ UNCHANGED <<notifier, local>>
    <3>1. UNCHANGED posted /\ UNCHANGED local /\ buffer' = buffer /\ pc = "open"
      BY <1>7, <2>1 DEF OpenStore, notifier
    <3>2. HandlerInv'
      BY <1>1, <2>1, <3>1, NothingYet DEF ContentInv, HandlerInv, Goto
    <3>3. "run" \in FirstSteps
      BY DEF FirstSteps
    <3> QED
      BY <1>2, <2>1, <3>1, <3>2, <3>3
  <2>2. CASE NotifySystemError("open") /\ Exit(1)
    <3>1. "open" \in ErrorKinds
      BY DEF ErrorKinds
    <3>2. OnlyErrors'
      BY <1>1, <2>2, <3>1, ErrorEnds
    <3> QED
      BY <1>1, <2>2, <3>2, EndsEarly
  <2> QED
    BY <1>7, <2>1, <2>2 DEF OpenStore
<1> QED
  BY <1>3, <1>4, <1>5, <1>6, <1>7 DEF Bootstrap

\* The ends of fetch, reprocess, gc and recover that send an error at most.
LEMMA FailureContent ==
    ASSUME ContentInv,
           \/ FetchFails \/ UIDValidityChanged \/ Gc \/ Recover
           \/ \E window \in SUBSET UIDs : DownloadFails(window)
    PROVE  ContentInv'
<1>1. /\ pc \in FirstSteps /\ files \in SUBSET UIDs /\ StoreOK(reports)
  BY DEF ContentInv, DataInv, FetchFails, UIDValidityChanged, DownloadFails, Gc, Recover,
         FirstSteps
<1>2. \E code : Exit(code)
  BY DEF FetchFails, UIDValidityChanged, DownloadFails, Gc, Recover
<1>3. OnlyErrors'
  <2>1. \/ \E what \in ErrorKinds : NotifySystemError(what)
        \/ UNCHANGED notifier
    BY DEF FetchFails, UIDValidityChanged, DownloadFails, Gc, Recover, ErrorKinds
  <2> QED
    BY <1>1, <2>1, ErrorEnds, QuietEnds
<1>4. files' \in SUBSET UIDs
  BY <1>1 DEF FetchFails, UIDValidityChanged, DownloadFails, Gc, Recover, store
<1>5. StoreOK(reports')
  <2>1. reports' \subseteq reports
    BY DEF FetchFails, UIDValidityChanged, DownloadFails, Gc, Recover, store
  <2>2. IsFiniteSet(reports')
    BY <1>1, <2>1, FS_Subset DEF StoreOK
  <2> QED
    BY <1>1, <2>1, <2>2 DEF StoreOK
<1> QED
  BY <1>1, <1>2, <1>3, <1>4, <1>5, EndsEarly

\* The messages of a batch are on the server.
LEMMA WindowBatch ==
    ASSUME NEW W \in SUBSET UIDs
    PROVE  Ascending(W) \in Seq(UIDs)
<1>1. IsFiniteSet(UIDs) /\ UIDs \subseteq Nat
  BY MailboxAssumption DEF UIDs
<1>2. W \in SUBSET Nat /\ IsFiniteSet(W)
  BY <1>1, FS_Subset
<1>3. Ascending(W) \in Seq(W)
  BY <1>2, AscendingType
<1> DEFINE s == Ascending(W)
<1> HIDE DEF s
<1>4. s \in Seq(UIDs)
  BY <1>3 DEF s
<1> QED
  BY <1>4 DEF s

\* fetch gets its messages, or ends as a dry run.
LEMMA FetchContent ==
    ASSUME ContentInv, NEW window \in SUBSET UIDs, FetchDownload(window)
    PROVE  ContentInv'
<1>1. /\ pc = "run" /\ pc \in FirstSteps /\ cmd.sub = "fetch" /\ reports' = reports
      /\ files \in SUBSET UIDs /\ StoreOK(reports)
  BY DEF FetchDownload, FirstSteps, ContentInv, DataInv
<1>2. CASE cmd.dryRun /\ Flush(buffer, TRUE) /\ Exit(0) /\ UNCHANGED files
  <2>1. posted' = posted /\ DOMAIN buffer' = DOMAIN buffer
    BY <1>2 DEF Flush
  <2>2. OnlyErrors'
    BY <1>1, <2>1, NothingYet DEF OnlyErrors
  <2> QED
    BY <1>1, <1>2, <2>2, EndsEarly
<1>3. CASE /\ files' = files \cup window
           /\ batch' = Ascending(window \ (seen \cap files))
           /\ Goto("collect")
           /\ UNCHANGED <<collected, notifier>>
  <2>1. pc' = "collect" /\ posted' = posted /\ buffer' = buffer /\ cmd' = cmd /\ webhooks' = webhooks
    BY <1>3 DEF Goto, notifier
  <2>2. batch' \in Seq(UIDs)
    BY <1>3, WindowBatch
  <2>3. DataInv'
    BY <1>1, <1>3, <2>1, <2>2 DEF ContentInv, DataInv, Steps, FirstSteps, LaterSteps
  <2>4. HandlerInv'
    BY <1>1, <2>1, NothingYet DEF ContentInv, HandlerInv
  <2> QED
    BY <1>1, <2>1, <2>3, <2>4, GoesOn
<1> QED
  BY <1>2, <1>3 DEF FetchDownload

\* reprocess loads its messages, or fails.
LEMMA LoadContent ==
    ASSUME ContentInv, LoadEmails
    PROVE  ContentInv'
<1>1. /\ pc = "run" /\ pc \in FirstSteps /\ cmd.sub = "reprocess"
      /\ reports' = reports /\ files' = files
      /\ files \in SUBSET UIDs /\ StoreOK(reports)
  BY DEF LoadEmails, FirstSteps, ContentInv, DataInv, store
<1>2. CASE Exit(1) /\ UNCHANGED notifier
  BY <1>1, <1>2, QuietEnds, EndsEarly
<1>3. CASE NotifySystemError("store_corruption") /\ Exit(1)
  <2>1. "store_corruption" \in ErrorKinds
    BY DEF ErrorKinds
  <2>2. OnlyErrors'
    BY <1>1, <1>3, <2>1, ErrorEnds
  <2> QED
    BY <1>1, <1>3, <2>2, EndsEarly
<1>4. CASE /\ batch' = Ascending(files)
           /\ Goto("collect")
           /\ UNCHANGED <<unseen, collected, notifier>>
  <2>1. pc' = "collect" /\ posted' = posted /\ buffer' = buffer /\ cmd' = cmd /\ webhooks' = webhooks
    BY <1>4 DEF Goto, notifier
  <2>2. batch' \in Seq(UIDs)
    BY <1>1, <1>4, WindowBatch
  <2>3. DataInv'
    BY <1>1, <2>1, <2>2 DEF ContentInv, DataInv, Steps, FirstSteps, LaterSteps
  <2>4. HandlerInv'
    BY <1>1, <2>1, NothingYet DEF ContentInv, HandlerInv
  <2> QED
    BY <1>1, <2>1, <2>3, <2>4, GoesOn
<1> QED
  BY <1>2, <1>3, <1>4 DEF LoadEmails

\* The records of the batch go to the handler of the error webhook.
LEMMA CollectContent ==
    ASSUME ContentInv, CollectReports
    PROVE  ContentInv'
<1>1. /\ pc = "collect" /\ pc' = "save" /\ cmd' = cmd /\ webhooks' = webhooks
      /\ batch' = batch /\ unseen' = unseen /\ posted' = posted
      /\ files' = files /\ reports' = reports
      /\ collected' = Collection /\ buffer' = Logged(buffer, "warn", Records)
  BY DEF CollectReports, Goto, store, Collection
<1>2. Records' = Records /\ Collection' = Collection
  BY <1>1, SameBatch
<1>3. /\ DOMAIN buffer \in SUBSET Channels /\ \A h \in DOMAIN buffer : buffer[h] = <<>>
      /\ posted = NothingPosted
  BY <1>1, NothingYet
<1>4. DataInv'
  BY <1>1 DEF ContentInv, DataInv, Steps, FirstSteps, LaterSteps
<1>5. HandlerInv'
  <2>1. <<>> \o Records = Records
    BY BatchMessagesType DEF ContentInv, DataInv
  <2>2. DOMAIN buffer' = DOMAIN buffer
    BY <1>1 DEF Logged
  <2>3. \A h \in DOMAIN buffer : buffer'[h] = IF h = "warn" THEN Records ELSE <<>>
    BY <1>1, <1>3, <2>1 DEF Logged, Enabled, Channels
  <2>4. cmd.sub \in {"fetch", "reprocess"} => "warn" \in DOMAIN buffer
    BY <1>1 DEF ContentInv, HandlerInv, LaterSteps
  <2> QED
    BY <1>1, <1>2, <1>3, <2>2, <2>3, <2>4 DEF HandlerInv
<1>6. SavedInv'
  BY <1>1, <1>2 DEF SavedInv, Complete
<1>7. PostedInv'
  <2>1. posted'["warn"] = <<>> /\ posted'["info"] = <<>> /\ posted' = NothingPosted
    BY <1>1, <1>3 DEF NothingPosted
  <2>2. /\ <<>> \in Seq(Sent') /\ <<>> \in Seq({Digest'})
        /\ <<>> \in Seq((Sent \cup {Digest})')
    OBVIOUS
  <2>3. posted' \in [Channels -> Seq((Sent \cup {Digest})')]
    BY <2>1, <2>2 DEF NothingPosted, Channels
  <2> QED
    BY <1>1, <2>1, <2>2, <2>3 DEF PostedInv, Complete
<1> QED
  BY <1>4, <1>5, <1>6, <1>7 DEF ContentInv

\* The reports are saved.
LEMMA SaveContent ==
    ASSUME ContentInv, SaveReports
    PROVE  ContentInv'
<1>1. /\ pc = "save" /\ pc' \in {"flush", "done"} /\ cmd' = cmd /\ webhooks' = webhooks
      /\ batch' = batch /\ unseen' = unseen /\ posted' = posted /\ buffer' = buffer
      /\ files' = files
      /\ pc' = "done" /\ exit' = 0 => ~Notifying
      /\ \/ reports' = reports /\ pc' = "done" /\ exit' = 1
         \/ reports' = Upserted(reports, collected)
  BY DEF SaveReports, Exit, Goto, local, notifier
<1>2. Records' = Records /\ Collection' = Collection
  BY <1>1, SameBatch
<1>3. /\ collected = Collection /\ Collection \in Seq(Reports) /\ StoreOK(reports)
      /\ batch \in Seq(UIDs)
  BY <1>1, CollectionType DEF ContentInv, SavedInv, DataInv
<1>4. StoreOK(reports')
  BY <1>1, <1>3, UpsertedOK
<1>5. DataInv'
  BY <1>1, <1>4 DEF ContentInv, DataInv, Steps, FirstSteps, LaterSteps
<1>6. HandlerInv'
  BY <1>1, <1>2 DEF ContentInv, HandlerInv, LaterSteps
<1>7. ~Complete'
  <2>1. Notifying' = Notifying
    BY <1>1 DEF Notifying
  <2> QED
    BY <1>1, <2>1 DEF Complete
<1>8. SavedInv'
  <2>1. ASSUME pc' \in {"flush", "markSeen"}
        PROVE  \E old : StoreOK(old) /\ reports' = Upserted(old, Collection')
    BY <1>1, <1>2, <1>3, <2>1
  <2> QED
    BY <1>1, <1>7, <2>1 DEF SavedInv
<1>9. PostedInv'
  <2>1. /\ posted["warn"] = <<>> /\ posted["info"] = <<>>
        /\ posted = [h \in Channels |-> posted[h]]
    BY <1>1 DEF ContentInv, PostedInv
  <2>2. /\ <<>> \in Seq(Sent') /\ <<>> \in Seq({Digest'})
        /\ <<>> \in Seq((Sent \cup {Digest})')
    OBVIOUS
  <2>3. posted' \in [Channels -> Seq((Sent \cup {Digest})')]
    BY <1>1, <2>1, <2>2 DEF Channels
  <2> QED
    BY <1>1, <1>7, <2>1, <2>2, <2>3 DEF PostedInv
<1> QED
  BY <1>5, <1>6, <1>8, <1>9 DEF ContentInv

\* What is posted: alerts, warnings and errors on one channel, the digest on the
\* other.
LEMMA PostedType ==
    ASSUME posted' = [h \in Channels |-> posted'[h]],
           posted'["warn"] \in Seq(Sent'), posted'["info"] \in Seq({Digest'})
    PROVE  posted' \in [Channels -> Seq((Sent \cup {Digest})')]
<1> DEFINE U == (Sent \cup {Digest})'
<1>1. Sent' \subseteq U /\ {Digest'} \subseteq U
  OBVIOUS
<1> HIDE DEF U
<1>2. posted'["warn"] \in Seq(U) /\ posted'["info"] \in Seq(U)
  BY <1>1
<1>3. posted' \in [Channels -> Seq(U)]
  BY <1>2 DEF Channels
<1> QED
  BY <1>3 DEF U

\* The records are sent, all of them if there is no error.
LEMMA FlushContent ==
    ASSUME ContentInv, DryRunInv, FlushNotifications
    PROVE  ContentInv'
<1>1. PICK ok \in BOOLEAN : /\ Flush(buffer, ok)
                            /\ IF ~ok THEN Exit(1)
                               ELSE IF cmd.sub = "reprocess" THEN Exit(0)
                               ELSE Goto("markSeen") /\ UNCHANGED local
  BY DEF FlushNotifications
<1>2. /\ pc = "flush" /\ pc' \in {"markSeen", "done"} /\ cmd' = cmd /\ webhooks' = webhooks
      /\ batch' = batch /\ unseen' = unseen /\ files' = files /\ reports' = reports
      /\ ~ok => pc' = "done" /\ exit' = 1
  BY <1>1 DEF FlushNotifications, Exit, Goto, local, store
<1>3. ~cmd.dryRun /\ batch \in Seq(UIDs) /\ "warn" \in DOMAIN buffer
  BY <1>2 DEF DryRunInv, StepInv, DryRunSteps, ContentInv, DataInv, HandlerInv, LaterSteps
<1>4. /\ Records' = Records /\ Collection' = Collection /\ BatchMessages' = BatchMessages
  BY <1>2, SameBatch
<1>5. BatchMessages \in Seq(BatchRange)
  BY <1>3, BatchMessagesType
<1>6. \A h \in DOMAIN buffer :
          /\ FormatRecords(buffer[h]) = IF h = "warn" THEN BatchMessages ELSE <<>>
          /\ h \in Channels
  <2>1. FormatRecords(<<>>) = <<>>
    BY OneRecord, Zenon
  <2>2. \A h \in DOMAIN buffer : buffer[h] = IF h = "warn" THEN Records ELSE <<>>
    BY <1>2 DEF ContentInv, HandlerInv
  <2>3. DOMAIN buffer \in SUBSET Channels
    BY DEF ContentInv, HandlerInv
  <2> QED
    BY <2>1, <2>2, <2>3 DEF BatchMessages
<1>7. \A h \in DOMAIN buffer : FormatRecords(buffer[h]) \in Seq(BatchRange)
  <2>1. <<>> \in Seq(BatchRange)
    OBVIOUS
  <2> QED
    BY <1>5, <1>6, <2>1, Zenon
<1>8. /\ posted["info"] = <<>> /\ posted["warn"] = <<>>
      /\ posted \in [Channels -> Seq(Sent \cup {Digest})]
  BY <1>2 DEF ContentInv, PostedInv
<1>9. /\ buffer' = [h \in DOMAIN buffer |-> <<>>]
      /\ posted' = [h \in Channels |-> posted'[h]]
      /\ \A h \in Channels \ DOMAIN buffer : posted'[h] = posted[h]
      /\ \A h \in Channels \cap DOMAIN buffer : \E I :
             posted'[h] = posted[h] \o Subsequence(FormatRecords(buffer[h]), I)
      /\ ok /\ ~cmd.dryRun => \A h \in Channels \cap DOMAIN buffer :
             posted'[h] = posted[h] \o FormatRecords(buffer[h])
  BY <1>1, <1>7, <1>8, FlushAdds
<1>10. posted'["info"] = <<>>
  <2>1. CASE "info" \in DOMAIN buffer
    <3>1. "info" \in Channels \cap DOMAIN buffer
      BY <2>1 DEF Channels
    <3>2. PICK I : posted'["info"] = posted["info"] \o Subsequence(FormatRecords(buffer["info"]), I)
      BY <1>9, <3>1, Zenon
    <3>3. FormatRecords(buffer["info"]) = <<>>
      BY <1>6, <2>1
    <3>4. Subsequence(<<>>, I) = <<>>
      BY SubsequenceOne, Zenon
    <3>5. <<>> \o <<>> = <<>>
      OBVIOUS
    <3> QED
      BY <1>8, <3>2, <3>3, <3>4, <3>5, Zenon
  <2>2. CASE "info" \notin DOMAIN buffer
    BY <1>8, <1>9, <2>2 DEF Channels
  <2> QED
    BY <2>1, <2>2
<1>11. "warn" \in Channels \cap DOMAIN buffer /\ FormatRecords(buffer["warn"]) = BatchMessages
  BY <1>3, <1>6 DEF Channels
<1> DEFINE m == BatchMessages
<1>12. posted'["warn"] \in Seq(BatchRange)
  <2>1. PICK I : posted'["warn"] = posted["warn"] \o Subsequence(FormatRecords(buffer["warn"]), I)
    BY <1>9, <1>11, Zenon
  <2>2. posted'["warn"] = <<>> \o Subsequence(m, I)
    BY <1>8, <1>11, <2>1, Zenon
  <2>3. Subsequence(m, I) \in Seq(BatchRange)
    BY <1>5, SubsequenceListed, Zenon
  <2> DEFINE s == Subsequence(m, I)
  <2> HIDE DEF s
  <2>4. s \in Seq(BatchRange) /\ <<>> \o s = s
    BY <2>3 DEF s
  <2> QED
    BY <2>2, <2>4 DEF s
<1>13. ok => posted'["warn"] = m
  <2> SUFFICES ASSUME ok PROVE posted'["warn"] = m
    OBVIOUS
  <2>1. posted'["warn"] = posted["warn"] \o FormatRecords(buffer["warn"])
    BY <1>3, <1>9, <1>11, Zenon
  <2>2. <<>> \o m = m
    <3> HIDE DEF m
    <3> QED
      BY <1>5 DEF m
  <2> QED
    BY <1>8, <1>11, <2>1, <2>2, Zenon
<1>14. DataInv'
  BY <1>2 DEF ContentInv, DataInv, Steps, FirstSteps, LaterSteps
<1>15. HandlerInv'
  BY <1>2, <1>3, <1>9 DEF ContentInv, HandlerInv
<1>16. SavedInv'
  <2>1. \E old : StoreOK(old) /\ reports = Upserted(old, Collection)
    BY <1>2 DEF ContentInv, SavedInv
  <2> QED
    BY <1>2, <1>4, <2>1 DEF SavedInv
<1>17. PostedInv'
  <2>1. posted'["warn"] \in Seq(Sent')
    <3>1. BatchRange \subseteq Sent'
      BY <1>4 DEF Sent, BatchRange
    <3> HIDE DEF Sent, BatchRange
    <3> QED
      BY <1>12, <3>1
  <2>2. posted'["info"] \in Seq({Digest'})
    BY <1>10
  <2>3. posted' \in [Channels -> Seq((Sent \cup {Digest})')]
    BY <1>9, <2>1, <2>2, PostedType
  <2>4. Complete' => ok
    BY <1>2 DEF Complete
  <2>5. pc' = "markSeen" => ok
    BY <1>2
  <2>6. /\ Complete' => posted'["warn"] = BatchMessages'
        /\ pc' # "done" => posted'["warn"] = BatchMessages'
    BY <1>2, <1>4, <1>13, <2>4, <2>5
  <2> QED
    BY <1>2, <1>10, <2>1, <2>2, <2>3, <2>6 DEF PostedInv
<1> QED
  BY <1>14, <1>15, <1>16, <1>17 DEF ContentInv

\* The last step of fetch adds a warning at most.
LEMMA MarkSeenContent ==
    ASSUME ContentInv, MarkSeen
    PROVE  ContentInv'
<1>1. /\ pc = "markSeen" /\ pc' = "done" /\ cmd' = cmd /\ webhooks' = webhooks
      /\ batch' = batch /\ unseen' = unseen /\ files' = files /\ reports' = reports
  BY DEF MarkSeen, Exit, local, store
<1>2. /\ batch \in Seq(UIDs) /\ "warn" \in DOMAIN buffer
      /\ DOMAIN buffer \in SUBSET Channels /\ \A h \in DOMAIN buffer : buffer[h] = <<>>
  BY <1>1 DEF ContentInv, DataInv, HandlerInv, LaterSteps
<1>3. Collection' = Collection /\ BatchMessages' = BatchMessages
  BY <1>1, SameBatch
<1>4. BatchMessages \in Seq(BatchRange)
  BY <1>2, BatchMessagesType
<1>5. /\ posted["info"] = <<>> /\ posted["warn"] = BatchMessages
      /\ posted \in [Channels -> Seq(Sent \cup {Digest})]
  BY <1>1 DEF ContentInv, PostedInv
<1> DEFINE m == BatchMessages
           r == [kind |-> "warning", what |-> "mailbox_read_only"]
           b == Logged(buffer, "warn", <<r>>)
<1>6. /\ DOMAIN buffer' \in SUBSET Channels
      /\ posted' = [h \in Channels |-> posted'[h]]
      /\ posted'["info"] = <<>>
      /\ posted'["warn"] \in {m, m \o <<ReadOnly>>}
  <2>1. CASE UNCHANGED notifier
    BY <1>2, <1>5, <2>1 DEF notifier
  <2>2. ASSUME NEW ok \in BOOLEAN, Flush(b, ok)
        PROVE  /\ DOMAIN buffer' \in SUBSET Channels
               /\ posted' = [h \in Channels |-> posted'[h]]
               /\ posted'["info"] = <<>>
               /\ posted'["warn"] \in {m, m \o <<ReadOnly>>}
    <3>1. DOMAIN b = DOMAIN buffer
      BY DEF Logged
    <3>2. \A h \in DOMAIN buffer : b[h] = IF h = "warn" THEN <<r>> ELSE <<>>
      <4>1. <<>> \o <<r>> = <<r>>
        OBVIOUS
      <4> HIDE DEF r
      <4> QED
        BY <1>2, <4>1 DEF Logged, Enabled, Channels
    <3>3. FormatRecords(<<r>>) = <<ReadOnly>> /\ FormatRecords(<<>>) = <<>>
      <4>1. r.kind = "warning" /\ r.what = "mailbox_read_only"
        OBVIOUS
      <4> HIDE DEF r
      <4> QED
        BY <4>1, OneRecord DEF ReadOnly
    <3> HIDE DEF b, r
    <3>4. \A h \in DOMAIN b : FormatRecords(b[h]) = IF h = "warn" THEN <<ReadOnly>> ELSE <<>>
      BY <3>1, <3>2, <3>3
    <3>5. \A h \in DOMAIN b : FormatRecords(b[h]) \in Seq({ReadOnly})
      <4>1. <<ReadOnly>> \in Seq({ReadOnly}) /\ <<>> \in Seq({ReadOnly})
        OBVIOUS
      <4> QED
        BY <3>4, <4>1, Zenon
    <3>6. /\ buffer' = [h \in DOMAIN b |-> <<>>]
          /\ posted' = [h \in Channels |-> posted'[h]]
          /\ \A h \in Channels \ DOMAIN b : posted'[h] = posted[h]
          /\ \A h \in Channels \cap DOMAIN b : \E I :
                 posted'[h] = posted[h] \o Subsequence(FormatRecords(b[h]), I)
      BY <1>5, <2>2, <3>5, FlushAdds, ZenonT(60)
    <3>7. posted'["info"] = <<>>
      <4>1. CASE "info" \in DOMAIN b
        <5>1. "info" \in Channels \cap DOMAIN b
          BY <4>1 DEF Channels
        <5>2. PICK I : posted'["info"] = posted["info"] \o Subsequence(FormatRecords(b["info"]), I)
          BY <3>6, <5>1, Zenon
        <5>3. FormatRecords(b["info"]) = <<>>
          BY <3>4, <4>1
        <5>4. Subsequence(<<>>, I) = <<>>
          BY SubsequenceOne, Zenon
        <5>5. <<>> \o <<>> = <<>>
          OBVIOUS
        <5> QED
          BY <1>5, <5>2, <5>3, <5>4, <5>5, Zenon
      <4>2. CASE "info" \notin DOMAIN b
        BY <1>5, <3>6, <4>2 DEF Channels
      <4> QED
        BY <4>1, <4>2
    <3>8. posted'["warn"] \in {m, m \o <<ReadOnly>>}
      <4>1. "warn" \in Channels \cap DOMAIN b
        BY <1>2, <3>1 DEF Channels
      <4>2. PICK I : posted'["warn"] = posted["warn"] \o Subsequence(FormatRecords(b["warn"]), I)
        BY <3>6, <4>1, Zenon
      <4>3. FormatRecords(b["warn"]) = <<ReadOnly>>
        BY <3>4, <4>1
      <4>4. Subsequence(<<ReadOnly>>, I) \in {<<ReadOnly>>, <<>>}
        BY SubsequenceOne, Zenon
      <4>5. m \o <<>> = m
        <5> HIDE DEF m
        <5> QED
          BY <1>4 DEF m
      <4> QED
        BY <1>5, <4>2, <4>3, <4>4, <4>5, Zenon
    <3> QED
      BY <1>2, <3>1, <3>6, <3>7, <3>8
  <2> QED
    BY <2>1, <2>2 DEF MarkSeen
<1>7. DataInv'
  BY <1>1 DEF ContentInv, DataInv, Steps, FirstSteps, LaterSteps
<1>8. HandlerInv'
  BY <1>1, <1>6 DEF HandlerInv, LaterSteps
<1>9. SavedInv'
  <2>1. \E old : StoreOK(old) /\ reports = Upserted(old, Collection)
    BY <1>1 DEF ContentInv, SavedInv
  <2> QED
    BY <1>1, <1>3, <2>1 DEF SavedInv
<1>10. PostedInv'
  <2>1. posted'["warn"] \in Seq(Sent')
    <3>1. BatchRange \subseteq Sent' /\ ReadOnly \in Sent'
      BY <1>3 DEF Sent, BatchRange, ReadOnly
    <3> HIDE DEF m
    <3>2. m \in Seq(Sent') /\ <<ReadOnly>> \in Seq(Sent')
      BY <1>4, <3>1 DEF m
    <3>3. m \o <<ReadOnly>> \in Seq(Sent')
      BY <3>2
    <3> QED
      BY <1>6, <3>2, <3>3
  <2>2. posted'["info"] \in Seq({Digest'})
    BY <1>6
  <2>3. posted' \in [Channels -> Seq((Sent \cup {Digest})')]
    BY <1>6, <2>1, <2>2, PostedType
  <2>4. posted'["warn"] \in {BatchMessages', BatchMessages' \o <<ReadOnly'>>}
    BY <1>3, <1>6 DEF ReadOnly
  <2> QED
    BY <1>1, <2>1, <2>2, <2>3, <2>4 DEF PostedInv
<1> QED
  BY <1>7, <1>8, <1>9, <1>10 DEF ContentInv

\* summary sends an error, or the digest of the store.
LEMMA SummaryContent ==
    ASSUME ContentInv, Summary
    PROVE  ContentInv'
<1> DEFINE summary == GenerateSummary(reports, Start, End)
<1>1. /\ pc \in FirstSteps /\ files' = files /\ reports' = reports
      /\ files' \in SUBSET UIDs /\ StoreOK(reports')
  BY DEF ContentInv, DataInv, Summary, store, FirstSteps
<1>2. /\ DOMAIN buffer \in SUBSET Channels /\ posted = NothingPosted
  BY <1>1, NothingYet
<1>3. /\ DOMAIN Built \in SUBSET Channels /\ \A h \in DOMAIN Built : Built[h] = <<>>
  <2>1. webhooks \in SUBSET Channels
    BY DEF ContentInv, DataInv
  <2> QED
    BY <2>1 DEF Built, Handlers, Channels
<1>4. ASSUME NEW code, Exit(code), UNCHANGED notifier
      PROVE  ContentInv'
  BY <1>1, <1>4, QuietEnds, EndsEarly
<1>5. CASE NotifySystemErrorVia(Built, "recovery_required") /\ Exit(1)
  <2>1. "recovery_required" \in ErrorKinds
    BY DEF ErrorKinds
  <2>2. OnlyErrors'
    BY <1>2, <1>3, <1>5, <2>1, ErrorSent DEF OnlyErrors
  <2> QED
    BY <1>1, <1>5, <2>2, EndsEarly
<1> DEFINE r == [kind |-> "summary", summary |-> summary]
           b == Logged(Built, "info", <<r>>)
<1>6. ASSUME NEW ok \in BOOLEAN, Flush(b, ok), Exit(0)
      PROVE  ContentInv'
  <2>1. /\ pc' = "done" /\ batch' = batch /\ batch = <<>> /\ webhooks' = webhooks
        /\ cmd' = cmd /\ batch \in Seq(UIDs) /\ webhooks \in SUBSET Channels
    BY <1>1, <1>6 DEF Exit, local, ContentInv, DataInv
  <2>2. Digest' = Digest /\ FormatSummary(summary) = Digest
    BY <1>1, <2>1 DEF Digest, Start, End, Days
  <2>3. DOMAIN b = DOMAIN Built
    BY DEF Logged
  <2>4. \A h \in DOMAIN b : b[h] = IF h = "info" THEN <<r>> ELSE <<>>
    <3>1. <<>> \o <<r>> = <<r>>
      OBVIOUS
    <3> HIDE DEF r
    <3> QED
      BY <1>3, <3>1 DEF Logged, Enabled, Channels
  <2>5. FormatRecords(<<r>>) = <<Digest>> /\ FormatRecords(<<>>) = <<>>
    <3>1. r.kind = "summary" /\ r.summary = summary
      OBVIOUS
    <3> HIDE DEF r, summary
    <3> QED
      BY <2>2, <3>1, OneRecord
  <2> HIDE DEF b, r, summary
  <2>6. \A h \in DOMAIN b : FormatRecords(b[h]) = IF h = "info" THEN <<Digest>> ELSE <<>>
    BY <2>4, <2>5
  <2>7. \A h \in DOMAIN b : FormatRecords(b[h]) \in Seq({Digest})
    <3>1. <<Digest>> \in Seq({Digest}) /\ <<>> \in Seq({Digest})
      OBVIOUS
    <3> QED
      BY <2>6, <3>1, Zenon
  <2>8. posted \in [Channels -> Seq({})] /\ \A h \in Channels : posted[h] = <<>>
    BY <1>2 DEF NothingPosted, Channels
  <2>9. /\ buffer' = [h \in DOMAIN b |-> <<>>]
        /\ posted' = [h \in Channels |-> posted'[h]]
        /\ \A h \in Channels \ DOMAIN b : posted'[h] = posted[h]
        /\ \A h \in Channels \cap DOMAIN b : \E I :
               posted'[h] = posted[h] \o Subsequence(FormatRecords(b[h]), I)
    <3>1. Flush(b, ok) /\ ok \in BOOLEAN
      BY <1>6
    <3> DEFINE M == {Digest}
    <3>2. \A h \in DOMAIN b : FormatRecords(b[h]) \in Seq(M)
      BY <2>7
    <3> HIDE DEF M
    <3>3. posted \in [Channels -> Seq({})]
      BY <2>8
    <3> QED
      BY <3>1, <3>2, <3>3, FlushAdds
  <2>10. ASSUME NEW h \in Channels
         PROVE  posted'[h] \in IF h = "info" THEN Seq({Digest}) ELSE {<<>>}
    <3>1. CASE h \in DOMAIN b
      <4>1. PICK I : posted'[h] = posted[h] \o Subsequence(FormatRecords(b[h]), I)
        BY <2>9, <3>1, Zenon
      <4>2. posted[h] = <<>> /\ FormatRecords(b[h]) = IF h = "info" THEN <<Digest>> ELSE <<>>
        BY <2>6, <2>8, <3>1
      <4>3. Subsequence(<<Digest>>, I) \in {<<Digest>>, <<>>} /\ Subsequence(<<>>, I) = <<>>
        BY SubsequenceOne, Zenon
      <4>4. /\ <<>> \o <<Digest>> \in Seq({Digest}) /\ <<>> \o <<>> \in Seq({Digest})
            /\ <<>> \o <<>> = <<>>
        OBVIOUS
      <4> QED
        BY <4>1, <4>2, <4>3, <4>4, Zenon
    <3>2. CASE h \notin DOMAIN b
      <4>1. posted'[h] = <<>> /\ <<>> \in Seq({Digest})
        BY <2>8, <2>9, <3>2
      <4> QED
        BY <4>1
    <3> QED
      BY <3>1, <3>2
  <2>11. posted'["info"] \in Seq({Digest}) /\ posted'["warn"] = <<>>
    BY <2>10 DEF Channels
  <2>12. ~Complete'
    BY <2>1 DEF Complete
  <2>13. DataInv'
    BY <1>1, <2>1 DEF DataInv, Steps, FirstSteps, LaterSteps
  <2>14. HandlerInv'
    BY <1>3, <2>1, <2>3, <2>9 DEF HandlerInv, LaterSteps
  <2>15. SavedInv'
    BY <2>1, <2>12 DEF SavedInv
  <2>16. PostedInv'
    <3>1. posted'["warn"] \in Seq(Sent') /\ posted'["info"] \in Seq({Digest'})
      BY <2>2, <2>11
    <3>2. posted' \in [Channels -> Seq((Sent \cup {Digest})')]
      BY <2>9, <3>1, PostedType
    <3> QED
      BY <2>1, <2>12, <3>1, <3>2 DEF PostedInv
  <2> QED
    BY <2>13, <2>14, <2>15, <2>16 DEF ContentInv
<1> HIDE DEF b, r, summary
<1>7. \/ \E code : Exit(code) /\ UNCHANGED notifier
      \/ NotifySystemErrorVia(Built, "recovery_required") /\ Exit(1)
      \/ \E ok \in BOOLEAN : Flush(b, ok) /\ Exit(0)
  BY DEF Summary, b, r, summary
<1> QED
  BY <1>4, <1>5, <1>6, <1>7

\* The invariant holds throughout.
LEMMA ContentInvariant == Spec => []ContentInv
<1>1. Init => ContentInv
  <2> SUFFICES ASSUME Init PROVE ContentInv
    OBVIOUS
  <2>1. /\ webhooks \in SUBSET Channels /\ files \in SUBSET UIDs /\ reports = {} /\ pc = "done"
        /\ batch = <<>> /\ buffer = NoHandlers /\ posted = NothingPosted
    BY MailboxAssumption DEF Init, Channels, UIDs
  <2>2. ~Complete
    BY <2>1 DEF Complete
  <2>3. DataInv
    BY <2>1, FS_EmptySet DEF DataInv, StoreOK, Steps, FirstSteps, LaterSteps
  <2>4. HandlerInv
    BY <2>1 DEF HandlerInv, NoHandlers, LaterSteps
  <2>5. SavedInv
    BY <2>1, <2>2 DEF SavedInv
  <2>6. PostedInv
    <3>1. posted["warn"] = <<>> /\ posted["info"] = <<>>
      BY <2>1 DEF NothingPosted
    <3>2. <<>> \in Seq(Sent) /\ <<>> \in Seq({Digest}) /\ <<>> \in Seq(Sent \cup {Digest})
      OBVIOUS
    <3>3. posted \in [Channels -> Seq(Sent \cup {Digest})]
      BY <2>1, <3>2 DEF NothingPosted, Channels
    <3> QED
      BY <2>1, <2>2, <3>1, <3>2, <3>3 DEF PostedInv
  <2> QED
    BY <2>3, <2>4, <2>5, <2>6 DEF ContentInv
<1>2. DryRunInv /\ ContentInv /\ [Next]_vars => ContentInv'
  <2> SUFFICES ASSUME DryRunInv, ContentInv, [Next]_vars
               PROVE  ContentInv'
    OBVIOUS
  <2>1. ASSUME NEW c, Invoke(c)
        PROVE  ContentInv'
    BY <2>1, InvokeContent
  <2>2. CASE Bootstrap
    BY <2>2, BootstrapContent
  <2>3. CASE FetchFails \/ UIDValidityChanged \/ Gc \/ Recover
    BY <2>3, FailureContent
  <2>4. ASSUME NEW window \in SUBSET UIDs, FetchDownload(window)
        PROVE  ContentInv'
    BY <2>4, FetchContent
  <2>5. ASSUME NEW window \in SUBSET UIDs, DownloadFails(window)
        PROVE  ContentInv'
    BY <2>5, FailureContent
  <2>6. CASE LoadEmails
    BY <2>6, LoadContent
  <2>7. CASE CollectReports
    BY <2>7, CollectContent
  <2>8. CASE SaveReports
    BY <2>8, SaveContent
  <2>9. CASE FlushNotifications
    BY <2>9, FlushContent
  <2>10. CASE MarkSeen
    BY <2>10, MarkSeenContent
  <2>11. CASE Summary
    BY <2>11, SummaryContent
  <2>12. CASE UNCHANGED vars
    <3>1. /\ webhooks' = webhooks /\ files' = files /\ reports' = reports /\ pc' = pc
          /\ batch' = batch /\ unseen' = unseen /\ cmd' = cmd /\ exit' = exit
          /\ buffer' = buffer /\ posted' = posted /\ collected' = collected
      BY <2>12 DEF vars, store, local, notifier
    <3>2. Records' = Records /\ Collection' = Collection /\ BatchMessages' = BatchMessages
      BY <3>1, SameBatch
    <3>3. Digest' = Digest /\ Complete' = Complete
      BY <3>1 DEF Digest, Start, End, Days, Complete, Notifying
    <3>4. Sent' = Sent
      BY <3>2 DEF Sent, BatchRange, Errors, ReadOnly
    <3>5. DataInv' /\ HandlerInv' /\ SavedInv'
      BY <3>1, <3>2, <3>3 DEF ContentInv, DataInv, HandlerInv, SavedInv
    <3>6. PostedInv'
      BY <3>1, <3>2, <3>3, <3>4 DEF ContentInv, PostedInv, ReadOnly
    <3> QED
      BY <3>5, <3>6 DEF ContentInv
  <2> QED
    BY <2>1, <2>2, <2>3, <2>4, <2>5, <2>6, <2>7, <2>8, <2>9, <2>10, <2>11, <2>12 DEF Next
<1> QED
  BY <1>1, <1>2, DryRunInvariant, PTL DEF Spec

-----------------------------------------------------------------------------
(* The reports of the batch and the store.                                 *)

\* By position of the message, then by number of the part.
Lexicographic ==
    {q \in (Nat \X Nat) \X (Nat \X Nat) :
        \/ q[1][1] < q[2][1]
        \/ q[1][1] = q[2][1] /\ q[1][2] < q[2][2]}

\* The reports that are collected are those that the messages hold, each once,
\* in their order.
LEMMA CollectionListed ==
    ASSUME batch \in Seq(UIDs)
    PROVE  /\ Listed(Collection, Found, [f \in Found |-> ReportAt(f)], Lexicographic)
           /\ Found \subseteq Nat \X Nat
           /\ \A f \in Found : /\ f[1] \in 1..Len(batch)
                               /\ Acceptable(Mailbox[batch[f[1]]])
                               /\ f[2] \in Genuine(Mailbox[batch[f[1]]])
                               /\ f = <<f[1], f[2]>>
                               /\ ReportAt(f) \in Reports
<1> DEFINE n == Len(batch)
           seqs == Map(Results, LAMBDA r : r.reports)
           mail == [i \in 1..n |-> Mailbox[batch[i]]]
           P == [i \in 1..n |-> IF Acceptable(mail[i]) THEN Genuine(mail[i]) ELSE {}]
           val == [i \in 1..n |-> [k \in DOMAIN mail[i].parts |-> mail[i].parts[k].content.report]]
           all == [f \in Found |-> ReportAt(f)]
<1>1. /\ n \in Nat /\ DOMAIN batch = 1..n
      /\ \A i \in 1..n : /\ mail[i] \in Mails
                         /\ Results[i] = ProcessMail(mail[i])
  BY BatchResults
<1>2. /\ seqs \in Seq(Seq(Reports)) /\ Len(seqs) = n
      /\ \A i \in 1..n : seqs[i] = Results[i].reports
      /\ Collection = FlattenSeq(seqs)
  BY CollectionType DEF Collection
<1>3. \A i \in 1..n : mail[i] = Mailbox[batch[i]]
  OBVIOUS
<1> HIDE DEF n, seqs, mail
<1>4. Found = UNION {{i} \X P[i] : i \in 1..n}
  <2> HIDE DEF P
  <2>1. \A i \in 1..n : P[i] = IF Acceptable(mail[i]) THEN Genuine(mail[i]) ELSE {}
    BY DEF P
  <2>2. Found = UNION {{i} \X Genuine(mail[i]) : i \in {j \in 1..n : Acceptable(mail[j])}}
    BY <1>1, <1>3 DEF Found
  <2> QED
    BY <2>1, <2>2
<1>5. ASSUME NEW i \in 1..n, Acceptable(mail[i])
      PROVE  Genuine(mail[i]) \subseteq DOMAIN mail[i].parts /\ DOMAIN mail[i].parts \subseteq Nat
             /\ \A k \in Genuine(mail[i]) : mail[i].parts[k].content.report \in Reports
  <2>1. mail[i] \in Mails
    BY <1>1
  <2> DEFINE parts == mail[i].parts
  <2>2. parts \in Seq(Parts)
    BY <2>1 DEF Mails
  <2>3. DOMAIN parts \subseteq Nat /\ \A k \in DOMAIN parts : parts[k] \in Parts
    <3> HIDE DEF parts
    <3> QED
      BY <2>2
  <2>4. \A k \in Genuine(mail[i]) : k \in DOMAIN parts /\ parts[k].kind = "attachment"
    BY DEF Genuine, Claimed, Of
  <2>5. \A k \in Genuine(mail[i]) : parts[k].content \in Contents
    <3> HIDE DEF parts
    <3> QED
      BY <2>3, <2>4, PartTypes
  <2>6. \A k \in Genuine(mail[i]) : parts[k].content.report \in Reports
    BY <2>5 DEF Contents
  <2> QED
    BY <2>3, <2>4, <2>6
<1>6. \A f \in Found : /\ f[1] \in 1..n /\ Acceptable(mail[f[1]])
                       /\ f[2] \in Genuine(mail[f[1]]) /\ f = <<f[1], f[2]>>
                       /\ ReportAt(f) = mail[f[1]].parts[f[2]].content.report
  <2> TAKE f \in Found
  <2>1. PICK i \in 1..n : f \in {i} \X P[i]
    BY <1>4
  <2>2. f[1] = i /\ f[2] \in P[i] /\ f = <<f[1], f[2]>>
    <3> HIDE DEF P
    <3> QED
      BY <2>1
  <2>3. P[i] = IF Acceptable(mail[i]) THEN Genuine(mail[i]) ELSE {}
    OBVIOUS
  <2>4. ReportAt(f) = mail[f[1]].parts[f[2]].content.report
    BY <1>3, <2>2 DEF ReportAt
  <2> QED
    BY <2>1, <2>2, <2>3, <2>4
<1>7. \A f \in Found : ReportAt(f) \in Reports /\ f \in Nat \X Nat
  <2> TAKE f \in Found
  <2>1. /\ f[1] \in 1..n /\ Acceptable(mail[f[1]]) /\ f[2] \in Genuine(mail[f[1]])
        /\ f = <<f[1], f[2]>> /\ ReportAt(f) = mail[f[1]].parts[f[2]].content.report
    BY <1>6
  <2>2. f[2] \in Nat /\ mail[f[1]].parts[f[2]].content.report \in Reports
    BY <1>5, <2>1
  <2> QED
    BY <1>1, <2>1, <2>2
<1>8. \A i \in 1..n : Listed(seqs[i], P[i], val[i], Before)
  <2> TAKE i \in 1..n
  <2>1. mail[i] \in Mails /\ seqs[i] = ProcessMail(mail[i]).reports
    BY <1>1, <1>2
  <2>2. CASE Acceptable(mail[i])
    <3>1. Listed(ProcessMail(mail[i]).reports, Genuine(mail[i]),
                 [k \in DOMAIN mail[i].parts |-> mail[i].parts[k].content.report], Before)
      BY <2>1, <2>2, MailTakenAsAWhole
    <3>2. /\ P[i] = Genuine(mail[i])
          /\ val[i] = [k \in DOMAIN mail[i].parts |-> mail[i].parts[k].content.report]
      BY <2>2
    <3> HIDE DEF P, val
    <3> QED
      BY <2>1, <3>1, <3>2, Zenon
  <2>3. CASE ~Acceptable(mail[i])
    <3>1. ProcessMail(mail[i]) = [reports |-> <<>>, warnings |-> 1]
      BY <2>1, <2>3, MailTakenAsAWhole
    <3>2. seqs[i] = <<>> /\ P[i] = {}
      BY <2>1, <2>3, <3>1
    <3> HIDE DEF P, val
    <3> QED
      BY <3>2, ListedEmpty, Zenon
  <2> QED
    BY <2>2, <2>3
<1>9. \A i \in 1..n : P[i] \subseteq Nat /\ \A p \in P[i] :
          /\ <<i, p>> \in Found /\ p \in DOMAIN mail[i].parts
          /\ all[<<i, p>>] = val[i][p]
  <2> TAKE i \in 1..n
  <2>1. P[i] \subseteq DOMAIN mail[i].parts /\ P[i] \subseteq Nat
    BY <1>5
  <2>2. \A p \in P[i] : <<i, p>> \in Found
    <3> HIDE DEF P
    <3> QED
      BY <1>4
  <2>3. \A p \in P[i] : ReportAt(<<i, p>>) = mail[i].parts[p].content.report
    BY <1>3 DEF ReportAt
  <2>4. \A p \in P[i] : val[i][p] = mail[i].parts[p].content.report
    BY <2>1
  <2>5. \A p \in P[i] : all[<<i, p>>] = ReportAt(<<i, p>>)
    BY <2>2
  <2> HIDE DEF P, val, all
  <2> QED
    BY <2>1, <2>2, <2>3, <2>4, <2>5
<1> HIDE DEF P, val, all
<1>10. \A i \in 1..n : \A p, q \in P[i] :
           <<p, q>> \in Before => << <<i, p>>, <<i, q>> >> \in Lexicographic
  BY <1>1, <1>9 DEF Before, Lexicographic
<1>11. \A i, j \in 1..n : i < j => \A p \in P[i], q \in P[j] :
           << <<i, p>>, <<j, q>> >> \in Lexicographic
  BY <1>1, <1>9 DEF Lexicographic
<1>12. Listed(FlattenSeq(seqs), UNION {{i} \X P[i] : i \in 1..Len(seqs)}, all, Lexicographic)
  <2>1. \A i \in 1..Len(seqs) : \A p \in P[i] : all[<<i, p>>] = val[i][p]
    BY <1>2, <1>9
  <2>2. \A i \in 1..Len(seqs) : Listed(seqs[i], P[i], val[i], Before)
    BY <1>2, <1>8
  <2>3. \A i \in 1..Len(seqs) : \A p, q \in P[i] :
            <<p, q>> \in Before => << <<i, p>>, <<i, q>> >> \in Lexicographic
    BY <1>2, <1>10, Zenon
  <2>4. \A i, j \in 1..Len(seqs) : i < j => \A p \in P[i], q \in P[j] :
            << <<i, p>>, <<j, q>> >> \in Lexicographic
    BY <1>2, <1>11, Zenon
  <2>5. seqs \in Seq(Seq(Reports))
    BY <1>2
  <2> QED
    BY <2>1, <2>2, <2>3, <2>4, <2>5, FlattenListed, ZenonT(60)
<1>13. Listed(Collection, Found, all, Lexicographic)
  BY <1>2, <1>4, <1>12
<1>14. /\ Found \subseteq Nat \X Nat
       /\ \A f \in Found : /\ f[1] \in 1..Len(batch)
                           /\ Acceptable(Mailbox[batch[f[1]]])
                           /\ f[2] \in Genuine(Mailbox[batch[f[1]]])
                           /\ f = <<f[1], f[2]>>
                           /\ ReportAt(f) \in Reports
  BY <1>3, <1>6, <1>7 DEF n
<1> QED
  BY <1>13, <1>14 DEF all

\* A complete run leaves every report of the batch in the store, or a later one
\* of the batch under its report-id, and the store never has two reports under
\* one id, for every mailbox and however the batch was put together: SaveReports
\* loses nothing, and no bad attachment or refused message costs another report.
THEOREM StoreHoldsTheLatest == Spec => []StoreHoldsLatest
<1>1. ContentInv => StoreHoldsLatest
  <2> SUFFICES ASSUME ContentInv PROVE StoreHoldsLatest
    OBVIOUS
  <2>1. StoreOK(reports) /\ batch \in Seq(UIDs)
    BY DEF ContentInv, DataInv
  <2>2. ASSUME Complete, NEW f \in Found
        PROVE  \E g \in Found :
                   /\ g = f \/ (f[1] < g[1] \/ (f[1] = g[1] /\ f[2] < g[2]))
                   /\ ReportAt(g).id = ReportAt(f).id
                   /\ ReportAt(g) \in reports
    <3>1. PICK old : StoreOK(old) /\ reports = Upserted(old, Collection)
      BY <2>2 DEF ContentInv, SavedInv
    <3> DEFINE all == [h \in Found |-> ReportAt(h)]
               c == Collection
    <3>2. c \in Seq(Reports) /\ Listed(c, Found, all, Lexicographic)
      BY <2>1, CollectionType, CollectionListed
    <3>3. PICK b : Listing(c, b, Found, all, Lexicographic)
      BY <3>2 DEF Listed
    <3> HIDE DEF c
    <3>4. /\ \A k, l \in 1..Len(c) : k < l => <<b[k], b[l]>> \in Lexicographic
          /\ \A p \in Found : \E k \in 1..Len(c) : b[k] = p
          /\ \A k \in 1..Len(c) : b[k] \in Found /\ c[k] = all[b[k]]
      BY <3>3 DEF Listing
    <3>5. PICK k \in 1..Len(c) : b[k] = f
      BY <2>2, <3>4
    <3>6. PICK j \in k..Len(c) : c[j].id = c[k].id /\ c[j] \in Upserted(old, c)
      BY <3>1, <3>2, <3>5, LastIsSaved
    <3> DEFINE g == b[j]
    <3>7. Len(c) \in Nat
      BY <3>2
    <3>8. j \in 1..Len(c) /\ (j = k \/ k < j)
      BY <3>5, <3>6, <3>7
    <3>9. g \in Found /\ c[j] = ReportAt(g) /\ c[k] = ReportAt(f)
      BY <3>4, <3>5, <3>8
    <3>10. g = f \/ <<f, g>> \in Lexicographic
      BY <3>4, <3>5, <3>8
    <3> HIDE DEF g
    <3>11. g = f \/ (f[1] < g[1] \/ (f[1] = g[1] /\ f[2] < g[2]))
      BY <3>10 DEF Lexicographic
    <3>12. ReportAt(g) \in reports /\ ReportAt(g).id = ReportAt(f).id
      BY <3>1, <3>6, <3>9 DEF c
    <3> QED
      BY <3>9, <3>11, <3>12
  <2> QED
    BY <2>1, <2>2 DEF StoreHoldsLatest, StoreOK
<1> QED
  BY <1>1, ContentInvariant, PTL

-----------------------------------------------------------------------------
(* What Slack got from a complete run.                                     *)

\* One message with the alerts, if there are any, a warning for each failure to
\* parse, and perhaps the one about the read-only mailbox.
LEMMA PostedShape ==
    ASSUME ContentInv, Complete, NEW a, a = AlertMessageCount(Alerts)
    PROVE  /\ Warnings \in Nat /\ Len(posted["warn"]) \in {a + Warnings, a + Warnings + 1}
           /\ DOMAIN posted["warn"] = 1..Len(posted["warn"])
           /\ Alerts # <<>> => posted["warn"][1] = FormatAlerts(Alerts)
           /\ \A i \in 1..Warnings : posted["warn"][a + i] = FormatWarning("parse_failure")
           /\ Len(posted["warn"]) = a + Warnings + 1 => posted["warn"][a + Warnings + 1] = ReadOnly
<1> DEFINE p == posted["warn"]
           m == BatchMessages
           w == Warnings
           A == FormatAlerts(Alerts)
           F == FormatWarning("parse_failure")
           S == {A, F}
           U == {A, F, ReadOnly}
<1>1. batch \in Seq(UIDs) /\ p \in {m, m \o <<ReadOnly>>}
  BY DEF ContentInv, DataInv, PostedInv
<1>2. Alerts \in Seq(AlertRecords) /\ w \in Nat
  BY <1>1, AlertListsType, WarningsType
<1>3. m = MessagesFor(Alerts, w, "parse_failure")
  BY <1>1, RecordsFormatted DEF BatchMessages
<1>4. /\ m \in Seq(S) /\ Len(m) = a + w
      /\ Alerts # <<>> => m[1] = A
      /\ \A i \in 1..w : m[a + i] = F
  <2> HIDE DEF w, A, F
  <2>1. /\ m \in Seq({FormatAlerts(Alerts), FormatWarning("parse_failure")})
        /\ Len(m) = AlertMessageCount(Alerts) + w
        /\ Alerts # <<>> => m[1] = FormatAlerts(Alerts)
        /\ \A i \in 1..w : m[AlertMessageCount(Alerts) + i] = FormatWarning("parse_failure")
    <3> HIDE DEF m
    <3> QED
      BY <1>2, <1>3, MessagesForIs
  <2> QED
    BY <2>1 DEF A, F
<1>5. a \in {0, 1} /\ (Alerts # <<>> => a = 1)
  BY DEF AlertMessageCount
<1> HIDE DEF p, m, w, A, F
<1>6. CASE p = m
  BY <1>2, <1>4, <1>5, <1>6 DEF p, A, w, F
<1>7. CASE p = m \o <<ReadOnly>>
  <2>1. m \in Seq(U) /\ ReadOnly \in U
    BY <1>4
  <2> HIDE DEF U, S
  <2>2. /\ p \in Seq(U) /\ Len(p) = Len(m) + 1
        /\ \A j \in 1..Len(m) : p[j] = m[j]
        /\ p[Len(m) + 1] = ReadOnly
    BY <1>7, <2>1, OneMore
  <2>3. Len(p) = a + w + 1 /\ DOMAIN p = 1..Len(p)
    BY <1>4, <2>2
  <2>4. \A i \in 1..w : p[a + i] = F
    <3> TAKE i \in 1..w
    <3>1. a + i \in 1..Len(m)
      BY <1>2, <1>4, <1>5
    <3> QED
      BY <1>4, <2>2, <3>1
  <2>5. Alerts # <<>> => p[1] = A
    BY <1>2, <1>4, <1>5, <2>2
  <2>6. p[a + w + 1] = ReadOnly
    BY <1>4, <2>2
  <2> QED
    BY <1>2, <2>3, <2>4, <2>5, <2>6 DEF p, A, w, F
<1> QED
  BY <1>1, <1>6, <1>7

\* Of the messages that were read, each that is refused gives exactly one
\* warning in Slack, and so does each attachment of the others that decodes and
\* claims to be a report but cannot be parsed, for every mailbox and all the
\* limits; there are no other warnings of this kind.  Parts that do not decode
\* are dropped without one (processAttachments, formatRecords).
THEOREM WarningsAllAccounted == Spec => []WarningsAccounted
<1>1. ContentInv => WarningsAccounted
  <2> DEFINE e == [i \in DOMAIN batch |-> IF Acceptable(Mailbox[batch[i]])
                      THEN Cardinality(Claimed(Mailbox[batch[i]]) \ Genuine(Mailbox[batch[i]]))
                      ELSE 1]
             I == {i \in DOMAIN posted["warn"] : /\ posted["warn"][i].kind = "warning"
                                                 /\ posted["warn"][i].what = "parse_failure"}
  <2> SUFFICES ASSUME ContentInv, Complete PROVE Cardinality(I) = Sum(e)
    BY DEF WarningsAccounted
  <2>1. batch \in Seq(UIDs) /\ Notifying
    BY DEF ContentInv, DataInv, Complete
  <2> DEFINE s == Map(Results, LAMBDA r : r.warnings)
  <2>2. s = e
    <3>1. /\ DOMAIN batch = 1..Len(batch) /\ DOMAIN Results = 1..Len(batch)
          /\ \A i \in 1..Len(batch) : /\ Mailbox[batch[i]] \in Mails
                                      /\ Results[i] = ProcessMail(Mailbox[batch[i]])
      BY <2>1, BatchResults
    <3>2. s = [i \in DOMAIN batch |-> Results[i].warnings]
      BY <3>1 DEF Map
    <3>3. ASSUME NEW i \in DOMAIN batch
          PROVE  Results[i].warnings = e[i]
      <4>1. CASE Acceptable(Mailbox[batch[i]])
        BY <3>1, <4>1, MailTakenAsAWhole
      <4>2. CASE ~Acceptable(Mailbox[batch[i]])
        <5>1. ProcessMail(Mailbox[batch[i]]) = [reports |-> <<>>, warnings |-> 1]
          BY <3>1, <4>2, MailTakenAsAWhole
        <5> QED
          BY <3>1, <4>2, <5>1
      <4> QED
        BY <4>1, <4>2
    <3>4. e = [i \in DOMAIN batch |-> e[i]]
      OBVIOUS
    <3> HIDE DEF e, s
    <3> QED
      BY <3>2, <3>3, <3>4
  <2>3. Warnings = Sum(s)
    BY <2>1 DEF Warnings
  <2> DEFINE a == AlertMessageCount(Alerts)
             w == Warnings
             p == posted["warn"]
             F == FormatWarning("parse_failure")
  <2>4. a \in Nat /\ a <= 1 /\ (a = 1 <=> Alerts # <<>>)
    BY DEF AlertMessageCount
  <2>5. /\ w \in Nat /\ Len(p) \in {a + w, a + w + 1} /\ DOMAIN p = 1..Len(p)
        /\ a = 1 => p[1] = FormatAlerts(Alerts)
        /\ \A i \in 1..w : p[a + i] = F
        /\ Len(p) = a + w + 1 => p[a + w + 1] = ReadOnly
    <3> HIDE DEF a
    <3> QED
      BY <2>4, PostedShape DEF a
  <2>6. /\ FormatAlerts(Alerts).kind = "alerts"
        /\ F.kind = "warning" /\ F.what = "parse_failure"
        /\ ReadOnly.what = "mailbox_read_only"
    <3>1. FormatAlerts(Alerts).kind = "alerts"
      BY DEF FormatAlerts
    <3>2. /\ F.kind = "warning" /\ F.what = "parse_failure"
          /\ ReadOnly.what = "mailbox_read_only"
      BY DEF FormatWarning, ReadOnly
    <3> QED
      BY <3>1, <3>2, Zenon
  <2> HIDE DEF e, s, a, w, F, p
  <2>7. a \in Nat /\ a <= 1 /\ w \in Nat /\ (Len(p) = a + w \/ Len(p) = a + w + 1)
    BY <2>4, <2>5, Zenon
  <2>8. I = (a + 1)..(a + w)
    <3>1. ASSUME NEW i \in 1..Len(p)
          PROVE  i \in I <=> i \in (a + 1)..(a + w)
      <4>1. CASE i <= a
        <5>1. i = 1 /\ a = 1 /\ p[i].kind = "alerts"
          BY <2>5, <2>6, <2>7, <4>1
        <5> QED
          BY <2>7, <4>1, <5>1 DEF p
      <4>2. CASE i \in (a + 1)..(a + w)
        <5>1. i - a \in 1..w /\ a + (i - a) = i
          BY <2>7, <4>2
        <5>2. p[i] = F
          BY <2>5, <5>1
        <5> QED
          BY <2>5, <2>6, <4>2, <5>2 DEF p
      <4>3. CASE i > a + w
        <5>1. i = a + w + 1 /\ Len(p) = a + w + 1
          BY <2>7, <4>3
        <5>2. p[i].what # "parse_failure"
          BY <2>5, <2>6, <5>1
        <5> QED
          BY <2>4, <2>5, <4>3, <5>2 DEF p
      <4> QED
        BY <2>7, <4>1, <4>2, <4>3
    <3>2. (a + 1)..(a + w) \subseteq 1..Len(p) /\ I \subseteq 1..Len(p)
      BY <2>5, <2>7 DEF p
    <3> HIDE DEF I
    <3> QED
      BY <3>1, <3>2
  <2>9. Cardinality(I) = w
    <3> HIDE DEF I
    <3>1. a + 1 \in Int /\ a + w \in Int
      BY <2>7
    <3>2. Cardinality((a + 1)..(a + w)) =
              IF a + 1 > a + w THEN 0 ELSE (a + w) - (a + 1) + 1
      BY <3>1, FS_Interval
    <3> QED
      BY <2>8, <2>7, <3>2
  <2> QED
    BY <2>2, <2>3, <2>9 DEF w
<1> QED
  BY <1>1, ContentInvariant, PTL

-----------------------------------------------------------------------------
(* The messages themselves.                                                *)

\* The reports that a summary is about, and their organizations.
Counted == Summarized(reports, Start, End)
OrgsCounted == {r.org : r \in Counted}

\* They are finitely many, and the summary has a number for each organization.
LEMMA CountedFinite ==
    ASSUME StoreOK(reports)
    PROVE  /\ Counted \in SUBSET Reports /\ IsFiniteSet(Counted)
           /\ IsFiniteSet(OrgsCounted)
           /\ GenerateSummary(reports, Start, End).count = Cardinality(Counted)
           /\ DOMAIN GenerateSummary(reports, Start, End).stats = OrgsCounted
<1>1. Counted \subseteq reports
  BY DEF Counted, Summarized
<1>2. Counted \in SUBSET Reports /\ IsFiniteSet(Counted)
  BY <1>1, FS_Subset DEF StoreOK
<1> DEFINE C == Counted
<1> HIDE DEF C
<1>3. IsFiniteSet({r.org : r \in C})
  <2> DEFINE f == [r \in C |-> r.org]
             S == {f[r] : r \in C}
  <2>1. f \in Surjection(C, S)
    BY DEF Surjection
  <2>2. IsFiniteSet(S)
    BY <1>2, <2>1, FS_Surjection DEF C
  <2>3. S = {r.org : r \in C}
    OBVIOUS
  <2> QED
    BY <2>2, <2>3
<1>4. /\ GenerateSummary(reports, Start, End).count = Cardinality(Counted)
      /\ DOMAIN GenerateSummary(reports, Start, End).stats = OrgsCounted
  BY DEF GenerateSummary, OrgsCounted, Counted
<1> QED
  BY <1>2, <1>3, <1>4 DEF OrgsCounted, C

\* The messages of the batch are one for the alerts, if there are any, and
\* warnings.
LEMMA BatchRangeIs ==
    ASSUME batch \in Seq(UIDs), NEW m \in BatchRange
    PROVE  \/ Alerts # <<>> /\ m = FormatAlerts(Alerts)
           \/ m = FormatWarning("parse_failure")
<1> DEFINE a == AlertMessageCount(Alerts)
           w == Warnings
           b == BatchMessages
<1>1. Alerts \in Seq(AlertRecords) /\ w \in Nat
  BY AlertListsType, WarningsType
<1>2. b = MessagesFor(Alerts, w, "parse_failure")
  BY RecordsFormatted DEF BatchMessages
<1>3. PICK i \in 1..Len(b) : m = b[i]
  BY DEF BatchRange
<1> HIDE DEF w, b
<1>4. /\ Len(b) = a + w
      /\ Alerts # <<>> => b[1] = FormatAlerts(Alerts)
      /\ \A j \in 1..w : b[a + j] = FormatWarning("parse_failure")
  BY <1>1, <1>2, MessagesForIs
<1>5. (a = 0 /\ Alerts = <<>>) \/ (a = 1 /\ Alerts # <<>>)
  BY DEF AlertMessageCount
<1> HIDE DEF a
<1>6. CASE i <= a
  <2>1. i = 1 /\ Alerts # <<>>
    BY <1>4, <1>5, <1>6
  <2> QED
    BY <1>3, <1>4, <2>1
<1>7. CASE i > a
  <2>1. i - a \in 1..w /\ a + (i - a) = i
    BY <1>1, <1>4, <1>5, <1>7
  <2> QED
    BY <1>3, <1>4, <2>1
<1> QED
  BY <1>1, <1>4, <1>5, <1>6, <1>7

\* No message of any command has too many fields in an attachment or, unless it
\* is a summary of more organizations than fit, too many attachments, and each
\* ends with the Run ID and has it nowhere else, for every mailbox and store and
\* for all limits that FormatAssumption admits (formatAlerts, formatSummary).
THEOREM AllWithinLimits == Spec => []MessagesWithinLimits
<1>1. ContentInv => MessagesWithinLimits
  <2> SUFFICES ASSUME ContentInv, NEW h \in DOMAIN posted, NEW i \in DOMAIN posted[h]
               PROVE  WithinLimits(posted[h][i])
    BY DEF MessagesWithinLimits
  <2>1. /\ posted \in [Channels -> Seq(Sent \cup {Digest})]
        /\ batch \in Seq(UIDs) /\ StoreOK(reports)
    BY DEF ContentInv, PostedInv, DataInv
  <2>2. posted[h][i] \in Sent \cup {Digest}
    <3> DEFINE U == Sent \cup {Digest}
    <3> HIDE DEF U
    <3>1. posted[h] \in Seq(U)
      BY <2>1 DEF U
    <3>2. posted[h][i] \in U
      BY <3>1
    <3> QED
      BY <3>2 DEF U
  <2>3. (\A m \in Errors : WithinLimits(m)) /\ WithinLimits(ReadOnly)
    BY NoticesWithinLimits, Zenon DEF Errors, ReadOnly
  <2>4. ASSUME NEW m \in BatchRange
        PROVE  WithinLimits(m)
    <3>1. Alerts \in Seq(AlertRecords)
      BY <2>1, AlertListsType
    <3>2. Alerts # <<>> => WithinLimits(FormatAlerts(Alerts))
      BY <3>1, AlertsMessage
    <3>3. WithinLimits(FormatWarning("parse_failure"))
      BY NoticesWithinLimits
    <3> QED
      BY <2>1, <3>2, <3>3, BatchRangeIs, Zenon
  <2>5. WithinLimits(Digest)
    <3> DEFINE summary == GenerateSummary(reports, Start, End)
    <3>1. IsFiniteSet(DOMAIN summary.stats)
      BY <2>1, CountedFinite
    <3> HIDE DEF summary
    <3>2. WithinLimits(FormatSummary(summary))
      BY <3>1, SummaryMessage
    <3> QED
      BY <3>2 DEF Digest, summary
  <2> QED
    BY <2>2, <2>3, <2>4, <2>5 DEF Sent
<1> QED
  BY <1>1, ContentInvariant, PTL

\* The sum of each organization is that of the policies of its reports.
LEMMA StatsAre ==
    ASSUME StoreOK(reports), NEW org \in OrgsCounted
    PROVE  GenerateSummary(reports, Start, End).stats[org]
               = SumOf([p \in PoliciesIn({c \in Counted : c.org = org}) |->
                           p[1].policies[p[2]].ok])
<1> DEFINE C == {c \in Counted : c.org = org}
<1>1. C \in SUBSET Reports /\ IsFiniteSet(C)
  BY CountedFinite, FS_Subset
<1>2. GenerateSummary(reports, Start, End).stats[org]
          = Sum(Map(SetToSeq(C), SuccessfulSessions))
  BY DEF GenerateSummary, OrgsCounted, Counted, Map
<1> HIDE DEF C
<1> QED
  BY <1>1, <1>2, SessionsAddUp DEF C

\* A summary counts every report of the store that ended in its window without
\* failures, and names each of their organizations once, with the sessions of
\* all its policies, for every store (GenerateSummary, formatSummary).
THEOREM SummaryIsTheStore == Spec => []SummaryMatchesStore
<1>1. ContentInv => SummaryMatchesStore
  <2> DEFINE counted == {r \in reports :
                            /\ Start <= r.day /\ r.day < Today
                            /\ \A k \in DOMAIN r.policies : r.policies[k].failed <= 0}
             orgs == {r.org : r \in counted}
             PoliciesOf(org) == UNION {{r} \X DOMAIN r.policies :
                                          r \in {c \in counted : c.org = org}}
             Sessions(org) == SumOf([p \in PoliciesOf(org) |-> p[1].policies[p[2]].ok])
             summary == GenerateSummary(reports, Start, End)
             fields == Titled(Digest, "Organization")
             g == OrgField(summary)
             s == SetToSeq(OrgsCounted)
  <2> SUFFICES ASSUME ContentInv
               PROVE  SummaryMatchesStore
    OBVIOUS
  <2>1. StoreOK(reports) /\ posted["info"] \in Seq({Digest})
    BY DEF ContentInv, DataInv, PostedInv
  <2>2. \A i \in DOMAIN posted["info"] : posted["info"][i] = Digest
    <3> DEFINE q == posted["info"]
    <3> HIDE DEF q
    <3>1. q \in Seq({Digest})
      BY <2>1 DEF q
    <3>2. \A i \in DOMAIN q : q[i] = Digest
      BY <3>1
    <3> QED
      BY <3>2 DEF q
  <2>3. counted = Counted
    <3>1. Counted = {r \in reports : Start <= r.day /\ r.day < Today /\ ~HasFailure(r)}
      BY DEF Counted, Summarized, InPeriod, End
    <3>2. ASSUME NEW r \in reports
          PROVE  ~HasFailure(r) <=> \A k \in DOMAIN r.policies : r.policies[k].failed <= 0
      <4>1. r \in Reports
        BY <2>1 DEF StoreOK
      <4>2. r.policies \in Seq(Policies)
        BY <4>1 DEF Reports
      <4>3. \A k \in DOMAIN r.policies : r.policies[k] \in Policies
        BY <4>2
      <4>4. \A k \in DOMAIN r.policies : r.policies[k].failed \in Int
        BY <4>3 DEF Policies
      <4>5. \A k \in DOMAIN r.policies :
                r.policies[k].failed <= 0 <=> ~(r.policies[k].failed > 0)
        BY <4>4
      <4> QED
        BY <4>1, <4>5, HasFailureIs, Zenon
    <3> QED
      BY <3>1, <3>2, Zenon
  <2> HIDE DEF counted
  <2>4. /\ IsFiniteSet(OrgsCounted)
        /\ summary.count = Cardinality(Counted) /\ DOMAIN summary.stats = OrgsCounted
    BY <2>1, CountedFinite
  <2>5. orgs = OrgsCounted
    BY <2>3 DEF OrgsCounted
  <2>6. Digest.count = Cardinality(counted)
    BY <2>3, <2>4 DEF Digest, FormatSummary
  <2>7. \A org \in OrgsCounted : summary.stats[org] = Sessions(org)
    BY <2>1, <2>3, StatsAre DEF PoliciesIn
  <2>8. fields = Image(s, g)
    <3> HIDE DEF summary
    <3> QED
      BY <2>4, SummaryMessage DEF Digest, summary
  <2>9. /\ s \in Seq(OrgsCounted) /\ Len(s) = Cardinality(OrgsCounted)
        /\ Listing(s, s, OrgsCounted, [p \in OrgsCounted |-> p], OrgsCounted \X OrgsCounted)
    BY <2>4, SetToSeqListed, Zenon
  <2> HIDE DEF s, summary, fields, orgs, Sessions
  <2>10. \A org \in OrgsCounted :
             g[org] = [title |-> "Organization", org |-> org, sessions |-> Sessions(org)]
    BY <2>4, <2>7 DEF OrgField
  <2> DEFINE T == {[title |-> "Organization", org |-> org, sessions |-> Sessions(org)] :
                      org \in OrgsCounted}
  <2>11. T = {g[org] : org \in OrgsCounted}
    BY <2>10
  <2> HIDE DEF T, g
  <2>12. Into(g, OrgsCounted, T)
    BY <2>11 DEF Into
  <2>13. /\ fields \in Seq(T) /\ Len(fields) = Len(s)
         /\ \A i \in 1..Len(s) : fields[i] = g[s[i]]
    <3>1. s \in Seq(OrgsCounted)
      BY <2>9
    <3>2. /\ Image(s, g) \in Seq(T) /\ Len(Image(s, g)) = Len(s)
          /\ \A i \in 1..Len(s) : Image(s, g)[i] = g[s[i]]
      BY <2>12, <3>1, ImageType
    <3> QED
      BY <2>8, <3>2
  <2>14. Len(fields) = Cardinality(orgs)
    BY <2>5, <2>9, <2>13
  <2>15. ToSet(fields) = T
    <3>1. DOMAIN fields = 1..Len(s)
      BY <2>13
    <3>2. ToSet(fields) = {fields[i] : i \in 1..Len(s)}
      BY <3>1 DEF ToSet
    <3>3. \A org \in OrgsCounted : \E i \in 1..Len(s) : s[i] = org
      BY <2>9 DEF Listing
    <3>4. \A i \in 1..Len(s) : fields[i] \in T
      BY <2>13, <3>1
    <3>5. \A org \in OrgsCounted : \E i \in 1..Len(s) : fields[i] = g[org]
      <4> TAKE org \in OrgsCounted
      <4>1. PICK i \in 1..Len(s) : s[i] = org
        BY <3>3
      <4>2. fields[i] = g[org]
        BY <2>13, <4>1
      <4> QED
        BY <4>2
    <3>6. T \subseteq {fields[i] : i \in 1..Len(s)}
      BY <2>11, <3>5
    <3>7. {fields[i] : i \in 1..Len(s)} \subseteq T
      BY <3>4
    <3> QED
      BY <3>2, <3>6, <3>7
  <2> QED
    BY <2>2, <2>5, <2>6, <2>14, <2>15 DEF SummaryMatchesStore, counted, orgs, Sessions, T, fields
<1> QED
  BY <1>1, ContentInvariant, PTL

-----------------------------------------------------------------------------
(* The alerts of the batch and the policies that they are about.           *)

\* The reports of one message.
ReportsIn(i) == IF Acceptable(Mailbox[batch[i]]) THEN Genuine(Mailbox[batch[i]]) ELSE {}
ReportVal(i) == [k \in ReportsIn(i) |-> ReportAt(<<i, k>>)]

\* They are those that ProcessMail gives, in their order.
LEMMA ReportsListed ==
    ASSUME batch \in Seq(UIDs), NEW i \in 1..Len(batch)
    PROVE  /\ Listed(Results[i].reports, ReportsIn(i), ReportVal(i), Before)
           /\ \A k \in ReportsIn(i) : <<i, k>> \in Found
           /\ Into(ReportVal(i), ReportsIn(i), Reports)
<1> DEFINE mail == Mailbox[batch[i]]
           at == [k \in DOMAIN mail.parts |-> mail.parts[k].content.report]
<1>1. mail \in Mails /\ Results[i] = ProcessMail(mail) /\ DOMAIN batch = 1..Len(batch)
  BY BatchResults
<1>2. \A k \in ReportsIn(i) : <<i, k>> \in Found
  BY <1>1 DEF ReportsIn, Found
<1>3. \A k \in ReportsIn(i) : ReportAt(<<i, k>>) \in Reports
  BY <1>2, CollectionListed
<1>4. Into(ReportVal(i), ReportsIn(i), Reports)
  BY <1>3 DEF Into, ReportVal
<1>5. \A k \in ReportsIn(i) : ReportVal(i)[k] = mail.parts[k].content.report
  BY DEF ReportVal, ReportAt
<1>6. CASE Acceptable(mail)
  <2>1. ReportsIn(i) = Genuine(mail)
    BY <1>6 DEF ReportsIn
  <2>2. Listed(Results[i].reports, Genuine(mail), at, Before)
    BY <1>1, <1>6, MailTakenAsAWhole
  <2>3. \A k \in Genuine(mail) : k \in DOMAIN mail.parts
    BY DEF Genuine, Claimed, Of
  <2>4. \A k \in Genuine(mail) : at[k] = mail.parts[k].content.report
    BY <2>3
  <2> HIDE DEF at, mail
  <2>5. \A k \in Genuine(mail) : ReportVal(i)[k] = at[k]
    BY <1>5, <2>1, <2>4
  <2>6. Listed(Results[i].reports, Genuine(mail), ReportVal(i), Before)
    BY <2>2, <2>5, ListedSame
  <2> QED
    BY <1>2, <1>4, <2>1, <2>6
<1>7. CASE ~Acceptable(mail)
  <2>1. ProcessMail(mail) = [reports |-> <<>>, warnings |-> 1]
    BY <1>1, <1>7, MailTakenAsAWhole
  <2>2. Results[i].reports = <<>> /\ ReportsIn(i) = {}
    BY <1>1, <1>7, <2>1 DEF ReportsIn
  <2>3. Listed(Results[i].reports, ReportsIn(i), ReportVal(i), Before)
    BY <2>2, ListedEmpty, Zenon
  <2> QED
    BY <1>2, <1>4, <2>3
<1> QED
  BY <1>6, <1>7

\* The failing policies of reports that are in places D, and their alerts.
FailingAt(D, v) == [d \in D |-> FailingIn(v[d])]
AlertsAt(D, v) ==
    [q \in Places(D, FailingAt(D, v)) |-> LogAlert(v[q[1]], v[q[1]].policies[q[2]])]

\* The alerts of a list of reports are those of all their failing policies.
LEMMA MessageAlerts ==
    ASSUME NEW x \in Seq(Reports), NEW D, NEW v, NEW R0, Listed(x, D, v, R0),
           Into(v, D, Reports)
    PROVE  Listed(FlattenSeq(Map(x, LogAlerts)), Places(D, FailingAt(D, v)), AlertsAt(D, v),
                  Places(D, FailingAt(D, v)) \X Places(D, FailingAt(D, v)))
<1> DEFINE n == Len(x)
           P == FailingAt(D, v)
           val == [d \in D |-> [k \in DOMAIN v[d].policies |-> LogAlert(v[d], v[d].policies[k])]]
           all == AlertsAt(D, v)
           seqs == Map(x, LogAlerts)
<1>1. PICK b : Listing(x, b, D, v, R0)
  BY DEF Listed
<1>2. n \in Nat /\ DOMAIN x = 1..n /\ \A i \in 1..n : x[i] \in Reports
  OBVIOUS
<1>3. \A i \in 1..n : b[i] \in D /\ x[i] = v[b[i]]
  BY <1>1 DEF Listing
<1>4. seqs = [i \in 1..n |-> LogAlerts(x[i])]
  BY <1>2 DEF Map
<1> HIDE DEF n, seqs
<1>5. ASSUME NEW i \in 1..n
      PROVE  /\ seqs[i] = LogAlerts(x[i]) /\ seqs[i] \in Seq(AlertRecords)
             /\ Listed(seqs[i], P[b[i]], val[b[i]], Before)
  <2> DEFINE report == x[i]
             F == {k \in DOMAIN report.policies : report.policies[k].failed > 0}
  <2>1. report \in Reports /\ b[i] \in D /\ report = v[b[i]] /\ seqs[i] = LogAlerts(report)
    BY <1>2, <1>3, <1>4
  <2>2. P[b[i]] = F
    BY <2>1 DEF FailingAt, FailingIn
  <2>3. val[b[i]] = [k \in DOMAIN report.policies |-> LogAlert(report, report.policies[k])]
    BY <2>1
  <2>4. /\ LogAlerts(report) \in Seq(AlertRecords)
        /\ Listed(LogAlerts(report), F,
                  [k \in DOMAIN report.policies |-> LogAlert(report, report.policies[k])],
                  Before)
    BY <2>1, LogAlertsListed
  <2> HIDE DEF P, val, F
  <2> QED
    BY <2>1, <2>2, <2>3, <2>4 DEF report
<1>6. seqs \in Seq(Seq(AlertRecords)) /\ Len(seqs) = n
  <2>1. seqs = [i \in 1..n |-> seqs[i]]
    BY <1>4, <1>5
  <2> QED
    BY <1>2, <1>5, <2>1, Tabulated, Zenon
<1>7. EachListed(seqs, b, P, val, Before)
  <2> HIDE DEF P, val
  <2> QED
    BY <1>5, <1>6 DEF EachListed
<1>8. /\ \A d \in D : \A k \in P[d] : <<d, k>> \in Places(D, P)
  BY PlaceIs, Zenon
<1>9. Gathers(all, D, P, val)
  <2> SUFFICES ASSUME NEW d \in D, NEW k \in P[d]
               PROVE  all[<<d, k>>] = val[d][k]
    BY DEF Gathers
  <2>1. <<d, k>> \in Places(D, FailingAt(D, v))
    BY <1>8
  <2>2. all[<<d, k>>] = LogAlert(v[d], v[d].policies[k])
    BY <2>1 DEF AlertsAt
  <2>3. k \in DOMAIN v[d].policies
    BY DEF FailingAt, FailingIn
  <2> QED
    BY <2>2, <2>3
<1> HIDE DEF P, val, all
<1>10. Listed(FlattenSeq(seqs), Places(D, P), all, Places(D, P) \X Places(D, P))
  <2>1. seqs \in Seq(Seq(AlertRecords)) /\ Len(x) = Len(seqs)
    BY <1>6 DEF n
  <2> QED
    BY <1>1, <1>7, <1>9, <2>1, FlattenPlaces
<1> QED
  BY <1>10 DEF P, all, seqs

\* The alert for each failing policy of a new message.
AlertFor == [p \in FailingPolicies |-> LogAlert(ReportAt(p[1]), PolicyAt(p))]

\* Where a failing policy is.
LEMMA FailingPolicyIs ==
    ASSUME batch \in Seq(UIDs)
    PROVE  /\ \A f \in Found : Alerting(batch[f[1]]) =>
                  \A k \in FailingIn(ReportAt(f)) : <<f, k>> \in FailingPolicies
           /\ \A p \in FailingPolicies :
                 /\ p[1] \in Found /\ Alerting(batch[p[1][1]])
                 /\ p[2] \in FailingIn(ReportAt(p[1])) /\ p = <<p[1], p[2]>>
                 /\ ReportAt(p[1]) \in Reports /\ PolicyAt(p) \in Policies
<1> DEFINE F == {g \in Found : Alerting(batch[g[1]])}
           P == [f \in F |-> FailingIn(ReportAt(f))]
<1>1. FailingPolicies = Places(F, P)
  BY DEF FailingPolicies, Places
<1>2. \A f \in F : P[f] = FailingIn(ReportAt(f))
  OBVIOUS
<1> HIDE DEF P
<1>3. /\ \A f \in F : \A k \in P[f] : <<f, k>> \in FailingPolicies
      /\ \A p \in FailingPolicies : p[1] \in F /\ p[2] \in P[p[1]] /\ p = <<p[1], p[2]>>
  BY <1>1, PlaceIs, Zenon
<1>4. ASSUME NEW p \in FailingPolicies
      PROVE  /\ p[1] \in Found /\ Alerting(batch[p[1][1]])
             /\ p[2] \in FailingIn(ReportAt(p[1])) /\ p = <<p[1], p[2]>>
             /\ ReportAt(p[1]) \in Reports /\ PolicyAt(p) \in Policies
  <2>1. p[1] \in F /\ p[2] \in P[p[1]] /\ p = <<p[1], p[2]>>
    BY <1>3
  <2>2. p[2] \in FailingIn(ReportAt(p[1])) /\ p[1] \in Found /\ Alerting(batch[p[1][1]])
    BY <1>2, <2>1
  <2>3. ReportAt(p[1]) \in Reports
    BY <2>2, CollectionListed
  <2>4. ReportAt(p[1]).policies \in Seq(Policies)
    BY <2>3 DEF Reports
  <2>5. p[2] \in DOMAIN ReportAt(p[1]).policies
    BY <2>2 DEF FailingIn
  <2>6. ReportAt(p[1]).policies[p[2]] \in Policies
    BY <2>4, <2>5
  <2> QED
    BY <2>1, <2>2, <2>3, <2>6 DEF PolicyAt
<1> QED
  BY <1>2, <1>3, <1>4

\* The alerts are one for each failing policy of each new message, and no other.
LEMMA AlertsListed ==
    ASSUME batch \in Seq(UIDs)
    PROVE  Listed(Alerts, FailingPolicies, AlertFor, FailingPolicies \X FailingPolicies)
<1> DEFINE n == Len(batch)
           seqs == AlertLists
           q == [i \in 1..n |-> IF Alerting(batch[i])
                                THEN Places(ReportsIn(i), FailingAt(ReportsIn(i), ReportVal(i)))
                                ELSE {}]
           val == [i \in 1..n |-> AlertsAt(ReportsIn(i), ReportVal(i))]
           U == Places(1..n, q)
           Every == UNION {q[i] : i \in 1..n}
           R == Every \X Every
           UU == U \X U
           FF == FailingPolicies \X FailingPolicies
           all == [u \in U |-> val[u[1]][u[2]]]
           name == [u \in U |-> << <<u[1], u[2][1]>>, u[2][2] >>]
<1>1. /\ seqs \in Seq(Seq(AlertRecords)) /\ Len(seqs) = n
      /\ \A i \in 1..n : seqs[i] = AlertsOf(i)
      /\ Alerts = FlattenSeq(seqs)
  BY AlertListsType
<1>2. n \in Nat
  OBVIOUS
<1>3. \A i \in 1..n : /\ val[i] = AlertsAt(ReportsIn(i), ReportVal(i))
                      /\ q[i] = IF Alerting(batch[i])
                                THEN Places(ReportsIn(i), FailingAt(ReportsIn(i), ReportVal(i)))
                                ELSE {}
                      /\ q[i] \subseteq Every
  OBVIOUS
<1> HIDE DEF n, seqs, q, val
<1>4. ASSUME NEW i \in 1..n
      PROVE  Listed(seqs[i], q[i], val[i], R)
  <2> DEFINE D == ReportsIn(i)
             v == ReportVal(i)
             x == Results[i].reports
             L == Places(D, FailingAt(D, v))
             LL == L \X L
  <2>1. CASE Alerting(batch[i])
    <3>1. seqs[i] = FlattenSeq(Map(x, LogAlerts))
      BY <1>1, <2>1 DEF AlertsOf
    <3>2. x \in Seq(Reports)
      BY BatchResults DEF n
    <3>3. Listed(x, D, v, Before) /\ Into(v, D, Reports)
      BY ReportsListed DEF n
    <3>4. q[i] = L /\ val[i] = AlertsAt(D, v)
      BY <1>3, <2>1
    <3>5. L \subseteq Every
      BY <1>3, <3>4
    <3> HIDE DEF D, v, x
    <3>6. Listed(FlattenSeq(Map(x, LogAlerts)), L, AlertsAt(D, v), LL)
      BY <3>2, <3>3, MessageAlerts
    <3> HIDE DEF L, Every
    <3>7. \A p, r \in L : <<p, r>> \in LL => <<p, r>> \in R
      BY <3>5
    <3> DEFINE s == seqs[i]
               w == val[i]
    <3>8. Listed(s, L, w, LL)
      BY <3>1, <3>4, <3>6
    <3> HIDE DEF s, w, LL, R
    <3>9. Listed(s, L, w, R)
      BY <3>7, <3>8, ListedSame
    <3> QED
      BY <3>4, <3>9 DEF s, w
  <2>2. CASE ~Alerting(batch[i])
    <3>1. seqs[i] = <<>> /\ q[i] = {}
      BY <1>1, <1>3, <2>2 DEF AlertsOf
    <3> QED
      BY <3>1, ListedEmpty, Zenon
  <2> QED
    BY <2>1, <2>2
<1>5. /\ \A i \in 1..n : \A p \in q[i] : <<i, p>> \in U
      /\ \A u \in U : u[1] \in 1..n /\ u[2] \in q[u[1]] /\ u = <<u[1], u[2]>>
  BY PlaceIs, Zenon
<1> HIDE DEF U, Every, R
<1>6. \A i \in 1..n : \A p \in q[i] : all[<<i, p>>] = val[i][p]
  BY <1>5
<1> DEFINE flat == FlattenSeq(seqs)
<1>7. Listed(flat, U, all, UU)
  <2> HIDE DEF all
  <2>1. \A i \in 1..Len(seqs) : Listed(seqs[i], q[i], val[i], R)
    BY <1>1, <1>4
  <2>2. \A i \in 1..Len(seqs) : \A p \in q[i] : all[<<i, p>>] = val[i][p]
    BY <1>1, <1>6
  <2>3. \A i \in 1..Len(seqs) : \A p, r \in q[i] :
            <<p, r>> \in R => << <<i, p>>, <<i, r>> >> \in UU
    BY <1>1, <1>5
  <2>4. \A i, j \in 1..Len(seqs) : i < j =>
            \A p \in q[i], r \in q[j] : << <<i, p>>, <<j, r>> >> \in UU
    BY <1>1, <1>5
  <2>5. seqs \in Seq(Seq(AlertRecords))
    BY <1>1
  <2> HIDE DEF UU
  <2>6. Listed(FlattenSeq(seqs), UNION {{i} \X q[i] : i \in 1..Len(seqs)}, all, UU)
    BY <2>1, <2>2, <2>3, <2>4, <2>5, FlattenListed, ZenonT(60)
  <2> QED
    BY <1>1, <2>6 DEF U, Places
<1>8. ASSUME NEW i \in 1..n, NEW p \in q[i]
      PROVE  /\ Alerting(batch[i]) /\ p[1] \in ReportsIn(i) /\ p = <<p[1], p[2]>>
             /\ <<i, p[1]>> \in Found /\ p[2] \in FailingIn(ReportAt(<<i, p[1]>>))
             /\ p \in Places(ReportsIn(i), FailingAt(ReportsIn(i), ReportVal(i)))
             /\ ReportVal(i)[p[1]] = ReportAt(<<i, p[1]>>)
  <2> DEFINE D == ReportsIn(i)
             P == FailingAt(D, ReportVal(i))
  <2>1. Alerting(batch[i]) /\ p \in Places(D, P)
    BY <1>3
  <2>2. p[1] \in D /\ p[2] \in P[p[1]] /\ p = <<p[1], p[2]>>
    <3> HIDE DEF D, P
    <3> QED
      BY <2>1, PlaceIs, Zenon
  <2>3. ReportVal(i)[p[1]] = ReportAt(<<i, p[1]>>)
    BY <2>2 DEF ReportVal
  <2>4. p[2] \in FailingIn(ReportAt(<<i, p[1]>>))
    BY <2>2, <2>3 DEF FailingAt
  <2>5. <<i, p[1]>> \in Found
    BY <2>2, ReportsListed DEF n
  <2> QED
    BY <2>1, <2>2, <2>3, <2>4, <2>5
<1>9. \A u \in U : name[u] = << <<u[1], u[2][1]>>, u[2][2] >>
  OBVIOUS
<1>10. \A u \in U : all[u] = val[u[1]][u[2]]
  OBVIOUS
<1>11. name \in [U -> FailingPolicies]
  <2> SUFFICES ASSUME NEW u \in U
               PROVE  << <<u[1], u[2][1]>>, u[2][2] >> \in FailingPolicies
    OBVIOUS
  <2> DEFINE f == <<u[1], u[2][1]>>
  <2>1. /\ f \in Found /\ u[2][2] \in FailingIn(ReportAt(f)) /\ Alerting(batch[u[1]])
    BY <1>5, <1>8
  <2>2. f[1] = u[1]
    OBVIOUS
  <2> HIDE DEF f
  <2>3. <<f, u[2][2]>> \in FailingPolicies
    BY <2>1, <2>2, FailingPolicyIs
  <2> QED
    BY <2>3 DEF f
<1> HIDE DEF name, all
<1>12. \A u, t \in U : name[u] = name[t] => u = t
  <2> SUFFICES ASSUME NEW u \in U, NEW t \in U, name[u] = name[t]
               PROVE  u = t
    OBVIOUS
  <2>1. u[1] = t[1] /\ u[2][1] = t[2][1] /\ u[2][2] = t[2][2]
    BY <1>9
  <2>2. u[2] = <<u[2][1], u[2][2]>> /\ t[2] = <<t[2][1], t[2][2]>>
    BY <1>5, <1>8, ZenonT(60)
  <2>3. u = <<u[1], u[2]>> /\ t = <<t[1], t[2]>>
    BY <1>5
  <2> QED
    BY <2>1, <2>2, <2>3
<1>13. \A p \in FailingPolicies : \E u \in U : name[u] = p
  <2> SUFFICES ASSUME NEW p \in FailingPolicies
               PROVE  \E u \in U : name[u] = p
    OBVIOUS
  <2> DEFINE i == p[1][1]
             k == p[1][2]
             l == p[2]
             u == <<i, <<k, l>> >>
  <2>1. /\ p[1] \in Found /\ Alerting(batch[i]) /\ l \in FailingIn(ReportAt(p[1]))
        /\ p = <<p[1], p[2]>>
    BY FailingPolicyIs
  <2>2. /\ i \in 1..n /\ p[1] = <<i, k>> /\ k \in ReportsIn(i)
    BY <2>1, CollectionListed DEF n, ReportsIn
  <2>3. l \in FailingAt(ReportsIn(i), ReportVal(i))[k]
    BY <2>1, <2>2 DEF FailingAt, ReportVal
  <2>4. <<k, l>> \in Places(ReportsIn(i), FailingAt(ReportsIn(i), ReportVal(i)))
    BY <2>2, <2>3, PlaceIs
  <2>5. <<k, l>> \in q[i]
    BY <1>3, <2>1, <2>2, <2>4
  <2>6. u \in U
    BY <1>5, <2>2, <2>5
  <2>7. name[u] = << <<i, k>>, l >>
    BY <1>9, <2>6
  <2> QED
    BY <2>1, <2>2, <2>6, <2>7
<1>14. \A u \in U : AlertFor[name[u]] = all[u]
  <2> TAKE u \in U
  <2> DEFINE i == u[1]
             p == u[2]
             f == <<i, p[1]>>
  <2>1. i \in 1..n /\ p \in q[i]
    BY <1>5
  <2>2. /\ p \in Places(ReportsIn(i), FailingAt(ReportsIn(i), ReportVal(i)))
        /\ ReportVal(i)[p[1]] = ReportAt(f)
    BY <1>8, <2>1
  <2>3. all[u] = LogAlert(ReportAt(f), ReportAt(f).policies[p[2]])
    <3>1. all[u] = AlertsAt(ReportsIn(i), ReportVal(i))[p]
      BY <1>3, <1>10, <2>1
    <3> QED
      BY <2>2, <3>1 DEF AlertsAt
  <2>4. name[u] \in FailingPolicies /\ name[u] = <<f, p[2]>>
    BY <1>9, <1>11
  <2> HIDE DEF f, p, i
  <2>5. AlertFor[<<f, p[2]>>] = LogAlert(ReportAt(f), PolicyAt(<<f, p[2]>>))
    BY <2>4 DEF AlertFor
  <2>6. PolicyAt(<<f, p[2]>>) = ReportAt(f).policies[p[2]]
    BY DEF PolicyAt
  <2> QED
    BY <2>3, <2>4, <2>5, <2>6
<1>15. \A u, t \in U : <<u, t>> \in UU => <<name[u], name[t]>> \in FF
  BY <1>11
<1> HIDE DEF UU, FF, flat
<1>16. Listed(flat, FailingPolicies, AlertFor, FF)
  BY <1>7, <1>11, <1>12, <1>13, <1>14, <1>15, ListedRenamed
<1> QED
  BY <1>1, <1>16 DEF flat, FF

\* The alert for a policy is a record with the counts of the policy.
LEMMA AlertForIs ==
    ASSUME batch \in Seq(UIDs), NEW p \in FailingPolicies
    PROVE  /\ AlertFor[p] = LogAlert(ReportAt(p[1]), PolicyAt(p)) /\ AlertFor[p] \in AlertRecords
           /\ AlertFor[p].failed = PolicyAt(p).failed /\ PolicyAt(p).failed \in Int
           /\ AlertFor[p].org = ReportAt(p[1]).org
<1>1. ReportAt(p[1]) \in Reports /\ PolicyAt(p) \in Policies
  BY FailingPolicyIs
<1>2. AlertFor[p] = LogAlert(ReportAt(p[1]), PolicyAt(p))
  BY DEF AlertFor
<1>3. LogAlert(ReportAt(p[1]), PolicyAt(p)) \in AlertRecords
  BY <1>1, LogAlertType
<1>4. PolicyAt(p).failed \in Int
  BY <1>1 DEF Policies
<1>5. /\ AlertFor[p].failed = PolicyAt(p).failed
      /\ AlertFor[p].org = ReportAt(p[1]).org
  BY <1>2 DEF LogAlert
<1> QED
  BY <1>2, <1>3, <1>4, <1>5

\* Their number, their sessions and their organizations are those of the
\* failing policies.
LEMMA AlertTotals ==
    ASSUME batch \in Seq(UIDs)
    PROVE  /\ IsFiniteSet(FailingPolicies) /\ Cardinality(FailingPolicies) = Len(Alerts)
           /\ SumOf([p \in FailingPolicies |-> PolicyAt(p).failed])
                  = Sum(Image(Alerts, FailedOf))
           /\ Orgs(Alerts) = {ReportAt(p[1]).org : p \in FailingPolicies}
<1> DEFINE FP == FailingPolicies
           FF == FP \X FP
           s == Alerts
           n == Len(s)
           t == Image(s, FailedOf)
           failed == [p \in FP |-> PolicyAt(p).failed]
<1>1. s \in Seq(AlertRecords) /\ Listed(s, FP, AlertFor, FF)
  BY AlertListsType, AlertsListed
<1>2. ASSUME NEW p \in FP
      PROVE  /\ AlertFor[p] \in AlertRecords /\ failed[p] = FailedOf[AlertFor[p]]
             /\ failed[p] \in Int /\ AlertFor[p].org = ReportAt(p[1]).org
  <2>1. /\ AlertFor[p] \in AlertRecords /\ AlertFor[p].failed = PolicyAt(p).failed
        /\ PolicyAt(p).failed \in Int /\ AlertFor[p].org = ReportAt(p[1]).org
    BY AlertForIs
  <2>2. FailedOf[AlertFor[p]] = AlertFor[p].failed
    BY <2>1 DEF FailedOf
  <2> QED
    BY <2>1, <2>2
<1>3. failed \in [FP -> Int]
  BY <1>2
<1> HIDE DEF s, FF, failed, FP
<1>4. n \in Nat /\ DOMAIN s = 1..n
  BY <1>1
<1>5. IsFiniteSet(FP) /\ Cardinality(FP) = n
  BY <1>1, <1>4, ListedSize
<1>6. /\ t \in Seq(Int) /\ Len(t) = n /\ \A k \in 1..n : t[k] = FailedOf[s[k]]
  <2>1. Into(FailedOf, AlertRecords, Int)
    BY DEF Into, FailedOf, AlertRecords
  <2> QED
    BY <1>1, <2>1, ImageType
<1> HIDE DEF t
<1>7. Listed(t, FP, failed, FF)
  <2>1. Listed(s, FP, AlertFor, FF) /\ Len(t) = Len(s)
    BY <1>1, <1>6
  <2>2. \A k \in 1..Len(s) : t[k] = FailedOf[s[k]]
    BY <1>6
  <2>3. \A p \in FP : failed[p] = FailedOf[AlertFor[p]]
    BY <1>2
  <2> QED
    BY <2>1, <2>2, <2>3, ListedMapped
<1>8. SumOf(failed) = Sum(t)
  BY <1>3, <1>6, <1>7, SumOfListed, Zenon
<1>9. Orgs(s) = {ReportAt(p[1]).org : p \in FP}
  <2>1. PICK b : Listing(s, b, FP, AlertFor, FF)
    BY <1>1 DEF Listed
  <2>2. /\ \A k \in 1..n : b[k] \in FP /\ s[k] = AlertFor[b[k]]
        /\ \A p \in FP : \E k \in 1..n : b[k] = p
    BY <2>1 DEF Listing
  <2>3. Orgs(s) = {s[k].org : k \in 1..n}
    BY <1>4 DEF Orgs
  <2>4. \A k \in 1..n : s[k].org = ReportAt(b[k][1]).org
    BY <1>2, <2>2
  <2>5. \A p \in FP : \E k \in 1..n : s[k].org = ReportAt(p[1]).org
    BY <2>2, <2>4
  <2> DEFINE O == {ReportAt(p[1]).org : p \in FP}
  <2>6. \A k \in 1..n : s[k].org \in O
    BY <2>2, <2>4
  <2>7. {s[k].org : k \in 1..n} \subseteq O
    BY <2>6
  <2>8. O \subseteq {s[k].org : k \in 1..n}
    BY <2>5
  <2> QED
    BY <2>3, <2>7, <2>8
<1> QED
  BY <1>5, <1>8, <1>9 DEF FP, failed, s, n, t

\* Whatever became of the run, a message with alerts is the one for the batch.
LEMMA AlertMessageIs ==
    ASSUME ContentInv, NEW i \in AlertMessages
    PROVE  Alerts # <<>> /\ posted["warn"][i] = FormatAlerts(Alerts)
<1> DEFINE q == posted["warn"]
<1>1. batch \in Seq(UIDs) /\ q \in Seq(Sent)
  BY DEF ContentInv, DataInv, PostedInv
<1>2. i \in DOMAIN q /\ q[i].kind = "alerts"
  BY DEF AlertMessages
<1> HIDE DEF q
<1>3. q[i] \in Sent
  BY <1>1, <1>2
<1>4. \A what : FormatWarning(what).kind = "warning" /\ FormatSystemError(what).kind = "error"
  BY DEF FormatWarning, FormatSystemError
<1>5. q[i] \notin Errors
  BY <1>2, <1>4 DEF Errors
<1>6. q[i] # ReadOnly
  BY <1>2, <1>4 DEF ReadOnly
<1>7. q[i] \in BatchRange
  BY <1>3, <1>5, <1>6 DEF Sent
<1>8. \/ Alerts # <<>> /\ q[i] = FormatAlerts(Alerts)
      \/ q[i] = FormatWarning("parse_failure")
  BY <1>1, <1>7, BatchRangeIs
<1>9. q[i] # FormatWarning("parse_failure")
  BY <1>2, <1>4
<1> QED
  BY <1>8, <1>9 DEF q

\* Every failing policy of every new message, and no other, reaches the error
\* webhook in one message (or copies of it, see Flush), shown or counted with its sessions in the note, for
\* every mailbox and all the limits: what is cut is cut out of the details,
\* never out of the numbers (logAlerts, batching, formatAlerts).
THEOREM AlertsAllAccounted == Spec => []AlertsAccounted
<1>1. ContentInv => AlertsAccounted
  <2> SUFFICES ASSUME ContentInv, Complete PROVE AlertsAccounted
    BY Zenon DEF AlertsAccounted
  <2> DEFINE p == posted["warn"]
             a == AlertMessageCount(Alerts)
             w == Warnings
             FP == FailingPolicies
  <2>1. batch \in Seq(UIDs)
    BY DEF ContentInv, DataInv
  <2>2. /\ Alerts \in Seq(AlertRecords) /\ IsFiniteSet(FP) /\ Cardinality(FP) = Len(Alerts)
        /\ SumOf([q \in FP |-> PolicyAt(q).failed]) = Sum(Image(Alerts, FailedOf))
        /\ Orgs(Alerts) = {ReportAt(q[1]).org : q \in FP}
    BY <2>1, AlertListsType, AlertTotals
  <2>3. FP = {} <=> Alerts = <<>>
    <3>1. Cardinality(FP) = 0 <=> FP = {}
      BY <2>2, FS_EmptySet
    <3>2. Len(Alerts) = 0 <=> Alerts = <<>>
      BY <2>2
    <3> QED
      BY <2>2, <3>1, <3>2
  <2>4. (a = 0 /\ Alerts = <<>>) \/ (a = 1 /\ Alerts # <<>>)
    BY DEF AlertMessageCount
  <2>5. /\ w \in Nat /\ Len(p) \in {a + w, a + w + 1} /\ DOMAIN p = 1..Len(p)
        /\ Alerts # <<>> => p[1] = FormatAlerts(Alerts)
        /\ \A i \in 1..w : p[a + i] = FormatWarning("parse_failure")
        /\ Len(p) = a + w + 1 => p[a + w + 1] = ReadOnly
    <3> HIDE DEF a
    <3> QED
      BY PostedShape DEF a
  <2>6. /\ FormatAlerts(Alerts).kind = "alerts"
        /\ FormatWarning("parse_failure").kind = "warning" /\ ReadOnly.kind = "warning"
    BY DEF FormatAlerts, FormatWarning, ReadOnly
  <2> HIDE DEF p, a, w, FP
  <2>7. AlertMessages = {i \in 1..Len(p) : p[i].kind = "alerts"}
    BY <2>5 DEF AlertMessages, p
  <2>8. ASSUME NEW i \in 1..Len(p)
        PROVE  p[i].kind = "alerts" <=> (i = 1 /\ Alerts # <<>>)
    <3>1. Len(p) = a + w \/ Len(p) = a + w + 1
      BY <2>5
    <3>2. CASE i <= a
      <4>1. i = 1 /\ Alerts # <<>>
        BY <2>4, <2>5, <3>1, <3>2
      <4> QED
        BY <2>5, <2>6, <4>1
    <3>3. CASE i > a /\ i <= a + w
      <4>1. i - a \in 1..w /\ a + (i - a) = i /\ ~(i = 1 /\ Alerts # <<>>)
        BY <2>4, <2>5, <3>1, <3>3
      <4>2. p[i] = FormatWarning("parse_failure")
        BY <2>5, <4>1
      <4> QED
        BY <2>6, <4>1, <4>2
    <3>4. CASE i > a + w
      <4>1. i = a + w + 1 /\ Len(p) = a + w + 1 /\ ~(i = 1 /\ Alerts # <<>>)
        BY <2>4, <2>5, <3>1, <3>4
      <4> QED
        BY <2>5, <2>6, <4>1
    <3> QED
      BY <2>4, <2>5, <3>2, <3>3, <3>4
  <2>9. Alerts # <<>> => 1 \in 1..Len(p)
    BY <2>4, <2>5
  <2>10. AlertMessages = IF Alerts = <<>> THEN {} ELSE {1}
    BY <2>7, <2>8, <2>9
  <2>11. Cardinality(AlertMessages) = IF FP = {} THEN 0 ELSE 1
    BY <2>3, <2>10, FS_EmptySet, FS_Singleton
  <2>12. ASSUME NEW i \in AlertMessages
         PROVE  /\ Len(PoliciesShown(p[i])) + Sum(Numbers(PoliciesNoted(p[i])))
                       = Cardinality(FP)
                /\ Sum(FailedIn(PoliciesShown(p[i]))) + Sum(FailedIn(PoliciesNoted(p[i])))
                       = SumOf([q \in FP |-> PolicyAt(q).failed])
                /\ p[i].orgs = Cardinality({ReportAt(q[1]).org : q \in FP})
    <3>1. Alerts # <<>> /\ p[i] = FormatAlerts(Alerts)
      BY AlertMessageIs DEF p
    <3>2. p[i].orgs = Cardinality(Orgs(Alerts))
      BY <3>1 DEF FormatAlerts
    <3>3. /\ Len(PoliciesShown(FormatAlerts(Alerts)))
                 + Sum(Numbers(PoliciesNoted(FormatAlerts(Alerts)))) = Len(Alerts)
          /\ Sum(FailedIn(PoliciesShown(FormatAlerts(Alerts))))
                 + Sum(FailedIn(PoliciesNoted(FormatAlerts(Alerts))))
                 = Sum(Image(Alerts, FailedOf))
      BY <2>2, <3>1, AlertsCounted
    <3> QED
      BY <2>2, <3>1, <3>2, <3>3
  <2> QED
    BY <2>11, <2>12, Zenon DEF AlertsAccounted, p, FP, PoliciesShown, PoliciesNoted, Numbers,
                               FailedIn
<1> QED
  BY <1>1, ContentInvariant, PTL

\* The details shown of a policy are its largest, and with the entry for the
\* others they add up to all its details and sessions, for every mailbox and all
\* the limits, although the record was capped before (LogAlert,
\* buildFailureDetailsText); counts of details are not negative (MailboxAssumption).
THEOREM DetailsAllAddUp == Spec => []DetailsAddUp
<1>1. ContentInv => DetailsAddUp
  <2> DEFINE Details(message) == Titled(message, "Failure Details")
             s == Alerts
             A == {s[k] : k \in 1..Len(s)}
  <2> SUFFICES ASSUME ContentInv, NEW i \in AlertMessages,
                      NEW k \in DOMAIN Details(posted["warn"][i])
               PROVE  \E p \in FailingPolicies :
                          DetailsRight(Details(posted["warn"][i])[k], PolicyAt(p).details)
    BY Zenon DEF DetailsAddUp, DetailsRight
  <2> HIDE DEF Details
  <2>1. batch \in Seq(UIDs)
    BY DEF ContentInv, DataInv
  <2>2. s # <<>> /\ posted["warn"][i] = FormatAlerts(s)
    BY AlertMessageIs
  <2>3. /\ s \in Seq(AlertRecords)
        /\ Listed(s, FailingPolicies, AlertFor, FailingPolicies \X FailingPolicies)
    BY <2>1, AlertListsType, AlertsListed
  <2> HIDE DEF s
  <2>4. s \in Seq(A)
    BY <2>3
  <2>5. Details(FormatAlerts(s)) \in Seq(DetailFields(A))
    <3> HIDE DEF A
    <3> QED
      BY <2>2, <2>4, AlertsMessage, Zenon DEF Details
  <2> DEFINE field == Details(posted["warn"][i])[k]
  <2>6. field \in DetailFields(A)
    <3> DEFINE t == Details(posted["warn"][i])
    <3>1. t \in Seq(DetailFields(A)) /\ k \in DOMAIN t
      BY <2>2, <2>5
    <3> HIDE DEF t, A
    <3>2. t[k] \in DetailFields(A)
      BY <3>1
    <3> QED
      BY <3>2 DEF t
  <2>7. PICK a \in A : a.details # <<>> /\ field = DetailField(a)
    BY <2>6 DEF DetailFields
  <2>8. PICK j \in 1..Len(s) : a = s[j]
    BY <2>7
  <2>9. PICK b : Listing(s, b, FailingPolicies, AlertFor, FailingPolicies \X FailingPolicies)
    BY <2>3 DEF Listed
  <2> DEFINE p == b[j]
  <2>10. p \in FailingPolicies /\ a = AlertFor[p]
    BY <2>8, <2>9 DEF Listing
  <2> HIDE DEF p, field
  <2>11. ReportAt(p[1]) \in Reports /\ PolicyAt(p) \in Policies
    BY <2>1, <2>10, FailingPolicyIs
  <2>12. a = LogAlert(ReportAt(p[1]), PolicyAt(p))
    BY <2>1, <2>10, AlertForIs
  <2>13. DetailsRight(DetailField(a), PolicyAt(p).details)
    BY <2>7, <2>11, <2>12, DetailsOfPolicy
  <2> QED
    BY <2>7, <2>10, <2>13 DEF field
<1> QED
  BY <1>1, ContentInvariant, PTL

=============================================================================
