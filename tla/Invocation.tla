----------------------------- MODULE Invocation -----------------------------
(***************************************************************************)
(* One invocation of the program after another: the command line, the      *)
(* bootstrap with everything that can fail in it, the notification         *)
(* handlers, and for fetch, reprocess and summary the way of the data from *)
(* the messages to the report store and to Slack (modules MailParse and    *)
(* SlackFormat).  What other processes do meanwhile, and a crash between   *)
(* the steps, are the subject of ProcessLocks, StoreReset and Fetch.       *)
(***************************************************************************)
EXTENDS MailParse, SlackFormat

CONSTANTS
    Mailbox,        \* the messages that may be on the server, by UID
    ReadElsewhere,  \* those that other clients may have read
    SavedBefore,    \* those whose files are there at first, from before the
                    \* limit on their size; gc has removed their reports
    CommandLines,   \* what the operator and cron type
    Today,          \* the day of all invocations
    WindowDays,     \* summary.window_days
    MaxInt,         \* the largest int
    MaxListed,      \* bound: messages in one fetch window
    MaxRuns         \* bound: invocations

ASSUME InvocationAssumption ==
    {Today, WindowDays, MaxInt, MaxListed, MaxRuns} \subseteq Nat

ASSUME MailboxAssumption ==
    /\ IsFiniteSet(DOMAIN Mailbox) /\ DOMAIN Mailbox \subseteq Nat
    /\ Mailbox \in [DOMAIN Mailbox -> Mails]
    /\ SavedBefore \subseteq DOMAIN Mailbox
    \* No encoding of a part is shorter than the part.
    /\ \A uid \in DOMAIN Mailbox :
          Sum(Map(Mailbox[uid].parts, DecodedSize)) <= Mailbox[uid].size

VARIABLES
    webhooks,   \* environment: the Slack URLs that are set
    seen,       \* server: messages with \Seen
    files,      \* store: UIDs of the .eml files
    reports,    \* store: the reports in tlsrpt.json
    recovery,   \* store: recovery_required
    cmd,        \* the command line
    pc,         \* next step of the invocation, "done" between invocations
    exit,       \* exit code of the last one
    buffer,     \* the records in each handler
    batch,      \* fetch, reprocess: messages to parse, in order
    unseen,     \* fetch: messages in the window without \Seen
    collected,  \* reports to save, in order
    posted,     \* history: messages Slack got from this invocation
    runs

store == <<files, reports, recovery>>
local == <<batch, unseen, collected>>
notifier == <<buffer, posted>>
vars == <<webhooks, seen, store, cmd, pc, exit, notifier, local, runs>>

UIDs == DOMAIN Mailbox
NoHandlers == [h \in {} |-> <<>>]
NothingPosted == [h \in {"info", "warn"} |-> <<>>]

Init ==
    /\ webhooks \in SUBSET {"info", "warn"}
    /\ seen \in SUBSET ReadElsewhere
    /\ files = SavedBefore /\ reports = {} /\ recovery = FALSE
    /\ cmd = CHOOSE c \in CommandLines : TRUE
    /\ pc = "done" /\ exit = 0
    /\ buffer = NoHandlers /\ posted = NothingPosted
    /\ batch = <<>> /\ unseen = {} /\ collected = <<>>
    /\ runs = 0

-----------------------------------------------------------------------------
(* The command line: a record [sub, config, dryRun, notify, mode, yes,     *)
(* window], where window is <<>> or a number and a unit.                   *)

Days(window) == IF window[2] = "w" THEN 7 * window[1] ELSE window[1]

\* Whether the window is accepted.
ParseDuration(window) ==
    /\ window[2] \in {"d", "w"}
    /\ 0 < window[1] /\ window[1] <= MaxInt
    /\ window[2] = "w" => window[1] <= MaxInt \div 7

Subcommands == {"fetch", "summary", "reprocess", "gc", "recover"}

\* A flag that registerFlags does not know for the command is an error.
RegisterFlags(c) ==
    /\ c.sub \in Subcommands
    /\ c.notify => c.sub = "reprocess"
    /\ c.mode # "" \/ c.yes => c.sub = "recover"
    /\ c.window # <<>> => c.sub = "summary" /\ ParseDuration(c.window)

\* Variant: --dry-run is accepted by every command.
ValidateFlagsAnyDryRun(c) ==
    /\ c.config
    /\ c.mode \in {"", "keep-old", "discard-old"}
    /\ c.yes => c.mode # ""

ValidateFlags(c) ==
    /\ c.config
    /\ c.dryRun => c.sub \in {"fetch", "summary", "gc"}
    /\ c.mode \in {"", "keep-old", "discard-old"}
    /\ c.yes => c.mode # ""

\* errYesRequiresMode is the last thing that is looked for.
UsageError(c) ==
    ~RegisterFlags(c) \/ ~ValidateFlags([c EXCEPT !.yes = FALSE])

Exit(code) ==
    /\ pc' = "done"
    /\ exit' = code
    /\ UNCHANGED <<webhooks, cmd, local, runs>>

Goto(step) == pc' = step /\ UNCHANGED <<webhooks, cmd, exit, runs>>

\* runCLI, parseCLI
Invoke(c) ==
    /\ pc = "done"
    /\ runs < MaxRuns
    /\ runs' = runs + 1
    /\ cmd' = c
    /\ IF RegisterFlags(c) /\ ValidateFlags(c)
       THEN pc' = "boot" /\ UNCHANGED exit
       ELSE pc' = "done" /\ exit' = IF UsageError(c) THEN 2 ELSE 1
    /\ buffer' = NoHandlers /\ posted' = NothingPosted
    /\ batch' = <<>> /\ unseen' = {} /\ collected' = <<>>
    /\ UNCHANGED <<webhooks, seen, store>>

-----------------------------------------------------------------------------
(* Notification handlers.  "info" sends to the success webhook and "warn"  *)
(* to the error webhook; without a URL a handler of a dry run only logs.   *)

\* Variant: the success webhook is enough.
BuildableAny == webhooks = {} => cmd.dryRun

\* setupNotifyHandlers, BuildHandlers, ValidateEnvCombination; the URLs
\* themselves may still be refused.
Buildable == /\ webhooks # {"info"}
             /\ webhooks = {} => cmd.dryRun

Handlers == IF webhooks = {} THEN {"info", "warn"} ELSE webhooks

Built == [h \in Handlers |-> <<>>]

Enabled(h, level) ==
    IF h = "info" THEN level = "info" ELSE level \in {"warn", "error"}

\* The records that are in the handlers of b once these have been logged.
Logged(b, level, records) ==
    [h \in DOMAIN b |-> IF Enabled(h, level) THEN b[h] \o records ELSE b[h]]

\* A Flush of the handlers of b that reports an error may have delivered any
\* part of the messages, or all if only answers got lost; a dry run writes
\* them to the log.  That a retry may post a message again after its answer
\* was lost is the subject of SlackDelivery: posted has a message once.
Flush(b, ok) ==
    LET messages == [h \in DOMAIN b |-> FormatRecords(b[h])]
        all      == UNION {{h} \X DOMAIN messages[h] : h \in DOMAIN b}
    IN  /\ buffer' = [h \in DOMAIN b |-> <<>>]
        /\ IF cmd.dryRun THEN ok /\ UNCHANGED posted
           ELSE \E lost \in SUBSET all :
                    /\ IF ok THEN lost = {} ELSE all # {}
                    /\ posted' = [h \in DOMAIN posted |->
                          posted[h] \o
                          (IF h \notin DOMAIN b THEN <<>>
                           ELSE Subsequence(messages[h], {i \in DOMAIN messages[h] :
                                                             <<h, i>> \notin lost}))]

\* LogSystemError and Flush, whose error is only logged.
NotifySystemErrorVia(b, what) ==
    \E ok \in BOOLEAN :
        Flush(Logged(b, "error", <<[kind |-> "error", what |-> what]>>), ok)

NotifySystemError(what) == NotifySystemErrorVia(buffer, what)

-----------------------------------------------------------------------------
(* Bootstrap                                                               *)

Writes == ~cmd.dryRun /\ cmd.sub # "summary"

\* The configuration cannot be loaded, the root directory not be prepared, or
\* the store or the guard of summary not be opened.
BootFails ==
    /\ pc = "boot"
    /\ Exit(1)
    /\ UNCHANGED <<seen, store, notifier>>

Boot ==
    /\ pc = "boot"
    /\ Goto(IF cmd.sub = "summary" THEN "run" ELSE "notifier")
    /\ UNCHANGED <<seen, store, notifier, local>>

\* recover has no handlers.
BuildNotifier ==
    /\ pc = "notifier"
    /\ \/ /\ cmd.sub = "recover"
          /\ Goto("lock")
          /\ UNCHANGED <<buffer, local>>
       \/ /\ cmd.sub # "recover" /\ Buildable
          /\ buffer' = Built
          /\ Goto("lock")
          /\ UNCHANGED local
       \/ /\ cmd.sub # "recover"
          /\ Exit(1)
          /\ UNCHANGED buffer
    /\ UNCHANGED <<seen, store, posted>>

AcquireWriterLock ==
    /\ pc = "lock"
    /\ \/ /\ Goto("open")
          /\ UNCHANGED <<notifier, local>>
       \/ /\ Writes
          /\ \E what \in {"lock_held", "store_permission"} : NotifySystemError(what)
          /\ Exit(1)
    /\ UNCHANGED <<seen, store>>

\* A pending reset, another identity, a lack of permission or anything else.
OpenStore ==
    /\ pc = "open"
    /\ \/ /\ Goto("run")
          /\ UNCHANGED <<notifier, local>>
       \/ /\ NotifySystemError("open")
          /\ Exit(1)
    /\ UNCHANGED <<seen, store>>

Bootstrap == BootFails \/ Boot \/ BuildNotifier \/ AcquireWriterLock \/ OpenStore

-----------------------------------------------------------------------------
(* fetch and reprocess                                                     *)

\* The sentinel cannot be read or saved; recovery_required; missing credentials
\* or an IMAP operation that fails; buildFetchStates, which notifies nobody.
FetchFails ==
    /\ pc = "run" /\ cmd.sub = "fetch"
    /\ \/ NotifySystemError("store_corruption")
       \/ recovery /\ NotifySystemError("recovery_required")
       \/ /\ ~recovery
          /\ \E what \in {"imap_credentials_missing", "imap"} : NotifySystemError(what)
       \/ ~recovery /\ UNCHANGED notifier
    /\ Exit(1)
    /\ UNCHANGED <<seen, store>>

UIDValidityChanged ==
    /\ pc = "run" /\ cmd.sub = "fetch" /\ ~recovery
    /\ recovery' = ~cmd.dryRun
    /\ NotifySystemError("uidvalidity_changed")
    /\ Exit(1)
    /\ UNCHANGED <<seen, files, reports>>

IsTooLarge(size) == MaxMessageBytes > 0 /\ size > MaxMessageBytes

\* The messages that FetchMeta does not leave out; of the others there is only
\* a line in the log.
FetchMeta == {uid \in UIDs : Mailbox[uid].listable /\ ~IsTooLarge(Mailbox[uid].size)}

\* buildFetchStates, fetchDownloadAndSave and SaveEmailMetas.
FetchDownload(window) ==
    /\ pc = "run" /\ cmd.sub = "fetch" /\ ~recovery
    /\ window \subseteq FetchMeta /\ Cardinality(window) <= MaxListed
    /\ \/ /\ cmd.dryRun
          /\ Flush(buffer, TRUE)
          /\ Exit(0)
          /\ UNCHANGED files
       \/ /\ ~cmd.dryRun
          /\ files' = files \cup window
          /\ batch' = Ascending(window \ (seen \cap files))
          /\ unseen' = window \ seen
          /\ Goto("collect")
          /\ UNCHANGED <<collected, notifier>>
    /\ UNCHANGED <<seen, reports, recovery>>

\* Some files are saved; only an IMAP error is notified of, a body larger than
\* the size that the server gave among them.
DownloadFails(window) ==
    /\ pc = "run" /\ cmd.sub = "fetch" /\ ~recovery /\ ~cmd.dryRun
    /\ window \subseteq FetchMeta /\ Cardinality(window) <= MaxListed
    /\ files' = files \cup window
    /\ NotifySystemError("imap") \/ UNCHANGED notifier
    /\ Exit(1)
    /\ UNCHANGED <<seen, reports, recovery>>

\* It ends at once with recovery_required, and if SaveEmailMetas fails.  The
\* sentinel or the directory of the files may be unreadable; single files that
\* are count among the messages that cannot be parsed.
LoadEmails ==
    /\ pc = "run" /\ cmd.sub = "reprocess"
    /\ \/ /\ Exit(1)
          /\ UNCHANGED notifier
       \/ /\ NotifySystemError("store_corruption")
          /\ Exit(1)
       \/ /\ ~recovery
          /\ batch' = Ascending(files)
          /\ Goto("collect")
          /\ UNCHANGED <<unseen, collected, notifier>>
    /\ UNCHANGED <<seen, store>>

Alerting(uid) == IF cmd.sub = "fetch" THEN uid \in unseen ELSE cmd.notify
Notifying == cmd.sub = "fetch" \/ cmd.notify

\* What the messages of the batch give, in their order.
Results == Map(batch, LAMBDA uid : ProcessMail(Mailbox[uid]))
Alerts ==
    LET results == Results
    IN  FlattenSeq([i \in DOMAIN batch |->
            IF Alerting(batch[i]) THEN FlattenSeq(Map(results[i].reports, LogAlerts))
            ELSE <<>>])
Warnings == IF Notifying THEN Sum(Map(Results, LAMBDA r : r.warnings)) ELSE 0
Records ==
    Map(Alerts, LAMBDA a : [kind |-> "alert", alert |-> a]) \o
    [i \in 1..Warnings |-> [kind |-> "warning", what |-> "parse_failure"]]

\* fetchCollectReports, reprocessCollectReports
CollectReports ==
    /\ pc = "collect"
    /\ collected' = FlattenSeq(Map(Results, LAMBDA r : r.reports))
    /\ buffer' = Logged(buffer, "warn", Records)
    /\ Goto("save")
    /\ UNCHANGED <<seen, store, posted, batch, unseen>>

\* By report-id alone: the last one wins.
Upsert(saved, report) == {r \in saved : r.id # report.id} \cup {report}

\* The reports saved after those of a list, one by one.
Upserted(saved, list) ==
    LET after[n \in 0..Len(list)] ==
            IF n = 0 THEN saved ELSE Upsert(after[n - 1], list[n])
    IN  after[Len(list)]

\* The failure is also that of fetchCollectReports to load a file.
SaveReports ==
    /\ pc = "save"
    /\ \/ /\ Exit(1)
          /\ UNCHANGED reports
       \/ /\ reports' = Upserted(reports, collected)
          /\ IF Notifying THEN Goto("flush") /\ UNCHANGED local ELSE Exit(0)
    /\ UNCHANGED <<seen, files, recovery, notifier>>

FlushNotifications ==
    /\ pc = "flush"
    /\ \E ok \in BOOLEAN :
           /\ Flush(buffer, ok)
           /\ IF ~ok THEN Exit(1)
              ELSE IF cmd.sub = "reprocess" THEN Exit(0)
              ELSE Goto("markSeen") /\ UNCHANGED local
    /\ UNCHANGED <<seen, store>>

\* A mailbox that is read-only gives a warning, any other error ends the run;
\* the exit code is that of SaveUIDValidity.
MarkSeen ==
    /\ pc = "markSeen"
    /\ \/ /\ seen' = seen \cup unseen
          /\ \E code \in {0, 1} : Exit(code)
          /\ UNCHANGED notifier
       \/ /\ unseen # {}
          /\ Exit(1)
          /\ UNCHANGED <<seen, notifier>>
       \/ /\ unseen # {}
          /\ \E ok \in BOOLEAN :
                 Flush(Logged(buffer, "warn", <<[kind |-> "warning",
                                                 what |-> "mailbox_read_only"]>>), ok)
          /\ \E code \in {0, 1} : Exit(code)
          /\ UNCHANGED seen
    /\ UNCHANGED store

-----------------------------------------------------------------------------
(* summary                                                                 *)

End == Today
Start == Today - (IF cmd.window = <<>> THEN WindowDays ELSE Days(cmd.window))

\* Nothing is built, and no URL needed, if there is nothing to report.
Summary ==
    LET summary == GenerateSummary(reports, Start, End)
    IN  /\ pc = "run" /\ cmd.sub = "summary"
        /\ \/ Exit(1) /\ UNCHANGED notifier
           \/ /\ recovery /\ Buildable
              /\ NotifySystemErrorVia(Built, "recovery_required")
              /\ Exit(1)
           \/ /\ ~recovery /\ summary.count = 0
              /\ Exit(0)
              /\ UNCHANGED notifier
           \/ /\ ~recovery /\ summary.count > 0 /\ Buildable
              /\ \E ok \in BOOLEAN :
                     Flush(Logged(Built, "info",
                                  <<[kind |-> "summary", summary |-> summary]>>), ok)
              /\ Exit(0)
        /\ UNCHANGED <<seen, store>>

-----------------------------------------------------------------------------
(* gc and recover, as far as the store is concerned (modules EmailStore    *)
(* and StoreReset have the details).                                       *)

Gc ==
    /\ pc = "run" /\ cmd.sub = "gc"
    /\ \/ recovery /\ Exit(1) /\ UNCHANGED <<files, reports, notifier>>
       \/ /\ NotifySystemError("gc")
          /\ Exit(1)
          /\ UNCHANGED <<files, reports>>
       \/ /\ ~recovery
          /\ IF cmd.dryRun THEN UNCHANGED <<files, reports>>
             ELSE \E cutoff \in 1..Today :
                      /\ reports' = {r \in reports : r.day >= cutoff}
                      /\ files' \in SUBSET files
          /\ \/ NotifySystemError("gc") /\ Exit(1)
             \/ Exit(0) /\ UNCHANGED notifier
    /\ UNCHANGED <<seen, recovery>>

\* Without recovery_required, discard-old removes what a reset left behind.
Recover ==
    /\ pc = "run" /\ cmd.sub = "recover"
    /\ \/ Exit(1) /\ UNCHANGED store
       \/ /\ ~recovery /\ cmd.mode = "discard-old" /\ cmd.yes
          /\ Exit(0)
          /\ UNCHANGED store
       \/ /\ recovery /\ cmd.mode = "keep-old"
          /\ recovery' = FALSE
          /\ Exit(0)
          /\ UNCHANGED <<files, reports>>
       \/ /\ recovery /\ cmd.mode = "discard-old" /\ cmd.yes
          /\ recovery' = FALSE
          /\ files' = {} /\ reports' = {}
          /\ Exit(0)
    /\ UNCHANGED <<seen, notifier>>

-----------------------------------------------------------------------------
Next ==
    \/ \E c \in CommandLines : Invoke(c)
    \/ Bootstrap
    \/ FetchFails \/ UIDValidityChanged
    \/ \E window \in SUBSET UIDs : FetchDownload(window) \/ DownloadFails(window)
    \/ LoadEmails \/ CollectReports \/ SaveReports
    \/ FlushNotifications \/ MarkSeen
    \/ Summary \/ Gc \/ Recover

Spec == Init /\ [][Next]_vars

-----------------------------------------------------------------------------
(* Properties.  Those about content compare what Slack and the store got   *)
(* with the messages, by the reference definitions of MailParse.           *)

\* fetch, or reprocess --notify, has done all it was to do.
Complete ==
    /\ pc = "done" /\ exit = 0 /\ batch # <<>>
    /\ cmd.sub \in {"fetch", "reprocess"} /\ Notifying

\* The reports in the batch: position of the message, number of the part.
Found ==
    UNION {{i} \X Genuine(Mailbox[batch[i]]) :
              i \in {j \in DOMAIN batch : Acceptable(Mailbox[batch[j]])}}

ReportAt(f) == Mailbox[batch[f[1]]].parts[f[2]].content.report

\* The policies that Slack has to hear of: a report and the number in it.
FailingIn(report) == {k \in DOMAIN report.policies : report.policies[k].failed > 0}
FailingPolicies ==
    UNION {{f} \X FailingIn(ReportAt(f)) : f \in {g \in Found : Alerting(batch[g[1]])}}

PolicyAt(p) == ReportAt(p[1]).policies[p[2]]

AlertMessages == {i \in DOMAIN posted["warn"] : posted["warn"][i].kind = "alerts"}

\* Every failing policy of every new message, and no other, is in one message
\* to the error webhook (or copies of it, see Flush): shown, or counted with its
\* sessions among those that did not fit (logAlerts, routing, batching, the caps
\* of formatAlerts).
AlertsAccounted ==
    Complete =>
        /\ Cardinality(AlertMessages) = IF FailingPolicies = {} THEN 0 ELSE 1
        /\ \A i \in AlertMessages :
              LET message == posted["warn"][i]
                  shown   == Titled(message, "Policy")
                  omitted == Titled(message, "Additional Policies")
                  Failed(field) == field.failed
              IN  /\ Len(shown) + Sum(Map(omitted, LAMBDA f : f.policies))
                         = Cardinality(FailingPolicies)
                  /\ Sum(Map(shown, Failed)) + Sum(Map(omitted, Failed))
                         = SumOf([p \in FailingPolicies |-> PolicyAt(p).failed])
                  /\ message.orgs =
                         Cardinality({ReportAt(p[1]).org : p \in FailingPolicies})

\* A message that was read is taken as a whole or refused as a whole, with one
\* warning, and each attachment of it that decodes and claims to be a report is
\* saved or warned of, once: the limits of mailparse and tlsrpt, which are met
\* in the middle of a message, lose nothing silently (processAttachments).
\* What is never read is not warned of: messages that FetchMeta leaves out, and
\* parts that do not decode.
WarningsAccounted ==
    LET Expected(mail) == IF Acceptable(mail)
                          THEN Cardinality(Claimed(mail) \ Genuine(mail)) ELSE 1
    IN  Complete =>
            Cardinality({i \in DOMAIN posted["warn"] :
                            /\ posted["warn"][i].kind = "warning"
                            /\ posted["warn"][i].what = "parse_failure"})
                = Sum([i \in DOMAIN batch |-> Expected(Mailbox[batch[i]])])

\* The details shown of a policy are its largest, and with the entry for the
\* others they add up to all its details and sessions, although the record
\* was capped in between (LogAlert, buildFailureDetailsText).
DetailsAddUp ==
    pc = "done" =>
        \A i \in AlertMessages :
            LET fields == Titled(posted["warn"][i], "Failure Details")
            IN  \A k \in DOMAIN fields : \E p \in FailingPolicies :
                    LET field   == fields[k]
                        details == PolicyAt(p).details
                    IN  /\ Len(field.shown) + field.others = Len(details)
                        /\ Sum(field.shown) + field.sessions = Sum(details)
                        /\ \A d \in DOMAIN field.shown :
                               Cardinality({e \in DOMAIN details :
                                               details[e] > field.shown[d]}) < d

\* No message has more fields in an attachment than Slack accepts, and each
\* carries the Run ID once, at its end, however many policies or organizations
\* there are.  Nor has it more attachments, however many policies there are; a
\* summary, which nothing caps, as long as MaxAttachments have room for its
\* organizations.
MessagesWithinLimits ==
    \A h \in DOMAIN posted : \A i \in DOMAIN posted[h] : WithinLimits(posted[h][i])

\* A summary counts every report without failures whose period ended in the
\* window, and names every organization once, with all its sessions
\* (GenerateSummary, formatSummary).
SummaryMatchesStore ==
    LET counted == {r \in reports :
                       /\ Start <= r.day /\ r.day < Today
                       /\ \A k \in DOMAIN r.policies : r.policies[k].failed <= 0}
        orgs    == {r.org : r \in counted}
        PoliciesOf(org) == UNION {{r} \X DOMAIN r.policies :
                                     r \in {c \in counted : c.org = org}}
        Sessions(org) == SumOf([p \in PoliciesOf(org) |-> p[1].policies[p[2]].ok])
    IN  cmd.sub = "summary" /\ pc = "done" =>
            \A i \in DOMAIN posted["info"] :
                LET message == posted["info"][i]
                    fields  == Titled(message, "Organization")
                IN  /\ message.count = Cardinality(counted)
                    /\ Len(fields) = Cardinality(orgs)
                    /\ ToSet(fields) = {[title |-> "Organization", org |-> org,
                                         sessions |-> Sessions(org)] : org \in orgs}

\* The store holds one report for each report-id, and after a complete run it
\* holds every report of the batch, or a later one with its report-id: one bad
\* attachment costs no other report (SaveReports, processAttachments).
StoreHoldsLatest ==
    LET Later(g, f) == f[1] < g[1] \/ (f[1] = g[1] /\ f[2] < g[2])
    IN  /\ \A r, s \in reports : r.id = s.id => r = s
        /\ Complete =>
               \A f \in Found : \E g \in Found :
                   /\ g = f \/ Later(g, f)
                   /\ ReportAt(g).id = ReportAt(f).id
                   /\ ReportAt(g) \in reports

\* "skip local store writes and IMAP mailbox modifications, and log what would
\* happen instead of sending Slack notifications": on every path, the errors
\* included, and for every command that takes the flag.
DryRunChangesNothing ==
    [][cmd.dryRun /\ pc # "done" => UNCHANGED <<seen, store, posted>>]_vars

=============================================================================
