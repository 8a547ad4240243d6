----------------------------- MODULE EmailStore -----------------------------
(***************************************************************************)
(* Retention: what fetch and reprocess put into the store and the index of *)
(* messages, and what gc deletes by age, day after day.  fetch files a     *)
(* message under the month of its INTERNALDATE and indexes it with that    *)
(* date; reprocess indexes files it finds without an entry, for which it   *)
(* only knows the month in the path; gc deletes reports by the end of      *)
(* their period, files by their date in the index, and messages on the     *)
(* server by INTERNALDATE; summary, which takes no writer lock, counts the *)
(* reports whose period ended in its window.  Commands can die or fail at  *)
(* every step.                                                             *)
(*                                                                         *)
(* Time is counted in days, as all cutoffs are (Duration.Cutoff).  There   *)
(* is one UIDVALIDITY and every message holds one report, about the day    *)
(* before it was received.  Notifications and messages that do not parse   *)
(* are the subject of module Fetch.                                        *)
(***************************************************************************)
EXTENDS Naturals

CONSTANTS
    Messages,
    MonthLength,        \* days in a month
    LastDay,            \* bound: the day on which time stops
    FetchDays,          \* imap.fetch_days
    WindowDays,         \* summary.window_days, and the days between summaries
    RetentionDays,      \* store.retention_days
    MaxEmailAgeDays,    \* store.max_email_age_days
    ImapRetentionDays,  \* imap.retention_days, 0 if disabled
    MaxFailures         \* bound: commands and removals that fail

ASSUME BoundsAssumption ==
    {LastDay, MonthLength} \subseteq Nat \ {0} /\ MaxFailures \in Nat

\* config.validate
Validate ==
    /\ {FetchDays, WindowDays, RetentionDays, MaxEmailAgeDays} \subseteq Nat \ {0}
    /\ ImapRetentionDays \in Nat
    /\ ImapRetentionDays > 0 => /\ ImapRetentionDays >= FetchDays
                               /\ ImapRetentionDays >= WindowDays

\* Nothing compares retention_days with window_days, and LoadFile only warns if
\* max_email_age_days is less than retention_days.
ASSUME ConfigAssumption == Validate

NoDay == 0
Days == 1..LastDay
Month(day) == (day - 1) \div MonthLength
FirstDay(month) == month * MonthLength + 1

VARIABLES
    today,
    received,   \* server: INTERNALDATE of each message, or NoDay
    mailbox,    \* server: messages in the mailbox
    seen,       \* server: those with \Seen
    flagged,    \* server: those with \Deleted
    files,      \* store: <<message, month>> for each .eml file
    index,      \* store: date in the email index, or NoDay
    reports,    \* store: messages whose report is saved
    pc,         \* next step of the command
    now,        \* the day on which the command started
    work,       \* messages the command has still to handle
    metas,      \* dates to be indexed, or NoDay
    collected,  \* messages whose report is to be saved
    gone,       \* gc: index entries whose file is gone
    digest,     \* the summary of today: see Digests
    guessed,    \* history: messages that were indexed by their month
    counted,    \* history: messages whose report a summary has counted
    failures

server == <<received, mailbox, seen, flagged>>
store == <<files, index, reports>>
local == <<work, metas, collected, gone>>
summary == <<digest, counted>>
vars == <<today, server, store, pc, now, local, guessed, failures, summary>>

\* "late" is a summary that took its window from the day before.
Digests == {"none", "due", "late"}

Steps == {"idle", "list", "saveEmail", "fetchMetas", "fetchReports",
          "markSeen", "loadEmails", "reprocessMetas", "reprocessReports",
          "deleteReports", "deleteEmails", "removeFile", "saveIndex",
          "search", "expunge"}

TypeOK ==
    /\ today \in Days /\ now \in Days
    /\ received \in [Messages -> Days \cup {NoDay}]
    /\ seen \subseteq Messages /\ mailbox \subseteq Messages
    /\ flagged \subseteq mailbox
    /\ files \subseteq Messages \X {Month(d) : d \in Days}
    /\ index \in [Messages -> Days \cup {NoDay}]
    /\ reports \subseteq Messages
    /\ pc \in Steps
    /\ work \subseteq Messages
    /\ metas \in [Messages -> Days \cup {NoDay}]
    /\ collected \subseteq Messages
    /\ gone \subseteq Messages
    /\ guessed \subseteq Messages
    /\ digest \in Digests
    /\ counted \subseteq Messages
    /\ failures \in 0..MaxFailures

Undated == [m \in Messages |-> NoDay]

Init ==
    /\ today = 1 /\ now = 1
    /\ received = Undated
    /\ mailbox = {} /\ seen = {} /\ flagged = {}
    /\ files = {} /\ index = Undated /\ reports = {}
    /\ pc = "idle"
    /\ work = {} /\ metas = Undated /\ collected = {} /\ gone = {}
    /\ guessed = {}
    /\ digest = "none" /\ counted = {}
    /\ failures = 0

-----------------------------------------------------------------------------
(* Time and the mail server.                                               *)

\* cron starts a summary every WindowDays days.
DueOn(day) == IF day % WindowDays = 0 THEN "due" ELSE "none"

\* A summary may read after midnight what it set out to read before; it ends
\* within the day that follows.
NextDay ==
    /\ today < LastDay
    /\ digest # "late"
    /\ today' = today + 1
    /\ digest' = IF digest = "due" THEN "late" ELSE DueOn(today')
    /\ UNCHANGED <<server, store, pc, now, local, guessed, counted, failures>>

\* Mail arrives early enough to grow old before time stops.
Arrive(m) ==
    /\ received[m] = NoDay
    /\ today + MaxEmailAgeDays < LastDay
    /\ today + ImapRetentionDays < LastDay
    /\ received' = [received EXCEPT ![m] = today]
    /\ mailbox' = mailbox \cup {m}
    /\ UNCHANGED <<today, seen, flagged, store, pc, now, local, guessed,
                   failures, summary>>

-----------------------------------------------------------------------------
(* Commands: one at a time, under the writer lock.                         *)

Start(step) ==
    /\ pc = "idle"
    /\ pc' = step
    /\ now' = today
    /\ UNCHANGED <<today, server, store, local, guessed, failures, summary>>

\* What a command knows is gone when it ends.
Return ==
    /\ pc' = "idle"
    /\ work' = {} /\ metas' = Undated /\ collected' = {} /\ gone' = {}

Goto(step) == pc' = step /\ UNCHANGED local

\* The command is killed or gives up on an error.
Fail ==
    /\ pc # "idle"
    /\ failures < MaxFailures
    /\ failures' = failures + 1
    /\ Return
    /\ UNCHANGED <<today, server, store, now, guessed, summary>>

\* Variant: the day of the cutoff counts as old.
BeforeOrOn(d, n) == d + n <= now

\* Day d is before the cutoff of a period of n days.
Before(d, n) == d + n < now

\* buildEmailPath
Path(m, date) == <<m, Month(date)>>

\* An entry that exists keeps its date.
SaveEmailMetas(from, to) ==
    /\ pc = from
    /\ index' = [m \in Messages |->
                    IF index[m] = NoDay THEN metas[m] ELSE index[m]]
    /\ guessed' = guessed \cup
                    {m \in Messages : index'[m] \notin {NoDay, received[m]}}
    /\ Goto(to)
    /\ UNCHANGED <<today, server, files, reports, now, failures, summary>>

-----------------------------------------------------------------------------
(* fetch: the window and the dates.                                        *)

Listed == {m \in mailbox : ~Before(received[m], FetchDays)}

\* Variant: reports are saved before the files they come from.
FetchMetaReportsFirst ==
    LET saved == {m \in Listed : Path(m, received[m]) \in files}
    IN  /\ pc = "list"
        /\ work' = Listed \ saved
        /\ metas' = [m \in Messages |-> IF m \in Listed THEN received[m]
                                                        ELSE NoDay]
        /\ collected' = Listed
        /\ reports' = reports \cup Listed
        /\ pc' = "saveEmail"
        /\ UNCHANGED <<today, server, files, index, now, gone, guessed,
                       failures, summary>>

\* FetchMeta, buildFetchStates and the choice of what to parse; work are the
\* messages to download.
FetchMeta ==
    LET saved == {m \in Listed : Path(m, received[m]) \in files}
    IN  /\ pc = "list"
        /\ work' = Listed \ saved
        /\ metas' = [m \in Messages |-> IF m \in Listed THEN received[m]
                                                        ELSE NoDay]
        /\ collected' = Listed \ (saved \cap seen)
        /\ pc' = "saveEmail"
        /\ UNCHANGED <<today, server, store, now, gone, guessed, failures,
                       summary>>

SaveEmail ==
    /\ pc = "saveEmail"
    /\ \/ \E m \in work :
              /\ files' = files \cup {Path(m, received[m])}
              /\ work' = work \ {m}
              /\ UNCHANGED pc
       \/ /\ work = {}
          /\ pc' = "fetchMetas"
          /\ UNCHANGED <<files, work>>
    /\ UNCHANGED <<today, server, index, reports, now, metas, collected, gone,
                   guessed, failures, summary>>

SaveReports ==
    /\ pc = "fetchReports"
    /\ reports' = reports \cup collected
    /\ Goto("markSeen")
    /\ UNCHANGED <<today, server, files, index, now, guessed, failures,
                   summary>>

MarkSeen ==
    /\ pc = "markSeen"
    /\ seen' = seen \cup {m \in mailbox : metas[m] # NoDay}
    /\ Return
    /\ UNCHANGED <<today, received, mailbox, flagged, store, now, guessed,
                   failures, summary>>

FetchStep ==
    \/ FetchMeta \/ SaveEmail
    \/ SaveEmailMetas("fetchMetas", "fetchReports")
    \/ SaveReports \/ MarkSeen

-----------------------------------------------------------------------------
(* reprocess                                                               *)

\* The month of a file, if there is one.
FileMonths(m) == {f[2] : f \in {g \in files : g[1] = m}}

\* internalDateFromEmailPath knows the month only.
PathDate(m) == FirstDay(CHOOSE month \in FileMonths(m) : TRUE)

\* Variant: only messages in the index are loaded.
LoadIndexedEmails ==
    /\ pc = "loadEmails"
    /\ collected' = {m \in Messages : FileMonths(m) # {} /\ index[m] # NoDay}
    /\ metas' = [m \in Messages |-> IF m \in collected' THEN index[m] ELSE NoDay]
    /\ pc' = "reprocessMetas"
    /\ UNCHANGED <<today, server, store, now, work, gone, guessed, failures,
                   summary>>

\* Every .eml file, with the date in the index or else the one in its path.
LoadEmails ==
    /\ pc = "loadEmails"
    /\ collected' = {m \in Messages : FileMonths(m) # {}}
    /\ metas' = [m \in Messages |->
                    IF m \notin collected' THEN NoDay
                    ELSE IF index[m] # NoDay THEN index[m] ELSE PathDate(m)]
    /\ pc' = "reprocessMetas"
    /\ UNCHANGED <<today, server, store, now, work, gone, guessed, failures,
                   summary>>

ReprocessReports ==
    /\ pc = "reprocessReports"
    /\ reports' = reports \cup collected
    /\ Return
    /\ UNCHANGED <<today, server, files, index, now, guessed, failures,
                   summary>>

ReprocessStep ==
    \/ LoadEmails
    \/ SaveEmailMetas("reprocessMetas", "reprocessReports")
    \/ ReprocessReports

-----------------------------------------------------------------------------
(* gc                                                                      *)

\* The last day of the period that the report in m is about.
EndDay(m) == received[m] - 1

DeleteReportsBefore ==
    /\ pc = "deleteReports"
    /\ reports' = {m \in reports : ~Before(EndDay(m), RetentionDays)}
    /\ Goto("deleteEmails")
    /\ UNCHANGED <<today, server, files, index, now, guessed, failures,
                   summary>>

Expired == {m \in Messages : index[m] # NoDay /\ Before(index[m], MaxEmailAgeDays)}

DeleteEmailsBefore ==
    /\ pc = "deleteEmails"
    /\ work' = Expired
    /\ pc' = "removeFile"
    /\ UNCHANGED <<today, server, store, now, metas, collected, gone, guessed,
                   failures, summary>>

\* Variant: the entry goes although the file could not be removed.
RemoveFileOrNot ==
    /\ pc = "removeFile"
    /\ \/ \E m \in work :
              /\ work' = work \ {m}
              /\ gone' = gone \cup {m}
              /\ \/ /\ files' = files \ {Path(m, index[m])}
                    /\ UNCHANGED failures
                 \/ /\ failures < MaxFailures
                    /\ failures' = failures + 1
                    /\ UNCHANGED files
              /\ UNCHANGED pc
       \/ /\ work = {}
          /\ pc' = "saveIndex"
          /\ UNCHANGED <<files, work, gone, failures>>
    /\ UNCHANGED <<today, server, index, reports, now, metas, collected,
                   guessed, summary>>

\* The path is built from the date in the index.  A file that cannot be
\* removed keeps its entry.
RemoveFile ==
    /\ pc = "removeFile"
    /\ \/ \E m \in work :
              /\ work' = work \ {m}
              /\ \/ /\ files' = files \ {Path(m, index[m])}
                    /\ gone' = gone \cup {m}
                    /\ UNCHANGED failures
                 \/ /\ Path(m, index[m]) \in files
                    /\ failures < MaxFailures
                    /\ failures' = failures + 1
                    /\ UNCHANGED <<files, gone>>
              /\ UNCHANGED pc
       \/ /\ work = {}
          /\ pc' = "saveIndex"
          /\ UNCHANGED <<files, work, gone, failures>>
    /\ UNCHANGED <<today, server, index, reports, now, metas, collected,
                   guessed, summary>>

\* gc ends here if a file was not removed or imap.retention_days is 0.
SaveIndex ==
    /\ pc = "saveIndex"
    /\ index' = [m \in Messages |-> IF m \in gone THEN NoDay ELSE index[m]]
    /\ IF Expired \subseteq gone /\ ImapRetentionDays > 0
       THEN Goto("search")
       ELSE Return
    /\ UNCHANGED <<today, server, files, reports, now, guessed, failures,
                   summary>>

\* Variant: \Deleted is stored for messages known to be old, without a search.
MarkKnownDeleted ==
    LET old == {m \in Messages : received[m] # NoDay
                                   /\ Before(received[m], ImapRetentionDays)}
    IN  /\ pc = "search"
        /\ flagged' = flagged \cup old
        /\ \/ old = {} /\ Return
           \/ /\ old # {}
              /\ work' = old
              /\ pc' = "expunge"
              /\ UNCHANGED <<metas, collected, gone>>
        /\ UNCHANGED <<today, received, mailbox, seen, store, now, guessed,
                       failures, summary>>

\* DeleteOlderThan: \Deleted first, then UID EXPUNGE of the same messages.
MarkDeleted ==
    LET old == {m \in mailbox : Before(received[m], ImapRetentionDays)}
    IN  /\ pc = "search"
        /\ flagged' = flagged \cup old
        /\ \/ old = {} /\ Return
           \/ /\ old # {}
              /\ work' = old
              /\ pc' = "expunge"
              /\ UNCHANGED <<metas, collected, gone>>
        /\ UNCHANGED <<today, received, mailbox, seen, store, now, guessed,
                       failures, summary>>

Expunge ==
    /\ pc = "expunge"
    /\ mailbox' = mailbox \ (work \cap flagged)
    /\ flagged' = flagged \ work
    /\ Return
    /\ UNCHANGED <<today, received, seen, store, now, guessed, failures,
                   summary>>

GcStep ==
    \/ DeleteReportsBefore \/ DeleteEmailsBefore \/ RemoveFile \/ SaveIndex
    \/ MarkDeleted \/ Expunge

-----------------------------------------------------------------------------
(* summary: under the consistency guard, which fetch, reprocess and gc do  *)
(* not take for what they do here.                                         *)

\* The day the summary took its window from.
BaseDay == IF digest = "late" THEN today - 1 ELSE today

\* Variant: the end of the window belongs to it.
InSummaryPeriodClosed(m) ==
    EndDay(m) + WindowDays >= BaseDay /\ EndDay(m) <= BaseDay

\* start <= EndDatetime < end
InSummaryPeriod(m) ==
    EndDay(m) + WindowDays >= BaseDay /\ EndDay(m) < BaseDay

\* GenerateSummary; one that dies counts nothing and is not repeated.
GenerateSummary ==
    /\ digest # "none"
    /\ counted' = counted \cup {m \in reports : InSummaryPeriod(m)}
    /\ digest' = IF digest = "late" THEN DueOn(today) ELSE "none"
    /\ UNCHANGED <<today, server, store, pc, now, local, guessed, failures>>

-----------------------------------------------------------------------------
Step == FetchStep \/ ReprocessStep \/ GcStep

Next ==
    \/ NextDay
    \/ \E m \in Messages : Arrive(m)
    \/ \E step \in {"list", "loadEmails", "deleteReports"} : Start(step)
    \/ Step
    \/ GenerateSummary
    \/ Fail

Spec == Init /\ [][Next]_vars

\* A command takes its next step, cron starts gc, and now and then the
\* operator starts reprocess.
FairSpec ==
    /\ Spec
    /\ WF_vars(NextDay)
    /\ WF_vars(Step)
    /\ WF_vars(GenerateSummary)
    /\ SF_vars(Start("deleteReports"))
    /\ SF_vars(Start("loadEmails"))

-----------------------------------------------------------------------------
(* Properties.                                                             *)

HasFile(m) == FileMonths(m) # {}
Removed(m) == HasFile(m) /\ ~HasFile(m)'

\* gc drops an entry of the index only once its file is gone, so it never
\* orphans a file: the path it builds from the date in the index is the path
\* of the file, whoever chose the date, and a failed removal keeps the entry.
EntryGoesWithFile ==
    [][\A m \in Messages :
           index[m] # NoDay /\ index'[m] = NoDay => ~HasFile(m)']_vars

\* A saved report can be rebuilt by reprocess, wherever gc or fetch broke
\* off: unless the message's date was guessed, the original is not deleted
\* before the report, if max_email_age_days is not less than retention_days,
\* of which LoadFile warns.
ReportsRebuildable ==
    MaxEmailAgeDays >= RetentionDays => \A m \in reports \ guessed : HasFile(m)

\* gc deletes no original more than a month before it reaches
\* max_email_age_days, however it was indexed.
DeletedWithinAMonth ==
    [][\A m \in Messages :
           Removed(m) =>
               received[m] + MaxEmailAgeDays < now + MonthLength - 1]_vars

\* ADR-0001: INTERNALDATE is "the sole criterion for deletion determination".
DeletedOnlyWhenOld ==
    [][\A m \in Messages :
           Removed(m) => Before(received[m], MaxEmailAgeDays)]_vars

\* The windows of successive summaries do not overlap: no report is counted
\* twice, also if it was deleted by gc and restored by reprocess in between.
CountedOnce ==
    [][\A m \in reports :
           today' = today /\ digest' # digest /\ InSummaryPeriod(m)
               => m \notin counted]_vars

\* gc deletes nothing that another command needs.  A report is not counted by
\* the summary that is running, nor by a later one, provided that reports are
\* kept for as long as the window is, and for a day more while a summary runs
\* that took its window before midnight: neither cutoff includes the other's
\* day.  A message on the server is not listed by a fetch on that day or later
\* (imap.retention_days >= imap.fetch_days).
DeletesNothingNeeded ==
    [][/\ RetentionDays >= WindowDays + (today - BaseDay) =>
              \A m \in reports \ reports' : EndDay(m) + WindowDays < BaseDay
       /\ \A m \in mailbox \ mailbox' : received[m] + FetchDays < today]_vars

\* In the end everything that is old is gone from the disk and the server:
\* also a file that a fetch left without an entry, and a message that a gc
\* marked \Deleted and did not expunge.
RetentionEnforced == <>[](files = {} /\ mailbox = {})

=============================================================================
