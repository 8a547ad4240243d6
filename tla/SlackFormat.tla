----------------------------- MODULE SlackFormat -----------------------------
(***************************************************************************)
(* From reports to Slack messages: the alerts of a report, the summary of  *)
(* a period, and how both are cut into attachments and fields within the   *)
(* limits of Slack.                                                        *)
(*                                                                         *)
(* A report is [org, id, day, policies], where day is the day on which its *)
(* period ends, and a policy [ok, failed, details], where details lists    *)
(* the sessions of each failure detail.  A message is [kind, attachments], *)
(* an attachment a sequence of fields, and a field a record with a title   *)
(* and the values that go into its text.  Texts, and that a long text is   *)
(* cut, are left out; counts are small enough not to overflow an int64.    *)
(***************************************************************************)
EXTENDS Lists

CONSTANTS
    MaxFailureDetails,      \* maxFailureDetails, in a record
    MaxDetailDisplay,       \* maxAlertDetailDisplay, in a message
    PoliciesPerChunk,       \* maxAlertPoliciesPerChunk
    LastChunkWithOverflow,  \* maxPoliciesInLastChunkWithOverflow
    MaxAttachments,         \* maxAlertAttachments
    OrgFields,              \* maxSummaryOrgFields
    MaxFields               \* Slack: fields in an attachment

FormatBounds == {MaxFailureDetails, MaxDetailDisplay, PoliciesPerChunk,
                 LastChunkWithOverflow, MaxAttachments, OrgFields, MaxFields}

ASSUME FormatAssumption ==
    /\ FormatBounds \subseteq Nat \ {0}
    /\ MaxDetailDisplay <= MaxFailureDetails
    /\ LastChunkWithOverflow <= PoliciesPerChunk
    /\ 3 * PoliciesPerChunk + 1 <= MaxFields /\ 3 * LastChunkWithOverflow + 2 <= MaxFields
    /\ OrgFields + 1 <= MaxFields /\ 5 <= MaxFields

Least(x, y) == IF x < y THEN x ELSE y
Most(x, y) == IF x < y THEN y ELSE x
First(seq, n) == SubSeq(seq, 1, Least(n, Len(seq)))

\* Slices of size elements; the last one holds the rest.
Chunks(seq, size) ==
    [c \in 1..((Len(seq) + size - 1) \div size) |->
        SubSeq(seq, (c - 1) * size + 1, Least(c * size, Len(seq)))]

-----------------------------------------------------------------------------
(* Alerts.                                                                 *)

Failing(report) ==
    Subsequence(report.policies,
                {k \in DOMAIN report.policies : report.policies[k].failed > 0})

HasFailure(report) == Failing(report) # <<>>

\* Variant: the details are counted after the cap.
LogAlertCapped(report, policy) ==
    LET details == First(Descending(policy.details), MaxFailureDetails)
    IN  [org |-> report.org, failed |-> policy.failed, details |-> details,
         count |-> Len(details), sessions |-> Sum(details)]

\* What is left of a policy once its record has been encoded and decoded.
LogAlert(report, policy) ==
    [org      |-> report.org,
     failed   |-> policy.failed,
     details  |-> First(Descending(policy.details), MaxFailureDetails),
     count    |-> Len(policy.details),
     sessions |-> Sum(policy.details)]

LogAlerts(report) == Map(Failing(report), LAMBDA p : LogAlert(report, p))

RunID == [title |-> "Run ID"]

\* buildFailureDetailsText
FailureDetails(alert) ==
    LET shown    == First(alert.details, MaxDetailDisplay)
        count    == Most(alert.count, Len(alert.details))
        sessions == Most(alert.sessions, Sum(alert.details))
    IN  IF alert.details = <<>> THEN <<>>
        ELSE << [title    |-> "Failure Details",
                 shown    |-> shown,
                 others   |-> Most(count - MaxDetailDisplay, 0),
                 sessions |-> IF count > MaxDetailDisplay
                              THEN Most(sessions - Sum(shown), 0) ELSE 0] >>

\* A report without an id is not parsed, so the field is always there.
AlertFields(alert) ==
    << [title |-> "Policy", org |-> alert.org, failed |-> alert.failed],
       [title |-> "Report ID"] >> \o FailureDetails(alert)

Orgs(alerts) == {alerts[i].org : i \in DOMAIN alerts}

Omitted(alerts) ==
    IF alerts = <<>> THEN <<>>
    ELSE << [title    |-> "Additional Policies",
             policies |-> Len(alerts),
             orgs     |-> Cardinality(Orgs(alerts)),
             failed   |-> Sum(Map(alerts, LAMBDA a : a.failed))] >>

\* Variant: the last attachment is filled although the overflow is noted in it.
ShownFull(alerts) == Least(Len(alerts), MaxAttachments * PoliciesPerChunk)

\* The number of alerts shown.
Shown(alerts) ==
    IF Len(alerts) > MaxAttachments * PoliciesPerChunk
    THEN (MaxAttachments - 1) * PoliciesPerChunk + LastChunkWithOverflow
    ELSE Len(alerts)

FormatAlerts(alerts) ==
    LET shown   == First(alerts, Shown(alerts))
        omitted == SubSeq(alerts, Shown(alerts) + 1, Len(alerts))
        chunks  == Chunks(shown, PoliciesPerChunk)
        Fields(chunk) == FlattenSeq(Map(chunk, AlertFields))
    IN  [kind        |-> "alerts",
         orgs        |-> Cardinality(Orgs(alerts)),
         attachments |->
            [c \in DOMAIN chunks |->
                IF c < Len(chunks) THEN Fields(chunks[c])
                ELSE Fields(chunks[c]) \o Omitted(omitted) \o <<RunID>>]]

-----------------------------------------------------------------------------
(* Summaries, over a set of reports.                                       *)

InPeriod(report, start, end) == start <= report.day /\ report.day < end

SuccessfulSessions(report) == Sum(Map(report.policies, LAMBDA p : p.ok))

\* Variant: reports with failures are counted.
SummarizedAll(reports, start, end) ==
    {r \in reports : InPeriod(r, start, end)}

\* The reports that go into a summary.
Summarized(reports, start, end) ==
    {r \in reports : InPeriod(r, start, end) /\ ~HasFailure(r)}

GenerateSummary(reports, start, end) ==
    LET counted == Summarized(reports, start, end)
    IN  [count |-> Cardinality(counted),
         stats |-> [org \in {r.org : r \in counted} |->
                       Sum(Map(SetToSeq({r \in counted : r.org = org}),
                               SuccessfulSessions))]]

FormatSummary(summary) ==
    LET chunks == Chunks(SetToSeq(DOMAIN summary.stats), OrgFields)
        Fields(chunk) ==
            Map(chunk, LAMBDA org : [title |-> "Organization", org |-> org,
                                     sessions |-> summary.stats[org]])
    IN  [kind        |-> "summary",
         count       |-> summary.count,
         attachments |->
            IF chunks = <<>> THEN << <<RunID>> >>
            ELSE [c \in DOMAIN chunks |->
                     IF c < Len(chunks) THEN Fields(chunks[c])
                     ELSE Append(Fields(chunks[c]), RunID)]]

-----------------------------------------------------------------------------
(* Warnings and system errors: one message each.                           *)

Titles(titles) == Map(titles, LAMBDA title : [title |-> title])

\* A warning about a message names it; only fetch knows its Message-ID.
FormatWarning(what) ==
    [kind |-> "warning", what |-> what,
     attachments |->
        << Titles(<<"Kind">>) \o
           (IF what = "mailbox_read_only" THEN <<>>
            ELSE Titles(<<"UID", "UIDValidity", "Message-ID">>)) \o <<RunID>> >>]

\* The hint says how to resolve a recovery, or which variables to set.
FormatSystemError(what) ==
    [kind |-> "error", what |-> what,
     attachments |->
        << Titles(<<"Kind", "Component", "Mailbox">>) \o
           (IF what \notin {"uidvalidity_changed", "recovery_required",
                            "imap_credentials_missing"} THEN <<>>
            ELSE Titles(<<"Action Required">>)) \o <<RunID>> >>]

OfKind(records, kind) ==
    Subsequence(records, {i \in DOMAIN records : records[i].kind = kind})

\* formatRecords: a record is an alert, a warning, an error or a summary.
FormatRecords(records) ==
    LET alerts == Map(OfKind(records, "alert"), LAMBDA r : r.alert)
    IN  (IF alerts = <<>> THEN <<>> ELSE <<FormatAlerts(alerts)>>)
        \o Map(OfKind(records, "warning"), LAMBDA r : FormatWarning(r.what))
        \o Map(OfKind(records, "error"), LAMBDA r : FormatSystemError(r.what))
        \o Map(OfKind(records, "summary"), LAMBDA r : FormatSummary(r.summary))

-----------------------------------------------------------------------------
(* Reading a message again.                                                *)

FieldsOf(message) == FlattenSeq(message.attachments)

OfTitle(fields, title) ==
    Subsequence(fields, {i \in DOMAIN fields : fields[i].title = title})

Titled(message, title) == OfTitle(FieldsOf(message), title)

\* The places of the Run ID: an attachment and a field of it.
RunIDs(message) ==
    UNION {{c} \X {j \in DOMAIN message.attachments[c] :
                      message.attachments[c][j] = RunID} :
              c \in DOMAIN message.attachments}

\* formatSummary does not cap the number of its attachments, so it takes as
\* many as the organizations need.
FewEnough(message) ==
    message.kind = "summary" =>
        Len(Titled(message, "Organization")) <= MaxAttachments * OrgFields

WithinLimits(message) ==
    LET attachments == message.attachments
        last        == Len(attachments)
    IN  /\ \A c \in DOMAIN attachments : Len(attachments[c]) <= MaxFields
        /\ FewEnough(message) => last <= MaxAttachments
        /\ RunIDs(message) = {<<last, Len(attachments[last])>>}

=============================================================================
