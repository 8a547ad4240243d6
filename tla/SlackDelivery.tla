--------------------------- MODULE SlackDelivery ---------------------------
(***************************************************************************)
(* The SlackHandler of one webhook: Handle buffers records, Flush takes    *)
(* the buffer, forms messages and posts them one after the other, each     *)
(* with retries.  Handle may be called while a Flush is posting.           *)
(*                                                                         *)
(* A message is the set of records it is about: all alerts of a batch      *)
(* share one message, every other record has its own.  Messages are posted *)
(* in any order.  No command cancels its context, so the paths for a       *)
(* cancelled context are left out, and so is dry-run.  Notifier is the     *)
(* contract that the handler implements.                                   *)
(***************************************************************************)
EXTENDS Naturals

CONSTANTS
    Alerts, Others,     \* records; each is handled once
    RetryCount,         \* BackoffConfig.RetryCount
    Base,               \* BackoffConfig.Base, in seconds
    MaxCumulativeWait,  \* in seconds
    RetryAfters,        \* bound: values of Retry-After, in seconds
    MaxUnknown          \* bound: posts whose answer does not arrive

ASSUME DeliveryAssumption ==
    /\ Alerts \cap Others = {}
    /\ {RetryCount, Base, MaxCumulativeWait, MaxUnknown} \subseteq Nat
    /\ RetryAfters \subseteq Nat

Records == Alerts \cup Others

VARIABLES
    buf,        \* records waiting for the next Flush
    snapshot,   \* records that this Flush took
    todo,       \* messages not begun
    msg,        \* message that is being posted
    pc,         \* "idle" outside Flush
    attempt,    \* of msg, from 0
    waited,     \* seconds slept for msg (cumulativeWait)
    errs,       \* some message of this Flush has failed
    handled,    \* history: records given to Handle
    posted,     \* history: records that were posted at least once
    accepted,   \* history: how often Slack accepted each record
    reported,   \* history: records of a Flush that returned an error
    unknown,    \* history: posts whose answer did not arrive
    notBefore   \* history: what Retry-After asked for, on the scale of waited

vars == <<buf, snapshot, todo, msg, pc, attempt, waited, errs, handled,
          posted, accepted, reported, unknown, notBefore>>
history == <<handled, posted, accepted, reported, unknown, notBefore>>

Messages == (SUBSET Records) \ {{}}

TypeOK ==
    /\ buf \subseteq Records /\ snapshot \subseteq Records
    /\ todo \subseteq Messages
    /\ msg \in Messages \cup {{}}
    /\ pc \in {"idle", "send", "attempt", "backoff"}
    /\ attempt \in 0..RetryCount
    /\ waited \in Nat
    /\ errs \in BOOLEAN
    /\ handled \subseteq Records /\ posted \subseteq Records
    /\ accepted \in [Records -> Nat]
    /\ reported \subseteq Records
    /\ unknown \in 0..MaxUnknown
    /\ notBefore \in Nat

Init ==
    /\ buf = {} /\ snapshot = {} /\ todo = {} /\ msg = {}
    /\ pc = "idle"
    /\ attempt = 0 /\ waited = 0 /\ notBefore = 0
    /\ errs = FALSE
    /\ handled = {} /\ posted = {} /\ reported = {}
    /\ accepted = [r \in Records |-> 0]
    /\ unknown = 0

-----------------------------------------------------------------------------
Least(a, b) == IF a < b THEN a ELSE b

\* formatRecords
FormatRecords(records) ==
    {m \in {records \cap Alerts} : m # {}} \cup {{r} : r \in records \cap Others}

Handle(r) ==
    /\ r \notin handled
    /\ handled' = handled \cup {r}
    /\ buf' = buf \cup {r}
    /\ UNCHANGED <<snapshot, todo, msg, pc, attempt, waited, errs, posted,
                   accepted, reported, unknown, notBefore>>

\* Variant: the buffer is not cleared.
TakeSnapshotKeepingBuffer ==
    /\ pc = "idle" /\ buf # {}
    /\ snapshot' = buf
    /\ todo' = FormatRecords(buf)
    /\ errs' = FALSE
    /\ pc' = "send"
    /\ UNCHANGED <<buf, msg, attempt, waited, history>>

\* Flush takes the buffer; it does nothing if the buffer is empty.
TakeSnapshot ==
    /\ pc = "idle" /\ buf # {}
    /\ snapshot' = buf
    /\ buf' = {}
    /\ todo' = FormatRecords(buf)
    /\ errs' = FALSE
    /\ pc' = "send"
    /\ UNCHANGED <<msg, attempt, waited, history>>

Begin ==
    /\ pc = "send"
    /\ \E m \in todo :
           /\ msg' = m
           /\ todo' = todo \ {m}
    /\ attempt' = 0 /\ waited' = 0 /\ notBefore' = 0
    /\ pc' = "attempt"
    /\ UNCHANGED <<buf, snapshot, errs, handled, posted, accepted, reported, unknown>>

\* Variant: the first error ends the Flush.
FlushReturnsEarly ==
    /\ pc = "send" /\ (todo = {} \/ errs)
    /\ pc' = "idle"
    /\ reported' = IF errs THEN reported \cup snapshot ELSE reported
    /\ snapshot' = {} /\ todo' = {}
    /\ UNCHANGED <<buf, msg, attempt, waited, errs, handled, posted,
                   accepted, unknown, notBefore>>

\* All messages have been posted; Flush returns an error if one has failed.
FlushReturns ==
    /\ pc = "send" /\ todo = {}
    /\ pc' = "idle"
    /\ reported' = IF errs THEN reported \cup snapshot ELSE reported
    /\ snapshot' = {}
    /\ UNCHANGED <<buf, todo, msg, attempt, waited, errs, handled, posted,
                   accepted, unknown, notBefore>>

-----------------------------------------------------------------------------
(* postWithRetry                                                           *)

\* Variant: the result of the last message is that of the Flush.
DoneLastError(failed) ==
    /\ errs' = failed
    /\ msg' = {}
    /\ pc' = "send"
    /\ UNCHANGED <<attempt, waited>>

\* postWithRetry returns; send goes on with the next message in any case.
Done(failed) ==
    /\ errs' = (errs \/ failed)
    /\ msg' = {}
    /\ pc' = "send"
    /\ UNCHANGED <<attempt, waited>>

\* Variant: the error of the last attempt is not returned.
GiveUpQuietly == Done(FALSE)

\* All retries are exhausted.
GiveUp == Done(TRUE)

\* Sleep and go on, if the budget for waiting allows it.
SleepThen(wait, step) ==
    IF waited + wait > MaxCumulativeWait
    THEN GiveUp
    ELSE /\ waited' = waited + wait
         /\ pc' = step
         /\ attempt' = attempt + 1
         /\ UNCHANGED <<msg, errs>>

MaxBackoffShift == 30

BackoffDuration(n) ==
    Least(Base * 2^Least(n, MaxBackoffShift), MaxCumulativeWait)

\* Variant: the time waited so far does not count.
BackoffWithoutBudget ==
    /\ pc = "backoff"
    /\ waited' = waited + BackoffDuration(attempt)
    /\ pc' = "attempt"
    /\ attempt' = attempt + 1
    /\ UNCHANGED <<msg, errs, buf, snapshot, todo, history>>

\* The sleep before the next attempt.
Backoff ==
    /\ pc = "backoff"
    /\ SleepThen(BackoffDuration(attempt), "attempt")
    /\ UNCHANGED <<buf, snapshot, todo, history>>

\* Variant: one attempt too many.
RetryOnceMore ==
    IF attempt > RetryCount
    THEN GiveUp
    ELSE pc' = "backoff" /\ UNCHANGED <<attempt, waited, msg, errs>>

\* To the next attempt by way of the backoff, or to the end of the loop.
Retry ==
    IF attempt = RetryCount
    THEN GiveUp
    ELSE pc' = "backoff" /\ UNCHANGED <<attempt, waited, msg, errs>>

Accept == accepted' = [r \in Records |-> accepted[r] + (IF r \in msg THEN 1 ELSE 0)]

\* 2xx
PostAccepted ==
    /\ Accept
    /\ Done(FALSE)
    /\ UNCHANGED <<unknown, notBefore>>

\* 4xx other than 429
PostRejected ==
    /\ Done(TRUE)
    /\ UNCHANGED <<accepted, unknown, notBefore>>

\* 5xx, 429 without a Retry-After that parses, or a request that failed
\* before it reached Slack
PostFailed ==
    /\ Retry
    /\ UNCHANGED <<accepted, unknown, notBefore>>

\* Slack accepts the message and the answer is lost or late.
AnswerLost ==
    /\ unknown < MaxUnknown
    /\ unknown' = unknown + 1
    /\ Accept
    /\ Retry
    /\ UNCHANGED notBefore

\* 429 with Retry-After, which replaces the backoff.
RateLimited(header) ==
    LET wait == Least(header, MaxCumulativeWait) IN
    /\ notBefore' = waited + wait
    /\ IF attempt = RetryCount THEN GiveUp ELSE SleepThen(wait, "attempt")
    /\ UNCHANGED <<accepted, unknown>>

\* doAttempt and what the loop makes of its result.
Attempt ==
    /\ pc = "attempt"
    /\ posted' = posted \cup msg
    /\ \/ PostAccepted \/ PostRejected \/ PostFailed \/ AnswerLost
       \/ \E header \in RetryAfters : RateLimited(header)
    /\ UNCHANGED <<buf, snapshot, todo, handled, reported>>

-----------------------------------------------------------------------------
FlushStep == Begin \/ FlushReturns \/ Attempt \/ Backoff

Next ==
    \/ \E r \in Records : Handle(r)
    \/ TakeSnapshot
    \/ FlushStep

Spec == Init /\ [][Next]_vars

\* A Flush that has begun takes its steps.  That one begins is up to the
\* command: some errors end fetch with records in the buffer.
FairSpec == Spec /\ WF_vars(FlushStep)

-----------------------------------------------------------------------------
(* Properties.                                                             *)

Delivered == {r \in Records : accepted[r] > 0}

Contract ==
    INSTANCE Notifier WITH buffer <- buf, batch <- snapshot,
                           delivered <- Delivered, failed <- reported

\* The handler keeps the contract of Handle and Flush: records logged while
\* a Flush posts wait for the next one, only records of the running Flush
\* reach Slack, and a Flush that returns no error has delivered all it took,
\* so that a caller that sees none may mark its messages as done.
ImplementsNotifier ==
    Contract!Spec

\* A record is sent twice only if an answer of Slack was lost: neither the
\* retries nor a Handle during a Flush nor a failure of another message of
\* the batch duplicates it.
DuplicatesNeedLostAnswer ==
    \A r \in Records : accepted[r] <= 1 + unknown

\* "Attempt all messages even if one fails": a Flush that ends has posted
\* every record it took at least once.
AllAttempted ==
    [][pc # "idle" /\ pc' = "idle" => snapshot \subseteq posted]_vars

\* Waiting is neither too long nor too short, in any mix of backoffs and
\* Retry-After: all sleeps for one message stay within maxCumulativeWait,
\* which with RetryCount + 1 requests of at most 5 s bounds Flush, and no
\* retry comes earlier than Retry-After asked for, within the limit.
WaitsInBounds ==
    /\ waited <= MaxCumulativeWait
    /\ pc = "attempt" => waited >= notBefore

\* A Flush comes to its end, whatever Slack answers: every record that it
\* took out of the buffer is delivered, or the Flush returns an error.
EveryRecordSettled ==
    \A r \in Records : r \in snapshot ~> r \in Delivered \cup reported

=============================================================================
