------------------------------- MODULE Fetch --------------------------------
(***************************************************************************)
(* The fetch command against the IMAP mailbox, the store and Slack: list   *)
(* the mailbox, validate UIDVALIDITY, download and save what has no .eml   *)
(* yet, index it, parse it, save the reports, deliver the notifications    *)
(* and only then set \Seen (cmd/tlsrpt-digest/fetch.go).  A run can die or *)
(* fail at every step; meanwhile mail arrives and disappears, other        *)
(* clients set and clear \Seen, and the mailbox may be recreated.          *)
(*                                                                         *)
(* A message is <<UIDVALIDITY, UID>>.  The commands of IMAP name a UID in  *)
(* whichever mailbox exists when they are executed, while the .eml file,   *)
(* the index and the listing are keyed by the UIDVALIDITY of FetchMeta;    *)
(* so a key and the message found under it are kept apart.                 *)
(*                                                                         *)
(* A message yields one report (or does not parse), and at most one        *)
(* notification: an alert if the report has failures, a warning if it does *)
(* not parse.  Dates and the wording of notifications are left out; of a   *)
(* size only whether it is over max_message_bytes matters.  A message that *)
(* leaves the fetch window and an expunged one are alike to later runs.    *)
(* The UIDVALIDITY recovery is the atomic one of module Recovery, which    *)
(* StoreReset implements.                                                  *)
(***************************************************************************)
EXTENDS Naturals

CONSTANTS
    Epochs,             \* UIDVALIDITY values, which grow
    Uids,               \* UIDs
    Failing,            \* messages whose report counts failed sessions
    Broken,             \* messages that do not parse
    Unlisted,           \* messages that FetchMeta skips: RFC822.SIZE is over
                        \* max_message_bytes, no internal date or no envelope
    Oversized,          \* messages whose body is over max_message_bytes, which
                        \* RFC822.SIZE need not say
    NoMsg,              \* no message
    RecreatedAnyTime,   \* may the mailbox be recreated during a fetch?
    Interference,       \* do other clients change \Seen, does the server ever
                        \* refuse a read-write SELECT?
    Mail,               \* bound: messages that may arrive
    MaxTroubles         \* bound: these, runs that die or fail and lost answers
                        \* of Slack, together

Messages == Epochs \X Uids

ASSUME FetchAssumption ==
    /\ Epochs \subseteq Nat \ {0} /\ 1 \in Epochs
    /\ Failing \subseteq Messages /\ Broken \subseteq Messages
    /\ Failing \cap Broken = {}
    /\ Mail \subseteq Messages
    /\ NoMsg \notin Messages
    /\ {RecreatedAnyTime, Interference} \subseteq BOOLEAN
    /\ MaxTroubles \in Nat

NoEpoch == 0
\* Deliveries are counted up to here.
MaxDeliveries == MaxTroubles + 2

VARIABLES
    epoch,      \* server: UIDVALIDITY of the mailbox
    arrived,    \* server: messages that ever were in a mailbox
    mailbox,    \* server: messages in the mailbox
    seen,       \* server: messages with \Seen
    delivered,  \* Slack: how often each message was notified of
    stored,     \* store: uid_validity of the sentinel, or NoEpoch
    required,   \* store: recovery_required, or NoEpoch
    eml,        \* store: the message in the .eml file of each key, or NoMsg
    index,      \* store: keys with an entry in the email index
    reports,    \* store: messages whose report is saved
    pc,         \* fetch: next step
    curr,       \* fetch: UIDVALIDITY as FetchMeta returned it
    listed,     \* fetch: keys that FetchMeta returned
    listedSeen, \* fetch: those that had \Seen then
    existed,    \* fetch: those that had an .eml file then
    raw,        \* fetch: the message downloaded for each key, or NoMsg
    parsed,     \* fetch: messages whose report is to be saved
    buffer,     \* fetch: messages with a buffered notification
    failures,   \* runs that died or failed, and lost answers of Slack
    touched,    \* history: those in the mailbox whose \Seen is as another
                \* client left it
    interfered  \* history: how often \Seen was changed or could not be set

server == <<epoch, arrived, mailbox, seen>>
store == <<stored, required, eml, index, reports>>
local == <<curr, listed, listedSeen, existed, raw, parsed, buffer>>
others == <<touched, interfered>>
vars == <<server, delivered, store, pc, local, failures, others>>

Nothing == [k \in Messages |-> NoMsg]

Steps == {"idle", "fetchMeta", "validate", "states", "download", "saveEmail",
          "saveMetas", "collect", "saveReports", "flush", "markSeen",
          "saveUid"}

TypeOK ==
    /\ epoch \in Epochs
    /\ arrived \subseteq Messages
    /\ mailbox \subseteq arrived
    /\ seen \subseteq mailbox
    /\ delivered \in [Messages -> 0..MaxDeliveries]
    /\ stored \in Epochs \cup {NoEpoch}
    /\ required \in Epochs \cup {NoEpoch}
    /\ eml \in [Messages -> Messages \cup {NoMsg}]
    /\ index \subseteq Messages
    /\ reports \subseteq Messages
    /\ pc \in Steps
    /\ curr \in Epochs \cup {NoEpoch}
    /\ listed \subseteq Messages
    /\ listedSeen \subseteq listed
    /\ existed \subseteq listed
    /\ raw \in [Messages -> Messages \cup {NoMsg}]
    /\ parsed \subseteq Messages
    /\ buffer \subseteq Messages
    /\ {failures, interfered} \subseteq 0..MaxTroubles
    /\ touched \subseteq mailbox

Forget ==
    /\ curr' = NoEpoch
    /\ listed' = {} /\ listedSeen' = {} /\ existed' = {}
    /\ raw' = Nothing
    /\ parsed' = {} /\ buffer' = {}

Init ==
    /\ epoch = 1
    /\ arrived = {} /\ mailbox = {} /\ seen = {}
    /\ delivered = [m \in Messages |-> 0]
    /\ stored = NoEpoch /\ required = NoEpoch
    /\ eml = Nothing
    /\ index = {} /\ reports = {}
    /\ pc = "idle"
    /\ curr = NoEpoch
    /\ listed = {} /\ listedSeen = {} /\ existed = {}
    /\ raw = Nothing
    /\ parsed = {} /\ buffer = {}
    /\ failures = 0
    /\ touched = {} /\ interfered = 0

-----------------------------------------------------------------------------
(* The mailbox and its other users.                                        *)

MoreTrouble == failures + interfered < MaxTroubles

Arrive(m) ==
    /\ m \in Mail \ arrived
    /\ m[1] = epoch
    /\ arrived' = arrived \cup {m}
    /\ mailbox' = mailbox \cup {m}
    /\ UNCHANGED <<epoch, seen, delivered, store, pc, local, failures, others>>

Expunge(m) ==
    /\ m \in mailbox
    /\ mailbox' = mailbox \ {m}
    /\ seen' = seen \ {m}
    /\ touched' = touched \ {m}
    /\ UNCHANGED <<epoch, arrived, delivered, store, pc, local, failures,
                   interfered>>

\* Another client reads the message, or marks it unread.
Toggle(m) ==
    /\ Interference /\ MoreTrouble
    /\ m \in mailbox
    /\ interfered' = interfered + 1
    /\ touched' = touched \cup {m}
    /\ seen' = IF m \in seen THEN seen \ {m} ELSE seen \cup {m}
    /\ UNCHANGED <<epoch, arrived, mailbox, delivered, store, pc, local,
                   failures>>

Recreate ==
    /\ RecreatedAnyTime \/ pc = "idle"
    /\ \E e \in Epochs : e > epoch /\ epoch' = e
    /\ mailbox' = {}
    /\ seen' = {} /\ touched' = {}
    /\ UNCHANGED <<arrived, delivered, store, pc, local, failures, interfered>>

\* The messages that an IMAP command naming the UIDs of keys refers to now.
Current(keys) == {<<epoch, k[2]>> : k \in keys}

\* A call of Slack's webhook for each of the messages.
Deliver(messages) ==
    delivered' = [m \in Messages |->
                    IF m \in messages /\ delivered[m] < MaxDeliveries
                    THEN delivered[m] + 1 ELSE delivered[m]]

-----------------------------------------------------------------------------
(* recover, as in module Recovery.                                         *)

RecoverKeepOld ==
    /\ pc = "idle"
    /\ required # NoEpoch
    /\ stored' = required
    /\ required' = NoEpoch
    /\ UNCHANGED <<server, delivered, eml, index, reports, pc, local, failures,
                   others>>

RecoverDiscardOld ==
    /\ pc = "idle"
    /\ required # NoEpoch
    /\ stored' = required
    /\ required' = NoEpoch
    /\ eml' = Nothing
    /\ index' = {}
    /\ reports' = {}
    /\ UNCHANGED <<server, delivered, pc, local, failures, others>>

-----------------------------------------------------------------------------
(* fetch.                                                                  *)

Goto(step) == pc' = step /\ UNCHANGED <<failures, others>>
Return == pc' = "idle" /\ Forget /\ UNCHANGED <<failures, others>>

\* Fail closed if recovery is pending.
Start ==
    /\ pc = "idle"
    /\ required = NoEpoch
    /\ Goto("fetchMeta")
    /\ UNCHANGED <<server, delivered, store, local>>

\* What is skipped is only logged.
FetchMeta ==
    /\ pc = "fetchMeta"
    /\ curr' = epoch
    /\ listed' = mailbox \ Unlisted
    /\ listedSeen' = seen \ Unlisted
    /\ Goto("validate")
    /\ UNCHANGED <<server, delivered, store, existed, raw, parsed, buffer>>

FetchValidateUID ==
    /\ pc = "validate"
    /\ \/ /\ stored = NoEpoch
          /\ stored' = curr
          /\ Goto("states")
          /\ UNCHANGED <<required, local>>
       \/ /\ stored = curr
          /\ Goto("states")
          /\ UNCHANGED <<stored, required, local>>
       \/ /\ stored \notin {NoEpoch, curr}
          /\ required' = curr
          /\ Return
          /\ UNCHANGED stored
    /\ UNCHANGED <<server, delivered, eml, index, reports>>

\* Variant: every .eml file of the store counts.
StatesOfAllFiles ==
    /\ pc = "states"
    /\ existed' = {k \in Messages : eml[k] # NoMsg}
    /\ Goto("download")
    /\ UNCHANGED <<server, delivered, store, curr, listed, listedSeen, raw,
                   parsed, buffer>>

BuildFetchStates ==
    /\ pc = "states"
    /\ existed' = {k \in listed : eml[k] # NoMsg}
    /\ Goto("download")
    /\ UNCHANGED <<server, delivered, store, curr, listed, listedSeen, raw,
                   parsed, buffer>>

Wanted == listed \ existed

\* Download selects the mailbox again.  A UID that is not there is an error,
\* and so is one body that is too large, for all of them.
Download ==
    /\ pc = "download"
    /\ \/ /\ Wanted = {}
          /\ Goto("saveMetas")
          /\ UNCHANGED local
       \/ /\ Wanted # {}
          /\ Current(Wanted) \subseteq mailbox \ Oversized
          /\ raw' = [k \in Messages |->
                        IF k \in Wanted THEN <<epoch, k[2]>> ELSE NoMsg]
          /\ Goto("saveEmail")
          /\ UNCHANGED <<curr, listed, listedSeen, existed, parsed, buffer>>
       \/ /\ ~(Current(Wanted) \subseteq mailbox \ Oversized)
          /\ Return
    /\ UNCHANGED <<server, delivered, store>>

Unsaved == {k \in Wanted : eml[k] = NoMsg}

\* Each file is written atomically, one after the other.
SaveEmail(k) ==
    /\ pc = "saveEmail"
    /\ k \in Unsaved
    /\ eml' = [eml EXCEPT ![k] = raw[k]]
    /\ Goto(IF Unsaved = {k} THEN "saveMetas" ELSE "saveEmail")
    /\ UNCHANGED <<server, delivered, stored, required, index, reports, local>>

\* Variant: only what this run downloaded is indexed.
SaveNewMetas ==
    /\ pc = "saveMetas"
    /\ index' = index \cup {k \in listed : raw[k] # NoMsg}
    /\ Goto("collect")
    /\ UNCHANGED <<server, delivered, stored, required, eml, reports, local>>

SaveEmailMetas ==
    /\ pc = "saveMetas"
    /\ index' = index \cup {k \in listed : k \in existed \/ raw[k] # NoMsg}
    /\ Goto("collect")
    /\ UNCHANGED <<server, delivered, stored, required, eml, reports, local>>

\* A message with \Seen and a file from an earlier run is skipped; one
\* without \Seen is read again from its file.
Processed == listed \ (listedSeen \cap existed)

MessageOf(k) == IF raw[k] # NoMsg THEN raw[k] ELSE eml[k]

\* Variant: what has a file is skipped, whether or not it has \Seen.
CollectNewOnly ==
    /\ pc = "collect"
    /\ LET found == {MessageOf(k) : k \in Wanted}
           unseen == {MessageOf(k) : k \in Wanted \ listedSeen}
       IN  /\ parsed' = found \ Broken
           /\ buffer' = (found \cap Broken) \cup (unseen \cap Failing)
    /\ Goto("saveReports")
    /\ UNCHANGED <<server, delivered, store, curr, listed, listedSeen,
                   existed, raw>>

FetchCollectReports ==
    /\ pc = "collect"
    /\ LET found == {MessageOf(k) : k \in Processed}
           unseen == {MessageOf(k) : k \in Processed \ listedSeen}
       IN  /\ parsed' = found \ Broken
           /\ buffer' = (found \cap Broken) \cup (unseen \cap Failing)
    /\ Goto("saveReports")
    /\ UNCHANGED <<server, delivered, store, curr, listed, listedSeen,
                   existed, raw>>

SaveReports ==
    /\ pc = "saveReports"
    /\ reports' = reports \cup parsed
    /\ Goto("flush")
    /\ UNCHANGED <<server, delivered, stored, required, eml, index, local>>

\* Variant: an error of Flush is only logged.
FlushBestEffort ==
    /\ pc = "flush"
    /\ \E sent \in SUBSET buffer : Deliver(sent)
    /\ buffer' = {}
    /\ Goto("markSeen")
    /\ UNCHANGED <<server, store, curr, listed, listedSeen, existed, raw,
                   parsed>>

Flush ==
    /\ pc = "flush"
    /\ Deliver(buffer)
    /\ buffer' = {}
    /\ Goto("markSeen")
    /\ UNCHANGED <<server, store, curr, listed, listedSeen, existed, raw,
                   parsed>>

\* Slack has accepted notifications and its answer is lost: postWithRetry
\* posts them again, in the same Flush.
LostAnswer ==
    /\ pc = "flush"
    /\ MoreTrouble
    /\ failures' = failures + 1
    /\ \E again \in (SUBSET buffer) \ {{}} : Deliver(again)
    /\ UNCHANGED <<server, store, pc, local, others>>

\* The messages that MarkSeen's UID STORE refers to, those that still exist.
ToMark == Current(listed \ listedSeen) \cap mailbox

\* Variant: only what this run downloaded is marked.
MarkSeenNewOnly ==
    /\ pc = "markSeen"
    /\ seen' = seen \cup (Current(Wanted \ listedSeen) \cap mailbox)
    /\ Goto("saveUid")
    /\ UNCHANGED <<epoch, arrived, mailbox, delivered, store, local>>

\* MarkSeen selects the mailbox again, now read-write; a read-only mailbox is
\* only warned of.
MarkSeen ==
    /\ pc = "markSeen"
    /\ \/ /\ seen' = seen \cup ToMark
          /\ touched' = touched \ ToMark
          /\ UNCHANGED interfered
       \/ /\ Interference /\ MoreTrouble
          /\ interfered' = interfered + 1
          /\ UNCHANGED <<seen, touched>>
    /\ pc' = "saveUid"
    /\ UNCHANGED <<epoch, arrived, mailbox, delivered, store, local, failures>>

SaveUIDValidity ==
    /\ pc = "saveUid"
    /\ stored' = curr
    /\ Return
    /\ UNCHANGED <<server, delivered, required, eml, index, reports>>

\* The run dies, or a step fails and the command returns its error.  Flush
\* may have delivered some or all notifications, MarkSeen's UID STORE may
\* have been executed in part.
Fail ==
    /\ pc # "idle"
    /\ MoreTrouble
    /\ failures' = failures + 1
    /\ IF pc = "flush" THEN \E sent \in SUBSET buffer : Deliver(sent)
                       ELSE UNCHANGED delivered
    /\ \E part \in SUBSET (IF pc = "markSeen" THEN ToMark ELSE {}) :
           /\ seen' = seen \cup part
           /\ touched' = touched \ part
    /\ pc' = "idle"
    /\ Forget
    /\ UNCHANGED <<epoch, arrived, mailbox, store, interfered>>

-----------------------------------------------------------------------------
FetchStep ==
    \/ FetchMeta \/ FetchValidateUID \/ BuildFetchStates \/ Download
    \/ \E k \in Messages : SaveEmail(k)
    \/ SaveEmailMetas \/ FetchCollectReports \/ SaveReports
    \/ Flush \/ MarkSeen \/ SaveUIDValidity

Environment ==
    \/ \E m \in Messages : Arrive(m) \/ Expunge(m) \/ Toggle(m)
    \/ Recreate

Recover == RecoverKeepOld \/ RecoverDiscardOld

Next == Environment \/ Recover \/ Start \/ FetchStep \/ LostAnswer \/ Fail

Spec == Init /\ [][Next]_vars

\* cron starts fetch again and again, a run that is not killed goes on, and
\* the operator resolves a required recovery.
FairSpec ==
    /\ Spec
    /\ SF_vars(Start)
    /\ WF_vars(FetchStep)
    /\ WF_vars(Recover)

-----------------------------------------------------------------------------
(* Properties.                                                             *)

Notifiable == Failing \cup Broken
Notified == {m \in Messages : delivered[m] > 0}

\* At least once: a message on which fetch set \Seen has had its
\* notification delivered and its report saved, wherever earlier runs broke
\* off and whatever other clients did with \Seen before (Flush before
\* MarkSeen, fetch.go steps 11 to 13).
SeenIsDone ==
    LET done == seen \ touched
    IN  /\ done \cap Notifiable \subseteq Notified
        /\ done \subseteq reports \cup Broken

\* Every notification beyond the first is paid for by a run that failed, by a
\* lost answer of Slack or by somebody else's hand on \Seen: a run that
\* completes leaves nothing for the next one to repeat.
DuplicatesOnlyAfterFailure ==
    \A m \in Messages : delivered[m] <= 1 + failures + interfered

\* When a run completes, every message it listed has a file and an index
\* entry, also the ones that an earlier run saved and did not index; gc
\* deletes by the index.
CompleteRunIndexes ==
    pc = "saveUid" =>
        listed \subseteq {k \in index : eml[k] # NoMsg}

\* fetch.go, fetchCollectReports: "SEEN + pre-existing: already fully
\* processed in a prior run."
SkippedIsProcessed ==
    pc = "collect" =>
        {eml[k] : k \in listedSeen \cap existed} \subseteq reports \cup Broken

\* A message that FetchMeta lists, that stays in the mailbox and that no other
\* client reads, is eventually reported and notified of, unless a message whose
\* body is larger than its RFC822.SIZE and than the limit stays there too: that
\* one makes the Download of every run fail.
EveryMessageDone ==
    \A m \in Mail \ Unlisted :
        m \in mailbox ~> \/ m \notin mailbox
                         \/ m \in touched
                         \/ mailbox \cap (Oversized \ Unlisted) # {}
                         \/ /\ m \in reports \cup Broken
                            /\ m \in Notifiable => m \in Notified

=============================================================================
