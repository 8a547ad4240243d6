------------------------------ MODULE Recovery ------------------------------
(***************************************************************************)
(* What the report store promises about UIDVALIDITY, free of files and     *)
(* crashes.  The store remembers the UIDVALIDITY its contents belong to.   *)
(* When fetch sees another one, it records that recovery is required and   *)
(* nothing is added until the operator decides: keep the old contents, or  *)
(* discard them.  Either decision takes effect at once: the new            *)
(* UIDVALIDITY, the cleared flag and the contents change in one step.      *)
(*                                                                         *)
(* The contents are abstracted to the UIDVALIDITY epochs that reports and  *)
(* stored messages come from.  StoreReset implements this specification    *)
(* with files, renames and a manifest.                                     *)
(***************************************************************************)
EXTENDS Naturals

\* UIDVALIDITY values the IMAP server can announce, non-zero numbers; the code
\* uses 0 for "no value".
CONSTANT Uids

VARIABLES
    uid,            \* UIDVALIDITY the contents belong to, or NoUid
    rr,             \* UIDVALIDITY awaiting the operator's decision, or NoUid
    reports,        \* epochs that stored reports come from
    emails          \* epochs that stored messages come from

vars == <<uid, rr, reports, emails>>

NoUid == 0

\* A new store knows no UIDVALIDITY and is empty.
Init ==
    /\ uid = NoUid
    /\ rr = NoUid
    /\ reports = {}
    /\ emails = {}

\* The first fetch adopts the UIDVALIDITY the server announces.
Adopt(u) ==
    /\ rr = NoUid
    /\ uid = NoUid
    /\ uid' = u
    /\ UNCHANGED <<rr, reports, emails>>

\* Messages are stored under the UIDVALIDITY of the store.
StoreEmails ==
    /\ rr = NoUid
    /\ uid # NoUid
    /\ emails' = emails \cup {uid}
    /\ UNCHANGED <<uid, rr, reports>>

\* Reports are only ever extracted from stored messages.
StoreReports(epochs) ==
    /\ rr = NoUid
    /\ epochs \subseteq emails
    /\ reports' = reports \cup epochs
    /\ UNCHANGED <<uid, rr, emails>>

\* fetch meets a UIDVALIDITY other than the store's.
Detect(u) ==
    /\ rr = NoUid
    /\ uid \notin {NoUid, u}
    /\ rr' = u
    /\ UNCHANGED <<uid, reports, emails>>

KeepOld ==
    /\ rr # NoUid
    /\ uid' = rr
    /\ rr' = NoUid
    /\ UNCHANGED <<reports, emails>>

DiscardOld ==
    /\ rr # NoUid
    /\ uid' = rr
    /\ rr' = NoUid
    /\ reports' = {}
    /\ emails' = {}

Next ==
    \/ \E u \in Uids : Adopt(u) \/ Detect(u)
    \/ StoreEmails
    \/ \E epochs \in SUBSET Uids : StoreReports(epochs)
    \/ KeepOld
    \/ DiscardOld

Spec == Init /\ [][Next]_vars

=============================================================================
