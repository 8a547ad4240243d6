---------------------------- MODULE FetchProofs -----------------------------
(***************************************************************************)
(* Proofs about Fetch for any number of mailboxes, messages, failures and  *)
(* interventions of other clients.                                         *)
(***************************************************************************)
EXTENDS Fetch, TLAPS

-----------------------------------------------------------------------------
(* The inductive invariants.                                               *)

Troubles == failures + interfered

Filed == {k \in Messages : eml[k] # NoMsg}

\* The steps after FetchMeta, after the states are built, after all files
\* are written and after they are indexed.
Late == {"collect", "saveReports", "flush", "markSeen", "saveUid"}
AfterFiles == {"saveMetas"} \cup Late
AfterStates == {"download", "saveEmail"} \cup AfterFiles
AfterMeta == {"validate", "states"} \cup AfterStates

\* What one run knows of its files, whatever happens to the mailbox.
RunInv ==
    /\ Troubles <= MaxTroubles
    /\ pc \in {"idle", "fetchMeta"} => existed = {}
    /\ existed \subseteq Filed
    /\ pc \in {"saveEmail", "saveMetas"} => \A k \in Wanted : raw[k] # NoMsg
    /\ pc \in AfterFiles => listed \subseteq Filed
    /\ pc \in Late => listed \subseteq index

\* While no mailbox is recreated during a fetch, keys name the messages of
\* the one mailbox that the run has listed and validated.
EpochInv ==
    /\ \A m \in mailbox : m[1] = epoch
    /\ \A m \in arrived : m[1] <= epoch
    /\ \A k \in Messages : eml[k] \in {k, NoMsg} /\ raw[k] \in {k, NoMsg}
    /\ pc # "idle" => required = NoEpoch
    /\ pc \in AfterMeta => /\ curr = epoch
                           /\ listed \subseteq arrived
                           /\ \A k \in listed : k[1] = epoch
    /\ pc \in AfterMeta \ {"validate"} => stored = epoch

\* The messages that MarkSeen is going to mark.
Fresh == listed \ listedSeen

\* They are done when it marks them, and stay so: the only thing that
\* removes reports is a recovery, which no message with \Seen outlives.
DoneInv ==
    /\ pc = "saveReports" => Fresh \subseteq parsed \cup Broken
    /\ pc \in {"flush", "markSeen"} => Fresh \subseteq reports \cup Broken
    /\ pc \in {"saveReports", "flush"} => Fresh \cap Notifiable \subseteq buffer
    /\ pc = "markSeen" => Fresh \cap Notifiable \subseteq Notified
    /\ SeenIsDone
    /\ seen \ touched # {} => stored = epoch /\ required = NoEpoch

\* The messages that the run has read or is going to read.
Pending == IF pc \in {"validate", "states"} THEN listed \ (listedSeen \cap Filed)
                                            ELSE Processed

\* Every notification that a later run could repeat is paid for: of a message
\* that has not both \Seen and a file, and of one that this run is going to
\* read.  One that had \Seen when it was listed, and lost it since, is paid
\* for twice.
PaidInv ==
    /\ \A m \in Messages : delivered[m] <= 1 + Troubles
    /\ \A m \in Messages \ arrived : delivered[m] = 0
    /\ \A m \in Messages :
           delivered[m] > 0 /\ m[1] = epoch => stored = epoch /\ required = NoEpoch
    /\ \A m \in mailbox \ (seen \cap Filed) :
           (pc = "markSeen" /\ m \in Fresh) \/ delivered[m] <= Troubles
    /\ pc \in AfterMeta \ {"markSeen", "saveUid"} =>
           \A m \in Pending :
              /\ delivered[m] <= Troubles
              /\ m \in (listedSeen \cap mailbox) \ seen => delivered[m] + 1 <= Troubles
    /\ pc \in {"saveReports", "flush"} => buffer \subseteq Processed

-----------------------------------------------------------------------------
(* Types, and what one run knows of its files.                             *)

\* The first state has its types, and no run is under way.
LEMMA InitType == Init => TypeOK /\ RunInv
  BY FetchAssumption DEF Init, TypeOK, RunInv, Nothing, Messages, Steps, NoEpoch,
     MaxDeliveries, Troubles, Filed, AfterFiles, Late

\* Every step keeps the types.
LEMMA NextKeepsType ==
  ASSUME TypeOK, RunInv, [Next]_vars
  PROVE  TypeOK'
<1> USE FetchAssumption DEF TypeOK, Steps, NoEpoch, MaxDeliveries, RunInv
<1>1. ASSUME NEW m \in Messages, Arrive(m) \/ Expunge(m) \/ Toggle(m)
      PROVE  TypeOK'
  BY <1>1 DEF Arrive, Expunge, Toggle, MoreTrouble, Troubles, store, local, others
<1>2. CASE Recreate
  BY <1>2 DEF Recreate, store, local
<1>3. CASE RecoverKeepOld
  BY <1>3 DEF RecoverKeepOld, server, store, local, others
<1>4. CASE RecoverDiscardOld
  BY <1>4 DEF RecoverDiscardOld, Nothing, server, store, local, others
<1>5. CASE Start
  BY <1>5 DEF Start, Goto, server, store, local, others
<1>6. CASE FetchMeta
  BY <1>6 DEF FetchMeta, Goto, server, store, local, others
<1>7. CASE FetchValidateUID
  BY <1>7 DEF FetchValidateUID, Goto, Return, Forget, Nothing, server, store,
     local, others
<1>8. CASE BuildFetchStates
  BY <1>8 DEF BuildFetchStates, Goto, server, store, local, others
<1>9. CASE Download
  BY <1>9 DEF Download, Goto, Return, Forget, Nothing, Wanted, Current, server,
     store, local, others
<1>10. ASSUME NEW k \in Messages, SaveEmail(k)
      PROVE  TypeOK'
  BY <1>10 DEF SaveEmail, Goto, Unsaved, Wanted, server, local, others
<1>11. CASE SaveEmailMetas
  BY <1>11 DEF SaveEmailMetas, Goto, Wanted, server, store, local, others
<1>12. CASE FetchCollectReports
  <2>1. \A k \in listed : MessageOf(k) \in Messages
    BY <1>12 DEF FetchCollectReports, MessageOf, Filed, AfterFiles, Late
  <2>2. parsed' \subseteq Messages /\ buffer' \subseteq Messages
    BY <1>12, <2>1 DEF FetchCollectReports, Processed
  <2> QED
    BY <1>12, <2>2 DEF FetchCollectReports, Goto, server, store, others
<1>13. CASE SaveReports
  BY <1>13 DEF SaveReports, Goto, server, store, local, others
<1>14. CASE Flush
  BY <1>14 DEF Flush, Goto, Deliver, server, store, local, others
<1>15. CASE LostAnswer
  BY <1>15 DEF LostAnswer, Deliver, MoreTrouble, Troubles, server, store, local,
     others
<1>16. CASE MarkSeen
  BY <1>16 DEF MarkSeen, ToMark, MoreTrouble, Troubles, server, store, local,
     others
<1>17. CASE SaveUIDValidity
  BY <1>17 DEF SaveUIDValidity, Return, Forget, Nothing, server, store, local,
     others
<1>18. CASE Fail
  BY <1>18 DEF Fail, Forget, Nothing, Deliver, ToMark, MoreTrouble, Troubles,
     server, store, local, others
<1>19. CASE UNCHANGED vars
  BY <1>19 DEF vars, server, store, local, others
<1> QED
  BY <1>1, <1>2, <1>3, <1>4, <1>5, <1>6, <1>7, <1>8, <1>9, <1>10, <1>11, <1>12,
     <1>13, <1>14, <1>15, <1>16, <1>17, <1>18, <1>19
     DEF Next, Environment, Recover, FetchStep

\* Every step keeps what a run knows of its own files.
LEMMA NextKeepsRunInv ==
  ASSUME TypeOK, RunInv, [Next]_vars
  PROVE  RunInv'
<1> USE FetchAssumption DEF RunInv, Filed, Wanted, Late, AfterFiles, Troubles
<1>0. TypeOK'
  BY NextKeepsType
<1>1. ASSUME NEW m \in Messages, Arrive(m) \/ Expunge(m) \/ Toggle(m)
      PROVE  RunInv'
  BY <1>1 DEF Arrive, Expunge, Toggle, MoreTrouble, TypeOK, store, local, others
<1>2. CASE Recreate
  BY <1>2 DEF Recreate, store, local
<1>3. CASE RecoverKeepOld
  BY <1>3 DEF RecoverKeepOld, server, store, local, others, TypeOK
<1>4. CASE RecoverDiscardOld
  BY <1>4 DEF RecoverDiscardOld, Nothing, server, store, local, others, TypeOK
<1>5. CASE Start
  BY <1>5 DEF Start, Goto, server, store, local, others, TypeOK
<1>6. CASE FetchMeta
  BY <1>6 DEF FetchMeta, Goto, server, store, local, others, TypeOK
<1>7. CASE FetchValidateUID
  BY <1>7 DEF FetchValidateUID, Goto, Return, Forget, Nothing, server, store,
     local, others, TypeOK
<1>8. CASE BuildFetchStates
  BY <1>8 DEF BuildFetchStates, Goto, server, store, local, others, TypeOK
<1>9. CASE Download
  BY <1>9 DEF Download, Goto, Return, Forget, Nothing, Current, server, store,
     local, others, TypeOK
<1>10. ASSUME NEW k \in Messages, SaveEmail(k)
      PROVE  RunInv'
  BY <1>10 DEF SaveEmail, Goto, Unsaved, server, local, others, TypeOK
<1>11. CASE SaveEmailMetas
  BY <1>11 DEF SaveEmailMetas, Goto, server, store, local, others, TypeOK
<1>12. CASE FetchCollectReports
  BY <1>12 DEF FetchCollectReports, Goto, server, store, local, others, TypeOK
<1>13. CASE SaveReports
  BY <1>13 DEF SaveReports, Goto, server, store, local, others, TypeOK
<1>14. CASE Flush
  BY <1>14 DEF Flush, Goto, server, store, local, others, TypeOK
<1>15. CASE LostAnswer
  BY <1>15 DEF LostAnswer, MoreTrouble, server, store, local, others, TypeOK
<1>16. CASE MarkSeen
  BY <1>16 DEF MarkSeen, MoreTrouble, server, store, local, others, TypeOK
<1>17. CASE SaveUIDValidity
  BY <1>17 DEF SaveUIDValidity, Return, Forget, server, store, local, others,
     TypeOK
<1>18. CASE Fail
  BY <1>18 DEF Fail, Forget, MoreTrouble, server, store, local, others, TypeOK
<1>19. CASE UNCHANGED vars
  BY <1>19 DEF vars, server, store, local, others
<1> QED
  BY <1>1, <1>2, <1>3, <1>4, <1>5, <1>6, <1>7, <1>8, <1>9, <1>10, <1>11, <1>12,
     <1>13, <1>14, <1>15, <1>16, <1>17, <1>18, <1>19
     DEF Next, Environment, Recover, FetchStep

-----------------------------------------------------------------------------
(* Keys and messages, as long as no mailbox is recreated during a fetch.   *)

\* In the mailbox that was listed, the UIDs of keys name the keys.
LEMMA CurrentIsListed ==
  ASSUME TypeOK, EpochInv, pc \in AfterMeta, NEW keys \in SUBSET listed
  PROVE  Current(keys) = keys
<1>1. \A k \in keys : <<epoch, k[2]>> = k
  BY DEF EpochInv, TypeOK, Messages
<1> QED
  BY <1>1 DEF Current

\* Every step keeps what the run and the store know of UIDVALIDITY.
LEMMA NextKeepsEpochInv ==
  ASSUME RecreatedAnyTime = FALSE, TypeOK, EpochInv, [Next]_vars
  PROVE  EpochInv'
<1> USE FetchAssumption DEF EpochInv, Late, AfterFiles, AfterStates, AfterMeta
<1>1. ASSUME NEW m \in Messages, Arrive(m) \/ Expunge(m) \/ Toggle(m)
      PROVE  EpochInv'
  BY <1>1 DEF Arrive, Expunge, Toggle, TypeOK, store, local, others
<1>2. CASE Recreate
  <2>1. PICK e \in Epochs : e > epoch /\ epoch' = e
    BY <1>2 DEF Recreate
  <2>2. epoch \in Nat /\ e \in Nat /\ \A m \in arrived : m[1] \in Nat
    BY DEF TypeOK, Messages
  <2>3. \A m \in arrived : m[1] <= e
    BY <2>1, <2>2
  <2> QED
    BY <1>2, <2>1, <2>3 DEF Recreate, store, local
<1>3. CASE RecoverKeepOld
  BY <1>3 DEF RecoverKeepOld, server, store, local, others, TypeOK
<1>4. CASE RecoverDiscardOld
  BY <1>4 DEF RecoverDiscardOld, Nothing, server, store, local, others, TypeOK
<1>5. CASE Start
  BY <1>5 DEF Start, Goto, server, store, local, others, TypeOK
<1>6. CASE FetchMeta
  BY <1>6 DEF FetchMeta, Goto, server, store, local, others, TypeOK
<1>7. CASE FetchValidateUID
  BY <1>7 DEF FetchValidateUID, Goto, Return, Forget, Nothing, server, store,
     local, others, TypeOK
<1>8. CASE BuildFetchStates
  BY <1>8 DEF BuildFetchStates, Goto, server, store, local, others, TypeOK
<1>9. CASE Download
  <2>1. \A k \in Wanted : k \in Messages /\ <<epoch, k[2]>> = k
    BY <1>9 DEF Download, Wanted, TypeOK, Messages
  <2>2. \A k \in Messages : raw'[k] \in {k, NoMsg}
    BY <1>9, <2>1 DEF Download, local, Return, Forget, Nothing, TypeOK
  <2> QED
    BY <1>9, <2>2 DEF Download, Goto, Return, Forget, server, store, local, others
<1>10. ASSUME NEW k \in Messages, SaveEmail(k)
      PROVE  EpochInv'
  BY <1>10 DEF SaveEmail, Goto, Unsaved, Wanted, server, local, others, TypeOK
<1>11. CASE SaveEmailMetas
  BY <1>11 DEF SaveEmailMetas, Goto, server, store, local, others, TypeOK
<1>12. CASE FetchCollectReports
  BY <1>12 DEF FetchCollectReports, Goto, server, store, local, others, TypeOK
<1>13. CASE SaveReports
  BY <1>13 DEF SaveReports, Goto, server, store, local, others, TypeOK
<1>14. CASE Flush
  BY <1>14 DEF Flush, Goto, server, store, local, others, TypeOK
<1>15. CASE LostAnswer
  BY <1>15 DEF LostAnswer, server, store, local, others, TypeOK
<1>16. CASE MarkSeen
  BY <1>16 DEF MarkSeen, server, store, local, others, TypeOK
<1>17. CASE SaveUIDValidity
  BY <1>17 DEF SaveUIDValidity, Return, Forget, Nothing, server, store, local,
     others, TypeOK
<1>18. CASE Fail
  BY <1>18 DEF Fail, Forget, Nothing, server, store, local, others, TypeOK
<1>19. CASE UNCHANGED vars
  BY <1>19 DEF vars, server, store, local, others
<1> QED
  BY <1>1, <1>2, <1>3, <1>4, <1>5, <1>6, <1>7, <1>8, <1>9, <1>10, <1>11, <1>12,
     <1>13, <1>14, <1>15, <1>16, <1>17, <1>18, <1>19
     DEF Next, Environment, Recover, FetchStep

-----------------------------------------------------------------------------
(* What has \Seen is done.                                                 *)

\* Every step keeps that what has \Seen is done.
LEMMA NextKeepsDoneInv ==
  ASSUME RecreatedAnyTime = FALSE,
         TypeOK, RunInv, EpochInv, DoneInv, [Next]_vars
  PROVE  DoneInv'
<1> USE FetchAssumption DEF DoneInv, SeenIsDone, Fresh, Notified
<1>1. ASSUME NEW m \in Messages, Arrive(m) \/ Expunge(m) \/ Toggle(m)
      PROVE  DoneInv'
  BY <1>1 DEF Arrive, Expunge, Toggle, store, local, others
<1>2. CASE Recreate
  BY <1>2 DEF Recreate, store, local
<1>3. CASE RecoverKeepOld
  BY <1>3 DEF RecoverKeepOld, server, store, local, others
<1>4. CASE RecoverDiscardOld
  BY <1>4 DEF RecoverDiscardOld, server, store, local, others
<1>5. CASE Start
  BY <1>5 DEF Start, Goto, server, store, local, others
<1>6. CASE FetchMeta
  BY <1>6 DEF FetchMeta, Goto, server, store, local, others
<1>7. CASE FetchValidateUID
  BY <1>7 DEF FetchValidateUID, Goto, Return, Forget, EpochInv, AfterMeta,
     TypeOK, server, store, local, others
<1>8. CASE BuildFetchStates
  BY <1>8 DEF BuildFetchStates, Goto, server, store, local, others
<1>9. CASE Download
  BY <1>9 DEF Download, Goto, Return, Forget, server, store, local, others
<1>10. ASSUME NEW k \in Messages, SaveEmail(k)
      PROVE  DoneInv'
  BY <1>10 DEF SaveEmail, Goto, server, local, others
<1>11. CASE SaveEmailMetas
  BY <1>11 DEF SaveEmailMetas, Goto, server, store, local, others
<1>12. CASE FetchCollectReports
  <2>1. \A k \in listed : MessageOf(k) = k
    BY <1>12 DEF FetchCollectReports, MessageOf, RunInv, Filed, AfterFiles, Late,
                 EpochInv, TypeOK
  <2>2. Fresh \subseteq Processed \ listedSeen
    BY DEF Processed
  <2>3. Fresh \subseteq parsed' \cup Broken
    BY <1>12, <2>1, <2>2 DEF FetchCollectReports
  <2>4. Fresh \cap Notifiable \subseteq buffer'
    BY <1>12, <2>1, <2>2 DEF FetchCollectReports, Notifiable
  <2> QED
    BY <1>12, <2>3, <2>4 DEF FetchCollectReports, Goto, server, store, others
<1>13. CASE SaveReports
  BY <1>13 DEF SaveReports, Goto, server, store, local, others
<1>14. CASE Flush
  <2>1. \A m \in Messages : delivered'[m] >= delivered[m]
    BY <1>14 DEF Flush, Deliver, TypeOK, MaxDeliveries
  <2>2. \A m \in buffer : m \in Messages /\ delivered'[m] > 0
    BY <1>14 DEF Flush, Deliver, TypeOK, MaxDeliveries
  <2>3. Notified \cup buffer \subseteq Notified'
    BY <2>1, <2>2, NextKeepsType DEF TypeOK
  <2> QED
    BY <1>14, <2>3 DEF Flush, Goto, server, store, others
<1>15. CASE LostAnswer
  <2>1. Notified \subseteq Notified'
    BY <1>15 DEF LostAnswer, Deliver, TypeOK, MaxDeliveries
  <2> QED
    BY <1>15, <2>1 DEF LostAnswer, server, store, local, others
<1>16. CASE MarkSeen
  <2>1. ToMark \subseteq Fresh
    BY <1>16, CurrentIsListed DEF MarkSeen, ToMark, Late, AfterFiles,
       AfterStates, AfterMeta
  <2>2. stored = epoch /\ required = NoEpoch
    BY <1>16 DEF MarkSeen, EpochInv, Late, AfterFiles, AfterStates, AfterMeta
  <2> QED
    BY <1>16, <2>1, <2>2 DEF MarkSeen, store, local
<1>17. CASE SaveUIDValidity
  BY <1>17 DEF SaveUIDValidity, Return, Forget, EpochInv, Late, AfterFiles,
     AfterStates, AfterMeta, server, store, local, others
<1>18. CASE Fail
  <2>1. Notified \subseteq Notified'
    BY <1>18 DEF Fail, Deliver, TypeOK, MaxDeliveries
  <2>2. PICK part \in SUBSET (IF pc = "markSeen" THEN ToMark ELSE {}) :
             seen' = seen \cup part /\ touched' = touched \ part
    BY <1>18 DEF Fail
  <2>3. CASE pc = "markSeen"
    <3>1. ToMark \subseteq Fresh
      BY <2>3, CurrentIsListed DEF ToMark, Late, AfterFiles, AfterStates,
         AfterMeta
    <3>2. stored = epoch /\ required = NoEpoch
      BY <2>3 DEF EpochInv, Late, AfterFiles, AfterStates, AfterMeta
    <3> QED
      BY <1>18, <2>1, <2>2, <2>3, <3>1, <3>2 DEF Fail, store
  <2>4. CASE pc # "markSeen"
    BY <1>18, <2>1, <2>2, <2>4 DEF Fail, store
  <2> QED
    BY <2>3, <2>4
<1>19. CASE UNCHANGED vars
  BY <1>19 DEF vars, server, store, local, others
<1> QED
  BY <1>1, <1>2, <1>3, <1>4, <1>5, <1>6, <1>7, <1>8, <1>9, <1>10, <1>11, <1>12,
     <1>13, <1>14, <1>15, <1>16, <1>17, <1>18, <1>19
     DEF Next, Environment, Recover, FetchStep

-----------------------------------------------------------------------------
(* Every repeated notification is paid for.                                *)

\* A delivery counts at most once, and only for what is delivered.
LEMMA DeliverAdds ==
  ASSUME TypeOK, NEW messages, Deliver(messages), NEW m \in Messages
  PROVE  /\ delivered'[m] \in Nat /\ delivered'[m] <= delivered[m] + 1
         /\ m \notin messages => delivered'[m] = delivered[m]
  BY FetchAssumption DEF TypeOK, Deliver, MaxDeliveries

\* Every step keeps that each repeated notification is paid for by a failure.
LEMMA NextKeepsPaidInv ==
  ASSUME RecreatedAnyTime = FALSE,
         TypeOK, RunInv, EpochInv, PaidInv, [Next]_vars
  PROVE  PaidInv'
<1> USE FetchAssumption DEF Troubles, Fresh, Filed, Pending, Processed, Late,
        AfterFiles, AfterStates, AfterMeta
<1>0. /\ TypeOK' /\ Troubles \in Nat
      /\ \A m \in Messages : delivered[m] \in Nat
  BY NextKeepsType DEF TypeOK
<1>1. ASSUME NEW m \in Messages, Arrive(m)
      PROVE  PaidInv'
  BY <1>0, <1>1 DEF Arrive, PaidInv, EpochInv, TypeOK, store, local, others
<1>2. ASSUME NEW m \in Messages, Expunge(m)
      PROVE  PaidInv'
  BY <1>0, <1>2 DEF Expunge, PaidInv, TypeOK, store, local
<1>3. ASSUME NEW m \in Messages, Toggle(m)
      PROVE  PaidInv'
  <2>1. /\ Troubles' = Troubles + 1
        /\ \A n \in Messages : n # m => (n \in seen' <=> n \in seen)
        /\ UNCHANGED <<epoch, arrived, mailbox, delivered, stored, required, eml,
                       pc, listed, listedSeen, existed, buffer>>
    BY <1>3 DEF Toggle, TypeOK, store, local
  <2> QED
    BY <1>0, <2>1 DEF PaidInv, TypeOK
<1>4. CASE Recreate
  <2>1. PICK e \in Epochs : e > epoch /\ epoch' = e
    BY <1>4 DEF Recreate
  <2>2. epoch \in Nat /\ e \in Nat /\ \A m \in Messages : m[1] \in Nat
    BY DEF TypeOK, Messages
  <2>3. \A m \in Messages : m[1] = e => delivered[m] = 0
    BY <2>1, <2>2 DEF EpochInv, PaidInv
  <2> QED
    BY <1>0, <1>4, <2>1, <2>3 DEF Recreate, PaidInv, store, local
<1>5. CASE RecoverKeepOld
  BY <1>0, <1>5 DEF RecoverKeepOld, PaidInv, EpochInv, TypeOK, server, local,
     others
<1>6. CASE RecoverDiscardOld
  <2>1. \A m \in mailbox : delivered[m] = 0
    BY <1>0, <1>6 DEF RecoverDiscardOld, PaidInv, EpochInv, TypeOK
  <2> QED
    BY <1>0, <1>6, <2>1 DEF RecoverDiscardOld, PaidInv, TypeOK, server, local,
       others
<1>7. CASE Start
  BY <1>7 DEF Start, Goto, PaidInv, server, store, local, others
<1>8. CASE FetchMeta
  BY <1>8 DEF FetchMeta, Goto, PaidInv, TypeOK, server, store, others
<1>9. CASE FetchValidateUID
  BY <1>0, <1>9 DEF FetchValidateUID, Goto, Return, Forget, PaidInv, EpochInv,
     TypeOK,
                    server, local, others
<1>10. CASE BuildFetchStates
  BY <1>10 DEF BuildFetchStates, Goto, PaidInv, TypeOK, server, store, others
<1>11. CASE Download
  BY <1>11 DEF Download, Goto, Return, Forget, PaidInv, server, store, local,
     others
<1>12. ASSUME NEW k \in Messages, SaveEmail(k)
      PROVE  PaidInv'
  BY <1>12 DEF SaveEmail, Goto, Unsaved, PaidInv, TypeOK, server, local, others
<1>13. CASE SaveEmailMetas
  BY <1>13 DEF SaveEmailMetas, Goto, PaidInv, server, local, others
<1>14. CASE FetchCollectReports
  <2>1. \A k \in listed : MessageOf(k) = k
    BY <1>14 DEF FetchCollectReports, MessageOf, RunInv, EpochInv, TypeOK
  <2>2. buffer' \subseteq Processed
    BY <1>14, <2>1 DEF FetchCollectReports
  <2> QED
    BY <1>14, <2>2 DEF FetchCollectReports, Goto, PaidInv, server, store, others
<1>15. CASE SaveReports
  BY <1>15 DEF SaveReports, Goto, PaidInv, server, local, others
<1>16. CASE Flush
  <2>1. /\ pc = "flush" /\ pc' = "markSeen" /\ Deliver(buffer)
        /\ UNCHANGED <<epoch, arrived, mailbox, seen, stored, required, eml,
                       listed, listedSeen, existed, failures, interfered>>
    BY <1>16 DEF Flush, Goto, server, store, others
  <2>2. /\ stored = epoch /\ required = NoEpoch
        /\ listed \subseteq arrived /\ listed \subseteq Filed
        /\ buffer \subseteq Processed
    BY <2>1 DEF EpochInv, RunInv, PaidInv
  <2>3. ASSUME NEW m \in Messages
        PROVE  /\ delivered'[m] <= 1 + Troubles
               /\ m \notin arrived => delivered'[m] = 0
    BY <1>0, <2>1, <2>2, DeliverAdds DEF PaidInv
  <2>4. ASSUME NEW m \in mailbox \ (seen \cap Filed), m \notin Fresh
        PROVE  delivered'[m] <= Troubles
    <3>1. m \in Messages /\ delivered[m] <= Troubles
      BY <2>1, <2>4 DEF PaidInv, TypeOK
    <3>2. CASE m \notin buffer
      BY <2>1, <3>1, <3>2, DeliverAdds
    <3>3. CASE m \in buffer
      <4>1. m \in (listedSeen \cap mailbox) \ seen /\ m \in Processed
        BY <2>2, <2>4, <3>3
      <4>2. delivered[m] + 1 <= Troubles
        BY <2>1, <4>1 DEF PaidInv
      <4> QED
        BY <1>0, <2>1, <3>1, <4>2, DeliverAdds
    <3> QED
      BY <3>2, <3>3
  <2> QED
    BY <2>1, <2>2, <2>3, <2>4 DEF PaidInv
<1>17. CASE LostAnswer
  <2>1. /\ pc = "flush" /\ Troubles' = Troubles + 1
        /\ UNCHANGED <<epoch, arrived, mailbox, seen, stored, required, eml, pc,
                       listed, listedSeen, existed, buffer>>
    BY <1>17 DEF LostAnswer, server, store, local, others, TypeOK
  <2>2. PICK again \in SUBSET buffer : Deliver(again)
    BY <1>17 DEF LostAnswer
  <2>3. /\ stored = epoch /\ required = NoEpoch
        /\ again \subseteq arrived
    BY <2>1, <2>2 DEF EpochInv, PaidInv
  <2>4. ASSUME NEW m \in Messages
        PROVE  /\ delivered'[m] <= 1 + Troubles'
               /\ m \notin arrived => delivered'[m] = 0
               /\ delivered[m] <= Troubles => delivered'[m] <= Troubles'
               /\ delivered[m] + 1 <= Troubles => delivered'[m] + 1 <= Troubles'
    BY <1>0, <2>1, <2>2, <2>3, DeliverAdds DEF PaidInv
  <2> QED
    BY <2>1, <2>3, <2>4 DEF PaidInv, TypeOK
<1>18. CASE MarkSeen
  <2>1. ToMark = Fresh \cap mailbox
    BY <1>18, CurrentIsListed DEF MarkSeen, ToMark
  <2>2. listed \subseteq Filed
    BY <1>18 DEF MarkSeen, RunInv
  <2>3. CASE seen' = seen \cup ToMark /\ UNCHANGED interfered
    BY <1>18, <2>1, <2>2, <2>3 DEF MarkSeen, PaidInv, store, local
  <2>4. CASE interfered' = interfered + 1 /\ UNCHANGED seen
    BY <1>0, <1>18, <2>4 DEF MarkSeen, PaidInv, store, local, TypeOK
  <2> QED
    BY <1>18, <2>3, <2>4 DEF MarkSeen
<1>19. CASE SaveUIDValidity
  BY <1>19 DEF SaveUIDValidity, Return, Forget, PaidInv, EpochInv, server, others
<1>20. CASE Fail
  <2>1. /\ pc' = "idle" /\ Troubles' = Troubles + 1 /\ seen \subseteq seen'
        /\ UNCHANGED <<epoch, arrived, mailbox, stored, required, eml>>
    BY <1>20 DEF Fail, store, TypeOK
  <2>2. CASE UNCHANGED delivered
    BY <1>0, <2>1, <2>2 DEF PaidInv, TypeOK
  <2>3. ASSUME pc = "flush", NEW sent \in SUBSET buffer, Deliver(sent)
        PROVE  PaidInv'
    <3>1. /\ stored = epoch /\ required = NoEpoch
          /\ sent \subseteq arrived
      BY <2>3 DEF EpochInv, PaidInv
    <3>2. ASSUME NEW m \in Messages
          PROVE  /\ delivered'[m] <= 1 + Troubles'
                 /\ m \notin arrived => delivered'[m] = 0
                 /\ delivered[m] <= Troubles => delivered'[m] <= Troubles'
      BY <1>0, <2>1, <2>3, <3>1, DeliverAdds DEF PaidInv
    <3> QED
      BY <2>1, <2>3, <3>1, <3>2 DEF PaidInv, TypeOK
  <2> QED
    BY <1>20, <2>2, <2>3 DEF Fail
<1>21. CASE UNCHANGED vars
  BY <1>21 DEF vars, server, store, local, others, PaidInv
<1> QED
  BY <1>1, <1>2, <1>3, <1>4, <1>5, <1>6, <1>7, <1>8, <1>9, <1>10, <1>11, <1>12,
     <1>13, <1>14, <1>15, <1>16, <1>17, <1>18, <1>19, <1>20, <1>21
     DEF Next, Environment, Recover, FetchStep

-----------------------------------------------------------------------------
(* The theorems.                                                           *)

\* Types, and what one run knows of its files, hold always.
LEMMA RunInvHolds == Spec => [](TypeOK /\ RunInv)
<1>1. TypeOK /\ RunInv /\ [Next]_vars => (TypeOK /\ RunInv)'
  BY NextKeepsType, NextKeepsRunInv
<1> QED
  BY <1>1, InitType, PTL DEF Spec

\* Every variable keeps its type, even if mailboxes are recreated at any time.
THEOREM TypeCorrect == Spec => []TypeOK
  BY RunInvHolds, PTL

\* A run that completes has filed and indexed all that it listed, even if
\* mailboxes are recreated at any time.
THEOREM CompletedRunsAreIndexed == Spec => []CompleteRunIndexes
<1>1. TypeOK /\ RunInv => CompleteRunIndexes
  BY DEF TypeOK, RunInv, CompleteRunIndexes, Filed, Late, AfterFiles,
     AfterStates, AfterMeta
<1> QED
  BY <1>1, RunInvHolds, PTL

\* The whole invariant holds, where no mailbox is recreated during a run.
LEMMA FetchInvHolds ==
  ASSUME RecreatedAnyTime = FALSE
  PROVE  Spec => [](TypeOK /\ RunInv /\ EpochInv /\ DoneInv /\ PaidInv)
<1> DEFINE Inv == TypeOK /\ RunInv /\ EpochInv /\ DoneInv /\ PaidInv
<1>1. Init => Inv
  <2> SUFFICES ASSUME Init PROVE Inv
    OBVIOUS
  <2> USE FetchAssumption
  <2>1. TypeOK /\ RunInv
    BY InitType
  <2>2. EpochInv
    BY DEF Init, EpochInv, Nothing, Late, AfterFiles, AfterStates, AfterMeta
  <2>3. DoneInv
    BY DEF Init, DoneInv, SeenIsDone
  <2>4. PaidInv
    BY DEF Init, PaidInv, Troubles, Late, AfterFiles, AfterStates, AfterMeta
  <2> QED
    BY <2>1, <2>2, <2>3, <2>4
<1>2. Inv /\ [Next]_vars => Inv'
  BY NextKeepsType, NextKeepsRunInv, NextKeepsEpochInv, NextKeepsDoneInv,
     NextKeepsPaidInv
<1> QED
  BY <1>1, <1>2, PTL DEF Spec

\* At least once: what fetch marks \Seen is notified of and reported.
THEOREM MarkedMessagesAreDone ==
  ASSUME RecreatedAnyTime = FALSE
  PROVE  Spec => []SeenIsDone
<1>1. DoneInv => SeenIsDone
  BY DEF DoneInv
<1> QED
  BY <1>1, FetchInvHolds, PTL

\* At most once but for failures, lost answers and interference: a run that
\* completes leaves nothing for a later one to repeat.
THEOREM NotificationsArePaidFor ==
  ASSUME RecreatedAnyTime = FALSE
  PROVE  Spec => []DuplicatesOnlyAfterFailure
<1>1. TypeOK /\ PaidInv => DuplicatesOnlyAfterFailure
  BY DEF TypeOK, PaidInv, Troubles, DuplicatesOnlyAfterFailure
<1> QED
  BY <1>1, FetchInvHolds, PTL

=============================================================================
