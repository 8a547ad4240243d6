------------------------ MODULE SlackDeliveryProofs -------------------------
(***************************************************************************)
(* Proofs about SlackDelivery for every set of records, every number of    *)
(* retries and every budget for waiting.                                   *)
(***************************************************************************)
EXTENDS SlackDelivery, FiniteSetTheorems, TLAPS

-----------------------------------------------------------------------------
(* The inductive invariant.                                                *)

\* The records whose message has not been settled in the running Flush.
Open == (UNION todo) \cup msg

\* A record waits in the buffer, is in the hands of the running Flush, or has
\* left both; what waits has not been posted.
BufferInv ==
    /\ buf \cup snapshot \cup posted \subseteq handled
    /\ buf \cap snapshot = {}
    /\ buf \cap posted = {}
    /\ (UNION todo) \cap posted = {}
    /\ pc = "idle" <=> snapshot = {}
    /\ pc = "backoff" => msg \subseteq posted

\* The messages of a Flush are disjoint parts of its snapshot.
BatchInv ==
    /\ Open \subseteq snapshot
    /\ \A m \in todo : m \cap msg = {}
    /\ \A m, n \in todo : m = n \/ m \cap n = {}
    /\ pc \in {"idle", "send"} => msg = {}
    /\ pc = "idle" => todo = {}

\* Every settled record has been posted, and has been delivered unless an
\* error is going to be returned.
SettledInv ==
    /\ snapshot \ Open \subseteq posted
    /\ ~errs => snapshot \ Open \subseteq Delivered

\* Slack has accepted only what was posted, an open record only in posts
\* whose answer was lost.
AcceptedInv ==
    /\ Delivered \subseteq posted
    /\ \A r \in Records : accepted[r] <= 1 + unknown
    /\ \A r \in msg : accepted[r] <= unknown

\* The loop variables of postWithRetry.
RetryInv ==
    /\ waited <= MaxCumulativeWait
    /\ pc = "backoff" => attempt < RetryCount
    /\ pc \in {"attempt", "backoff"} => waited >= notBefore

DeliveryInv ==
    /\ BufferInv
    /\ BatchInv
    /\ SettledInv
    /\ AcceptedInv
    /\ RetryInv

-----------------------------------------------------------------------------
(* Operators.                                                              *)

\* A power of two is a natural number: so many subsets has 1..n.
LEMMA PowerOfTwo ==
  ASSUME NEW n \in Nat
  PROVE  2^n \in Nat
<1>1. IsFiniteSet(1..n) /\ Cardinality(1..n) = n
  BY FS_Interval
<1>2. IsFiniteSet(SUBSET (1..n)) /\ Cardinality(SUBSET (1..n)) = 2^Cardinality(1..n)
  BY <1>1, FS_SUBSET
<1>3. Cardinality(SUBSET (1..n)) \in Nat
  BY <1>2, FS_CardinalityType
<1> QED
  BY <1>1, <1>2, <1>3

\* The smaller of two natural numbers is one of them and exceeds neither.
LEMMA LeastType ==
  ASSUME NEW a \in Nat, NEW b \in Nat
  PROVE  Least(a, b) \in Nat /\ Least(a, b) <= a /\ Least(a, b) <= b
  BY DEF Least

\* A backoff is a number of seconds, whatever the attempt.
LEMMA BackoffType ==
  ASSUME NEW n \in Nat
  PROVE  BackoffDuration(n) \in Nat
<1> USE DeliveryAssumption
<1> DEFINE shift == Least(n, MaxBackoffShift)
<1>1. shift \in Nat
  BY LeastType DEF MaxBackoffShift
<1>2. 2^shift \in Nat
  BY <1>1, PowerOfTwo
<1> HIDE DEF shift
<1>3. Base * 2^shift \in Nat
  <2> DEFINE p == 2^shift
  <2>1. p \in Nat
    BY <1>2
  <2> HIDE DEF p
  <2>2. Base * p \in Nat
    BY <2>1
  <2> QED
    BY <2>2 DEF p
<1>4. Least(Base * 2^shift, MaxCumulativeWait) \in Nat
  BY <1>3, LeastType
<1> QED
  BY <1>4 DEF BackoffDuration, shift

\* The messages of a batch are disjoint, not empty, and hold all its records.
LEMMA FormatRecordsPartitions ==
  ASSUME NEW records \in SUBSET Records
  PROVE  /\ FormatRecords(records) \subseteq Messages
         /\ UNION FormatRecords(records) = records
         /\ \A m, n \in FormatRecords(records) : m = n \/ m \cap n = {}
<1> USE DeliveryAssumption DEF FormatRecords, Records, Messages
<1>1. ASSUME NEW m \in FormatRecords(records)
      PROVE  m \in Messages
  <2>1. CASE m = records \cap Alerts /\ m # {}
    BY <2>1
  <2>2. ASSUME NEW r \in records \cap Others, m = {r}
        PROVE  m \in Messages
    BY <2>2
  <2> QED
    BY <2>1, <2>2
<1>2. UNION FormatRecords(records) \subseteq records
  OBVIOUS
<1>3. ASSUME NEW r \in records
      PROVE  r \in UNION FormatRecords(records)
  <2>1. CASE r \in Alerts
    <3>1. records \cap Alerts \in FormatRecords(records)
      BY <2>1
    <3> QED
      BY <2>1, <3>1
  <2>2. CASE r \in Others
    <3>1. {r} \in FormatRecords(records)
      BY <2>2
    <3> QED
      BY <3>1
  <2> QED
    BY <2>1, <2>2
<1>4. \A m, n \in FormatRecords(records) : m = n \/ m \cap n = {}
  OBVIOUS
<1> QED
  BY <1>1, <1>2, <1>3, <1>4

-----------------------------------------------------------------------------
(* One attempt, and the sleep between two.                                 *)

\* How postWithRetry ends, with or without an error.
Ends(failed) ==
    /\ pc' = "send" /\ msg' = {}
    /\ errs' = (errs \/ failed)
    /\ UNCHANGED <<attempt, waited>>

\* How it goes on: at once after a Retry-After, else by way of the backoff.
GoesOn ==
    /\ UNCHANGED <<msg, errs>>
    /\ attempt < RetryCount
    /\ \/ /\ pc' = "attempt" /\ attempt' = attempt + 1
          /\ waited' \in Nat /\ waited' >= waited
          /\ waited' <= MaxCumulativeWait
       \/ pc' = "backoff" /\ UNCHANGED <<attempt, waited>>

\* An attempt ends the loop or goes on, and an attempt that succeeds has
\* delivered the message.
LEMMA AttemptOutcome ==
  ASSUME TypeOK, RetryInv, Attempt
  PROVE  /\ pc = "attempt" /\ posted' = posted \cup msg
         /\ UNCHANGED <<buf, snapshot, todo, handled, reported>>
         /\ \/ Ends(FALSE) /\ Accept /\ UNCHANGED <<unknown, notBefore>>
            \/ /\ Ends(TRUE) \/ GoesOn
               /\ \/ UNCHANGED <<accepted, unknown>>
                  \/ /\ Accept /\ unknown' = unknown + 1
                     /\ unknown < MaxUnknown
               /\ notBefore' \in Nat
               /\ pc' \in {"attempt", "backoff"} => waited' >= notBefore'
<1> USE DeliveryAssumption DEF TypeOK, RetryInv
<1>1. /\ pc = "attempt" /\ posted' = posted \cup msg
      /\ UNCHANGED <<buf, snapshot, todo, handled, reported>>
  BY DEF Attempt
<1>2. Retry => Ends(TRUE) \/ (GoesOn /\ UNCHANGED waited)
  BY DEF Retry, GiveUp, Done, Ends, GoesOn
<1>3. CASE PostAccepted
  BY <1>1, <1>3 DEF PostAccepted, Done, Ends
<1>4. CASE PostRejected
  BY <1>1, <1>4 DEF PostRejected, Done, Ends
<1>5. CASE PostFailed
  BY <1>1, <1>2, <1>5 DEF PostFailed, Ends
<1>6. CASE AnswerLost
  BY <1>1, <1>2, <1>6 DEF AnswerLost, Ends
<1>7. ASSUME NEW header \in RetryAfters, RateLimited(header)
      PROVE  /\ Ends(TRUE) \/ GoesOn
             /\ UNCHANGED <<accepted, unknown>>
             /\ notBefore' \in Nat
             /\ pc' \in {"attempt", "backoff"} => waited' >= notBefore'
  <2> DEFINE wait == Least(header, MaxCumulativeWait)
  <2>1. wait \in Nat
    BY LeastType
  <2> HIDE DEF wait
  <2>2. /\ notBefore' = waited + wait
        /\ UNCHANGED <<accepted, unknown>>
        /\ IF attempt = RetryCount THEN GiveUp ELSE SleepThen(wait, "attempt")
    BY <1>7 DEF RateLimited, wait
  <2>3. CASE attempt = RetryCount \/ waited + wait > MaxCumulativeWait
    BY <2>1, <2>2, <2>3 DEF SleepThen, GiveUp, Done, Ends
  <2>4. CASE attempt # RetryCount /\ ~(waited + wait > MaxCumulativeWait)
    <3>1. /\ waited' = waited + wait /\ pc' = "attempt"
          /\ attempt' = attempt + 1 /\ UNCHANGED <<msg, errs>>
      BY <2>2, <2>4 DEF SleepThen
    <3>2. attempt < RetryCount
      BY <2>4
    <3>3. GoesOn
      BY <2>1, <2>4, <3>1, <3>2 DEF GoesOn
    <3> QED
      BY <2>1, <2>2, <3>1, <3>3
  <2> QED
    BY <2>3, <2>4
<1> QED
  BY <1>1, <1>3, <1>4, <1>5, <1>6, <1>7 DEF Attempt

\* The sleep of a backoff leads to the next attempt or ends the loop.
LEMMA BackoffOutcome ==
  ASSUME TypeOK, RetryInv, Backoff
  PROVE  /\ pc = "backoff"
         /\ Ends(TRUE) \/ (GoesOn /\ pc' = "attempt")
         /\ UNCHANGED <<buf, snapshot, todo, history>>
<1> USE DeliveryAssumption DEF TypeOK, RetryInv
<1> DEFINE wait == BackoffDuration(attempt)
<1>1. wait \in Nat
  BY BackoffType
<1> HIDE DEF wait
<1>2. /\ pc = "backoff" /\ SleepThen(wait, "attempt")
      /\ UNCHANGED <<buf, snapshot, todo, history>>
  BY DEF Backoff, wait
<1> QED
  BY <1>1, <1>2 DEF SleepThen, GiveUp, Done, Ends, GoesOn

-----------------------------------------------------------------------------
(* The invariant holds.                                                    *)

\* What a post that reaches Slack adds.
LEMMA AcceptAdds ==
  ASSUME TypeOK, Accept
  PROVE  /\ accepted' \in [Records -> Nat]
         /\ Delivered' = Delivered \cup msg
         /\ \A r \in msg : accepted'[r] = accepted[r] + 1
         /\ \A r \in Records \ msg : accepted'[r] = accepted[r]
  BY DEF TypeOK, Accept, Delivered, Messages

\* Before the first post, nothing is owed and nothing is repeated.
LEMMA InitEstablishesInv == Init => TypeOK /\ DeliveryInv
<1> USE DeliveryAssumption
<1> SUFFICES ASSUME Init PROVE TypeOK /\ DeliveryInv
  OBVIOUS
<1>1. TypeOK
  <2>1. RetryCount \in Nat /\ MaxUnknown \in Nat
    OBVIOUS
  <2>2. accepted \in [Records -> Nat]
    BY DEF Init
  <2>3. attempt \in 0..RetryCount /\ unknown \in 0..MaxUnknown
    BY <2>1 DEF Init
  <2> QED
    BY <2>2, <2>3 DEF Init, TypeOK
<1>2. Delivered = {} /\ Open = {}
  BY DEF Init, Delivered, Open
<1> QED
  BY <1>1, <1>2 DEF Init, DeliveryInv, BufferInv, BatchInv, SettledInv,
                    AcceptedInv, RetryInv

\* Every step preserves types and the invariant.
LEMMA NextKeepsInv ==
  ASSUME TypeOK, DeliveryInv, [Next]_vars
  PROVE  TypeOK' /\ DeliveryInv'
<1> USE DeliveryAssumption
<1>0. BufferInv /\ BatchInv /\ SettledInv /\ AcceptedInv /\ RetryInv
  BY DEF DeliveryInv
<1>1. ASSUME NEW r \in Records, Handle(r)
      PROVE  TypeOK' /\ DeliveryInv'
  <2>1. /\ TypeOK' /\ Delivered' = Delivered /\ Open' = Open
        /\ r \notin handled
    BY <1>1 DEF Handle, TypeOK, Delivered, Open
  <2>2. BufferInv'
    BY <1>0, <1>1, <2>1 DEF Handle, BufferInv
  <2>3. BatchInv' /\ SettledInv' /\ AcceptedInv' /\ RetryInv'
    BY <1>0, <1>1, <2>1 DEF Handle, BatchInv, SettledInv, AcceptedInv, RetryInv
  <2> QED
    BY <2>1, <2>2, <2>3 DEF DeliveryInv
<1>2. CASE TakeSnapshot
  <2>1. /\ todo' \subseteq Messages /\ UNION todo' = buf
        /\ \A m, n \in todo' : m = n \/ m \cap n = {}
    BY <1>2, FormatRecordsPartitions DEF TakeSnapshot, TypeOK
  <2>2. TypeOK'
    BY <1>2, <2>1 DEF TakeSnapshot, TypeOK, history
  <2>3. msg' = {} /\ msg = {}
    BY <1>0, <1>2 DEF TakeSnapshot, BatchInv
  <2>4. Delivered' = Delivered /\ Open' = buf
    BY <1>2, <2>1, <2>3 DEF TakeSnapshot, Delivered, Open, history
  <2>5. BufferInv'
    BY <1>0, <1>2, <2>1 DEF TakeSnapshot, BufferInv, history
  <2>6. BatchInv'
    BY <1>2, <2>1, <2>3, <2>4 DEF TakeSnapshot, BatchInv
  <2>7. SettledInv' /\ AcceptedInv' /\ RetryInv'
    BY <1>0, <1>2, <2>3, <2>4
       DEF TakeSnapshot, SettledInv, AcceptedInv, RetryInv, history
  <2> QED
    BY <2>2, <2>5, <2>6, <2>7 DEF DeliveryInv
<1>3. CASE Begin
  <2>1. PICK m \in todo : msg' = m /\ todo' = todo \ {m}
    BY <1>3 DEF Begin
  <2>2. TypeOK'
    BY <1>3, <2>1 DEF Begin, TypeOK
  <2>3. msg = {}
    BY <1>0, <1>3 DEF Begin, BatchInv
  <2>4. Delivered' = Delivered /\ Open' = Open
    BY <1>3, <2>1, <2>3 DEF Begin, Delivered, Open
  <2>5. BufferInv'
    BY <1>0, <1>3, <2>1 DEF Begin, BufferInv
  <2>6. BatchInv'
    BY <1>0, <1>3, <2>1, <2>4 DEF Begin, BatchInv
  <2>7. SettledInv'
    BY <1>0, <1>3, <2>4 DEF Begin, SettledInv
  <2>8. AcceptedInv'
    <3>1. \A r \in m : r \in Records /\ r \notin Delivered
      BY <1>0, <2>1 DEF TypeOK, Messages, BufferInv, AcceptedInv
    <3>2. \A r \in m : accepted[r] = 0
      BY <3>1 DEF TypeOK, Delivered
    <3> QED
      BY <1>0, <1>3, <2>1, <2>4, <3>2 DEF Begin, AcceptedInv, TypeOK
  <2>9. RetryInv'
    BY <1>3 DEF Begin, RetryInv
  <2> QED
    BY <2>2, <2>5, <2>6, <2>7, <2>8, <2>9 DEF DeliveryInv
<1>4. CASE FlushReturns
  <2>1. TypeOK'
    BY <1>4 DEF FlushReturns, TypeOK
  <2>2. Delivered' = Delivered /\ Open' = {} /\ msg' = {} /\ todo' = {}
    BY <1>0, <1>4 DEF FlushReturns, Delivered, Open, BatchInv
  <2>3. BufferInv' /\ BatchInv' /\ SettledInv' /\ AcceptedInv' /\ RetryInv'
    BY <1>0, <1>4, <2>2
       DEF FlushReturns, BufferInv, BatchInv, SettledInv, AcceptedInv, RetryInv
  <2> QED
    BY <2>1, <2>3 DEF DeliveryInv
<1>5. CASE Attempt
  <2>1. /\ pc = "attempt" /\ posted' = posted \cup msg
        /\ UNCHANGED <<buf, snapshot, todo, handled, reported>>
    BY <1>0, <1>5, AttemptOutcome
  <2>2. Ends(FALSE) \/ Ends(TRUE) \/ GoesOn
    BY <1>0, <1>5, AttemptOutcome
  <2>3. Accept \/ UNCHANGED accepted
    BY <1>0, <1>5, AttemptOutcome
  <2>4. /\ unknown' \in 0..MaxUnknown /\ notBefore' \in Nat
        /\ unknown' >= unknown
        /\ pc' \in {"attempt", "backoff"} => waited' >= notBefore'
    BY <1>0, <1>5, AttemptOutcome DEF TypeOK, Ends
  <2>5. accepted' \in [Records -> Nat]
    BY <2>3, AcceptAdds DEF TypeOK
  <2>6. TypeOK'
    <3>1. msg' \in Messages \cup {{}} /\ posted' \subseteq Records
      BY <2>1, <2>2 DEF TypeOK, Ends, GoesOn, Messages
    <3>2. errs' \in BOOLEAN
      BY <2>2, Zenon DEF TypeOK, Ends, GoesOn
    <3>3. attempt' \in 0..RetryCount /\ waited' \in Nat
      BY <2>2 DEF TypeOK, Ends, GoesOn
    <3>4. pc' \in {"idle", "send", "attempt", "backoff"}
      BY <2>2 DEF Ends, GoesOn
    <3> QED
      BY <2>1, <2>4, <2>5, <3>1, <3>2, <3>3, <3>4 DEF TypeOK
  <2>7. msg \subseteq snapshot /\ msg \subseteq Records
    BY <1>0 DEF BatchInv, Open, TypeOK, Messages
  <2>8. Open' = (UNION todo) \cup msg' /\ msg' \in {msg, {}}
    BY <2>1, <2>2 DEF Open, Ends, GoesOn
  <2>9. Delivered' = Delivered \/ Delivered' = Delivered \cup msg
    BY <2>3, AcceptAdds DEF Delivered
  <2>10. BufferInv'
    BY <1>0, <2>1, <2>2, <2>7 DEF BufferInv, BatchInv, Ends, GoesOn
  <2>11. BatchInv'
    BY <1>0, <2>1, <2>2, <2>8 DEF BatchInv, Ends, GoesOn, Open
  <2>12. snapshot' \ Open' \subseteq posted'
    BY <1>0, <2>1, <2>8 DEF SettledInv, Open
  <2>13. ASSUME ~errs' PROVE snapshot' \ Open' \subseteq Delivered'
    <3>1. ~errs
      BY <2>2, <2>13 DEF Ends, GoesOn, TypeOK
    <3>2. CASE Ends(FALSE) /\ Accept
      BY <1>0, <2>1, <2>8, <3>1, <3>2, AcceptAdds DEF SettledInv, Open
    <3>3. CASE GoesOn
      BY <1>0, <2>1, <2>8, <2>9, <3>1, <3>3 DEF SettledInv, Open, GoesOn
    <3>4. ~Ends(TRUE)
      BY <2>13 DEF Ends
    <3> QED
      BY <1>0, <1>5, <3>2, <3>3, <3>4, AttemptOutcome
  <2>14. AcceptedInv'
    <3>1. Delivered' \subseteq posted'
      BY <1>0, <2>1, <2>9 DEF AcceptedInv
    <3>2. CASE Ends(FALSE) /\ Accept /\ UNCHANGED unknown
      <4>1. msg' = {}
        BY <3>2 DEF Ends
      <4>2. \A r \in Records : accepted'[r] <= 1 + unknown
        BY <1>0, <3>2, AcceptAdds DEF AcceptedInv, TypeOK
      <4> QED
        BY <3>1, <3>2, <4>1, <4>2 DEF AcceptedInv
    <3>3. CASE Accept /\ unknown' = unknown + 1
      <4>1. \A r \in Records : accepted'[r] <= 1 + unknown'
        BY <1>0, <3>3, AcceptAdds DEF AcceptedInv, TypeOK
      <4>2. \A r \in msg : accepted'[r] <= unknown'
        BY <1>0, <2>7, <3>3, AcceptAdds DEF AcceptedInv, TypeOK
      <4> QED
        BY <2>8, <3>1, <4>1, <4>2 DEF AcceptedInv
    <3>4. CASE UNCHANGED <<accepted, unknown>>
      BY <1>0, <2>8, <3>1, <3>4 DEF AcceptedInv
    <3> QED
      BY <1>0, <1>5, <3>2, <3>3, <3>4, AttemptOutcome
  <2>15. RetryInv'
    BY <1>0, <2>1, <2>2, <2>4 DEF RetryInv, Ends, GoesOn, TypeOK
  <2> QED
    BY <2>6, <2>10, <2>11, <2>12, <2>13, <2>14, <2>15 DEF DeliveryInv, SettledInv
<1>6. CASE Backoff
  <2>1. /\ pc = "backoff"
        /\ Ends(TRUE) \/ (GoesOn /\ pc' = "attempt")
        /\ UNCHANGED <<buf, snapshot, todo, history>>
    BY <1>0, <1>6, BackoffOutcome
  <2>2. TypeOK'
    <3>1. msg' \in Messages \cup {{}}
      BY <2>1 DEF TypeOK, Ends, GoesOn
    <3>2. errs' \in BOOLEAN
      BY <2>1, Zenon DEF TypeOK, Ends, GoesOn
    <3>3. attempt' \in 0..RetryCount /\ waited' \in Nat
      BY <2>1 DEF TypeOK, Ends, GoesOn
    <3> QED
      BY <2>1, <3>1, <3>2, <3>3 DEF TypeOK, Ends, history
  <2>3. Delivered' = Delivered /\ Open' = (UNION todo) \cup msg' /\ msg' \in {msg, {}}
    BY <2>1 DEF Delivered, Open, Ends, GoesOn, history
  <2>4. BufferInv' /\ BatchInv'
    <3>1. BufferInv'
      BY <1>0, <2>1, <2>3 DEF BufferInv, Ends, GoesOn, history
    <3>2. BatchInv'
      BY <1>0, <2>1, <2>3 DEF BatchInv, Ends, GoesOn, Open
    <3> QED
      BY <3>1, <3>2
  <2>5. snapshot' \ Open' \subseteq posted'
    BY <1>0, <2>1, <2>3 DEF BufferInv, SettledInv, Open, history
  <2>6. ASSUME ~errs' PROVE snapshot' \ Open' \subseteq Delivered'
    BY <1>0, <2>1, <2>3, <2>6 DEF SettledInv, Ends, GoesOn, Open, history
  <2>7. AcceptedInv' /\ RetryInv'
    BY <1>0, <2>1, <2>3
       DEF AcceptedInv, RetryInv, Ends, GoesOn, history, TypeOK
  <2> QED
    BY <2>2, <2>4, <2>5, <2>6, <2>7 DEF DeliveryInv, SettledInv
<1>7. CASE UNCHANGED vars
  <2>1. TypeOK' /\ Delivered' = Delivered /\ Open' = Open
    BY <1>7 DEF vars, TypeOK, Delivered, Open
  <2> QED
    BY <1>0, <1>7, <2>1
       DEF vars, DeliveryInv, BufferInv, BatchInv, SettledInv, AcceptedInv, RetryInv
<1> QED
  BY <1>1, <1>2, <1>3, <1>4, <1>5, <1>6, <1>7 DEF Next, FlushStep

-----------------------------------------------------------------------------
(* The theorems.                                                           *)

\* The types and the invariant hold in every state.
LEMMA InvHolds == Spec => [](TypeOK /\ DeliveryInv)
<1>1. TypeOK /\ DeliveryInv /\ [Next]_vars => (TypeOK /\ DeliveryInv)'
  BY NextKeepsInv
<1> QED
  BY <1>1, InitEstablishesInv, PTL DEF Spec

\* Every variable keeps its type; that no attempt is made after the last of
\* the RetryCount retries is part of it.
THEOREM TypeCorrect == Spec => []TypeOK
  BY InvHolds, PTL

\* Slack gets no record more often than answers were lost, plus once,
\* whatever fails, is retried, or is logged meanwhile.
THEOREM NoUnexplainedDuplicate == Spec => []DuplicatesNeedLostAnswer
<1>1. DeliveryInv => DuplicatesNeedLostAnswer
  BY DEF DeliveryInv, AcceptedInv, DuplicatesNeedLostAnswer
<1> QED
  BY <1>1, InvHolds, PTL

\* All sleeps for a message fit into the budget and respect Retry-After.
THEOREM WaitsStayInBounds == Spec => []WaitsInBounds
<1>1. DeliveryInv => WaitsInBounds
  BY DEF DeliveryInv, RetryInv, WaitsInBounds
<1> QED
  BY <1>1, InvHolds, PTL

\* A Flush returns only after it has posted every record it took.
THEOREM FlushAttemptsAll == Spec => AllAttempted
<1>1. ASSUME TypeOK, DeliveryInv, [Next]_vars, pc # "idle", pc' = "idle"
      PROVE  snapshot \subseteq posted
  <2>1. BatchInv /\ SettledInv /\ RetryInv
    BY <1>1 DEF DeliveryInv
  <2>2. CASE FlushReturns
    BY <2>1, <2>2 DEF FlushReturns, BatchInv, SettledInv, Open
  <2>3. ~Attempt
    BY <1>1, <2>1, AttemptOutcome DEF Ends, GoesOn
  <2>4. ~Backoff
    BY <1>1, <2>1, BackoffOutcome DEF Ends, GoesOn
  <2>5. ~(TakeSnapshot \/ Begin \/ UNCHANGED vars)
    BY <1>1 DEF TakeSnapshot, Begin, vars
  <2>6. ASSUME NEW r \in Records, Handle(r) PROVE FALSE
    BY <1>1, <2>6 DEF Handle
  <2> QED
    BY <1>1, <2>2, <2>3, <2>4, <2>5, <2>6 DEF Next, FlushStep
<1>2. TypeOK /\ DeliveryInv /\ [Next]_vars
      => [pc # "idle" /\ pc' = "idle" => snapshot \subseteq posted]_vars
  BY <1>1
<1> QED
  BY <1>2, InvHolds, PTL DEF Spec, AllAttempted

\* The handler implements the contract that fetch and the other commands
\* rely on: messages, retries and waits are steps of delivering the batch.
THEOREM HandlerKeepsContract == Spec => ImplementsNotifier
<1>1. Init => Contract!Init
  BY DEF Init, Contract!Init, Delivered
<1>2. ASSUME TypeOK, DeliveryInv, [Next]_vars
      PROVE  [Contract!Next]_(Contract!vars)
  <2>0. BufferInv /\ BatchInv /\ SettledInv /\ RetryInv
    BY <1>2 DEF DeliveryInv
  <2>1. ASSUME NEW r \in Records, Handle(r)
        PROVE  Contract!Handle(r)
    BY <2>1 DEF Handle, Contract!Handle, Delivered
  <2>2. CASE TakeSnapshot
    <3>1. Contract!FlushBegins
      BY <2>0, <2>2 DEF TakeSnapshot, Contract!FlushBegins, BufferInv, Delivered, history
    <3> QED
      BY <3>1 DEF Contract!Next
  <2>3. CASE FlushReturns
    <3>1. /\ snapshot # {} /\ snapshot' = {}
          /\ UNCHANGED <<handled, buf, Delivered>>
      BY <2>0, <2>3 DEF FlushReturns, BufferInv, Delivered
    <3>2. CASE errs
      <4>1. Contract!FlushFails
        BY <2>3, <3>1, <3>2 DEF FlushReturns, Contract!FlushFails
      <4> QED
        BY <4>1 DEF Contract!Next
    <3>3. CASE ~errs
      <4>1. snapshot \subseteq Delivered
        BY <2>0, <2>3, <3>3 DEF FlushReturns, BatchInv, SettledInv, Open
      <4>2. Contract!FlushSucceeds
        BY <2>3, <3>1, <3>3, <4>1 DEF FlushReturns, Contract!FlushSucceeds
      <4> QED
        BY <4>2 DEF Contract!Next
    <3> QED
      BY <3>2, <3>3
  <2>4. CASE Attempt
    <3>1. UNCHANGED <<buf, snapshot, handled, reported>>
      BY <1>2, <2>0, <2>4, AttemptOutcome
    <3>2. Accept \/ UNCHANGED accepted
      BY <1>2, <2>0, <2>4, AttemptOutcome
    <3>3. msg \subseteq snapshot
      BY <2>0 DEF BatchInv, Open
    <3>4. CASE Accept
      <4>1. Delivered' = Delivered \cup msg
        BY <1>2, <3>4, AcceptAdds
      <4>2. Contract!Deliver
        BY <3>1, <3>3, <4>1 DEF Contract!Deliver
      <4> QED
        BY <4>2 DEF Contract!Next
    <3>5. CASE UNCHANGED accepted
      BY <3>1, <3>5 DEF Contract!vars, Delivered
    <3> QED
      BY <3>2, <3>4, <3>5
  <2>5. CASE Begin \/ Backoff \/ UNCHANGED vars
    BY <2>5 DEF Begin, Backoff, vars, history, Contract!vars, Delivered
  <2> QED
    BY <1>2, <2>1, <2>2, <2>3, <2>4, <2>5 DEF Next, FlushStep, Contract!Next
<1>3. TypeOK /\ DeliveryInv /\ [Next]_vars => [Contract!Next]_(Contract!vars)
  BY <1>2
<1> QED
  BY <1>1, <1>3, InvHolds, PTL DEF Spec, ImplementsNotifier, Contract!Spec

=============================================================================
