-------------------------- MODULE EmailStoreProofs --------------------------
(***************************************************************************)
(* Proofs about EmailStore for every valid configuration, every length of  *)
(* a month and any number of messages, days and failures.                  *)
(***************************************************************************)
EXTENDS EmailStore, TLAPS

-----------------------------------------------------------------------------
(* The inductive invariant.                                                *)

\* Wherever a message is known to the store, it has been received, and it is
\* known under the month in which it was.
DateInv ==
    /\ now <= today
    /\ \A m \in Messages : received[m] <= today
    /\ \A m \in mailbox \cup reports \cup collected : received[m] # NoDay
    /\ pc = "saveEmail" => work \subseteq mailbox
    /\ \A f \in files : received[f[1]] # NoDay /\ f[2] = Month(received[f[1]])
    /\ \A m \in Messages : index[m] # NoDay =>
           received[m] # NoDay /\ Month(index[m]) = Month(received[m])
    /\ \A m \in Messages : metas[m] # NoDay =>
           received[m] # NoDay /\ Month(metas[m]) = Month(received[m])

\* What gc is going to remove is old, reports older than that are gone
\* already, and what it is going to drop from the index has no file.
GcInv ==
    /\ pc = "removeFile" => work \subseteq Expired
    /\ pc \in {"deleteEmails", "removeFile"} =>
           \A m \in reports : ~Before(EndDay(m), RetentionDays)
    /\ pc \notin {"removeFile", "saveIndex", "search", "expunge"} => gone = {}
    /\ pc \in {"removeFile", "saveIndex"} => \A m \in gone : ~HasFile(m)
    /\ pc = "search" => ImapRetentionDays > 0
    /\ pc = "expunge" => /\ ImapRetentionDays > 0
                         /\ \A m \in work : /\ received[m] # NoDay
                                        /\ Before(received[m], ImapRetentionDays)

\* A report is saved only of a message with a file, and keeps it unless the
\* date in the index is not that of the message.
FileInv ==
    /\ pc = "saveEmail" => \A m \in collected \ work : HasFile(m)
    /\ pc \in {"fetchMetas", "fetchReports", "reprocessMetas", "reprocessReports"} =>
           \A m \in collected : HasFile(m)
    /\ \A m \in Messages : index[m] \notin {NoDay, received[m]} => m \in guessed
    /\ ReportsRebuildable

\* A report that has been counted ended before the base day of a summary that
\* is past.
CountInv ==
    /\ digest = "due" => today % WindowDays = 0
    /\ digest = "late" => today > 1 /\ (today - 1) % WindowDays = 0
    /\ \A m \in counted :
           /\ received[m] # NoDay
           /\ \E b \in 1..today :
                  /\ b % WindowDays = 0 /\ EndDay(m) < b
                  /\ digest = "due" => b < today
                  /\ digest = "late" => b < today - 1

StoreInv == DateInv /\ GcInv /\ FileInv /\ CountInv

-----------------------------------------------------------------------------
(* Days, months and windows.                                               *)

\* The constants are positive, but for a retention that may be disabled.
LEMMA Config ==
  /\ LastDay \in Nat \ {0} /\ MonthLength \in Nat \ {0} /\ MaxFailures \in Nat
  /\ FetchDays \in Nat \ {0} /\ WindowDays \in Nat \ {0}
  /\ RetentionDays \in Nat \ {0} /\ MaxEmailAgeDays \in Nat \ {0}
  /\ ImapRetentionDays \in Nat
  /\ ImapRetentionDays > 0 => ImapRetentionDays >= FetchDays
  BY BoundsAssumption, ConfigAssumption DEF Validate

\* The first day of a month is in that month, and not after any of its days.
LEMMA MonthOfFirstDay ==
  ASSUME NEW day \in Days
  PROVE  /\ FirstDay(Month(day)) \in 1..day
         /\ Month(FirstDay(Month(day))) = Month(day)
<1> DEFINE q == (day - 1) \div MonthLength
<1>1. MonthLength \in Nat \ {0} /\ day - 1 \in Nat
  BY Config DEF Days
<1>2. q \in Nat /\ MonthLength * q <= day - 1
  BY <1>1
<1>3. (q * MonthLength) \div MonthLength = q
  BY <1>1, <1>2
<1> HIDE DEF q
<1>4. q * MonthLength = MonthLength * q /\ q * MonthLength \in Nat
  BY <1>1, <1>2
<1>5. (q * MonthLength + 1) - 1 = q * MonthLength
  BY <1>4
<1> QED
  BY <1>2, <1>3, <1>4, <1>5 DEF Month, FirstDay, Days, q

\* Days of one month are less than a month apart.
LEMMA SameMonth ==
  ASSUME NEW c \in Days, NEW d \in Days, Month(c) = Month(d)
  PROVE  d < c + MonthLength
<1> DEFINE q == (c - 1) \div MonthLength
<1>1. MonthLength \in Nat \ {0} /\ c - 1 \in Nat /\ d - 1 \in Nat
  BY Config DEF Days
<1>2. q \in Nat /\ MonthLength * q <= c - 1
  BY <1>1
<1>3. d - 1 < MonthLength * ((d - 1) \div MonthLength) + MonthLength
  BY <1>1
<1>4. (d - 1) \div MonthLength = q
  BY DEF Month
<1>5. d - 1 < MonthLength * q + MonthLength
  BY <1>3, <1>4
<1> HIDE DEF q
<1>6. MonthLength * q \in Nat
  BY <1>1, <1>2
<1> QED
  BY <1>1, <1>2, <1>5, <1>6 DEF Days

\* Between the base days of two summaries there is a whole window.
LEMMA WindowsApart ==
  ASSUME NEW a \in Nat, NEW b \in Nat, a < b,
         a % WindowDays = 0, b % WindowDays = 0
  PROVE  a + WindowDays <= b
<1> DEFINE p == a \div WindowDays
           q == b \div WindowDays
<1>1. WindowDays \in Nat \ {0}
  BY Config
<1>2. p \in Nat /\ a = WindowDays * p
  BY <1>1
<1>3. q \in Nat /\ b = WindowDays * q
  BY <1>1
<1> HIDE DEF p, q
<1>4. p < q
  BY <1>1, <1>2, <1>3
<1>5. p + 1 <= q
  BY <1>2, <1>3, <1>4
<1>6. WindowDays * (p + 1) <= WindowDays * q
  BY <1>1, <1>2, <1>3, <1>5
<1>7. WindowDays * (p + 1) = WindowDays * p + WindowDays
  BY <1>1, <1>2
<1> QED
  BY <1>2, <1>3, <1>6, <1>7

-----------------------------------------------------------------------------
(* Files.                                                                  *)

\* The file of a message is in the month in which it was received, and
\* reprocess dates it by the first day of that month.
LEMMA FileOfMonth ==
  ASSUME TypeOK, DateInv, NEW m \in Messages
  PROVE  /\ HasFile(m) <=> \E f \in files : f[1] = m
         /\ HasFile(m) => /\ received[m] \in Days
                          /\ Path(m, received[m]) \in files
                          /\ PathDate(m) = FirstDay(Month(received[m]))
<1>1. HasFile(m) <=> \E f \in files : f[1] = m
  BY DEF HasFile, FileMonths
<1>2. ASSUME HasFile(m)
      PROVE  /\ received[m] \in Days /\ Path(m, received[m]) \in files
             /\ PathDate(m) = FirstDay(Month(received[m]))
  <2>1. \A month \in FileMonths(m) : month = Month(received[m])
    BY DEF FileMonths, DateInv
  <2>2. (CHOOSE month \in FileMonths(m) : TRUE) \in FileMonths(m)
    BY <1>2 DEF HasFile
  <2>3. PathDate(m) = FirstDay(Month(received[m]))
    BY <2>1, <2>2 DEF PathDate
  <2>4. PICK f \in files : f[1] = m
    BY <1>1, <1>2
  <2>5. f = <<m, Month(received[m])>>
    BY <2>4 DEF TypeOK, DateInv
  <2>6. received[m] \in Days
    BY <2>4 DEF DateInv, TypeOK
  <2> QED
    BY <2>3, <2>4, <2>5, <2>6 DEF Path
<1> QED
  BY <1>1, <1>2

-----------------------------------------------------------------------------
(* Types.                                                                  *)

\* The empty store satisfies the invariant.
LEMMA InitEstablishesInv == Init => TypeOK /\ StoreInv
<1> SUFFICES ASSUME Init PROVE TypeOK /\ StoreInv
  OBVIOUS
<1>1. 1 \in Days /\ 0 \in 0..MaxFailures
  BY Config DEF Days
<1>2. TypeOK
  BY <1>1 DEF Init, TypeOK, Undated, Steps, Digests
<1>3. DateInv
  BY DEF Init, DateInv, Undated, NoDay
<1>4. GcInv /\ FileInv /\ CountInv
  BY DEF Init, GcInv, FileInv, CountInv, Undated, ReportsRebuildable
<1> QED
  BY <1>2, <1>3, <1>4 DEF StoreInv

\* Every operation keeps the types.
LEMMA NextKeepsType ==
  ASSUME TypeOK, DateInv, [Next]_vars
  PROVE  TypeOK'
<1> USE Config DEF TypeOK, Steps, Days
<1>1. ASSUME NEW m \in Messages, Arrive(m)
      PROVE  TypeOK'
  BY <1>1 DEF Arrive, store, local, summary
<1>2. ASSUME NEW step \in {"list", "loadEmails", "deleteReports"}, Start(step)
      PROVE  TypeOK'
  BY <1>2 DEF Start, server, store, local, summary
<1>3. ASSUME NEW from, NEW to \in Steps, SaveEmailMetas(from, to)
      PROVE  TypeOK'
  BY <1>3 DEF SaveEmailMetas, Goto, server, local, summary
<1>4. CASE NextDay
  BY <1>4 DEF NextDay, DueOn, Digests, server, store, local
<1>5. CASE FetchMeta
  BY <1>5 DEF FetchMeta, Listed, server, store, summary
<1>6. CASE SaveEmail
  <2>1. files' \subseteq Messages \X {Month(d) : d \in Days}
    <3>1. ASSUME NEW m \in work, files' = files \cup {Path(m, received[m])}
          PROVE  files' \subseteq Messages \X {Month(d) : d \in Days}
      <4>1. received[m] \in Days
        BY <1>6 DEF SaveEmail, DateInv
      <4> QED
        BY <3>1, <4>1 DEF Path
    <3> QED
      BY <1>6, <3>1 DEF SaveEmail
  <2> QED
    BY <1>6, <2>1 DEF SaveEmail, server, summary
<1>7. CASE SaveReports
  BY <1>7 DEF SaveReports, Goto, server, local, summary
<1>8. CASE MarkSeen
  BY <1>8 DEF MarkSeen, Return, Undated, store, summary
<1>9. CASE LoadEmails
  <2>1. ASSUME NEW m \in Messages, HasFile(m)
        PROVE  PathDate(m) \in Days
    BY <2>1, FileOfMonth, MonthOfFirstDay
  <2>2. metas' \in [Messages -> Days \cup {NoDay}]
    BY <1>9, <2>1 DEF LoadEmails, HasFile
  <2> QED
    BY <1>9, <2>2 DEF LoadEmails, server, store, summary
<1>10. CASE ReprocessReports
  BY <1>10 DEF ReprocessReports, Return, Undated, server, summary
<1>11. CASE DeleteReportsBefore
  BY <1>11 DEF DeleteReportsBefore, Goto, server, local, summary
<1>12. CASE DeleteEmailsBefore
  BY <1>12 DEF DeleteEmailsBefore, Expired, server, store, summary
<1>13. CASE RemoveFile
  BY <1>13 DEF RemoveFile, server, summary
<1>14. CASE SaveIndex
  BY <1>14 DEF SaveIndex, Goto, Return, Undated, server, local, summary
<1>15. CASE MarkDeleted
  BY <1>15 DEF MarkDeleted, Return, Undated, store, summary
<1>16. CASE Expunge
  BY <1>16 DEF Expunge, Return, Undated, store, summary
<1>17. CASE GenerateSummary
  BY <1>17 DEF GenerateSummary, DueOn, Digests, server, store, local
<1>18. CASE Fail
  BY <1>18 DEF Fail, Return, Undated, server, store, summary
<1>19. CASE UNCHANGED vars
  BY <1>19 DEF vars, server, store, local, summary
<1> QED
  BY <1>1, <1>2, <1>3, <1>4, <1>5, <1>6, <1>7, <1>8, <1>9, <1>10, <1>11, <1>12,
     <1>13, <1>14, <1>15, <1>16, <1>17, <1>18, <1>19
     DEF Next, Step, FetchStep, ReprocessStep, GcStep

-----------------------------------------------------------------------------
(* Dates.                                                                  *)

\* Every operation keeps what is known of dates: the file, the index and the
\* received date of a message agree.
LEMMA NextKeepsDateInv ==
  ASSUME TypeOK, DateInv, [Next]_vars
  PROVE  DateInv'
<1> USE Config DEF TypeOK, DateInv, Days, NoDay
<1>0. TypeOK'
  BY NextKeepsType
<1>1. ASSUME NEW m \in Messages, Arrive(m)
      PROVE  DateInv'
  BY <1>0, <1>1 DEF Arrive, store, local, summary
<1>2. ASSUME NEW step \in {"list", "loadEmails", "deleteReports"}, Start(step)
      PROVE  DateInv'
  BY <1>0, <1>2 DEF Start, server, store, local, summary
<1>3. ASSUME NEW from, NEW to, SaveEmailMetas(from, to),
             <<from, to>> \in {<<"fetchMetas", "fetchReports">>,
                               <<"reprocessMetas", "reprocessReports">>}
      PROVE  DateInv'
  BY <1>0, <1>3 DEF SaveEmailMetas, Goto, server, local, summary
<1>4. CASE NextDay
  BY <1>0, <1>4 DEF NextDay, DueOn, server, store, local
<1>5. CASE FetchMeta
  BY <1>0, <1>5 DEF FetchMeta, Listed, server, store, summary
<1>6. CASE SaveEmail
  <2>1. ASSUME NEW m \in work, files' = files \cup {Path(m, received[m])}
        PROVE  \A f \in files' : received[f[1]] # NoDay /\ f[2] = Month(received[f[1]])
    <3>1. received[m] # NoDay
      BY <1>6 DEF SaveEmail
    <3> QED
      BY <2>1, <3>1 DEF Path
  <2> QED
    BY <1>6, <2>1 DEF SaveEmail, server
<1>7. CASE SaveReports
  BY <1>0, <1>7 DEF SaveReports, Goto, server, local
<1>8. CASE MarkSeen
  BY <1>0, <1>8 DEF MarkSeen, Return, Undated, store
<1>9. CASE LoadEmails
  <2>1. ASSUME NEW m \in Messages, HasFile(m)
        PROVE  received[m] \in Days /\ Month(PathDate(m)) = Month(received[m])
    BY <2>1, FileOfMonth, MonthOfFirstDay
  <2>2. ASSUME NEW m \in collected'
        PROVE  received[m] # NoDay
    BY <1>9, <2>1 DEF LoadEmails, HasFile
  <2>3. ASSUME NEW m \in Messages, metas'[m] # NoDay
        PROVE  received[m] # NoDay /\ Month(metas'[m]) = Month(received[m])
    BY <1>9, <2>1, <2>3 DEF LoadEmails, HasFile
  <2> QED
    BY <1>9, <2>2, <2>3 DEF LoadEmails, server, store
<1>10. CASE ReprocessReports
  BY <1>0, <1>10 DEF ReprocessReports, Return, Undated, server
<1>11. CASE DeleteReportsBefore
  BY <1>0, <1>11 DEF DeleteReportsBefore, Goto, server, local
<1>12. CASE DeleteEmailsBefore
  BY <1>0, <1>12 DEF DeleteEmailsBefore, Expired, server, store
<1>13. CASE RemoveFile
  BY <1>0, <1>13 DEF RemoveFile, server
<1>14. CASE SaveIndex
  BY <1>0, <1>14 DEF SaveIndex, Goto, Return, Undated, server, local
<1>15. CASE MarkDeleted
  BY <1>0, <1>15 DEF MarkDeleted, Return, Undated, store
<1>16. CASE Expunge
  BY <1>0, <1>16 DEF Expunge, Return, Undated, store
<1>17. CASE GenerateSummary
  BY <1>0, <1>17 DEF GenerateSummary, server, store, local
<1>18. CASE Fail
  BY <1>0, <1>18 DEF Fail, Return, Undated, server, store
<1>19. CASE UNCHANGED vars
  BY <1>19 DEF vars, server, store, local, summary
<1> QED
  BY <1>1, <1>2, <1>3, <1>4, <1>5, <1>6, <1>7, <1>8, <1>9, <1>10, <1>11, <1>12,
     <1>13, <1>14, <1>15, <1>16, <1>17, <1>18, <1>19
     DEF Next, Step, FetchStep, ReprocessStep, GcStep

-----------------------------------------------------------------------------
(* gc.                                                                     *)

\* Where gc looks for the file of an indexed message it finds the only one.
LEMMA FileOfEntry ==
  ASSUME TypeOK, DateInv, NEW m \in Messages, index[m] # NoDay,
         NEW f \in files, f[1] = m
  PROVE  f = Path(m, index[m])
  BY DEF TypeOK, DateInv, Path

\* Every operation keeps what is known of a gc that is under way.
LEMMA NextKeepsGcInv ==
  ASSUME TypeOK, DateInv, GcInv, [Next]_vars
  PROVE  GcInv'
<1> USE Config DEF TypeOK, GcInv, EndDay, Before, HasFile, FileMonths, Days, NoDay
<1>0. TypeOK'
  BY NextKeepsType
<1>1. ASSUME NEW m \in Messages, Arrive(m)
      PROVE  GcInv'
  BY <1>0, <1>1 DEF Arrive, DateInv, store, local, summary, Expired
<1>2. ASSUME NEW step \in {"list", "loadEmails", "deleteReports"}, Start(step)
      PROVE  GcInv'
  BY <1>0, <1>2 DEF Start, server, store, local, summary
<1>3. ASSUME NEW from, NEW to, SaveEmailMetas(from, to),
             <<from, to>> \in {<<"fetchMetas", "fetchReports">>,
                               <<"reprocessMetas", "reprocessReports">>}
      PROVE  GcInv'
  BY <1>0, <1>3 DEF SaveEmailMetas, Goto, server, local, summary
<1>4. CASE NextDay
  BY <1>0, <1>4 DEF NextDay, server, store, local, Expired
<1>5. CASE FetchMeta
  BY <1>0, <1>5 DEF FetchMeta, Listed, server, store, summary
<1>6. CASE SaveEmail
  BY <1>0, <1>6 DEF SaveEmail, server
<1>7. CASE SaveReports
  BY <1>0, <1>7 DEF SaveReports, Goto, server, local
<1>8. CASE MarkSeen
  BY <1>0, <1>8 DEF MarkSeen, Return, Undated, store
<1>9. CASE LoadEmails
  BY <1>0, <1>9 DEF LoadEmails, server, store
<1>10. CASE ReprocessReports
  BY <1>0, <1>10 DEF ReprocessReports, Return, Undated, server
<1>11. CASE DeleteReportsBefore
  BY <1>0, <1>11 DEF DeleteReportsBefore, Goto, server, local
<1>12. CASE DeleteEmailsBefore
  BY <1>0, <1>12 DEF DeleteEmailsBefore, Expired, server, store
<1>13. CASE RemoveFile
  <2>1. CASE work = {} /\ pc' = "saveIndex" /\ UNCHANGED <<files, work, gone>>
    BY <1>13, <2>1 DEF RemoveFile, server
  <2>2. ASSUME NEW m \in work, work' = work \ {m}, pc' = pc, UNCHANGED <<files, gone>>
        PROVE  GcInv'
    BY <1>13, <2>2 DEF RemoveFile, Expired, server
  <2>3. ASSUME NEW m \in work, work' = work \ {m}, pc' = pc,
               files' = files \ {Path(m, index[m])}, gone' = gone \cup {m}
        PROVE  GcInv'
    <3>1. index[m] # NoDay
      BY <1>13 DEF RemoveFile, Expired
    <3>2. \A f \in files' : f[1] # m
      BY <2>3, <3>1, FileOfEntry
    <3>3. \A n \in gone' : ~HasFile(n)'
      BY <1>13, <2>3, <3>2 DEF RemoveFile
    <3> QED
      BY <1>13, <2>3, <3>3 DEF RemoveFile, Expired, server
  <2> QED
    BY <1>13, <2>1, <2>2, <2>3 DEF RemoveFile
<1>14. CASE SaveIndex
  BY <1>0, <1>14 DEF SaveIndex, Goto, Return, Undated, server, local
<1>15. CASE MarkDeleted
  BY <1>0, <1>15 DEF MarkDeleted, DateInv, Return, Undated, store
<1>16. CASE Expunge
  BY <1>0, <1>16 DEF Expunge, Return, Undated, store
<1>17. CASE GenerateSummary
  BY <1>0, <1>17 DEF GenerateSummary, server, store, local, Expired
<1>18. CASE Fail
  BY <1>0, <1>18 DEF Fail, Return, Undated, server, store
<1>19. CASE UNCHANGED vars
  BY <1>19 DEF vars, server, store, local, summary, Expired
<1> QED
  BY <1>1, <1>2, <1>3, <1>4, <1>5, <1>6, <1>7, <1>8, <1>9, <1>10, <1>11, <1>12,
     <1>13, <1>14, <1>15, <1>16, <1>17, <1>18, <1>19
     DEF Next, Step, FetchStep, ReprocessStep, GcStep

-----------------------------------------------------------------------------
(* Files and reports.                                                      *)

\* Every operation keeps what is known of files and reports.
LEMMA NextKeepsFileInv ==
  ASSUME TypeOK, DateInv, GcInv, FileInv, [Next]_vars
  PROVE  FileInv'
<1> USE Config DEF TypeOK, FileInv, ReportsRebuildable, HasFile, FileMonths,
        Days, NoDay
<1>0. TypeOK'
  BY NextKeepsType
<1>1. ASSUME NEW m \in Messages, Arrive(m)
      PROVE  FileInv'
  BY <1>0, <1>1 DEF Arrive, store, local, summary
<1>2. ASSUME NEW step \in {"list", "loadEmails", "deleteReports"}, Start(step)
      PROVE  FileInv'
  BY <1>0, <1>2 DEF Start, server, store, local, summary
<1>3. ASSUME NEW from, NEW to, SaveEmailMetas(from, to),
             <<from, to>> \in {<<"fetchMetas", "fetchReports">>,
                               <<"reprocessMetas", "reprocessReports">>}
      PROVE  FileInv'
  BY <1>0, <1>3 DEF SaveEmailMetas, Goto, server, local, summary
<1>4. CASE NextDay
  BY <1>0, <1>4 DEF NextDay, DueOn, server, store, local
<1>5. CASE FetchMeta
  <2>1. \A m \in collected' \ work' : Path(m, received[m]) \in files
    BY <1>5 DEF FetchMeta
  <2>2. ASSUME NEW m \in collected' \ work'
        PROVE  HasFile(m)
    <3>1. \E f \in files : f[1] = m
      BY <2>1, <2>2 DEF Path
    <3> QED
      BY <3>1
  <2> QED
    BY <1>5, <2>2 DEF FetchMeta, server, store
<1>6. CASE SaveEmail
  <2>1. \A m \in Messages : HasFile(m) => HasFile(m)'
    BY <1>6 DEF SaveEmail
  <2>2. ASSUME NEW m \in work, files' = files \cup {Path(m, received[m])}
        PROVE  HasFile(m)'
    <3>1. Path(m, received[m]) \in files' /\ Path(m, received[m])[1] = m
      BY <2>2 DEF Path
    <3> QED
      BY <3>1
  <2>3. /\ pc' \in {"saveEmail", "fetchMetas"}
        /\ UNCHANGED <<index, received, reports, guessed, collected>>
    BY <1>6 DEF SaveEmail, server
  <2>4. \A m \in collected' \ work' : HasFile(m)'
    BY <1>6, <2>1, <2>2, <2>3 DEF SaveEmail
  <2>5. pc' = "fetchMetas" => work' = {}
    BY <1>6 DEF SaveEmail
  <2> HIDE DEF HasFile
  <2> QED
    BY <2>1, <2>3, <2>4, <2>5
<1>7. CASE SaveReports
  BY <1>0, <1>7 DEF SaveReports, Goto, server, local
<1>8. CASE MarkSeen
  BY <1>0, <1>8 DEF MarkSeen, Return, Undated, store
<1>9. CASE LoadEmails
  BY <1>0, <1>9 DEF LoadEmails, server, store
<1>10. CASE ReprocessReports
  BY <1>0, <1>10 DEF ReprocessReports, Return, Undated, server
<1>11. CASE DeleteReportsBefore
  BY <1>0, <1>11 DEF DeleteReportsBefore, Goto, server, local
<1>12. CASE DeleteEmailsBefore
  BY <1>0, <1>12 DEF DeleteEmailsBefore, Expired, server, store
<1>13. CASE RemoveFile
  <2>1. /\ pc' \in {"removeFile", "saveIndex"}
        /\ UNCHANGED <<index, received, reports, guessed>>
    BY <1>13 DEF RemoveFile, server
  <2>2. ASSUME MaxEmailAgeDays >= RetentionDays,
               NEW m \in work, files' = files \ {Path(m, index[m])},
               NEW n \in reports \ guessed
        PROVE  HasFile(n)'
    <3>1. m \in Messages /\ index[m] \in Days /\ index[m] + MaxEmailAgeDays < now
      BY <1>13 DEF RemoveFile, GcInv, Expired, Before
    <3>2. received[n] \in Days /\ ~(received[n] - 1 + RetentionDays < now)
      BY <1>13 DEF RemoveFile, GcInv, Before, EndDay, DateInv
    <3>3. n # m
      <4>1. SUFFICES ASSUME n = m PROVE FALSE
        OBVIOUS
      <4>2. index[n] = received[n]
        BY <3>1, <4>1
      <4> QED
        BY <2>2, <3>1, <3>2, <4>1, <4>2
    <3>4. PICK f \in files : f[1] = n
      BY <2>2
    <3>5. f # Path(m, index[m])
      BY <3>3, <3>4 DEF Path
    <3> QED
      BY <2>2, <3>4, <3>5
  <2>3. UNCHANGED files \/ \E m \in work : files' = files \ {Path(m, index[m])}
    BY <1>13 DEF RemoveFile
  <2> QED
    BY <2>1, <2>2, <2>3
<1>14. CASE SaveIndex
  BY <1>0, <1>14 DEF SaveIndex, Goto, Return, Undated, server, local
<1>15. CASE MarkDeleted
  BY <1>0, <1>15 DEF MarkDeleted, Return, Undated, store
<1>16. CASE Expunge
  BY <1>0, <1>16 DEF Expunge, Return, Undated, store
<1>17. CASE GenerateSummary
  BY <1>0, <1>17 DEF GenerateSummary, server, store, local
<1>18. CASE Fail
  BY <1>0, <1>18 DEF Fail, Return, Undated, server, store
<1>19. CASE UNCHANGED vars
  BY <1>19 DEF vars, server, store, local, summary
<1> QED
  BY <1>1, <1>2, <1>3, <1>4, <1>5, <1>6, <1>7, <1>8, <1>9, <1>10, <1>11, <1>12,
     <1>13, <1>14, <1>15, <1>16, <1>17, <1>18, <1>19
     DEF Next, Step, FetchStep, ReprocessStep, GcStep

-----------------------------------------------------------------------------
(* Summaries.                                                              *)

\* Every operation keeps what is known of a summary that is under way.
LEMMA NextKeepsCountInv ==
  ASSUME TypeOK, DateInv, CountInv, [Next]_vars
  PROVE  CountInv'
<1> USE Config DEF TypeOK, CountInv, EndDay, Days, NoDay
<1>0. TypeOK'
  BY NextKeepsType
<1>1. ASSUME NEW m \in Messages, Arrive(m)
      PROVE  CountInv'
  BY <1>0, <1>1 DEF Arrive, store, local, summary
<1>2. ASSUME NEW step \in {"list", "loadEmails", "deleteReports"}, Start(step)
      PROVE  CountInv'
  BY <1>0, <1>2 DEF Start, server, store, local, summary
<1>3. ASSUME NEW from, NEW to, SaveEmailMetas(from, to),
             <<from, to>> \in {<<"fetchMetas", "fetchReports">>,
                               <<"reprocessMetas", "reprocessReports">>}
      PROVE  CountInv'
  BY <1>0, <1>3 DEF SaveEmailMetas, Goto, server, local, summary
<1>4. CASE NextDay
  <2>1. /\ today' = today + 1 /\ digest # "late"
        /\ UNCHANGED <<counted, received>>
    BY <1>4 DEF NextDay, server
  <2>2. /\ digest' = "due" => digest = "none" /\ today' % WindowDays = 0
        /\ digest' = "late" => digest = "due"
    BY <1>4 DEF NextDay, DueOn, Digests
  <2>3. ASSUME NEW m \in counted
        PROVE  \E b \in 1..today' : /\ b % WindowDays = 0 /\ received[m] - 1 < b
                                    /\ digest' = "due" => b < today'
                                    /\ digest' = "late" => b < today' - 1
    <3>1. PICK b \in 1..today : /\ b % WindowDays = 0 /\ received[m] - 1 < b
                                /\ digest = "due" => b < today
      OBVIOUS
    <3>2. b \in 1..today' /\ b < today' /\ (digest' = "late" => b < today' - 1)
      BY <2>1, <2>2, <3>1
    <3> QED
      BY <3>1, <3>2
  <2>4. digest' = "late" => today' > 1 /\ (today' - 1) % WindowDays = 0
    BY <2>1, <2>2
  <2> QED
    BY <2>1, <2>2, <2>3, <2>4
<1>5. CASE FetchMeta
  BY <1>0, <1>5 DEF FetchMeta, Listed, server, store, summary
<1>6. CASE SaveEmail
  BY <1>0, <1>6 DEF SaveEmail, server, summary
<1>7. CASE SaveReports
  BY <1>0, <1>7 DEF SaveReports, Goto, server, local, summary
<1>8. CASE MarkSeen
  BY <1>0, <1>8 DEF MarkSeen, Return, Undated, store, summary
<1>9. CASE LoadEmails
  BY <1>0, <1>9 DEF LoadEmails, server, store, summary
<1>10. CASE ReprocessReports
  BY <1>0, <1>10 DEF ReprocessReports, Return, Undated, server, summary
<1>11. CASE DeleteReportsBefore
  BY <1>0, <1>11 DEF DeleteReportsBefore, Goto, server, local, summary
<1>12. CASE DeleteEmailsBefore
  BY <1>0, <1>12 DEF DeleteEmailsBefore, Expired, server, store, summary
<1>13. CASE RemoveFile
  BY <1>0, <1>13 DEF RemoveFile, server, summary
<1>14. CASE SaveIndex
  BY <1>0, <1>14 DEF SaveIndex, Goto, Return, Undated, server, local, summary
<1>15. CASE MarkDeleted
  BY <1>0, <1>15 DEF MarkDeleted, Return, Undated, store, summary
<1>16. CASE Expunge
  BY <1>0, <1>16 DEF Expunge, Return, Undated, store, summary
<1>17. CASE GenerateSummary
  <2>1. /\ digest \in {"due", "late"} /\ digest' \in {"none", "due"}
        /\ digest' = "due" => digest = "late" /\ today % WindowDays = 0
        /\ UNCHANGED <<today, received>>
    BY <1>17 DEF GenerateSummary, DueOn, Digests, server
  <2>2. /\ BaseDay \in 1..today /\ BaseDay % WindowDays = 0
        /\ digest = "late" => BaseDay < today
    BY <2>1 DEF BaseDay
  <2>3. ASSUME NEW m \in counted'
        PROVE  /\ received[m] # NoDay
               /\ \E b \in 1..today : /\ b % WindowDays = 0 /\ received[m] - 1 < b
                                      /\ digest' = "due" => b < today
    <3>1. CASE m \in counted
      <4>1. PICK b \in 1..today : /\ b % WindowDays = 0 /\ received[m] - 1 < b
                                  /\ digest = "late" => b < today - 1
        BY <3>1
      <4> QED
        BY <2>1, <3>1, <4>1
    <3>2. CASE m \notin counted
      <4>1. m \in reports /\ received[m] - 1 < BaseDay
        BY <1>17, <2>3, <3>2 DEF GenerateSummary, InSummaryPeriod
      <4> QED
        BY <2>1, <2>2, <4>1 DEF DateInv
    <3> QED
      BY <3>1, <3>2
  <2> QED
    BY <2>1, <2>3
<1>18. CASE Fail
  BY <1>0, <1>18 DEF Fail, Return, Undated, server, store, summary
<1>19. CASE UNCHANGED vars
  BY <1>19 DEF vars, server, store, local, summary
<1> QED
  BY <1>1, <1>2, <1>3, <1>4, <1>5, <1>6, <1>7, <1>8, <1>9, <1>10, <1>11, <1>12,
     <1>13, <1>14, <1>15, <1>16, <1>17, <1>18, <1>19
     DEF Next, Step, FetchStep, ReprocessStep, GcStep

-----------------------------------------------------------------------------
(* The theorems.                                                           *)

\* The types and the invariant hold in every state.
LEMMA InvHolds == Spec => [](TypeOK /\ StoreInv)
<1>1. TypeOK /\ StoreInv /\ [Next]_vars => (TypeOK /\ StoreInv)'
  BY NextKeepsType, NextKeepsDateInv, NextKeepsGcInv, NextKeepsFileInv,
     NextKeepsCountInv DEF StoreInv
<1> QED
  BY <1>1, InitEstablishesInv, PTL DEF Spec

\* Every variable keeps its type; that the date reprocess reads from a path is
\* a day of the calendar is part of it.
THEOREM TypeCorrect == Spec => []TypeOK
  BY InvHolds, PTL

\* A saved report can be rebuilt from its file, unless its date was guessed.
THEOREM ReportsStayRebuildable == Spec => []ReportsRebuildable
<1>1. StoreInv => ReportsRebuildable
  BY DEF StoreInv, FileInv
<1> QED
  BY <1>1, InvHolds, PTL

\* Which steps drop entries, remove files, reports or messages, or run a
\* summary.
LEMMA WhoDoesWhat ==
  ASSUME TypeOK, [Next]_vars
  PROVE  /\ \/ SaveIndex
            \/ \A m \in Messages : index[m] # NoDay => index'[m] # NoDay
         /\ RemoveFile \/ files \subseteq files'
         /\ DeleteReportsBefore \/ reports \subseteq reports'
         /\ Expunge \/ mailbox \subseteq mailbox'
         /\ GenerateSummary \/ today' # today \/ digest' = digest
<1> USE DEF TypeOK, Days
<1>1. ASSUME NEW m \in Messages, Arrive(m)
      PROVE  /\ UNCHANGED <<index, files, reports, digest>>
             /\ mailbox \subseteq mailbox'
  BY <1>1 DEF Arrive, store, summary
<1>2. ASSUME NEW step, Start(step)
      PROVE  UNCHANGED <<index, files, reports, mailbox, digest>>
  BY <1>2 DEF Start, server, store, summary
<1>3. ASSUME NEW from, NEW to, SaveEmailMetas(from, to)
      PROVE  /\ \A m \in Messages : index[m] # NoDay => index'[m] # NoDay
             /\ UNCHANGED <<files, reports, mailbox, digest>>
  BY <1>3 DEF SaveEmailMetas, server, summary
<1>4. CASE NextDay
  BY <1>4 DEF NextDay, server, store
<1>5. CASE FetchMeta \/ LoadEmails \/ DeleteEmailsBefore \/ Fail
  BY <1>5 DEF FetchMeta, LoadEmails, DeleteEmailsBefore, Fail, server, store,
     summary
<1>6. CASE SaveEmail
  BY <1>6 DEF SaveEmail, server, summary
<1>7. CASE SaveReports \/ ReprocessReports
  BY <1>7 DEF SaveReports, ReprocessReports, server, summary
<1>8. CASE MarkSeen \/ MarkDeleted
  BY <1>8 DEF MarkSeen, MarkDeleted, store, summary
<1>9. CASE DeleteReportsBefore
  BY <1>9 DEF DeleteReportsBefore, server, summary
<1>10. CASE RemoveFile
  BY <1>10 DEF RemoveFile, server, summary
<1>11. CASE SaveIndex
  BY <1>11 DEF SaveIndex, server, summary
<1>12. CASE Expunge
  BY <1>12 DEF Expunge, store, summary
<1>13. CASE GenerateSummary
  BY <1>13 DEF GenerateSummary, server, store
<1>14. CASE UNCHANGED vars
  BY <1>14 DEF vars, server, store, summary
<1> QED
  BY <1>1, <1>2, <1>3, <1>4, <1>5, <1>6, <1>7, <1>8, <1>9, <1>10, <1>11, <1>12,
     <1>13, <1>14
     DEF Next, Step, FetchStep, ReprocessStep, GcStep

\* gc never drops the entry of a file that is still there.
THEOREM EntriesOutliveFiles == Spec => EntryGoesWithFile
<1>1. ASSUME TypeOK, StoreInv, [Next]_vars, NEW m \in Messages,
             index[m] # NoDay, index'[m] = NoDay
      PROVE  ~HasFile(m)'
  <2>1. SaveIndex
    BY <1>1, WhoDoesWhat
  <2>2. m \in gone /\ pc = "saveIndex" /\ files' = files
    BY <1>1, <2>1 DEF SaveIndex
  <2> QED
    BY <1>1, <2>2 DEF StoreInv, GcInv, HasFile, FileMonths
<1>2. TypeOK /\ StoreInv /\ [Next]_vars =>
        [\A m \in Messages :
             index[m] # NoDay /\ index'[m] = NoDay => ~HasFile(m)']_vars
  BY <1>1
<1> QED
  BY <1>2, InvHolds, PTL DEF Spec, EntryGoesWithFile

\* gc removes no file more than a month early, whoever dated it.
THEOREM FilesStayLongEnough == Spec => DeletedWithinAMonth
<1>1. ASSUME TypeOK, StoreInv, [Next]_vars, NEW m \in Messages, Removed(m)
      PROVE  received[m] + MaxEmailAgeDays < now + MonthLength - 1
  <2>1. PICK f \in files : f[1] = m /\ f \notin files'
    BY <1>1 DEF Removed, HasFile, FileMonths
  <2>2. RemoveFile
    BY <1>1, <2>1, WhoDoesWhat
  <2>3. PICK n \in work : files' = files \ {Path(n, index[n])}
    BY <2>1, <2>2 DEF RemoveFile
  <2>4. n = m
    BY <2>1, <2>3 DEF Path
  <2>5. index[m] \in Days /\ index[m] + MaxEmailAgeDays < now
    BY <1>1, <2>2, <2>3, <2>4
       DEF RemoveFile, StoreInv, GcInv, Expired, Before, TypeOK
  <2>6. received[m] \in Days /\ Month(index[m]) = Month(received[m])
    BY <1>1, <2>5, Config DEF StoreInv, DateInv, TypeOK, Days, NoDay
  <2>7. received[m] < index[m] + MonthLength
    BY <2>5, <2>6, SameMonth
  <2> QED
    BY <1>1, <2>5, <2>6, <2>7, Config DEF TypeOK, Days
<1>2. TypeOK /\ StoreInv /\ [Next]_vars =>
        [\A m \in Messages : Removed(m) =>
             received[m] + MaxEmailAgeDays < now + MonthLength - 1]_vars
  BY <1>1
<1> QED
  BY <1>2, InvHolds, PTL DEF Spec, DeletedWithinAMonth

\* No summary counts a report that an earlier one has counted.
THEOREM NoReportCountedTwice == Spec => CountedOnce
<1>1. ASSUME TypeOK, StoreInv, [Next]_vars, NEW m \in reports,
             today' = today, digest' # digest, InSummaryPeriod(m), m \in counted
      PROVE  FALSE
  <2> USE Config DEF TypeOK, Days, EndDay, NoDay
  <2>1. GenerateSummary
    BY <1>1, WhoDoesWhat
  <2>2. digest \in {"due", "late"}
    BY <1>1, <2>1 DEF GenerateSummary, Digests
  <2>3. BaseDay \in Nat /\ BaseDay % WindowDays = 0
    BY <1>1, <2>2 DEF StoreInv, CountInv, BaseDay
  <2>4. PICK b \in 1..today : /\ b % WindowDays = 0 /\ EndDay(m) < b
                              /\ digest = "due" => b < today
                              /\ digest = "late" => b < today - 1
    BY <1>1 DEF StoreInv, CountInv
  <2>5. b \in Nat /\ b < BaseDay
    BY <1>1, <2>2, <2>4 DEF BaseDay
  <2>6. b + WindowDays <= BaseDay
    BY <2>3, <2>4, <2>5, WindowsApart
  <2>7. received[m] \in Days /\ received[m] - 1 + WindowDays >= BaseDay
    BY <1>1 DEF StoreInv, CountInv, InSummaryPeriod
  <2> QED
    BY <1>1, <2>3, <2>4, <2>6, <2>7
<1>2. TypeOK /\ StoreInv /\ [Next]_vars =>
        [\A m \in reports :
             today' = today /\ digest' # digest /\ InSummaryPeriod(m)
                 => m \notin counted]_vars
  BY <1>1
<1> QED
  BY <1>2, InvHolds, PTL DEF Spec, CountedOnce

\* gc removes no report that a summary is still going to count, if reports are
\* kept long enough for it, and no message that a fetch is still going to list.
THEOREM NothingNeededIsDeleted == Spec => DeletesNothingNeeded
<1> USE Config DEF TypeOK, Days, EndDay, NoDay, Before
<1>1. ASSUME TypeOK, StoreInv, [Next]_vars, NEW m \in reports \ reports',
             RetentionDays >= WindowDays + (today - BaseDay)
      PROVE  EndDay(m) + WindowDays < BaseDay
  <2>1. DeleteReportsBefore
    BY <1>1, WhoDoesWhat
  <2>2. received[m] \in Days /\ received[m] - 1 + RetentionDays < now
    BY <1>1, <2>1 DEF DeleteReportsBefore, StoreInv, DateInv
  <2>3. now <= today /\ BaseDay >= today - 1 /\ BaseDay \in Nat
    BY <1>1 DEF StoreInv, DateInv, BaseDay
  <2> QED
    BY <1>1, <2>2, <2>3
<1>2. ASSUME TypeOK, StoreInv, [Next]_vars, NEW m \in mailbox \ mailbox'
      PROVE  received[m] + FetchDays < today
  <2>1. Expunge
    BY <1>2, WhoDoesWhat
  <2>2. received[m] \in Days /\ received[m] + ImapRetentionDays < now
    BY <1>2, <2>1 DEF Expunge, StoreInv, GcInv
  <2>3. now <= today /\ ImapRetentionDays >= FetchDays
    BY <1>2, <2>1 DEF Expunge, StoreInv, DateInv, GcInv
  <2> QED
    BY <1>2, <2>2, <2>3
<1>3. TypeOK /\ StoreInv /\ [Next]_vars =>
        [/\ RetentionDays >= WindowDays + (today - BaseDay) =>
                \A m \in reports \ reports' : EndDay(m) + WindowDays < BaseDay
         /\ \A m \in mailbox \ mailbox' : received[m] + FetchDays < today]_vars
  BY <1>1, <1>2
<1> QED
  BY <1>3, InvHolds, PTL DEF Spec, DeletesNothingNeeded

=============================================================================
