---------------------------- MODULE ContentProofs ----------------------------
(***************************************************************************)
(* What MailParse makes of a message, and what SlackFormat makes of alerts *)
(* and summaries: for messages, reports and policies of any number.        *)
(***************************************************************************)
EXTENDS MailParse, SlackFormat, ListProofs

-----------------------------------------------------------------------------
(* Messages.                                                               *)

\* A part is of one of five kinds, and has the fields of its kind.
LEMMA PartTypes ==
    ASSUME NEW part \in Parts
    PROVE  /\ part.kind = "multipart" => part.depth \in Nat
           /\ part.kind \in Decoded => part.size \in Nat
           /\ part.kind = "attachment" => part.content \in Contents
           /\ DecodedSize(part) \in Nat
BY DEF Parts, Decoded, DecodedSize

\* The states of the walk over the parts of a message.
Walks == [ok : BOOLEAN, total : Nat, found : Seq(Contents)]
WalkStart == [ok |-> TRUE, total |-> 0, found |-> <<>>]

\* One part takes a state of the walk to a state of the walk.
LEMMA ProcessPartType ==
    ASSUME NEW walk \in Walks, NEW part \in Parts
    PROVE  ProcessPart(walk, part) \in Walks
<1> DEFINE total == walk.total + DecodedSize(part)
           found == IF part.kind = "attachment"
                    THEN Append(walk.found, part.content) ELSE walk.found
<1>1. walk.ok \in BOOLEAN /\ walk.total \in Nat /\ walk.found \in Seq(Contents)
  BY DEF Walks
<1>2. total \in Nat
  BY <1>1, PartTypes
<1>3. found \in Seq(Contents)
  BY <1>1, PartTypes
<1>4. /\ ProcessPart(walk, part).total = total
      /\ ProcessPart(walk, part).found = found
      /\ ProcessPart(walk, part).ok \in BOOLEAN
      /\ ProcessPart(walk, part) = [ok    |-> ProcessPart(walk, part).ok,
                                    total |-> ProcessPart(walk, part).total,
                                    found |-> ProcessPart(walk, part).found]
  BY DEF ProcessPart
<1> HIDE DEF total, found
<1> QED
  BY <1>2, <1>3, <1>4 DEF Walks

\* The walk, state by state.
WalkOf(w, parts) ==
    /\ w \in [0..Len(parts) -> Walks]
    /\ w[0] = WalkStart
    /\ \A i \in 1..Len(parts) : w[i] = ProcessPart(w[i - 1], parts[i])

\* ExtractAttachments returns what the walk over the parts ends with, and no
\* attachment at all if a part is refused.
LEMMA ExtractWalk ==
    ASSUME NEW mail \in Mails
    PROVE  \E w : /\ WalkOf(w, mail.parts)
                  /\ ExtractAttachments(mail) =
                         [ok    |-> w[Len(mail.parts)].ok,
                          found |-> IF w[Len(mail.parts)].ok
                                    THEN w[Len(mail.parts)].found ELSE <<>>]
<1> DEFINE parts == mail.parts
           n == Len(parts)
           P(f) == f = [i \in 0..n |-> IF i = 0 THEN WalkStart
                                       ELSE ProcessPart(f[i - 1], parts[i])]
           walk == CHOOSE f : P(f)
           step == [i \in 1..n |-> [v \in Walks |-> ProcessPart(v, parts[i])]]
<1>1. parts \in Seq(Parts)
  BY DEF Mails
<1>2. n \in Nat /\ \A i \in 1..n : parts[i] \in Parts
  BY <1>1
<1>3. ExtractAttachments(mail) = [ok    |-> walk[n].ok,
                                  found |-> IF walk[n].ok THEN walk[n].found ELSE <<>>]
  BY DEF ExtractAttachments, WalkStart
<1> HIDE DEF n, parts
<1>4. WalkStart \in Walks
  BY DEF WalkStart, Walks
<1>5. \A i \in 1..n, v \in Walks : step[i][v] \in Walks
  BY <1>2, ProcessPartType
<1>6. PICK g \in [0..n -> Walks] : Iterates(g, n, WalkStart, step)
  <2> HIDE DEF step
  <2> QED
    BY <1>2, <1>4, <1>5, Recursion
<1>7. ASSUME NEW i \in 1..n
      PROVE  g[i] = ProcessPart(g[i - 1], parts[i])
  <2>1. i - 1 \in 0..n
    BY <1>2
  <2>2. g[i - 1] \in Walks
    BY <2>1
  <2>3. g[i] = step[i][g[i - 1]]
    BY <1>6 DEF Iterates
  <2> QED
    BY <2>2, <2>3
<1>8. P(g)
  BY <1>2, <1>6, <1>7 DEF Iterates
<1>9. P(walk)
  <2> HIDE DEF P
  <2> QED
    BY <1>8, Zenon
<1> HIDE DEF walk
<1>10. walk[0] = WalkStart /\ \A i \in 1..n : walk[i] = ProcessPart(walk[i - 1], parts[i])
  BY <1>2, <1>9
<1>11. \A i \in 0..n : walk[i] \in Walks
  <2>1. ASSUME NEW i \in 1..n, walk[i - 1] \in Walks
        PROVE  walk[i] \in Walks
    BY <1>2, <1>10, <2>1, ProcessPartType
  <2>2. walk[0] \in Walks
    BY <1>4, <1>10
  <2> QED
    BY <1>2, <2>1, <2>2, RecursionType, Zenon
<1>12. walk = [i \in 0..n |-> walk[i]]
  <2>1. DOMAIN walk = 0..n /\ walk = [i \in DOMAIN walk |-> walk[i]]
    BY <1>9
  <2> QED
    BY <2>1
<1>13. walk \in [0..n -> Walks]
  BY <1>11, <1>12
<1>14. WalkOf(walk, parts)
  BY <1>10, <1>13 DEF WalkOf, n
<1> QED
  BY <1>3, <1>14 DEF n, parts

\* What extractParts and processPart look at in a part, the budget left out.
PartGood(part) ==
    /\ part.kind # "malformed"
    /\ part.kind = "multipart" => part.depth <= MaxMultipartDepth

\* One step of the walk.
LEMMA ProcessPartIs ==
    ASSUME NEW walk \in Walks, NEW part \in Parts
    PROVE  /\ ProcessPart(walk, part).total = walk.total + DecodedSize(part)
           /\ ProcessPart(walk, part).found =
                  walk.found \o (IF part.kind = "attachment" THEN <<part.content>> ELSE <<>>)
           /\ ProcessPart(walk, part).ok <=>
                  /\ walk.ok /\ PartGood(part)
                  /\ part.kind \in Decoded => WithinLimit(walk.total + DecodedSize(part), part.size)
<1>1. walk.found \in Seq(Contents)
  BY DEF Walks
<1>2. ProcessPart(walk, part).found =
          walk.found \o (IF part.kind = "attachment" THEN <<part.content>> ELSE <<>>)
  <2>1. CASE part.kind = "attachment"
    <3>1. part.content \in Contents
      BY <2>1, PartTypes
    <3>2. ProcessPart(walk, part).found = Append(walk.found, part.content)
      BY <2>1 DEF ProcessPart
    <3> QED
      BY <1>1, <2>1, <3>1, <3>2
  <2>2. CASE part.kind # "attachment"
    <3>1. ProcessPart(walk, part).found = walk.found
      BY <2>2 DEF ProcessPart
    <3> QED
      BY <1>1, <2>2, <3>1
  <2> QED
    BY <2>1, <2>2
<1>3. ProcessPart(walk, part).total = walk.total + DecodedSize(part)
  BY DEF ProcessPart
<1>4. ProcessPart(walk, part).ok <=>
          /\ walk.ok /\ PartGood(part)
          /\ part.kind \in Decoded => WithinLimit(walk.total + DecodedSize(part), part.size)
  BY Zenon DEF ProcessPart, PartGood
<1> QED
  BY <1>2, <1>3, <1>4

\* The budget is for the sum over the whole message: the walk ends without an
\* error if every part is good and all decoded bytes together are within it.
LEMMA WalkEndsWell ==
    ASSUME NEW parts \in Seq(Parts), NEW w, WalkOf(w, parts)
    PROVE  w[Len(parts)].ok <=>
               /\ \A i \in 1..Len(parts) : PartGood(parts[i])
               /\ MaxMessageBytes > 0 =>
                      Sum(Map(parts, DecodedSize)) <= MaxMessageBytes
<1> DEFINE n == Len(parts)
           sizes == [i \in 1..n |-> DecodedSize(parts[i])]
<1>1. n \in Nat /\ \A i \in 1..n : parts[i] \in Parts
  OBVIOUS
<1>2. sizes = Map(parts, DecodedSize)
  BY DEF Map
<1>3. /\ w \in [0..n -> Walks] /\ w[0] = WalkStart
      /\ \A i \in 1..n : w[i] = ProcessPart(w[i - 1], parts[i])
  BY DEF WalkOf
<1> HIDE DEF n
<1>4. \A i \in 1..n : i - 1 \in 0..n /\ w[i - 1] \in Walks
  BY <1>1, <1>3
<1>5. \A i \in 0..n : w[i].total \in Nat /\ w[i].ok \in BOOLEAN
  BY <1>3 DEF Walks
<1>6. \A i \in 1..n : w[i].total = w[i - 1].total + DecodedSize(parts[i])
  <2> TAKE i \in 1..n
  <2>1. w[i - 1] \in Walks /\ parts[i] \in Parts /\ w[i] = ProcessPart(w[i - 1], parts[i])
    BY <1>1, <1>3, <1>4
  <2>2. ProcessPart(w[i - 1], parts[i]).total = w[i - 1].total + DecodedSize(parts[i])
    BY <2>1, ProcessPartIs, Zenon
  <2> QED
    BY <2>1, <2>2
<1>7. Sum(sizes) = w[n].total
  <2> DEFINE f == [i \in 0..n |-> w[i].total]
  <2>1. sizes \in Seq(Int) /\ Len(sizes) = n
    <3>1. \A i \in 1..n : DecodedSize(parts[i]) \in Int
      BY <1>1, PartTypes
    <3>2. sizes \in Seq(Int) /\ DOMAIN sizes = 1..n
      BY <1>1, <3>1
    <3> HIDE DEF sizes
    <3> QED
      BY <1>1, <3>2
  <2>2. f[0] = 0
    BY <1>1, <1>3 DEF WalkStart
  <2>3. \A i \in 1..n : f[i] = f[i - 1] + sizes[i]
    <3> TAKE i \in 1..n
    <3>1. f[i] = w[i].total /\ f[i - 1] = w[i - 1].total /\ sizes[i] = DecodedSize(parts[i])
      BY <1>1, <1>4
    <3> HIDE DEF f, sizes
    <3> QED
      BY <1>6, <3>1
  <2>4. f[n] = w[n].total
    BY <1>1
  <2> HIDE DEF f, sizes
  <2>5. Sum(sizes) = f[n]
    BY <2>1, <2>2, <2>3, SumIs
  <2> QED
    BY <2>4, <2>5
<1> DEFINE Fine(k) == /\ \A i \in 1..k : PartGood(parts[i])
                      /\ MaxMessageBytes > 0 => w[k].total <= MaxMessageBytes
           T == {k \in Nat : k <= n => (w[k].ok <=> Fine(k))}
<1>8. 0 \in T
  <2>1. w[0].ok = TRUE /\ w[0].total = 0 /\ MaxMessageBytes \in Nat
    BY <1>3, ParseAssumption DEF WalkStart
  <2> QED
    BY <2>1
<1>9. ASSUME NEW k \in Nat, k \in T
      PROVE  k + 1 \in T
  <2> SUFFICES ASSUME k + 1 <= n
               PROVE  w[k + 1].ok <=> Fine(k + 1)
    OBVIOUS
  <2> DEFINE i == k + 1
             part == parts[i]
  <2>1. i \in 1..n /\ k <= n /\ i - 1 = k /\ k \in 0..n /\ i \in 0..n
    BY <1>1
  <2>2. w[k].ok <=> Fine(k)
    BY <1>9, <2>1
  <2>3. part \in Parts /\ DecodedSize(part) \in Nat
    BY <1>1, <2>1, PartTypes
  <2>4. w[i].total = w[k].total + DecodedSize(part) /\ w[k].total \in Nat
    BY <1>5, <1>6, <2>1
  <2>5. w[i].ok <=> /\ w[k].ok /\ PartGood(part)
                    /\ part.kind \in Decoded => WithinLimit(w[i].total, part.size)
    <3>1. w[k] \in Walks /\ w[i] = ProcessPart(w[k], part)
      BY <1>3, <1>4, <2>1
    <3>2. ProcessPart(w[k], part).ok <=>
              /\ w[k].ok /\ PartGood(part)
              /\ part.kind \in Decoded => WithinLimit(w[k].total + DecodedSize(part), part.size)
      BY <2>3, <3>1, ProcessPartIs, Zenon
    <3> HIDE DEF i, part
    <3> QED
      BY <2>4, <3>1, <3>2
  <2>6. (\A j \in 1..i : PartGood(parts[j])) <=> (\A j \in 1..k : PartGood(parts[j])) /\ PartGood(part)
    <3>1. 1..i = (1..k) \cup {i}
      OBVIOUS
    <3> HIDE DEF i
    <3> QED
      BY <3>1
  <2>7. part.kind \notin Decoded => DecodedSize(part) = 0
    BY DEF DecodedSize
  <2>8. MaxMessageBytes \in Nat
    BY ParseAssumption
  <2> HIDE DEF i, part
  <2>9. w[i].ok <=> /\ \A j \in 1..i : PartGood(parts[j])
                    /\ MaxMessageBytes > 0 => w[i].total <= MaxMessageBytes
    <3>1. CASE part.kind \in Decoded
      BY <2>2, <2>3, <2>4, <2>5, <2>6, <2>8, <3>1 DEF WithinLimit
    <3>2. CASE part.kind \notin Decoded
      BY <2>2, <2>3, <2>4, <2>5, <2>6, <2>7, <2>8, <3>2
    <3> QED
      BY <3>1, <3>2
  <2> QED
    BY <2>9 DEF i
<1>10. n \in T /\ n <= n
  <2> HIDE DEF T
  <2>1. Nat \subseteq T
    BY <1>8, <1>9, SetInduction
  <2> QED
    BY <1>1, <2>1
<1>11. w[n].ok <=> Fine(n)
  <2> HIDE DEF Fine
  <2> QED
    BY <1>10
<1> HIDE DEF sizes
<1> QED
  BY <1>2, <1>7, <1>11 DEF n

\* The walk finds the attachments, in their order.
LEMMA WalkFinds ==
    ASSUME NEW parts \in Seq(Parts), NEW w, WalkOf(w, parts)
    PROVE  Listed(w[Len(parts)].found,
                  {i \in 1..Len(parts) : parts[i].kind = "attachment"},
                  [i \in 1..Len(parts) |-> parts[i].content], Before)
<1> DEFINE n == Len(parts)
           A(k) == {i \in 1..k : parts[i].kind = "attachment"}
           val == [i \in 1..n |-> parts[i].content]
<1>1. n \in Nat /\ \A i \in 1..n : parts[i] \in Parts
  OBVIOUS
<1>3. /\ w \in [0..n -> Walks] /\ w[0] = WalkStart
      /\ \A i \in 1..n : w[i] = ProcessPart(w[i - 1], parts[i])
  BY DEF WalkOf
<1> HIDE DEF n
<1>4. \A i \in 1..n : i - 1 \in 0..n /\ w[i - 1] \in Walks
  BY <1>1, <1>3
<1>5. \A i \in 0..n : w[i].found \in Seq(Contents)
  BY <1>3 DEF Walks
<1> DEFINE T == {k \in Nat : k <= n => Listed(w[k].found, A(k), val, Before)}
<1>6. 0 \in T
  <2>1. A(0) = {} /\ w[0].found = <<>>
    BY <1>3 DEF WalkStart
  <2>2. Listed(<<>>, {}, val, Before)
    BY ListedEmpty, Zenon
  <2> HIDE DEF A, val
  <2> QED
    BY <2>1, <2>2
<1>7. ASSUME NEW k \in Nat, k \in T
      PROVE  k + 1 \in T
  <2> SUFFICES ASSUME k + 1 <= n
               PROVE  Listed(w[k + 1].found, A(k + 1), val, Before)
    OBVIOUS
  <2> DEFINE i == k + 1
             B == IF parts[i].kind = "attachment" THEN {i} ELSE {}
             s == w[k].found
             t == IF parts[i].kind = "attachment" THEN <<parts[i].content>> ELSE <<>>
  <2>1. i \in 1..n /\ k <= n /\ i - 1 = k /\ k \in 0..n
    BY <1>1
  <2>2. Listed(s, A(k), val, Before) /\ s \in Seq(Contents)
    BY <1>5, <1>7, <2>1
  <2>3. w[i].found = s \o t
    <3>1. w[k] \in Walks /\ parts[i] \in Parts /\ w[i] = ProcessPart(w[k], parts[i])
      BY <1>1, <1>3, <1>4, <2>1
    <3>2. ProcessPart(w[k], parts[i]).found = s \o t
      BY <3>1, ProcessPartIs, Zenon
    <3> HIDE DEF i
    <3> QED
      BY <3>1, <3>2
  <2>4. A(i) = A(k) \cup B
    <3>1. 1..i = (1..k) \cup {i}
      OBVIOUS
    <3> HIDE DEF i
    <3> QED
      BY <3>1
  <2>5. A(k) \cap B = {} /\ \A p \in A(k), q \in B : <<p, q>> \in Before
    BY DEF Before
  <2>6. t \in Seq(Contents) /\ Listed(t, B, val, Before)
    <3>1. CASE parts[i].kind = "attachment"
      <4>1. t = <<parts[i].content>> /\ B = {i} /\ parts[i].content \in Contents
        BY <1>1, <2>1, <3>1, PartTypes
      <4>2. val[i] = parts[i].content
        BY <2>1
      <4> HIDE DEF val, i
      <4>3. Listed(<<parts[i].content>>, {i}, val, Before)
        BY <4>2, ListedOne, Zenon
      <4> HIDE DEF t, B
      <4> QED
        BY <4>1, <4>3
    <3>2. CASE parts[i].kind # "attachment"
      <4>1. t = <<>> /\ B = {}
        BY <3>2
      <4> HIDE DEF val, t, B
      <4>2. Listed(<<>>, {}, val, Before)
        BY ListedEmpty, Zenon
      <4> QED
        BY <4>1, <4>2
    <3> QED
      BY <3>1, <3>2
  <2> HIDE DEF A, B, s, t, val, i
  <2>7. Listed(s \o t, A(k) \cup B, val, Before)
    BY <2>2, <2>5, <2>6, ListedConcat, Zenon
  <2>8. Listed(w[i].found, A(i), val, Before)
    BY <2>3, <2>4, <2>7
  <2> QED
    BY <2>8 DEF i
<1>8. n \in T /\ n <= n
  <2> HIDE DEF T
  <2>1. Nat \subseteq T
    BY <1>6, <1>7, SetInduction
  <2> QED
    BY <1>1, <2>1
<1>9. Listed(w[n].found, A(n), val, Before)
  <2> HIDE DEF A, val
  <2> QED
    BY <1>8
<1> QED
  BY <1>9 DEF n

\* A conversion of the elements keeps their places.
LEMMA ListedMapped ==
    ASSUME NEW s, NEW t, NEW P, NEW val, NEW val2, NEW R, NEW g, Listed(s, P, val, R),
           Len(t) = Len(s), \A k \in 1..Len(s) : t[k] = g[s[k]],
           \A p \in P : val2[p] = g[val[p]]
    PROVE  Listed(t, P, val2, R)
<1>1. PICK b : Listing(s, b, P, val, R)
  BY DEF Listed
<1>2. /\ b \in [1..Len(s) -> P]
      /\ \A k \in 1..Len(s) : s[k] = val[b[k]]
  BY <1>1 DEF Listing
<1>3. ASSUME NEW k \in 1..Len(s)
      PROVE  t[k] = val2[b[k]]
  <2>1. t[k] = g[val[b[k]]] /\ b[k] \in P
    BY <1>2
  <2> QED
    BY <2>1
<1>4. Listing(t, b, P, val2, R)
  BY <1>1, <1>3 DEF Listing
<1> QED
  BY <1>4, Zenon DEF Listed

\* A message that cannot be read, or that violates a limit, gives one warning
\* and no report; of any other message the genuine reports are taken, in their
\* order, and every other attachment that decodes and claims to be one gives a
\* warning.
THEOREM MailTakenAsAWhole ==
    ASSUME NEW mail \in Mails
    PROVE  IF Acceptable(mail)
           THEN /\ ProcessMail(mail).reports \in Seq(Reports)
                /\ Listed(ProcessMail(mail).reports, Genuine(mail),
                          [i \in DOMAIN mail.parts |-> mail.parts[i].content.report], Before)
                /\ IsFiniteSet(Claimed(mail))
                /\ ProcessMail(mail).warnings = Cardinality(Claimed(mail) \ Genuine(mail))
           ELSE ProcessMail(mail) = [reports |-> <<>>, warnings |-> 1]
<1> DEFINE parts == mail.parts
           n == Len(parts)
           attachments == ExtractAttachments(mail)
           found == attachments.found
           candidates == Subsequence(found, {i \in DOMAIN found : IsReport(found[i])})
           good == Parsed(candidates)
           reports == [i \in DOMAIN good |-> good[i].report]
<1>1. parts \in Seq(Parts) /\ mail.readable \in BOOLEAN
  BY DEF Mails
<1>2. n \in Nat /\ DOMAIN parts = 1..n /\ \A i \in 1..n : parts[i] \in Parts
  BY <1>1
<1>3. PICK w : /\ WalkOf(w, parts)
               /\ attachments = [ok    |-> w[n].ok,
                                 found |-> IF w[n].ok THEN w[n].found ELSE <<>>]
  BY ExtractWalk
<1>4. attachments.ok = w[n].ok /\ (w[n].ok => found = w[n].found)
  BY <1>3
<1>5. w[n].ok <=> /\ \A i \in 1..n : PartGood(parts[i])
                  /\ MaxMessageBytes > 0 => Sum(Map(parts, DecodedSize)) <= MaxMessageBytes
  <2> HIDE DEF parts
  <2> QED
    BY <1>1, <1>3, WalkEndsWell, Zenon
<1>6. Acceptable(mail) <=> mail.readable /\ w[n].ok
  <2>1. Of(mail, {"malformed"}) = {} <=> \A i \in 1..n : parts[i].kind # "malformed"
    BY <1>2 DEF Of
  <2>2. (\A i \in Of(mail, {"multipart"}) : parts[i].depth <= MaxMultipartDepth)
            <=> \A i \in 1..n : parts[i].kind = "multipart"
                                  => parts[i].depth <= MaxMultipartDepth
    BY <1>2 DEF Of
  <2> HIDE DEF n
  <2> QED
    BY <1>5, <2>1, <2>2, Zenon DEF Acceptable, PartGood
<1>7. ProcessMail(mail) = IF ~mail.readable \/ ~w[n].ok
                          THEN [reports |-> <<>>, warnings |-> 1]
                          ELSE [reports  |-> reports,
                                warnings |-> Len(candidates) - Len(good)]
  <2>1. ProcessMail(mail) = IF ~mail.readable \/ ~attachments.ok
                            THEN [reports |-> <<>>, warnings |-> 1]
                            ELSE [reports  |-> reports,
                                  warnings |-> Len(candidates) - Len(good)]
    BY Zenon DEF ProcessMail
  <2> QED
    BY <1>4, <2>1, Zenon
<1>8. CASE ~Acceptable(mail)
  BY <1>1, <1>6, <1>7, <1>8
<1>9. CASE Acceptable(mail)
  <2> DEFINE A == {i \in 1..n : parts[i].kind = "attachment"}
             val == [i \in 1..n |-> parts[i].content]
             G1 == {c \in Contents : IsReport(c)}
             G2 == {c \in Contents : Parses(c)}
             C1 == {p \in A : val[p] \in G1}
             C2 == {p \in C1 : val[p] \in G2}
  <2>1. found \in Seq(Contents) /\ Listed(found, A, val, Before)
    <3>1. Listed(w[n].found, A, val, Before)
      <4> HIDE DEF parts
      <4> QED
        BY <1>1, <1>3, WalkFinds, Zenon
    <3>2. w[n] \in Walks
      BY <1>2, <1>3 DEF WalkOf
    <3>3. w[n].found \in Seq(Contents) /\ found = w[n].found
      BY <1>4, <1>6, <1>9, <3>2 DEF Walks
    <3> HIDE DEF found, A, val
    <3> QED
      BY <3>1, <3>3
  <2>2. \A p \in A : p \in 1..n /\ val[p] = parts[p].content /\ parts[p].content \in Contents
    BY <1>2, PartTypes
  <2>3. C1 = Claimed(mail)
    <3>1. \A c \in Contents : IsReport(c) <=> c.format # "other"
      BY DEF Contents, IsReport
    <3>2. Of(mail, {"attachment"}) = A
      BY <1>2 DEF Of
    <3> HIDE DEF A, val
    <3>3. C1 = {p \in A : parts[p].content.format # "other"}
      BY <2>2, <3>1
    <3> QED
      BY <3>2, <3>3 DEF Claimed
  <2>4. C2 = Genuine(mail)
    <3>1. \A c \in Contents : Parses(c) <=> c.missing = {} /\ c.size <= MaxDecompressed
      BY DEF Contents, Parses
    <3> HIDE DEF A, val
    <3>2. C2 = {p \in C1 : parts[p].content.missing = {}
                             /\ parts[p].content.size <= MaxDecompressed}
      BY <2>2, <3>1
    <3> HIDE DEF C1, C2
    <3> QED
      BY <2>3, <3>2 DEF Genuine
  <2> HIDE DEF A, val
  <2>5. candidates \in Seq(Contents) /\ Listed(candidates, C1, val, Before)
    <3>1. {i \in DOMAIN found : IsReport(found[i])} = {i \in DOMAIN found : found[i] \in G1}
      <4>1. \A i \in DOMAIN found : found[i] \in Contents
        BY <2>1
      <4> HIDE DEF found
      <4> QED
        BY <4>1
    <3> HIDE DEF found, G1
    <3>2. Listed(Subsequence(found, {i \in DOMAIN found : found[i] \in G1}),
                 {p \in A : val[p] \in G1}, val, Before)
      BY <2>1, FilterListed, Zenon
    <3>3. candidates \in Seq(Contents)
      BY <2>1, SubsequenceListed, Zenon
    <3> QED
      BY <3>1, <3>2, <3>3
  <2> HIDE DEF candidates, C1
  <2>6. good \in Seq(Contents) /\ Listed(good, C2, val, Before)
    <3> DEFINE s == candidates
    <3>1. {i \in DOMAIN s : Parses(s[i])} = {i \in DOMAIN s : s[i] \in G2}
      <4>1. \A i \in DOMAIN s : s[i] \in Contents
        BY <2>5
      <4> HIDE DEF s
      <4> QED
        BY <4>1
    <3>2. good = Subsequence(s, {i \in DOMAIN s : Parses(s[i])})
      BY Zenon DEF Parsed
    <3> HIDE DEF s, G2
    <3>3. Listed(Subsequence(s, {i \in DOMAIN s : s[i] \in G2}),
                 {p \in C1 : val[p] \in G2}, val, Before)
      BY <2>5, FilterListed, Zenon DEF s
    <3>4. Subsequence(s, {i \in DOMAIN s : Parses(s[i])}) \in Seq(Contents)
      BY <2>5, SubsequenceListed, Zenon DEF s
    <3> HIDE DEF good
    <3> QED
      BY <3>1, <3>2, <3>3, <3>4
  <2> HIDE DEF good, C2
  <2>7. reports \in Seq(Reports) /\ Len(reports) = Len(good)
        /\ \A k \in 1..Len(good) : reports[k] = good[k].report
    <3> DEFINE m == Len(good)
    <3>1. m \in Nat /\ DOMAIN good = 1..m /\ \A k \in 1..m : good[k] \in Contents
      BY <2>6
    <3> HIDE DEF m
    <3>2. \A k \in 1..m : good[k].report \in Reports
      BY <3>1 DEF Contents
    <3>3. reports = [k \in 1..m |-> good[k].report]
      BY <3>1
    <3> HIDE DEF reports
    <3>4. reports \in Seq(Reports) /\ DOMAIN reports = 1..m
      BY <3>1, <3>2, <3>3
    <3>5. Len(reports) = m
      BY <3>1, <3>4
    <3> QED
      BY <3>3, <3>4, <3>5 DEF m
  <2> HIDE DEF reports
  <2>8. Listed(reports, C2, [i \in 1..n |-> parts[i].content.report], Before)
    <3> DEFINE g == [c \in Contents |-> c.report]
               val2 == [i \in 1..n |-> parts[i].content.report]
    <3>1. \A k \in 1..Len(good) : reports[k] = g[good[k]]
      <4>1. \A k \in 1..Len(good) : good[k] \in Contents
        BY <2>6
      <4> QED
        BY <2>7, <4>1
    <3>2. \A p \in C2 : val2[p] = g[val[p]]
      BY <2>2 DEF C1, C2
    <3> HIDE DEF g, val2
    <3>3. Listed(reports, C2, val2, Before)
      BY <2>6, <2>7, <3>1, <3>2, ListedMapped
    <3> QED
      BY <3>3 DEF val2
  <2>9. /\ IsFiniteSet(C1) /\ Cardinality(C1) = Len(candidates)
        /\ IsFiniteSet(C2) /\ Cardinality(C2) = Len(good)
    <3>1. Len(candidates) \in Nat /\ Len(good) \in Nat
      BY <2>5, <2>6
    <3> QED
      BY <2>5, <2>6, <3>1, ListedSize, Zenon
  <2>10. Cardinality(C1 \ C2) = Cardinality(C1) - Cardinality(C2)
    <3>1. C1 \cap C2 = C2
      BY DEF C2
    <3>2. Cardinality(C1 \ C2) = Cardinality(C1) - Cardinality(C1 \cap C2)
      BY <2>9, FS_Difference, Zenon
    <3> QED
      BY <3>1, <3>2
  <2>11. ProcessMail(mail) = [reports |-> reports, warnings |-> Len(candidates) - Len(good)]
    BY <1>6, <1>7, <1>9, Zenon
  <2>12. /\ ProcessMail(mail).reports = reports
         /\ ProcessMail(mail).warnings = Len(candidates) - Len(good)
    BY <2>11
  <2>13. ProcessMail(mail).warnings = Cardinality(C1 \ C2)
    BY <2>9, <2>10, <2>12
  <2> QED
    BY <1>2, <1>9, <2>3, <2>4, <2>7, <2>8, <2>9, <2>12, <2>13
<1> QED
  BY <1>8, <1>9

-----------------------------------------------------------------------------
(* Slices.                                                                 *)

\* The limits are positive, and the last attachment with a note of what is
\* left out holds no more policies than the others (format.go).
LEMMA Limits ==
    /\ MaxFailureDetails \in Nat \ {0} /\ MaxDetailDisplay \in Nat \ {0}
    /\ PoliciesPerChunk \in Nat \ {0} /\ LastChunkWithOverflow \in Nat \ {0}
    /\ MaxAttachments \in Nat \ {0}
    /\ MaxDetailDisplay <= MaxFailureDetails
    /\ LastChunkWithOverflow <= PoliciesPerChunk
BY FormatAssumption DEF FormatBounds

\* Rounding up: n elements that fit k slices need at most k, and every one of
\* the slices has its first element.
LEMMA RoundUp ==
    ASSUME NEW n \in Nat, NEW size \in Nat \ {0}
    PROVE  LET q == (n + size - 1) \div size
           IN  /\ q \in Nat
               /\ n <= q * size
               /\ q * size < n + size
<1> DEFINE q == (n + size - 1) \div size
<1>1. n + size - 1 \in Nat /\ size > 0
  OBVIOUS
<1>2. q \in Nat
  BY <1>1, Z3
<1>3. n + size - 1 = size * q + ((n + size - 1) % size)
  BY <1>1, Z3
<1>4. (n + size - 1) % size \in 0..(size - 1)
  BY <1>1, Z3
<1>5. size * q = q * size
  BY <1>2
<1> QED
  BY <1>2, <1>3, <1>4, <1>5

\* A product with a larger factor is larger by one size at least.
LEMMA WholeSteps ==
    ASSUME NEW a \in Int, NEW b \in Int, NEW size \in Nat \ {0}, a < b
    PROVE  a * size + size <= b * size
<1>1. b * size = a * size + (b - a) * size
  OBVIOUS
<1>2. (b - a) * size >= size
  OBVIOUS
<1> QED
  BY <1>1, <1>2

\* The slices of a sequence: how many there are, and where each begins and ends.
LEMMA ChunkBounds ==
    ASSUME NEW S, NEW seq \in Seq(S), NEW size \in Nat \ {0}
    PROVE  LET q == (Len(seq) + size - 1) \div size
           IN  /\ q \in Nat
               /\ Chunks(seq, size) \in Seq(Seq(S))
               /\ Len(Chunks(seq, size)) = q
               /\ Len(seq) <= q * size /\ q * size < Len(seq) + size
               /\ \A c \in 1..q :
                     /\ (c - 1) * size + 1 \in 1..Len(seq)
                     /\ Least(c * size, Len(seq)) \in ((c - 1) * size + 1)..Len(seq)
                     /\ c < q => c * size < Len(seq)
<1> DEFINE q == (Len(seq) + size - 1) \div size
           lo(c) == (c - 1) * size + 1
           hi(c) == Least(c * size, Len(seq))
<1>1. q \in Nat /\ Len(seq) <= q * size /\ q * size < Len(seq) + size
  <2>1. Len(seq) \in Nat
    OBVIOUS
  <2> QED
    BY <2>1, RoundUp, Zenon
<1>2. ASSUME NEW c \in 1..q
      PROVE  /\ lo(c) \in 1..Len(seq)
             /\ hi(c) \in lo(c)..Len(seq)
             /\ c < q => c * size < Len(seq)
  <2>1. (c - 1) * size + size = c * size /\ (c - 1) * size >= 0
    OBVIOUS
  <2>2. c = q \/ c * size + size <= q * size
    BY <1>1, WholeSteps
  <2>3. c * size \in Int /\ (c - 1) * size \in Int /\ q * size \in Int
    BY <1>1
  <2>4. (c - 1) * size < Len(seq)
    BY <1>1, <2>1, <2>2, <2>3
  <2>5. c < q => c * size < Len(seq)
    BY <1>1, <2>2, <2>3
  <2> QED
    BY <2>1, <2>3, <2>4, <2>5 DEF Least
<1>3. \A c \in 1..q : SubSeq(seq, lo(c), hi(c)) \in Seq(S)
  <2> TAKE c \in 1..q
  <2>1. lo(c) \in 1..Len(seq) /\ hi(c) \in lo(c)..Len(seq)
    BY <1>2
  <2> HIDE DEF lo, hi
  <2> QED
    BY <2>1
<1>4. Chunks(seq, size) = [c \in 1..q |-> SubSeq(seq, lo(c), hi(c))]
  BY DEF Chunks
<1>5. Chunks(seq, size) \in Seq(Seq(S)) /\ Len(Chunks(seq, size)) = q
  <2> HIDE DEF q, lo, hi
  <2> QED
    BY <1>1, <1>3, <1>4
<1> QED
  BY <1>1, <1>2, <1>5

\* What fits into n slices takes no more than n.
LEMMA FewChunks ==
    ASSUME NEW S, NEW seq \in Seq(S), NEW size \in Nat \ {0}, NEW n \in Nat,
           Len(seq) <= n * size
    PROVE  Len(Chunks(seq, size)) <= n
<1> DEFINE q == (Len(seq) + size - 1) \div size
<1>1. q \in Nat /\ Len(Chunks(seq, size)) = q /\ q * size < Len(seq) + size
  BY ChunkBounds, Zenon
<1> HIDE DEF q
<1>2. ~(n < q)
  <2> SUFFICES ASSUME n < q PROVE FALSE
    OBVIOUS
  <2>1. n * size + size <= q * size
    BY <1>1, WholeSteps
  <2>2. q * size \in Int /\ n * size \in Int /\ Len(seq) \in Nat
    BY <1>1
  <2> QED
    BY <1>1, <2>1, <2>2
<1> QED
  BY <1>1, <1>2

\* No slice is empty or larger than allowed, and all but the last are full.
THEOREM ChunkSizes ==
    ASSUME NEW S, NEW seq \in Seq(S), NEW size \in Nat \ {0},
           NEW c \in DOMAIN Chunks(seq, size)
    PROVE  /\ Len(Chunks(seq, size)[c]) \in 1..size
           /\ c < Len(Chunks(seq, size)) => Len(Chunks(seq, size)[c]) = size
<1> DEFINE q == (Len(seq) + size - 1) \div size
           lo == (c - 1) * size + 1
           hi == Least(c * size, Len(seq))
<1>1. q \in Nat /\ c \in 1..q /\ Len(Chunks(seq, size)) = q
  <2>1. q \in Nat /\ Len(Chunks(seq, size)) = q
    BY ChunkBounds, Zenon
  <2>2. DOMAIN Chunks(seq, size) = 1..q
    BY DEF Chunks
  <2> QED
    BY <2>1, <2>2
<1>2. /\ lo \in 1..Len(seq) /\ hi \in lo..Len(seq)
      /\ c < q => c * size < Len(seq)
  BY <1>1, ChunkBounds
<1>3. Chunks(seq, size)[c] = SubSeq(seq, lo, hi)
  BY <1>1 DEF Chunks
<1>4. Len(SubSeq(seq, lo, hi)) = hi - lo + 1
  <2> HIDE DEF lo, hi
  <2> QED
    BY <1>2
<1>5. /\ lo = c * size - size + 1 /\ c * size \in Int
      /\ hi = c * size \/ (hi = Len(seq) /\ hi <= c * size)
      /\ c * size < Len(seq) => hi = c * size
  BY <1>1 DEF Least
<1>6. /\ hi - lo + 1 \in 1..size
      /\ c < q => hi - lo + 1 = size
  <2> DEFINE p == c * size
  <2> HIDE DEF lo, hi, p, q
  <2>1. /\ lo = p - size + 1 /\ p \in Int /\ hi <= p
        /\ c < q => hi = p
    BY <1>2, <1>5 DEF p
  <2> QED
    BY <1>2, <2>1
<1> QED
  BY <1>1, <1>3, <1>4, <1>6

\* Every element is in a slice, at its place in the order of the sequence.
THEOREM ChunksKeepAll ==
    ASSUME NEW S, NEW seq \in Seq(S), NEW size \in Nat \ {0}, NEW i \in 1..Len(seq)
    PROVE  \E c \in DOMAIN Chunks(seq, size) :
               /\ i - (c - 1) * size \in DOMAIN Chunks(seq, size)[c]
               /\ Chunks(seq, size)[c][i - (c - 1) * size] = seq[i]
<1> DEFINE q == (Len(seq) + size - 1) \div size
           c == (i + size - 1) \div size
           lo == (c - 1) * size + 1
           hi == Least(c * size, Len(seq))
           k == i - (c - 1) * size
<1>1. c \in Nat /\ i <= c * size /\ c * size < i + size
  <2>1. i \in Nat
    OBVIOUS
  <2> QED
    BY <2>1, RoundUp, Zenon
<1>2. q \in Nat /\ Len(seq) <= q * size
  BY ChunkBounds, Zenon
<1>3. c \in 1..q
  <2>1. c # 0
    BY <1>1
  <2>2. ~(q < c)
    <3> SUFFICES ASSUME q < c PROVE FALSE
      OBVIOUS
    <3>1. q * size + size <= c * size
      BY <1>1, <1>2, WholeSteps
    <3>2. q * size \in Int /\ c * size \in Int /\ i <= Len(seq) /\ Len(seq) \in Nat
      BY <1>1, <1>2
    <3> QED
      BY <1>1, <1>2, <3>1, <3>2
  <2> QED
    BY <1>1, <1>2, <2>1, <2>2
<1>4. lo \in 1..Len(seq) /\ hi \in lo..Len(seq)
  BY <1>3, ChunkBounds
<1>5. lo + k - 1 = i /\ k >= 1 /\ i <= hi
  <2>1. lo = c * size - size + 1 /\ k = i - c * size + size /\ c * size \in Int
    BY <1>1
  <2>2. i <= hi
    BY <1>1 DEF Least
  <2> HIDE DEF c
  <2> QED
    BY <1>1, <2>1, <2>2
<1>6. Chunks(seq, size)[c] = SubSeq(seq, lo, hi) /\ DOMAIN Chunks(seq, size) = 1..q
  BY <1>3 DEF Chunks
<1>7. k \in DOMAIN SubSeq(seq, lo, hi) /\ SubSeq(seq, lo, hi)[k] = seq[i]
  <2>1. k \in Int
    BY <1>1
  <2> HIDE DEF lo, hi, k
  <2>2. k \in 1..(hi - lo + 1)
    BY <1>4, <1>5, <2>1
  <2>3. /\ SubSeq(seq, lo, hi)[k] = seq[lo + k - 1]
        /\ DOMAIN SubSeq(seq, lo, hi) = 1..(hi - lo + 1)
    BY <1>4, <2>2
  <2> QED
    BY <1>5, <2>2, <2>3
<1>8. c \in DOMAIN Chunks(seq, size)
  BY <1>3, <1>6
<1> HIDE DEF c
<1> QED
  BY <1>6, <1>7, <1>8

-----------------------------------------------------------------------------
(* Alerts.                                                                 *)

\* What is shown fits the attachments, and is no more than there is.
LEMMA ShownFits ==
    ASSUME NEW S, NEW alerts \in Seq(S)
    PROVE  /\ Shown(alerts) \in 0..Len(alerts)
           /\ Shown(alerts) <= MaxAttachments * PoliciesPerChunk
<1>1. MaxAttachments * PoliciesPerChunk =
          (MaxAttachments - 1) * PoliciesPerChunk + PoliciesPerChunk
  BY Limits
<1>2. (MaxAttachments - 1) * PoliciesPerChunk \in Nat
  BY Limits
<1>3. MaxAttachments * PoliciesPerChunk \in Nat /\ Len(alerts) \in Nat
  BY Limits
<1> QED
  BY <1>1, <1>2, <1>3, Limits DEF Shown

\* The alerts shown, and after them those that are left out.
LEMMA ShownThenOmitted ==
    ASSUME NEW S, NEW alerts \in Seq(S)
    PROVE  First(alerts, Shown(alerts)) \o
               SubSeq(alerts, Shown(alerts) + 1, Len(alerts)) = alerts
<1> DEFINE n == Shown(alerts)
<1>1. n \in 0..Len(alerts) /\ Len(alerts) \in Nat
  BY ShownFits
<1>2. First(alerts, n) = SubSeq(alerts, 1, n)
  BY <1>1 DEF First, Least
<1>3. SubSeq(alerts, 1, n) \o SubSeq(alerts, n + 1, Len(alerts)) = alerts
  <2> DEFINE head == SubSeq(alerts, 1, n)
             tail == SubSeq(alerts, n + 1, Len(alerts))
  <2> HIDE DEF n
  <2>1. head \in Seq(S) /\ Len(head) = n /\ \A i \in 1..n : head[i] = alerts[i]
    BY <1>1
  <2>2. /\ tail \in Seq(S) /\ Len(tail) = Len(alerts) - n
        /\ \A i \in 1..(Len(alerts) - n) : tail[i] = alerts[n + i]
    BY <1>1
  <2> HIDE DEF head, tail
  <2>3. head \o tail \in Seq(S) /\ Len(head \o tail) = Len(alerts)
    BY <1>1, <2>1, <2>2
  <2>4. ASSUME NEW i \in 1..Len(alerts)
        PROVE  (head \o tail)[i] = alerts[i]
    <3>1. CASE i <= n
      BY <1>1, <2>1, <2>2, <3>1
    <3>2. CASE i > n
      <4>1. (head \o tail)[i] = tail[i - n]
        BY <1>1, <2>1, <2>2, <3>2
      <4>2. i - n \in 1..(Len(alerts) - n) /\ n + (i - n) = i
        BY <1>1, <3>2
      <4> QED
        BY <2>2, <4>1, <4>2
    <3>3. i <= n \/ i > n
      BY <1>1
    <3> QED
      BY <3>1, <3>2, <3>3, Zenon
  <2> DEFINE both == head \o tail
  <2>5. both = alerts
    <3>1. /\ both \in Seq(S) /\ Len(both) = Len(alerts)
          /\ \A i \in 1..Len(alerts) : both[i] = alerts[i]
      BY <2>3, <2>4, Zenon
    <3> HIDE DEF both
    <3> QED
      BY <3>1
  <2> QED
    BY <2>5 DEF head, tail
<1> QED
  BY <1>2, <1>3

\* However many alerts there are, the message has no more attachments than
\* Slack accepts; at least one if there is an alert, for the Run ID.
THEOREM AlertAttachmentsBounded ==
    ASSUME NEW S, NEW alerts \in Seq(S), alerts # <<>>
    PROVE  Len(FormatAlerts(alerts).attachments) \in 1..MaxAttachments
<1> DEFINE shown == First(alerts, Shown(alerts))
           q == (Len(shown) + PoliciesPerChunk - 1) \div PoliciesPerChunk
<1>1. Shown(alerts) \in 0..Len(alerts) /\ Len(alerts) \in Nat \ {0}
  BY ShownFits
<1>2. shown \in Seq(S) /\ Len(shown) = Shown(alerts)
  BY <1>1 DEF First, Least
<1>3. Len(shown) > 0
  <2>1. (MaxAttachments - 1) * PoliciesPerChunk \in Nat
    BY Limits
  <2> QED
    BY <1>1, <1>2, <2>1, Limits DEF Shown
<1>4. /\ q \in Nat /\ Len(Chunks(shown, PoliciesPerChunk)) = q
      /\ Len(shown) <= q * PoliciesPerChunk
      /\ q * PoliciesPerChunk < Len(shown) + PoliciesPerChunk
  <2> PoliciesPerChunk \in Nat \ {0}
    BY Limits
  <2> QED
    BY <1>2, ChunkBounds, Zenon
<1>5. DOMAIN Chunks(shown, PoliciesPerChunk) = 1..q
  BY DEF Chunks
<1>6. Len(FormatAlerts(alerts).attachments) = q
  <2> DEFINE at == FormatAlerts(alerts).attachments
  <2>1. DOMAIN at = 1..q
    BY <1>5 DEF FormatAlerts
  <2> HIDE DEF at, q
  <2>2. Len(at) = q
    BY <1>4, <2>1
  <2> QED
    BY <2>2 DEF at
<1>7. q # 0
  <2> HIDE DEF q, shown
  <2> QED
    BY <1>2, <1>3, <1>4, Limits
<1>8. q <= MaxAttachments
  <2>1. Len(shown) <= MaxAttachments * PoliciesPerChunk
    BY <1>2, ShownFits
  <2> HIDE DEF q, shown
  <2> QED
    BY <1>2, <1>4, <2>1, Limits, FewChunks
<1> QED
  BY <1>4, <1>6, <1>7, <1>8, Limits

\* The details of a policy that are shown and the number of the others add up
\* to all of them, although its record holds MaxFailureDetails at most.
THEOREM DetailsAllCounted ==
    ASSUME NEW alert, NEW S, alert.details \in Seq(S), alert.count \in Nat \ {0},
           Len(alert.details) = Least(MaxFailureDetails, alert.count)
    PROVE  Len(FailureDetails(alert)[1].shown) + FailureDetails(alert)[1].others
               = alert.count
<1>1. Len(alert.details) \in Nat \ {0} /\ alert.details # <<>>
  BY Limits DEF Least
<1>2. Most(alert.count, Len(alert.details)) = alert.count
  BY <1>1, Limits DEF Least, Most
<1>3. FailureDetails(alert)[1].shown = First(alert.details, MaxDetailDisplay)
  BY <1>1 DEF FailureDetails
<1>4. FailureDetails(alert)[1].others = Most(alert.count - MaxDetailDisplay, 0)
  BY <1>1, <1>2 DEF FailureDetails
<1>5. Len(First(alert.details, MaxDetailDisplay)) =
          Least(MaxDetailDisplay, Len(alert.details))
  BY <1>1, Limits DEF First, Least
<1> QED
  BY <1>1, <1>3, <1>4, <1>5, Limits DEF Least, Most

-----------------------------------------------------------------------------
(* Records and the messages they become.                                   *)

\* The kind of the records decides.
LEMMA OfKindAll ==
    ASSUME NEW S, NEW x \in Seq(S), NEW k, NEW kind, \A i \in 1..Len(x) : x[i].kind = k
    PROVE  OfKind(x, kind) = IF kind = k THEN x ELSE <<>>
<1> DEFINE G == {r \in S : r.kind = kind}
<1>1. DOMAIN x = 1..Len(x) /\ \A i \in 1..Len(x) : x[i] \in S
  OBVIOUS
<1>2. \A i \in DOMAIN x : x[i].kind = kind <=> x[i] \in G
  BY <1>1
<1> HIDE DEF G
<1>3. OfKind(x, kind) = Filter(x, G)
  <2>1. {i \in DOMAIN x : x[i].kind = kind} = {i \in DOMAIN x : x[i] \in G}
    BY <1>2
  <2> QED
    BY <2>1, Zenon DEF OfKind, Filter
<1>4. CASE kind = k
  <2>1. \A i \in 1..Len(x) : x[i] \in G
    BY <1>1, <1>2, <1>4
  <2> QED
    BY <1>3, <1>4, <2>1, FilterAll, Zenon
<1>5. CASE kind # k
  <2>1. \A i \in 1..Len(x) : x[i] \notin G
    BY <1>1, <1>2, <1>5
  <2> QED
    BY <1>3, <1>5, <2>1, FilterNone, Zenon
<1> QED
  BY <1>4, <1>5

\* The blocks of a kind in two messages one after the other.
LEMMA OfKindConcat ==
    ASSUME NEW S, NEW x \in Seq(S), NEW y \in Seq(S), NEW kind
    PROVE  OfKind(x \o y, kind) = OfKind(x, kind) \o OfKind(y, kind)
<1> DEFINE G == {r \in S : r.kind = kind}
<1>1. \A s \in Seq(S) : OfKind(s, kind) = Filter(s, G)
  <2> TAKE s \in Seq(S)
  <2>1. \A i \in DOMAIN s : s[i] \in S
    OBVIOUS
  <2>2. {i \in DOMAIN s : s[i].kind = kind} = {i \in DOMAIN s : s[i] \in G}
    BY <2>1
  <2> HIDE DEF G
  <2> QED
    BY <2>2, Zenon DEF OfKind, Filter
<1>2. x \o y \in Seq(S)
  OBVIOUS
<1> HIDE DEF G
<1>3. Filter(x \o y, G) = Filter(x, G) \o Filter(y, G)
  BY FilterConcat
<1> QED
  BY <1>1, <1>2, <1>3, Zenon

\* The messages for records of one kind only.
LEMMA OneKind ==
    ASSUME NEW S, NEW x \in Seq(S), NEW k, \A i \in 1..Len(x) : x[i].kind = k,
           k \in {"warning", "error", "summary"}
    PROVE  /\ k = "warning" => FormatRecords(x) = Map(x, LAMBDA r : FormatWarning(r.what))
           /\ k = "error" => FormatRecords(x) = Map(x, LAMBDA r : FormatSystemError(r.what))
           /\ k = "summary" => FormatRecords(x) = Map(x, LAMBDA r : FormatSummary(r.summary))
<1> DEFINE W(s) == Map(s, LAMBDA r : FormatWarning(r.what))
           E(s) == Map(s, LAMBDA r : FormatSystemError(r.what))
           D(s) == Map(s, LAMBDA r : FormatSummary(r.summary))
<1>1. \A kind : OfKind(x, kind) = IF kind = k THEN x ELSE <<>>
  BY OfKindAll
<1>2. Map(OfKind(x, "alert"), LAMBDA r : r.alert) = <<>>
  <2>1. OfKind(x, "alert") = <<>>
    BY <1>1
  <2> QED
    BY <2>1 DEF Map
<1>3. FormatRecords(x) = <<>> \o W(OfKind(x, "warning")) \o E(OfKind(x, "error"))
                              \o D(OfKind(x, "summary"))
  BY <1>2 DEF FormatRecords
<1>4. W(<<>>) = <<>> /\ E(<<>>) = <<>> /\ D(<<>>) = <<>>
  BY DEF Map
<1>5. \E U : W(x) \in Seq(U) /\ E(x) \in Seq(U) /\ D(x) \in Seq(U)
  <2> DEFINE n == Len(x)
             U == {W(x)[i] : i \in 1..n} \cup {E(x)[i] : i \in 1..n} \cup {D(x)[i] : i \in 1..n}
  <2>1. n \in Nat /\ DOMAIN x = 1..n
    OBVIOUS
  <2> HIDE DEF n
  <2>2. /\ W(x) = [i \in 1..n |-> W(x)[i]] /\ E(x) = [i \in 1..n |-> E(x)[i]]
        /\ D(x) = [i \in 1..n |-> D(x)[i]]
    BY <2>1 DEF Map
  <2> HIDE DEF W, E, D
  <2>3. \A i \in 1..n : W(x)[i] \in U /\ E(x)[i] \in U /\ D(x)[i] \in U
    OBVIOUS
  <2> HIDE DEF U
  <2>4. W(x) \in Seq(U) /\ E(x) \in Seq(U) /\ D(x) \in Seq(U)
    BY <2>1, <2>2, <2>3, Tabulated
  <2> QED
    BY <2>4
<1>6. PICK U : W(x) \in Seq(U) /\ E(x) \in Seq(U) /\ D(x) \in Seq(U)
  BY <1>5
<1> HIDE DEF W, E, D
<1>7. CASE k = "warning"
  <2>1. FormatRecords(x) = <<>> \o W(x) \o <<>> \o <<>>
    BY <1>1, <1>3, <1>4, <1>7
  <2> DEFINE w == W(x)
  <2> HIDE DEF w
  <2>2. <<>> \o w \o <<>> \o <<>> = w
    BY <1>6 DEF w
  <2> QED
    BY <1>7, <2>1, <2>2 DEF w, W
<1>8. CASE k = "error"
  <2>1. FormatRecords(x) = <<>> \o <<>> \o E(x) \o <<>>
    BY <1>1, <1>3, <1>4, <1>8
  <2> DEFINE w == E(x)
  <2> HIDE DEF w
  <2>2. <<>> \o <<>> \o w \o <<>> = w
    BY <1>6 DEF w
  <2> QED
    BY <1>8, <2>1, <2>2 DEF w, E
<1>9. CASE k = "summary"
  <2>1. FormatRecords(x) = <<>> \o <<>> \o <<>> \o D(x)
    BY <1>1, <1>3, <1>4, <1>9
  <2> DEFINE w == D(x)
  <2> HIDE DEF w
  <2>2. <<>> \o <<>> \o <<>> \o w = w
    BY <1>6 DEF w
  <2> QED
    BY <1>9, <2>1, <2>2 DEF w, D
<1> QED
  BY <1>7, <1>8, <1>9

\* One record gives one message, no record none.
LEMMA OneRecord ==
    ASSUME NEW r
    PROVE  /\ r.kind = "warning" => FormatRecords(<<r>>) = <<FormatWarning(r.what)>>
           /\ r.kind = "error" => FormatRecords(<<r>>) = <<FormatSystemError(r.what)>>
           /\ r.kind = "summary" => FormatRecords(<<r>>) = <<FormatSummary(r.summary)>>
           /\ FormatRecords(<<>>) = <<>>
<1> DEFINE x == <<r>>
<1>1. x \in Seq({r}) /\ \A i \in 1..Len(x) : x[i].kind = r.kind
  OBVIOUS
<1>2. /\ Map(x, LAMBDA q : FormatWarning(q.what)) = <<FormatWarning(r.what)>>
      /\ Map(x, LAMBDA q : FormatSystemError(q.what)) = <<FormatSystemError(r.what)>>
      /\ Map(x, LAMBDA q : FormatSummary(q.summary)) = <<FormatSummary(r.summary)>>
  BY DEF Map
<1>3. FormatRecords(<<>>) = <<>>
  <2>1. <<>> \in Seq({r}) /\ \A i \in 1..Len(<<>>) : <<>>[i].kind = "warning"
    OBVIOUS
  <2>2. FormatRecords(<<>>) = Map(<<>>, LAMBDA q : FormatWarning(q.what))
    BY <2>1, OneKind
  <2> QED
    BY <2>2 DEF Map
<1> HIDE DEF x
<1>4. CASE r.kind = "warning"
  BY <1>1, <1>2, <1>3, <1>4, OneKind DEF x
<1>5. CASE r.kind = "error"
  BY <1>1, <1>2, <1>3, <1>5, OneKind DEF x
<1>6. CASE r.kind = "summary"
  BY <1>1, <1>2, <1>3, <1>6, OneKind DEF x
<1> QED
  BY <1>3, <1>4, <1>5, <1>6

\* The records for alerts and for n warnings, and the messages.
RecordsFor(alerts, n, what) ==
    Map(alerts, LAMBDA a : [kind |-> "alert", alert |-> a]) \o
    [i \in 1..n |-> [kind |-> "warning", what |-> what]]
MessagesFor(alerts, n, what) ==
    (IF alerts = <<>> THEN <<>> ELSE <<FormatAlerts(alerts)>>) \o
    [i \in 1..n |-> FormatWarning(what)]

\* All alerts go into one message, and every warning into one of its own.
LEMMA AlertsAndWarnings ==
    ASSUME NEW A, NEW alerts \in Seq(A), NEW n \in Nat, NEW what
    PROVE  FormatRecords(RecordsFor(alerts, n, what)) = MessagesFor(alerts, n, what)
<1> DEFINE m == Len(alerts)
           w == [kind |-> "warning", what |-> what]
           x == Map(alerts, LAMBDA a : [kind |-> "alert", alert |-> a])
           y == [i \in 1..n |-> w]
           S == {[kind |-> "alert", alert |-> a] : a \in A} \cup {w}
           records == x \o y
<1>1. m \in Nat /\ DOMAIN alerts = 1..m /\ \A i \in 1..m : alerts[i] \in A
  OBVIOUS
<1>2. alerts = [i \in 1..m |-> alerts[i]]
  OBVIOUS
<1> HIDE DEF m
<1>3. x = [i \in 1..m |-> [kind |-> "alert", alert |-> alerts[i]]]
  BY <1>1 DEF Map
<1>4. \A i \in 1..m : x[i] \in S /\ x[i].kind = "alert" /\ x[i].alert = alerts[i]
  <2> TAKE i \in 1..m
  <2>1. x[i] = [kind |-> "alert", alert |-> alerts[i]] /\ alerts[i] \in A
    BY <1>1, <1>3
  <2> HIDE DEF x
  <2>2. x[i] \in S
    BY <2>1
  <2> QED
    BY <2>1, <2>2
<1>5. \A i \in 1..n : y[i] \in S /\ y[i].kind = "warning" /\ y[i].what = what
  OBVIOUS
<1>6. x = [i \in 1..m |-> x[i]] /\ y = [i \in 1..n |-> y[i]]
  BY <1>3
<1> HIDE DEF x, S
<1>7. x \in Seq(S) /\ Len(x) = m /\ DOMAIN x = 1..m
  BY <1>1, <1>4, <1>6, Tabulated, Zenon
<1> HIDE DEF y
<1>8. y \in Seq(S) /\ Len(y) = n /\ DOMAIN y = 1..n
  BY <1>5, <1>6, Tabulated, Zenon
<1>9. \A kind : OfKind(x, kind) = IF kind = "alert" THEN x ELSE <<>>
  <2>1. x \in Seq(S) /\ \A i \in 1..Len(x) : x[i].kind = "alert"
    BY <1>4, <1>7
  <2> QED
    BY <2>1, OfKindAll, Zenon
<1>10. \A kind : OfKind(y, kind) = IF kind = "warning" THEN y ELSE <<>>
  <2>1. y \in Seq(S) /\ \A i \in 1..Len(y) : y[i].kind = "warning"
    BY <1>5, <1>8
  <2> QED
    BY <2>1, OfKindAll, Zenon
<1>11. \A kind : OfKind(records, kind) = OfKind(x, kind) \o OfKind(y, kind)
  BY <1>7, <1>8, OfKindConcat
<1> HIDE DEF records
<1>12. x \o <<>> = x /\ <<>> \o y = y /\ <<>> \o <<>> = <<>>
  BY <1>7, <1>8
<1>13. /\ OfKind(records, "alert") = x /\ OfKind(records, "warning") = y
       /\ OfKind(records, "error") = <<>> /\ OfKind(records, "summary") = <<>>
  BY <1>9, <1>10, <1>11, <1>12
<1>14. Map(x, LAMBDA r : r.alert) = alerts
  <2>1. Map(x, LAMBDA r : r.alert) = [i \in 1..m |-> x[i].alert]
    BY <1>7 DEF Map
  <2>2. [i \in 1..m |-> x[i].alert] = [i \in 1..m |-> alerts[i]]
    BY <1>4
  <2> QED
    BY <1>2, <2>1, <2>2, Zenon
<1>15. Map(y, LAMBDA r : FormatWarning(r.what)) = [i \in 1..n |-> FormatWarning(what)]
  <2>1. Map(y, LAMBDA r : FormatWarning(r.what)) = [i \in 1..n |-> FormatWarning(y[i].what)]
    BY <1>8 DEF Map
  <2>2. \A i \in 1..n : FormatWarning(y[i].what) = FormatWarning(what)
    BY <1>5
  <2> QED
    BY <2>1, <2>2
<1> DEFINE head == IF alerts = <<>> THEN <<>> ELSE <<FormatAlerts(alerts)>>
           ws == [i \in 1..n |-> FormatWarning(what)]
<1>16. FormatRecords(records) = head \o ws \o <<>> \o <<>>
  <2>1. /\ Map(<<>>, LAMBDA r : FormatSystemError(r.what)) = <<>>
        /\ Map(<<>>, LAMBDA r : FormatSummary(r.summary)) = <<>>
    BY DEF Map
  <2> QED
    BY <1>13, <1>14, <1>15, <2>1 DEF FormatRecords
<1>17. head \o ws \o <<>> \o <<>> = head \o ws
  <2> DEFINE U == {FormatAlerts(alerts), FormatWarning(what)}
  <2>1. head \in Seq(U)
    OBVIOUS
  <2>2. ws \in Seq(U)
    <3>1. \A i \in 1..n : ws[i] \in U
      OBVIOUS
    <3>2. ws = [i \in 1..n |-> ws[i]]
      OBVIOUS
    <3> HIDE DEF ws, U
    <3> QED
      BY <3>1, <3>2, Tabulated, Zenon
  <2> HIDE DEF head, ws, U
  <2>3. head \o ws \in Seq(U)
    BY <2>1, <2>2
  <2> QED
    BY <2>3
<1> QED
  BY <1>16, <1>17 DEF records, x, y, RecordsFor, MessagesFor

-----------------------------------------------------------------------------
(* The alerts of a report.                                                 *)

\* The first n elements, or all.
LEMMA FirstIs ==
    ASSUME NEW S, NEW s \in Seq(S), NEW n \in Nat
    PROVE  /\ First(s, n) \in Seq(S) /\ Len(First(s, n)) = Least(n, Len(s))
           /\ \A i \in 1..Least(n, Len(s)) : First(s, n)[i] = s[i]
<1>1. Least(n, Len(s)) \in 0..Len(s)
  BY DEF Least
<1> QED
  BY <1>1 DEF First

\* What becomes of a policy in a record.
AlertRecords == [org : STRING, failed : Int, details : Seq(Int), count : Nat, sessions : Int]

\* The record of an alert is one of the records that format.go lays out.
LEMMA LogAlertType ==
    ASSUME NEW report \in Reports, NEW policy \in Policies
    PROVE  LogAlert(report, policy) \in AlertRecords
<1>1. /\ report.org \in STRING /\ policy.failed \in Int
      /\ policy.details \in Seq(Nat) /\ policy.details \in Seq(Int)
  BY DEF Reports, Policies
<1>2. Sum(policy.details) \in Int /\ Len(policy.details) \in Nat
  BY <1>1, SumType
<1>3. First(Descending(policy.details), MaxFailureDetails) \in Seq(Int)
  <2>1. Descending(policy.details) \in Seq(Int) /\ MaxFailureDetails \in Nat
    BY <1>1, DescendingIs, Limits
  <2> QED
    BY <2>1, FirstIs, Zenon
<1> DEFINE details == First(Descending(policy.details), MaxFailureDetails)
<1> HIDE DEF details
<1>4. LogAlert(report, policy) =
          [org |-> report.org, failed |-> policy.failed, details |-> details,
           count |-> Len(policy.details), sessions |-> Sum(policy.details)]
  BY Zenon DEF LogAlert, details
<1>5. details \in Seq(Int)
  BY <1>3 DEF details
<1> QED
  BY <1>1, <1>2, <1>4, <1>5 DEF AlertRecords

\* The alerts of a report are those of its failing policies, in their order.
LEMMA LogAlertsListed ==
    ASSUME NEW report \in Reports, NEW F,
           F = {k \in DOMAIN report.policies : report.policies[k].failed > 0}
    PROVE  /\ LogAlerts(report) \in Seq(AlertRecords)
           /\ Listed(LogAlerts(report), F,
                     [k \in DOMAIN report.policies |-> LogAlert(report, report.policies[k])],
                     Before)
<1> DEFINE ps == report.policies
           n == Len(ps)
           failing == Failing(report)
           m == Len(failing)
           alerts == LogAlerts(report)
           g == [p \in Policies |-> LogAlert(report, p)]
           val == [k \in DOMAIN ps |-> LogAlert(report, ps[k])]
<1>1. ps \in Seq(Policies)
  BY DEF Reports
<1>2. n \in Nat /\ DOMAIN ps = 1..n /\ \A k \in 1..n : ps[k] \in Policies
  BY <1>1
<1>3. failing = Subsequence(ps, F)
  BY DEF Failing
<1>4. failing \in Seq(Policies) /\ Listed(failing, F, ps, Before)
  <2>1. F \cap 1..Len(ps) = F
    BY <1>2
  <2> HIDE DEF ps
  <2>2. /\ Subsequence(ps, F) \in Seq(Policies)
        /\ Listed(Subsequence(ps, F), F \cap 1..Len(ps), ps, Before)
    BY <1>1, SubsequenceListed, Zenon
  <2> QED
    BY <1>3, <2>1, <2>2, Zenon
<1> HIDE DEF failing
<1>5. m \in Nat /\ DOMAIN failing = 1..m /\ \A k \in 1..m : failing[k] \in Policies
  BY <1>4
<1> HIDE DEF m
<1>6. alerts = [k \in 1..m |-> LogAlert(report, failing[k])]
  BY <1>5 DEF LogAlerts, Map, failing
<1> HIDE DEF alerts
<1>7. \A k \in 1..m : alerts[k] = g[failing[k]] /\ alerts[k] \in AlertRecords
  <2> TAKE k \in 1..m
  <2>1. alerts[k] = LogAlert(report, failing[k]) /\ failing[k] \in Policies
    BY <1>5, <1>6
  <2> QED
    BY <2>1, LogAlertType
<1>8. alerts \in Seq(AlertRecords) /\ Len(alerts) = m
  <2>1. alerts = [k \in 1..m |-> alerts[k]]
    BY <1>6
  <2> QED
    BY <1>5, <1>7, <2>1, Tabulated, Zenon
<1>9. \A p \in F : val[p] = g[ps[p]]
  BY <1>2
<1> HIDE DEF g, val
<1>10. Listed(alerts, F, val, Before)
  BY <1>4, <1>7, <1>8, <1>9, ListedMapped DEF m
<1> QED
  BY <1>8, <1>10 DEF alerts, val

\* The alerts of several reports.
LEMMA AllAlertsType ==
    ASSUME NEW reports \in Seq(Reports)
    PROVE  /\ Map(reports, LogAlerts) \in Seq(Seq(AlertRecords))
           /\ Len(Map(reports, LogAlerts)) = Len(reports)
           /\ \A k \in 1..Len(reports) : Map(reports, LogAlerts)[k] = LogAlerts(reports[k])
           /\ FlattenSeq(Map(reports, LogAlerts)) \in Seq(AlertRecords)
<1> DEFINE n == Len(reports)
           s == Map(reports, LogAlerts)
<1>1. n \in Nat /\ DOMAIN reports = 1..n /\ \A k \in 1..n : reports[k] \in Reports
  OBVIOUS
<1> HIDE DEF n
<1>2. s = [k \in 1..n |-> LogAlerts(reports[k])]
  BY <1>1 DEF Map
<1> HIDE DEF s
<1>3. \A k \in 1..n : s[k] = LogAlerts(reports[k]) /\ s[k] \in Seq(AlertRecords)
  <2> TAKE k \in 1..n
  <2>1. s[k] = LogAlerts(reports[k]) /\ reports[k] \in Reports
    BY <1>1, <1>2
  <2>2. LogAlerts(reports[k]) \in Seq(AlertRecords)
    BY <2>1, LogAlertsListed, Zenon
  <2> QED
    BY <2>1, <2>2
<1>4. s \in Seq(Seq(AlertRecords)) /\ Len(s) = n
  <2>1. s = [k \in 1..n |-> s[k]]
    BY <1>2
  <2> QED
    BY <1>1, <1>3, <2>1, Tabulated, Zenon
<1>5. FlattenSeq(s) \in Seq(AlertRecords)
  BY <1>4, FlattenType, Zenon
<1> QED
  BY <1>3, <1>4, <1>5 DEF s, n

\* What a message gives has the right type.
LEMMA ProcessMailType ==
    ASSUME NEW mail \in Mails
    PROVE  /\ ProcessMail(mail).reports \in Seq(Reports)
           /\ ProcessMail(mail).warnings \in Nat
<1>1. CASE Acceptable(mail)
  <2>1. /\ ProcessMail(mail).reports \in Seq(Reports)
        /\ IsFiniteSet(Claimed(mail))
        /\ ProcessMail(mail).warnings = Cardinality(Claimed(mail) \ Genuine(mail))
    BY <1>1, MailTakenAsAWhole, Zenon
  <2>2. IsFiniteSet(Claimed(mail) \ Genuine(mail))
    BY <2>1, FS_Difference, Zenon
  <2> QED
    BY <2>1, <2>2, FS_CardinalityType
<1>2. CASE ~Acceptable(mail)
  <2>1. ProcessMail(mail) = [reports |-> <<>>, warnings |-> 1]
    BY <1>2, MailTakenAsAWhole, Zenon
  <2> QED
    BY <2>1
<1> QED
  BY <1>1, <1>2

\* The number of messages for the alerts.
AlertMessageCount(alerts) == IF alerts = <<>> THEN 0 ELSE 1

\* How many messages there are, and where they are.
LEMMA MessagesForIs ==
    ASSUME NEW A, NEW alerts \in Seq(A), NEW n \in Nat, NEW what
    PROVE  /\ MessagesFor(alerts, n, what) \in Seq({FormatAlerts(alerts), FormatWarning(what)})
           /\ Len(MessagesFor(alerts, n, what)) = AlertMessageCount(alerts) + n
           /\ alerts # <<>> => MessagesFor(alerts, n, what)[1] = FormatAlerts(alerts)
           /\ \A i \in 1..n : MessagesFor(alerts, n, what)[AlertMessageCount(alerts) + i]
                                = FormatWarning(what)
<1> DEFINE a == AlertMessageCount(alerts)
           U == {FormatAlerts(alerts), FormatWarning(what)}
           head == IF alerts = <<>> THEN <<>> ELSE <<FormatAlerts(alerts)>>
           ws == [i \in 1..n |-> FormatWarning(what)]
           m == head \o ws
<1>1. head \in Seq(U) /\ Len(head) = a /\ (alerts # <<>> => a = 1 /\ head[1] = FormatAlerts(alerts))
  <2>1. CASE alerts = <<>>
    BY <2>1 DEF AlertMessageCount
  <2>2. CASE alerts # <<>>
    <3>1. head = <<FormatAlerts(alerts)>> /\ a = 1
      BY <2>2 DEF AlertMessageCount
    <3> HIDE DEF head
    <3> QED
      BY <2>2, <3>1
  <2> QED
    BY <2>1, <2>2
<1>2. \A i \in 1..n : ws[i] = FormatWarning(what) /\ ws[i] \in U
  OBVIOUS
<1>3. ws = [i \in 1..n |-> ws[i]]
  OBVIOUS
<1> HIDE DEF ws, U, head, a
<1>4. ws \in Seq(U) /\ Len(ws) = n
  BY <1>2, <1>3, Tabulated, Zenon
<1>5. /\ m \in Seq(U) /\ Len(m) = Len(head) + Len(ws)
      /\ \A i \in 1..Len(head) : m[i] = head[i]
      /\ \A i \in 1..Len(ws) : m[Len(head) + i] = ws[i]
  <2>1. head \in Seq(U) /\ ws \in Seq(U)
    BY <1>1, <1>4, Zenon
  <2> QED
    BY <2>1, ConcatIs
<1>6. MessagesFor(alerts, n, what) = m
  BY DEF MessagesFor, head, ws
<1> HIDE DEF m
<1>7. Len(m) = a + n
  BY <1>1, <1>4, <1>5
<1>8. \A i \in 1..n : m[a + i] = FormatWarning(what)
  BY <1>1, <1>2, <1>4, <1>5
<1>9. alerts # <<>> => m[1] = FormatAlerts(alerts)
  BY <1>1, <1>5
<1> QED
  BY <1>5, <1>6, <1>7, <1>8, <1>9 DEF U, a

\* The records for alerts and warnings are a sequence.
LEMMA RecordsForType ==
    ASSUME NEW A, NEW alerts \in Seq(A), NEW n \in Nat, NEW what
    PROVE  <<>> \o RecordsFor(alerts, n, what) = RecordsFor(alerts, n, what)
<1> DEFINE m == Len(alerts)
           x == Map(alerts, LAMBDA a : [kind |-> "alert", alert |-> a])
           y == [i \in 1..n |-> [kind |-> "warning", what |-> what]]
           S == {x[i] : i \in 1..m} \cup {y[i] : i \in 1..n}
<1>1. m \in Nat /\ DOMAIN alerts = 1..m
  OBVIOUS
<1> HIDE DEF m
<1>2. x = [i \in 1..m |-> x[i]] /\ y = [i \in 1..n |-> y[i]]
  BY <1>1 DEF Map
<1> HIDE DEF x, y
<1>3. (\A i \in 1..m : x[i] \in S) /\ \A i \in 1..n : y[i] \in S
  OBVIOUS
<1> HIDE DEF S
<1>4. x \in Seq(S) /\ y \in Seq(S)
  BY <1>1, <1>2, <1>3, Tabulated, Zenon
<1>5. <<>> \o (x \o y) = x \o y
  BY <1>4
<1> QED
  BY <1>5 DEF x, y, RecordsFor

-----------------------------------------------------------------------------
(* Messages of several attachments.                                        *)

\* The slices, one after the other, are the sequence again.
LEMMA ChunksJoined ==
    ASSUME NEW S, NEW seq \in Seq(S), NEW size \in Nat \ {0}
    PROVE  FlattenSeq(Chunks(seq, size)) = seq
<1> DEFINE n == Len(seq)
           q == (n + size - 1) \div size
           chunks == Chunks(seq, size)
           f == [c \in 0..q |-> SubSeq(seq, 1, Least(c * size, n))]
<1>1. n \in Nat
  OBVIOUS
<1>2. /\ q \in Nat /\ chunks \in Seq(Seq(S)) /\ Len(chunks) = q
      /\ n <= q * size /\ q * size < n + size
      /\ \A c \in 1..q : /\ (c - 1) * size + 1 \in 1..n
                         /\ Least(c * size, n) \in ((c - 1) * size + 1)..n
  BY ChunkBounds
<1>3. \A c \in 1..q : chunks[c] = SubSeq(seq, (c - 1) * size + 1, Least(c * size, n))
  <2>1. chunks = [c \in 1..q |-> SubSeq(seq, (c - 1) * size + 1, Least(c * size, n))]
    BY DEF Chunks
  <2> HIDE DEF q
  <2> QED
    BY <2>1
<1> HIDE DEF q, n, chunks
<1>4. f[0] = <<>>
  <2>1. 0 * size = 0 /\ Least(0, n) = 0
    BY <1>1 DEF Least
  <2>2. f[0] = SubSeq(seq, 1, 0)
    BY <1>2, <2>1
  <2>3. SubSeq(seq, 1, 0) = <<>>
    OBVIOUS
  <2> QED
    BY <2>2, <2>3
<1>5. \A c \in 1..q : f[c] = f[c - 1] \o chunks[c]
  <2> TAKE c \in 1..q
  <2> DEFINE a == (c - 1) * size
             b == Least(c * size, n)
  <2>1. c \in 0..q /\ c - 1 \in 0..q /\ a \in Int
    BY <1>2
  <2>2. a \in Nat /\ b \in Nat /\ a <= b /\ b <= n /\ a < n
    <3>1. a + 1 \in 1..n /\ b \in (a + 1)..n
      BY <1>2
    <3> HIDE DEF a, b
    <3> QED
      BY <1>1, <2>1, <3>1
  <2>3. Least((c - 1) * size, n) = a
    BY <2>2 DEF Least
  <2>4. f[c] = SubSeq(seq, 1, b) /\ f[c - 1] = SubSeq(seq, 1, a)
    BY <2>1, <2>3
  <2>5. chunks[c] = SubSeq(seq, a + 1, b)
    BY <1>3
  <2> HIDE DEF a, b, f
  <2>6. SubSeq(seq, 1, b) = SubSeq(seq, 1, a) \o SubSeq(seq, a + 1, b)
    BY <2>2, SubSeqJoin DEF n
  <2> QED
    BY <2>4, <2>5, <2>6
<1>6. f[q] = seq
  <2>1. q * size \in Int
    BY <1>2
  <2>2. Least(q * size, n) = n
    BY <1>1, <1>2, <2>1 DEF Least
  <2>3. f[q] = SubSeq(seq, 1, n)
    <3>1. q \in 0..q
      BY <1>2
    <3> QED
      BY <2>2, <3>1
  <2>4. SubSeq(seq, 1, n) = seq
    BY DEF n
  <2> QED
    BY <2>3, <2>4
<1> HIDE DEF f
<1>7. FlattenSeq(chunks) = f[Len(chunks)]
  <2>1. chunks \in Seq(Seq(S)) /\ \A c \in 1..Len(chunks) : f[c] = f[c - 1] \o chunks[c]
    BY <1>2, <1>5
  <2> QED
    BY <1>4, <2>1, FlattenIs, Zenon
<1> QED
  BY <1>2, <1>6, <1>7 DEF chunks

\* A message of n attachments: the fields of each, and in the last one a note,
\* or none, and the Run ID.
Attached(message, fields, note, n) ==
    message.attachments =
        [c \in 1..n |-> IF c < n THEN fields[c] ELSE fields[c] \o (note \o <<RunID>>)]

\* It keeps the limits if the last attachment has room for the note and the ID.
LEMMA LastAttachment ==
    ASSUME NEW U, RunID \notin U, NEW n \in Nat \ {0}, NEW fields \in Seq(Seq(U)),
           Len(fields) = n, NEW note \in Seq(U), NEW message,
           Attached(message, fields, note, n),
           \A c \in 1..n : Len(fields[c]) <= MaxFields,
           Len(fields[n]) + Len(note) + 1 <= MaxFields
    PROVE  /\ (FewEnough(message) => n <= MaxAttachments) => WithinLimits(message)
           /\ FieldsOf(message) = FlattenSeq(fields) \o (note \o <<RunID>>)
<1> DEFINE V == U \cup {RunID}
           tail == note \o <<RunID>>
           end == fields[n] \o tail
           at == message.attachments
<1>1. n \in Nat /\ 1 <= n /\ n \in 1..n
  OBVIOUS
<1>2. \A c \in 1..n : fields[c] \in Seq(U) /\ fields[c] \in Seq(V)
  OBVIOUS
<1>3. note \in Seq(V) /\ RunID \in V /\ fields \in Seq(Seq(V))
  BY <1>2
<1>4. MaxFields \in Nat
  BY FormatAssumption DEF FormatBounds
<1>5. /\ tail \in Seq(V) /\ Len(tail) = Len(note) + 1
      /\ \A j \in 1..Len(note) : tail[j] = note[j]
      /\ tail[Len(note) + 1] = RunID
  <2> HIDE DEF V
  <2> QED
    BY <1>3, OneMore
<1> HIDE DEF tail
<1>6. /\ end \in Seq(V) /\ Len(end) = Len(fields[n]) + Len(tail)
      /\ \A j \in 1..Len(fields[n]) : end[j] = fields[n][j]
      /\ \A j \in 1..Len(tail) : end[Len(fields[n]) + j] = tail[j]
  <2> DEFINE x == fields[n]
  <2>1. x \in Seq(V) /\ tail \in Seq(V)
    BY <1>1, <1>2, <1>5
  <2> HIDE DEF x, V
  <2>2. /\ x \o tail \in Seq(V) /\ Len(x \o tail) = Len(x) + Len(tail)
        /\ \A j \in 1..Len(x) : (x \o tail)[j] = x[j]
        /\ \A j \in 1..Len(tail) : (x \o tail)[Len(x) + j] = tail[j]
    BY <2>1, ConcatIs
  <2> QED
    BY <2>2 DEF x
<1>7. at = [c \in 1..n |-> IF c < n THEN fields[c] ELSE fields[c] \o tail]
  BY DEF Attached, tail
<1> HIDE DEF at, end
<1>8. /\ \A c \in 1..n : at[c] = IF c < n THEN fields[c] ELSE fields[c] \o tail
      /\ \A c \in 1..n : c < n => at[c] = fields[c]
      /\ at[n] = end /\ at = [c \in 1..n |-> at[c]]
  BY <1>1, <1>7 DEF end
<1>9. at \in Seq(Seq(V)) /\ Len(at) = n /\ DOMAIN at = 1..n
  <2>1. \A c \in 1..n : at[c] \in Seq(V)
    <3> HIDE DEF V
    <3> TAKE c \in 1..n
    <3>1. c < n \/ c = n
      OBVIOUS
    <3> QED
      BY <1>2, <1>6, <1>8, <3>1
  <2> HIDE DEF V
  <2> QED
    BY <1>1, <1>8, <2>1, Tabulated, Zenon
<1>10. FlattenSeq(at) = FlattenSeq(fields) \o tail
  <2>1. tail \in Seq(V) /\ at \in Seq(Seq(V)) /\ Len(at) = n
    BY <1>5, <1>9
  <2> HIDE DEF V
  <2> QED
    <3>1. \A c \in 1..n : at[c] = IF c < n THEN fields[c] ELSE fields[c] \o tail
      BY <1>8
    <3>2. Len(fields) = n /\ fields \in Seq(Seq(V))
      BY <1>3
    <3>3. TailAdded(fields, at, tail)
      BY <2>1, <3>1, <3>2, FlattenTail, Zenon
    <3> QED
      BY <3>3 DEF TailAdded
<1> DEFINE e == Len(fields[n])
           d == Len(note)
<1>11. e \in Nat /\ d \in Nat /\ Len(end) = e + d + 1 /\ e + d + 1 <= MaxFields
  <2>1. e \in Nat
    BY <1>1, <1>2
  <2>2. d \in Nat
    OBVIOUS
  <2>3. /\ Len(end) = e + Len(tail) /\ Len(tail) = d + 1 /\ e + d + 1 <= MaxFields
    BY <1>5, <1>6
  <2> HIDE DEF e, d
  <2> QED
    BY <2>1, <2>2, <2>3
<1>12. \A j \in 1..(e + d) : end[j] \in U
  <2> TAKE j \in 1..(e + d)
  <2>1. CASE j <= e
    <3>1. j \in 1..e /\ end[j] = fields[n][j]
      BY <1>6, <1>11, <2>1
    <3> DEFINE x == fields[n]
    <3>2. x \in Seq(U) /\ j \in 1..Len(x)
      BY <1>1, <1>2, <3>1
    <3> HIDE DEF x
    <3>3. x[j] \in U
      BY <3>2
    <3> QED
      BY <3>1, <3>3 DEF x
  <2>2. CASE e < j
    <3> DEFINE k == j - e
    <3>1. k \in 1..d /\ k \in 1..Len(tail) /\ e + k = j
      BY <1>5, <1>11, <2>2
    <3> HIDE DEF k
    <3>2. end[j] = tail[k] /\ tail[k] = note[k]
      BY <1>5, <1>6, <3>1
    <3> QED
      BY <3>1, <3>2
  <2> QED
    BY <1>11, <2>1, <2>2
<1>13. end[e + d + 1] = RunID
  <2>1. d + 1 \in 1..Len(tail) /\ e + (d + 1) = e + d + 1
    <3>1. Len(tail) = d + 1 /\ e \in Nat /\ d \in Nat
      BY <1>5, <1>11
    <3> HIDE DEF e, d
    <3> QED
      BY <3>1
  <2> QED
    BY <1>5, <1>6, <2>1
<1> HIDE DEF e, d
<1>14. DOMAIN end = 1..(e + d + 1)
  <2>1. DOMAIN end = 1..Len(end)
    <3> HIDE DEF V
    <3> QED
      BY <1>6
  <2> QED
    BY <1>11, <2>1
<1>15. RunIDs(message) = {<<n, Len(end)>>}
  <2> DEFINE J == [c \in 1..n |-> {j \in DOMAIN at[c] : at[c][j] = RunID}]
  <2>1. RunIDs(message) = UNION {{c} \X J[c] : c \in 1..n}
    BY <1>9 DEF RunIDs, at
  <2>2. \A c \in 1..n : c < n => J[c] = {}
    <3> SUFFICES ASSUME NEW c \in 1..n, c < n, NEW j \in DOMAIN at[c]
                 PROVE  at[c][j] # RunID
      OBVIOUS
    <3> DEFINE x == fields[c]
    <3>1. at[c] = x /\ x \in Seq(U)
      BY <1>2, <1>8
    <3> HIDE DEF x
    <3>2. x[j] \in U
      BY <3>1
    <3> QED
      BY <3>1, <3>2
  <2>3. J[n] = {Len(end)}
    <3>1. J[n] = {j \in DOMAIN end : end[j] = RunID}
      BY <1>1, <1>8
    <3>2. ASSUME NEW j \in DOMAIN end
          PROVE  end[j] = RunID <=> j = e + d + 1
      <4>1. j = e + d + 1 \/ j \in 1..(e + d)
        <5> DEFINE m == e + d
        <5>1. m \in Nat /\ j \in 1..(m + 1)
          BY <1>11, <1>14
        <5> HIDE DEF m
        <5>2. j = m + 1 \/ j \in 1..m
          BY <5>1
        <5> QED
          BY <5>2 DEF m
      <4> QED
        BY <1>11, <1>12, <1>13, <4>1
    <3>3. e + d + 1 \in DOMAIN end
      BY <1>11, <1>14
    <3> QED
      BY <1>11, <3>1, <3>2, <3>3
  <2> HIDE DEF J
  <2>4. \A c \in 1..n : c < n \/ c = n
    OBVIOUS
  <2>5. \A c \in 1..n : {c} \X J[c] = IF c = n THEN {<<n, Len(end)>>} ELSE {}
    BY <2>2, <2>3, <2>4
  <2> QED
    BY <1>1, <2>1, <2>5
<1>16. \A c \in 1..n : Len(at[c]) <= MaxFields
  <2> TAKE c \in 1..n
  <2>1. c < n \/ c = n
    OBVIOUS
  <2> QED
    BY <1>8, <1>11, <2>1
<1>17. (FewEnough(message) => n <= MaxAttachments) => WithinLimits(message)
  BY <1>8, <1>9, <1>15, <1>16 DEF WithinLimits, at
<1> QED
  BY <1>10, <1>17 DEF FieldsOf, at, tail

-----------------------------------------------------------------------------
(* The message for the alerts.                                             *)

\* The fields for alerts from A.
PolicyField(a) == [title |-> "Policy", org |-> a.org, failed |-> a.failed]
PolicyFields(A) == [a \in A |-> PolicyField(a)]
ReportField == [title |-> "Report ID"]
DetailField(a) == FailureDetails(a)[1]
DetailFields(A) == {DetailField(a) : a \in {b \in A : b.details # <<>>}}
FieldsFrom(A) == {PolicyField(a) : a \in A} \cup {ReportField} \cup DetailFields(A)

\* The title tells them apart.
LEMMA FieldTitles ==
    ASSUME NEW A
    PROVE  /\ \A a \in A : PolicyField(a).title = "Policy"
           /\ ReportField.title = "Report ID"
           /\ \A f \in DetailFields(A) : f.title = "Failure Details"
           /\ RunID.title = "Run ID" /\ RunID \notin FieldsFrom(A)
<1>1. \A a \in A : PolicyField(a).title = "Policy"
  BY DEF PolicyField
<1>2. ReportField.title = "Report ID" /\ RunID.title = "Run ID"
  BY DEF ReportField, RunID
<1>3. \A f \in DetailFields(A) : f.title = "Failure Details"
  <2> SUFFICES ASSUME NEW a \in A, a.details # <<>>
               PROVE  DetailField(a).title = "Failure Details"
    BY DEF DetailFields
  <2>1. FailureDetails(a) = << FailureDetails(a)[1] >> /\ FailureDetails(a)[1].title = "Failure Details"
    BY DEF FailureDetails
  <2> QED
    BY <2>1 DEF DetailField
<1> QED
  BY <1>1, <1>2, <1>3 DEF FieldsFrom

\* The fields for one alert: three at most, and one is the policy.
LEMMA OneAlert ==
    ASSUME NEW A, NEW a \in A
    PROVE  /\ AlertFields(a) \in Seq(FieldsFrom(A)) /\ Len(AlertFields(a)) <= 3
           /\ \A G : PolicyField(a) \in G /\ ReportField \notin G /\ DetailFields(A) \cap G = {}
                        => Filter(AlertFields(a), G) = <<PolicyField(a)>>
<1> DEFINE P == PolicyField(a)
           R == ReportField
           D == DetailField(a)
           U == FieldsFrom(A)
           d == FailureDetails(a)
<1>1. AlertFields(a) = <<P, R>> \o d
  BY DEF AlertFields, PolicyField, ReportField
<1>2. P \in U /\ R \in U
  BY DEF FieldsFrom
<1>3. d = <<>> \/ (d = <<D>> /\ D \in DetailFields(A))
  <2>1. CASE a.details = <<>>
    BY <2>1 DEF FailureDetails
  <2>2. CASE a.details # <<>>
    <3>1. d = <<D>>
      BY <2>2 DEF FailureDetails, DetailField
    <3> QED
      BY <2>2, <3>1 DEF DetailFields
  <2> QED
    BY <2>1, <2>2
<1>4. DetailFields(A) \subseteq U
  BY DEF FieldsFrom
<1> DEFINE rest == <<R>> \o d
<1> HIDE DEF P, R, D, U, d
<1>5. /\ AlertFields(a) = <<P>> \o rest
      /\ rest \in Seq(U) /\ Len(rest) <= 2
      /\ \A i \in 1..Len(rest) : rest[i] = R \/ rest[i] \in DetailFields(A)
  <2> DEFINE p == <<P>>
             r == <<R>>
  <2>1. p \in Seq(U) /\ r \in Seq(U) /\ Len(r) = 1 /\ r[1] = R
    BY <1>2
  <2>2. p \o r = <<P, R>>
    BY <1>2, PairIs
  <2>3. d \in Seq(U) /\ Len(d) <= 1 /\ \A i \in 1..Len(d) : d[i] \in DetailFields(A)
    <3>1. CASE d = <<>>
      BY <3>1
    <3>2. CASE d = <<D>> /\ D \in DetailFields(A)
      BY <1>4, <3>2
    <3> QED
      BY <1>3, <3>1, <3>2
  <2> HIDE DEF p, r
  <2>4. (p \o r) \o d = p \o (r \o d)
    BY <2>1, <2>3, ConcatAssoc
  <2>5. /\ r \o d \in Seq(U) /\ Len(r \o d) = Len(r) + Len(d)
        /\ \A i \in 1..Len(r) : (r \o d)[i] = r[i]
        /\ \A i \in 1..Len(d) : (r \o d)[Len(r) + i] = d[i]
    <3>1. r \in Seq(U) /\ d \in Seq(U)
      BY <2>1, <2>3
    <3> QED
      BY <3>1, ConcatIs
  <2>6. rest = r \o d
    BY DEF r
  <2> HIDE DEF rest
  <2>7. \A i \in 1..Len(rest) : rest[i] = R \/ rest[i] \in DetailFields(A)
    <3> TAKE i \in 1..Len(rest)
    <3>1. Len(d) \in Nat /\ Len(rest) = 1 + Len(d)
      BY <2>1, <2>3, <2>5, <2>6
    <3>2. i = 1 \/ (i - 1 \in 1..Len(d) /\ 1 + (i - 1) = i)
      BY <3>1
    <3> QED
      BY <2>1, <2>3, <2>5, <2>6, <3>2
  <2>8. Len(rest) <= 2
    BY <2>1, <2>3, <2>5, <2>6
  <2> QED
    BY <1>1, <2>2, <2>4, <2>5, <2>6, <2>7, <2>8 DEF p
<1> HIDE DEF rest
<1>6. <<P>> \o rest \in Seq(U) /\ Len(<<P>> \o rest) <= 3
  BY <1>2, <1>5
<1>7. ASSUME NEW G, P \in G, R \notin G, DetailFields(A) \cap G = {}
      PROVE  Filter(AlertFields(a), G) = <<P>>
  <2>1. \A i \in 1..Len(rest) : rest[i] \notin G
    BY <1>5, <1>7
  <2>2. Filter(<<P>> \o rest, G) = <<P>>
    BY <1>2, <1>5, <1>7, <2>1, FilterFirst
  <2> QED
    BY <1>5, <2>2
<1>8. AlertFields(a) \in Seq(U) /\ Len(AlertFields(a)) <= 3
  BY <1>5, <1>6
<1> QED
  BY <1>7, <1>8 DEF P, R, U

\* The fields of one attachment.
AllFields(chunk) == FlattenSeq(Map(chunk, AlertFields))

\* Three for each alert at most, and one for each policy.
LEMMA ChunkFields ==
    ASSUME NEW A, NEW chunk \in Seq(A)
    PROVE  /\ AllFields(chunk) \in Seq(FieldsFrom(A)) /\ Len(AllFields(chunk)) <= 3 * Len(chunk)
           /\ \A G : (\A a \in A : PolicyField(a) \in G) /\ ReportField \notin G
                        /\ DetailFields(A) \cap G = {}
                        => Filter(AllFields(chunk), G) = Image(chunk, PolicyFields(A))
<1> DEFINE n == Len(chunk)
           U == FieldsFrom(A)
           seqs == Map(chunk, AlertFields)
           img == Image(chunk, PolicyFields(A))
<1>1. n \in Nat /\ DOMAIN chunk = 1..n /\ \A i \in 1..n : chunk[i] \in A
  OBVIOUS
<1> HIDE DEF n
<1>2. seqs = [i \in 1..n |-> AlertFields(chunk[i])]
  BY <1>1 DEF Map
<1> HIDE DEF seqs
<1>3. \A i \in 1..n : seqs[i] = AlertFields(chunk[i]) /\ seqs[i] \in Seq(U) /\ Len(seqs[i]) <= 3
  BY <1>1, <1>2, OneAlert
<1>4. seqs \in Seq(Seq(U)) /\ Len(seqs) = n
  <2>1. seqs = [i \in 1..n |-> seqs[i]] /\ \A i \in 1..n : seqs[i] \in Seq(U)
    BY <1>2, <1>3
  <2> QED
    BY <1>1, <2>1, Tabulated, Zenon
<1>5. FlattenSeq(seqs) \in Seq(U)
  BY <1>4, FlattenType, Zenon
<1>6. Len(FlattenSeq(seqs)) <= 3 * n
  <2>1. 3 \in Nat /\ \A i \in 1..Len(seqs) : Len(seqs[i]) <= 3
    BY <1>3, <1>4
  <2>2. Len(FlattenSeq(seqs)) <= 3 * Len(seqs)
    BY <1>4, <2>1, FlattenLength, Zenon
  <2> QED
    BY <1>4, <2>2
<1>7. ASSUME NEW G, \A a \in A : PolicyField(a) \in G, ReportField \notin G,
             DetailFields(A) \cap G = {}
      PROVE  Filter(FlattenSeq(seqs), G) = img
  <2> DEFINE parts == [i \in DOMAIN img |-> <<img[i]>>]
  <2>1. img \in Seq(U) /\ Len(img) = n /\ \A i \in 1..n : img[i] = PolicyField(chunk[i])
    <3>1. Into(PolicyFields(A), A, U)
      BY DEF Into, PolicyFields, FieldsFrom
    <3>2. /\ img \in Seq(U) /\ Len(img) = Len(chunk)
          /\ \A i \in 1..Len(chunk) : img[i] = PolicyFields(A)[chunk[i]]
      BY <3>1, ImageType
    <3>3. \A i \in 1..n : PolicyFields(A)[chunk[i]] = PolicyField(chunk[i])
      BY <1>1 DEF PolicyFields
    <3> HIDE DEF img
    <3> QED
      BY <3>2, <3>3 DEF n
  <2> HIDE DEF img
  <2>2. FlattenSeq(parts) = img
    BY <2>1, FlattenSingletons, Zenon
  <2>3. DOMAIN img = 1..n
    BY <2>1
  <2>4. parts = [i \in 1..n |-> <<img[i]>>]
    BY <2>3
  <2> HIDE DEF parts
  <2>5. \A i \in 1..n : parts[i] = <<img[i]>> /\ parts[i] \in Seq(U)
    <3> TAKE i \in 1..n
    <3>1. parts[i] = <<img[i]>> /\ img[i] \in U
      BY <2>1, <2>4
    <3> QED
      BY <3>1
  <2>6. parts \in Seq(Seq(U)) /\ Len(parts) = n
    <3>1. parts = [i \in 1..n |-> parts[i]] /\ \A i \in 1..n : parts[i] \in Seq(U)
      BY <2>4, <2>5
    <3> QED
      BY <1>1, <3>1, Tabulated, Zenon
  <2>7. \A i \in 1..n : parts[i] = Filter(seqs[i], G)
    <3> TAKE i \in 1..n
    <3>1. chunk[i] \in A /\ seqs[i] = AlertFields(chunk[i]) /\ parts[i] = <<PolicyField(chunk[i])>>
      BY <1>1, <1>3, <2>1, <2>5
    <3>2. Filter(AlertFields(chunk[i]), G) = <<PolicyField(chunk[i])>>
      BY <1>7, <3>1, OneAlert, Zenon
    <3> QED
      BY <3>1, <3>2, Zenon
  <2>8. Filter(FlattenSeq(seqs), G) = FlattenSeq(parts)
    <3>1. seqs \in Seq(Seq(U)) /\ parts \in Seq(Seq(U)) /\ Len(parts) = Len(seqs)
      BY <1>4, <2>6
    <3>2. \A i \in 1..Len(seqs) : parts[i] = Filter(seqs[i], G)
      BY <1>4, <2>7
    <3> QED
      BY <3>1, <3>2, FilterFlatten
  <2> QED
    BY <2>2, <2>8, Zenon
<1>8. AllFields(chunk) = FlattenSeq(seqs)
  BY DEF AllFields, seqs
<1> QED
  BY <1>5, <1>6, <1>7, <1>8 DEF n

\* The fields with a title, as a filter.
TitledIn(V, title) == {v \in V : v.title = title}

\* Reading the fields with a title is filtering by it.
LEMMA TitleFilter ==
    ASSUME NEW V, NEW fields \in Seq(V), NEW title
    PROVE  OfTitle(fields, title) = Filter(fields, TitledIn(V, title))
<1> DEFINE I == {i \in DOMAIN fields : fields[i].title = title}
           J == {i \in DOMAIN fields : fields[i] \in TitledIn(V, title)}
<1>1. \A i \in DOMAIN fields : fields[i] \in V
  OBVIOUS
<1>2. \A i \in DOMAIN fields : i \in I <=> i \in J
  BY <1>1 DEF TitledIn
<1>3. OfTitle(fields, title) = Subsequence(fields, I)
  BY DEF OfTitle
<1>4. Filter(fields, TitledIn(V, title)) = Subsequence(fields, J)
  BY DEF Filter
<1> HIDE DEF I, J
<1>5. Subsequence(fields, I) = Subsequence(fields, J)
  BY <1>2, SubsequenceSame
<1> QED
  BY <1>3, <1>4, <1>5

\* The alerts shown, those left out, and the slices of those shown.
ShownAlerts(alerts) == First(alerts, Shown(alerts))
OmittedAlerts(alerts) == SubSeq(alerts, Shown(alerts) + 1, Len(alerts))
AlertChunks(alerts) == Chunks(ShownAlerts(alerts), PoliciesPerChunk)

\* If alerts are left out, the last slice has room for a note of it.
LEMMA AlertsCut ==
    ASSUME NEW A, NEW alerts \in Seq(A), alerts # <<>>
    PROVE  /\ ShownAlerts(alerts) \in Seq(A) /\ OmittedAlerts(alerts) \in Seq(A)
           /\ AlertChunks(alerts) \in Seq(Seq(A))
           /\ Len(AlertChunks(alerts)) \in 1..MaxAttachments
           /\ \A c \in 1..Len(AlertChunks(alerts)) :
                 Len(AlertChunks(alerts)[c]) \in 1..PoliciesPerChunk
           /\ OmittedAlerts(alerts) # <<>> =>
                 Len(AlertChunks(alerts)[Len(AlertChunks(alerts))]) <= LastChunkWithOverflow
<1> DEFINE N == Len(alerts)
           k == Shown(alerts)
           shown == ShownAlerts(alerts)
           omitted == OmittedAlerts(alerts)
           size == PoliciesPerChunk
           q == (k + size - 1) \div size
           chunks == AlertChunks(alerts)
<1>1. k \in 0..N /\ N \in Nat \ {0} /\ k <= MaxAttachments * size
  BY ShownFits
<1>2. shown \in Seq(A) /\ Len(shown) = k
  BY <1>1 DEF ShownAlerts, First, Least
<1>3. omitted \in Seq(A) /\ Len(omitted) = N - k
  <2>1. omitted = SubSeq(alerts, k + 1, N)
    BY DEF OmittedAlerts
  <2> HIDE DEF k, omitted
  <2> QED
    BY <1>1, <2>1
<1>4. size \in Nat \ {0} /\ MaxAttachments \in Nat \ {0} /\ LastChunkWithOverflow \in 1..size
  BY Limits
<1>5. /\ q \in Nat /\ chunks \in Seq(Seq(A)) /\ Len(chunks) = q
      /\ k <= q * size /\ q * size < k + size
      /\ \A c \in 1..q : /\ (c - 1) * size + 1 \in 1..k
                         /\ Least(c * size, k) \in ((c - 1) * size + 1)..k
  <2> HIDE DEF shown, k, size
  <2>1. chunks = Chunks(shown, size)
    BY DEF AlertChunks, shown, size
  <2>2. shown \in Seq(A) /\ size \in Nat \ {0}
    BY <1>2, <1>4
  <2>3. (Len(shown) + size - 1) \div size = q
    BY <1>2
  <2> HIDE DEF q, chunks
  <2> QED
    BY <1>2, <2>1, <2>2, <2>3, ChunkBounds
<1>6. \A c \in 1..q : Len(chunks[c]) \in 1..size
  <2> TAKE c \in 1..q
  <2> HIDE DEF shown, size, q
  <2>1. chunks = Chunks(shown, size)
    BY DEF AlertChunks, shown, size
  <2>2. shown \in Seq(A) /\ size \in Nat \ {0} /\ c \in DOMAIN Chunks(shown, size)
    <3>1. DOMAIN chunks = 1..q
      <4> HIDE DEF chunks
      <4> QED
        BY <1>5
    <3> QED
      BY <1>2, <1>4, <2>1, <3>1
  <2> HIDE DEF chunks
  <2> QED
    BY <2>1, <2>2, ChunkSizes
<1>7. q \in 1..MaxAttachments
  <2>1. Len(FormatAlerts(alerts).attachments) \in 1..MaxAttachments
    BY AlertAttachmentsBounded, Zenon
  <2>2. Len(FormatAlerts(alerts).attachments) = q
    <3> DEFINE at == FormatAlerts(alerts).attachments
    <3>1. DOMAIN chunks = 1..q
      <4> HIDE DEF chunks, q
      <4> QED
        BY <1>5
    <3>2. DOMAIN at = DOMAIN chunks
      BY DEF FormatAlerts, AlertChunks, ShownAlerts
    <3> HIDE DEF at, q, chunks
    <3>3. Len(at) = q
      BY <1>5, <3>1, <3>2
    <3> QED
      BY <3>3 DEF at
  <2> HIDE DEF q
  <2> QED
    BY <2>1, <2>2
<1>8. ASSUME omitted # <<>>
      PROVE  Len(chunks[q]) <= LastChunkWithOverflow
  <2>1. k < N
    <3> HIDE DEF omitted, k
    <3> QED
      BY <1>1, <1>3, <1>8
  <2> DEFINE M == (MaxAttachments - 1) * size
  <2>2. k = M + LastChunkWithOverflow /\ M \in Nat
    <3>1. k = M + LastChunkWithOverflow
      BY <2>1 DEF Shown
    <3> HIDE DEF k
    <3> QED
      BY <1>4, <3>1
  <2>3. q = MaxAttachments
    <3>1. M + size = MaxAttachments * size
      BY <1>4
    <3>2. ~(q < MaxAttachments)
      <4> SUFFICES ASSUME q < MaxAttachments PROVE FALSE
        OBVIOUS
      <4> HIDE DEF q, k
      <4>1. q * size + size <= MaxAttachments * size
        BY <1>4, <1>5, WholeSteps
      <4>2. q * size \in Int /\ MaxAttachments * size \in Int
        BY <1>4, <1>5
      <4> DEFINE x == q * size
                 y == MaxAttachments * size
                 l == LastChunkWithOverflow
      <4>3. /\ x \in Int /\ y \in Int /\ M \in Int /\ size \in Int /\ l \in Int /\ 0 < l
            /\ k = M + l /\ k <= x /\ x + size <= y /\ M + size = y
        BY <1>4, <1>5, <2>2, <3>1, <4>1, <4>2
      <4> HIDE DEF M, x, y, l, size
      <4> QED
        BY <4>3
    <3> HIDE DEF q
    <3> QED
      BY <1>4, <1>7, <3>2
  <2>4. Len(chunks[q]) = k - (q - 1) * size
    <3> DEFINE lo == (q - 1) * size + 1
               hi == Least(q * size, k)
    <3>1. q \in 1..q
      <4> HIDE DEF q
      <4> QED
        BY <1>7
    <3>2. chunks[q] = SubSeq(shown, lo, hi)
      <4>1. chunks = [c \in 1..q |-> SubSeq(shown, (c - 1) * size + 1, Least(c * size, k))]
        BY <1>2 DEF AlertChunks, Chunks
      <4> HIDE DEF q, k, shown, chunks
      <4> QED
        BY <3>1, <4>1
    <3>3. hi = k
      <4>1. q * size \in Int /\ k \in Int /\ k <= q * size
        <5> HIDE DEF q, k
        <5> QED
          BY <1>1, <1>4, <1>5
      <4> HIDE DEF q, k
      <4> QED
        BY <4>1 DEF Least
    <3>4. lo \in 1..k
      <4> HIDE DEF q, k
      <4> QED
        BY <1>5, <3>1
    <3> HIDE DEF lo, hi, k, shown
    <3>5. Len(SubSeq(shown, lo, k)) = k - lo + 1
      BY <1>1, <1>2, <3>4
    <3>6. (q - 1) * size \in Int
      <4> HIDE DEF q
      <4> QED
        BY <1>4, <1>5
    <3> HIDE DEF q
    <3> QED
      BY <1>1, <3>2, <3>3, <3>5, <3>6 DEF lo
  <2>5. (q - 1) * size = M
    <3> HIDE DEF q
    <3> QED
      BY <2>3
  <2> HIDE DEF M, q, k, chunks
  <2> QED
    BY <1>4, <2>2, <2>4, <2>5
<1> HIDE DEF q, k, chunks, shown, omitted
<1>9. Len(chunks) = q
  BY <1>5
<1> QED
  BY <1>2, <1>3, <1>5, <1>6, <1>7, <1>8, <1>9 DEF chunks, shown, omitted

\* The note of what is left out.
NoteField(omitted) ==
    [title    |-> "Additional Policies",
     policies |-> Len(omitted),
     orgs     |-> Cardinality(Orgs(omitted)),
     failed   |-> Sum(Map(omitted, LAMBDA a : a.failed))]

\* The message for alerts keeps the limits of Slack, shows the first policies,
\* notes the others, and details no other policy than those of the alerts.
LEMMA AlertsMessage ==
    ASSUME NEW A, NEW alerts \in Seq(A), alerts # <<>>
    PROVE  /\ WithinLimits(FormatAlerts(alerts))
           /\ Titled(FormatAlerts(alerts), "Policy")
                  = Image(ShownAlerts(alerts), PolicyFields(A))
           /\ Titled(FormatAlerts(alerts), "Additional Policies")
                  = Omitted(OmittedAlerts(alerts))
           /\ Titled(FormatAlerts(alerts), "Failure Details") \in Seq(DetailFields(A))
<1> DEFINE message == FormatAlerts(alerts)
           shown == ShownAlerts(alerts)
           omitted == OmittedAlerts(alerts)
           chunks == AlertChunks(alerts)
           n == Len(chunks)
           fields == [c \in 1..n |-> AllFields(chunks[c])]
           N == NoteField(omitted)
           note == Omitted(omitted)
           F == FieldsFrom(A)
           U == F \cup {N}
           V == U \cup {RunID}
           tail == note \o <<RunID>>
           all == FlattenSeq(fields) \o tail
<1>1. /\ shown \in Seq(A) /\ chunks \in Seq(Seq(A)) /\ n \in 1..MaxAttachments
      /\ \A c \in 1..n : Len(chunks[c]) \in 1..PoliciesPerChunk
      /\ omitted # <<>> => Len(chunks[n]) <= LastChunkWithOverflow
  BY AlertsCut
<1>2. n \in Nat \ {0} /\ n \in Nat /\ n \in 1..n /\ DOMAIN chunks = 1..n
  <2>1. MaxAttachments \in Nat
    BY Limits
  <2> HIDE DEF chunks
  <2> QED
    BY <1>1, <2>1
<1>3. N.title = "Additional Policies" /\ note = IF omitted = <<>> THEN <<>> ELSE <<N>>
  BY DEF NoteField, Omitted
<1>4. /\ \A a \in A : PolicyField(a).title = "Policy"
      /\ ReportField.title = "Report ID"
      /\ \A f \in DetailFields(A) : f.title = "Failure Details"
      /\ RunID.title = "Run ID" /\ RunID \notin F
  BY FieldTitles
<1>5. \A v \in F : v.title \in {"Policy", "Report ID", "Failure Details"}
  BY <1>4 DEF FieldsFrom
<1>6. RunID \notin U
  BY <1>3, <1>4
<1>7. /\ message.kind = "alerts"
      /\ message.attachments = [c \in DOMAIN chunks |->
             IF c < n THEN AllFields(chunks[c])
             ELSE AllFields(chunks[c]) \o note \o <<RunID>>]
  BY DEF FormatAlerts, AllFields, AlertChunks, ShownAlerts, OmittedAlerts
<1> HIDE DEF message, shown, omitted, chunks, n, N, note, F
<1>8. \A c \in 1..n : chunks[c] \in Seq(A)
  BY <1>1, <1>2
<1>9. \A c \in 1..n : AllFields(chunks[c]) \in Seq(F) /\ Len(AllFields(chunks[c])) <= 3 * Len(chunks[c])
  BY <1>8, ChunkFields DEF F
<1>10. \A c \in 1..n : fields[c] = AllFields(chunks[c])
  OBVIOUS
<1>11. fields = [c \in 1..n |-> fields[c]]
  OBVIOUS
<1> HIDE DEF fields
<1>12. \A c \in 1..n : fields[c] \in Seq(F) /\ fields[c] \in Seq(U) /\ fields[c] \in Seq(V)
  BY <1>9, <1>10
<1>13. /\ fields \in Seq(Seq(F)) /\ fields \in Seq(Seq(U)) /\ fields \in Seq(Seq(V))
       /\ Len(fields) = n
  <2> HIDE DEF U, V
  <2> QED
    BY <1>2, <1>11, <1>12, Tabulated, Zenon
<1>14. note \in Seq(U) /\ note \in Seq(V) /\ Len(note) <= 1 /\ <<RunID>> \in Seq(V)
  <2>1. <<RunID>> \in Seq(V) /\ N \in U /\ N \in V
    OBVIOUS
  <2> HIDE DEF U, V
  <2>2. CASE omitted = <<>>
    <3>1. note = <<>>
      BY <1>3, <2>2
    <3> QED
      BY <2>1, <3>1
  <2>3. CASE omitted # <<>>
    <3>1. note = <<N>>
      BY <1>3, <2>3
    <3> QED
      BY <2>1, <3>1
  <2> QED
    BY <2>2, <2>3
<1>15. Attached(message, fields, note, n)
  <2>1. \A c \in 1..n : AllFields(chunks[c]) \o note \o <<RunID>> = fields[c] \o (note \o <<RunID>>)
    <3> TAKE c \in 1..n
    <3> DEFINE x == fields[c]
               r == <<RunID>>
    <3>1. x \in Seq(V) /\ note \in Seq(V) /\ r \in Seq(V)
      BY <1>12, <1>14
    <3>2. AllFields(chunks[c]) = x
      BY <1>10
    <3> HIDE DEF x, r, V
    <3>3. (x \o note) \o r = x \o (note \o r)
      BY <3>1, ConcatAssoc
    <3> QED
      BY <3>2, <3>3 DEF x, r
  <2> QED
    BY <1>2, <1>7, <1>10, <2>1 DEF Attached
<1>16. /\ \A c \in 1..n : Len(fields[c]) <= MaxFields
       /\ Len(fields[n]) + Len(note) + 1 <= MaxFields
  <2>1. /\ MaxFields \in Nat /\ PoliciesPerChunk \in Nat /\ LastChunkWithOverflow \in Nat
        /\ 3 * PoliciesPerChunk + 1 <= MaxFields /\ 3 * LastChunkWithOverflow + 2 <= MaxFields
    BY FormatAssumption DEF FormatBounds
  <2>2. ASSUME NEW c \in 1..n
        PROVE  /\ Len(fields[c]) \in Nat /\ Len(chunks[c]) \in 1..PoliciesPerChunk
               /\ Len(fields[c]) <= 3 * Len(chunks[c])
    <3>1. Len(fields[c]) <= 3 * Len(chunks[c]) /\ Len(chunks[c]) \in 1..PoliciesPerChunk
      BY <1>1, <1>9, <1>10
    <3>2. Len(fields[c]) \in Nat
      <4> DEFINE x == fields[c]
      <4>1. x \in Seq(F)
        BY <1>12
      <4> HIDE DEF x
      <4>2. Len(x) \in Nat
        BY <4>1
      <4> QED
        BY <4>2 DEF x
    <3> QED
      BY <3>1, <3>2
  <2>3. \A c \in 1..n : Len(fields[c]) <= MaxFields
    BY <2>1, <2>2
  <2>4. Len(fields[n]) + Len(note) + 1 <= MaxFields
    <3> DEFINE l == Len(fields[n])
               k == Len(chunks[n])
    <3>1. l \in Nat /\ k \in 1..PoliciesPerChunk /\ l <= 3 * k
      BY <1>2, <2>2
    <3> HIDE DEF l, k
    <3>2. CASE omitted = <<>>
      <4>1. Len(note) = 0
        BY <1>3, <3>2
      <4>2. l + 0 + 1 <= MaxFields
        BY <2>1, <3>1
      <4> QED
        BY <4>1, <4>2 DEF l
    <3>3. CASE omitted # <<>>
      <4>1. Len(note) = 1 /\ k <= LastChunkWithOverflow
        BY <1>1, <1>3, <3>3 DEF k
      <4>2. l + 1 + 1 <= MaxFields
        BY <2>1, <3>1, <4>1
      <4> QED
        BY <4>1, <4>2 DEF l
    <3> QED
      BY <3>2, <3>3
  <2> QED
    BY <2>3, <2>4
<1>17. WithinLimits(message) /\ FieldsOf(message) = all
  <2>1. n <= MaxAttachments
    <3>1. MaxAttachments \in Nat
      BY Limits
    <3> QED
      BY <1>1, <3>1
  <2>2. n \in Nat \ {0} /\ fields \in Seq(Seq(U)) /\ Len(fields) = n /\ note \in Seq(U)
    BY <1>2, <1>13, <1>14
  <2> HIDE DEF U
  <2> QED
    BY <1>6, <1>15, <1>16, <2>1, <2>2, LastAttachment
<1> HIDE DEF all, tail
<1> DEFINE flat == FlattenSeq(fields)
<1>18. flat \in Seq(F) /\ flat \in Seq(V)
  <2> HIDE DEF V
  <2> QED
    BY <1>13, FlattenType, Zenon
<1>19. tail \in Seq(V) /\ (omitted = <<>> => tail = <<RunID>>) /\ (omitted # <<>> => tail = <<N>> \o <<RunID>>)
  <2>1. <<>> \o <<RunID>> = <<RunID>>
    OBVIOUS
  <2>2. note \in Seq(V) /\ <<RunID>> \in Seq(V)
    BY <1>14
  <2>3. tail \in Seq(V)
    <3> HIDE DEF V
    <3> DEFINE r == <<RunID>>
    <3>1. r \in Seq(V)
      BY <2>2
    <3> HIDE DEF r
    <3>2. note \o r \in Seq(V)
      BY <2>2, <3>1
    <3> QED
      BY <3>2 DEF r, tail
  <2> QED
    BY <1>3, <2>1, <2>3 DEF tail
<1>20. all = flat \o tail
  BY DEF all
<1> HIDE DEF flat
<1>21. all \in Seq(V)
  <2> HIDE DEF V
  <2> QED
    BY <1>18, <1>19, <1>20, ConcatIs
<1>22. ASSUME NEW title
       PROVE  /\ Titled(message, title) = Filter(all, TitledIn(V, title))
              /\ Filter(all, TitledIn(V, title))
                     = Filter(flat, TitledIn(V, title)) \o Filter(tail, TitledIn(V, title))
  <2> DEFINE G == TitledIn(V, title)
  <2> HIDE DEF V
  <2>1. OfTitle(all, title) = Filter(all, G)
    BY <1>21, TitleFilter
  <2>2. Titled(message, title) = OfTitle(all, title)
    BY <1>17 DEF Titled
  <2> HIDE DEF G
  <2>3. Filter(flat \o tail, G) = Filter(flat, G) \o Filter(tail, G)
    <3>1. flat \in Seq(V) /\ tail \in Seq(V)
      BY <1>18, <1>19
    <3> QED
      BY <3>1, FilterConcat
  <2> QED
    BY <1>20, <2>1, <2>2, <2>3 DEF G
<1>23. \A i \in 1..Len(flat) : flat[i] \in F
  BY <1>18
<1>24. Titled(message, "Additional Policies") = note
  <2> DEFINE G == TitledIn(V, "Additional Policies")
  <2>1. \A i \in 1..Len(flat) : flat[i] \notin G
    BY <1>5, <1>23 DEF TitledIn
  <2>2. N \in G /\ RunID \notin G /\ N \in V /\ RunID \in V
    BY <1>3, <1>4 DEF TitledIn
  <2>3. Titled(message, "Additional Policies") = Filter(flat, G) \o Filter(tail, G)
    BY <1>22
  <2> HIDE DEF G, V
  <2>4. Filter(flat, G) = <<>>
    BY <1>18, <2>1, FilterNone
  <2>5. Filter(tail, G) = note
    <3>1. CASE omitted = <<>>
      <4>1. Filter(<<RunID>>, G) = <<>>
        BY <2>2, FilterOne
      <4> QED
        BY <1>3, <1>19, <3>1, <4>1
    <3>2. CASE omitted # <<>>
      <4> DEFINE r == <<RunID>>
      <4>1. r \in Seq(V) /\ \A i \in 1..Len(r) : r[i] \notin G
        BY <2>2
      <4>2. tail = <<N>> \o r
        BY <1>19, <3>2
      <4> HIDE DEF r
      <4>3. Filter(<<N>> \o r, G) = <<N>>
        BY <2>2, <4>1, FilterFirst
      <4> QED
        BY <1>3, <3>2, <4>2, <4>3
    <3> QED
      BY <3>1, <3>2
  <2>6. <<>> \o note = note
    BY <1>14
  <2> QED
    BY <2>3, <2>4, <2>5, <2>6
<1>25. Titled(message, "Failure Details") \in Seq(DetailFields(A))
  <2> DEFINE G == TitledIn(V, "Failure Details")
  <2>1. G \subseteq DetailFields(A)
    BY <1>3, <1>4 DEF TitledIn, F, FieldsFrom
  <2>2. Titled(message, "Failure Details") = Filter(all, G)
    BY <1>22
  <2> HIDE DEF G, V
  <2> DEFINE x == Filter(all, G)
  <2>3. x \in Seq(G)
    BY <1>21, FilterPasses
  <2> HIDE DEF x
  <2>4. x \in Seq(DetailFields(A))
    BY <2>1, <2>3
  <2> QED
    BY <2>2, <2>4 DEF x
<1>26. Titled(message, "Policy") = Image(shown, PolicyFields(A))
  <2> DEFINE G == TitledIn(V, "Policy")
             parts == [c \in 1..n |-> Image(chunks[c], PolicyFields(A))]
  <2>1. /\ \A a \in A : PolicyField(a) \in G
        /\ ReportField \notin G /\ DetailFields(A) \cap G = {}
        /\ N \notin G /\ RunID \notin G
    BY <1>3, <1>4 DEF TitledIn, F, FieldsFrom
  <2>2. Titled(message, "Policy") = Filter(flat, G) \o Filter(tail, G)
    BY <1>22
  <2> HIDE DEF G, V
  <2>3. Filter(tail, G) = <<>>
    <3>1. Filter(<<RunID>>, G) = <<>> /\ Filter(<<N>>, G) = <<>>
      BY <2>1, FilterOne
    <3>2. CASE omitted = <<>>
      BY <1>19, <3>1, <3>2
    <3>3. CASE omitted # <<>>
      <4> DEFINE r == <<RunID>>
                 m == <<N>>
      <4>1. r \in Seq(V) /\ m \in Seq(V)
        BY DEF V
      <4>2. tail = m \o r
        BY <1>19, <3>3
      <4>3. Filter(r, G) = <<>> /\ Filter(m, G) = <<>>
        BY <3>1
      <4> HIDE DEF r, m
      <4>4. Filter(m \o r, G) = Filter(m, G) \o Filter(r, G)
        BY <4>1, FilterConcat
      <4>5. <<>> \o <<>> = <<>>
        OBVIOUS
      <4> QED
        BY <4>2, <4>3, <4>4, <4>5
    <3> QED
      BY <3>2, <3>3
  <2>4. \A c \in 1..n : parts[c] = Image(chunks[c], PolicyFields(A))
    OBVIOUS
  <2>5. parts = [c \in 1..n |-> parts[c]]
    OBVIOUS
  <2> HIDE DEF parts
  <2>6. Into(PolicyFields(A), A, F)
    BY DEF Into, PolicyFields, F, FieldsFrom
  <2>7. \A c \in 1..n : parts[c] \in Seq(F)
    <3> TAKE c \in 1..n
    <3>1. chunks[c] \in Seq(A)
      BY <1>8
    <3>2. Image(chunks[c], PolicyFields(A)) \in Seq(F)
      BY <2>6, <3>1, ImageType, Zenon
    <3> QED
      BY <2>4, <3>2
  <2>8. parts \in Seq(Seq(F)) /\ Len(parts) = n
    BY <1>2, <2>5, <2>7, Tabulated, Zenon
  <2>9. \A c \in 1..n : parts[c] = Filter(fields[c], G)
    <3> TAKE c \in 1..n
    <3>1. chunks[c] \in Seq(A)
      BY <1>8
    <3>2. Filter(AllFields(chunks[c]), G) = Image(chunks[c], PolicyFields(A))
      BY <2>1, <3>1, ChunkFields, Zenon
    <3> QED
      BY <1>10, <2>4, <3>2
  <2>10. Filter(flat, G) = FlattenSeq(parts)
    <3>1. fields \in Seq(Seq(F)) /\ parts \in Seq(Seq(F)) /\ Len(parts) = Len(fields)
      BY <1>13, <2>8
    <3>2. \A c \in 1..Len(fields) : parts[c] = Filter(fields[c], G)
      BY <1>13, <2>9
    <3> QED
      BY <3>1, <3>2, FilterFlatten DEF flat
  <2>11. FlattenSeq(parts) = Image(FlattenSeq(chunks), PolicyFields(A))
    <3>1. chunks \in Seq(Seq(A)) /\ parts \in Seq(Seq(F)) /\ Len(parts) = Len(chunks)
      BY <1>1, <2>8 DEF n
    <3>2. \A c \in 1..Len(chunks) : parts[c] = Image(chunks[c], PolicyFields(A))
      BY <2>4 DEF n
    <3>3. ImagesJoined(parts, chunks, PolicyFields(A))
      BY <2>6, <3>1, <3>2, ImageFlatten, Zenon
    <3> QED
      BY <3>3 DEF ImagesJoined
  <2>12. FlattenSeq(chunks) = shown
    <3>1. chunks = Chunks(shown, PoliciesPerChunk)
      BY DEF chunks, AlertChunks, shown
    <3>2. PoliciesPerChunk \in Nat \ {0}
      BY Limits
    <3> QED
      BY <1>1, <3>1, <3>2, ChunksJoined
  <2>13. Image(shown, PolicyFields(A)) \in Seq(F)
    BY <1>1, <2>6, ImageType, Zenon
  <2> DEFINE z == Image(shown, PolicyFields(A))
  <2>14. z \o <<>> = z
    <3> HIDE DEF z
    <3> QED
      BY <2>13 DEF z
  <2> QED
    BY <2>2, <2>3, <2>10, <2>11, <2>12, <2>14
<1> QED
  BY <1>17, <1>24, <1>25, <1>26 DEF message, note, omitted, shown

-----------------------------------------------------------------------------
(* The messages with one attachment.                                       *)

\* A message that has one attachment, its fields and then the Run ID, keeps the
\* limits of Slack when the fields leave room for the ID.
LEMMA OneAttachment ==
    ASSUME NEW U, RunID \notin U, NEW fields \in Seq(U), NEW message,
           message.attachments = << fields \o <<RunID>> >>,
           Len(fields) + 1 <= MaxFields
    PROVE  WithinLimits(message) /\ FieldsOf(message) = fields \o <<RunID>>
<1> DEFINE V == U \cup {RunID}
           at == message.attachments
           y == fields \o <<RunID>>
           n == Len(fields)
<1>1. fields \in Seq(V) /\ RunID \in V /\ n \in Nat
  OBVIOUS
<1>2. y \in Seq(V) /\ Len(y) = n + 1 /\ y[n + 1] = RunID
      /\ \A j \in 1..n : y[j] = fields[j]
  <2> HIDE DEF V
  <2> QED
    BY <1>1, OneMore
<1>3. \A j \in 1..n : y[j] # RunID
  BY <1>2
<1> HIDE DEF y
<1>4. at = <<y>>
  BY DEF y
<1> HIDE DEF at, V, n
<1>5. DOMAIN at = {1} /\ Len(at) = 1 /\ at[1] = y
  BY <1>4
<1>6. DOMAIN y = 1..(n + 1)
  BY <1>1, <1>2
<1>7. {j \in DOMAIN y : y[j] = RunID} = {n + 1}
  <2>1. n + 1 \in 1..(n + 1) /\ \A j \in 1..(n + 1) : j \in 1..n \/ j = n + 1
    BY <1>1
  <2> QED
    BY <1>2, <1>3, <1>6, <2>1
<1>8. RunIDs(message) = {<<1, n + 1>>}
  <2>1. RunIDs(message) = UNION {{c} \X {j \in DOMAIN at[c] : at[c][j] = RunID} : c \in DOMAIN at}
    BY DEF RunIDs, at
  <2>2. RunIDs(message) = {1} \X {j \in DOMAIN y : y[j] = RunID}
    BY <1>5, <2>1
  <2> QED
    BY <1>7, <2>2
<1>9. FlattenSeq(at) = y
  <2>1. FlattenSeq(at) = FlattenSeq(<<y>>)
    BY <1>4
  <2> QED
    BY <2>1 DEF FlattenSeq
<1>10. Len(y) <= MaxFields
  BY <1>2 DEF n
<1>11. WithinLimits(message)
  <2>1. \A c \in DOMAIN at : Len(at[c]) <= MaxFields
    BY <1>5, <1>10
  <2>2. RunIDs(message) = {<<Len(at), Len(at[Len(at)])>>}
    BY <1>2, <1>5, <1>8
  <2>3. Len(at) <= MaxAttachments
    BY <1>5, Limits
  <2> QED
    BY <2>1, <2>2, <2>3 DEF WithinLimits, at
<1> QED
  BY <1>9, <1>11 DEF FieldsOf, at, y

-----------------------------------------------------------------------------
(* The message for a summary.                                              *)

\* The field for an organization.
OrgField(summary) ==
    [org \in DOMAIN summary.stats |->
        [title |-> "Organization", org |-> org, sessions |-> summary.stats[org]]]

\* The message for a summary keeps the limits of Slack, if its organizations fit,
\* and has one field for each of them.
LEMMA SummaryMessage ==
    ASSUME NEW summary, IsFiniteSet(DOMAIN summary.stats)
    PROVE  /\ WithinLimits(FormatSummary(summary))
           /\ Titled(FormatSummary(summary), "Organization")
                  = Image(SetToSeq(DOMAIN summary.stats), OrgField(summary))
<1> DEFINE D == DOMAIN summary.stats
           message == FormatSummary(summary)
           orgs == SetToSeq(D)
           g == OrgField(summary)
           F == {g[org] : org \in D}
           V == F \cup {RunID}
           chunks == Chunks(orgs, OrgFields)
           q == Len(chunks)
           img == Image(orgs, g)
           run == <<RunID>>
           parts == [c \in 1..q |-> Image(chunks[c], g)]
<1>1. orgs \in Seq(D)
  BY SetToSeqListed, Zenon
<1>2. /\ MaxFields \in Nat /\ OrgFields \in Nat \ {0} /\ OrgFields + 1 <= MaxFields
      /\ 5 <= MaxFields
  BY FormatAssumption DEF FormatBounds
<1>3. /\ \A org \in D : g[org] = [title |-> "Organization", org |-> org,
                                  sessions |-> summary.stats[org]]
      /\ \A v \in F : v.title = "Organization"
      /\ RunID.title = "Run ID"
  <2>1. g = [org \in D |-> [title |-> "Organization", org |-> org,
                            sessions |-> summary.stats[org]]]
    BY DEF OrgField
  <2>2. RunID.title = "Run ID"
    BY DEF RunID
  <2> HIDE DEF g, D
  <2>3. \A org \in D : g[org] = [title |-> "Organization", org |-> org,
                                 sessions |-> summary.stats[org]]
    BY <2>1
  <2>4. \A org \in D : g[org].title = "Organization"
    <3> TAKE org \in D
    <3> DEFINE n == summary.stats[org]
    <3>1. g[org] = [title |-> "Organization", org |-> org, sessions |-> n]
      BY <2>3
    <3> HIDE DEF n
    <3> QED
      BY <3>1
  <2> QED
    BY <2>2, <2>3, <2>4
<1>4. RunID \notin F
  BY <1>3
<1>5. Into(g, D, F)
  BY DEF Into
<1>6. /\ message.kind = "summary"
      /\ chunks = <<>> => message.attachments = <<run>>
      /\ chunks # <<>> => message.attachments =
             [c \in DOMAIN chunks |->
                 IF c < q THEN Map(chunks[c], LAMBDA org :
                                   [title |-> "Organization", org |-> org,
                                    sessions |-> summary.stats[org]])
                 ELSE Append(Map(chunks[c], LAMBDA org :
                                 [title |-> "Organization", org |-> org,
                                  sessions |-> summary.stats[org]]), RunID)]
  BY DEF FormatSummary
<1> HIDE DEF D, message, orgs, g, chunks
<1>7. /\ chunks \in Seq(Seq(D)) /\ q \in Nat /\ DOMAIN chunks = 1..q
      /\ \A c \in 1..q : chunks[c] \in Seq(D) /\ Len(chunks[c]) \in 1..OrgFields
  <2>1. chunks = Chunks(orgs, OrgFields)
    BY DEF chunks
  <2>2. Chunks(orgs, OrgFields) \in Seq(Seq(D))
    BY <1>1, <1>2, ChunkBounds
  <2>3. chunks \in Seq(Seq(D)) /\ q \in Nat /\ DOMAIN chunks = 1..q
    BY <2>1, <2>2
  <2>4. \A c \in 1..q : Len(chunks[c]) \in 1..OrgFields
    BY <1>1, <1>2, <2>1, <2>3, ChunkSizes
  <2> QED
    BY <2>3, <2>4
<1>8. FlattenSeq(chunks) = orgs
  BY <1>1, <1>2, ChunksJoined DEF chunks
<1>9. ASSUME NEW c \in 1..q
      PROVE  /\ Image(chunks[c], g) = Map(chunks[c], LAMBDA org :
                      [title |-> "Organization", org |-> org, sessions |-> summary.stats[org]])
             /\ Image(chunks[c], g) \in Seq(F) /\ Len(Image(chunks[c], g)) = Len(chunks[c])
  <2> DEFINE x == chunks[c]
  <2>1. x \in Seq(D)
    BY <1>7
  <2> HIDE DEF x
  <2>2. \A i \in DOMAIN x : x[i] \in D
    BY <2>1
  <2>3. Image(x, g) = Map(x, LAMBDA org : [title |-> "Organization", org |-> org,
                                           sessions |-> summary.stats[org]])
    BY <1>3, <2>2 DEF Image, Map
  <2> HIDE DEF F
  <2>4. Image(x, g) \in Seq(F) /\ Len(Image(x, g)) = Len(x)
    BY <1>5, <2>1, ImageType
  <2> QED
    BY <2>3, <2>4 DEF x
<1>10. parts \in Seq(Seq(F)) /\ Len(parts) = q /\ \A c \in 1..q : parts[c] = Image(chunks[c], g)
  <2>1. \A c \in 1..q : parts[c] = Image(chunks[c], g)
    OBVIOUS
  <2>2. parts = [c \in 1..q |-> parts[c]]
    OBVIOUS
  <2>3. \A c \in 1..q : parts[c] \in Seq(F)
    BY <1>9, <2>1
  <2> HIDE DEF parts, F, q
  <2> QED
    BY <1>7, <2>1, <2>2, <2>3, Tabulated, Zenon
<1> HIDE DEF parts, F
<1>11. FlattenSeq(parts) = img
  <2>1. chunks \in Seq(Seq(D)) /\ parts \in Seq(Seq(F)) /\ Len(parts) = Len(chunks)
    BY <1>7, <1>10
  <2>2. \A c \in 1..Len(chunks) : parts[c] = Image(chunks[c], g)
    BY <1>10
  <2>3. ImagesJoined(parts, chunks, g)
    BY <1>5, <2>1, <2>2, ImageFlatten, Zenon
  <2> QED
    BY <1>8, <2>3 DEF ImagesJoined
<1>12. <<>> \o run = run /\ <<>> \in Seq(F) /\ Len(<<>>) = 0
  OBVIOUS
<1>13. /\ (FewEnough(message) => q <= MaxAttachments) => WithinLimits(message)
       /\ FieldsOf(message) = img \o run
  <2>1. CASE chunks = <<>>
    <3> DEFINE none == <<>>
    <3>1. none \in Seq(F) /\ Len(none) = 0 /\ none \o <<RunID>> = run
      BY <1>12
    <3> HIDE DEF none
    <3>2. Len(none) + 1 <= MaxFields
      BY <1>2, <3>1
    <3>3. message.attachments = << none \o <<RunID>> >>
      BY <1>6, <2>1, <3>1
    <3>4. WithinLimits(message) /\ FieldsOf(message) = none \o <<RunID>>
      BY <1>4, <3>1, <3>2, <3>3, OneAttachment
    <3>5. img = <<>>
      <4>1. orgs = <<>>
        BY <1>8, <2>1, FlattenEmpty
      <4> QED
        BY <4>1, ImageEmpty
    <3> QED
      BY <1>12, <3>1, <3>4, <3>5
  <2>2. CASE chunks # <<>>
    <3>1. q \in Nat \ {0} /\ q \in 1..q
      BY <1>7, <2>2
    <3>2. Attached(message, parts, <<>>, q)
      <4>1. \A c \in 1..q : Append(parts[c], RunID) = parts[c] \o (<<>> \o <<RunID>>)
        <5> TAKE c \in 1..q
        <5> DEFINE x == parts[c]
        <5>1. x \in Seq(F)
          BY <1>10
        <5> HIDE DEF x
        <5>2. Append(x, RunID) = x \o <<RunID>>
          BY <5>1
        <5> QED
          BY <1>12, <5>2 DEF x
      <4>2. message.attachments = [c \in 1..q |-> IF c < q THEN parts[c] ELSE Append(parts[c], RunID)]
        BY <1>6, <1>7, <1>9, <1>10, <2>2
      <4> QED
        BY <4>1, <4>2 DEF Attached
    <3>3. \A c \in 1..q : Len(parts[c]) \in 1..OrgFields
      BY <1>7, <1>9, <1>10
    <3>4. /\ \A c \in 1..q : Len(parts[c]) <= MaxFields
          /\ Len(parts[q]) + Len(<<>>) + 1 <= MaxFields
      BY <1>2, <1>12, <3>1, <3>3
    <3> DEFINE none == <<>>
    <3>6. none \in Seq(F) /\ Len(none) = 0 /\ none \o <<RunID>> = run
      BY <1>12
    <3>7. Attached(message, parts, none, q)
      BY <3>2
    <3> HIDE DEF none
    <3>8. Len(parts[q]) + Len(none) + 1 <= MaxFields /\ \A c \in 1..q : Len(parts[c]) <= MaxFields
      BY <1>12, <3>4, <3>6
    <3>9. q \in Nat \ {0} /\ parts \in Seq(Seq(F)) /\ Len(parts) = q /\ none \in Seq(F)
      BY <1>10, <3>1, <3>6
    <3> HIDE DEF q
    <3>10. /\ (FewEnough(message) => q <= MaxAttachments) => WithinLimits(message)
           /\ FieldsOf(message) = FlattenSeq(parts) \o (none \o <<RunID>>)
      BY <1>4, <3>7, <3>8, <3>9, LastAttachment
    <3> QED
      BY <1>11, <3>6, <3>10
  <2> QED
    BY <2>1, <2>2
<1>14. img \in Seq(F)
  BY <1>1, <1>5, ImageType, Zenon
<1>15. Titled(message, "Organization") = img
  <2> DEFINE G == TitledIn(V, "Organization")
             all == img \o run
  <2>1. img \in Seq(V) /\ run \in Seq(V)
    <3>1. F \subseteq V
      OBVIOUS
    <3>2. run \in Seq(V)
      OBVIOUS
    <3> HIDE DEF img, V
    <3> QED
      BY <1>14, <3>1, <3>2
  <2>2. /\ RunID \notin G
        /\ \A i \in 1..Len(img) : img[i] \in G
    <3>1. F \subseteq G
      BY <1>3 DEF TitledIn
    <3>2. RunID \notin G
      BY <1>3 DEF TitledIn
    <3> HIDE DEF G, img
    <3> QED
      BY <1>14, <3>1, <3>2
  <2>3. Filter(run, G) = <<>>
    <3> HIDE DEF G
    <3> QED
      BY <2>2, FilterOne
  <2> HIDE DEF G, V, img, run
  <2>4. Filter(img, G) = img
    BY <2>1, <2>2, FilterAll
  <2>5. Filter(all, G) = Filter(img, G) \o Filter(run, G)
    BY <2>1, FilterConcat
  <2>6. all \in Seq(V)
    BY <2>1
  <2>7. OfTitle(all, "Organization") = Filter(all, G)
    <3> HIDE DEF all
    <3> QED
      BY <2>6, TitleFilter DEF G
  <2>8. img \o <<>> = img
    BY <2>1
  <2>9. Titled(message, "Organization") = OfTitle(all, "Organization")
    BY <1>13 DEF Titled, img, run
  <2> QED
    BY <2>3, <2>4, <2>5, <2>7, <2>8, <2>9
<1>16. Len(img) = Len(orgs)
  BY <1>1, <1>5, ImageType
<1>17. FewEnough(message) => q <= MaxAttachments
  <2> SUFFICES ASSUME FewEnough(message)
               PROVE  q <= MaxAttachments
    OBVIOUS
  <2>1. Len(orgs) <= MaxAttachments * OrgFields
    BY <1>6, <1>15, <1>16 DEF FewEnough
  <2>2. Len(chunks) <= MaxAttachments
    BY <1>1, <1>2, <2>1, Limits, FewChunks DEF chunks
  <2> QED
    BY <2>2
<1> QED
  BY <1>13, <1>15, <1>17 DEF message, img, orgs, g, D

-----------------------------------------------------------------------------
(* The messages for warnings and errors.                                   *)

\* The fields with the titles of a list.
LEMMA TitlesType ==
    ASSUME NEW T, NEW x \in Seq(T)
    PROVE  Titles(x) \in Seq([title : T]) /\ Len(Titles(x)) = Len(x)
<1> DEFINE n == Len(x)
           t == Titles(x)
           U == [title : T]
<1>1. n \in Nat /\ DOMAIN x = 1..n /\ \A i \in 1..n : x[i] \in T
  OBVIOUS
<1> HIDE DEF n
<1>2. t = [i \in 1..n |-> [title |-> x[i]]]
  BY <1>1 DEF Titles, Map
<1> HIDE DEF t
<1>3. t = [i \in 1..n |-> t[i]] /\ \A i \in 1..n : t[i] \in U
  BY <1>1, <1>2
<1> HIDE DEF U
<1> QED
  BY <1>1, <1>3, Tabulated, Zenon DEF t, n, U

\* A message with the titles of two lists of four at most.
LEMMA TitledMessage ==
    ASSUME NEW T, RunID \notin [title : T], NEW x \in Seq(T), NEW y \in Seq(T),
           Len(x) <= 3, Len(y) <= 3, Len(x) <= 1 \/ Len(y) <= 1, NEW message,
           message.attachments = << (Titles(x) \o Titles(y)) \o <<RunID>> >>
    PROVE  WithinLimits(message)
<1> DEFINE U == [title : T]
           u == Titles(x)
           v == Titles(y)
           w == u \o v
<1>1. RunID \notin U
  OBVIOUS
<1>2. u \in Seq(U) /\ v \in Seq(U) /\ Len(u) = Len(x) /\ Len(v) = Len(y)
  BY TitlesType, Zenon
<1>3. MaxFields \in Nat /\ 5 <= MaxFields
  BY FormatAssumption DEF FormatBounds
<1> HIDE DEF u, v, U
<1>4. w \in Seq(U) /\ Len(w) = Len(u) + Len(v)
  BY <1>2, ConcatIs
<1>5. message.attachments = << w \o <<RunID>> >>
  BY DEF u, v
<1> HIDE DEF w
<1>6. Len(w) + 1 <= MaxFields
  <2> DEFINE m == Len(x)
             n == Len(y)
             k == Len(w)
  <2>1. m \in Nat /\ n \in Nat /\ m <= 3 /\ n <= 3 /\ (m <= 1 \/ n <= 1)
    OBVIOUS
  <2>2. k = m + n
    BY <1>2, <1>4
  <2> HIDE DEF m, n, k
  <2>3. k \in Nat /\ k <= 4
    BY <2>1, <2>2
  <2>4. k + 1 <= MaxFields
    BY <1>3, <2>3
  <2> QED
    BY <2>4 DEF k
<1> QED
  BY <1>1, <1>4, <1>5, <1>6, OneAttachment

\* The messages for warnings and errors keep the limits of Slack.
LEMMA NoticesWithinLimits ==
    ASSUME NEW what
    PROVE  WithinLimits(FormatWarning(what)) /\ WithinLimits(FormatSystemError(what))
<1> DEFINE T == {"Kind", "UID", "UIDValidity", "Message-ID", "Component", "Mailbox",
                 "Action Required"}
           w == FormatWarning(what)
           e == FormatSystemError(what)
           x1 == <<"Kind">>
           y1 == IF what = "mailbox_read_only" THEN <<>>
                 ELSE <<"UID", "UIDValidity", "Message-ID">>
           x2 == <<"Kind", "Component", "Mailbox">>
           hinted == {"uidvalidity_changed", "recovery_required",
                      "imap_credentials_missing"}
           y2 == IF what \notin hinted THEN <<>> ELSE <<"Action Required">>
<1>1. Titles(<<>>) = <<>>
  BY DEF Titles, Map
<1>2. RunID \notin [title : T]
  <2>1. "Run ID" \notin T
    OBVIOUS
  <2>2. RunID.title = "Run ID"
    BY DEF RunID
  <2> HIDE DEF T
  <2> QED
    BY <2>1, <2>2
<1>3. x1 \in Seq(T) /\ Len(x1) = 1 /\ x2 \in Seq(T) /\ Len(x2) = 3
  OBVIOUS
<1>4. y1 \in Seq(T) /\ Len(y1) <= 3
  <2>1. CASE what = "mailbox_read_only"
    BY <2>1
  <2>2. CASE what # "mailbox_read_only"
    <3>1. y1 = <<"UID", "UIDValidity", "Message-ID">>
      BY <2>2
    <3> HIDE DEF y1
    <3> QED
      BY <3>1
  <2> QED
    BY <2>1, <2>2
<1>5. y2 \in Seq(T) /\ Len(y2) <= 1
  <2>1. CASE what \notin hinted
    BY <2>1
  <2>2. CASE what \in hinted
    <3> DEFINE r == "Action Required"
    <3>1. y2 = <<r>> /\ r \in T
      BY <2>2
    <3> HIDE DEF y2, r, T
    <3>2. y2 \in Seq(T) /\ Len(y2) = 1
      BY <3>1
    <3> QED
      BY <3>2
  <2> QED
    BY <2>1, <2>2
<1>6. w.kind = "warning" /\ w.attachments = << (Titles(x1) \o Titles(y1)) \o <<RunID>> >>
  BY <1>1 DEF FormatWarning
<1>7. e.kind = "error" /\ e.attachments = << (Titles(x2) \o Titles(y2)) \o <<RunID>> >>
  BY <1>1 DEF FormatSystemError
<1> HIDE DEF T, x1, y1, x2, y2, w, e
<1>8. Len(x1) <= 3 /\ Len(y1) <= 3 /\ Len(x2) <= 3 /\ Len(y2) <= 3
      /\ Len(x1) <= 1 /\ Len(y2) <= 1
  BY <1>3, <1>4, <1>5
<1>9. WithinLimits(w)
  BY <1>2, <1>3, <1>4, <1>6, <1>8, TitledMessage
<1>10. WithinLimits(e)
  BY <1>2, <1>3, <1>5, <1>7, <1>8, TitledMessage
<1> QED
  BY <1>9, <1>10 DEF w, e

\* The successful sessions of the policies of a report, and the policies of
\* several reports.
OkOf(report) == Map(report.policies, LAMBDA p : p.ok)
PoliciesIn(C) == UNION {{r} \X DOMAIN r.policies : r \in C}

\* The sum over the reports of an organization, whatever their order, is that
\* over all their policies.
LEMMA SessionsAddUp ==
    ASSUME NEW C \in SUBSET Reports, IsFiniteSet(C)
    PROVE  Sum(Map(SetToSeq(C), SuccessfulSessions))
               = SumOf([p \in PoliciesIn(C) |-> p[1].policies[p[2]].ok])
<1> DEFINE s == SetToSeq(C)
           n == Len(s)
           P == [r \in C |-> DOMAIN r.policies]
           val == [r \in C |-> OkOf(r)]
           seqs == [i \in 1..n |-> OkOf(s[i])]
           sums == Map(s, SuccessfulSessions)
           Q == PoliciesIn(C)
           all == [p \in Q |-> p[1].policies[p[2]].ok]
<1>1. s \in Seq(C) /\ Listing(s, s, C, [p \in C |-> p], C \X C)
  BY SetToSeqListed, Zenon
<1> HIDE DEF s
<1>2. n \in Nat /\ DOMAIN s = 1..n /\ \A i \in 1..n : s[i] \in C
  BY <1>1
<1> HIDE DEF n
<1>3. ASSUME NEW r \in C
      PROVE  /\ OkOf(r) \in Seq(Int) /\ DOMAIN OkOf(r) = DOMAIN r.policies
             /\ \A k \in DOMAIN r.policies : OkOf(r)[k] = r.policies[k].ok
             /\ Listed(OkOf(r), DOMAIN r.policies, OkOf(r), Before)
  <2> DEFINE ps == r.policies
             m == Len(ps)
             t == OkOf(r)
  <2>1. ps \in Seq(Policies)
    BY DEF Reports
  <2> HIDE DEF ps
  <2>2. m \in Nat /\ DOMAIN ps = 1..m /\ \A k \in 1..m : ps[k].ok \in Int
    <3>1. m \in Nat /\ DOMAIN ps = 1..m /\ \A k \in 1..m : ps[k] \in Policies
      BY <2>1
    <3> QED
      BY <3>1 DEF Policies
  <2> HIDE DEF m
  <2>3. t = [k \in 1..m |-> ps[k].ok]
    BY <2>2 DEF OkOf, Map, ps
  <2> HIDE DEF t
  <2>4. t = [k \in 1..m |-> t[k]] /\ \A k \in 1..m : t[k] = ps[k].ok /\ t[k] \in Int
    BY <2>2, <2>3
  <2>5. t \in Seq(Int) /\ DOMAIN t = 1..m
    <3>1. t \in Seq(Int)
      BY <2>2, <2>4, Tabulated, Zenon
    <3> QED
      BY <2>3, <3>1
  <2>6. Listed(t, DOMAIN t, t, Before)
    BY <2>5, ListedSelf, Zenon
  <2> QED
    BY <2>2, <2>4, <2>5, <2>6 DEF t, ps
<1>4. \A i \in 1..n : seqs[i] = OkOf(s[i]) /\ seqs[i] \in Seq(Int)
  BY <1>2, <1>3
<1>5. seqs \in Seq(Seq(Int)) /\ Len(seqs) = n
  <2>1. seqs = [i \in 1..n |-> seqs[i]]
    OBVIOUS
  <2> HIDE DEF seqs
  <2> QED
    BY <1>2, <1>4, <2>1, Tabulated, Zenon
<1>6. sums = [i \in 1..n |-> Sum(OkOf(s[i]))]
  BY <1>2 DEF Map, SuccessfulSessions, OkOf
<1> HIDE DEF sums, seqs
<1>7. \A i \in 1..n : sums[i] = Sum(seqs[i]) /\ sums[i] \in Int
  <2> TAKE i \in 1..n
  <2>1. seqs[i] \in Seq(Int) /\ sums[i] = Sum(seqs[i])
    BY <1>4, <1>6
  <2> QED
    BY <2>1, SumType
<1>8. sums \in Seq(Int) /\ Len(sums) = n
  <2>1. sums = [i \in 1..n |-> sums[i]]
    BY <1>6
  <2> QED
    BY <1>2, <1>7, <2>1, Tabulated, Zenon
<1>9. Sum(FlattenSeq(seqs)) = Sum(sums)
  <2>1. \A i \in 1..Len(seqs) : sums[i] = Sum(seqs[i])
    BY <1>5, <1>7
  <2>2. seqs \in Seq(Seq(Int)) /\ sums \in Seq(Int) /\ Len(sums) = Len(seqs)
    BY <1>5, <1>8
  <2> QED
    BY <2>1, <2>2, SumFlatten
<1>10. Q = Places(C, P)
  BY DEF PoliciesIn, Places
<1>11. EachListed(seqs, s, P, val, Before)
  <2> SUFFICES ASSUME NEW i \in 1..n
               PROVE  Listed(seqs[i], P[s[i]], val[s[i]], Before)
    BY <1>5 DEF EachListed
  <2>1. /\ s[i] \in C /\ seqs[i] = OkOf(s[i])
        /\ P[s[i]] = DOMAIN s[i].policies /\ val[s[i]] = OkOf(s[i])
    BY <1>2, <1>4
  <2> HIDE DEF P, val
  <2> QED
    BY <1>3, <2>1
<1>12. /\ \A r \in C : \A k \in P[r] : <<r, k>> \in Q
       /\ \A p \in Q : p[1] \in C /\ p[2] \in P[p[1]] /\ p = <<p[1], p[2]>>
  <2> HIDE DEF P, Q
  <2> QED
    BY <1>10, PlaceIs, Zenon
<1>13. Gathers(all, C, P, val)
  <2> SUFFICES ASSUME NEW r \in C, NEW k \in P[r]
               PROVE  all[<<r, k>>] = val[r][k]
    BY DEF Gathers
  <2>1. <<r, k>> \in Q
    BY <1>12
  <2>2. P[r] = DOMAIN r.policies /\ val[r] = OkOf(r)
    OBVIOUS
  <2>3. OkOf(r)[k] = r.policies[k].ok
    BY <1>3, <2>2
  <2>4. all[<<r, k>>] = r.policies[k].ok
    BY <2>1
  <2> QED
    BY <2>2, <2>3, <2>4
<1>14. all \in [Q -> Int]
  <2>1. \A p \in Q : p[1].policies[p[2]].ok \in Int
    <3> TAKE p \in Q
    <3>1. p[1] \in C /\ p[2] \in DOMAIN p[1].policies
      BY <1>12
    <3>2. p[1].policies \in Seq(Policies)
      BY <3>1 DEF Reports
    <3>3. p[1].policies[p[2]] \in Policies
      BY <3>1, <3>2
    <3> QED
      BY <3>3 DEF Policies
  <2> HIDE DEF Q
  <2> QED
    BY <2>1
<1> HIDE DEF P, val, all, Q
<1>15. Listed(FlattenSeq(seqs), Places(C, P), all, Places(C, P) \X Places(C, P))
  <2>1. seqs \in Seq(Seq(Int)) /\ Len(s) = Len(seqs)
    BY <1>5 DEF n
  <2> QED
    BY <1>1, <1>11, <1>13, <2>1, FlattenPlaces
<1>16. SumOf(all) = Sum(FlattenSeq(seqs))
  <2> DEFINE flat == FlattenSeq(seqs)
  <2>1. flat \in Seq(Int)
    BY <1>5, FlattenType, Zenon
  <2>2. Listed(flat, Q, all, Q \X Q)
    BY <1>10, <1>15
  <2> HIDE DEF flat
  <2>3. SumOf(all) = Sum(flat)
    BY <1>14, <2>1, <2>2, SumOfListed, Zenon
  <2> QED
    BY <2>3 DEF flat
<1> QED
  BY <1>9, <1>16 DEF all, sums, s, Q

\* A report has a failure if the count of some policy is positive.
LEMMA HasFailureIs ==
    ASSUME NEW r \in Reports
    PROVE  HasFailure(r) <=> \E k \in DOMAIN r.policies : r.policies[k].failed > 0
<1> DEFINE ps == r.policies
           F == {k \in DOMAIN ps : ps[k].failed > 0}
           t == Subsequence(ps, F)
           G == F \cap 1..Len(ps)
<1>1. ps \in Seq(Policies)
  BY DEF Reports
<1>2. HasFailure(r) <=> t # <<>>
  BY DEF HasFailure, Failing
<1>3. G = F
  <2> HIDE DEF ps
  <2> QED
    BY <1>1
<1>4. t \in Seq(Policies) /\ Listed(t, G, ps, Before)
  <2> HIDE DEF ps, F
  <2> QED
    BY <1>1, SubsequenceListed, Zenon
<1> HIDE DEF t, G
<1>5. Len(t) \in Nat /\ (t = <<>> <=> Len(t) = 0)
  BY <1>4
<1>6. IsFiniteSet(G) /\ Cardinality(G) = Len(t)
  BY <1>4, <1>5, ListedSize
<1>7. Cardinality(G) = 0 <=> G = {}
  BY <1>6, FS_EmptySet
<1> QED
  BY <1>2, <1>3, <1>5, <1>6, <1>7

-----------------------------------------------------------------------------
(* What the message for the alerts adds up to.                             *)

\* The fields for the policies shown and for those left out, and what they say.
PoliciesShown(message) == Titled(message, "Policy")
PoliciesNoted(message) == Titled(message, "Additional Policies")
Numbers(fields) == Map(fields, LAMBDA f : f.policies)
FailedIn(fields) == Map(fields, LAMBDA f : f.failed)

\* The failed sessions of alerts.
FailedOf == [a \in AlertRecords |-> a.failed]

\* The note counts what is left out.
LEMMA NoteCounts ==
    ASSUME NEW omitted \in Seq(AlertRecords)
    PROVE  /\ Sum(Numbers(Omitted(omitted))) = Len(omitted)
           /\ Sum(FailedIn(Omitted(omitted))) = Sum(Image(omitted, FailedOf))
<1> DEFINE x == Omitted(omitted)
           n == Len(omitted)
           z == Map(omitted, LAMBDA a : a.failed)
<1>1. z = Image(omitted, FailedOf) /\ Image(omitted, FailedOf) \in Seq(Int)
  <2>1. Into(FailedOf, AlertRecords, Int)
    BY DEF Into, FailedOf, AlertRecords
  <2>2. \A i \in DOMAIN omitted : omitted[i] \in AlertRecords
    OBVIOUS
  <2>3. z = Image(omitted, FailedOf)
    BY <2>2 DEF Image, Map, FailedOf
  <2>4. Image(omitted, FailedOf) \in Seq(Int)
    BY <2>1, ImageType
  <2> QED
    BY <2>3, <2>4
<1> HIDE DEF z
<1>2. Sum(z) \in Int /\ n \in Nat
  BY <1>1, SumType
<1>3. CASE omitted = <<>>
  <2>1. x = <<>> /\ z = <<>> /\ n = 0
    BY <1>3 DEF Omitted, z, Map
  <2>2. Numbers(<<>>) = <<>> /\ FailedIn(<<>>) = <<>>
    BY DEF Numbers, FailedIn, Map
  <2> QED
    BY <1>1, <2>1, <2>2, SumEmpty
<1>4. CASE omitted # <<>>
  <2>1. x = <<NoteField(omitted)>>
    BY <1>4 DEF Omitted, NoteField
  <2>2. NoteField(omitted).policies = n /\ NoteField(omitted).failed = Sum(z)
    BY DEF NoteField, z
  <2>3. Numbers(x) = <<n>> /\ FailedIn(x) = <<Sum(z)>>
    <3> HIDE DEF x, n
    <3> QED
      BY <2>1, <2>2 DEF Numbers, FailedIn, Map
  <2>4. Sum(<<n>>) = n /\ Sum(<<Sum(z)>>) = Sum(z)
    <3> DEFINE t == Sum(z)
    <3>1. n \in Int /\ t \in Int
      BY <1>2
    <3> HIDE DEF n, t
    <3>2. Sum(<<n>>) = n /\ Sum(<<t>>) = t
      BY <3>1, SumOne
    <3> QED
      BY <3>2 DEF t
  <2> QED
    BY <1>1, <2>3, <2>4
<1> QED
  BY <1>3, <1>4

\* What is shown and what is noted add up to the alerts and to their sessions.
LEMMA AlertsCounted ==
    ASSUME NEW alerts \in Seq(AlertRecords), alerts # <<>>
    PROVE  /\ Len(PoliciesShown(FormatAlerts(alerts)))
                  + Sum(Numbers(PoliciesNoted(FormatAlerts(alerts)))) = Len(alerts)
           /\ Sum(FailedIn(PoliciesShown(FormatAlerts(alerts))))
                  + Sum(FailedIn(PoliciesNoted(FormatAlerts(alerts))))
                  = Sum(Image(alerts, FailedOf))
<1> DEFINE A == AlertRecords
           shown == ShownAlerts(alerts)
           omitted == OmittedAlerts(alerts)
           fields == PoliciesShown(FormatAlerts(alerts))
           g == PolicyFields(A)
           F == {g[a] : a \in A}
           x == Image(shown, FailedOf)
           y == Image(omitted, FailedOf)
<1>1. fields = Image(shown, g) /\ PoliciesNoted(FormatAlerts(alerts)) = Omitted(omitted)
  BY AlertsMessage, Zenon DEF PoliciesShown, PoliciesNoted
<1>2. shown \in Seq(A) /\ omitted \in Seq(A)
  BY AlertsCut, Zenon
<1>3. shown \o omitted = alerts
  BY ShownThenOmitted DEF ShownAlerts, OmittedAlerts
<1> HIDE DEF shown, omitted
<1>4. /\ Sum(Numbers(Omitted(omitted))) = Len(omitted)
      /\ Sum(FailedIn(Omitted(omitted))) = Sum(y)
  BY <1>2, NoteCounts
<1>5. \A a \in A : g[a].failed = a.failed
  BY DEF PolicyFields, PolicyField
<1>6. Into(FailedOf, A, Int)
  BY DEF Into, FailedOf, AlertRecords
<1>7. Into(g, A, F)
  BY DEF Into
<1> HIDE DEF g, F, A, fields
<1>8. /\ fields \in Seq(F) /\ Len(fields) = Len(shown)
      /\ \A i \in 1..Len(shown) : fields[i] = g[shown[i]]
  <2>1. /\ Image(shown, g) \in Seq(F) /\ Len(Image(shown, g)) = Len(shown)
        /\ \A i \in 1..Len(shown) : Image(shown, g)[i] = g[shown[i]]
    BY <1>2, <1>7, ImageType
  <2> QED
    BY <1>1, <2>1
<1>9. x \in Seq(Int) /\ y \in Seq(Int)
  BY <1>2, <1>6, ImageType
<1>10. FailedIn(fields) = x
  <2>1. DOMAIN fields = 1..Len(shown) /\ DOMAIN shown = 1..Len(shown)
    BY <1>2, <1>8
  <2>2. \A i \in 1..Len(shown) : shown[i] \in A
    BY <1>2
  <2>3. \A i \in 1..Len(shown) : fields[i].failed = FailedOf[shown[i]]
    BY <1>5, <1>8, <2>2 DEF FailedOf, A
  <2> QED
    BY <2>1, <2>3 DEF FailedIn, Map, Image
<1>11. Sum(x \o y) = Sum(x) + Sum(y)
  <2> HIDE DEF x, y
  <2> QED
    BY <1>9, SumConcat
<1>12. Image(alerts, FailedOf) = x \o y
  <2>1. ImageJoins(shown, omitted, FailedOf)
    BY <1>2, <1>6, ImageConcat
  <2> QED
    BY <1>3, <2>1 DEF ImageJoins
<1>13. Len(alerts) = Len(shown) + Len(omitted)
  BY <1>2, <1>3
<1> HIDE DEF x, y
<1> QED
  BY <1>1, <1>4, <1>8, <1>10, <1>11, <1>12, <1>13 DEF fields

\* The cut of formatAlerts.  As many policies as fit are shown, each in its
\* place; only if there are more does the message end with a note, for which
\* the last attachment then has room; and shown or noted, no policy and no
\* failed session is missing or counted twice.
THEOREM AlertsCutToFit ==
    ASSUME NEW alerts \in Seq(AlertRecords), alerts # <<>>
    PROVE  LET message  == FormatAlerts(alerts)
               shown    == PoliciesShown(message)
               noted    == PoliciesNoted(message)
               capacity == MaxAttachments * PoliciesPerChunk
           IN  /\ WithinLimits(message)
               /\ \A i \in 1..Len(shown) : shown[i] = PolicyField(alerts[i])
               /\ Len(alerts) <= capacity => Len(shown) = Len(alerts) /\ noted = <<>>
               /\ Len(alerts) > capacity =>
                     /\ noted # <<>>
                     /\ Len(shown) = capacity - PoliciesPerChunk + LastChunkWithOverflow
               /\ Len(shown) + Sum(Numbers(noted)) = Len(alerts)
               /\ Sum(FailedIn(shown)) + Sum(FailedIn(noted))
                      = Sum(Image(alerts, FailedOf))
<1> DEFINE A == AlertRecords
           message == FormatAlerts(alerts)
           shown == PoliciesShown(message)
           noted == PoliciesNoted(message)
           g == PolicyFields(A)
           F == {g[a] : a \in A}
           x == ShownAlerts(alerts)
           y == OmittedAlerts(alerts)
           n == Shown(alerts)
           capacity == MaxAttachments * PoliciesPerChunk
<1>1. WithinLimits(message) /\ shown = Image(x, g) /\ noted = Omitted(y)
  BY AlertsMessage, Zenon DEF PoliciesShown, PoliciesNoted
<1>2. /\ Len(shown) + Sum(Numbers(noted)) = Len(alerts)
      /\ Sum(FailedIn(shown)) + Sum(FailedIn(noted)) = Sum(Image(alerts, FailedOf))
  BY AlertsCounted, Zenon
<1>3. /\ n \in 0..Len(alerts) /\ n \in Nat /\ n <= capacity
      /\ Len(alerts) \in Nat /\ capacity \in Nat
  BY ShownFits, Limits
<1>4. /\ x \in Seq(A) /\ Len(x) = n /\ \A i \in 1..n : x[i] = alerts[i]
  <2>1. x = First(alerts, n) /\ Least(n, Len(alerts)) = n
    BY <1>3 DEF ShownAlerts, Least
  <2> HIDE DEF x, n
  <2> QED
    BY <1>3, <2>1, FirstIs
<1>5. y \in Seq(A) /\ Len(y) = Len(alerts) - n
  <2>1. y \in Seq(A)
    BY AlertsCut, Zenon
  <2>2. y = SubSeq(alerts, n + 1, Len(alerts))
    BY DEF OmittedAlerts
  <2> HIDE DEF y, n
  <2> QED
    BY <1>3, <2>1, <2>2
<1>6. \A a \in A : g[a] = PolicyField(a)
  BY DEF PolicyFields
<1> HIDE DEF x, y, g, A, message
<1>7. Len(shown) = n /\ \A i \in 1..n : shown[i] = g[x[i]]
  <2>1. Len(Image(x, g)) = Len(x) /\ \A i \in 1..Len(x) : Image(x, g)[i] = g[x[i]]
    <3>1. Into(g, A, F)
      BY DEF Into
    <3> HIDE DEF F
    <3>2. x \in Seq(A)
      BY <1>4
    <3>3. /\ Image(x, g) \in Seq(F) /\ Len(Image(x, g)) = Len(x)
          /\ \A i \in 1..Len(x) : Image(x, g)[i] = g[x[i]]
      BY <3>1, <3>2, ImageType
    <3> QED
      BY <3>3
  <2> QED
    BY <1>1, <1>4, <2>1
<1>8. \A i \in 1..n : shown[i] = PolicyField(alerts[i])
  BY <1>4, <1>6, <1>7
<1>9. noted = <<>> <=> Len(y) = 0
  <2>1. y = <<>> <=> Len(y) = 0
    BY <1>5
  <2>2. <<NoteField(y)>> # <<>>
    OBVIOUS
  <2> QED
    BY <1>1, <2>1, <2>2 DEF Omitted, NoteField
<1>10. /\ Len(alerts) <= capacity => n = Len(alerts)
       /\ Len(alerts) > capacity => n = capacity - PoliciesPerChunk + LastChunkWithOverflow
  <2>1. (MaxAttachments - 1) * PoliciesPerChunk = capacity - PoliciesPerChunk
    BY Limits
  <2> QED
    BY <1>3, <2>1, Limits DEF Shown
<1> HIDE DEF shown, noted, n, capacity
<1>11. /\ Len(alerts) <= capacity => Len(shown) = Len(alerts) /\ noted = <<>>
       /\ Len(alerts) > capacity => noted # <<>>
  <2>1. Len(alerts) <= capacity => Len(y) = 0
    BY <1>3, <1>5, <1>10
  <2>2. Len(alerts) > capacity => Len(y) # 0
    BY <1>3, <1>5
  <2> QED
    BY <1>7, <1>9, <1>10, <2>1, <2>2
<1> QED
  BY <1>1, <1>2, <1>7, <1>8, <1>10, <1>11 DEF message, shown, noted, capacity

-----------------------------------------------------------------------------
(* The details of a policy.                                                *)

\* What a field says about the details of a policy is right: it shows the
\* largest, and with the others they are all there.
DetailsRight(field, details) ==
    /\ Len(field.shown) + field.others = Len(details)
    /\ Sum(field.shown) + field.sessions = Sum(details)
    /\ \A d \in DOMAIN field.shown :
          Cardinality({e \in DOMAIN details : details[e] > field.shown[d]}) < d

\* Cut once in the record and once more in the message.
LEMMA CutTwice ==
    ASSUME NEW S, NEW s \in Seq(S)
    PROVE  First(First(s, MaxFailureDetails), MaxDetailDisplay) = First(s, MaxDetailDisplay)
<1> DEFINE x == First(s, MaxFailureDetails)
           y == First(x, MaxDetailDisplay)
           z == First(s, MaxDetailDisplay)
<1>1. /\ MaxFailureDetails \in Nat /\ MaxDetailDisplay \in Nat
      /\ MaxDetailDisplay <= MaxFailureDetails /\ Len(s) \in Nat
  BY Limits
<1>2. /\ x \in Seq(S) /\ Len(x) = Least(MaxFailureDetails, Len(s))
      /\ \A i \in 1..Len(x) : x[i] = s[i]
  BY <1>1, FirstIs
<1>3. /\ z \in Seq(S) /\ Len(z) = Least(MaxDetailDisplay, Len(s))
      /\ \A i \in 1..Len(z) : z[i] = s[i]
  BY <1>1, FirstIs
<1> HIDE DEF x, z
<1>4. /\ y \in Seq(S) /\ Len(y) = Least(MaxDetailDisplay, Len(x))
      /\ \A i \in 1..Len(y) : y[i] = x[i]
  BY <1>1, <1>2, FirstIs
<1> HIDE DEF y
<1>5. Len(y) = Len(z) /\ Len(y) <= Len(x)
  BY <1>1, <1>2, <1>3, <1>4 DEF Least
<1>6. \A i \in 1..Len(y) : y[i] = z[i]
  <2> TAKE i \in 1..Len(y)
  <2>1. i \in 1..Len(x) /\ i \in 1..Len(z)
    BY <1>2, <1>4, <1>5
  <2> QED
    BY <1>2, <1>3, <1>4, <2>1
<1>7. y = z
  BY <1>3, <1>4, <1>5, <1>6, SameElements
<1> QED
  BY <1>7 DEF x, y, z

\* The field for the details of a policy, from its record.
LEMMA DetailsOfPolicy ==
    ASSUME NEW report \in Reports, NEW policy \in Policies,
           LogAlert(report, policy).details # <<>>
    PROVE  DetailsRight(DetailField(LogAlert(report, policy)), policy.details)
<1> DEFINE alert == LogAlert(report, policy)
           field == DetailField(alert)
           ds == policy.details
           n == Len(ds)
           s == Descending(ds)
           x == First(s, MaxFailureDetails)
           k == Least(MaxDetailDisplay, n)
           head == SubSeq(s, 1, k)
<1>1. ds \in Seq(Nat) /\ ds \in Seq(Int) /\ n \in Nat
  BY DEF Policies
<1>2. alert.details = x /\ alert.count = n /\ alert.sessions = Sum(ds)
  BY DEF LogAlert
<1>3. /\ field.shown = First(alert.details, MaxDetailDisplay)
      /\ field.others = Most(Most(alert.count, Len(alert.details)) - MaxDetailDisplay, 0)
      /\ field.sessions = IF Most(alert.count, Len(alert.details)) > MaxDetailDisplay
                          THEN Most(Most(alert.sessions, Sum(alert.details))
                                        - Sum(First(alert.details, MaxDetailDisplay)), 0)
                          ELSE 0
  <2> HIDE DEF alert
  <2>1. alert.details # <<>>
    BY DEF alert
  <2> QED
    BY <2>1, Zenon DEF FailureDetails, DetailField
<1> HIDE DEF alert, field, ds, n
<1>4. /\ s \in Seq(Int) /\ Len(s) = n
      /\ Listed(s, 1..n, ds, (1..n) \X (1..n))
  BY <1>1, DescendingIs DEF n
<1>5. s \in Seq(Nat)
  <2> HIDE DEF s
  <2>1. PICK b : Listing(s, b, 1..n, ds, (1..n) \X (1..n))
    BY <1>4 DEF Listed
  <2>2. \A i \in 1..n : b[i] \in 1..n /\ s[i] = ds[b[i]]
    BY <1>4, <2>1 DEF Listing
  <2>3. \A i \in 1..n : s[i] \in Nat
    BY <1>1, <2>2 DEF n
  <2> QED
    BY <1>4, <2>3
<1>6. Sum(s) = Sum(ds)
  <2> HIDE DEF s
  <2>1. DOMAIN ds = 1..n
    BY <1>1 DEF n
  <2>2. Listed(ds, 1..n, ds, Before)
    BY <1>1, <2>1, ListedSelf
  <2> QED
    BY <1>1, <1>4, <2>2, SameSum, Zenon
<1> HIDE DEF s
<1>7. /\ MaxFailureDetails \in Nat /\ MaxDetailDisplay \in Nat
      /\ k \in 0..n /\ Least(MaxFailureDetails, n) \in 0..n
  BY <1>1, Limits DEF Least
<1>8. First(x, MaxDetailDisplay) = head
  <2>1. First(x, MaxDetailDisplay) = First(s, MaxDetailDisplay)
    BY <1>5, CutTwice
  <2>2. First(s, MaxDetailDisplay) = head
    BY <1>4 DEF First
  <2> QED
    BY <2>1, <2>2
<1>9. Len(x) <= n /\ Len(x) \in Nat /\ Sum(x) \in Nat /\ Sum(x) <= Sum(s)
  <2> DEFINE m == Least(MaxFailureDetails, n)
  <2>1. x = SubSeq(s, 1, m) /\ m \in 0..Len(s)
    BY <1>4, <1>7 DEF First
  <2> HIDE DEF m, x
  <2>2. /\ SubSeq(s, 1, m) \in Seq(Nat)
        /\ Sum(SubSeq(s, 1, m)) \in Nat /\ Sum(SubSeq(s, 1, m)) <= Sum(s)
    BY <1>5, <2>1, SumOfFirst
  <2>3. Len(x) = m
    BY <1>4, <1>5, <2>1
  <2> QED
    BY <1>4, <1>7, <2>1, <2>2, <2>3
<1>10. /\ Sum(head) \in Nat /\ Sum(s) \in Nat /\ Sum(head) <= Sum(s)
       /\ k = n => head = s
  <2> HIDE DEF k
  <2>1. k \in 0..Len(s)
    BY <1>4, <1>7
  <2> QED
    BY <1>4, <1>5, <2>1, SumOfFirst
<1>11. Len(head) = k /\ \A d \in 1..k : head[d] = s[d]
  <2> HIDE DEF k
  <2> QED
    BY <1>4, <1>5, <1>7
<1> HIDE DEF x, head
<1>12. Most(alert.count, Len(alert.details)) = n
  BY <1>1, <1>2, <1>9 DEF Most
<1>13. Most(alert.sessions, Sum(alert.details)) = Sum(ds)
  BY <1>2, <1>6, <1>9, <1>10 DEF Most
<1>14. /\ field.shown = head
       /\ field.others = Most(n - MaxDetailDisplay, 0)
       /\ field.sessions = IF n > MaxDetailDisplay THEN Most(Sum(ds) - Sum(head), 0) ELSE 0
  BY <1>2, <1>3, <1>8, <1>12, <1>13
<1>15. Len(field.shown) + field.others = n
  BY <1>1, <1>7, <1>11, <1>14 DEF Least, Most
<1>16. Sum(field.shown) + field.sessions = Sum(ds)
  <2>1. CASE n > MaxDetailDisplay
    BY <1>6, <1>10, <1>14, <2>1 DEF Most
  <2>2. CASE ~(n > MaxDetailDisplay)
    <3>1. k = n
      BY <1>1, <1>7, <2>2 DEF Least
    <3> QED
      BY <1>6, <1>10, <1>14, <2>2, <3>1
  <2> QED
    BY <2>1, <2>2
<1>17. ASSUME NEW d \in DOMAIN field.shown
       PROVE  Cardinality({e \in DOMAIN ds : ds[e] > field.shown[d]}) < d
  <2>1. DOMAIN head = 1..k
    <3>1. head = SubSeq(s, 1, k)
      BY DEF head
    <3> HIDE DEF k
    <3> QED
      BY <1>4, <1>5, <1>7, <3>1
  <2>2. d \in 1..n /\ field.shown[d] = s[d]
    BY <1>1, <1>7, <1>11, <1>14, <2>1
  <2>3. Cardinality({e \in DOMAIN ds : ds[e] > s[d]}) < d
    BY <1>1, <2>2, FewLarger DEF n, s
  <2> QED
    BY <2>2, <2>3
<1> QED
  BY <1>15, <1>16, <1>17 DEF DetailsRight, field, alert, ds, n

=============================================================================
