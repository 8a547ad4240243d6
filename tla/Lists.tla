------------------------------- MODULE Lists -------------------------------
(***************************************************************************)
(* Operators on sequences that MailParse, SlackFormat and Invocation       *)
(* share.  They take values, not operators, where a theorem is about them. *)
(***************************************************************************)
EXTENDS Integers, Sequences, FiniteSets, SequencesExt

Map(seq, op(_)) == [i \in DOMAIN seq |-> op(seq[i])]

Sum(seq) ==
    LET sum[n \in 0..Len(seq)] == IF n = 0 THEN 0 ELSE sum[n - 1] + seq[n]
    IN  sum[Len(seq)]

\* The sum of the values of a function on a finite set.
SumOf(f) ==
    LET elements == SetToSeq(DOMAIN f)
    IN  Sum([i \in DOMAIN elements |-> f[elements[i]]])

\* The elements at the positions in I, in their order.
Subsequence(seq, I) ==
    FlattenSeq([i \in DOMAIN seq |-> IF i \in I THEN <<seq[i]>> ELSE <<>>])

\* The elements of a finite set of numbers, the smallest first.
Ascending(S) ==
    CHOOSE s \in [1..Cardinality(S) -> S] : \A i, j \in DOMAIN s : i < j => s[i] < s[j]

\* The numbers in a sequence, the largest first.
Descending(seq) ==
    LET order == CHOOSE p \in [DOMAIN seq -> DOMAIN seq] :
                     /\ IsInjective(p)
                     /\ \A i, j \in DOMAIN seq : i < j => seq[p[i]] >= seq[p[j]]
    IN  [i \in DOMAIN seq |-> seq[order[i]]]

=============================================================================
