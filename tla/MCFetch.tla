------------------------------ MODULE MCFetch -------------------------------
(***************************************************************************)
(* Fetch with a message that reports failures and one that does not parse  *)
(* in the first mailbox.  In the second one there are a message that       *)
(* reports failures, one whose body is larger than it claims, and one that *)
(* FetchMeta skips.                                                        *)
(***************************************************************************)
EXTENDS Fetch

OneEpoch == {1}
TwoEpochs == {1, 2}
FailingFirst == Epochs \X {1}
BrokenSecond == {<<1, 2>>}
OversizedSecond == {<<2, 2>>} \cap Messages
SkippedThird == {<<2, 3>>} \cap Messages
TwoAndThree == {m \in Messages : m[2] <= m[1] + 1}

=============================================================================
