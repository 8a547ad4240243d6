---------------------------- MODULE MCInvocation ----------------------------
(***************************************************************************)
(* Nine messages, and command lines that are accepted or refused, for      *)
(* module Invocation.                                                      *)
(***************************************************************************)
EXTENDS Invocation

Policy(ok, failed, details) == [ok |-> ok, failed |-> failed, details |-> details]
Report(org, id, day, policies) ==
    [org |-> org, id |-> id, day |-> day, policies |-> policies]
Content(format, missing, report) ==
    [format |-> format, size |-> 1, missing |-> missing, report |-> report]
Attachment(size, content) ==
    [kind |-> "attachment", size |-> size, content |-> content]
Multipart(depth) == [kind |-> "multipart", depth |-> depth]
Mail(parts) == [listable |-> TRUE, size |-> Sum(Map(parts, DecodedSize)),
                readable |-> TRUE, parts |-> parts]

\* Reports with two, three and two failing policies, the first and the last
\* under one id; reports of three organizations without failures.
TwoFail   == Report("a", "r1", 4, <<Policy(1, 5, <<1, 4, 2, 3>>), Policy(2, 0, <<>>),
                                    Policy(0, 1, <<1>>)>>)
ThreeFail == Report("b", "r2", 4, <<Policy(0, 1, <<>>), Policy(1, 2, <<2, 1, 1>>),
                                    Policy(0, 3, <<1, 2>>)>>)
Update    == Report("c", "r1", 3, <<Policy(3, 2, <<2>>), Policy(0, 1, <<>>)>>)
FineA     == Report("a", "r3", 4, <<Policy(1, 0, <<>>), Policy(2, 0, <<>>)>>)
FineA2    == Report("a", "r4", 3, <<Policy(4, 0, <<>>)>>)
FineB     == Report("b", "r5", 4, <<>>)
FineC     == Report("c", "r6", 2, <<Policy(1, 0, <<>>)>>)
FineToday == Report("c", "r7", 5, <<Policy(7, 0, <<>>)>>)

MCMailbox == <<
    Mail(<<Attachment(2, Content("gzip", {}, TwoFail))>>),
    Mail(<<Multipart(0), [kind |-> "skipped"], Multipart(1),
           Attachment(1, Content("json", {}, ThreeFail)),
           Attachment(1, Content("json", {"policies"}, FineB))>>),
    \* Exactly the limit, with a part that does not decode.
    Mail(<<Multipart(0), [kind |-> "undecodable", size |-> 1],
           Attachment(2, Content("gzip", {}, Update)),
           Attachment(1, Content("other", {"json"}, FineB))>>),
    \* One byte more.
    Mail(<<Multipart(0), Attachment(3, Content("gzip", {}, FineB)),
           Attachment(2, Content("gzip", {}, TwoFail))>>),
    Mail(<<Multipart(0), Attachment(1, Content("gzip", {}, FineA)),
           Attachment(1, Content("gzip", {}, FineB)),
           Attachment(1, [Content("gzip", {}, FineC) EXCEPT !.size = 9])>>),
    Mail(<<Multipart(0), Attachment(1, Content("gzip", {}, FineC)),
           Attachment(1, Content("json", {}, FineA2)),
           Attachment(1, Content("json", {}, FineToday))>>),
    \* Nested too deeply, behind a report.
    Mail(<<Multipart(0), Attachment(1, Content("gzip", {}, ThreeFail)),
           Multipart(1), Multipart(2)>>),
    [Mail(<<>>) EXCEPT !.readable = FALSE],
    [Mail(<<Attachment(1, Content("gzip", {}, FineA))>>) EXCEPT !.listable = FALSE] >>

Line(sub) == [sub |-> sub, config |-> TRUE, dryRun |-> FALSE, notify |-> FALSE,
              mode |-> "", yes |-> FALSE, window |-> <<>>]

MCCommandLines ==
    {Line(sub) : sub \in {"fetch", "summary", "reprocess", "gc", "recover", "help"}}
    \cup {[Line(sub) EXCEPT !.dryRun = TRUE] :
             sub \in {"fetch", "summary", "gc", "reprocess"}}
    \cup {[Line("fetch") EXCEPT !.config = FALSE],
          [Line("reprocess") EXCEPT !.notify = TRUE],
          [Line("gc") EXCEPT !.notify = TRUE],
          [Line("summary") EXCEPT !.window = <<1, "d">>],
          [Line("summary") EXCEPT !.window = <<1, "w">>],
          [Line("summary") EXCEPT !.window = <<3, "w">>],
          [Line("recover") EXCEPT !.yes = TRUE],
          [Line("recover") EXCEPT !.mode = "keep-old"],
          [Line("recover") EXCEPT !.mode = "keep-old", !.dryRun = TRUE],
          [Line("recover") EXCEPT !.mode = "discard-old"],
          [Line("recover") EXCEPT !.mode = "discard-old", !.yes = TRUE]}

=============================================================================
