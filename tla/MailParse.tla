------------------------------ MODULE MailParse ------------------------------
(***************************************************************************)
(* From a message to the TLS reports in it: mailparse walks the MIME parts *)
(* and decodes the attachments within a budget for the whole message, and  *)
(* tlsrpt parses those that look like a report.                            *)
(*                                                                         *)
(* A message is [listable, size, readable, parts]: whether the server has  *)
(* its date and its envelope, its size as it was sent, whether             *)
(* mail.ReadMessage accepts it, and its parts in the order in which        *)
(* extractParts meets them.  A part is a record with the field kind:       *)
(*   "multipart"    [depth], the depth of the extractParts that reads it   *)
(*   "malformed"    the multipart reader, or the top-level Content-Type,   *)
(*                  gives an error here                                    *)
(*   "skipped"      inline, without a name, or in an unsupported encoding  *)
(*   "undecodable"  [size], bytes that decode before the base64 breaks off *)
(* (a report in one of the last two is dropped, and nobody is told)        *)
(*   "attachment"   [size, content]                                        *)
(* The content of an attachment is [format, size, missing, report]: its    *)
(* size when decompressed, and the fields that are not in it ("json" if it *)
(* is not JSON at all).                                                    *)
(***************************************************************************)
EXTENDS Lists

CONSTANTS
    MaxMessageBytes,    \* imap.max_message_bytes, 0 for no limit
    MaxMultipartDepth,  \* maxMultipartDepth
    MaxDecompressed     \* maxDecompressedSize

ASSUME ParseAssumption ==
    {MaxMessageBytes, MaxMultipartDepth, MaxDecompressed} \subseteq Nat

\* A report is as described in SlackFormat.  The parser takes any number of
\* sessions from the JSON; those of a failure detail are not negative (RFC 8460).
Policies == [ok : Int, failed : Int, details : Seq(Nat)]
Reports == [org : STRING, id : STRING, day : Int, policies : Seq(Policies)]

RequiredFields == {"json", "organization-name", "report-id", "date-range", "policies"}

Contents == [format : {"gzip", "json", "other"}, size : Nat,
             missing : SUBSET RequiredFields, report : Reports]

Parts == [kind : {"multipart"}, depth : Nat]
         \cup [kind : {"malformed", "skipped"}]
         \cup [kind : {"undecodable"}, size : Nat]
         \cup [kind : {"attachment"}, size : Nat, content : Contents]

Mails == [listable : BOOLEAN, size : Nat, readable : BOOLEAN, parts : Seq(Parts)]

-----------------------------------------------------------------------------
(* ExtractAttachments                                                      *)

Decoded == {"undecodable", "attachment"}
DecodedSize(part) == IF part.kind \in Decoded THEN part.size ELSE 0

\* Variant: the budget is one for each attachment.
WithinLimitEach(total, size) == MaxMessageBytes = 0 \/ size <= MaxMessageBytes

\* decodeContent, for a part of that size after which total bytes have been
\* decoded.
WithinLimit(total, size) == MaxMessageBytes = 0 \/ total <= MaxMessageBytes

\* processPart, when ok says that no part before gave an error.
ProcessPart(walk, part) ==
    LET total == walk.total + DecodedSize(part)
    IN  [ok    |-> /\ walk.ok
                   /\ part.kind # "malformed"
                   /\ part.kind = "multipart" => part.depth <= MaxMultipartDepth
                   /\ part.kind \in Decoded => WithinLimit(total, part.size),
         total |-> total,
         found |-> IF part.kind = "attachment"
                   THEN Append(walk.found, part.content) ELSE walk.found]

\* ok is FALSE, and nothing is found, if there was an error.
ExtractAttachments(mail) ==
    LET walk[n \in 0..Len(mail.parts)] ==
            IF n = 0 THEN [ok |-> TRUE, total |-> 0, found |-> <<>>]
            ELSE ProcessPart(walk[n - 1], mail.parts[n])
        end == walk[Len(mail.parts)]
    IN  [ok |-> end.ok, found |-> IF end.ok THEN end.found ELSE <<>>]

-----------------------------------------------------------------------------
(* parseTLSRPTAttachment                                                   *)

\* By Content-Type, and else by the suffix of the name.
IsReport(content) == content.format \in {"gzip", "json"}

\* ParseGzip, ParseJSON
Parses(content) ==
    /\ content.size <= MaxDecompressed
    /\ content.missing \cap RequiredFields = {}

\* Variant: one that does not parse spoils the others.
ParsedIfAll(candidates) ==
    IF \A i \in DOMAIN candidates : Parses(candidates[i]) THEN candidates ELSE <<>>

\* The reports among the candidates of a message.
Parsed(candidates) ==
    Subsequence(candidates, {i \in DOMAIN candidates : Parses(candidates[i])})

\* What processAttachments makes of a message: its reports, and a warning for
\* a message that cannot be read and for every report that cannot.
ProcessMail(mail) ==
    LET attachments == ExtractAttachments(mail)
        found       == attachments.found
        candidates  == Subsequence(found, {i \in DOMAIN found : IsReport(found[i])})
        good        == Parsed(candidates)
    IN  IF ~mail.readable \/ ~attachments.ok
        THEN [reports |-> <<>>, warnings |-> 1]
        ELSE [reports  |-> [i \in DOMAIN good |-> good[i].report],
              warnings |-> Len(candidates) - Len(good)]

-----------------------------------------------------------------------------
(* Reference definitions, from the whole message at once.                  *)

\* The indices of the parts of a kind.
Of(mail, kinds) == {i \in DOMAIN mail.parts : mail.parts[i].kind \in kinds}

\* A message is refused as a whole, or taken as a whole.
Acceptable(mail) ==
    /\ mail.readable
    /\ Of(mail, {"malformed"}) = {}
    /\ \A i \in Of(mail, {"multipart"}) : mail.parts[i].depth <= MaxMultipartDepth
    /\ MaxMessageBytes > 0 =>
           Sum(Map(mail.parts, DecodedSize)) <= MaxMessageBytes

\* The attachments that claim to be reports, among those that decode: a part
\* that does not, or is in an unsupported encoding, is no attachment to
\* ExtractAttachments.  And those that are reports.
Claimed(mail) ==
    {i \in Of(mail, {"attachment"}) : mail.parts[i].content.format # "other"}
Genuine(mail) ==
    {i \in Claimed(mail) : /\ mail.parts[i].content.missing = {}
                           /\ mail.parts[i].content.size <= MaxDecompressed}

=============================================================================
