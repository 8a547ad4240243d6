------------------------------ MODULE Notifier ------------------------------
(***************************************************************************)
(* What the commands rely on when they log to a SlackHandler and call      *)
(* Flush: records logged before Flush form a batch, any of them may reach  *)
(* Slack while it runs, and Flush returns without an error only if all of  *)
(* them have.  Fetch and Invocation assume this contract; SlackDelivery    *)
(* implements it with messages, retries and waits.                         *)
(***************************************************************************)
CONSTANT Records

VARIABLES
    handled,    \* records given to Handle
    buffer,     \* those that no Flush has taken
    batch,      \* those that the running Flush has taken, {} if none runs
    delivered,  \* records that have reached Slack
    failed      \* records of a Flush that returned an error

vars == <<handled, buffer, batch, delivered, failed>>

Init ==
    /\ handled = {} /\ buffer = {} /\ batch = {}
    /\ delivered = {} /\ failed = {}

Handle(r) ==
    /\ r \notin handled
    /\ handled' = handled \cup {r}
    /\ buffer' = buffer \cup {r}
    /\ UNCHANGED <<batch, delivered, failed>>

FlushBegins ==
    /\ batch = {} /\ buffer # {}
    /\ batch' = buffer
    /\ buffer' = {}
    /\ UNCHANGED <<handled, delivered, failed>>

Deliver ==
    /\ \E message \in SUBSET batch : delivered' = delivered \cup message
    /\ UNCHANGED <<handled, buffer, batch, failed>>

FlushSucceeds ==
    /\ batch # {} /\ batch \subseteq delivered
    /\ batch' = {}
    /\ UNCHANGED <<handled, buffer, delivered, failed>>

FlushFails ==
    /\ batch # {}
    /\ failed' = failed \cup batch
    /\ batch' = {}
    /\ UNCHANGED <<handled, buffer, delivered>>

Next ==
    \/ \E r \in Records : Handle(r)
    \/ FlushBegins \/ Deliver \/ FlushSucceeds \/ FlushFails

Spec == Init /\ [][Next]_vars

=============================================================================
