------------------------------- MODULE Outbox -------------------------------
(***************************************************************************)
(* What the Sends of one email Client promise the host, with no rendering  *)
(* and no texts in it:                                                     *)
(*   - a Send hands the Mailer at most one mail, with the subject of the   *)
(*     Message, to a list that it fixed once;                              *)
(*   - that list is the configured one, unless the host had by then        *)
(*     written to a list that it lent to the Client;                       *)
(*   - a Send returns nil only if the Mailer accepted its mail, and does   *)
(*     nothing more once it has returned.                                  *)
(* Email implements it; the module is the contract of                      *)
(* src/providers/email/email.go Send.                                      *)
(***************************************************************************)
EXTENDS Integers, Sequences

CONSTANTS Mails,     \* the calls of Send
          Lists,     \* lists of recipients that may be configured
          Subjects   \* the subjects a mail may bear

VARIABLES list,      \* the configured recipients
          lent,      \* the host has written to a list it shares with the Client
          subject,   \* of the Message
          draft,     \* the recipients each Send has fixed
          posted,    \* what the Mailer was given
          outcome    \* "none", "nil" or "error"

vars == <<list, lent, subject, draft, posted, outcome>>

Init == /\ list \in Lists
        /\ lent = FALSE
        /\ subject \in Subjects
        /\ draft   = [e \in Mails |-> <<>>]
        /\ posted  = [e \in Mails |-> <<>>]
        /\ outcome = [e \in Mails |-> "none"]

Lend == /\ lent' = TRUE
        /\ UNCHANGED <<list, subject, draft, posted, outcome>>

\* The recipients are fixed, once: whatever becomes of the list, it is these.
Fix(e) == /\ outcome[e] = "none"
          /\ draft[e] = <<>>
          /\ draft' = [draft EXCEPT ![e] = draft'[e]]
          /\ draft'[e] # <<>>
          /\ lent \/ draft'[e] = list
          /\ UNCHANGED <<list, lent, subject, posted, outcome>>

\* An error before the Mailer is called.
Refuse(e) == /\ outcome[e] = "none"
             /\ outcome' = [outcome EXCEPT ![e] = "error"]
             /\ UNCHANGED <<list, lent, subject, draft, posted>>

\* The one mail of a Send, and what the Mailer says of it.
Post(e, ok) == /\ outcome[e] = "none"
               /\ draft[e] # <<>>
               /\ posted'  = [posted EXCEPT ![e] = <<[to |-> draft[e], subject |-> subject]>>]
               /\ outcome' = [outcome EXCEPT ![e] = IF ok THEN "nil" ELSE "error"]
               /\ UNCHANGED <<list, lent, subject, draft>>

Next == \/ Lend
        \/ \E e \in Mails : Fix(e) \/ Refuse(e) \/ \E ok \in BOOLEAN : Post(e, ok)

Spec == Init /\ [][Next]_vars
=============================================================================
