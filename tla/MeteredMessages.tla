-------------------------- MODULE MeteredMessages --------------------------
(***************************************************************************)
(* What the SMS API promises about money, without requests, leases or      *)
(* retries: a message leaves only while its credits are held, the hold is  *)
(* dropped only if the message did not leave, and a hold becomes a charge  *)
(* only for a message that left.  The one exception are messages reported  *)
(* as certain failures although the gateway knew them: their hold may be   *)
(* dropped, whether they left or not.                                      *)
(***************************************************************************)
EXTENDS Naturals

CONSTANT Keys

VARIABLES
    sent,      \* messages the gateway has accepted
    credit,    \* credit[k]: "none", "held" or "charged"
    forgotten  \* messages reported as failures although the gateway knew them

vars == <<sent, credit, forgotten>>

Init ==
    /\ sent = {}
    /\ credit = [k \in Keys |-> "none"]
    /\ forgotten = {}

Hold(k) ==
    /\ credit[k] = "none"
    /\ credit' = [credit EXCEPT ![k] = "held"]
    /\ UNCHANGED <<sent, forgotten>>

Drop(k) ==
    /\ credit[k] = "held"
    /\ k \notin sent \/ k \in forgotten
    /\ credit' = [credit EXCEPT ![k] = "none"]
    /\ UNCHANGED <<sent, forgotten>>

\* Several messages may turn out to have left at once, after a crash.
Send ==
    \E S \in SUBSET {k \in Keys : credit[k] = "held" \/ k \in forgotten} :
        /\ sent' = sent \cup S
        /\ UNCHANGED <<credit, forgotten>>

\* A message that has, or may just have, left on its credits is taken for a
\* failure.
Forget(k) ==
    /\ credit[k] # "none"
    /\ forgotten' = forgotten \cup {k}
    /\ sent' \in {sent, sent \cup {k}}
    /\ UNCHANGED credit

Charge(k) ==
    /\ credit[k] = "held"
    /\ k \in sent
    /\ credit' = [credit EXCEPT ![k] = "charged"]
    /\ UNCHANGED <<sent, forgotten>>

Next ==
    \/ Send
    \/ \E k \in Keys : Hold(k) \/ Drop(k) \/ Forget(k) \/ Charge(k)

Spec == Init /\ [][Next]_vars

=============================================================================
