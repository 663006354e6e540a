----------------------------- MODULE KsefDelivery -----------------------------
(***************************************************************************)
(* What the submission of invoices promises to the accountant, without     *)
(* attempts, sessions, queues or references: an invoice is transmitted to  *)
(* KSeF at most once, KSeF decides on it once, and the books show a        *)
(* verdict only if it is the one KSeF gave.  A booked verdict may be       *)
(* reopened and booked again, but never replaced by the opposite one.      *)
(***************************************************************************)
EXTENDS Naturals

CONSTANT Invoices

VARIABLES
    sent,       \* how many times the invoice was transmitted
    verdict,    \* what KSeF decided
    books       \* what the program shows

vars == <<sent, verdict, books>>

Init ==
    /\ sent = [i \in Invoices |-> 0]
    /\ verdict = [i \in Invoices |-> "open"]
    /\ books = [i \in Invoices |-> "open"]

Transmit(i) ==
    /\ sent[i] = 0
    /\ sent' = [sent EXCEPT ![i] = 1]
    /\ UNCHANGED <<verdict, books>>

Decide(i) ==
    /\ sent[i] = 1
    /\ verdict[i] = "open"
    /\ \E v \in {"accepted", "rejected"} : verdict' = [verdict EXCEPT ![i] = v]
    /\ UNCHANGED <<sent, books>>

Book(i) ==
    /\ verdict[i] # "open"
    /\ books' = [books EXCEPT ![i] = verdict[i]]
    /\ UNCHANGED <<sent, verdict>>

Reopen(i) ==
    /\ books' = [books EXCEPT ![i] = "open"]
    /\ UNCHANGED <<sent, verdict>>

Next == \E i \in Invoices : Transmit(i) \/ Decide(i) \/ Book(i) \/ Reopen(i)

Spec == Init /\ [][Next]_vars
=============================================================================
