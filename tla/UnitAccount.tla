----------------------------- MODULE UnitAccount -----------------------------
(***************************************************************************)
(* What a ledger of prepaid units promises, without tables, clocks or      *)
(* callers.  A plan gets a ticket while there are units for it; a ticket   *)
(* is given back or spent, once; and a spent one pays for its plan, once.  *)
(***************************************************************************)
EXTENDS Integers, FiniteSets

CONSTANTS Ticket, Plan, MaxUnits, MaxOpen

VARIABLES
  plan,    \* the plan of every ticket that was ever issued
  open,    \* the tickets that are neither spent nor given back
  spent,   \* the tickets that are spent
  paid     \* the plans that each ticket paid for

vars == <<plan, open, spent, paid>>

Init ==
  /\ DOMAIN plan = {}
  /\ open = {} /\ spent = {}
  /\ paid = [t \in Ticket |-> <<>>]

\* The units of some tickets, one by one.
Units(tickets) == UNION {{t} \X (1..plan[t].units) : t \in tickets}

\* Some open tickets are given back, or run out.
GiveBack == open' \in SUBSET open /\ UNCHANGED <<plan, spent, paid>>

\* A ticket for a plan, when some that ran out are given back: it is the only one
\* of its fingerprint.
Issue(t, p, kept) ==
  /\ kept \subseteq open
  /\ t \notin DOMAIN plan
  /\ \A u \in kept : plan[u].fp # p.fp
  /\ Cardinality(kept) < MaxOpen
  /\ p.units + Cardinality(Units(kept \cup spent)) <= MaxUnits
  /\ open' = kept \cup {t}
  /\ plan' = [u \in DOMAIN plan \cup {t} |-> IF u = t THEN p ELSE plan[u]]
  /\ UNCHANGED <<spent, paid>>

Spend(t) ==
  /\ t \in open
  /\ open' = open \ {t}
  /\ spent' = spent \cup {t}
  /\ UNCHANGED <<plan, paid>>

Pay(t) ==
  /\ t \in spent
  /\ paid[t] = <<>>
  /\ paid' = [paid EXCEPT ![t] = <<plan[t]>>]
  /\ UNCHANGED <<plan, open, spent>>

Next ==
  \/ GiveBack
  \/ \E t \in Ticket, p \in Plan, kept \in SUBSET open : Issue(t, p, kept)
  \/ \E t \in Ticket : Spend(t) \/ Pay(t)

Spec == Init /\ [][Next]_vars
=============================================================================
