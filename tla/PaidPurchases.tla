---------------------------- MODULE PaidPurchases ----------------------------
(***************************************************************************)
(* What the shared acquisition store promises about money, without locks,  *)
(* sessions or processes: a purchase is reserved on some day within that   *)
(* day's allowance, is charged for at most once, and a fingerprint gets    *)
(* its next generation only when every earlier one delivered a result.     *)
(***************************************************************************)
EXTENDS Integers, FiniteSets

CONSTANTS Fingerprint, Generation, Day, DailyLimit

VARIABLES
    reserved,   \* <<f, g, d>>: generation g of f was reserved on day d
    charged,    \* <<f, g, i>>: the vendor's i-th charge was for g of f
    delivered   \* <<f, g>>: the result of generation g of f is stored

vars == <<reserved, charged, delivered>>

Init ==
    /\ reserved = {}
    /\ charged = {}
    /\ delivered = {}

Reserve(f, g, d) ==
    /\ \A r \in reserved : r[1] = f => r[2] # g /\ <<f, r[2]>> \in delivered
    /\ Cardinality({r \in reserved : r[3] = d}) < DailyLimit
    /\ reserved' = reserved \cup {<<f, g, d>>}
    /\ UNCHANGED <<charged, delivered>>

Charge(f, g, i) ==
    /\ \E r \in reserved : r[1] = f /\ r[2] = g
    /\ \A c \in charged : <<c[1], c[2]>> # <<f, g>> /\ c[3] # i
    /\ charged' = charged \cup {<<f, g, i>>}
    /\ UNCHANGED <<reserved, delivered>>

Deliver(f, g) ==
    /\ \E c \in charged : c[1] = f /\ c[2] = g
    /\ delivered' = delivered \cup {<<f, g>>}
    /\ UNCHANGED <<reserved, charged>>

\* The i-th charge is one of at most one per fingerprint and generation.
Charges == 1..(Cardinality(Fingerprint) * Cardinality(Generation))

Next == \E f \in Fingerprint, g \in Generation :
    \/ \E d \in Day : Reserve(f, g, d)
    \/ \E i \in Charges : Charge(f, g, i)
    \/ Deliver(f, g)

Spec == Init /\ [][Next]_vars
=============================================================================
