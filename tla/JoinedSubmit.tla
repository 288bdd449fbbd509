---------------------------- MODULE JoinedSubmit ----------------------------
(***************************************************************************)
(* What callers who join each other's purchase are promised, without       *)
(* ledgers, caches, locks or vendors.  A fingerprint has attempts, one     *)
(* after another: another is made only when all before failed without a    *)
(* submit, so that one submits at most.  An attempt has one verdict, which *)
(* tells whether it submitted, and whoever was told of it was told that.   *)
(***************************************************************************)
EXTENDS Naturals, Sequences

CONSTANTS Caller, Fingerprint

VARIABLES
  verdict,     \* the verdict of every attempt at a fingerprint, OPEN before it has one
  submitted,   \* the attempts at a fingerprint that submitted
  told         \* the attempt that a caller was last told of and its verdict, or nothing

vars == <<verdict, submitted, told>>

Verdict == {"FAILED_PRE_SUBMIT", "FAILED_POST_SUBMIT", "UNKNOWN_VENDOR_STATE", "SUCCEEDED"}
Nothing == <<>>

Init ==
  /\ verdict = [f \in Fingerprint |-> <<>>]
  /\ submitted = [f \in Fingerprint |-> <<>>]
  /\ told = [c \in Caller |-> Nothing]

latest(f) == Len(verdict[f])
Pending(f) == latest(f) # 0 /\ verdict[f][latest(f)] = "OPEN"

Attempt(f) ==
  /\ \A n \in DOMAIN verdict[f] : verdict[f][n] = "FAILED_PRE_SUBMIT"
  /\ verdict' = [verdict EXCEPT ![f] = Append(@, "OPEN")]
  /\ UNCHANGED <<submitted, told>>

Submit(f) ==
  /\ Pending(f)
  /\ submitted[f] = <<>>
  /\ submitted' = [submitted EXCEPT ![f] = <<latest(f)>>]
  /\ UNCHANGED <<verdict, told>>

\* Who leads the attempt settles it, and knows the verdict.
Settle(c, f, v) ==
  /\ Pending(f)
  /\ v = "FAILED_PRE_SUBMIT" <=> submitted[f] = <<>>
  /\ verdict' = [verdict EXCEPT ![f][latest(f)] = v]
  /\ told' = [told EXCEPT ![c] = <<f, latest(f), v>>]
  /\ UNCHANGED submitted

\* The others are told of an attempt when it is settled.
Tell(c, f, n) ==
  /\ verdict[f][n] # "OPEN"
  /\ told' = [told EXCEPT ![c] = <<f, n, verdict[f][n]>>]
  /\ UNCHANGED <<verdict, submitted>>

Forget(c) ==
  /\ told' = [told EXCEPT ![c] = Nothing]
  /\ UNCHANGED <<verdict, submitted>>

Next ==
  \/ \E f \in Fingerprint :
       \/ Attempt(f) \/ Submit(f)
       \/ \E c \in Caller :
            \/ \E v \in Verdict : Settle(c, f, v)
            \/ \E n \in DOMAIN verdict[f] : Tell(c, f, n)
  \/ \E c \in Caller : Forget(c)

Spec == Init /\ [][Next]_vars
=============================================================================
