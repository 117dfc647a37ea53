----------------------------- MODULE BillAccount -----------------------------
(***************************************************************************)
(* What the payment code promises about the money of one bill,             *)
(* whatever requests, webhooks, sweeps and failures it takes: every        *)
(* payment is credited at most once and as a whole, never above the total, *)
(* and a captured order that is not credited is kept to be returned.       *)
(***************************************************************************)
EXTENDS Integers

CONSTANTS
    Orders,     \* online payments
    Keys        \* offline payments

VARIABLES
    total,      \* what is owed
    paid,       \* what is credited
    standing,   \* "open", or "cancelled" for good
    fate,       \* of each payment
    amount      \* of each credited payment

vars == <<total, paid, standing, fate, amount>>

Payments == Orders \cup Keys

Init ==
    /\ total \in Nat
    /\ paid = 0
    /\ standing = "open"
    /\ fate = [x \in Payments |-> "new"]
    /\ amount = [x \in Payments |-> 0]

\* Money that fits in what is due is credited, all of it.
Take(x, m) ==
    /\ fate[x] = "new" /\ standing = "open"
    /\ fate' = [fate EXCEPT ![x] = "credited"]
    /\ amount' = [amount EXCEPT ![x] = m]
    /\ paid' = paid + m
    /\ UNCHANGED <<total, standing>>

\* A captured order that does not fit is kept apart, and later returned.
Hold(a) ==
    /\ fate[a] = "new"
    /\ fate' = [fate EXCEPT ![a] = "held"]
    /\ UNCHANGED <<total, paid, standing, amount>>

Return(a) ==
    /\ fate[a] = "held"
    /\ fate' = [fate EXCEPT ![a] = "returned"]
    /\ UNCHANGED <<total, paid, standing, amount>>

\* An offline payment recorded by mistake is taken back, once.
Void(k) ==
    /\ fate[k] = "credited"
    /\ fate' = [fate EXCEPT ![k] = "returned"]
    /\ paid' = paid - amount[k]
    /\ UNCHANGED <<total, standing, amount>>

Adjust ==
    /\ standing = "open"
    /\ total' \in Nat /\ paid <= total'
    /\ UNCHANGED <<paid, standing, fate, amount>>

Cancel ==
    /\ standing = "open" /\ \A x \in Payments : fate[x] # "credited"
    /\ standing' = "cancelled"
    /\ UNCHANGED <<total, paid, fate, amount>>

Next ==
    \/ Adjust
    \/ Cancel
    \/ \E x \in Payments : \E m \in 1..(total - paid) : Take(x, m)
    \/ \E a \in Orders : Hold(a) \/ Return(a)
    \/ \E k \in Keys : Void(k)

Spec == Init /\ [][Next]_vars
=============================================================================
