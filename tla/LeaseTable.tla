----------------------------- MODULE LeaseTable -----------------------------
(***************************************************************************)
(* What a lease table promises, whatever it stores and whoever works on    *)
(* it: a slot is taken only while it is free, and a taken slot is given    *)
(* back only when its lease has expired or its own allocation is undone.   *)
(* WgLease implements it with the rows of worker_wireguard_configs,        *)
(* Socks5Lease with the exclusive rows of worker_socks5_configs.           *)
(***************************************************************************)
EXTENDS Naturals

CONSTANTS
    Slots,     \* what can be leased
    Free       \* the expiry of a slot without a lease

VARIABLES
    now,       \* the clock
    tab,       \* the expiry of each slot's lease, or Free
    pending    \* slots whose allocation may still be undone

vars == <<now, tab, pending>>

Init ==
    /\ now = 0
    /\ tab = [i \in Slots |-> Free]
    /\ pending = {}

\* An allocation takes a free slot; it may still have work to do.
Take(i, e) ==
    /\ tab[i] = Free /\ e \in Nat \ {Free}
    /\ tab' = [tab EXCEPT ![i] = e]
    /\ pending' \in {pending, pending \cup {i}}
    /\ UNCHANGED now

\* Allocations are completed, or abandoned for good.
Settle ==
    /\ pending' \in SUBSET pending
    /\ UNCHANGED <<now, tab>>

\* An allocation is undone.
Abort(i) ==
    /\ i \in pending
    /\ tab' = [tab EXCEPT ![i] = Free]
    /\ pending' = pending \ {i}
    /\ UNCHANGED now

\* Slots whose lease has expired are given back.
Reclaim(S) ==
    /\ \A i \in S : tab[i] # Free /\ tab[i] <= now
    /\ tab' = [i \in Slots |-> IF i \in S THEN Free ELSE tab[i]]
    /\ pending' = pending \ S
    /\ UNCHANGED now

\* A completed lease gets a later expiry.
Extend(i, e) ==
    /\ tab[i] # Free /\ i \notin pending
    /\ e \in Nat \ {Free} /\ e >= tab[i]
    /\ tab' = [tab EXCEPT ![i] = e]
    /\ UNCHANGED <<now, pending>>

\* Time passes; an allocation that outlives its lease has nothing to undo.
Tick ==
    /\ now' = now + 1
    /\ pending' \in SUBSET pending
    /\ UNCHANGED tab

\* The expiries a step may write are those it finds in the next state.
Next ==
    \/ \E i \in Slots : Take(i, tab'[i]) \/ Abort(i) \/ Extend(i, tab'[i])
    \/ Reclaim({i \in Slots : tab[i] # Free /\ tab'[i] = Free})
    \/ Settle
    \/ Tick

Spec == Init /\ [][Next]_vars
=============================================================================
