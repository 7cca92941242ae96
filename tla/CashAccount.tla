--------------------------- MODULE CashAccount ---------------------------
(***************************************************************************)
(* What the simulated broker promises a strategy: an A-share cash account. *)
(* Shares are paid for with the cash at hand, only shares that are held    *)
(* are sold, and shares bought on one day are sold on a later day at the   *)
(* earliest (T+1).                                                         *)
(***************************************************************************)
EXTENDS Integers

CONSTANT Symbols

VARIABLES
    date,       \* the day of the last settlement
    cash,
    settled,    \* shares that may be sold
    unsettled   \* shares bought since the last settlement

vars == <<date, cash, settled, unsettled>>

Init ==
    /\ date = 0
    /\ cash \in Nat
    /\ settled = [s \in Symbols |-> 0]
    /\ unsettled = [s \in Symbols |-> 0]

\* A new day begins: what was bought is settled.
Settle ==
    /\ date' > date
    /\ settled' = [s \in Symbols |-> settled[s] + unsettled[s]]
    /\ unsettled' = [s \in Symbols |-> 0]
    /\ UNCHANGED cash

Buy(s) ==
    /\ unsettled' = [unsettled EXCEPT ![s] = unsettled'[s]]
    /\ unsettled'[s] > unsettled[s]
    /\ 0 <= cash' /\ cash' <= cash
    /\ UNCHANGED <<date, settled>>

Sell(s) ==
    /\ settled' = [settled EXCEPT ![s] = settled'[s]]
    /\ 0 <= settled'[s] /\ settled'[s] < settled[s]
    /\ cash <= cash'
    /\ UNCHANGED <<date, unsettled>>

Next == Settle \/ \E s \in Symbols : Buy(s) \/ Sell(s)

Spec == Init /\ [][Next]_vars
=============================================================================
