----------------------------- MODULE MCBroker -----------------------------
(***************************************************************************)
(* Broker for TLC: prices of 9 to 12 ticks with a limit of 10%, rates of  *)
(* one or two tenths, and one symbol or two that share the cash.           *)
(***************************************************************************)
EXTENDS FifoStats

MCDay(first, close, pre_close) == [first |-> first, close |-> close, pre_close |-> pre_close]

\* An ordinary day, a day at limit-up and one at limit-down, and one whose last
\* bar differs from its first.
MCBars == {MCDay(10, 10, 10), MCDay(11, 11, 10), MCDay(9, 9, 10), MCDay(10, 12, 12)}

\* All and half.
MCPercents == {<<1, 1>>, <<1, 2>>}

MCLimitPct == [s \in Symbols |-> 1]
=============================================================================
