--------------------------- MODULE MCBuyAndHold ---------------------------
(***************************************************************************)
(* BuyAndHold for TLC: one bar per day at quiet prices, the slippage of    *)
(* config.rs:77 (0.1%), no fees at all, cash for about a hundred shares.   *)
(***************************************************************************)
EXTENDS BuyAndHold

MCBars == [first : {10}, close : {10}, pre_close : {10}]
         \cup [first : {11}, close : {11}, pre_close : {10, 11}]
MCPercents == {<<1, 1>>}
MCLimitPct == [s \in Symbols |-> 100]
=============================================================================
