----------------------------- MODULE FifoStats -----------------------------
(***************************************************************************)
(* calculate_fifo_stats (backtest/analyzer.rs): from nothing but the       *)
(* broker's list of trades, the analyzer pairs what was sold with the lots *)
(* it was bought in, first in first out.  The profits of the pairs are     *)
(* what win_rate and profit_ratio of a report are computed from.           *)
(***************************************************************************)
EXTENDS Broker, FiniteSets

CONSTANT Parts      \* profits count 1/Parts

\* The data of a run hold finitely many symbols.
ASSUME FifoAssumption == Parts \in Nat /\ IsFiniteSet(Symbols)

NewLot(trade) == [price |-> trade.price, amount |-> trade.amount, fee |-> trade.fee]

\* The part of a fee that n shares out of a number pay.  It is exact when Parts
\* is a multiple of that number; other parts are rounded up.
FeeShare(fee, n, number) == (Parts * fee * n + number - 1) \div number

\* A pair's share of the buying fee is taken from what is left of the lot, but the
\* fee of the lot stays whole; so a lot sold in parts is charged more than its fee.
PairedPnl(lot, sell, n) ==
    Parts * (sell.price - lot.price) * n
        - FeeShare(lot.fee, n, lot.amount)
        - FeeShare(sell.fee, n, sell.amount)

\* Mutant: a lot leaves the queue with the first shares sold from it.
TakeWholeLot(state, lot, sell) ==
    LET n == IF state.remaining < lot.amount THEN state.remaining ELSE lot.amount
    IN  IF n = 0 THEN [state EXCEPT !.lots = Append(@, lot)]
        ELSE [remaining |-> state.remaining - n,
              lots |-> state.lots,
              paired |-> Append(state.paired, [amount |-> n, pnl |-> PairedPnl(lot, sell, n)])]

\* The front of the queue gives what remains of the sale, as far as it goes, and
\* leaves the queue with its last share.  When nothing remains the loop has ended,
\* and the lots behind stay as they are.
TakeFromLot(state, lot, sell) ==
    LET n == IF state.remaining < lot.amount THEN state.remaining ELSE lot.amount
    IN  IF n = 0 THEN [state EXCEPT !.lots = Append(@, lot)]
        ELSE [remaining |-> state.remaining - n,
              lots |-> IF n = lot.amount THEN state.lots
                       ELSE Append(state.lots, [lot EXCEPT !.amount = @ - n]),
              paired |-> Append(state.paired, [amount |-> n, pnl |-> PairedPnl(lot, sell, n)])]

\* The loop over the queue: what it has done after each lot.
Selling(lots, sell, paired) ==
    LET state[i \in 0..Len(lots)] ==
          IF i = 0 THEN [remaining |-> sell.amount, lots |-> <<>>, paired |-> paired]
          ELSE TakeFromLot(state[i - 1], lots[i], sell)
    IN  state

\* One turn of the loop over the trades.
PairTrade(stats, trade) ==
    LET lots == stats.pending_buys[trade.symbol]
        sold == Selling(lots, trade, stats.paired)[Len(lots)]
    IN  IF trade.order_type = "Buy"
        THEN [stats EXCEPT !.pending_buys[trade.symbol] = Append(lots, NewLot(trade))]
        ELSE [stats EXCEPT !.pending_buys[trade.symbol] = sold.lots, !.paired = sold.paired]

NoStats == [pending_buys |-> [s \in Symbols |-> <<>>], paired |-> <<>>]

\* The loop over the trades: its statistics after each one.
Pairing(list) ==
    LET stats[i \in 0..Len(list)] ==
          IF i = 0 THEN NoStats ELSE PairTrade(stats[i - 1], list[i])
    IN  stats

CalculateFifoStats == Pairing(trades)[Len(trades)]

-----------------------------------------------------------------------------
SharesIn(lots) == SumFunction([i \in DOMAIN lots |-> lots[i].amount])
CostOf(lots) == SumFunction([i \in DOMAIN lots |-> lots[i].price * lots[i].amount + lots[i].fee])
SharesPaired(pairs) == SumFunction([i \in DOMAIN pairs |-> pairs[i].amount])
Profit(pairs) == SumFunction([i \in DOMAIN pairs |-> pairs[i].pnl])

\* The lots the analyzer has left are the positions the broker holds, every share
\* sold is paired, and the profits of the pairs are never better than what the
\* account made: its cash has grown by no less, once the lots it still holds are
\* counted at what they cost (analyzer.rs:178-243 against broker.rs:185-264).
FifoAgrees ==
    LET stats == CalculateFifoStats
        lots == stats.pending_buys
    IN  /\ \A s \in Symbols : SharesIn(lots[s]) = positions[s]
        /\ SharesPaired(stats.paired) = Shares(LAMBDA t : t.order_type = "Sell")
        /\ Profit(stats.paired)
              <= Parts * (cash - InitialCash + SumFunction([s \in Symbols |-> CostOf(lots[s])]))
=============================================================================
