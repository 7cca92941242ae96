---------------------------- MODULE BuyAndHold ----------------------------
(***************************************************************************)
(* The built-in strategy of the same name (server-rust/src/backtest/       *)
(* worker.rs:74-101) run on the broker, over daily data: one bar per       *)
(* symbol and day.                                                         *)
(***************************************************************************)
EXTENDS Broker, SequencesExt, FiniteSets

VARIABLE has_bought

holdVars == <<vars, has_bought>>

HoldInit == Init /\ has_bought = FALSE

\* Context::buy for each bar of the group, in the order of the data, with equal
\* weights; orders for no shares are not submitted.
BuyOrders(order) ==
    LET weight == <<1, Len(order)>>
        placed == [i \in DOMAIN order |->
                      [symbol |-> order[i], amount |-> BuyAmount(order[i], weight),
                       order_type |-> "Buy"]]
    IN  SelectSeq(placed, LAMBDA o : o.amount > 0)

\* on_bar: the first call buys, later ones do nothing.
HoldOnBar ==
    /\ phase = "on_bar"
    /\ ~has_bought
    /\ \E order \in SetToSeqs({s \in Symbols : bars[s] # NoBar}) :
          pending_orders' = BuyOrders(order)
    /\ has_bought' = TRUE
    /\ UNCHANGED <<day, phase, bars, account, last_trade_date, last_prices, equity_curve>>

HoldOnBarReturns == has_bought /\ OnBarReturns /\ UNCHANGED has_bought

HoldNext ==
    \/ HoldOnBar
    \/ HoldOnBarReturns
    \/ (NextDate \/ Trade \/ RecordSnapshot \/ ExitRun) /\ UNCHANGED has_bought

HoldSpec == HoldInit /\ [][HoldNext]_holdVars

\* "Buy and hold: buys on the first day, holds to the last" (worker.rs:74), where
\* none of the day's closes is at its limit and the cash pays for ten shares of
\* each symbol.
HeldFromTheFirstDay ==
    ( /\ phase = "date" /\ day = 1
      /\ \A s \in Symbols :
            bars[s] # NoBar =>
               /\ bars[s].pre_close = bars[s].close
               /\ 10 * Cardinality(Symbols) * bars[s].close * Scale <= InitialCash )
    => \A s \in Symbols : bars[s] # NoBar => positions[s] > 0
=============================================================================
