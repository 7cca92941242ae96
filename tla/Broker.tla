------------------------------ MODULE Broker ------------------------------
(***************************************************************************)
(* The built-in backtest: the day loop of Engine::run, the orders that a   *)
(* strategy places through Context::buy and Context::sell, and the Broker  *)
(* that fills them (server-rust/src/backtest/engine.rs, context.rs,        *)
(* broker.rs).                                                             *)
(*                                                                         *)
(* Decimals are integers: prices count ticks, money counts 1/Scale of a    *)
(* tick, so that slippage and price limits are exact, as they are in       *)
(* rust_decimal; fees are rounded to multiples of Cent.  Left out are      *)
(* cost_basis and Trade.pnl, which nothing reads.                          *)
(***************************************************************************)
EXTENDS Integers, Sequences, Functions

CONSTANTS Symbols,
          Bars,             \* what the bars of one symbol on one day can be
          NoBar,            \* a symbol that does not trade today
          Percents,         \* fractions a strategy passes to buy and sell
          InitialCash,
          Scale,            \* denominator of the rates
          Cent,             \* fees are rounded to multiples of this
          Slippage, CommissionRate, StampDutyRate, TransferFeeRate,
          LimitPct,         \* daily price limit of a symbol
          MaxDays,          \* bound: trading days in the data
          MaxOrders         \* bound: orders a strategy places on one day

\* The bars of one symbol on one day: the closes of the first and of the last
\* one (daily data have just one), and pre_close of the last.
BarGroups == [first : Nat, close : Nat, pre_close : Int]

ASSUME BrokerAssumption ==
    /\ Bars \subseteq BarGroups
    /\ NoBar \notin Bars
    /\ Percents \subseteq Nat \X (Nat \ {0})
    /\ InitialCash \in Nat
    /\ Scale \in Nat \ {0}
    /\ Cent \in Nat \ {0}
    /\ Slippage \in 0..Scale
    /\ CommissionRate \in Nat /\ StampDutyRate \in Nat /\ TransferFeeRate \in Nat
    /\ 2 * (CommissionRate + StampDutyRate + TransferFeeRate) <= Scale
    /\ LimitPct \in [Symbols -> 0..Scale]
    /\ MaxDays \in Nat
    /\ MaxOrders \in Nat

VARIABLES
    day,                \* days of the loop that have begun
    phase,              \* where in Engine::run
    bars,               \* group_bars
    pending_orders,
    cash, positions, today_bought, last_trade_date, last_prices,
    trades, equity_curve

account == <<cash, positions, today_bought, trades>>
vars == <<day, phase, bars, pending_orders, account, last_trade_date, last_prices,
          equity_curve>>

Sides == {"Buy", "Sell"}
Orders == [symbol : Symbols, amount : Nat \ {0}, order_type : Sides]
Trades == [symbol : Symbols, amount : Nat \ {0}, order_type : Sides,
           price : Nat, fee : Nat, day : Nat]
Snapshots == [day : Nat, cash : Int, position_value : Int]

\* A symbol that is not a key of one of the broker's hash maps reads as 0.
AccountTypeOK ==
    /\ day \in 0..MaxDays
    /\ phase \in {"date", "on_bar", "execute", "exit"}
    /\ bars \in [Symbols -> Bars \cup {NoBar}]
    /\ pending_orders \in Seq(Orders)
    /\ cash \in Int
    /\ positions \in [Symbols -> Int]
    /\ today_bought \in [Symbols -> Nat]
    /\ last_trade_date \in 0..MaxDays
    /\ last_prices \in [Symbols -> Nat]
    /\ trades \in Seq(Trades)

TypeOK == AccountTypeOK /\ equity_curve \in Seq(Snapshots)

Init ==
    /\ day = 0
    /\ phase = "date"
    /\ bars = [s \in Symbols |-> NoBar]
    /\ pending_orders = <<>>
    /\ cash = InitialCash
    /\ positions = [s \in Symbols |-> 0]
    /\ today_bought = [s \in Symbols |-> 0]
    /\ last_trade_date = 0
    /\ last_prices = [s \in Symbols |-> 0]
    /\ trades = <<>>
    /\ equity_curve = <<>>

-----------------------------------------------------------------------------
(* Broker: the value of the account, prices, fees and limits *)

PositionValue == SumFunction([s \in Symbols |-> positions[s] * last_prices[s] * Scale])
TotalValue == cash + PositionValue

\* cost * rate, rounded to two decimals, midpoints to the even neighbour.
Fee(cost, rate) ==
    LET exact == cost * rate
        unit == Scale * Cent
        cents == exact \div unit
        rest == exact % unit
        up == 2 * rest > unit \/ (2 * rest = unit /\ cents % 2 = 1)
    IN  Cent * (IF up THEN cents + 1 ELSE cents)

BuyFees(cost) == Fee(cost, CommissionRate) + Fee(cost, TransferFeeRate)
SellFees(cost) ==
    Fee(cost, CommissionRate) + Fee(cost, StampDutyRate) + Fee(cost, TransferFeeRate)

\* Mutant: slippage in the strategy's favour.
FillPriceSwapped(side, close) ==
    IF side = "Sell" THEN close * (Scale + Slippage) ELSE close * (Scale - Slippage)

FillPrice(side, close) ==
    IF side = "Buy" THEN close * (Scale + Slippage) ELSE close * (Scale - Slippage)

\* Closes at the daily limit do not fill: no buy at limit-up, no sell at
\* limit-down, with a tolerance of 0.1% for the rounding of real limit prices.
AtLimit(order, bar) ==
    /\ bar.pre_close > 0
    /\ bar.pre_close # bar.close
    /\ \/ /\ order.order_type = "Buy"
          /\ 1000 * bar.close * Scale
                >= 999 * bar.pre_close * (Scale + LimitPct[order.symbol])
       \/ /\ order.order_type = "Sell"
          /\ 1000 * bar.close * Scale
                <= 1001 * bar.pre_close * (Scale - LimitPct[order.symbol])

-----------------------------------------------------------------------------
(* Engine::run and the strategy *)

\* The next date of the data, with the bars of at least one symbol.
NextDate ==
    /\ phase = "date"
    /\ day < MaxDays
    /\ day' = day + 1
    /\ bars' \in [Symbols -> Bars \cup {NoBar}]
    /\ \E s \in Symbols : bars'[s] # NoBar
    /\ phase' = "on_bar"
    /\ UNCHANGED <<pending_orders, account, last_trade_date, last_prices, equity_curve>>

\* Decimal::to_u64, or 0 where there is none.
ToU64(n) == IF n \in Nat THEN n ELSE 0

\* The shares Context::buy orders: a part of the total value, at the day's first
\* close.  Context::sell orders a part of the position.  The code divides both by
\* 100 and multiplies by 100 without rounding in between, which changes nothing.
BuyAmount(s, percent) ==
    IF bars[s] = NoBar \/ bars[s].first = 0
    THEN 0
    ELSE ToU64((TotalValue * percent[1]) \div (percent[2] * bars[s].first * Scale))

SellAmount(s, percent) == ToU64((positions[s] * percent[1]) \div percent[2])

PlaceOrder(order) ==
    /\ phase = "on_bar"
    /\ Len(pending_orders) < MaxOrders
    /\ order.amount > 0
    /\ pending_orders' = Append(pending_orders, order)
    /\ UNCHANGED <<day, phase, bars, account, last_trade_date, last_prices, equity_curve>>

PlaceBuy(s, percent) ==
    PlaceOrder([symbol |-> s, amount |-> BuyAmount(s, percent), order_type |-> "Buy"])

PlaceSell(s, percent) ==
    PlaceOrder([symbol |-> s, amount |-> SellAmount(s, percent), order_type |-> "Sell"])

\* Mutant: the day's purchases are never cleared.
OnBarReturnsUncleared ==
    /\ phase = "on_bar"
    /\ phase' = "execute"
    /\ last_trade_date' = day
    /\ UNCHANGED <<day, bars, pending_orders, account, last_prices, equity_curve>>

\* on_bar returns; execute() begins with the change of date.
OnBarReturns ==
    /\ phase = "on_bar"
    /\ phase' = "execute"
    /\ last_trade_date' = day
    /\ today_bought' =
          IF last_trade_date # day THEN [s \in Symbols |-> 0] ELSE today_bought
    /\ UNCHANGED <<day, bars, pending_orders, cash, positions, trades, last_prices,
                   equity_curve>>

-----------------------------------------------------------------------------
(* Broker::execute: one step per order *)

Order == Head(pending_orders)
Bar == bars[Order.symbol]
Price == FillPrice(Order.order_type, Bar.close)
Cost == Price * Order.amount

\* Mutant: the fees are not part of what a buy must afford.
AffordableWithoutFees == Cost <= cash

Affordable == Cost + BuyFees(Cost) <= cash

\* Mutant: T+1 is not enforced.
SellableHeld == Order.amount <= positions[Order.symbol]

\* The shares are held, and enough of them since before today.
Sellable ==
    /\ Order.amount <= positions[Order.symbol]
    /\ Order.amount <= positions[Order.symbol] - today_bought[Order.symbol]

Fillable ==
    /\ Bar # NoBar
    /\ ~AtLimit(Order, Bar)
    /\ IF Order.order_type = "Buy" THEN Affordable ELSE Sellable

\* The loop takes the next order; its bar, if there is one, sets the last price.
TakeOrder ==
    /\ phase = "execute"
    /\ pending_orders # <<>>
    /\ pending_orders' = Tail(pending_orders)
    /\ last_prices' = IF Bar = NoBar THEN last_prices
                      ELSE [last_prices EXCEPT ![Order.symbol] = Bar.close]
    /\ UNCHANGED <<day, phase, bars, last_trade_date, equity_curve>>

Traded(fee) ==
    trades' = Append(trades, [symbol |-> Order.symbol, amount |-> Order.amount,
                              order_type |-> Order.order_type, price |-> Price,
                              fee |-> fee, day |-> day])

FillBuy ==
    /\ TakeOrder
    /\ Order.order_type = "Buy"
    /\ Fillable
    /\ cash' = cash - (Cost + BuyFees(Cost))
    /\ positions' = [positions EXCEPT ![Order.symbol] = @ + Order.amount]
    /\ today_bought' = [today_bought EXCEPT ![Order.symbol] = @ + Order.amount]
    /\ Traded(BuyFees(Cost))

\* Mutant: the stamp duty of a sell is recorded and not paid.
FillSellWithoutDuty ==
    /\ TakeOrder
    /\ Order.order_type = "Sell"
    /\ Fillable
    /\ cash' = cash + Cost - BuyFees(Cost)
    /\ positions' = [positions EXCEPT ![Order.symbol] = @ - Order.amount]
    /\ Traded(SellFees(Cost))
    /\ UNCHANGED today_bought

FillSell ==
    /\ TakeOrder
    /\ Order.order_type = "Sell"
    /\ Fillable
    /\ cash' = cash + Cost - SellFees(Cost)
    /\ positions' = [positions EXCEPT ![Order.symbol] = @ - Order.amount]
    /\ Traded(SellFees(Cost))
    /\ UNCHANGED today_bought

\* An order without a bar, at its limit or beyond the account's means.
DropOrder ==
    /\ TakeOrder
    /\ ~Fillable
    /\ UNCHANGED account

\* record_snapshot, when the orders of the day are done.
RecordSnapshot ==
    /\ phase = "execute"
    /\ pending_orders = <<>>
    /\ equity_curve' = Append(equity_curve, [day |-> day, cash |-> cash,
                                             position_value |-> PositionValue])
    /\ phase' = "date"
    /\ UNCHANGED <<day, bars, pending_orders, account, last_trade_date, last_prices>>

\* No dates are left, or there were none.
ExitRun ==
    /\ phase = "date"
    /\ phase' = "exit"
    /\ UNCHANGED <<day, bars, pending_orders, account, last_trade_date, last_prices,
                   equity_curve>>

Trade == FillBuy \/ FillSell \/ DropOrder

Next ==
    \/ NextDate
    \/ \E s \in Symbols, percent \in Percents : PlaceBuy(s, percent) \/ PlaceSell(s, percent)
    \/ OnBarReturns
    \/ Trade
    \/ RecordSnapshot
    \/ ExitRun

Spec == Init /\ [][Next]_vars

-----------------------------------------------------------------------------
(* Properties *)

\* The loop of execute() has not yet seen a day whose on_bar is running.
DateBehind ==
    /\ last_trade_date <= day
    /\ phase = "on_bar" => last_trade_date < day

\* The account never owes cash and never holds less than it bought today, whatever
\* a strategy orders: no fill of execute() (broker.rs:142-265) gets past its checks
\* on the strength of what an earlier order of the same day has already used.
BrokerInv ==
    /\ cash >= 0
    /\ \A s \in Symbols : today_bought[s] <= positions[s]
    /\ DateBehind

\* What the trades with a given property moved.
Shares(of(_)) ==
    SumFunction([i \in DOMAIN trades |-> IF of(trades[i]) THEN trades[i].amount ELSE 0])

CashFlow(trade) ==
    IF trade.order_type = "Buy"
    THEN -(trade.price * trade.amount + trade.fee)
    ELSE trade.price * trade.amount - trade.fee

\* The trade list of the report explains the account to the cent: cash is the
\* initial cash with every trade's price and fees applied, and each position is
\* what was bought less what was sold (broker.rs:185-264).
TradesExplainAccount ==
    /\ cash = InitialCash + SumFunction([i \in DOMAIN trades |-> CashFlow(trades[i])])
    /\ \A s \in Symbols :
          positions[s] =
             Shares(LAMBDA t : t.symbol = s /\ t.order_type = "Buy")
             - Shares(LAMBDA t : t.symbol = s /\ t.order_type = "Sell")

\* T+1 over the whole history: by the end of any day, no more shares of a symbol
\* were sold than had been bought on earlier days (broker.rs:228-235).
SoldAfterTheDayOfPurchase ==
    \A s \in Symbols, d \in 1..day :
        Shares(LAMBDA t : t.symbol = s /\ t.order_type = "Sell" /\ t.day <= d)
           <= Shares(LAMBDA t : t.symbol = s /\ t.order_type = "Buy" /\ t.day < d)

\* A trade never makes the account richer: cash plus the symbol's position at the
\* close it trades at does not grow (broker.rs:172-187, 237-239: slippage and fees
\* are always against the strategy).
TradesCostMoney ==
    [][\A s \in Symbols :
         positions'[s] # positions[s] =>
            cash' + positions'[s] * last_prices'[s] * Scale
               <= cash + positions[s] * last_prices'[s] * Scale]_vars

\* The broker is a cash account with T+1 settlement (broker.rs:3): in every
\* order of buys, sells and dropped orders, over any number of days.
Account == INSTANCE CashAccount
             WITH date <- last_trade_date,
                  settled <- [s \in Symbols |-> positions[s] - today_bought[s]],
                  unsettled <- today_bought
AccountSpec == Account!Spec

\* Each recorded snapshot values what is held at the day's closes: "total assets =
\* cash + market value of the positions" (broker.rs:86).  Positions without a bar
\* on the day are left out of the comparison.
SnapshotAtMarket ==
    (phase = "date" /\ equity_curve # <<>> /\ \A s \in Symbols : bars[s] # NoBar) =>
        equity_curve[Len(equity_curve)].position_value =
            SumFunction([s \in Symbols |-> positions[s] * bars[s].close * Scale])
=============================================================================
