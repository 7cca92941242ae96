--------------------------- MODULE BrokerProofs ---------------------------
(***************************************************************************)
(* For every market, every strategy and every run length: the account of   *)
(* the built-in backtest is never overdrawn, never sells what was bought   *)
(* today, never gains by trading, and implements CashAccount; and its list *)
(* of trades explains its cash, its positions and their settlement.        *)
(***************************************************************************)
EXTENDS FifoStats, SumTheorems, SequenceTheorems

-----------------------------------------------------------------------------
(* Fees *)

\* Rounding a fee to the nearest cent at most doubles it: a fee is rounded up
\* only from half a cent or more.
LEMMA FeeBounds ==
    ASSUME NEW cost \in Nat, NEW rate \in Nat
    PROVE  /\ Fee(cost, rate) \in Nat
           /\ Scale * Fee(cost, rate) <= 2 * (cost * rate)
<1> DEFINE n == cost * rate
           u == Scale * Cent
           q == n \div u
           r == n % u
           up == 2 * r > u \/ (2 * r = u /\ q % 2 = 1)
           c == IF up THEN q + 1 ELSE q
<1>1. n \in Nat
  OBVIOUS
<1>2. u \in Nat \ {0}
  BY BrokerAssumption
<1>3. q \in Nat /\ r \in Nat /\ n = u * q + r
  <2> HIDE DEF n, u
  <2> QED  BY <1>1, <1>2
<1>4. c \in Nat /\ u * c <= 2 * n
  <2>0. up => 2 * r >= u
    <3> HIDE DEF u, q, r
    <3> QED  BY <1>2, <1>3
  <2> HIDE DEF n, u, q, r, up
  <2>1. CASE up
    <3>1. c = q + 1
      BY <2>1
    <3>2. u * c = u * q + u
      BY <3>1, <1>2, <1>3
    <3>3. u * q = n - r
      <4> DEFINE m == u * q
      <4>1. m \in Int
        BY <1>2, <1>3
      <4> HIDE DEF m
      <4>2. n = m + r
        BY <1>3 DEF m
      <4>3. m = n - r
        BY <4>1, <4>2, <1>1, <1>3
      <4> QED  BY <4>3 DEF m
    <3>4. u * q >= 0
      BY <1>2, <1>3
    <3> DEFINE m == u * q
    <3>5. m = n - r /\ m >= 0 /\ u * c = m + u /\ c \in Nat
      BY <3>1, <3>2, <3>3, <3>4, <1>3
    <3> HIDE DEF m, c
    <3>6. u <= 2 * r
      BY <2>0, <2>1, <1>2, <1>3
    <3>7. m + u <= 2 * n
      BY <3>5, <3>6, <1>1, <1>2, <1>3
    <3> QED  BY <3>5, <3>7
  <2>2. CASE ~up
    <3>1. c = q
      BY <2>2
    <3> DEFINE m == u * q
    <3>2. m \in Int /\ n = m + r
      BY <1>2, <1>3
    <3>3. u * c = m /\ c \in Nat
      BY <3>1, <1>3
    <3> HIDE DEF m, c
    <3>4. m <= 2 * n
      BY <3>2, <1>1, <1>3
    <3> QED  BY <3>3, <3>4
  <2> QED  BY <2>1, <2>2
<1>5. Fee(cost, rate) = Cent * c
  BY DEF Fee
<1>6. Cent * c \in Nat
  <2> HIDE DEF c
  <2> QED  BY <1>4, BrokerAssumption
<1>7. Scale * (Cent * c) = u * c
  <2> HIDE DEF c
  <2> QED  BY <1>4, BrokerAssumption
<1> HIDE DEF n, u, c
<1>8. Scale * Fee(cost, rate) <= 2 * n
  BY <1>4, <1>5, <1>7
<1> QED  BY <1>5, <1>6, <1>8 DEF n

\* The fees of a trade are natural numbers, and those of a sale are covered by its
\* proceeds.
LEMMA FeesCovered ==
    ASSUME NEW cost \in Nat
    PROVE  /\ BuyFees(cost) \in Nat
           /\ SellFees(cost) \in Nat
           /\ SellFees(cost) <= cost
<1> DEFINE c == Fee(cost, CommissionRate)
           d == Fee(cost, StampDutyRate)
           t == Fee(cost, TransferFeeRate)
<1>1. c \in Nat /\ Scale * c <= 2 * (cost * CommissionRate)
  BY FeeBounds, BrokerAssumption
<1>2. d \in Nat /\ Scale * d <= 2 * (cost * StampDutyRate)
  BY FeeBounds, BrokerAssumption
<1>3. t \in Nat /\ Scale * t <= 2 * (cost * TransferFeeRate)
  BY FeeBounds, BrokerAssumption
<1>4. BuyFees(cost) = c + t /\ SellFees(cost) = c + d + t
  BY DEF BuyFees, SellFees
<1> DEFINE rates == CommissionRate + StampDutyRate + TransferFeeRate
<1> HIDE DEF c, d, t
<1>5. Scale * (c + d + t) <= cost * Scale
  <2>1. Scale * (c + d + t) = Scale * c + Scale * d + Scale * t
    BY <1>1, <1>2, <1>3, BrokerAssumption
  <2>2. cost * (2 * rates) =
          2 * (cost * CommissionRate) + 2 * (cost * StampDutyRate)
             + 2 * (cost * TransferFeeRate)
    BY BrokerAssumption
  <2>3. cost * (2 * rates) <= cost * Scale
    <3>1. 2 * rates \in Nat /\ Scale \in Nat /\ 2 * rates <= Scale
      BY BrokerAssumption
    <3> HIDE DEF rates
    <3>2. \A a, b, k \in Nat : a <= b => k * a <= k * b
      BY SMT
    <3> QED  BY <3>1, <3>2
  <2>4. Scale * c \in Int /\ Scale * d \in Int /\ Scale * t \in Int
    BY <1>1, <1>2, <1>3, BrokerAssumption
  <2>5. /\ cost * CommissionRate \in Int /\ cost * StampDutyRate \in Int
        /\ cost * TransferFeeRate \in Int /\ cost * Scale \in Int
    BY BrokerAssumption
  <2> DEFINE sc == Scale * c  sd == Scale * d  st == Scale * t
             kc == cost * CommissionRate  kd == cost * StampDutyRate
             kt == cost * TransferFeeRate  top == cost * Scale
  <2>6. /\ sc <= 2 * kc /\ sd <= 2 * kd /\ st <= 2 * kt
        /\ 2 * kc + 2 * kd + 2 * kt <= top
        /\ sc \in Int /\ sd \in Int /\ st \in Int
        /\ kc \in Int /\ kd \in Int /\ kt \in Int /\ top \in Int
    BY <1>1, <1>2, <1>3, <2>2, <2>3, <2>4, <2>5
  <2>7. sc + sd + st <= top
    <3> HIDE DEF sc, sd, st, kc, kd, kt, top
    <3> QED  BY <2>6
  <2> QED  BY <2>1, <2>7
<1>6. \A a, b \in Int : Scale * a <= b * Scale => a <= b
  BY BrokerAssumption
<1>7. c + d + t \in Int
  BY <1>1, <1>2, <1>3
<1>8. c + d + t <= cost
  BY <1>5, <1>6, <1>7
<1> QED  BY <1>1, <1>2, <1>3, <1>4, <1>8

-----------------------------------------------------------------------------
(* The inductive invariant *)

AccountInv == AccountTypeOK /\ BrokerInv

\* A step that leaves the account alone keeps what is said of it.
LEMMA HeadOfOrders ==
    ASSUME AccountTypeOK, pending_orders # <<>>
    PROVE  /\ Order \in Orders
           /\ Tail(pending_orders) \in Seq(Orders)
<1>1. pending_orders \in Seq(Orders)
  BY DEF AccountTypeOK
<1> QED  BY <1>1, HeadTailProperties DEF Order

\* What an order that a bar can fill costs.
LEMMA CostOfOrder ==
    ASSUME AccountTypeOK, pending_orders # <<>>, Bar # NoBar
    PROVE  /\ Bar.close \in Nat
           /\ Price \in Nat
           /\ Order.amount \in Nat \ {0}
           /\ Cost \in Nat
           /\ Cost = Price * Order.amount
           /\ Order.order_type = "Buy" => Price = Bar.close * (Scale + Slippage)
           /\ Order.order_type # "Buy" => Price = Bar.close * (Scale - Slippage)
           /\ BuyFees(Cost) \in Nat
           /\ SellFees(Cost) \in Nat
           /\ SellFees(Cost) <= Cost
<1>1. Order \in Orders
  BY HeadOfOrders
<1>2. Order.amount \in Nat \ {0} /\ Order.symbol \in Symbols
  BY <1>1 DEF Orders
<1>3. Bar.close \in Nat
  <2>1. Bar \in Bars
    BY <1>2 DEF Bar, AccountTypeOK
  <2> QED  BY <2>1, BrokerAssumption DEF BarGroups
<1>4. /\ Order.order_type = "Buy" => Price = Bar.close * (Scale + Slippage)
      /\ Order.order_type # "Buy" => Price = Bar.close * (Scale - Slippage)
  BY DEF Price, FillPrice
<1>5. Price \in Nat
  <2>1. Scale + Slippage \in Nat /\ Scale - Slippage \in Nat
    BY BrokerAssumption
  <2> QED  BY <1>3, <1>4, <2>1
<1>6. Cost \in Nat
  BY <1>2, <1>5 DEF Cost
<1> QED  BY <1>2, <1>3, <1>4, <1>5, <1>6, FeesCovered DEF Cost

\* What TakeOrder leaves, whatever becomes of the order.
LEMMA TakeOrderKeepsTypes ==
    ASSUME AccountTypeOK, TakeOrder
    PROVE  /\ pending_orders' \in Seq(Orders)
           /\ last_prices' \in [Symbols -> Nat]
           /\ day' = day /\ last_trade_date' = last_trade_date
           /\ phase' = phase /\ bars' = bars
<1>1. pending_orders' \in Seq(Orders)
  BY HeadOfOrders DEF TakeOrder
<1>2. last_prices' \in [Symbols -> Nat]
  <2>1. CASE Bar = NoBar
    BY <2>1 DEF TakeOrder, AccountTypeOK
  <2>2. CASE Bar # NoBar
    <3>1. Bar.close \in Nat
      BY <2>2, CostOfOrder DEF TakeOrder
    <3> QED  BY <2>2, <3>1 DEF TakeOrder, AccountTypeOK
  <2> QED  BY <2>1, <2>2
<1> QED  BY <1>1, <1>2 DEF TakeOrder

\* The record of a fill is a trade.
LEMMA TradedIsTyped ==
    ASSUME AccountTypeOK, pending_orders # <<>>, Bar # NoBar,
           NEW fee \in Nat, Traded(fee)
    PROVE  trades' \in Seq(Trades)
<1>1. Order \in Orders
  BY HeadOfOrders
<1>2. Price \in Nat
  BY CostOfOrder
<1>3. day \in Nat
  BY BrokerAssumption DEF AccountTypeOK
<1>4. [symbol |-> Order.symbol, amount |-> Order.amount,
       order_type |-> Order.order_type, price |-> Price,
       fee |-> fee, day |-> day] \in Trades
  BY <1>1, <1>2, <1>3 DEF Orders, Trades
<1>5. trades \in Seq(Trades)
  BY DEF AccountTypeOK
<1> HIDE DEF Traded
<1> QED  BY <1>4, <1>5, AppendProperties DEF Traded

\* A buy pays at most the cash there is.
LEMMA FillBuyKeeps ==
    ASSUME AccountInv, FillBuy
    PROVE  /\ AccountInv'
           /\ 0 <= cash' /\ cash' <= cash
<1>0. AccountTypeOK /\ BrokerInv
  BY DEF AccountInv
<1>1. pending_orders # <<>> /\ Bar # NoBar /\ TakeOrder
  BY DEF FillBuy, Fillable, TakeOrder
<1>2. Order.symbol \in Symbols
  BY <1>0, <1>1, HeadOfOrders DEF Orders
<1>3. Order.amount \in Nat \ {0} /\ Cost \in Nat /\ BuyFees(Cost) \in Nat
  BY <1>0, <1>1, CostOfOrder
<1>4. Cost + BuyFees(Cost) <= cash /\ cash' = cash - (Cost + BuyFees(Cost))
  BY DEF FillBuy, Fillable, Affordable
<1>5. cash' \in Int /\ 0 <= cash' /\ cash' <= cash
  BY <1>0, <1>3, <1>4 DEF AccountTypeOK
<1>6. /\ positions' = [positions EXCEPT ![Order.symbol] = @ + Order.amount]
      /\ today_bought' = [today_bought EXCEPT ![Order.symbol] = @ + Order.amount]
  BY DEF FillBuy
<1>7. /\ positions' \in [Symbols -> Int]
      /\ today_bought' \in [Symbols -> Nat]
      /\ \A s \in Symbols : today_bought'[s] <= positions'[s]
  BY <1>0, <1>2, <1>3, <1>6 DEF AccountTypeOK, BrokerInv
<1>8. trades' \in Seq(Trades)
  BY <1>0, <1>1, <1>3, TradedIsTyped DEF FillBuy
<1>9. AccountTypeOK'
  BY <1>0, <1>1, <1>5, <1>7, <1>8, TakeOrderKeepsTypes DEF AccountTypeOK
<1>10. DateBehind'
  BY <1>0, <1>1, TakeOrderKeepsTypes DEF BrokerInv, DateBehind
<1> QED  BY <1>5, <1>7, <1>9, <1>10 DEF AccountInv, BrokerInv

\* A sell takes shares that were held before today, and its fees do not exceed its
\* proceeds.
LEMMA FillSellKeeps ==
    ASSUME AccountInv, FillSell
    PROVE  /\ AccountInv'
           /\ cash <= cash'
<1>0. AccountTypeOK /\ BrokerInv
  BY DEF AccountInv
<1>1. pending_orders # <<>> /\ Bar # NoBar /\ TakeOrder
  BY DEF FillSell, Fillable, TakeOrder
<1>2. Order.symbol \in Symbols
  BY <1>0, <1>1, HeadOfOrders DEF Orders
<1>3. /\ Order.amount \in Nat \ {0} /\ Cost \in Nat
      /\ SellFees(Cost) \in Nat /\ SellFees(Cost) <= Cost
  BY <1>0, <1>1, CostOfOrder
<1>4. cash' = cash + Cost - SellFees(Cost)
  BY DEF FillSell
<1>5. cash' \in Int /\ cash <= cash' /\ 0 <= cash'
  BY <1>0, <1>3, <1>4 DEF AccountTypeOK, BrokerInv
<1>6. Order.amount <= positions[Order.symbol] - today_bought[Order.symbol]
  BY DEF FillSell, Fillable, Sellable
<1>7. /\ positions' = [positions EXCEPT ![Order.symbol] = @ - Order.amount]
      /\ today_bought' = today_bought
  BY DEF FillSell
<1>8. /\ positions' \in [Symbols -> Int]
      /\ \A s \in Symbols : today_bought'[s] <= positions'[s]
  BY <1>0, <1>2, <1>3, <1>6, <1>7 DEF AccountTypeOK, BrokerInv
<1>9. trades' \in Seq(Trades)
  BY <1>0, <1>1, <1>3, TradedIsTyped DEF FillSell
<1>10. AccountTypeOK'
  BY <1>0, <1>1, <1>5, <1>7, <1>8, <1>9, TakeOrderKeepsTypes DEF AccountTypeOK
<1>11. DateBehind'
  BY <1>0, <1>1, TakeOrderKeepsTypes DEF BrokerInv, DateBehind
<1> QED  BY <1>5, <1>8, <1>10, <1>11 DEF AccountInv, BrokerInv

LEMMA PlaceOrderKeeps ==
    ASSUME AccountInv, NEW order, PlaceOrder(order),
           order.amount \in Nat, order.symbol \in Symbols, order.order_type \in Sides,
           order = [symbol |-> order.symbol, amount |-> order.amount,
                    order_type |-> order.order_type]
    PROVE  AccountInv' /\ UNCHANGED <<account, last_prices, last_trade_date>>
<1>1. order \in Orders
  BY DEF PlaceOrder, Orders
<1>2. pending_orders \in Seq(Orders)
  BY DEF AccountInv, AccountTypeOK
<1>3. pending_orders' \in Seq(Orders)
  BY <1>1, <1>2, AppendProperties DEF PlaceOrder
<1>4. UNCHANGED <<day, phase, bars, account, last_trade_date, last_prices>>
  BY DEF PlaceOrder
<1>5. AccountTypeOK'
  BY <1>3, <1>4 DEF AccountInv, AccountTypeOK, account
<1> QED  BY <1>4, <1>5 DEF AccountInv, BrokerInv, DateBehind, account

LEMMA InitHolds == Init => AccountInv
  BY BrokerAssumption, EmptySeq
     DEF Init, AccountInv, AccountTypeOK, BrokerInv, DateBehind

\* The invariant is inductive: one step per action.
LEMMA StepKeeps ==
    ASSUME AccountInv, [Next]_vars
    PROVE  AccountInv'
<1> USE DEF AccountInv
<1>1. CASE NextDate
  BY <1>1, BrokerAssumption
     DEF NextDate, AccountTypeOK, BrokerInv, DateBehind, account
<1>2. ASSUME NEW s \in Symbols, NEW percent \in Percents,
             PlaceBuy(s, percent) \/ PlaceSell(s, percent)
      PROVE  AccountInv'
  <2> DEFINE buy == [symbol |-> s, amount |-> BuyAmount(s, percent), order_type |-> "Buy"]
             sell == [symbol |-> s, amount |-> SellAmount(s, percent), order_type |-> "Sell"]
  <2>1. BuyAmount(s, percent) \in Nat /\ SellAmount(s, percent) \in Nat
    BY DEF BuyAmount, SellAmount, ToU64
  <2>2. CASE PlaceBuy(s, percent)
    <3>1. PlaceOrder(buy)
      BY <2>2 DEF PlaceBuy
    <3>2. buy.amount \in Nat /\ buy.symbol \in Symbols /\ buy.order_type \in Sides
      BY <2>1 DEF Sides
    <3> QED  BY <3>1, <3>2, PlaceOrderKeeps
  <2>3. CASE PlaceSell(s, percent)
    <3>1. PlaceOrder(sell)
      BY <2>3 DEF PlaceSell
    <3>2. sell.amount \in Nat /\ sell.symbol \in Symbols /\ sell.order_type \in Sides
      BY <2>1 DEF Sides
    <3> QED  BY <3>1, <3>2, PlaceOrderKeeps
  <2> QED  BY <1>2, <2>2, <2>3
<1>3. CASE OnBarReturns
  <2>1. /\ today_bought' \in [Symbols -> Nat]
        /\ \A s \in Symbols : today_bought'[s] <= positions'[s]
    BY <1>3 DEF OnBarReturns, AccountTypeOK, BrokerInv
  <2> QED  BY <1>3, <2>1 DEF OnBarReturns, AccountTypeOK, BrokerInv, DateBehind
<1>4. CASE FillBuy
  BY <1>4, FillBuyKeeps
<1>5. CASE FillSell
  BY <1>5, FillSellKeeps
<1>6. CASE DropOrder
  <2>1. TakeOrder /\ UNCHANGED account
    BY <1>6 DEF DropOrder
  <2>2. AccountTypeOK'
    BY <2>1, TakeOrderKeepsTypes DEF AccountTypeOK, account
  <2>3. BrokerInv'
    BY <2>1, TakeOrderKeepsTypes DEF BrokerInv, DateBehind, account
  <2> QED  BY <2>2, <2>3
<1>7. CASE RecordSnapshot
  BY <1>7 DEF RecordSnapshot, AccountTypeOK, BrokerInv, DateBehind, account
<1>8. CASE ExitRun
  BY <1>8 DEF ExitRun, AccountTypeOK, BrokerInv, DateBehind, account
<1>9. CASE UNCHANGED vars
  BY <1>9 DEF vars, AccountTypeOK, BrokerInv, DateBehind, account
<1> QED  BY <1>1, <1>2, <1>3, <1>4, <1>5, <1>6, <1>7, <1>8, <1>9 DEF Next, Trade

THEOREM AccountInvariant == Spec => []AccountInv
<1>1. Init => AccountInv
  BY InitHolds
<1>2. AccountInv /\ [Next]_vars => AccountInv'
  BY StepKeeps
<1> QED  BY <1>1, <1>2, PTL DEF Spec

\* At every moment of every backtest the cash is not negative and what was bought
\* today is still held.
THEOREM NeverOverdrawn == Spec => []BrokerInv
<1>1. AccountInv => BrokerInv
  BY DEF AccountInv
<1> QED  BY <1>1, AccountInvariant, PTL

-----------------------------------------------------------------------------
(* Trading never pays *)

\* Buying at the close with slippage and fees costs at least the shares' value.
LEMMA BuyCostsMoney ==
    ASSUME AccountInv, FillBuy, NEW s \in Symbols, positions'[s] # positions[s]
    PROVE  cash' + positions'[s] * last_prices'[s] * Scale
              <= cash + positions[s] * last_prices'[s] * Scale
<1>0. AccountTypeOK /\ pending_orders # <<>> /\ Bar # NoBar
  BY DEF AccountInv, FillBuy, Fillable, TakeOrder
<1>1. Order.symbol = s
  BY <1>0 DEF FillBuy, AccountTypeOK
<1> DEFINE close == Bar.close
           amount == Order.amount
           fee == BuyFees(Cost)
           p == positions[s]
<1>2. last_prices'[s] = close
  BY <1>0, <1>1 DEF FillBuy, TakeOrder, AccountTypeOK
<1>3. positions'[s] = p + amount
  BY <1>0, <1>1 DEF FillBuy, AccountTypeOK
<1>4. close \in Nat /\ amount \in Nat /\ fee \in Nat /\ p \in Int /\ cash \in Int
  BY <1>0, CostOfOrder DEF AccountTypeOK
<1>5. cash' = cash - (Cost + fee) /\ Cost = close * (Scale + Slippage) * amount
  BY <1>0, CostOfOrder DEF FillBuy
<1>6. Scale \in Nat /\ Slippage \in Nat
  BY BrokerAssumption
<1> HIDE DEF close, amount, fee, p
<1>7. (p + amount) * close * Scale = p * close * Scale + close * amount * Scale
  BY <1>4, <1>6
<1>8. Cost = close * amount * Scale + close * amount * Slippage
  BY <1>4, <1>5, <1>6
<1>9. close * amount * Slippage \in Nat /\ close * amount * Scale \in Nat /\ p * close * Scale \in Int
  BY <1>4, <1>6
<1> DEFINE worth == close * amount * Scale
           slip == close * amount * Slippage
           held == p * close * Scale
<1>10. worth \in Nat /\ slip \in Nat /\ held \in Int
  BY <1>9
<1>11. cash' = cash - (worth + slip + fee)
  BY <1>5, <1>8
<1>12. cash' + (held + worth) <= cash + held
  <2> HIDE DEF worth, slip, held
  <2> QED  BY <1>4, <1>10, <1>11
<1>13. positions'[s] * last_prices'[s] * Scale = held + worth
  BY <1>2, <1>3, <1>7
<1>14. positions[s] * last_prices'[s] * Scale = held
  BY <1>2 DEF p
<1> HIDE DEF worth, held
<1> QED  BY <1>12, <1>13, <1>14

\* Selling at the close with slippage and fees earns at most the shares' value.
LEMMA SellCostsMoney ==
    ASSUME AccountInv, FillSell, NEW s \in Symbols, positions'[s] # positions[s]
    PROVE  cash' + positions'[s] * last_prices'[s] * Scale
              <= cash + positions[s] * last_prices'[s] * Scale
<1>0. AccountTypeOK /\ pending_orders # <<>> /\ Bar # NoBar
  BY DEF AccountInv, FillSell, Fillable, TakeOrder
<1>1. Order.symbol = s
  BY <1>0 DEF FillSell, AccountTypeOK
<1> DEFINE close == Bar.close
           amount == Order.amount
           fee == SellFees(Cost)
           p == positions[s]
<1>2. last_prices'[s] = close
  BY <1>0, <1>1 DEF FillSell, TakeOrder, AccountTypeOK
<1>3. positions'[s] = p - amount
  BY <1>0, <1>1 DEF FillSell, AccountTypeOK
<1>4. close \in Nat /\ amount \in Nat /\ fee \in Nat /\ p \in Int /\ cash \in Int
  BY <1>0, CostOfOrder DEF AccountTypeOK
<1>5. cash' = cash + Cost - fee /\ Cost = close * (Scale - Slippage) * amount
  BY <1>0, CostOfOrder DEF FillSell
<1>6. Scale \in Nat /\ Slippage \in Nat
  BY BrokerAssumption
<1> HIDE DEF close, amount, fee, p
<1>7. (p - amount) * close * Scale = p * close * Scale - close * amount * Scale
  BY <1>4, <1>6
<1>8. Cost = close * amount * Scale - close * amount * Slippage
  BY <1>4, <1>5, <1>6
<1>9. close * amount * Slippage \in Nat /\ close * amount * Scale \in Nat /\ p * close * Scale \in Int
  BY <1>4, <1>6
<1> DEFINE worth == close * amount * Scale
           slip == close * amount * Slippage
           held == p * close * Scale
<1>10. worth \in Nat /\ slip \in Nat /\ held \in Int
  BY <1>9
<1>11. cash' = cash + (worth - slip) - fee
  BY <1>5, <1>8
<1>12. cash' + (held - worth) <= cash + held
  <2> HIDE DEF worth, slip, held
  <2> QED  BY <1>4, <1>10, <1>11
<1>13. positions'[s] * last_prices'[s] * Scale = held - worth
  BY <1>2, <1>3, <1>7
<1>14. positions[s] * last_prices'[s] * Scale = held
  BY <1>2 DEF p
<1> HIDE DEF worth, held
<1> QED  BY <1>12, <1>13, <1>14

\* Only a fill changes a position.
LEMMA OnlyFillsMovePositions ==
    ASSUME [Next]_vars, positions' # positions
    PROVE  FillBuy \/ FillSell
<1>1. ~NextDate /\ ~OnBarReturns /\ ~DropOrder /\ ~RecordSnapshot /\ ~ExitRun
  BY DEF NextDate, OnBarReturns, DropOrder, RecordSnapshot, ExitRun, account
<1>2. \A s \in Symbols, percent \in Percents : ~PlaceBuy(s, percent) /\ ~PlaceSell(s, percent)
  BY DEF PlaceBuy, PlaceSell, PlaceOrder, account
<1>3. ~UNCHANGED vars
  BY DEF vars, account
<1> QED  BY <1>1, <1>2, <1>3 DEF Next, Trade

\* No trade makes the account richer, at any price, size, rate and slippage.
THEOREM NoFreeTrades == Spec => TradesCostMoney
<1> DEFINE Costs == \A s \in Symbols :
              positions'[s] # positions[s] =>
                 cash' + positions'[s] * last_prices'[s] * Scale
                    <= cash + positions[s] * last_prices'[s] * Scale
<1>1. AccountInv /\ [Next]_vars => Costs
  BY OnlyFillsMovePositions, BuyCostsMoney, SellCostsMoney
<1>2. TradesCostMoney <=> [][Costs]_vars
  BY DEF TradesCostMoney
<1> QED  BY <1>1, <1>2, AccountInvariant, PTL DEF Spec

-----------------------------------------------------------------------------
(* The broker implements CashAccount *)

settledShares == [s \in Symbols |-> positions[s] - today_bought[s]]

LEMMA InitIsAccountInit == Init => Account!Init
  BY BrokerAssumption DEF Init, Account!Init

\* on_bar's return is the settlement of the new day.
LEMMA ReturnSettles ==
    ASSUME AccountInv, OnBarReturns
    PROVE  Account!Settle
<1>1. last_trade_date < day /\ last_trade_date \in Int /\ day \in Int
  BY BrokerAssumption DEF AccountInv, AccountTypeOK, BrokerInv, DateBehind, OnBarReturns
<1>2. last_trade_date' > last_trade_date
  BY <1>1 DEF OnBarReturns
<1>3. today_bought' = [s \in Symbols |-> 0] /\ positions' = positions /\ cash' = cash
  BY <1>1 DEF OnBarReturns
<1>4. \A s \in Symbols : positions[s] \in Int /\ today_bought[s] \in Int
  BY DEF AccountInv, AccountTypeOK
<1>5. settledShares' = [s \in Symbols |-> settledShares[s] + today_bought[s]]
  BY <1>3, <1>4 DEF settledShares
<1> QED  BY <1>2, <1>3, <1>5 DEF Account!Settle, settledShares

LEMMA FillBuyIsBuy ==
    ASSUME AccountInv, FillBuy
    PROVE  \E s \in Symbols : Account!Buy(s)
<1>0. AccountTypeOK /\ pending_orders # <<>> /\ Bar # NoBar
  BY DEF AccountInv, FillBuy, Fillable, TakeOrder
<1> DEFINE s == Order.symbol
<1>1. s \in Symbols /\ Order.amount \in Nat \ {0}
  BY <1>0, HeadOfOrders DEF Orders
<1>2. /\ positions' = [positions EXCEPT ![s] = @ + Order.amount]
      /\ today_bought' = [today_bought EXCEPT ![s] = @ + Order.amount]
  BY DEF FillBuy
<1>3. positions \in [Symbols -> Int] /\ today_bought \in [Symbols -> Nat]
  BY <1>0 DEF AccountTypeOK
<1> HIDE DEF s
<1>4. settledShares' = settledShares
  BY <1>1, <1>2, <1>3 DEF settledShares
<1>5. /\ today_bought' = [today_bought EXCEPT ![s] = today_bought'[s]]
      /\ today_bought'[s] > today_bought[s]
  BY <1>1, <1>2, <1>3
<1>6. last_trade_date' = last_trade_date
  BY DEF FillBuy, TakeOrder
<1>7. Account!Buy(s)
  BY <1>4, <1>5, <1>6, FillBuyKeeps DEF Account!Buy, settledShares
<1> QED  BY <1>1, <1>7

LEMMA FillSellIsSell ==
    ASSUME AccountInv, FillSell
    PROVE  \E s \in Symbols : Account!Sell(s)
<1>0. AccountTypeOK /\ pending_orders # <<>> /\ Bar # NoBar
  BY DEF AccountInv, FillSell, Fillable, TakeOrder
<1> DEFINE s == Order.symbol
<1>1. s \in Symbols /\ Order.amount \in Nat \ {0}
  BY <1>0, HeadOfOrders DEF Orders
<1>2. positions' = [positions EXCEPT ![s] = @ - Order.amount] /\ today_bought' = today_bought
  BY DEF FillSell
<1>3. positions \in [Symbols -> Int] /\ today_bought \in [Symbols -> Nat]
  BY <1>0 DEF AccountTypeOK
<1>4. Order.amount <= positions[s] - today_bought[s]
  BY DEF FillSell, Fillable, Sellable
<1> DEFINE amount == Order.amount
<1> HIDE DEF s, amount
<1>5. /\ settledShares' = [settledShares EXCEPT ![s] = settledShares'[s]]
      /\ 0 <= settledShares'[s] /\ settledShares'[s] < settledShares[s]
  <2>1. positions' = [positions EXCEPT ![s] = @ - amount]
    BY <1>2 DEF amount
  <2>2. amount \in Nat \ {0} /\ amount <= positions[s] - today_bought[s]
    BY <1>1, <1>4 DEF amount
  <2>3. \A u \in Symbols : u # s => settledShares'[u] = settledShares[u]
    BY <1>1, <1>2, <1>3, <2>1 DEF settledShares
  <2>4. positions'[s] = positions[s] - amount
    BY <1>1, <1>3, <2>1
  <2>5. /\ settledShares'[s] = (positions[s] - amount) - today_bought[s]
        /\ settledShares[s] = positions[s] - today_bought[s]
    BY <1>1, <1>2, <2>4 DEF settledShares
  <2>6. positions[s] \in Int /\ today_bought[s] \in Int
    BY <1>1, <1>3
  <2>7. 0 <= settledShares'[s] /\ settledShares'[s] < settledShares[s]
    BY <2>2, <2>5, <2>6
  <2>8. settledShares' = [settledShares EXCEPT ![s] = settledShares'[s]]
    BY <1>1, <2>3 DEF settledShares
  <2> QED  BY <2>7, <2>8
<1>6. last_trade_date' = last_trade_date
  BY DEF FillSell, TakeOrder
<1>7. Account!Sell(s)
  BY <1>2, <1>5, <1>6, FillSellKeeps DEF Account!Sell, settledShares
<1> QED  BY <1>1, <1>7

\* Every step is a step of the account or leaves it alone.
LEMMA StepIsAccountStep ==
    ASSUME AccountInv, [Next]_vars
    PROVE  [Account!Next]_(Account!vars)
<1> DEFINE quiet == UNCHANGED <<cash, positions, today_bought, last_trade_date>>
<1>1. quiet => UNCHANGED Account!vars
  BY DEF Account!vars
<1>2. NextDate \/ DropOrder \/ RecordSnapshot \/ ExitRun \/ UNCHANGED vars => quiet
  BY DEF NextDate, DropOrder, TakeOrder, RecordSnapshot, ExitRun, vars, account
<1>3. \A s \in Symbols, percent \in Percents :
         PlaceBuy(s, percent) \/ PlaceSell(s, percent) => quiet
  BY DEF PlaceBuy, PlaceSell, PlaceOrder, account
<1>4. OnBarReturns => Account!Next
  BY ReturnSettles DEF Account!Next
<1>5. FillBuy => Account!Next
  BY FillBuyIsBuy DEF Account!Next
<1>6. FillSell => Account!Next
  BY FillSellIsSell DEF Account!Next
<1> QED  BY <1>1, <1>2, <1>3, <1>4, <1>5, <1>6 DEF Next, Trade

\* Orders, days and fills of any number and size stay within a cash account with
\* T+1 settlement.
THEOREM BrokerIsCashAccount == Spec => AccountSpec
<1>1. AccountInv /\ [Next]_vars => [Account!Next]_(Account!vars)
  BY StepIsAccountStep
<1> QED  BY <1>1, InitIsAccountInit, AccountInvariant, PTL
          DEF Spec, AccountSpec, Account!Spec
-----------------------------------------------------------------------------
(* The ledger: what the trades add up to *)

\* Shares of s that the trades of a list bought or sold by the end of day d.
Moved(list, s, side, d) ==
    SumFunction([i \in DOMAIN list |->
                    IF list[i].symbol = s /\ list[i].order_type = side /\ list[i].day <= d
                    THEN list[i].amount ELSE 0])

\* What the trades of a list did to the cash.
Flow(list) == SumFunction([i \in DOMAIN list |-> CashFlow(list[i])])

Bought(list, s, d) == Moved(list, s, "Buy", d)
Sold(list, s, d) == Moved(list, s, "Sell", d)

\* The ledger by the last day with trades: the account is what its trades add up
\* to, what was bought today is the last day's part of it, and on every day the
\* shares sold so far had been bought before that day.
LedgerInv ==
    /\ phase = "execute" => last_trade_date = day
    /\ \A i \in DOMAIN trades : trades[i].day <= last_trade_date
    /\ cash = InitialCash + Flow(trades)
    /\ \A s \in Symbols :
          /\ positions[s] = Bought(trades, s, last_trade_date) - Sold(trades, s, last_trade_date)
          /\ today_bought[s] =
                Bought(trades, s, last_trade_date) - Bought(trades, s, last_trade_date - 1)
          /\ \A d \in 1..last_trade_date : Sold(trades, s, d) <= Bought(trades, s, d - 1)

LEMMA CashFlowIsInteger ==
    ASSUME NEW t \in Trades
    PROVE  CashFlow(t) \in Int
<1> DEFINE c == t.price * t.amount
<1>1. c \in Int /\ t.fee \in Int
  BY DEF Trades
<1>2. CashFlow(t) = IF t.order_type = "Buy" THEN -(c + t.fee) ELSE c - t.fee
  BY DEF CashFlow
<1> HIDE DEF c
<1> QED  BY <1>1, <1>2

\* One more trade adds its own part to the cash, and to the shares moved.
LEMMA FlowOfAppended ==
    ASSUME NEW list \in Seq(Trades), NEW t \in Trades
    PROVE  Flow(Append(list, t)) = Flow(list) + CashFlow(t)
<1> DEFINE n == Len(list)
           f == [i \in DOMAIN Append(list, t) |-> CashFlow(Append(list, t)[i])]
           g == [i \in DOMAIN list |-> CashFlow(list[i])]
<1>1. n \in Nat /\ DOMAIN list = 1..n /\ \A i \in 1..n : list[i] \in Trades
  BY LenProperties
<1>2. /\ DOMAIN Append(list, t) = 1..(n + 1)
      /\ Append(list, t)[n + 1] = t
      /\ \A i \in 1..n : Append(list, t)[i] = list[i]
  BY AppendProperties
<1>3. f \in [1..(n + 1) -> Int] /\ f[n + 1] = CashFlow(t)
  BY <1>1, <1>2, CashFlowIsInteger
<1>4. g = [i \in 1..n |-> f[i]]
  BY <1>1, <1>2
<1>5. Flow(Append(list, t)) = SumFunction(f) /\ Flow(list) = SumFunction(g)
  BY DEF Flow
<1>6. \A i \in DOMAIN g : g[i] \in Int
  BY <1>1, CashFlowIsInteger
<1>7. IsFiniteSet(DOMAIN g)
  BY <1>1, FS_Interval
<1> HIDE DEF f, g, n
<1> QED  BY <1>1, <1>3, <1>4, <1>5, <1>6, <1>7, SumOfAppended, SumIsInteger

\* The days and amounts of a list of trades are numbers.
LEMMA ListedTrades ==
    ASSUME NEW list \in Seq(Trades)
    PROVE  /\ IsFiniteSet(DOMAIN list)
           /\ \A i \in DOMAIN list : list[i].day \in Nat /\ list[i].amount \in Nat
<1>1. PICK n \in Nat : n = Len(list) /\ DOMAIN list = 1..n
  BY LenProperties
<1>2. \A i \in DOMAIN list : list[i] \in Trades
  OBVIOUS
<1>3. \A t \in Trades : t.day \in Nat /\ t.amount \in Nat
  BY DEF Trades
<1>4. IsFiniteSet(DOMAIN list)
  BY <1>1, FS_Interval
<1> QED  BY <1>2, <1>3, <1>4

LEMMA MovedIsInteger ==
    ASSUME NEW list \in Seq(Trades), NEW s, NEW side, NEW d \in Int
    PROVE  Moved(list, s, side, d) \in Int
<1> DEFINE f == [i \in DOMAIN list |->
                   IF list[i].symbol = s /\ list[i].order_type = side /\ list[i].day <= d
                   THEN list[i].amount ELSE 0]
<1>1. IsFiniteSet(DOMAIN f) /\ \A i \in DOMAIN f : f[i] \in Int
  BY ListedTrades
<1> HIDE DEF f
<1>2. SumFunction(f) \in Int
  BY <1>1, SumIsInteger
<1> QED  BY <1>2 DEF Moved, f

LEMMA FlowOfTrades ==
    ASSUME AccountTypeOK
    PROVE  Flow(trades) \in Int
<1>1. trades \in Seq(Trades)
  BY DEF AccountTypeOK
<1>2. PICK n \in Nat : n = Len(trades) /\ DOMAIN trades = 1..n
  BY <1>1, LenProperties
<1>3. \A i \in DOMAIN trades : CashFlow(trades[i]) \in Int
  BY <1>1, CashFlowIsInteger
<1> DEFINE f == [i \in DOMAIN trades |-> CashFlow(trades[i])]
<1>4. IsFiniteSet(DOMAIN f) /\ \A i \in DOMAIN f : f[i] \in Int
  BY <1>2, <1>3, FS_Interval
<1> HIDE DEF f
<1>5. SumFunction(f) \in Int
  BY <1>4, SumIsInteger
<1> QED  BY <1>5 DEF Flow, f

LEMMA MovedByAppended ==
    ASSUME NEW list \in Seq(Trades), NEW t \in Trades, NEW s, NEW side, NEW d \in Int
    PROVE  /\ Moved(list, s, side, d) \in Int
           /\ Moved(Append(list, t), s, side, d) =
                 Moved(list, s, side, d)
                    + (IF t.symbol = s /\ t.order_type = side /\ t.day <= d
                       THEN t.amount ELSE 0)
<1> DEFINE n == Len(list)
           Part(u) == IF u.symbol = s /\ u.order_type = side /\ u.day <= d
                      THEN u.amount ELSE 0
           f == [i \in DOMAIN Append(list, t) |-> Part(Append(list, t)[i])]
           g == [i \in DOMAIN list |-> Part(list[i])]
<1>0. \A u \in Trades : Part(u) \in Int
  BY DEF Trades
<1>1. n \in Nat /\ DOMAIN list = 1..n /\ \A i \in 1..n : list[i] \in Trades
  BY LenProperties
<1>2. /\ DOMAIN Append(list, t) = 1..(n + 1)
      /\ Append(list, t)[n + 1] = t
      /\ \A i \in 1..n : Append(list, t)[i] = list[i]
  BY AppendProperties
<1>5. /\ Moved(Append(list, t), s, side, d) = SumFunction(f)
      /\ Moved(list, s, side, d) = SumFunction(g)
  BY DEF Moved
<1> HIDE DEF Part
<1>3. f \in [1..(n + 1) -> Int] /\ f[n + 1] = Part(t)
  BY <1>0, <1>1, <1>2
<1>4. g = [i \in 1..n |-> f[i]]
  BY <1>1, <1>2
<1>6. \A i \in DOMAIN g : g[i] \in Int
  BY <1>0, <1>1
<1>7. IsFiniteSet(DOMAIN g)
  BY <1>1, FS_Interval
<1>8. SumFunction(g) \in Int /\ SumFunction(f) = SumFunction(g) + Part(t)
  <2> HIDE DEF f, g, n
  <2> QED  BY <1>1, <1>3, <1>4, <1>6, <1>7, SumOfAppended, SumIsInteger
<1> QED  BY <1>5, <1>8 DEF Part

\* Days on which nothing was traded add nothing.
LEMMA MovedLater ==
    ASSUME AccountTypeOK, NEW s, NEW side, NEW last \in Int, NEW d \in Int, last <= d,
           \A i \in DOMAIN trades : trades[i].day <= last
    PROVE  Moved(trades, s, side, d) = Moved(trades, s, side, last)
<1>1. \A i \in DOMAIN trades : trades[i].day \in Int
  <2>1. trades \in Seq(Trades)
    BY DEF AccountTypeOK
  <2> QED  BY <2>1, ListedTrades
<1>2. \A i \in DOMAIN trades : trades[i].day <= d <=> trades[i].day <= last
  BY <1>1
<1> QED  BY <1>2 DEF Moved

\* What the trade of the order adds to the sums.
LEMMA Recorded ==
    ASSUME AccountInv, LedgerInv, pending_orders # <<>>, Bar # NoBar, TakeOrder,
           NEW fee \in Nat, Traded(fee)
    PROVE  /\ phase' = phase /\ day' = day
           /\ last_trade_date = day /\ last_trade_date' = day
           /\ \A i \in DOMAIN trades' : trades'[i].day <= day
           /\ Flow(trades') = Flow(trades)
                 + (IF Order.order_type = "Buy" THEN -(Cost + fee) ELSE Cost - fee)
           /\ \A s \in Symbols, d \in Int :
                 /\ Bought(trades, s, d) \in Int /\ Sold(trades, s, d) \in Int
                 /\ Bought(trades', s, d) = Bought(trades, s, d)
                       + (IF Order.symbol = s /\ Order.order_type = "Buy" /\ day <= d
                          THEN Order.amount ELSE 0)
                 /\ Sold(trades', s, d) = Sold(trades, s, d)
                       + (IF Order.symbol = s /\ Order.order_type = "Sell" /\ day <= d
                          THEN Order.amount ELSE 0)
<1> DEFINE t == [symbol |-> Order.symbol, amount |-> Order.amount,
                 order_type |-> Order.order_type, price |-> Price, fee |-> fee, day |-> day]
<1>0. AccountTypeOK /\ trades \in Seq(Trades) /\ day \in Nat
  BY BrokerAssumption DEF AccountInv, AccountTypeOK
<1>1. /\ phase = "execute" /\ phase' = phase /\ day' = day
      /\ last_trade_date = day /\ last_trade_date' = day
  BY DEF TakeOrder, LedgerInv
<1>2. t \in Trades
  BY <1>0, HeadOfOrders, CostOfOrder DEF Orders, Trades
<1>3. trades' = Append(trades, t)
  BY DEF Traded
<1>4. ASSUME NEW i \in DOMAIN trades'
      PROVE  trades'[i].day <= day
  <2>1. i \in DOMAIN trades \/ trades'[i] = t
    BY <1>0, <1>2, <1>3, AppendProperties, LenProperties
  <2>2. CASE i \in DOMAIN trades
    <3>1. trades'[i] = trades[i]
      BY <1>0, <1>2, <1>3, <2>2, AppendProperties, LenProperties
    <3> QED  BY <1>1, <2>2, <3>1 DEF LedgerInv
  <2>3. CASE trades'[i] = t
    BY <1>0, <2>3
  <2> QED  BY <2>1, <2>2, <2>3
<1>5. Flow(trades') = Flow(trades)
         + (IF Order.order_type = "Buy" THEN -(Cost + fee) ELSE Cost - fee)
  <2>1. Flow(trades') = Flow(trades) + CashFlow(t)
    <3> HIDE DEF t
    <3> QED  BY <1>0, <1>2, <1>3, FlowOfAppended
  <2>2. CashFlow(t) = IF Order.order_type = "Buy" THEN -(Cost + fee) ELSE Cost - fee
    BY DEF CashFlow, Cost
  <2> QED  BY <2>1, <2>2
<1>6. ASSUME NEW s \in Symbols, NEW d \in Int
      PROVE  /\ Bought(trades, s, d) \in Int /\ Sold(trades, s, d) \in Int
             /\ Bought(trades', s, d) = Bought(trades, s, d)
                   + (IF Order.symbol = s /\ Order.order_type = "Buy" /\ day <= d
                      THEN Order.amount ELSE 0)
             /\ Sold(trades', s, d) = Sold(trades, s, d)
                   + (IF Order.symbol = s /\ Order.order_type = "Sell" /\ day <= d
                      THEN Order.amount ELSE 0)
  <2> DEFINE add(side) == IF t.symbol = s /\ t.order_type = side /\ t.day <= d
                          THEN t.amount ELSE 0
  <2>1. ASSUME NEW side
        PROVE  /\ Moved(trades, s, side, d) \in Int
               /\ Moved(trades', s, side, d) = Moved(trades, s, side, d) + add(side)
    <3> HIDE DEF t
    <3> QED  BY <1>0, <1>2, <1>3, MovedByAppended
  <2>2. \A side : add(side) = IF Order.symbol = s /\ Order.order_type = side /\ day <= d
                              THEN Order.amount ELSE 0
    OBVIOUS
  <2> HIDE DEF add, t
  <2> QED  BY <2>1, <2>2 DEF Bought, Sold
<1> QED  BY <1>1, <1>4, <1>5, <1>6

\* A buy counts for its own day and every later one, and is not settled on its day.
LEMMA FillBuyKeepsLedger ==
    ASSUME AccountInv, LedgerInv, FillBuy
    PROVE  LedgerInv'
<1>0. /\ pending_orders # <<>> /\ Bar # NoBar /\ TakeOrder
      /\ AccountTypeOK /\ day \in Nat
      /\ Order.order_type = "Buy" /\ Traded(BuyFees(Cost))
  BY BrokerAssumption DEF FillBuy, Fillable, TakeOrder, AccountInv, AccountTypeOK
<1>1. /\ Order.amount \in Nat \ {0} /\ Cost \in Nat /\ BuyFees(Cost) \in Nat
      /\ Order.symbol \in Symbols
  BY <1>0, HeadOfOrders, CostOfOrder DEF Orders
<1>2. /\ phase' = phase /\ day' = day
      /\ last_trade_date = day /\ last_trade_date' = day
      /\ \A i \in DOMAIN trades' : trades'[i].day <= day
      /\ Flow(trades') = Flow(trades) - (Cost + BuyFees(Cost))
  BY <1>0, <1>1, Recorded
<1>3. cash' = InitialCash + Flow(trades')
  <2>1. cash' = cash - (Cost + BuyFees(Cost)) /\ cash = InitialCash + Flow(trades)
    BY DEF FillBuy, LedgerInv
  <2>2. Flow(trades) \in Int /\ InitialCash \in Int
    BY <1>0, BrokerAssumption, FlowOfTrades
  <2> QED  BY <1>1, <1>2, <2>1, <2>2
<1>4. ASSUME NEW s \in Symbols
      PROVE  /\ positions'[s] = Bought(trades', s, day) - Sold(trades', s, day)
             /\ today_bought'[s] = Bought(trades', s, day) - Bought(trades', s, day - 1)
             /\ \A d \in 1..day : Sold(trades', s, d) <= Bought(trades', s, d - 1)
  <2>1. /\ positions[s] = Bought(trades, s, day) - Sold(trades, s, day)
        /\ today_bought[s] = Bought(trades, s, day) - Bought(trades, s, day - 1)
        /\ \A d \in 1..day : Sold(trades, s, d) <= Bought(trades, s, d - 1)
    BY <1>2 DEF LedgerInv
  <2> DEFINE gain == IF Order.symbol = s THEN Order.amount ELSE 0
  <2>2. ASSUME NEW d \in Int
        PROVE  /\ Bought(trades, s, d) \in Int /\ Sold(trades, s, d) \in Int
               /\ Bought(trades', s, d) = Bought(trades, s, d) + (IF day <= d THEN gain ELSE 0)
               /\ Sold(trades', s, d) = Sold(trades, s, d)
    <3>1. /\ Bought(trades, s, d) \in Int /\ Sold(trades, s, d) \in Int
          /\ Bought(trades', s, d) = Bought(trades, s, d)
                + (IF Order.symbol = s /\ Order.order_type = "Buy" /\ day <= d
                   THEN Order.amount ELSE 0)
          /\ Sold(trades', s, d) = Sold(trades, s, d)
                + (IF Order.symbol = s /\ Order.order_type = "Sell" /\ day <= d
                   THEN Order.amount ELSE 0)
      BY <1>0, <1>1, Recorded
    <3>2. Sold(trades', s, d) = Sold(trades, s, d)
      BY <1>0, <3>1
    <3> QED  BY <1>0, <3>1, <3>2
  <2>3. /\ positions'[s] = positions[s] + gain
        /\ today_bought'[s] = today_bought[s] + gain
        /\ gain \in Nat
    <3>1. /\ positions' = [positions EXCEPT ![Order.symbol] = @ + Order.amount]
          /\ today_bought' = [today_bought EXCEPT ![Order.symbol] = @ + Order.amount]
      BY DEF FillBuy
    <3>2. positions \in [Symbols -> Int] /\ today_bought \in [Symbols -> Nat]
      BY <1>0 DEF AccountTypeOK
    <3>3. gain \in Nat
      BY <1>1
    <3> QED  BY <1>1, <3>1, <3>2, <3>3
  <2> HIDE DEF gain
  <2>4. /\ Bought(trades', s, day) = Bought(trades, s, day) + gain
        /\ Sold(trades', s, day) = Sold(trades, s, day)
        /\ Bought(trades, s, day) \in Int /\ Sold(trades, s, day) \in Int
    BY <1>0, <2>2
  <2>5. ASSUME NEW d \in 1..day
        PROVE  /\ Sold(trades', s, d) = Sold(trades, s, d)
               /\ Bought(trades', s, d - 1) = Bought(trades, s, d - 1)
    <3>1. d - 1 \in Int /\ d \in Int /\ ~(day <= d - 1)
      BY <1>0
    <3>2. Bought(trades, s, d - 1) \in Int
      BY <2>2, <3>1
    <3> QED  BY <2>2, <3>1, <3>2
  <2>6. /\ Bought(trades', s, day - 1) = Bought(trades, s, day - 1)
        /\ Bought(trades, s, day - 1) \in Int
    <3>1. day - 1 \in Int /\ ~(day <= day - 1)
      BY <1>0
    <3> QED  BY <2>2, <3>1
  <2>7. positions'[s] = Bought(trades', s, day) - Sold(trades', s, day)
    BY <2>1, <2>3, <2>4
  <2>8. today_bought'[s] = Bought(trades', s, day) - Bought(trades', s, day - 1)
    BY <2>1, <2>3, <2>4, <2>6
  <2> QED  BY <2>1, <2>5, <2>7, <2>8
<1> QED  BY <1>2, <1>3, <1>4 DEF LedgerInv

\* A sell takes no more than was bought before its day and is not yet sold: that
\* is what Sellable checks.
LEMMA FillSellKeepsLedger ==
    ASSUME AccountInv, LedgerInv, FillSell
    PROVE  LedgerInv'
<1>0. /\ pending_orders # <<>> /\ Bar # NoBar /\ TakeOrder
      /\ AccountTypeOK /\ day \in Nat
      /\ Order.order_type = "Sell" /\ Traded(SellFees(Cost))
  BY BrokerAssumption DEF FillSell, Fillable, TakeOrder, AccountInv, AccountTypeOK
<1>1. /\ Order.amount \in Nat \ {0} /\ Cost \in Nat /\ SellFees(Cost) \in Nat
      /\ Order.symbol \in Symbols
  BY <1>0, HeadOfOrders, CostOfOrder DEF Orders
<1>2. /\ phase' = phase /\ day' = day
      /\ last_trade_date = day /\ last_trade_date' = day
      /\ \A i \in DOMAIN trades' : trades'[i].day <= day
      /\ Flow(trades') = Flow(trades) + (Cost - SellFees(Cost))
  BY <1>0, <1>1, Recorded
<1>3. cash' = InitialCash + Flow(trades')
  <2>1. cash' = cash + Cost - SellFees(Cost) /\ cash = InitialCash + Flow(trades)
    BY DEF FillSell, LedgerInv
  <2>2. Flow(trades) \in Int /\ InitialCash \in Int
    BY <1>0, BrokerAssumption, FlowOfTrades
  <2> QED  BY <1>1, <1>2, <2>1, <2>2
<1>4. ASSUME NEW s \in Symbols
      PROVE  /\ positions'[s] = Bought(trades', s, day) - Sold(trades', s, day)
             /\ today_bought'[s] = Bought(trades', s, day) - Bought(trades', s, day - 1)
             /\ \A d \in 1..day : Sold(trades', s, d) <= Bought(trades', s, d - 1)
  <2>1. /\ positions[s] = Bought(trades, s, day) - Sold(trades, s, day)
        /\ today_bought[s] = Bought(trades, s, day) - Bought(trades, s, day - 1)
        /\ \A d \in 1..day : Sold(trades, s, d) <= Bought(trades, s, d - 1)
    BY <1>2 DEF LedgerInv
  <2> DEFINE loss == IF Order.symbol = s THEN Order.amount ELSE 0
  <2>2. ASSUME NEW d \in Int
        PROVE  /\ Bought(trades, s, d) \in Int /\ Sold(trades, s, d) \in Int
               /\ Bought(trades', s, d) = Bought(trades, s, d)
               /\ Sold(trades', s, d) = Sold(trades, s, d) + (IF day <= d THEN loss ELSE 0)
    <3>1. /\ Bought(trades, s, d) \in Int /\ Sold(trades, s, d) \in Int
          /\ Bought(trades', s, d) = Bought(trades, s, d)
                + (IF Order.symbol = s /\ Order.order_type = "Buy" /\ day <= d
                   THEN Order.amount ELSE 0)
          /\ Sold(trades', s, d) = Sold(trades, s, d)
                + (IF Order.symbol = s /\ Order.order_type = "Sell" /\ day <= d
                   THEN Order.amount ELSE 0)
      BY <1>0, <1>1, Recorded
    <3>2. Bought(trades', s, d) = Bought(trades, s, d)
      BY <1>0, <3>1
    <3> QED  BY <1>0, <3>1, <3>2
  <2>3. /\ positions'[s] = positions[s] - loss
        /\ today_bought'[s] = today_bought[s]
        /\ loss \in Nat
    <3>1. /\ positions' = [positions EXCEPT ![Order.symbol] = @ - Order.amount]
          /\ today_bought' = today_bought
      BY DEF FillSell
    <3>2. positions \in [Symbols -> Int]
      BY <1>0 DEF AccountTypeOK
    <3>3. loss \in Nat
      BY <1>1
    <3> QED  BY <1>1, <3>1, <3>2, <3>3
  <2>4. loss <= positions[s] - today_bought[s]
    <3>1. Order.amount <= positions[Order.symbol] - today_bought[Order.symbol]
      BY DEF FillSell, Fillable, Sellable
    <3>2. today_bought[s] <= positions[s] /\ positions[s] \in Int /\ today_bought[s] \in Int
      BY <1>0 DEF AccountInv, AccountTypeOK, BrokerInv
    <3> QED  BY <3>1, <3>2
  <2> HIDE DEF loss
  <2>5. ASSUME NEW d \in 1..day
        PROVE  Sold(trades', s, d) <= Bought(trades', s, d - 1)
    <3>1. d - 1 \in Int /\ d \in Int /\ (day <= d <=> d = day)
      BY <1>0
    <3>2. /\ Sold(trades, s, d) \in Int /\ Bought(trades, s, d - 1) \in Int
          /\ Bought(trades', s, d - 1) = Bought(trades, s, d - 1)
      BY <2>2, <3>1
    <3>3. CASE d # day
      <4>1. Sold(trades', s, d) = Sold(trades, s, d)
        BY <2>2, <3>1, <3>2, <3>3
      <4> QED  BY <2>1, <3>2, <4>1
    <3>4. CASE d = day
      <4>1. Sold(trades', s, day) = Sold(trades, s, day) + loss
        BY <2>2, <3>1, <3>4
      <4>2. Sold(trades, s, day) \in Int /\ Bought(trades, s, day) \in Int
            /\ Bought(trades, s, day - 1) \in Int
        BY <2>2, <3>1, <3>2, <3>4
      <4>3. loss <= (Bought(trades, s, day) - Sold(trades, s, day))
                       - (Bought(trades, s, day) - Bought(trades, s, day - 1))
        BY <2>1, <2>4
      <4>4. Sold(trades, s, day) + loss <= Bought(trades, s, day - 1)
        BY <2>3, <4>2, <4>3
      <4> QED  BY <3>2, <3>4, <4>1, <4>4
    <3> QED  BY <3>3, <3>4
  <2>6. /\ Bought(trades', s, day) = Bought(trades, s, day)
        /\ Bought(trades', s, day - 1) = Bought(trades, s, day - 1)
        /\ Sold(trades', s, day) = Sold(trades, s, day) + loss
        /\ Bought(trades, s, day) \in Int /\ Sold(trades, s, day) \in Int
    BY <1>0, <2>2
  <2>7. positions'[s] = Bought(trades', s, day) - Sold(trades', s, day)
    BY <2>1, <2>3, <2>6
  <2>8. today_bought'[s] = Bought(trades', s, day) - Bought(trades', s, day - 1)
    BY <2>1, <2>3, <2>6
  <2> QED  BY <2>5, <2>7, <2>8
<1> QED  BY <1>2, <1>3, <1>4 DEF LedgerInv

\* On days after the last one with trades, what was sold is still no more than
\* what had been bought.
LEMMA NothingSoldLater ==
    ASSUME AccountInv, LedgerInv, NEW s \in Symbols, NEW d \in Int, last_trade_date < d
    PROVE  /\ Bought(trades, s, d) = Bought(trades, s, last_trade_date)
           /\ Sold(trades, s, d) = Sold(trades, s, last_trade_date)
           /\ Bought(trades, s, d - 1) = Bought(trades, s, last_trade_date)
           /\ Bought(trades, s, d) \in Int
           /\ Sold(trades, s, d) \in Int
           /\ Sold(trades, s, d) <= Bought(trades, s, d - 1)
<1> DEFINE last == last_trade_date
<1>0. AccountTypeOK /\ BrokerInv /\ last \in Int /\ trades \in Seq(Trades)
  BY BrokerAssumption DEF AccountInv, AccountTypeOK
<1>1. \A i \in DOMAIN trades : trades[i].day <= last
  BY DEF LedgerInv
<1>2. d - 1 \in Int /\ last <= d - 1 /\ last <= d
  BY <1>0
<1>3. /\ Moved(trades, s, "Buy", d) = Moved(trades, s, "Buy", last)
      /\ Moved(trades, s, "Sell", d) = Moved(trades, s, "Sell", last)
      /\ Moved(trades, s, "Buy", d - 1) = Moved(trades, s, "Buy", last)
  BY <1>0, <1>1, <1>2, MovedLater
<1>4. Moved(trades, s, "Buy", last) \in Int /\ Moved(trades, s, "Sell", last) \in Int
  BY <1>0, MovedIsInteger
<1>5. positions[s] = Moved(trades, s, "Buy", last) - Moved(trades, s, "Sell", last)
  BY DEF LedgerInv, Bought, Sold
<1>6. 0 <= positions[s]
  <2>1. today_bought[s] \in Nat /\ positions[s] \in Int /\ today_bought[s] <= positions[s]
    BY <1>0 DEF AccountTypeOK, BrokerInv
  <2> QED  BY <2>1
<1>7. Moved(trades, s, "Sell", last) <= Moved(trades, s, "Buy", last)
  BY <1>4, <1>5, <1>6
<1> QED  BY <1>3, <1>4, <1>7 DEF Bought, Sold

\* The change of date settles what was bought.
LEMMA OnBarReturnsKeepsLedger ==
    ASSUME AccountInv, LedgerInv, OnBarReturns
    PROVE  LedgerInv'
<1>0. /\ AccountTypeOK /\ DateBehind /\ day \in Int /\ last_trade_date \in Int
      /\ last_trade_date < day
  BY BrokerAssumption DEF AccountInv, AccountTypeOK, BrokerInv, DateBehind, OnBarReturns
<1>1. /\ day' = day /\ last_trade_date' = day
      /\ cash' = cash /\ positions' = positions /\ trades' = trades
      /\ today_bought' = [s \in Symbols |-> 0]
  BY <1>0 DEF OnBarReturns
<1>2. \A i \in DOMAIN trades : trades[i].day <= day
  <2>1. trades \in Seq(Trades)
    BY <1>0 DEF AccountTypeOK
  <2>2. \A i \in DOMAIN trades : trades[i].day \in Nat
    BY <2>1, ListedTrades
  <2> QED  BY <1>0, <2>2 DEF LedgerInv
<1>3. ASSUME NEW s \in Symbols
      PROVE  /\ positions[s] = Bought(trades, s, day) - Sold(trades, s, day)
             /\ 0 = Bought(trades, s, day) - Bought(trades, s, day - 1)
             /\ \A d \in 1..day : Sold(trades, s, d) <= Bought(trades, s, d - 1)
  <2>1. /\ positions[s] = Bought(trades, s, last_trade_date) - Sold(trades, s, last_trade_date)
        /\ \A d \in 1..last_trade_date : Sold(trades, s, d) <= Bought(trades, s, d - 1)
    BY DEF LedgerInv
  <2>2. /\ Bought(trades, s, day) = Bought(trades, s, last_trade_date)
        /\ Sold(trades, s, day) = Sold(trades, s, last_trade_date)
        /\ Bought(trades, s, day - 1) = Bought(trades, s, last_trade_date)
        /\ Bought(trades, s, day) \in Int
    BY <1>0, NothingSoldLater
  <2>3. ASSUME NEW d \in 1..day
        PROVE  Sold(trades, s, d) <= Bought(trades, s, d - 1)
    <3>1. CASE d <= last_trade_date
      <4>1. d \in 1..last_trade_date
        BY <1>0, <3>1
      <4> QED  BY <2>1, <4>1
    <3>2. CASE ~(d <= last_trade_date)
      <4>1. d \in Int /\ last_trade_date < d
        BY <1>0, <3>2
      <4> QED  BY <4>1, NothingSoldLater
    <3> QED  BY <3>1, <3>2
  <2>4. 0 = Bought(trades, s, day) - Bought(trades, s, day - 1)
    BY <2>2
  <2> QED  BY <2>1, <2>2, <2>3, <2>4
<1> QED  BY <1>1, <1>2, <1>3 DEF LedgerInv

\* Other steps leave the account and its date alone.
LEMMA StepKeepsLedger ==
    ASSUME AccountInv, LedgerInv, [Next]_vars
    PROVE  LedgerInv'
<1>1. CASE /\ UNCHANGED <<account, last_trade_date>>
           /\ phase' = "execute" => phase = "execute" /\ day' = day
  <2>1. UNCHANGED <<cash, positions, today_bought, trades, last_trade_date>>
    BY <1>1 DEF account
  <2>2. phase' = "execute" => last_trade_date' = day'
    BY <1>1, <2>1 DEF LedgerInv
  <2> QED  BY <2>1, <2>2 DEF LedgerInv
<1>2. CASE NextDate
  BY <1>1, <1>2 DEF NextDate
<1>3. ASSUME NEW s \in Symbols, NEW percent \in Percents,
             PlaceBuy(s, percent) \/ PlaceSell(s, percent)
      PROVE  LedgerInv'
  BY <1>1, <1>3 DEF PlaceBuy, PlaceSell, PlaceOrder
<1>4. CASE OnBarReturns
  BY <1>4, OnBarReturnsKeepsLedger
<1>5. CASE FillBuy
  BY <1>5, FillBuyKeepsLedger
<1>6. CASE FillSell
  BY <1>6, FillSellKeepsLedger
<1>7. CASE DropOrder
  BY <1>1, <1>7 DEF DropOrder, TakeOrder
<1>8. CASE RecordSnapshot
  BY <1>1, <1>8 DEF RecordSnapshot
<1>9. CASE ExitRun
  BY <1>1, <1>9 DEF ExitRun
<1>10. CASE UNCHANGED vars
  BY <1>1, <1>10 DEF vars
<1> QED  BY <1>2, <1>3, <1>4, <1>5, <1>6, <1>7, <1>8, <1>9, <1>10 DEF Next, Trade

LEMMA InitHoldsLedger == Init => LedgerInv
<1> SUFFICES ASSUME Init
             PROVE  LedgerInv
  OBVIOUS
<1>1. trades = <<>> /\ DOMAIN trades = {}
  BY DEF Init
<1>2. Flow(trades) = 0
  BY <1>1, SumOfNone DEF Flow
<1>3. \A s, d : Bought(trades, s, d) = 0 /\ Sold(trades, s, d) = 0
  BY <1>1, SumOfNone DEF Bought, Sold, Moved
<1>4. phase # "execute" /\ cash = InitialCash /\ InitialCash \in Int /\ last_trade_date = 0
      /\ positions = [s \in Symbols |-> 0] /\ today_bought = [s \in Symbols |-> 0]
  BY BrokerAssumption DEF Init
<1> QED  BY <1>1, <1>2, <1>3, <1>4 DEF LedgerInv

\* In every backtest the account is what its list of trades adds up to.
THEOREM LedgerInvariant == Spec => [](AccountInv /\ LedgerInv)
<1>1. Init => AccountInv /\ LedgerInv
  BY InitHolds, InitHoldsLedger
<1>2. AccountInv /\ LedgerInv /\ [Next]_vars => (AccountInv /\ LedgerInv)'
  BY StepKeeps, StepKeepsLedger
<1> QED  BY <1>1, <1>2, PTL DEF Spec

\* By the last day with trades is all there is.
LEMMA LedgerExplains ==
    ASSUME AccountInv, LedgerInv
    PROVE  TradesExplainAccount
<1> DEFINE All(s, side) ==
             SumFunction([i \in DOMAIN trades |->
                IF trades[i].symbol = s /\ trades[i].order_type = side
                THEN trades[i].amount ELSE 0])
<1>1. cash = InitialCash + SumFunction([i \in DOMAIN trades |-> CashFlow(trades[i])])
  BY DEF LedgerInv, Flow
<1>2. ASSUME NEW s, NEW side
      PROVE  Moved(trades, s, side, last_trade_date) = All(s, side)
  BY DEF LedgerInv, Moved
<1>3. ASSUME NEW s \in Symbols
      PROVE  positions[s] = All(s, "Buy") - All(s, "Sell")
  BY <1>2 DEF LedgerInv, Bought, Sold
<1> QED  BY <1>1, <1>3 DEF TradesExplainAccount, Shares

LEMMA LedgerSettles ==
    ASSUME AccountInv, LedgerInv
    PROVE  SoldAfterTheDayOfPurchase
<1>0. trades \in Seq(Trades) /\ day \in Int /\ last_trade_date \in Int
  BY BrokerAssumption DEF AccountInv, AccountTypeOK
<1>1. \A i \in DOMAIN trades : trades[i].day \in Int
  BY <1>0, ListedTrades
<1> SUFFICES ASSUME NEW s \in Symbols, NEW d \in 1..day
             PROVE  SumFunction([i \in DOMAIN trades |->
                       IF trades[i].symbol = s /\ trades[i].order_type = "Sell"
                             /\ trades[i].day <= d
                       THEN trades[i].amount ELSE 0])
                    <= SumFunction([i \in DOMAIN trades |->
                          IF trades[i].symbol = s /\ trades[i].order_type = "Buy"
                                /\ trades[i].day < d
                          THEN trades[i].amount ELSE 0])
  BY DEF SoldAfterTheDayOfPurchase, Shares
<1>2. d \in Int /\ \A i \in DOMAIN trades : trades[i].day < d <=> trades[i].day <= d - 1
  BY <1>0, <1>1
<1>3. Bought(trades, s, d - 1) =
         SumFunction([i \in DOMAIN trades |->
            IF trades[i].symbol = s /\ trades[i].order_type = "Buy" /\ trades[i].day < d
            THEN trades[i].amount ELSE 0])
  BY <1>2 DEF Bought, Moved
<1>4. Sold(trades, s, d) <= Bought(trades, s, d - 1)
  <2>1. CASE d <= last_trade_date
    <3>1. d \in 1..last_trade_date
      BY <1>0, <2>1
    <3> QED  BY <3>1 DEF LedgerInv
  <2>2. CASE ~(d <= last_trade_date)
    <3>1. last_trade_date < d
      BY <1>0, <1>2, <2>2
    <3> QED  BY <1>2, <3>1, NothingSoldLater
  <2> QED  BY <2>1, <2>2
<1> QED  BY <1>3, <1>4 DEF Sold, Moved

\* The report's trade list explains cash and positions, for every run.
THEOREM TheTradesExplainTheAccount == Spec => []TradesExplainAccount
<1>1. AccountInv /\ LedgerInv => TradesExplainAccount
  BY LedgerExplains
<1> QED  BY <1>1, LedgerInvariant, PTL

\* No share is sold on the day it was bought, over the whole history of a run.
THEOREM SalesSettle == Spec => []SoldAfterTheDayOfPurchase
<1>1. AccountInv /\ LedgerInv => SoldAfterTheDayOfPurchase
  BY LedgerSettles
<1> QED  BY <1>1, LedgerInvariant, PTL

-----------------------------------------------------------------------------
(* What the analyzer reads out of the trades: lots and paired sales *)

Lots == [price : Nat, amount : Nat \ {0}, fee : Nat]
PairedSales == [amount : Int, pnl : Int]

LEMMA LotsAppended ==
    ASSUME NEW lots \in Seq(Lots), NEW lot \in Lots
    PROVE  /\ Append(lots, lot) \in Seq(Lots)
           /\ SharesIn(lots) \in Int /\ CostOf(lots) \in Int
           /\ SharesIn(Append(lots, lot)) = SharesIn(lots) + lot.amount
           /\ CostOf(Append(lots, lot)) = CostOf(lots) + (lot.price * lot.amount + lot.fee)
<1> DEFINE n == Len(lots)
           more == Append(lots, lot)
           f == [i \in DOMAIN more |-> more[i].amount]
           g == [i \in DOMAIN lots |-> lots[i].amount]
           h == [i \in DOMAIN more |-> more[i].price * more[i].amount + more[i].fee]
           k == [i \in DOMAIN lots |-> lots[i].price * lots[i].amount + lots[i].fee]
<1>1. n \in Nat /\ DOMAIN lots = 1..n
  BY LenProperties
<1>2. /\ more \in Seq(Lots)
      /\ DOMAIN more = 1..(n + 1)
      /\ more[n + 1] = lot
      /\ \A i \in 1..n : more[i] = lots[i]
  BY AppendProperties
<1>3. \A l \in Lots : l.amount \in Int /\ l.price * l.amount + l.fee \in Int
  BY DEF Lots
<1>4. \A i \in 1..(n + 1) : more[i] \in Lots
  BY <1>2
<1> HIDE DEF more, n
<1>5. SumFunction(g) \in Int /\ SumFunction(f) = SumFunction(g) + f[n + 1]
  <2>1. /\ f = [i \in 1..(n + 1) |-> f[i]] /\ g = [i \in 1..n |-> g[i]]
        /\ \A i \in 1..(n + 1) : f[i] \in Int
        /\ \A i \in 1..n : g[i] = f[i]
    BY <1>1, <1>2, <1>3, <1>4
  <2> HIDE DEF f, g
  <2> QED  BY <1>1, <2>1, TotalOfAppended
<1>6. SumFunction(k) \in Int /\ SumFunction(h) = SumFunction(k) + h[n + 1]
  <2>1. /\ h = [i \in 1..(n + 1) |-> h[i]] /\ k = [i \in 1..n |-> k[i]]
        /\ \A i \in 1..(n + 1) : h[i] \in Int
        /\ \A i \in 1..n : k[i] = h[i]
    BY <1>1, <1>2, <1>3, <1>4
  <2> HIDE DEF h, k
  <2> QED  BY <1>1, <2>1, TotalOfAppended
<1>7. f[n + 1] = lot.amount /\ h[n + 1] = lot.price * lot.amount + lot.fee
  BY <1>1, <1>2
<1> HIDE DEF f, g, h, k
<1>8. /\ SharesIn(lots) = SumFunction(g) /\ SharesIn(more) = SumFunction(f)
      /\ CostOf(lots) = SumFunction(k) /\ CostOf(more) = SumFunction(h)
  BY DEF SharesIn, CostOf, f, g, h, k
<1> QED  BY <1>2, <1>5, <1>6, <1>7, <1>8 DEF more

LEMMA PairsAppended ==
    ASSUME NEW pairs \in Seq(PairedSales), NEW pair \in PairedSales
    PROVE  /\ Append(pairs, pair) \in Seq(PairedSales)
           /\ SharesPaired(pairs) \in Int /\ Profit(pairs) \in Int
           /\ SharesPaired(Append(pairs, pair)) = SharesPaired(pairs) + pair.amount
           /\ Profit(Append(pairs, pair)) = Profit(pairs) + pair.pnl
<1> DEFINE n == Len(pairs)
           more == Append(pairs, pair)
           f == [i \in DOMAIN more |-> more[i].amount]
           g == [i \in DOMAIN pairs |-> pairs[i].amount]
           h == [i \in DOMAIN more |-> more[i].pnl]
           k == [i \in DOMAIN pairs |-> pairs[i].pnl]
<1>1. n \in Nat /\ DOMAIN pairs = 1..n
  BY LenProperties
<1>2. /\ more \in Seq(PairedSales)
      /\ DOMAIN more = 1..(n + 1)
      /\ more[n + 1] = pair
      /\ \A i \in 1..n : more[i] = pairs[i]
  BY AppendProperties
<1>3. \A l \in PairedSales : l.amount \in Int /\ l.pnl \in Int
  BY DEF PairedSales
<1>4. \A i \in 1..(n + 1) : more[i] \in PairedSales
  BY <1>2
<1> HIDE DEF more, n
<1>5. SumFunction(g) \in Int /\ SumFunction(f) = SumFunction(g) + f[n + 1]
  <2>1. /\ f = [i \in 1..(n + 1) |-> f[i]] /\ g = [i \in 1..n |-> g[i]]
        /\ \A i \in 1..(n + 1) : f[i] \in Int
        /\ \A i \in 1..n : g[i] = f[i]
    BY <1>1, <1>2, <1>3, <1>4
  <2> HIDE DEF f, g
  <2> QED  BY <1>1, <2>1, TotalOfAppended
<1>6. SumFunction(k) \in Int /\ SumFunction(h) = SumFunction(k) + h[n + 1]
  <2>1. /\ h = [i \in 1..(n + 1) |-> h[i]] /\ k = [i \in 1..n |-> k[i]]
        /\ \A i \in 1..(n + 1) : h[i] \in Int
        /\ \A i \in 1..n : k[i] = h[i]
    BY <1>1, <1>2, <1>3, <1>4
  <2> HIDE DEF h, k
  <2> QED  BY <1>1, <2>1, TotalOfAppended
<1>7. f[n + 1] = pair.amount /\ h[n + 1] = pair.pnl
  BY <1>1, <1>2
<1> HIDE DEF f, g, h, k
<1>8. /\ SharesPaired(pairs) = SumFunction(g) /\ SharesPaired(more) = SumFunction(f)
      /\ Profit(pairs) = SumFunction(k) /\ Profit(more) = SumFunction(h)
  BY DEF SharesPaired, Profit, f, g, h, k
<1> QED  BY <1>2, <1>5, <1>6, <1>7, <1>8 DEF more

-----------------------------------------------------------------------------
(* The loops *)

\* The loop over the lots of a sale, turn by turn.
LEMMA SellingTurns ==
    ASSUME NEW lots, NEW sell, NEW paired, Len(lots) \in Nat
    PROVE  /\ Selling(lots, sell, paired)[0]
                 = [remaining |-> sell.amount, lots |-> <<>>, paired |-> paired]
           /\ \A i \in 1..Len(lots) :
                 Selling(lots, sell, paired)[i]
                    = TakeFromLot(Selling(lots, sell, paired)[i - 1], lots[i], sell)
<1> DEFINE m == Len(lots)
           start == [remaining |-> sell.amount, lots |-> <<>>, paired |-> paired]
           Turn(g, i) == IF i = 0 THEN start ELSE TakeFromLot(g[i - 1], lots[i], sell)
           N == {n \in Nat : \E g : \A i \in 0..n : g[i] = Turn(g, i)}
<1> HIDE DEF start
<1>1. 0 \in N
  <2> DEFINE g == [i \in 0..0 |-> start]
  <2>1. \A i \in 0..0 : g[i] = Turn(g, i)
    OBVIOUS
  <2> QED  BY <2>1
<1>2. ASSUME NEW n \in N
      PROVE  n + 1 \in N
  <2>1. PICK g : \A i \in 0..n : g[i] = Turn(g, i)
    OBVIOUS
  <2> DEFINE h == [i \in 0..(n + 1) |-> IF i <= n THEN g[i] ELSE Turn(g, n + 1)]
  <2>2. ASSUME NEW i \in 0..(n + 1)
        PROVE  h[i] = Turn(h, i)
    <3>1. h[i] = Turn(g, i)
      BY <2>1
    <3>2. i # 0 => i - 1 \in 0..n
      OBVIOUS
    <3>3. i # 0 => h[i - 1] = g[i - 1]
      BY <3>2
    <3> HIDE DEF h
    <3> QED  BY <3>1, <3>3
  <2> HIDE DEF h
  <2> QED  BY <2>2
<1>3. N = Nat
  <2>1. N \subseteq Nat
    OBVIOUS
  <2> HIDE DEF N
  <2> QED  BY <1>1, <1>2, <2>1, SetInduction
<1>4. PICK g : \A i \in 0..m : g[i] = Turn(g, i)
  BY <1>3
<1> DEFINE h == [i \in 0..m |-> g[i]]
<1>5. h = [i \in 0..m |-> Turn(h, i)]
  <2>1. ASSUME NEW i \in 0..m
        PROVE  h[i] = Turn(h, i)
    <3>1. i # 0 => i - 1 \in 0..m
      OBVIOUS
    <3> QED  BY <1>4, <3>1
  <2> HIDE DEF Turn
  <2> QED  BY <2>1
<1>6. Selling(lots, sell, paired)
         = [i \in 0..m |-> Turn(Selling(lots, sell, paired), i)]
  <2> HIDE DEF h
  <2> QED  BY <1>5 DEF Selling, start
<1> DEFINE f == Selling(lots, sell, paired)
<1> HIDE DEF f, m
<1>7. m \in Nat /\ f = [i \in 0..m |-> Turn(f, i)]
  BY <1>6 DEF f, m
<1>8. f[0] = start /\ \A i \in 1..m : f[i] = TakeFromLot(f[i - 1], lots[i], sell)
  BY <1>7
<1> QED  BY <1>8 DEF f, m, start

\* The loop over the trades, turn by turn.
LEMMA PairingTurns ==
    ASSUME NEW list, Len(list) \in Nat
    PROVE  /\ Pairing(list)[0] = NoStats
           /\ \A i \in 1..Len(list) :
                 Pairing(list)[i] = PairTrade(Pairing(list)[i - 1], list[i])
<1> DEFINE m == Len(list)
           Turn(g, i) == IF i = 0 THEN NoStats ELSE PairTrade(g[i - 1], list[i])
           N == {n \in Nat : \E g : \A i \in 0..n : g[i] = Turn(g, i)}
<1>1. 0 \in N
  <2> DEFINE g == [i \in 0..0 |-> NoStats]
  <2>1. \A i \in 0..0 : g[i] = Turn(g, i)
    OBVIOUS
  <2> QED  BY <2>1
<1>2. ASSUME NEW n \in N
      PROVE  n + 1 \in N
  <2>1. PICK g : \A i \in 0..n : g[i] = Turn(g, i)
    OBVIOUS
  <2> DEFINE h == [i \in 0..(n + 1) |-> IF i <= n THEN g[i] ELSE Turn(g, n + 1)]
  <2>2. ASSUME NEW i \in 0..(n + 1)
        PROVE  h[i] = Turn(h, i)
    <3>1. h[i] = Turn(g, i)
      BY <2>1
    <3>2. i # 0 => i - 1 \in 0..n
      OBVIOUS
    <3>3. i # 0 => h[i - 1] = g[i - 1]
      BY <3>2
    <3> HIDE DEF h
    <3> QED  BY <3>1, <3>3
  <2> HIDE DEF h
  <2> QED  BY <2>2
<1>3. N = Nat
  <2>1. N \subseteq Nat
    OBVIOUS
  <2> HIDE DEF N
  <2> QED  BY <1>1, <1>2, <2>1, SetInduction
<1>4. PICK g : \A i \in 0..m : g[i] = Turn(g, i)
  BY <1>3
<1> DEFINE h == [i \in 0..m |-> g[i]]
<1>5. h = [i \in 0..m |-> Turn(h, i)]
  <2>1. ASSUME NEW i \in 0..m
        PROVE  h[i] = Turn(h, i)
    <3>1. i # 0 => i - 1 \in 0..m
      OBVIOUS
    <3> QED  BY <1>4, <3>1
  <2> HIDE DEF Turn
  <2> QED  BY <2>1
<1>6. Pairing(list) = [i \in 0..m |-> Turn(Pairing(list), i)]
  <2> HIDE DEF h
  <2> QED  BY <1>5 DEF Pairing
<1> DEFINE f == Pairing(list)
<1> HIDE DEF f, m
<1>7. m \in Nat /\ f = [i \in 0..m |-> Turn(f, i)]
  BY <1>6 DEF f, m
<1>8. f[0] = NoStats /\ \A i \in 1..m : f[i] = PairTrade(f[i - 1], list[i])
  BY <1>7
<1> QED  BY <1>8 DEF f, m

PairedUp(list) == Pairing(list)[Len(list)]

\* A new trade takes the loop one turn further.
LEMMA PairingOfAppended ==
    ASSUME NEW S, NEW list \in Seq(S), NEW trade \in S
    PROVE  PairedUp(Append(list, trade)) = PairTrade(PairedUp(list), trade)
<1> DEFINE n == Len(list)
           more == Append(list, trade)
           f == Pairing(list)
           g == Pairing(more)
           T == {i \in Nat : i <= n => g[i] = f[i]}
<1>1. /\ n \in Nat /\ Len(more) = n + 1 /\ more[n + 1] = trade
      /\ \A i \in 1..n : more[i] = list[i]
  BY AppendProperties, LenProperties
<1>2. f[0] = NoStats /\ \A i \in 1..n : f[i] = PairTrade(f[i - 1], list[i])
  BY <1>1, PairingTurns
<1>3. g[0] = NoStats /\ \A i \in 1..(n + 1) : g[i] = PairTrade(g[i - 1], more[i])
  <2>1. Len(more) \in Nat /\ Len(more) = n + 1
    BY <1>1
  <2> HIDE DEF more, n
  <2> QED  BY <2>1, PairingTurns
<1> HIDE DEF f, g, more, n
<1>4. 0 \in T
  BY <1>2, <1>3
<1>5. ASSUME NEW i \in T
      PROVE  i + 1 \in T
  <2> SUFFICES ASSUME i + 1 <= n
               PROVE  g[i + 1] = f[i + 1]
    OBVIOUS
  <2>1. i \in Nat /\ g[i] = f[i]
    BY <1>1
  <2>2. i + 1 \in 1..n /\ i + 1 \in 1..(n + 1) /\ (i + 1) - 1 = i
    BY <1>1, <2>1
  <2>3. f[i + 1] = PairTrade(f[i], list[i + 1]) /\ g[i + 1] = PairTrade(g[i], more[i + 1])
    BY <1>2, <1>3, <2>2
  <2> QED  BY <1>1, <2>1, <2>2, <2>3
<1>6. T = Nat
  <2>1. T \subseteq Nat
    OBVIOUS
  <2> HIDE DEF T
  <2> QED  BY <1>4, <1>5, <2>1, SetInduction
<1>7. g[n] = f[n]
  BY <1>1, <1>6
<1>8. g[n + 1] = PairTrade(g[n], trade)
  <2>1. n + 1 \in 1..(n + 1) /\ (n + 1) - 1 = n
    BY <1>1
  <2> QED  BY <1>1, <1>3, <2>1
<1> QED  BY <1>1, <1>7, <1>8 DEF f, g, more, n, PairedUp

-----------------------------------------------------------------------------
(* One sale *)

\* The parts of a fee are never less than the fee, and exact for the whole lot.
LEMMA FeeShareBounds ==
    ASSUME NEW fee \in Nat, NEW n \in Nat \ {0}, NEW number \in Nat \ {0}
    PROVE  /\ FeeShare(fee, n, number) \in Nat
           /\ number * FeeShare(fee, n, number) >= Parts * fee * n
           /\ n = number => FeeShare(fee, n, number) >= Parts * fee
<1> DEFINE t == Parts * fee * n
           q == (t + number - 1) \div number
           r == (t + number - 1) % number
           pf == Parts * fee
<1>0. Parts \in Nat
  BY FifoAssumption
<1>1. pf \in Nat /\ t = pf * n
  BY <1>0
<1>2. t \in Nat /\ t + number - 1 \in Nat
  <2> HIDE DEF pf
  <2>1. t \in Nat
    BY <1>1
  <2> HIDE DEF t
  <2> QED  BY <2>1
<1> HIDE DEF t, pf
<1>3. /\ q \in Nat /\ r \in 0..(number - 1)
      /\ t + number - 1 = number * q + r
  <2> DEFINE e == t + number - 1
             k == number
  <2>1. e \in Nat /\ k \in Nat \ {0}
    BY <1>2
  <2> HIDE DEF e, k
  <2>2. e \div k \in Nat /\ e % k \in Nat /\ e = k * (e \div k) + (e % k)
    BY <2>1, Division
  <2>3. e % k < k
    BY <2>1
  <2> QED  BY <2>2, <2>3 DEF e, k, q, r
<1> HIDE DEF q, r
<1>4. number * q >= t
  <2> DEFINE m == number * q
  <2>1. m \in Int
    BY <1>3
  <2> HIDE DEF m
  <2>2. t + number - 1 = m + r
    BY <1>3 DEF m
  <2>3. m >= t
    BY <2>1, <2>2, <1>2, <1>3
  <2> QED  BY <2>3 DEF m
<1>5. n = number => q >= pf
  <2> SUFFICES ASSUME n = number, q < pf
               PROVE  FALSE
    BY <1>1, <1>3
  <2>1. n * q >= pf * n
    BY <1>1, <1>4
  <2>2. pf >= q + 1 /\ n > 0
    BY <1>1, <1>3
  <2>3. pf * n >= (q + 1) * n
    BY <1>1, <1>3, <2>2
  <2>4. (q + 1) * n = n * q + n
    BY <1>3
  <2> DEFINE a == n * q
             b == pf * n
  <2>5. a \in Int /\ b \in Int /\ a >= b /\ b >= a + n
    BY <1>1, <1>3, <2>1, <2>3, <2>4
  <2> HIDE DEF a, b
  <2> QED  BY <2>2, <2>5
<1> QED  BY <1>1, <1>3, <1>4, <1>5 DEF q, t, pf, FeeShare

Selleds == [remaining : Nat, lots : Seq(Lots), paired : Seq(PairedSales)]

PaidFor(lot) == lot.price * lot.amount + lot.fee

\* A lot gave n of its shares; what is left of it cost so much.
Gave(state, lot, sell, after) ==
    \E n \in Nat, cost, profit \in Int :
        /\ n <= state.remaining
        /\ after.remaining = state.remaining - n
        /\ SharesIn(after.lots) = SharesIn(state.lots) + (lot.amount - n)
        /\ CostOf(after.lots) = CostOf(state.lots) + cost
        /\ SharesPaired(after.paired) = SharesPaired(state.paired) + n
        /\ Profit(after.paired) = Profit(state.paired) + profit
        /\ sell.amount * (Parts * (sell.price * n - (PaidFor(lot) - cost)) - profit)
              >= Parts * sell.fee * n

\* What one lot gives to a sale: if nothing remains, the lot stays; otherwise the
\* shares it gives are paired, at a profit that leaves the sale its part of the fee.
LEMMA LotTaken ==
    ASSUME NEW state \in Selleds, NEW lot \in Lots, NEW sell \in Trades,
           state.remaining = 0 \/ state.lots = <<>>,
           NEW after, after = TakeFromLot(state, lot, sell)
    PROVE  /\ after \in Selleds
           /\ after.remaining = 0 \/ after.lots = <<>>
           /\ Gave(state, lot, sell, after)
<1> DEFINE rem == state.remaining
           n == IF rem < lot.amount THEN rem ELSE lot.amount
           rest == [lot EXCEPT !.amount = @ - n]
           pair == [amount |-> n, pnl |-> PairedPnl(lot, sell, n)]
           whole == PaidFor(lot)
<1>1. /\ rem \in Nat /\ state.lots \in Seq(Lots) /\ state.paired \in Seq(PairedSales)
      /\ lot.amount \in Nat \ {0} /\ lot.price \in Nat /\ lot.fee \in Nat
      /\ sell.amount \in Nat \ {0} /\ sell.price \in Nat /\ sell.fee \in Nat
      /\ Parts \in Nat
  BY FifoAssumption DEF Selleds, Lots, Trades
<1>2. n \in Nat /\ n <= rem /\ n <= lot.amount /\ (n = rem \/ n = lot.amount)
  BY <1>1
<1>3. whole \in Int /\ whole = lot.price * lot.amount + lot.fee
  BY <1>1 DEF PaidFor
<1>4. /\ SharesIn(state.lots) \in Int /\ CostOf(state.lots) \in Int
      /\ SharesIn(Append(state.lots, lot)) = SharesIn(state.lots) + lot.amount
      /\ CostOf(Append(state.lots, lot)) = CostOf(state.lots) + whole
      /\ Append(state.lots, lot) \in Seq(Lots)
  BY <1>1, LotsAppended DEF PaidFor
<1>5. SharesPaired(state.paired) \in Int /\ Profit(state.paired) \in Int
  <2>1. [amount |-> 0, pnl |-> 0] \in PairedSales
    BY DEF PairedSales
  <2> QED  BY <1>1, <2>1, PairsAppended
<1>6. CASE n = 0
  <2>1. rem = 0
    BY <1>1, <1>2, <1>6
  <2>2. after = [state EXCEPT !.lots = Append(@, lot)]
    BY <1>6 DEF TakeFromLot
  <2>3. /\ after.remaining = rem /\ after.lots = Append(state.lots, lot)
        /\ after.paired = state.paired /\ after \in Selleds
    BY <1>4, <2>2 DEF Selleds
  <2>4. sell.amount * (Parts * (sell.price * 0 - (whole - whole)) - 0) >= Parts * sell.fee * 0
    <3> HIDE DEF whole
    <3>1. sell.price * 0 - (whole - whole) = 0
      BY <1>1, <1>3
    <3> QED  BY <1>1, <3>1
  <2>5. /\ 0 \in Nat /\ 0 \in Int /\ 0 <= rem
        /\ after.remaining = rem - 0
        /\ SharesIn(after.lots) = SharesIn(state.lots) + (lot.amount - 0)
        /\ CostOf(after.lots) = CostOf(state.lots) + whole
        /\ SharesPaired(after.paired) = SharesPaired(state.paired) + 0
        /\ Profit(after.paired) = Profit(state.paired) + 0
    BY <1>1, <1>4, <1>5, <2>1, <2>3
  <2>6. after.remaining = 0
    BY <2>1, <2>3
  <2> HIDE DEF whole, rem, n
  <2>7. \E k \in Nat, cost, profit \in Int :
           /\ k <= rem
           /\ after.remaining = rem - k
           /\ SharesIn(after.lots) = SharesIn(state.lots) + (lot.amount - k)
           /\ CostOf(after.lots) = CostOf(state.lots) + cost
           /\ SharesPaired(after.paired) = SharesPaired(state.paired) + k
           /\ Profit(after.paired) = Profit(state.paired) + profit
           /\ sell.amount * (Parts * (sell.price * k - (whole - cost)) - profit)
                 >= Parts * sell.fee * k
    BY <1>3, <2>4, <2>5, Zenon
  <2> QED  BY <2>3, <2>6, <2>7, Zenon DEF whole, rem, Gave
<1>7. CASE n # 0
  <2> DEFINE FS == FeeShare(sell.fee, n, sell.amount)
             FL == FeeShare(lot.fee, n, lot.amount)
             pnl == PairedPnl(lot, sell, n)
  <2>1. /\ FS \in Nat /\ FL \in Nat
        /\ sell.amount * FS >= Parts * sell.fee * n
        /\ n = lot.amount => FL >= Parts * lot.fee
    BY <1>1, <1>2, <1>7, FeeShareBounds
  <2>2. pnl = Parts * (sell.price - lot.price) * n - FL - FS
    BY DEF PairedPnl
  <2>3. pnl \in Int
    <3> HIDE DEF FL, FS, n
    <3>1. Parts * (sell.price - lot.price) * n \in Int
      BY <1>1, <1>2
    <3> HIDE DEF pnl
    <3> QED  BY <2>1, <2>2, <3>1
  <2>4. pair \in PairedSales /\ pair.amount = n /\ pair.pnl = pnl
    BY <1>2, <2>3 DEF PairedSales
  <2>5. after = [remaining |-> rem - n,
                 lots |-> IF n = lot.amount THEN state.lots ELSE Append(state.lots, rest),
                 paired |-> Append(state.paired, pair)]
    BY <1>7 DEF TakeFromLot
  <2>6. /\ Append(state.paired, pair) \in Seq(PairedSales)
        /\ SharesPaired(Append(state.paired, pair)) = SharesPaired(state.paired) + n
        /\ Profit(Append(state.paired, pair)) = Profit(state.paired) + pnl
    <3> HIDE DEF pair, pnl, n
    <3> QED  BY <1>1, <2>4, PairsAppended
  <2> DEFINE cost == IF n = lot.amount THEN 0 ELSE lot.price * (lot.amount - n) + lot.fee
  <2>7. /\ after.lots \in Seq(Lots)
        /\ SharesIn(after.lots) = SharesIn(state.lots) + (lot.amount - n)
        /\ CostOf(after.lots) = CostOf(state.lots) + cost
        /\ cost \in Int
    <3>1. CASE n = lot.amount
      <4>1. after.lots = state.lots
        BY <2>5, <3>1
      <4>2. cost = 0 /\ lot.amount - n = 0
        BY <1>1, <3>1
      <4> HIDE DEF n, cost
      <4> QED  BY <1>1, <1>4, <4>1, <4>2
    <3>2. CASE n # lot.amount
      <4>1. /\ rest \in Lots /\ rest.amount = lot.amount - n
            /\ rest.price = lot.price /\ rest.fee = lot.fee
        <5>1. lot.amount - n \in Nat \ {0}
          BY <1>1, <1>2, <3>2
        <5> HIDE DEF n
        <5> QED  BY <5>1 DEF Lots
      <4>2. after.lots = Append(state.lots, rest)
        BY <2>5, <3>2
      <4>3. cost = lot.price * (lot.amount - n) + lot.fee
        BY <3>2
      <4> HIDE DEF rest, n, cost
      <4>4. /\ Append(state.lots, rest) \in Seq(Lots)
            /\ SharesIn(Append(state.lots, rest)) = SharesIn(state.lots) + rest.amount
            /\ CostOf(Append(state.lots, rest))
                  = CostOf(state.lots) + (rest.price * rest.amount + rest.fee)
        BY <1>1, <4>1, LotsAppended
      <4>5. cost \in Int
        BY <1>1, <1>2, <4>3
      <4> QED  BY <4>1, <4>2, <4>3, <4>4, <4>5
    <3> QED  BY <3>1, <3>2
  <2>8. after \in Selleds /\ after.remaining = rem - n /\ after.paired = Append(state.paired, pair)
    <3> HIDE DEF pair, n
    <3>1. rem - n \in Nat
      BY <1>1, <1>2
    <3> QED  BY <2>5, <2>6, <2>7, <3>1 DEF Selleds
  <2>9. after.remaining = 0 \/ after.lots = <<>>
    <3>1. CASE n = rem
      BY <1>1, <2>8, <3>1
    <3>2. CASE n # rem
      <4>1. n = lot.amount /\ rem # 0
        BY <1>1, <1>2, <3>2
      <4> QED  BY <2>5, <4>1
    <3> QED  BY <3>1, <3>2
  <2>10. Parts * (sell.price * n - (whole - cost)) - pnl >= FS
    <3> DEFINE d == Parts * (sell.price - lot.price) * n
               pf == Parts * lot.fee
    <3>1. d \in Int /\ pf \in Int
      BY <1>1, <1>2
    <3>2. CASE n = lot.amount
      <4>1. sell.price * n - (whole - cost) = (sell.price - lot.price) * n - lot.fee
        <5>1. whole = lot.price * n + lot.fee /\ cost = 0
          BY <1>3, <3>2
        <5> HIDE DEF cost, n, whole
        <5>2. (sell.price - lot.price) * n = sell.price * n - lot.price * n
          BY <1>1, <1>2
        <5> DEFINE b == lot.price * n
                   c == sell.price * n
        <5>3. b \in Int /\ c \in Int
          BY <1>1, <1>2
        <5>4. cost = 0 /\ whole = b + lot.fee
          BY <5>1
        <5> HIDE DEF b, c
        <5>5. c - (whole - cost) = c - b - lot.fee
          BY <1>1, <5>3, <5>4
        <5> QED  BY <5>2, <5>5 DEF b, c
      <4>2. Parts * ((sell.price - lot.price) * n - lot.fee) = d - pf
        BY <1>1, <1>2
      <4> DEFINE x == Parts * (sell.price * n - (whole - cost))
      <4>3. x = d - pf /\ pnl = d - FL - FS /\ FL >= pf
        BY <2>1, <2>2, <3>2, <4>1, <4>2
      <4> HIDE DEF x, d, pf, pnl, FL, FS
      <4>4. x - pnl >= FS
        BY <2>1, <3>1, <4>3
      <4> QED  BY <4>4 DEF x
    <3>3. CASE n # lot.amount
      <4>1. sell.price * n - (whole - cost) = (sell.price - lot.price) * n
        <5>1. cost = lot.price * (lot.amount - n) + lot.fee
          BY <3>3
        <5> HIDE DEF cost, n, whole
        <5>2. /\ lot.price * (lot.amount - n) = lot.price * lot.amount - lot.price * n
              /\ (sell.price - lot.price) * n = sell.price * n - lot.price * n
          BY <1>1, <1>2
        <5> DEFINE a == lot.price * lot.amount
                   b == lot.price * n
                   c == sell.price * n
        <5>3. a \in Int /\ b \in Int /\ c \in Int
          BY <1>1, <1>2
        <5>4. cost = a - b + lot.fee /\ whole = a + lot.fee
          BY <1>3, <5>1, <5>2
        <5> HIDE DEF a, b, c
        <5>5. c - (whole - cost) = c - b
          BY <1>1, <5>3, <5>4
        <5> QED  BY <5>2, <5>5 DEF b, c
      <4>2. Parts * ((sell.price - lot.price) * n) = d
        BY <1>1, <1>2
      <4> DEFINE x == Parts * (sell.price * n - (whole - cost))
      <4>3. x = d /\ pnl = d - FL - FS
        BY <2>2, <4>1, <4>2
      <4> HIDE DEF x, d, pf, pnl, FL, FS
      <4>4. x - pnl >= FS
        BY <2>1, <3>1, <4>3
      <4> QED  BY <4>4 DEF x
    <3> QED  BY <3>2, <3>3
  <2>11. sell.amount * (Parts * (sell.price * n - (whole - cost)) - pnl) >= Parts * sell.fee * n
    <3> DEFINE x == Parts * (sell.price * n - (whole - cost)) - pnl
               need == Parts * sell.fee * n
    <3>1. x \in Int /\ need \in Int
      <4> DEFINE y == sell.price * n - (whole - cost)
      <4> HIDE DEF whole, cost, pnl, n
      <4>1. y \in Int
        BY <1>1, <1>2, <1>3, <2>7
      <4> HIDE DEF y
      <4>2. Parts * y - pnl \in Int
        BY <1>1, <2>3, <4>1
      <4>3. Parts * sell.fee * n \in Int
        BY <1>1, <1>2
      <4> QED  BY <4>2, <4>3 DEF y
    <3> HIDE DEF x, need, FS
    <3>2. x >= FS /\ sell.amount * FS >= need
      BY <2>1, <2>10 DEF x, need
    <3>3. sell.amount * x >= sell.amount * FS
      <4> DEFINE d == x - FS
      <4>1. d \in Nat /\ x = FS + d
        BY <2>1, <3>1, <3>2
      <4> HIDE DEF d
      <4>2. sell.amount * (FS + d) = sell.amount * FS + sell.amount * d /\ sell.amount * d >= 0
        BY <1>1, <2>1, <4>1
      <4>3. sell.amount * FS \in Int /\ sell.amount * d \in Int
        BY <1>1, <2>1, <4>1
      <4> QED  BY <4>1, <4>2, <4>3
    <3>4. sell.amount * x \in Int /\ sell.amount * FS \in Int
      BY <1>1, <2>1, <3>1
    <3>5. sell.amount * x >= need
      BY <3>1, <3>2, <3>3, <3>4
    <3> QED  BY <3>5 DEF x, need
  <2> HIDE DEF whole, rem, n, cost, pnl
  <2>12. \E k \in Nat, c, profit \in Int :
           /\ k <= rem
           /\ after.remaining = rem - k
           /\ SharesIn(after.lots) = SharesIn(state.lots) + (lot.amount - k)
           /\ CostOf(after.lots) = CostOf(state.lots) + c
           /\ SharesPaired(after.paired) = SharesPaired(state.paired) + k
           /\ Profit(after.paired) = Profit(state.paired) + profit
           /\ sell.amount * (Parts * (sell.price * k - (whole - c)) - profit)
                 >= Parts * sell.fee * k
    BY <1>2, <2>3, <2>6, <2>7, <2>8, <2>11, Zenon
  <2> QED  BY <2>8, <2>9, <2>12, Zenon DEF whole, rem, Gave
<1> QED  BY <1>6, <1>7

FirstShares(lots, i) == SumFunction([j \in 1..i |-> lots[j].amount])
PaidForFirst(lots, i) == SumFunction([j \in 1..i |-> PaidFor(lots[j])])

\* What a sale has earned over what it took from the lots and what it was paired at.
Kept(sell, sold, paid, profit) == Parts * (sell.price * sold - paid) - profit

\* A sale after i lots: what they held is sold or still there, and what the pairs
\* do not show of the earnings covers the part of the fee.
SaleInv(state, lots, sell, paired, i) ==
    LET sold == sell.amount - state.remaining
    IN  /\ state \in Selleds
        /\ state.remaining <= sell.amount
        /\ state.remaining = 0 \/ state.lots = <<>>
        /\ SharesIn(state.lots) + sold = FirstShares(lots, i)
        /\ SharesPaired(state.paired) = SharesPaired(paired) + sold
        /\ sell.amount * Kept(sell, sold, PaidForFirst(lots, i) - CostOf(state.lots),
                              Profit(state.paired) - Profit(paired))
              >= Parts * sell.fee * sold

LEMMA SumsOfFirst ==
    ASSUME NEW lots \in Seq(Lots)
    PROVE  /\ FirstShares(lots, 0) = 0 /\ PaidForFirst(lots, 0) = 0
           /\ SharesIn(lots) = FirstShares(lots, Len(lots))
           /\ CostOf(lots) = PaidForFirst(lots, Len(lots))
           /\ \A i \in 0..(Len(lots) - 1) :
                 /\ FirstShares(lots, i) \in Int /\ PaidForFirst(lots, i) \in Int
                 /\ FirstShares(lots, i + 1) = FirstShares(lots, i) + lots[i + 1].amount
                 /\ PaidForFirst(lots, i + 1) = PaidForFirst(lots, i) + PaidFor(lots[i + 1])
<1>1. DOMAIN lots = 1..Len(lots) /\ Len(lots) \in Nat
  BY LenProperties
<1>2. \A i \in 1..Len(lots) : lots[i].amount \in Int /\ PaidFor(lots[i]) \in Int
  <2>1. \A lot \in Lots : lot.amount \in Int /\ PaidFor(lot) \in Int
    BY DEF Lots, PaidFor
  <2> QED  BY <1>1, <2>1
<1>3. FirstShares(lots, 0) = 0 /\ PaidForFirst(lots, 0) = 0
  BY SumOfNone DEF FirstShares, PaidForFirst
<1>4. SharesIn(lots) = FirstShares(lots, Len(lots)) /\ CostOf(lots) = PaidForFirst(lots, Len(lots))
  BY <1>1 DEF SharesIn, CostOf, FirstShares, PaidForFirst, PaidFor
<1>5. ASSUME NEW i \in 0..(Len(lots) - 1)
      PROVE  /\ FirstShares(lots, i) \in Int /\ PaidForFirst(lots, i) \in Int
             /\ FirstShares(lots, i + 1) = FirstShares(lots, i) + lots[i + 1].amount
             /\ PaidForFirst(lots, i + 1) = PaidForFirst(lots, i) + PaidFor(lots[i + 1])
  <2> DEFINE first == [j \in 1..i |-> j]
             f == [j \in 1..(i + 1) |-> lots[j].amount]
             g == [j \in 1..i |-> lots[j].amount]
             h == [j \in 1..(i + 1) |-> PaidFor(lots[j])]
             k == [j \in 1..i |-> PaidFor(lots[j])]
  <2>1. i \in Nat /\ i + 1 \in 1..Len(lots) /\ DOMAIN first = 1..i
        /\ \A j \in 1..(i + 1) : j \in 1..Len(lots)
    BY <1>1
  <2>2. SumFunction(g) \in Int /\ SumFunction(f) = SumFunction(g) + f[i + 1]
    <3>1. /\ f = [j \in 1..(i + 1) |-> f[j]] /\ g = [j \in 1..i |-> g[j]]
          /\ \A j \in 1..(i + 1) : f[j] \in Int
          /\ \A j \in 1..i : g[j] = f[j]
      BY <1>2, <2>1
    <3> HIDE DEF f, g, first
    <3> QED  BY <2>1, <3>1, TotalOfAppended
  <2>3. SumFunction(k) \in Int /\ SumFunction(h) = SumFunction(k) + h[i + 1]
    <3>1. /\ h = [j \in 1..(i + 1) |-> h[j]] /\ k = [j \in 1..i |-> k[j]]
          /\ \A j \in 1..(i + 1) : h[j] \in Int
          /\ \A j \in 1..i : k[j] = h[j]
      BY <1>2, <2>1
    <3> HIDE DEF h, k, first
    <3> QED  BY <2>1, <3>1, TotalOfAppended
  <2>4. f[i + 1] = lots[i + 1].amount /\ h[i + 1] = PaidFor(lots[i + 1])
    BY <2>1
  <2> HIDE DEF f, g, h, k
  <2> QED  BY <2>2, <2>3, <2>4 DEF f, g, h, k, FirstShares, PaidForFirst
<1> QED  BY <1>3, <1>4, <1>5

\* What two parts of a sale keep, they keep together.
LEMMA KeptTogether ==
    ASSUME NEW sell \in Trades,
           NEW a \in Int, NEW paid \in Int, NEW profit \in Int,
           NEW b \in Int, NEW paidMore \in Int, NEW profitMore \in Int,
           sell.amount * Kept(sell, a, paid, profit) >= Parts * sell.fee * a,
           sell.amount * Kept(sell, b, paidMore, profitMore) >= Parts * sell.fee * b
    PROVE  sell.amount * Kept(sell, a + b, paid + paidMore, profit + profitMore)
              >= Parts * sell.fee * (a + b)
<1> DEFINE A == sell.amount
           f == Parts * sell.fee
           x == Kept(sell, a, paid, profit)
           y == Kept(sell, b, paidMore, profitMore)
<1>1. /\ A \in Nat /\ sell.price \in Nat /\ sell.fee \in Nat /\ Parts \in Nat
  BY FifoAssumption DEF Trades
<1>2. f \in Nat
  BY <1>1
<1>3. x \in Int /\ y \in Int
  BY <1>1 DEF Kept
<1>4. Kept(sell, a + b, paid + paidMore, profit + profitMore) = x + y
  <2> DEFINE u == sell.price * a
             v == sell.price * b
  <2>1. u \in Int /\ v \in Int /\ sell.price * (a + b) = u + v
    BY <1>1
  <2> HIDE DEF u, v
  <2> DEFINE c == u - paid
             d == v - paidMore
  <2>2. c \in Int /\ d \in Int /\ (u + v) - (paid + paidMore) = c + d
    BY <2>1
  <2>3. x = Parts * c - profit /\ y = Parts * d - profitMore
    BY DEF Kept, u, v
  <2> HIDE DEF c, d
  <2>4. Parts * (c + d) = Parts * c + Parts * d /\ Parts * c \in Int /\ Parts * d \in Int
    BY <1>1, <2>2
  <2>5. Kept(sell, a + b, paid + paidMore, profit + profitMore)
           = Parts * (c + d) - (profit + profitMore)
    BY <2>1, <2>2 DEF Kept
  <2> HIDE DEF x, y
  <2> QED  BY <2>3, <2>4, <2>5
<1> HIDE DEF A, f, x, y
<1>5. A * (x + y) = A * x + A * y /\ f * (a + b) = f * a + f * b
  BY <1>1, <1>2, <1>3
<1>6. A * x \in Int /\ A * y \in Int /\ f * a \in Int /\ f * b \in Int
  BY <1>1, <1>2, <1>3
<1>7. A * x >= f * a /\ A * y >= f * b
  BY DEF A, f, x, y
<1>8. A * (x + y) >= f * (a + b)
  BY <1>5, <1>6, <1>7
<1> QED  BY <1>4, <1>8 DEF A, f

LEMMA SellingKeeps ==
    ASSUME NEW lots \in Seq(Lots), NEW sell \in Trades, NEW paired \in Seq(PairedSales)
    PROVE  SaleInv(Selling(lots, sell, paired)[Len(lots)], lots, sell, paired, Len(lots))
<1> DEFINE m == Len(lots)
           g == Selling(lots, sell, paired)
           T == {i \in Nat : i <= m => SaleInv(g[i], lots, sell, paired, i)}
<1>1. /\ m \in Nat /\ \A i \in 1..m : lots[i] \in Lots
      /\ sell.amount \in Nat \ {0} /\ sell.price \in Nat /\ sell.fee \in Nat
      /\ Parts \in Nat
  BY LenProperties, ElementOfSeq, FifoAssumption DEF Trades
<1>2. /\ g[0] = [remaining |-> sell.amount, lots |-> <<>>, paired |-> paired]
      /\ \A i \in 1..m : g[i] = TakeFromLot(g[i - 1], lots[i], sell)
  BY <1>1, SellingTurns
<1>3. /\ FirstShares(lots, 0) = 0 /\ PaidForFirst(lots, 0) = 0
      /\ \A i \in 0..(m - 1) :
            /\ FirstShares(lots, i) \in Int /\ PaidForFirst(lots, i) \in Int
            /\ FirstShares(lots, i + 1) = FirstShares(lots, i) + lots[i + 1].amount
            /\ PaidForFirst(lots, i + 1) = PaidForFirst(lots, i) + PaidFor(lots[i + 1])
  BY SumsOfFirst
<1>4. /\ \A list \in Seq(Lots) : SharesIn(list) \in Int /\ CostOf(list) \in Int
      /\ \A list \in Seq(PairedSales) : SharesPaired(list) \in Int /\ Profit(list) \in Int
  <2>1. [price |-> 0, amount |-> 1, fee |-> 0] \in Lots /\ [amount |-> 0, pnl |-> 0] \in PairedSales
    BY DEF Lots, PairedSales
  <2> QED  BY <2>1, LotsAppended, PairsAppended
<1>5. SharesIn(<<>>) = 0 /\ CostOf(<<>>) = 0 /\ <<>> \in Seq(Lots)
  <2>1. DOMAIN <<>> = {} /\ <<>> \in Seq(Lots)
    OBVIOUS
  <2> QED  BY <2>1, SumOfNone DEF SharesIn, CostOf
<1> HIDE DEF g, m
<1>6. 0 \in T
  <2> DEFINE start == g[0]
  <2>1. /\ start \in Selleds /\ start.remaining = sell.amount /\ start.lots = <<>>
        /\ start.paired = paired
    BY <1>1, <1>2, <1>5 DEF Selleds
  <2> HIDE DEF start
  <2>2. /\ sell.amount - start.remaining = 0
        /\ SharesPaired(paired) \in Int /\ Profit(paired) - Profit(paired) = 0
    BY <1>1, <1>4, <2>1
  <2>3. Kept(sell, 0, 0 - 0, 0) = 0
    BY <1>1 DEF Kept
  <2>4. sell.amount * 0 >= Parts * sell.fee * 0
    BY <1>1
  <2>5. SaleInv(start, lots, sell, paired, 0)
    BY <1>1, <1>3, <1>5, <2>1, <2>2, <2>3, <2>4 DEF SaleInv
  <2> QED  BY <2>5 DEF start
<1>7. ASSUME NEW i \in T
      PROVE  i + 1 \in T
  <2> SUFFICES ASSUME i + 1 <= m
               PROVE  SaleInv(g[i + 1], lots, sell, paired, i + 1)
    OBVIOUS
  <2> DEFINE state == g[i]
             after == g[i + 1]
             lot == lots[i + 1]
             u == sell.amount - state.remaining
  <2>1. i \in 0..(m - 1) /\ i + 1 \in 1..m /\ (i + 1) - 1 = i
    BY <1>1
  <2>2. SaleInv(state, lots, sell, paired, i)
    BY <1>1, <2>1
  <2>3. after = TakeFromLot(state, lot, sell) /\ lot \in Lots
    BY <1>1, <1>2, <2>1
  <2>4. /\ FirstShares(lots, i) \in Int /\ PaidForFirst(lots, i) \in Int
        /\ FirstShares(lots, i + 1) = FirstShares(lots, i) + lot.amount
        /\ PaidForFirst(lots, i + 1) = PaidForFirst(lots, i) + PaidFor(lot)
    BY <1>3, <2>1
  <2> HIDE DEF state, after, lot
  <2>5. /\ state \in Selleds /\ state.remaining <= sell.amount
        /\ state.remaining = 0 \/ state.lots = <<>>
        /\ SharesIn(state.lots) + u = FirstShares(lots, i)
        /\ SharesPaired(state.paired) = SharesPaired(paired) + u
        /\ sell.amount * Kept(sell, u, PaidForFirst(lots, i) - CostOf(state.lots),
                              Profit(state.paired) - Profit(paired))
              >= Parts * sell.fee * u
    BY <2>2 DEF SaleInv
  <2>6. /\ after \in Selleds
        /\ after.remaining = 0 \/ after.lots = <<>>
        /\ Gave(state, lot, sell, after)
    <3>1. state \in Selleds /\ (state.remaining = 0 \/ state.lots = <<>>)
      BY <2>5
    <3> QED  BY <2>3, <3>1, LotTaken, Zenon
  <2>7. PICK n \in Nat, cost \in Int, profit \in Int :
              /\ n <= state.remaining
              /\ after.remaining = state.remaining - n
              /\ SharesIn(after.lots) = SharesIn(state.lots) + (lot.amount - n)
              /\ CostOf(after.lots) = CostOf(state.lots) + cost
              /\ SharesPaired(after.paired) = SharesPaired(state.paired) + n
              /\ Profit(after.paired) = Profit(state.paired) + profit
              /\ sell.amount * (Parts * (sell.price * n - (PaidFor(lot) - cost)) - profit)
                    >= Parts * sell.fee * n
    BY <2>6 DEF Gave
  <2>8. /\ state.remaining \in Nat /\ lot.amount \in Nat /\ PaidFor(lot) \in Int
        /\ SharesIn(state.lots) \in Int /\ CostOf(state.lots) \in Int
        /\ SharesPaired(state.paired) \in Int /\ Profit(state.paired) \in Int
        /\ SharesPaired(paired) \in Int /\ Profit(paired) \in Int
    <3>1. /\ state.remaining \in Nat
          /\ state.lots \in Seq(Lots) /\ state.paired \in Seq(PairedSales)
      BY <2>5 DEF Selleds
    <3>2. lot.amount \in Nat /\ PaidFor(lot) \in Int
      BY <2>3 DEF Lots, PaidFor
    <3> QED  BY <1>4, <3>1, <3>2
  <2> DEFINE rem == state.remaining
             held == SharesIn(state.lots)
  <2>20. /\ n \in Nat /\ n <= rem /\ after.remaining = rem - n /\ rem \in Nat
         /\ SharesIn(after.lots) = held + (lot.amount - n) /\ held \in Int
         /\ CostOf(after.lots) = CostOf(state.lots) + cost
         /\ SharesPaired(after.paired) = SharesPaired(state.paired) + n
         /\ Profit(after.paired) = Profit(state.paired) + profit
         /\ rem <= sell.amount /\ held + u = FirstShares(lots, i)
         /\ SharesPaired(state.paired) = SharesPaired(paired) + u
         /\ u = sell.amount - rem
    BY <2>5, <2>7, <2>8
  <2> HIDE DEF rem, held, u
  <2>9. /\ sell.amount - after.remaining = u + n
        /\ after.remaining <= sell.amount
        /\ u \in Int
    BY <1>1, <2>20
  <2>10. SharesIn(after.lots) + (u + n) = FirstShares(lots, i + 1)
    <3> DEFINE x == FirstShares(lots, i)
               l == lot.amount
    <3>1. FirstShares(lots, i + 1) = x + l /\ x \in Int /\ l \in Nat
      BY <2>4, <2>8
    <3>2. SharesIn(after.lots) = held + (l - n) /\ held + u = x /\ held \in Int
      BY <2>20
    <3> HIDE DEF x, l
    <3> QED  BY <2>9, <3>1, <3>2
  <2>11. SharesPaired(after.paired) = SharesPaired(paired) + (u + n)
    BY <2>8, <2>9, <2>20
  <2> DEFINE paid == PaidForFirst(lots, i) - CostOf(state.lots)
             gain == Profit(state.paired) - Profit(paired)
             more == PaidFor(lot) - cost
  <2>12. /\ paid \in Int /\ gain \in Int /\ more \in Int
         /\ PaidForFirst(lots, i + 1) - CostOf(after.lots) = paid + more
         /\ Profit(after.paired) - Profit(paired) = gain + profit
    <3> DEFINE x == PaidForFirst(lots, i)
               y == CostOf(state.lots)
               z == PaidFor(lot)
               v == Profit(state.paired)
               w == Profit(paired)
    <3>1. /\ PaidForFirst(lots, i + 1) = x + z /\ CostOf(after.lots) = y + cost
          /\ Profit(after.paired) = v + profit
      BY <2>4, <2>20
    <3>2. x \in Int /\ y \in Int /\ z \in Int /\ v \in Int /\ w \in Int
      BY <2>4, <2>8
    <3> HIDE DEF x, y, z, v, w
    <3>3. /\ x - y \in Int /\ v - w \in Int /\ z - cost \in Int
          /\ (x + z) - (y + cost) = (x - y) + (z - cost)
          /\ (v + profit) - w = (v - w) + profit
      BY <3>2
    <3> QED  BY <3>1, <3>3 DEF x, y, z, v, w
  <2>13. sell.amount * Kept(sell, n, more, profit) >= Parts * sell.fee * n
    BY <2>7 DEF Kept
  <2>14. sell.amount * Kept(sell, u, paid, gain) >= Parts * sell.fee * u
    BY <2>5 DEF u
  <2> HIDE DEF paid, gain, more
  <2>15. sell.amount * Kept(sell, u + n, paid + more, gain + profit) >= Parts * sell.fee * (u + n)
    BY <2>9, <2>12, <2>13, <2>14, KeptTogether
  <2>16. SaleInv(after, lots, sell, paired, i + 1)
    BY <2>6, <2>9, <2>10, <2>11, <2>12, <2>15 DEF SaleInv
  <2> QED  BY <2>16 DEF after
<1>8. T = Nat
  <2>1. T \subseteq Nat
    OBVIOUS
  <2> HIDE DEF T
  <2> QED  BY <1>6, <1>7, <2>1, SetInduction
<1> QED  BY <1>1, <1>8 DEF m, g

\* A sale of no more than the lots hold takes all its shares from them, and its
\* pairs leave at least its fee of what it earned.
LEMMA SaleIsPaired ==
    ASSUME NEW lots \in Seq(Lots), NEW sell \in Trades, NEW paired \in Seq(PairedSales),
           sell.amount <= SharesIn(lots),
           NEW after, after = Selling(lots, sell, paired)[Len(lots)]
    PROVE  /\ after.lots \in Seq(Lots) /\ after.paired \in Seq(PairedSales)
           /\ SharesIn(after.lots) = SharesIn(lots) - sell.amount
           /\ SharesPaired(after.paired) = SharesPaired(paired) + sell.amount
           /\ Profit(after.paired) - Profit(paired)
                 <= Parts * (sell.price * sell.amount - sell.fee
                                + CostOf(after.lots) - CostOf(lots))
<1> DEFINE u == sell.amount - after.remaining
           paid == CostOf(lots) - CostOf(after.lots)
           gain == Profit(after.paired) - Profit(paired)
<1>1. /\ sell.amount \in Nat \ {0} /\ sell.price \in Nat /\ sell.fee \in Nat
      /\ Parts \in Nat
  BY FifoAssumption DEF Trades
<1>2. /\ \A list \in Seq(Lots) : SharesIn(list) \in Int /\ CostOf(list) \in Int
      /\ \A list \in Seq(PairedSales) : SharesPaired(list) \in Int /\ Profit(list) \in Int
  <2>1. [price |-> 0, amount |-> 1, fee |-> 0] \in Lots /\ [amount |-> 0, pnl |-> 0] \in PairedSales
    BY DEF Lots, PairedSales
  <2> QED  BY <2>1, LotsAppended, PairsAppended
<1>3. SharesIn(<<>>) = 0
  BY SumOfNone DEF SharesIn
<1>4. SaleInv(after, lots, sell, paired, Len(lots))
  BY SellingKeeps
<1>5. /\ after \in Selleds /\ after.remaining <= sell.amount
      /\ after.remaining = 0 \/ after.lots = <<>>
      /\ SharesIn(after.lots) + u = SharesIn(lots)
      /\ SharesPaired(after.paired) = SharesPaired(paired) + u
      /\ sell.amount * Kept(sell, u, paid, gain) >= Parts * sell.fee * u
  BY <1>4, SumsOfFirst DEF SaleInv
<1>6. /\ after.remaining \in Nat /\ after.lots \in Seq(Lots) /\ after.paired \in Seq(PairedSales)
      /\ SharesIn(after.lots) \in Int /\ SharesIn(lots) \in Int
      /\ paid \in Int /\ gain \in Int
      /\ CostOf(lots) \in Int /\ CostOf(after.lots) \in Int
  <2>1. /\ after.remaining \in Nat
        /\ after.lots \in Seq(Lots) /\ after.paired \in Seq(PairedSales)
    BY <1>5 DEF Selleds
  <2>2. /\ SharesIn(after.lots) \in Int /\ SharesIn(lots) \in Int
        /\ CostOf(lots) \in Int /\ CostOf(after.lots) \in Int
        /\ Profit(after.paired) \in Int /\ Profit(paired) \in Int
    BY <1>2, <2>1
  <2> QED  BY <2>1, <2>2
<1>7. after.remaining = 0
  BY <1>1, <1>3, <1>5, <1>6
<1>8. u = sell.amount
  BY <1>1, <1>7
<1>9. SharesIn(after.lots) = SharesIn(lots) - sell.amount
  BY <1>1, <1>5, <1>6, <1>8
<1>10. gain <= Parts * (sell.price * sell.amount - sell.fee + CostOf(after.lots) - CostOf(lots))
  <2> DEFINE A == sell.amount
             f == Parts * sell.fee
             e == sell.price * A
             k == Kept(sell, A, paid, gain)
  <2>1. f \in Int /\ e \in Int /\ A \in Nat \ {0}
    BY <1>1
  <2>2. k = Parts * (e - paid) - gain
    BY DEF Kept
  <2>3. A * k >= f * A
    BY <1>5, <1>8
  <2> HIDE DEF e
  <2>4. k \in Int
    <3> HIDE DEF k, paid, gain
    <3>1. Parts * (e - paid) \in Int
      BY <1>1, <1>6, <2>1
    <3> QED  BY <1>6, <2>2, <3>1
  <2> HIDE DEF A, f, k
  <2>5. k >= f
    <3> SUFFICES ASSUME k < f
                 PROVE  FALSE
      BY <2>1, <2>4
    <3>1. f - k \in Nat \ {0}
      BY <2>1, <2>4
    <3> DEFINE d == f - k
    <3>2. d \in Nat \ {0} /\ f = k + d
      BY <2>1, <2>4, <3>1
    <3> HIDE DEF d
    <3>3. (k + d) * A = A * k + A * d /\ A * d > 0
      BY <2>1, <2>4, <3>2
    <3>4. A * k \in Int /\ A * d \in Int
      BY <2>1, <2>4, <3>2
    <3> QED  BY <2>3, <3>2, <3>3, <3>4
  <2>6. Parts * (e - sell.fee - paid) = Parts * (e - paid) - f
    <3> DEFINE c == e - paid
    <3>1. c \in Int /\ e - sell.fee - paid = c - sell.fee
      BY <1>1, <1>6, <2>1
    <3> HIDE DEF c
    <3>2. Parts * (c - sell.fee) = Parts * c - Parts * sell.fee
      BY <1>1, <3>1
    <3> QED  BY <3>1, <3>2 DEF c, f
  <2>7. e - sell.fee + CostOf(after.lots) - CostOf(lots) = e - sell.fee - paid
    BY <1>1, <1>6, <2>1
  <2>8. gain <= Parts * (e - paid) - f
    <3> DEFINE w == Parts * (e - paid)
    <3>1. w \in Int
      BY <1>1, <1>6, <2>1
    <3>2. k = w - gain
      BY <2>2
    <3> HIDE DEF w, gain
    <3>3. gain <= w - f
      BY <1>6, <2>1, <2>4, <2>5, <3>1, <3>2
    <3> QED  BY <3>3 DEF w
  <2> HIDE DEF paid, gain
  <2>9. gain <= Parts * (e - sell.fee + CostOf(after.lots) - CostOf(lots))
    BY <2>6, <2>7, <2>8
  <2> QED  BY <2>9 DEF e, A
<1> QED  BY <1>5, <1>6, <1>8, <1>9, <1>10

-----------------------------------------------------------------------------
(* All the trades *)

Stats == [pending_buys : [Symbols -> Seq(Lots)], paired : Seq(PairedSales)]

SoldShares(list) ==
    SumFunction([i \in DOMAIN list |-> IF list[i].order_type = "Sell"
                                       THEN list[i].amount ELSE 0])

PaidForAll(lots) == SumFunction([s \in Symbols |-> CostOf(lots[s])])

\* The statistics of a list of trades agree with an account that it led to.
Agrees(stats, list, held, money) ==
    /\ stats \in Stats
    /\ \A s \in Symbols : SharesIn(stats.pending_buys[s]) = held[s]
    /\ SharesPaired(stats.paired) = SoldShares(list)
    /\ Profit(stats.paired) <= Parts * (money - InitialCash + PaidForAll(stats.pending_buys))

FifoInv == Agrees(PairedUp(trades), trades, positions, cash)

LEMMA SoldOfAppended ==
    ASSUME NEW list \in Seq(Trades), NEW t \in Trades
    PROVE  /\ SoldShares(list) \in Int
           /\ SoldShares(Append(list, t))
                 = SoldShares(list) + (IF t.order_type = "Sell" THEN t.amount ELSE 0)
<1> DEFINE n == Len(list)
           more == Append(list, t)
           Sells(trade) == IF trade.order_type = "Sell" THEN trade.amount ELSE 0
           f == [i \in DOMAIN more |-> Sells(more[i])]
           g == [i \in DOMAIN list |-> Sells(list[i])]
<1>1. n \in Nat /\ DOMAIN list = 1..n
  BY LenProperties
<1>2. /\ more \in Seq(Trades)
      /\ DOMAIN more = 1..(n + 1)
      /\ more[n + 1] = t
      /\ \A i \in 1..n : more[i] = list[i]
  BY AppendProperties
<1>3. \A trade \in Trades : Sells(trade) \in Int
  BY DEF Trades
<1>4. \A i \in 1..(n + 1) : more[i] \in Trades
  BY <1>2
<1>5. SoldShares(list) = SumFunction(g) /\ SoldShares(more) = SumFunction(f)
  BY DEF SoldShares
<1> HIDE DEF more, n, Sells
<1>6. f[n + 1] = Sells(t)
  BY <1>1, <1>2
<1>7. /\ f = [i \in 1..(n + 1) |-> f[i]] /\ g = [i \in 1..n |-> g[i]]
      /\ \A i \in 1..(n + 1) : f[i] \in Int
      /\ \A i \in 1..n : g[i] = f[i]
  BY <1>1, <1>2, <1>3, <1>4
<1> HIDE DEF f, g
<1>8. SumFunction(g) \in Int /\ SumFunction(f) = SumFunction(g) + f[n + 1]
  BY <1>1, <1>7, TotalOfAppended
<1> QED  BY <1>5, <1>6, <1>8 DEF more, Sells

\* What the lots of every symbol cost, when those of one symbol change.
LEMMA PaidForAllWith ==
    ASSUME NEW lots \in [Symbols -> Seq(Lots)], NEW s \in Symbols, NEW new \in Seq(Lots)
    PROVE  /\ PaidForAll(lots) \in Int
           /\ PaidForAll([lots EXCEPT ![s] = new]) = PaidForAll(lots) - CostOf(lots[s]) + CostOf(new)
<1> DEFINE with == [lots EXCEPT ![s] = new]
           f == [x \in Symbols |-> CostOf(lots[x])]
           g == [x \in Symbols |-> CostOf(with[x])]
           others == [x \in Symbols \ {s} |-> f[x]]
<1>1. \A list \in Seq(Lots) : CostOf(list) \in Int
  <2>1. [price |-> 0, amount |-> 1, fee |-> 0] \in Lots
    BY DEF Lots
  <2> QED  BY <2>1, LotsAppended
<1>2. with \in [Symbols -> Seq(Lots)] /\ with[s] = new /\ \A x \in Symbols \ {s} : with[x] = lots[x]
  OBVIOUS
<1>3. IsFiniteSet(Symbols) /\ IsFiniteSet(Symbols \ {s})
  BY FifoAssumption, FS_RemoveElement
<1>4. PaidForAll(lots) = SumFunction(f) /\ PaidForAll(with) = SumFunction(g)
  BY DEF PaidForAll
<1> HIDE DEF with
<1>5. /\ f[s] = CostOf(lots[s]) /\ g[s] = CostOf(new)
      /\ f[s] \in Int /\ g[s] \in Int
      /\ others = [x \in Symbols \ {s} |-> g[x]]
      /\ DOMAIN f = Symbols /\ DOMAIN g = Symbols /\ DOMAIN others = Symbols \ {s}
      /\ \A x \in Symbols : f[x] \in Int /\ g[x] \in Int
      /\ \A x \in Symbols \ {s} : others[x] \in Int
  BY <1>1, <1>2
<1>6. others = [x \in DOMAIN f \ {s} |-> f[x]] /\ others = [x \in DOMAIN g \ {s} |-> g[x]]
  BY <1>5
<1> HIDE DEF f, g, others
<1>7. SumFunction(f) = f[s] + SumFunction(others)
  <2>1. IsFiniteSet(DOMAIN f) /\ s \in DOMAIN f /\ \A x \in DOMAIN f : f[x] \in Int
    BY <1>3, <1>5
  <2>2. SumFunction(f) = f[s] + SumFunction([x \in DOMAIN f \ {s} |-> f[x]])
    BY <2>1, SumWithout
  <2> QED  BY <1>6, <2>2, Zenon
<1>8. SumFunction(g) = g[s] + SumFunction(others)
  <2>1. IsFiniteSet(DOMAIN g) /\ s \in DOMAIN g /\ \A x \in DOMAIN g : g[x] \in Int
    BY <1>3, <1>5
  <2>2. SumFunction(g) = g[s] + SumFunction([x \in DOMAIN g \ {s} |-> g[x]])
    BY <2>1, SumWithout
  <2> QED  BY <1>6, <2>2, Zenon
<1>9. SumFunction(others) \in Int
  BY <1>3, <1>5, SumIsInteger
<1>10. /\ PaidForAll(lots) \in Int
       /\ PaidForAll(with) = PaidForAll(lots) - CostOf(lots[s]) + CostOf(new)
  BY <1>4, <1>5, <1>7, <1>8, <1>9
<1> QED  BY <1>10 DEF with

\* A buy is a new lot of its symbol.
LEMMA BuyAgrees ==
    ASSUME NEW stats, NEW list \in Seq(Trades), NEW held \in [Symbols -> Int],
           NEW money \in Int, NEW trade \in Trades,
           Agrees(stats, list, held, money), trade.order_type = "Buy"
    PROVE  Agrees(PairTrade(stats, trade), Append(list, trade),
                  [held EXCEPT ![trade.symbol] = @ + trade.amount],
                  money - (trade.price * trade.amount + trade.fee))
<1> DEFINE s == trade.symbol
           lots == stats.pending_buys[s]
           lot == NewLot(trade)
           after == PairTrade(stats, trade)
           all == [stats.pending_buys EXCEPT ![s] = Append(lots, lot)]
           paid == trade.price * trade.amount + trade.fee
<1>1. /\ stats \in Stats
      /\ \A x \in Symbols : SharesIn(stats.pending_buys[x]) = held[x]
      /\ SharesPaired(stats.paired) = SoldShares(list)
      /\ Profit(stats.paired) <= Parts * (money - InitialCash + PaidForAll(stats.pending_buys))
  BY DEF Agrees
<1>2. s \in Symbols /\ lot \in Lots /\ lot.amount = trade.amount /\ PaidFor(lot) = paid
      /\ paid \in Int /\ trade.amount \in Int
  BY DEF Trades, NewLot, Lots, PaidFor
<1>3. /\ stats.pending_buys \in [Symbols -> Seq(Lots)] /\ lots \in Seq(Lots)
      /\ stats.paired \in Seq(PairedSales)
  BY <1>1, <1>2 DEF Stats
<1>4. /\ after = [stats EXCEPT !.pending_buys[s] = Append(lots, lot)]
      /\ after.pending_buys = all /\ after.paired = stats.paired
  BY <1>1 DEF PairTrade, Stats
<1> HIDE DEF s, lot, paid
<1>5. /\ Append(lots, lot) \in Seq(Lots)
      /\ SharesIn(lots) \in Int /\ CostOf(lots) \in Int
      /\ SharesIn(Append(lots, lot)) = SharesIn(lots) + trade.amount
      /\ CostOf(Append(lots, lot)) = CostOf(lots) + paid
  BY <1>2, <1>3, LotsAppended DEF PaidFor
<1>6. after \in Stats
  BY <1>1, <1>2, <1>4, <1>5 DEF Stats
<1>7. ASSUME NEW x \in Symbols
      PROVE  SharesIn(after.pending_buys[x]) = [held EXCEPT ![s] = @ + trade.amount][x]
  BY <1>1, <1>2, <1>3, <1>4, <1>5
<1>8. SharesPaired(after.paired) = SoldShares(Append(list, trade))
  <2>1. SoldShares(list) \in Int /\ SoldShares(Append(list, trade)) = SoldShares(list) + 0
    BY SoldOfAppended
  <2> QED  BY <1>1, <1>4, <2>1
<1>9. PaidForAll(after.pending_buys) = PaidForAll(stats.pending_buys) + paid
      /\ PaidForAll(stats.pending_buys) \in Int
  <2> DEFINE new == Append(lots, lot)
  <2> HIDE DEF lots, new
  <2>1. /\ PaidForAll(stats.pending_buys) \in Int
        /\ PaidForAll([stats.pending_buys EXCEPT ![s] = new])
              = PaidForAll(stats.pending_buys) - CostOf(lots) + CostOf(new)
    BY <1>2, <1>3, <1>5, PaidForAllWith DEF lots, new
  <2>2. CostOf(new) = CostOf(lots) + paid /\ CostOf(lots) \in Int
    BY <1>5 DEF new
  <2>3. after.pending_buys = [stats.pending_buys EXCEPT ![s] = new]
    BY <1>4 DEF new, lots
  <2> QED  BY <1>2, <2>1, <2>2, <2>3
<1>10. money - paid - InitialCash + PaidForAll(after.pending_buys)
         = money - InitialCash + PaidForAll(stats.pending_buys)
  BY <1>2, <1>9, BrokerAssumption
<1> HIDE DEF after
<1>11. Profit(after.paired) <= Parts * (money - paid - InitialCash + PaidForAll(after.pending_buys))
  BY <1>1, <1>4, <1>10
<1> QED  BY <1>6, <1>7, <1>8, <1>11 DEF Agrees, after, s, paid

\* A sale of shares that are held is paired with the lots they were bought in.
LEMMA SellAgrees ==
    ASSUME NEW stats, NEW list \in Seq(Trades), NEW held \in [Symbols -> Int],
           NEW money \in Int, NEW trade \in Trades,
           Agrees(stats, list, held, money), trade.order_type = "Sell",
           trade.amount <= held[trade.symbol]
    PROVE  Agrees(PairTrade(stats, trade), Append(list, trade),
                  [held EXCEPT ![trade.symbol] = @ - trade.amount],
                  money + (trade.price * trade.amount - trade.fee))
<1> DEFINE s == trade.symbol
           lots == stats.pending_buys[s]
           sold == Selling(lots, trade, stats.paired)[Len(lots)]
           after == PairTrade(stats, trade)
           all == [stats.pending_buys EXCEPT ![s] = sold.lots]
           got == trade.price * trade.amount - trade.fee
<1>1. /\ stats \in Stats
      /\ \A x \in Symbols : SharesIn(stats.pending_buys[x]) = held[x]
      /\ SharesPaired(stats.paired) = SoldShares(list)
      /\ Profit(stats.paired) <= Parts * (money - InitialCash + PaidForAll(stats.pending_buys))
  BY DEF Agrees
<1>2. s \in Symbols /\ got \in Int /\ trade.amount \in Int
  BY DEF Trades
<1>3. /\ stats.pending_buys \in [Symbols -> Seq(Lots)] /\ lots \in Seq(Lots)
      /\ stats.paired \in Seq(PairedSales)
  BY <1>1, <1>2 DEF Stats
<1>4. /\ after = [stats EXCEPT !.pending_buys[s] = sold.lots, !.paired = sold.paired]
      /\ after.pending_buys = all /\ after.paired = sold.paired
  BY <1>1 DEF PairTrade, Stats
<1>5. trade.amount <= SharesIn(lots) /\ SharesIn(lots) = held[s]
  BY <1>1, <1>2
<1> HIDE DEF lots, sold
<1>6. /\ sold.lots \in Seq(Lots) /\ sold.paired \in Seq(PairedSales)
      /\ SharesIn(sold.lots) = SharesIn(lots) - trade.amount
      /\ SharesPaired(sold.paired) = SharesPaired(stats.paired) + trade.amount
      /\ Profit(sold.paired) - Profit(stats.paired)
            <= Parts * (got + CostOf(sold.lots) - CostOf(lots))
  BY <1>3, <1>5, SaleIsPaired DEF sold
<1> HIDE DEF s, got
<1>7. after \in Stats
  BY <1>1, <1>2, <1>4, <1>6 DEF Stats
<1>8. ASSUME NEW x \in Symbols
      PROVE  SharesIn(after.pending_buys[x]) = [held EXCEPT ![s] = @ - trade.amount][x]
  BY <1>1, <1>2, <1>3, <1>4, <1>5, <1>6
<1>9. SharesPaired(after.paired) = SoldShares(Append(list, trade))
  <2>1. SoldShares(Append(list, trade)) = SoldShares(list) + trade.amount
    BY SoldOfAppended
  <2> QED  BY <1>1, <1>4, <1>6, <2>1
<1>10. /\ CostOf(lots) \in Int /\ CostOf(sold.lots) \in Int
       /\ Profit(sold.paired) \in Int /\ Profit(stats.paired) \in Int
  <2>1. [price |-> 0, amount |-> 1, fee |-> 0] \in Lots /\ [amount |-> 0, pnl |-> 0] \in PairedSales
    BY DEF Lots, PairedSales
  <2> QED  BY <1>3, <1>6, <2>1, LotsAppended, PairsAppended
<1>11. /\ PaidForAll(stats.pending_buys) \in Int
       /\ PaidForAll(after.pending_buys)
             = PaidForAll(stats.pending_buys) - CostOf(lots) + CostOf(sold.lots)
  <2> DEFINE new == sold.lots
             were == stats.pending_buys
  <2>1. were \in [Symbols -> Seq(Lots)] /\ s \in Symbols /\ new \in Seq(Lots)
    BY <1>2, <1>3, <1>6
  <2>2. after.pending_buys = [were EXCEPT ![s] = new] /\ lots = were[s]
    BY <1>4 DEF lots
  <2> HIDE DEF new, were, after
  <2>3. /\ PaidForAll(were) \in Int
        /\ PaidForAll([were EXCEPT ![s] = new])
              = PaidForAll(were) - CostOf(were[s]) + CostOf(new)
    BY <2>1, PaidForAllWith
  <2>4. /\ PaidForAll(were) \in Int
        /\ PaidForAll(after.pending_buys) = PaidForAll(were) - CostOf(lots) + CostOf(new)
    BY <2>2, <2>3
  <2> QED  BY <2>4 DEF were, new
<1>12. Profit(after.paired)
          <= Parts * ((money + got) - InitialCash + PaidForAll(after.pending_buys))
  <2> DEFINE before == money - InitialCash + PaidForAll(stats.pending_buys)
             more == got + CostOf(sold.lots) - CostOf(lots)
  <2>1. before \in Int /\ more \in Int /\ Parts \in Nat
    BY <1>2, <1>10, <1>11, BrokerAssumption, FifoAssumption
  <2>2. (money + got) - InitialCash + PaidForAll(after.pending_buys) = before + more
    BY <1>2, <1>10, <1>11, BrokerAssumption
  <2>3. Profit(stats.paired) <= Parts * before /\ Profit(sold.paired) - Profit(stats.paired) <= Parts * more
    BY <1>1, <1>6
  <2> HIDE DEF before, more
  <2>4. Parts * (before + more) = Parts * before + Parts * more
        /\ Parts * before \in Int /\ Parts * more \in Int
    BY <2>1
  <2>5. Profit(sold.paired) <= Parts * (before + more)
    BY <1>10, <2>3, <2>4
  <2> QED  BY <1>4, <2>2, <2>5
<1> HIDE DEF after
<1>13. Agrees(after, Append(list, trade), [held EXCEPT ![s] = @ - trade.amount], money + got)
  <2> DEFINE left == [held EXCEPT ![s] = @ - trade.amount]
             longer == Append(list, trade)
             owned == money + got
  <2>1. \A x \in Symbols : SharesIn(after.pending_buys[x]) = left[x]
    BY <1>8, Zenon
  <2>2. SharesPaired(after.paired) = SoldShares(longer)
    BY <1>9
  <2>3. Profit(after.paired) <= Parts * (owned - InitialCash + PaidForAll(after.pending_buys))
    BY <1>12, Zenon
  <2> HIDE DEF left, longer, owned
  <2>4. Agrees(after, longer, left, owned)
    BY <1>7, <2>1, <2>2, <2>3 DEF Agrees
  <2> QED  BY <2>4 DEF left, longer, owned
<1> QED  BY <1>13 DEF after, s, got

\* A fill records one trade, which pays or brings what the cash changes by.
LEMMA FillIsListed ==
    ASSUME AccountTypeOK, pending_orders # <<>>, Bar # NoBar,
           NEW fee \in Nat, Traded(fee)
    PROVE  \E trade \in Trades :
              /\ trades' = Append(trades, trade)
              /\ trade.symbol = Order.symbol /\ trade.order_type = Order.order_type
              /\ trade.amount = Order.amount /\ trade.fee = fee
              /\ trade.price * trade.amount = Cost
<1> DEFINE trade == [symbol |-> Order.symbol, amount |-> Order.amount,
                     order_type |-> Order.order_type, price |-> Price,
                     fee |-> fee, day |-> day]
<1>1. Order \in Orders
  BY HeadOfOrders
<1>2. Price \in Nat /\ Cost = Price * Order.amount
  BY CostOfOrder
<1>3. day \in Nat
  BY BrokerAssumption DEF AccountTypeOK
<1>4. trade \in Trades
  BY <1>1, <1>2, <1>3 DEF Orders, Trades
<1>5. /\ trade.symbol = Order.symbol /\ trade.order_type = Order.order_type
      /\ trade.amount = Order.amount /\ trade.fee = fee /\ trade.price = Price
  OBVIOUS
<1>6. trades' = Append(trades, trade)
  BY DEF Traded
<1> HIDE DEF trade
<1>7. trade.price * trade.amount = Cost
  BY <1>2, <1>5
<1> QED  BY <1>4, <1>5, <1>6, <1>7, Zenon

LEMMA FillBuyKeepsFifo ==
    ASSUME AccountInv, FifoInv, FillBuy
    PROVE  FifoInv'
<1>1. /\ pending_orders # <<>> /\ Bar # NoBar /\ AccountTypeOK
      /\ Order.order_type = "Buy" /\ Traded(BuyFees(Cost))
      /\ cash' = cash - (Cost + BuyFees(Cost))
      /\ positions' = [positions EXCEPT ![Order.symbol] = @ + Order.amount]
  BY DEF FillBuy, Fillable, TakeOrder, AccountInv
<1>2. BuyFees(Cost) \in Nat
  BY <1>1, CostOfOrder
<1>3. PICK trade \in Trades :
         /\ trades' = Append(trades, trade)
         /\ trade.symbol = Order.symbol /\ trade.order_type = Order.order_type
         /\ trade.amount = Order.amount /\ trade.fee = BuyFees(Cost)
         /\ trade.price * trade.amount = Cost
  BY <1>1, <1>2, FillIsListed
<1>4. trades \in Seq(Trades) /\ positions \in [Symbols -> Int] /\ cash \in Int
  BY <1>1 DEF AccountTypeOK
<1>5. /\ positions' = [positions EXCEPT ![trade.symbol] = @ + trade.amount]
      /\ cash' = cash - (trade.price * trade.amount + trade.fee)
      /\ trade.order_type = "Buy"
  BY <1>1, <1>3
<1>6. PairedUp(trades') = PairTrade(PairedUp(trades), trade)
  BY <1>3, <1>4, PairingOfAppended
<1>7. Agrees(PairTrade(PairedUp(trades), trade), Append(trades, trade),
             [positions EXCEPT ![trade.symbol] = @ + trade.amount],
             cash - (trade.price * trade.amount + trade.fee))
  BY <1>4, <1>5, BuyAgrees DEF FifoInv
<1>8. Agrees(PairedUp(trades'), trades', positions', cash')
  BY <1>3, <1>5, <1>6, <1>7
<1> QED  BY <1>8 DEF FifoInv

LEMMA FillSellKeepsFifo ==
    ASSUME AccountInv, FifoInv, FillSell
    PROVE  FifoInv'
<1>1. /\ pending_orders # <<>> /\ Bar # NoBar /\ AccountTypeOK
      /\ Order.order_type = "Sell" /\ Traded(SellFees(Cost))
      /\ cash' = cash + Cost - SellFees(Cost)
      /\ positions' = [positions EXCEPT ![Order.symbol] = @ - Order.amount]
      /\ Order.amount <= positions[Order.symbol]
  BY DEF FillSell, Fillable, Sellable, TakeOrder, AccountInv
<1>2. SellFees(Cost) \in Nat /\ Cost \in Nat
  BY <1>1, CostOfOrder
<1>3. PICK trade \in Trades :
         /\ trades' = Append(trades, trade)
         /\ trade.symbol = Order.symbol /\ trade.order_type = Order.order_type
         /\ trade.amount = Order.amount /\ trade.fee = SellFees(Cost)
         /\ trade.price * trade.amount = Cost
  BY <1>1, <1>2, FillIsListed
<1>4. trades \in Seq(Trades) /\ positions \in [Symbols -> Int] /\ cash \in Int
  BY <1>1 DEF AccountTypeOK
<1>5. /\ positions' = [positions EXCEPT ![trade.symbol] = @ - trade.amount]
      /\ cash' = cash + (trade.price * trade.amount - trade.fee)
      /\ trade.order_type = "Sell" /\ trade.amount <= positions[trade.symbol]
  BY <1>1, <1>2, <1>3, <1>4
<1>6. PairedUp(trades') = PairTrade(PairedUp(trades), trade)
  BY <1>3, <1>4, PairingOfAppended
<1>7. Agrees(PairTrade(PairedUp(trades), trade), Append(trades, trade),
             [positions EXCEPT ![trade.symbol] = @ - trade.amount],
             cash + (trade.price * trade.amount - trade.fee))
  BY <1>4, <1>5, SellAgrees DEF FifoInv
<1>8. Agrees(PairedUp(trades'), trades', positions', cash')
  BY <1>3, <1>5, <1>6, <1>7
<1> QED  BY <1>8 DEF FifoInv

LEMMA StepKeepsFifo ==
    ASSUME AccountInv, FifoInv, [Next]_vars
    PROVE  FifoInv'
<1>1. CASE UNCHANGED <<cash, positions, trades>>
  BY <1>1 DEF FifoInv
<1>2. CASE FillBuy
  BY <1>2, FillBuyKeepsFifo
<1>3. CASE FillSell
  BY <1>3, FillSellKeepsFifo
<1>4. ASSUME ~FillBuy, ~FillSell
      PROVE  UNCHANGED <<cash, positions, trades>>
  BY <1>4 DEF Next, Trade, vars, account, NextDate, PlaceBuy, PlaceSell, PlaceOrder,
              OnBarReturns, DropOrder, RecordSnapshot, ExitRun
<1> QED  BY <1>1, <1>2, <1>3, <1>4

LEMMA InitHoldsFifo == Init => FifoInv
<1> SUFFICES ASSUME Init
             PROVE  FifoInv
  OBVIOUS
<1>1. trades = <<>> /\ DOMAIN trades = {} /\ Len(trades) = 0
      /\ cash = InitialCash /\ positions = [s \in Symbols |-> 0]
  BY DEF Init
<1>2. PairedUp(trades) = NoStats
  BY <1>1, PairingTurns DEF PairedUp
<1>3. NoStats \in Stats
  BY DEF NoStats, Stats
<1>4. /\ SharesIn(<<>>) = 0 /\ CostOf(<<>>) = 0 /\ SharesPaired(<<>>) = 0 /\ Profit(<<>>) = 0
      /\ SoldShares(trades) = 0
  <2>1. DOMAIN <<>> = {}
    OBVIOUS
  <2> QED  BY <1>1, <2>1, SumOfNone DEF SharesIn, CostOf, SharesPaired, Profit, SoldShares
<1>5. PaidForAll(NoStats.pending_buys) = 0
  <2> DEFINE none == [s \in Symbols |-> CostOf(NoStats.pending_buys[s])]
  <2>1. DOMAIN none = Symbols /\ \A s \in Symbols : none[s] = 0
    BY <1>4 DEF NoStats
  <2> HIDE DEF none
  <2>2. SumFunction(none) = 0
    BY <2>1, FifoAssumption, SumOfZeros
  <2> QED  BY <2>2 DEF none, PaidForAll
<1>6. cash - InitialCash = 0
  BY <1>1, BrokerAssumption
<1> QED  BY <1>1, <1>2, <1>3, <1>4, <1>5, <1>6, FifoAssumption DEF FifoInv, Agrees, NoStats

\* For every run: the lots the analyzer has left are the positions, it pairs every
\* share sold, and its profits are never better than what the account made.
THEOREM TheAnalyzerAgrees == Spec => []FifoAgrees
<1>1. Init => AccountInv /\ FifoInv
  BY InitHolds, InitHoldsFifo
<1>2. AccountInv /\ FifoInv /\ [Next]_vars => (AccountInv /\ FifoInv)'
  BY StepKeeps, StepKeepsFifo
<1>3. FifoInv => FifoAgrees
  BY DEF FifoInv, Agrees, FifoAgrees, CalculateFifoStats, PairedUp, PaidForAll,
         SoldShares, Shares
<1> QED  BY <1>1, <1>2, <1>3, PTL DEF Spec
-----------------------------------------------------------------------------
(* Types *)

\* Only record_snapshot writes the equity curve, and what it appends is typed.
LEMMA StepKeepsCurve ==
    ASSUME TypeOK, [Next]_vars
    PROVE  (equity_curve \in Seq(Snapshots))'
<1>1. CASE RecordSnapshot
  <2>1. day \in Nat /\ cash \in Int
    BY BrokerAssumption DEF TypeOK, AccountTypeOK
  <2>2. PositionValue \in Int
    <3> DEFINE values == [s \in Symbols |-> positions[s] * last_prices[s] * Scale]
    <3>1. \A s \in Symbols : values[s] \in Int
      BY BrokerAssumption DEF TypeOK, AccountTypeOK
    <3>2. IsFiniteSet(DOMAIN values) /\ \A s \in DOMAIN values : values[s] \in Int
      BY <3>1, FifoAssumption
    <3> HIDE DEF values
    <3>3. SumFunction(values) \in Int
      BY <3>2, SumIsInteger
    <3> QED  BY <3>3 DEF PositionValue, values
  <2>3. [day |-> day, cash |-> cash, position_value |-> PositionValue] \in Snapshots
    BY <2>1, <2>2 DEF Snapshots
  <2> QED  BY <1>1, <2>3, AppendProperties DEF RecordSnapshot, TypeOK
<1>2. CASE ~RecordSnapshot
  <2>1. equity_curve' = equity_curve
    BY <1>2 DEF Next, Trade, vars, NextDate, PlaceBuy, PlaceSell, PlaceOrder, OnBarReturns,
                FillBuy, FillSell, DropOrder, TakeOrder, ExitRun
  <2> QED  BY <2>1 DEF TypeOK
<1> QED  BY <1>1, <1>2

\* Types, the equity curve of the report included: cash and market value of a day
\* are numbers however many symbols are held (broker.rs:96-101, 268-275).
THEOREM TypesAreKept == Spec => []TypeOK
<1>1. Init /\ AccountInv => TypeOK
  BY EmptySeq DEF Init, AccountInv, TypeOK
<1>2. TypeOK /\ AccountInv' /\ [Next]_vars => TypeOK'
  BY StepKeepsCurve DEF AccountInv, TypeOK
<1> QED  BY <1>1, <1>2, AccountInvariant, PTL DEF Spec
=============================================================================
