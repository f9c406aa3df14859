------------------------------ MODULE TickBars ------------------------------
(***************************************************************************)
(* TickStateMachine of stream_processing/runner.py: ticks of one contract   *)
(* are aggregated into one-minute bars that also carry the open, high and   *)
(* low of the trade date's day session.                                     *)
(*                                                                          *)
(* Times are minutes on one axis ("at" is minute_ts).  A tick says whether  *)
(* its event_ts lies in the day session 08:45:00-13:45:00, which is finer   *)
(* than the minute: of the ticks of minute 13:45 only those of second zero  *)
(* are inside.  A payload with no usable price has price None.              *)
(***************************************************************************)
EXTENDS Integers

CONSTANTS
    None,            \* Python's None
    TradeDateLength  \* minutes from one 15:00 Asia/Taipei to the next

\* A trade date has minutes.
ASSUME TradeDateAssumption == TradeDateLength \in Nat \ {0}

\* trade_date_for: the trade date a minute belongs to.
TradeDate(minute) == minute \div TradeDateLength

Tick == [at: Nat, session: BOOLEAN, price: Nat \cup {None}, volume: Nat]

KBar == [at: Nat, date: Nat, open: Nat, high: Nat, low: Nat, close: Nat, volume: Nat,
         dayOpen: Nat \cup {None}, dayHigh: Nat \cup {None}, dayLow: Nat \cup {None}]

NoBar == None

\* None is no number and no bar.
ASSUME NoneAssumption == None \notin Nat /\ NoBar \notin KBar

\* The whole state of a TickStateMachine.
Machine == [current: KBar \cup {NoBar}, date: Nat \cup {None},
            dayOpen: Nat \cup {None}, dayHigh: Nat \cup {None}, dayLow: Nat \cup {None}]

NewMachine == [current |-> NoBar, date |-> None,
               dayOpen |-> None, dayHigh |-> None, dayLow |-> None]

Higher(a, b) == IF a >= b THEN a ELSE b
Lower(a, b) == IF a <= b THEN a ELSE b

\* A faulty variant of OtherDate: the day fields are never reset.
SameDateForever(m, t) == FALSE

\* The day fields of a machine are those of another trade date.
OtherDate(m, t) == m.date # TradeDate(t.at)

\* _update_day_state: a new trade date starts with empty day fields, and only a
\* tick of the day session fills or widens them.
DayOpen(m, t) ==
    LET open == IF OtherDate(m, t) THEN None ELSE m.dayOpen
    IN  IF t.session /\ open = None THEN t.price ELSE open

DayHigh(m, t) ==
    LET high == IF OtherDate(m, t) THEN None ELSE m.dayHigh
    IN  IF ~t.session THEN high
        ELSE IF high = None THEN t.price ELSE Higher(high, t.price)

DayLow(m, t) ==
    LET low == IF OtherDate(m, t) THEN None ELSE m.dayLow
    IN  IF ~t.session THEN low
        ELSE IF low = None THEN t.price ELSE Lower(low, t.price)

\* A faulty variant of Dropped: a late tick opens its minute again.
DroppedWithoutPrice(m, t) == t.price = None

\* apply_tick drops a tick without a price and a tick of an earlier minute than
\* the bar it has open.
Dropped(m, t) ==
    \/ t.price = None
    \/ m.current # NoBar /\ t.at < m.current.at

\* The tick belongs to the minute of the open bar.
SameMinute(m, t) == m.current # NoBar /\ t.at = m.current.at

OpenedBar(m, t) ==
    [at |-> t.at, date |-> TradeDate(t.at),
     open |-> t.price, high |-> t.price, low |-> t.price, close |-> t.price,
     volume |-> t.volume,
     dayOpen |-> DayOpen(m, t), dayHigh |-> DayHigh(m, t), dayLow |-> DayLow(m, t)]

\* A faulty variant of UpdatedBar: the volume is replaced, not added.
UpdatedBarLastVolume(m, t) ==
    [m.current EXCEPT !.high = Higher(m.current.high, t.price),
                      !.low = Lower(m.current.low, t.price),
                      !.close = t.price,
                      !.volume = t.volume,
                      !.dayOpen = DayOpen(m, t),
                      !.dayHigh = DayHigh(m, t),
                      !.dayLow = DayLow(m, t)]

UpdatedBar(m, t) ==
    [at |-> m.current.at, date |-> m.current.date,
     open |-> m.current.open, high |-> Higher(m.current.high, t.price),
     low |-> Lower(m.current.low, t.price), close |-> t.price,
     volume |-> m.current.volume + t.volume,
     dayOpen |-> DayOpen(m, t), dayHigh |-> DayHigh(m, t), dayLow |-> DayLow(m, t)]

\* The state after a tick that is not dropped.
AfterTick(m, t) ==
    [current |-> IF SameMinute(m, t) THEN UpdatedBar(m, t) ELSE OpenedBar(m, t),
     date |-> TradeDate(t.at),
     dayOpen |-> DayOpen(m, t), dayHigh |-> DayHigh(m, t), dayLow |-> DayLow(m, t)]

\* The bar such a tick closes, if any.
Archived(m, t) ==
    IF m.current = NoBar \/ SameMinute(m, t) THEN NoBar ELSE m.current

\* KBar.to_dict refuses to divide by an open that is not positive.
HasAmplitude(bar) == bar.open > 0
=============================================================================
