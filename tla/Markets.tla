------------------------------- MODULE Markets -------------------------------
(***************************************************************************)
(* backend/service.py poll_market_stats: the price of WGNK on a DEX and    *)
(* the order book of GNK, each kept in a table of one row.                 *)
(*                                                                         *)
(* Four services are asked one after the other, and each may be down while *)
(* the others answer.  quote stands for what all of them would answer now. *)
(***************************************************************************)
EXTENDS Naturals

CONSTANTS
    MaxQuote,         \* bound: how often the markets move
    MaxMarketFaults   \* bound: saves that fail, and restarts

ASSUME MarketsAssumption == MaxQuote \in Nat \ {0} /\ MaxMarketFaults \in Nat

\* GeckoTerminal, slot0() of the pool, the order book, and the statistics of
\* the limit orders.
Source == {"gecko", "slot0", "book", "orders"}

Quote == 1..MaxQuote
NoQuote == 0

VARIABLES
    quote,         \* what the markets would answer
    up,            \* the sources that answer
    dexRow,        \* dex_market_stats: the price and the 24h figures
    bookRow,       \* market_stats
    marketPoll,    \* the source asked next, and the order book read so far
    marketFaults

marketVars == <<quote, up, dexRow, bookRow, marketPoll, marketFaults>>

NoMarketPoll == [asks |-> "none", book |-> NoQuote]

MarketsTypeOK ==
    /\ quote \in Quote
    /\ up \subseteq Source
    /\ dexRow \in [price : Quote \cup {NoQuote}, figures : Quote \cup {NoQuote}]
    /\ bookRow \in Quote \cup {NoQuote}
    /\ marketPoll \in [asks : Source \cup {"none"}, book : Quote \cup {NoQuote}]
    /\ marketFaults \in 0..MaxMarketFaults

MarketsInit ==
    /\ quote = 1
    /\ up \in SUBSET Source
    /\ dexRow = [price |-> NoQuote, figures |-> NoQuote]
    /\ bookRow = NoQuote
    /\ marketPoll = NoMarketPoll
    /\ marketFaults = 0

MarketFault == marketFaults < MaxMarketFaults /\ marketFaults' = marketFaults + 1

Asks(s) == [NoMarketPoll EXCEPT !.asks = s]

-----------------------------------------------------------------------------
MarketsMove ==
    /\ quote < MaxQuote
    /\ quote' = quote + 1
    /\ UNCHANGED <<up, dexRow, bookRow, marketPoll, marketFaults>>

SourceChanges(s) ==
    /\ up' = IF s \in up THEN up \ {s} ELSE up \cup {s}
    /\ UNCHANGED <<quote, dexRow, bookRow, marketPoll, marketFaults>>

PollMarkets ==
    /\ marketPoll.asks = "none"
    /\ marketPoll' = Asks("gecko")
    /\ UNCHANGED <<quote, up, dexRow, bookRow, marketFaults>>

\* fetch_wgnk_dex_stats and, if it failed, fetch_wgnk_price_onchain.
AskGecko ==
    /\ marketPoll.asks = "gecko"
    /\ IF "gecko" \in up
       THEN /\ dexRow' = [price |-> quote, figures |-> quote]
            /\ marketPoll' = Asks("book")
       ELSE /\ marketPoll' = Asks("slot0")
            /\ UNCHANGED dexRow
    /\ UNCHANGED <<quote, up, bookRow, marketFaults>>

\* Mutant of AskSlot0: the error of the DEX price ends the poll.
AskSlot0Raises ==
    /\ marketPoll.asks = "slot0"
    /\ IF "slot0" \in up
       THEN /\ dexRow' = [price |-> quote, figures |-> NoQuote]
            /\ marketPoll' = Asks("book")
       ELSE /\ marketPoll' = NoMarketPoll
            /\ UNCHANGED dexRow
    /\ UNCHANGED <<quote, up, bookRow, marketFaults>>

\* The price alone; the 24h figures are dropped.  If that fails too, the
\* error is kept for the end and the order book is asked all the same.
AskSlot0 ==
    /\ marketPoll.asks = "slot0"
    /\ dexRow' = IF "slot0" \in up THEN [price |-> quote, figures |-> NoQuote] ELSE dexRow
    /\ marketPoll' = Asks("book")
    /\ UNCHANGED <<quote, up, bookRow, marketFaults>>

\* save_dex_market_stats raises: no other source is asked for the price.
SaveDexFails ==
    /\ marketPoll.asks \in {"gecko", "slot0"} \cap up
    /\ MarketFault
    /\ marketPoll' = Asks("book")
    /\ UNCHANGED <<quote, up, dexRow, bookRow>>

\* _poll_orderbook_market_stats: the order book is put into its row only with
\* the answer of a second service.
AskBook ==
    /\ marketPoll.asks = "book"
    /\ marketPoll' = IF "book" \in up THEN [asks |-> "orders", book |-> quote]
                     ELSE NoMarketPoll
    /\ UNCHANGED <<quote, up, dexRow, bookRow, marketFaults>>

AskOrders ==
    /\ marketPoll.asks = "orders"
    /\ bookRow' = IF "orders" \in up THEN marketPoll.book ELSE bookRow
    /\ marketPoll' = NoMarketPoll
    /\ UNCHANGED <<quote, up, dexRow, marketFaults>>

\* save_market_stats raises, or the process ends.
MarketPollLost ==
    /\ marketPoll.asks # "none"
    /\ MarketFault
    /\ marketPoll' = NoMarketPoll
    /\ UNCHANGED <<quote, up, dexRow, bookRow>>

-----------------------------------------------------------------------------
MarketPollStep == AskGecko \/ AskSlot0 \/ AskBook \/ AskOrders

MarketsNext ==
    \/ MarketsMove
    \/ \E s \in Source : SourceChanges(s)
    \/ PollMarkets
    \/ MarketPollStep
    \/ SaveDexFails
    \/ MarketPollLost

MarketsSpec == MarketsInit /\ [][MarketsNext]_marketVars

-----------------------------------------------------------------------------
(***************************************************************************)
(* Properties                                                              *)
(***************************************************************************)

\* "The two markets are independent" (service.py:4230): whatever the other
\* sources do, the order book's row follows a market whose two services
\* answer, and the DEX row follows whichever of its sources answers; the 24h
\* figures that slot0() does not know are never older than the price.
MarketsIndependent ==
    /\ <>[]({"book", "orders"} \subseteq up) => <>[](bookRow = quote)
    /\ <>[]("gecko" \in up) => <>[](dexRow = [price |-> quote, figures |-> quote])
    /\ <>[]("gecko" \notin up /\ "slot0" \in up) =>
          <>[](dexRow = [price |-> quote, figures |-> NoQuote])

\* The 24h figures shown next to a price are those read with it.
FiguresBelongToPrice == dexRow.figures \in {NoQuote, dexRow.price}

=============================================================================
