------------------------------ MODULE OrderBook ------------------------------
(***************************************************************************)
(* The Polymarket order book engine (core/orderbook/__init__.py), the      *)
(* prices walked from its books (core/executable/__init__.py) and the      *)
(* spread strategy that reads them (core/strategy/__init__.py).            *)
(*                                                                         *)
(* A side of a book is an ordered dictionary from prices to levels: it     *)
(* keeps the order in which its prices came, and is a sequence here.  A    *)
(* message carries whole levels; a handler never waits, so a message is    *)
(* one step.  Reading a token nobody has heard of makes a book for it.     *)
(***************************************************************************)
EXTENDS Integers, Sequences, SequencesExt, FiniteSetsExt

CONSTANTS
  Tokens,      \* the tokens of the market
  Prices,      \* prices a message may carry, in ticks; 0 and less are skipped
  Sizes,       \* sizes of a level
  Messages,    \* the messages that may come, as pairs of sides
  Quantities,  \* quantities that may be priced
  MaxDepth,    \* max_depth
  StaleAfter,  \* stale_sec, in clock units
  MinPct, MaxPct,  \* the band of the spread strategy, in percent
  MaxTime      \* bound on the clock

UNKNOWN == "UNKNOWN"
Side == {"bids", "asks"}
NoPrice == 0
Never == -1 - StaleAfter   \* datetime.min
Level == [price : Prices, size : Sizes]

(* parse_ws_message sorts both sides from the highest price down. *)
Parsed(side) == \A i \in 1..Len(side) - 1 : side[i].price >= side[i + 1].price

ASSUME OrderBookAssumption ==
  /\ UNKNOWN \in Tokens
  /\ Prices \subseteq Int /\ Sizes \subseteq Nat /\ Quantities \subseteq Nat
  /\ Messages \subseteq Seq(Level) \X Seq(Level)
  /\ \A m \in Messages : Parsed(m[1]) /\ Parsed(m[2])
  /\ MaxDepth \in Nat \ {0}
  /\ StaleAfter \in Nat /\ MaxTime \in Nat
  /\ MinPct \in Nat \ {0} /\ MaxPct \in Nat

VARIABLES
  books,   \* _books: one record for each token heard of or asked about
  last,    \* _last_update
  told,    \* history: the size last told of each price, of tokens with a message
  now

vars == <<books, last, told, now>>

NoBook == [bids |-> <<>>, asks |-> <<>>, bid |-> NoPrice, ask |-> NoPrice,
           spread |-> NoPrice]
Untold == [s \in Side |-> [p \in Prices |-> -1]]

Init ==
  /\ books = [t \in {} |-> NoBook]
  /\ last = [t \in {} |-> Never]
  /\ told = [t \in {} |-> Untold]
  /\ now = 0

PricesOf(levels) == {levels[i].price : i \in DOMAIN levels}

(* The price a side gives up when it is too deep. *)
Worst(side, levels) ==
  IF side = "bids" THEN Min(PricesOf(levels)) ELSE Max(PricesOf(levels))

(* Slip: trimmed from the end of the dictionary. *)
SlipTrimmed(side, levels) ==
  IF Len(levels) > MaxDepth THEN SubSeq(levels, 1, MaxDepth) ELSE levels

Trimmed(side, levels) ==
  IF Len(levels) > MaxDepth
  THEN RemoveAt(levels, CHOOSE i \in DOMAIN levels : levels[i].price = Worst(side, levels))
  ELSE levels

(* Slip: a level is added even if its price is there. *)
SlipPut(side, levels, level) ==
  IF level.price <= 0 THEN levels ELSE Trimmed(side, Append(levels, level))

(* One level of a message: a price that is there keeps its place. *)
Put(side, levels, level) ==
  IF level.price <= 0 THEN levels
  ELSE Trimmed(side,
         IF level.price \in PricesOf(levels)
         THEN [i \in DOMAIN levels |->
                 IF levels[i].price = level.price THEN level ELSE levels[i]]
         ELSE Append(levels, level))

Updated(side, levels, message) ==
  FoldLeft(LAMBDA l, level : Put(side, l, level), levels, message)

Best(side, levels) ==
  IF levels = <<>> THEN NoPrice
  ELSE IF side = "bids" THEN Max(PricesOf(levels)) ELSE Min(PricesOf(levels))

Spread(bid, ask) ==
  IF bid # NoPrice /\ ask # NoPrice /\ ask > bid THEN ask - bid ELSE NoPrice

(* Slip: a crossed book has a spread too. *)
SlipMeasured(bids, asks) ==
  LET bid == Best("bids", bids)
      ask == Best("asks", asks)
  IN  [bids |-> bids, asks |-> asks, bid |-> bid, ask |-> ask,
       spread |-> IF bid = NoPrice \/ ask = NoPrice THEN NoPrice
                  ELSE Max({ask, bid}) - Min({ask, bid})]

(* _recompute_metrics. *)
Measured(bids, asks) ==
  LET bid == Best("bids", bids)
      ask == Best("asks", asks)
  IN  [bids |-> bids, asks |-> asks, bid |-> bid, ask |-> ask,
       spread |-> Spread(bid, ask)]

(* Slip: as if something had been heard of it. *)
SlipSilent == now

Silent == Never

Known(token) == token \in DOMAIN books
BookOf(token) == IF Known(token) THEN books[token] ELSE NoBook
LastOf(token) == IF Known(token) THEN last[token] ELSE Silent

With(f, token, value) ==
  [t \in DOMAIN f \cup {token} |-> IF t = token THEN value ELSE f[t]]

(* A price is told the size that comes last. *)
Tell(sizes, level) ==
  IF level.price <= 0 THEN sizes ELSE [sizes EXCEPT ![level.price] = level.size]
Heard(sizes, message) == FoldLeft(Tell, sizes, message)

Update(token, bids, asks) ==
  /\ books' = With(books, token,
       Measured(Updated("bids", BookOf(token).bids, bids),
                Updated("asks", BookOf(token).asks, asks)))
  /\ last' = With(last, token, now)
  /\ LET before == IF token \in DOMAIN told THEN told[token] ELSE Untold
     IN  told' = With(told, token, [bids |-> Heard(before.bids, bids),
                                    asks |-> Heard(before.asks, asks)])
  /\ UNCHANGED now

(* book, and the prices and the strategy that read through it. *)
Query(token) ==
  /\ ~Known(token)
  /\ books' = With(books, token, NoBook)
  /\ last' = With(last, token, Silent)
  /\ UNCHANGED <<told, now>>

ClockTick ==
  /\ now < MaxTime
  /\ now' = now + 1
  /\ UNCHANGED <<books, last, told>>

Next ==
  \/ \E token \in Tokens, m \in Messages : Update(token, m[1], m[2])
  \/ \E token \in Tokens : Query(token)
  \/ ClockTick

Spec == Init /\ [][Next]_vars

IsStale(token) == now - LastOf(token) > StaleAfter

-----------------------------------------------------------------------------
(* Pricing. *)

Done(walk, quantity) == walk.filled >= quantity /\ walk.walked > 0

Nothing == [filled |-> 0, cost |-> 0, walked |-> 0]

Filling(walk, level, fill) ==
  [filled |-> walk.filled + fill, cost |-> walk.cost + level.price * fill,
   walked |-> walk.walked + 1]

(* Slip: every level gives what was asked for at first. *)
SlipTake(walk, level, quantity) ==
  IF level.size <= 0 \/ Done(walk, quantity) THEN walk
  ELSE Filling(walk, level, Min({level.size, quantity}))

Take(walk, level, quantity) ==
  IF level.size <= 0 \/ Done(walk, quantity) THEN walk
  ELSE Filling(walk, level, Min({level.size, quantity - walk.filled}))

(* _walk_levels takes the levels as they come and passes over empty ones; cost
   is what vwap_sum holds. *)
Walk(levels, quantity) ==
  FoldLeft(LAMBDA walk, level : Take(walk, level, quantity), Nothing, levels)

(* get_executable_price: YES walks the asks, NO the bids. *)
Executable(token, outcome, quantity) ==
  LET walk == Walk(IF outcome = "YES" THEN BookOf(token).asks
                                      ELSE BookOf(token).bids, quantity)
  IN  [filled    |-> walk.filled,
       cost      |-> walk.cost,
       remaining |-> quantity - walk.filled,
       status    |-> IF Done(walk, quantity) THEN "FILLED"
                     ELSE IF walk.filled > 0 THEN "PARTIAL" ELSE "NO_LIQUIDITY"]

(* combined_yes_no_cost, before the fee: both legs are priced on one book, that
   of a token called UNKNOWN. *)
Combined(yes, no) ==
  LET y == Executable(UNKNOWN, "YES", yes)
      n == Executable(UNKNOWN, "NO", no)
  IN  [cost   |-> y.cost + n.cost,
       status |-> IF y.status = "FILLED" /\ n.status = "FILLED"
                  THEN "SUFFICIENT_LIQUIDITY" ELSE "INSUFFICIENT_LIQUIDITY"]

(* Slip: the band is on the distance of the two prices. *)
SlipOpportunity(token) ==
  LET book == BookOf(token)
      spread == IF book.ask >= book.bid THEN book.ask - book.bid ELSE book.bid - book.ask
  IN  /\ book.bid # NoPrice /\ book.ask # NoPrice
      /\ MinPct * book.bid <= 100 * spread
      /\ 100 * spread <= MaxPct * book.bid

(* SpreadStrategy.evaluate, which computes the spread anew. *)
Opportunity(token) ==
  LET book == BookOf(token)
      spread == book.ask - book.bid
  IN  /\ book.bid # NoPrice /\ book.ask # NoPrice
      /\ MinPct * book.bid <= 100 * spread
      /\ 100 * spread <= MaxPct * book.bid

-----------------------------------------------------------------------------
(* Properties. *)

TypeOK ==
  /\ DOMAIN books \subseteq Tokens
  /\ \A t \in DOMAIN books :
       /\ \A s \in Side :
            /\ books[t][s] \in Seq(Level) /\ Len(books[t][s]) <= MaxDepth
            /\ Cardinality(PricesOf(books[t][s])) = Len(books[t][s])
       /\ \A m \in {"bid", "ask"} : books[t][m] \in Prices \cup {NoPrice}
       /\ books[t].spread \in Nat
  /\ DOMAIN last = DOMAIN books
  /\ \A t \in DOMAIN last : last[t] \in 0..MaxTime \cup {Never}
  /\ now \in 0..MaxTime

(* Of all the prices ever told a side shows the best MaxDepth, each with the size
   last told of it, though a message goes through one level at a time, the side
   is trimmed after each of them, and a price that was trimmed may come back
   (update).  Nothing else removes a price: not a size of 0, not another
   message without it. *)
Better(side, p, q) == IF side = "bids" THEN p > q ELSE p < q

BookIsTheBestToldOf ==
  \A t \in DOMAIN told, s \in Side :
    LET prices == {p \in Prices : told[t][s][p] >= 0}
        ahead(p) == Cardinality({q \in prices : Better(s, q, p)})
    IN  /\ PricesOf(books[t][s]) = {p \in prices : ahead(p) < MaxDepth}
        /\ \A i \in DOMAIN books[t][s] :
             books[t][s][i].size = told[t][s][books[t][s][i].price]

(* The metrics stored with a book are those of its levels, crossed and one-sided
   books included: _recompute_metrics runs after the levels and their trims,
   and a book made by a question has none. *)
MetricsOfTheLevels ==
  \A t \in DOMAIN books :
    LET bids == PricesOf(books[t].bids)
        asks == PricesOf(books[t].asks)
    IN  /\ \A p \in bids : p <= books[t].bid
        /\ \A p \in asks : p >= books[t].ask
        /\ books[t].bid \in bids \cup {NoPrice} /\ books[t].ask \in asks \cup {NoPrice}
        /\ books[t].spread > 0 <=>
             bids # {} /\ asks # {} /\ \A b \in bids, a \in asks : a > b

(* In whatever order the levels came, a walk fills what the side holds up to the
   quantity, says FILLED when that is all of it, pays for each unit a price of
   the side, and never less in total for more (_walk_levels).  Both legs of a
   combined cost suffice only if each side of the book holds its quantity. *)
Depth(levels) == FoldLeft(LAMBDA depth, level : depth + level.size, 0, levels)

WalkFillsTheDepth ==
  \A t \in Tokens, outcome \in {"YES", "NO"}, q \in Quantities :
    LET levels == IF outcome = "YES" THEN BookOf(t).asks ELSE BookOf(t).bids
        price  == Executable(t, outcome, q)
    IN  /\ price.filled = Min({q, Depth(levels)})
        /\ price.remaining = q - price.filled /\ price.remaining >= 0
        /\ price.status = "FILLED" <=> Depth(levels) > 0 /\ Depth(levels) >= q
        /\ price.filled > 0 =>
             /\ price.cost >= Min(PricesOf(levels)) * price.filled
             /\ price.cost <= Max(PricesOf(levels)) * price.filled
        /\ \A more \in Quantities :
             /\ more >= q => Executable(t, outcome, more).cost >= price.cost
             /\ Combined(q, more).status = "SUFFICIENT_LIQUIDITY" =>
                  /\ Depth(BookOf(UNKNOWN).asks) >= q
                  /\ Depth(BookOf(UNKNOWN).bids) >= more

(* The strategy sees an opportunity only where the book itself has a spread, the
   same one, and so never in a crossed or one-sided book (evaluate computes its
   own from the two best prices). *)
OpportunityHasASpread ==
  \A t \in Tokens : Opportunity(t) =>
    books[t].spread > 0 /\ books[t].spread = books[t].ask - books[t].bid

(* A token that has only been asked about is stale from the first question on and
   has no levels, whatever the clock says (_empty_book). *)
AskingIsNotHearing ==
  \A t \in Tokens \ DOMAIN told : IsStale(t) /\ BookOf(t) = NoBook

(* The state invariant of the books: types, each side the best of what was told,
   metrics of the levels that are there, no opportunity but in a spread, and
   nothing known of what was only asked about (update, book, evaluate). *)
BookInv ==
  /\ TypeOK
  /\ BookIsTheBestToldOf
  /\ MetricsOfTheLevels
  /\ OpportunityHasASpread
  /\ AskingIsNotHearing
=============================================================================
