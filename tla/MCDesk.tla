-------------------------------- MODULE MCDesk --------------------------------
(* Desk on the worlds below: two requests, four classes of assets. *)
EXTENDS Desk

Asked(words, asset, hint) == [words |-> words, asset |-> asset, hint |-> hint]

MCQuestions ==
  {Asked({}, c, "none") : c \in {"metal", "crypto", "index", "fx"}}
  \cup {Asked({"POSITIONING"}, "metal", "none"), Asked({"NEWS"}, "none", "metal"),
        Asked({}, "none", "metal"), Asked({"SYSTEM"}, "none", "none"),
        Asked({"DESK_DEBATE", "RISK"}, "none", "none"), Asked({"DESK_DEBATE"}, "index", "none"),
        Asked({"DAILY_CLOSE"}, "none", "none"), Asked({"WATCH"}, "none", "none"),
        Asked({"GOLD_PLAYBOOK"}, "none", "none"), Asked({"XRP_PLAYBOOK"}, "none", "none")}

-----------------------------------------------------------------------------
(* Tuesday 15:00; hourly bars. *)
Now == 39
Hourly(rows) ==
  [i \in 1 .. Len(rows) |-> [at |-> Now - Len(rows) + i - 1, open |-> rows[i][1],
                             high |-> rows[i][2], low |-> rows[i][3], close |-> rows[i][4]]]

(* A high that is taken and given back; the same without the take; the same
   after a long fall; bars so wide that the ATR is extreme; too few of them. *)
SweptBars == Hourly(<< <<10000, 10040, 9960, 10020>>, <<10020, 10080, 10000, 10060>>,
                       <<10060, 10200, 10040, 10100>>, <<10100, 10120, 10020, 10040>>,
                       <<10040, 10100, 9980, 10000>>, <<10000, 10260, 10000, 10150>> >>)
UnsweptBars == [SweptBars EXCEPT ![6].high = 10160, ![6].close = 10160,
                                 ![5].low = 9990, ![1].low = 9990, ![1].open = 9990]
WideBars == Hourly(<< <<10000, 10400, 9900, 10300>>, <<10300, 10500, 10050, 10100>>,
                      <<10100, 10700, 10000, 10500>>, <<10500, 10600, 10100, 10200>>,
                      <<10200, 10650, 10050, 10600>>, <<10600, 10720, 10300, 10350>> >>)
FewBars == SubSeq(SweptBars, 4, 6)

Ranging  == [er |-> 100, adx |-> 15, persist |-> 200, atr |-> 10, rvol |-> 20, expansion |-> 1000]
Trending == [er |-> 450, adx |-> 40, persist |-> 700, atr |-> 10, rvol |-> 20, expansion |-> 1000]
Stormy   == [Ranging EXCEPT !.atr = 25]
Quiet    == [Ranging EXCEPT !.atr = 5]

Returns(m) == (10 :> m) @@ (20 :> m) @@ (50 :> m)

Easing    == [dxy |-> -20, us10y |-> -1, vix |-> 12, spx |-> 500]
Stress    == [dxy |-> 20, us10y |-> 1, vix |-> 30, spx |-> -500]
NoMacro   == [dxy |-> NoValue, us10y |-> NoValue, vix |-> NoValue, spx |-> NoValue]

Quote(price, half, status, received, source, provider) ==
  [price |-> price, bid |-> IF half = NoValue THEN NoValue ELSE price - half,
   ask |-> IF half = NoValue THEN NoValue ELSE price + half,
   status |-> status, received |-> received, source |-> source, provider |-> provider]

Live(price, half) == Quote(price, half, "LIVE", "FRESH", "FRESH", "p1")

Plain ==
  [class |-> "metal", bars |-> SweptBars, now |-> Now, stored |-> 60, metrics |-> Ranging,
   roc |-> Returns(300), relVolume |-> 900, contraction |-> 1200, drawdown |-> NoValue,
   macro |-> Easing, rhos |-> <<400, NoValue>>, vix |-> 12, cot |-> 60, share |-> 20,
   rhoGold |-> -300, rhoSpx |-> -400, listed |-> {"DXY", "US10Y", "VIX", "SPX"}, feeds |-> {}]

Bearish(m) == [m EXCEPT !.macro = Stress, !.roc = Returns(-300), !.vix = 30, !.cot = -60]

Markets ==
  {Plain, Bearish(Plain), [Plain EXCEPT !.bars = UnsweptBars, !.metrics = Trending],
   [Plain EXCEPT !.bars = WideBars, !.metrics = Stormy],
   [Plain EXCEPT !.bars = FewBars, !.stored = 3, !.cot = NoValue, !.macro = NoMacro,
                          !.listed = {}],
   [Bearish(Plain) EXCEPT !.metrics = Trending, !.drawdown = -90, !.listed = {"DXY"},
                          !.rhoGold = 400, !.share = 40],
   [Plain EXCEPT !.class = "index", !.metrics = Quiet],
   [Bearish(Plain) EXCEPT !.class = "index", !.metrics = Trending, !.listed = {"SPX", "VIX"}],
   [Plain EXCEPT !.class = "crypto", !.cot = NoValue, !.rhos = <<NoValue>>],
   [Bearish(Plain) EXCEPT !.class = "crypto", !.relVolume = NoValue, !.contraction = NoValue],
   [Plain EXCEPT !.class = "fx", !.now = 23, !.metrics = Trending, !.bars = FewBars],
   [Bearish(Plain) EXCEPT !.class = "fx"]}

QuoteRows ==
  {<<>>, <<Live(10210, 2)>>, <<Live(9990, 2)>>, <<Live(10210, 15)>>, <<Live(10080, NoValue)>>,
   <<Quote(10210, 2, "LIVE", "OLD", "OLD", "p1")>>,
   <<Quote(10210, 2, "DISCONNECTED", "FRESH", "ANCIENT", "p1")>>,
   <<Quote(10120, 2, "LIVE", "FRESH", "FRESH", "p2"), Live(10210, 2)>>}

(* Wide worlds: one question, nothing moves while it is answered. *)
World(market, rows, news, snapshot) ==
  [market |-> market, quotes |-> rows, news |-> news, snapshot |-> snapshot, asks |-> MCQuestions,
   left |-> 1, writes |-> 0, faults |-> 0, restarts |-> 0]

Lights == {"NONE", "HIGH"} \X {"NONE", "GREEN_LIGHT", "CAUTION", "RED_LIGHT"}

Wide == {World(m, r, l[1], l[2]) : m \in Markets, r \in QuoteRows, l \in Lights}

(* Narrow ones: two questions at once, with the monitor writing, or with the
   database and the process failing. *)
Fed == [Plain EXCEPT !.feeds = {Live(9990, 2), Live(10210, 15)}]
Start == [World(Fed, <<Live(10210, 2)>>, "MEDIUM", "GREEN_LIGHT") EXCEPT !.left = 2]

Reads == {Asked({}, "metal", "none"), Asked({"DESK_DEBATE", "RISK"}, "none", "none"),
          Asked({"DAILY_CLOSE"}, "none", "none")}
Others == {Asked({}, "metal", "none"), Asked({"WATCH"}, "none", "none"),
           Asked({"GOLD_PLAYBOOK"}, "none", "none"), Asked({"DAILY_CLOSE"}, "none", "none")}

Narrow == {[Start EXCEPT !.writes = 1, !.asks = Reads],
           [Start EXCEPT !.writes = 3, !.left = 1],
           [Start EXCEPT !.faults = 1, !.restarts = 1, !.asks = Others],
           [Start EXCEPT !.faults = 1, !.asks = MCQuestions \ Others, !.market.bars = FewBars]}

MCWorlds == Wide \cup Narrow
===============================================================================
