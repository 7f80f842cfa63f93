------------------------------ MODULE MCFeeds ------------------------------
(* An instance of Feeds for TLC: the tasks run two at a time; the monitor asks
   one provider for two symbols, the embedded service for one of them.  Either
   quotes come, or headlines, of which one is carried by two news feeds. *)
EXTENDS Feeds

TwoPairs == <<<<"coinbase", "BTC">>, <<"coinbase", "ETH">>>>
OnePair == <<<<"coinbase", "BTC">>>>
TwoAtATime == {{"monitor", "embedded"}, {"embedded", "stream"}}
QuotesOrNews == {[quotes |-> 2, edition |-> <<>>],
                 [quotes |-> 0, edition |-> <<<<"cut">>, <<"cut", "war">>>>]}
Scaled == [M15 |-> 1, H1 |-> 2, H4 |-> 4]
=============================================================================
