----------------------------- MODULE MCDataFeeds -----------------------------
(* Instance of DataFeeds: a feed paid by time only and one with a price    *)
(* threshold of 50 %.                                                      *)
EXTENDS DataFeeds

MCFeedParams ==
    {[reward |-> 1, start_time |-> 4, interval |-> 3, window |-> 2, price_threshold |-> 0,
      reward_increase_per_second |-> 1],
     [reward |-> 1, start_time |-> 3, interval |-> 4, window |-> 2, price_threshold |-> 5000,
      reward_increase_per_second |-> 1]}
=============================================================================
