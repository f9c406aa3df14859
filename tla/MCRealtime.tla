----------------------------- MODULE MCRealtime -----------------------------
(* Small instances of RealtimeManager for TLC. *)
EXTENDS RealtimeManager

\* A day has ten ticks, of which 2 to 7 are the session.
MCEvent(n, name, code, ts, ok, items) ==
    [n |-> n, name |-> name, code |-> code, ts |-> ts, ok |-> ok, items |-> items]

\* The series of the distribution, a point with the time of its last item, a later one;
\* or a summary that names no instrument and the sectors, which fill two slots.
MCFeeds == {
    <<MCEvent(1, "spot_market_distribution_series", None, 3, TRUE,
              <<[ts |-> 2, n |-> 0], [ts |-> 3, n |-> 1]>>),
      MCEvent(2, "spot_market_distribution_latest", None, 3, TRUE, <<>>),
      MCEvent(3, "spot_market_distribution_latest", None, 7, TRUE, <<>>)>>,
    <<MCEvent(1, "market_summary_latest", None, 4, TRUE, <<>>),
      MCEvent(2, "index_contrib_sector", None, 4, TRUE, <<>>)>>}

\* A bar, and a metric that names no instrument and is malformed.
MCMalformedFeeds == {
    <<MCEvent(1, "kbar_current", "TXF", 2, TRUE, <<>>),
      MCEvent(2, "metric_latest", None, 2, FALSE, <<>>)>>}

\* The liveness of one session, whichever: sessions differ only in their token.
Reconnects == ReconnectsWith(CHOOSE t \in Tokens : TRUE)
=============================================================================
