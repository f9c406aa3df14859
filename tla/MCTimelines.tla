----------------------------- MODULE MCTimelines -----------------------------
(* A morning of three minutes, and one whose third sample is late, for each of the hooks
   of the dashboard that share a series. *)
EXTENDS Timelines

Sample(minute, valued, price) == [minute |-> minute, valued |-> valued, price |-> price]

\* A second minute without a quote, and without the metric.
MCGap == <<Sample(2, TRUE, 1), Sample(3, FALSE, 1)>>

\* The first minute has two samples, the second of them is not valued and has the high.
MCShort == <<Sample(2, TRUE, 2), Sample(2, FALSE, 3), Sample(3, TRUE, 1)>>
MCInOrder == Append(MCShort, Sample(4, TRUE, 2))

\* The last sample of the first minute is produced after one of the second.
MCLate == <<Sample(2, TRUE, 1), Sample(3, TRUE, 1), Sample(2, TRUE, 1), Sample(3, TRUE, 1)>>

\* The second payload has all fields, the third has no price.
MCPanel == <<Sample(2, FALSE, 2), Sample(2, TRUE, 3), Sample(3, FALSE, 0), Sample(4, FALSE, 1)>>

MCCases ==
    {[hooks |-> {"kbar", "quote"}, feed |-> MCGap],
     [hooks |-> {"kbar", "metric"}, feed |-> MCShort],
     [hooks |-> {"participant"}, feed |-> MCShort]}
    \cup {[hooks |-> {h}, feed |-> MCPanel] : h \in {"sticky", "gap"}}
    \cup {[hooks |-> {h}, feed |-> f] : h \in {"estimated", "quote", "otc"}, f \in {MCInOrder, MCLate}}

=============================================================================
