--------------------------- MODULE MCTickPipeline ---------------------------
(* Small instances of TickPipeline for TLC.                                 *)
EXTENDS TickPipeline

\* Trade dates of two minutes: minute 1 closes the first, minute 2 opens the second.
MCDate == 2

t1a == [at |-> 0, session |-> TRUE, price |-> 2, volume |-> 1]
t1b == [at |-> 0, session |-> TRUE, price |-> 1, volume |-> 2]
t2 == [at |-> 1, session |-> TRUE, price |-> 3, volume |-> 1]
t2out == [at |-> 1, session |-> FALSE, price |-> 4, volume |-> 1]
t3 == [at |-> 2, session |-> TRUE, price |-> 1, volume |-> 1]
t4 == [at |-> 3, session |-> TRUE, price |-> 2, volume |-> 1]
bad == [at |-> 1, session |-> TRUE, price |-> None, volume |-> 1]
zero == [at |-> 1, session |-> TRUE, price |-> 0, volume |-> 1]

SafetyStreams == {
    <<t1a, t1b, t2, t3>>,
    <<t1b, t2, t1a, t4>>,
    <<t2, t2out, t3, t4>>,
    <<t1a, t2, t3, t4>>,
    <<t1a, bad, zero, t3>>}

LivenessStreams == {<<t1a, t2, t1b>>, <<t1a, t2, t3>>}

HandOffStreams == {<<t1a, t2, t3, t4>>}
=============================================================================
