---------------------------- MODULE MCEdgeLoop ----------------------------
EXTENDS EdgeLoop

MCVoteConf == [m \in Members |-> IF m = "supertrend_surf" THEN 66 ELSE 58]

\* A tense tape, a tenser one, and a shock.
Tense  == [bars |-> 120, z |-> 25, material |-> TRUE, vol |-> 30, vratio |-> 10,
           gaps |-> 1, echo |-> FALSE, trend |-> 30, dir |-> 0]
Tenser == [Tense EXCEPT !.gaps = 2, !.z = 27]
Storm  == [Tenser EXCEPT !.z = 35]
MCTapes == {Tense, Tenser, Storm}

Weekday == [time |-> [day |-> 2, hour |-> 13], class |-> "fx", otc |-> TRUE, manual |-> FALSE,
            news |-> FALSE, liquidity |-> 80, spread |-> 10, balance |-> 500000, drawdown |-> 40]
Friday  == [Weekday EXCEPT !.time = [day |-> 4, hour |-> 21], !.otc = FALSE]
MCPlaces == {Weekday, Friday}
=============================================================================
