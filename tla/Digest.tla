-------------------------------- MODULE Digest --------------------------------
(* What a finished run is summed up as: backtest/metrics.py over its equity  *)
(* curve and its trades, and the digest of agent/review.py that a research   *)
(* agent reads instead of them. A run is read bar by bar, trade by trade or  *)
(* decision by decision. Times are calendar days; ratios stay fractions.     *)
EXTENDS Integers, Sequences, FiniteSets, FiniteSetsExt, Sums

CONSTANTS
    Levels,          \* values an equity curve may take
    Gaps,            \* days from a bar to the next one
    MaxCurve,        \* bound: bars of the curve
    Names,           \* tickers traded
    Pnls,            \* what a trade may make
    MaxTrades,       \* bound: trades
    MaxLines,        \* bound: decisions journaled in the artifact
    WorstDrawdowns,  \* WORST_DRAWDOWNS
    TopTickers,      \* TOP_TICKERS
    WorstTickers     \* losers shown besides (3 in the code)

DigestAssumption ==
    /\ Levels \subseteq Nat \ {0} /\ Gaps \subseteq Nat \ {0} /\ Pnls \subseteq Int
    /\ MaxCurve \in Nat /\ MaxTrades \in Nat /\ MaxLines \in Nat
    /\ WorstDrawdowns \in Nat \ {0} /\ TopTickers \in Nat \ {0} /\ WorstTickers \in Nat \ {0}

VARIABLES
    about,     \* what is read: "curve", "ledger" or "gate"
    curve,     \* bars read so far: when and how much
    since,     \* the high the curve is below, 0 when it is at one
    high,      \* the last bar that was not below an earlier one
    longest,   \* days of the longest stretch that ended
    episodes,  \* stretches that ended, <<from, to>>
    trades,    \* closed trades: name and pnl
    lines      \* decisions.jsonl: verdicts <<action, rule>>, or Torn

reading == <<curve, since, high, longest, episodes>>

Init ==
    /\ about \in {"curve", "ledger", "gate"}
    /\ curve = <<>> /\ since = 0 /\ high = 1 /\ longest = 0 /\ episodes = <<>>
    /\ trades = <<>> /\ lines = <<>>

Peak(n) == Max({curve[i].v : i \in 1..n})

(* Mutant: from the first bar below.                                         *)
FellAtLow(t) == IF since = 0 THEN t ELSE since
(* Under water since the high it fell from.                                  *)
Fell(t) == IF since = 0 THEN high ELSE since

(* The loop of max_drawdown_duration_days and of _drawdowns: a bar below the *)
(* running peak, or one that ends the stretch below it.                      *)
Bar(v, gap) ==
    LET t == IF curve = <<>> THEN 1 ELSE curve[Len(curve)].t + gap
        low == curve # <<>> /\ v < Peak(Len(curve))
    IN /\ about = "curve" /\ Len(curve) < MaxCurve
       /\ curve' = Append(curve, [t |-> t, v |-> v])
       /\ IF low
          THEN since' = Fell(t) /\ UNCHANGED <<high, longest, episodes>>
          ELSE /\ high' = t /\ since' = 0
               /\ longest' = IF since = 0 THEN longest ELSE Max({longest, t - since})
               /\ episodes' = IF since = 0 THEN episodes ELSE Append(episodes, <<since, t>>)
       /\ UNCHANGED <<about, trades, lines>>

TradeCloses(name, pnl) ==
    /\ about = "ledger" /\ Len(trades) < MaxTrades
    /\ trades' = Append(trades, [name |-> name, pnl |-> pnl])
    /\ UNCHANGED <<about, reading, lines>>

Verdicts == {<<"pass", "">>, <<"clipped", "max_gross">>, <<"blocked", "max_gross">>, <<"blocked", "cooldown">>}
(* The artifact is written line by line; whoever dies at it leaves half of   *)
(* its last one.                                                             *)
Torn == <<<<"torn", "">>>>
Whole == \A i \in DOMAIN lines : lines[i] # Torn
Line ==
    /\ about = "gate" /\ Len(lines) < MaxLines /\ Whole
    /\ \E line \in {<<>>} \cup {<<a>> : a \in Verdicts} \cup {<<a, b>> : a, b \in Verdicts} :
          lines' = Append(lines, line)
    /\ UNCHANGED <<about, reading, trades>>
Tear ==
    /\ about = "gate" /\ Len(lines) < MaxLines /\ Whole
    /\ lines' = Append(lines, Torn) /\ UNCHANGED <<about, reading, trades>>

Next ==
    \/ \E v \in Levels, gap \in Gaps : Bar(v, gap)
    \/ \E name \in Names, pnl \in Pnls : TradeCloses(name, pnl)
    \/ Line \/ Tear

-----------------------------------------------------------------------------
(* A stretch that has not ended runs to the end of the curve.                *)
Duration == IF since = 0 THEN longest ELSE Max({longest, curve[Len(curve)].t - since})

Below(p, q) == p[1] * q[2] < q[1] * p[2]
Same(p, q) == p[1] * q[2] = q[1] * p[2]
(* drawdown_series, and its minimum.                                         *)
Drawdowns == {<<curve[i].v, Peak(i)>> : i \in DOMAIN curve}
MaxDrawdown == CHOOSE p \in Drawdowns : \A q \in Drawdowns : ~Below(q, p)

(* Which of 1..k comes at a place when they are sorted in an order.          *)
At(k, order, place) ==
    CHOOSE i \in 1..k : Cardinality({j \in 1..k : <<j, i>> \in order}) = place - 1

(* _drawdowns: how deep each stretch went from its first bar, deepest first, *)
(* of two as deep the earlier one.                                           *)
Depth(from, to) ==
    LET seg == {i \in DOMAIN curve : from <= curve[i].t /\ (to = 0 \/ curve[i].t <= to)}
    IN <<Min({curve[i].v : i \in seg}), curve[Min(seg)].v>>
Stretches == IF since = 0 THEN episodes ELSE Append(episodes, <<since, 0>>)
First(seq, n) == SubSeq(seq, 1, Min({n, Len(seq)}))
Deeper(e, f) == Below(Depth(e[1], e[2]), Depth(f[1], f[2]))
DeepestFirst(seq) ==
    {x \in (DOMAIN seq) \X (DOMAIN seq) :
        Deeper(seq[x[1]], seq[x[2]]) \/ (x[1] < x[2] /\ ~Deeper(seq[x[2]], seq[x[1]]))}
Sorted(seq) == [p \in DOMAIN seq |-> seq[At(Len(seq), DeepestFirst(seq), p)]]
(* Mutant: cut to the limit before they are ranked.                          *)
WorstOfFirst == IF Len(curve) < 3 THEN <<>> ELSE Sorted(First(Stretches, WorstDrawdowns))
Worst == IF Len(curve) < 3 THEN <<>> ELSE First(Sorted(Stretches), WorstDrawdowns)

-----------------------------------------------------------------------------
Pnl(S) == Total([i \in S |-> trades[i].pnl])
Wins == {i \in DOMAIN trades : trades[i].pnl > 0}
(* Mutant: a trade that broke even is neither.                               *)
BelowZero == {i \in DOMAIN trades : trades[i].pnl < 0}
(* summarize_trades: a trade that broke even is a loss.                      *)
Losses == {i \in DOMAIN trades : trades[i].pnl <= 0}
Mean(S) == IF S = {} THEN <<0, 1>> ELSE <<Pnl(S), Cardinality(S)>>
(* expectancy: the rate of hits times the average win, and the rest of one   *)
(* times the average loss, as a fraction.                                    *)
Expectancy ==
    LET n == Cardinality(DOMAIN trades)
        hits == Cardinality(Wins)
        win == Mean(Wins)
        loss == Mean(Losses)
    IN <<hits * win[1] * loss[2] + (n - hits) * loss[1] * win[2], n * win[2] * loss[2]>>

(* _by_ticker: per name, best first and ties as they come; the first few are *)
(* shown, and of the last few those that lost.                               *)
Made(name) == Pnl({i \in DOMAIN trades : trades[i].name = name})
Traded == {trades[i].name : i \in DOMAIN trades}
Grouped == CHOOSE f \in Bijection(1..Cardinality(Traded), Traded) : TRUE
BestFirst ==
    {x \in (DOMAIN Grouped) \X (DOMAIN Grouped) :
        \/ Made(Grouped[x[1]]) > Made(Grouped[x[2]])
        \/ Made(Grouped[x[1]]) = Made(Grouped[x[2]]) /\ x[1] < x[2]}
(* Mutant: worst first.                                                      *)
RankedUp ==
    [p \in DOMAIN Grouped |-> Grouped[At(Len(Grouped), {<<x[2], x[1]>> : x \in BestFirst}, p)]]
Ranked == [p \in DOMAIN Grouped |-> Grouped[At(Len(Grouped), BestFirst, p)]]
Rows == Range(First(Ranked, TopTickers))
Losers ==
    {x \in Range(Ranked) : \E i \in DOMAIN Ranked :
        Ranked[i] = x /\ i > Len(Ranked) - WorstTickers /\ Made(x) < 0}
GrossWin == Total([x \in {y \in Traded : Made(y) > 0} |-> Made(x)])
Concentration ==
    IF Traded = {} THEN <<>>
    ELSE [tickers |-> Cardinality(Traded), total |-> Total([x \in Traded |-> Made(x)]),
          top |-> Made(Ranked[1]), gross |-> GrossWin]

-----------------------------------------------------------------------------
Count(lns, which) ==
    Cardinality({x \in UNION {{i} \X DOMAIN lns[i] : i \in DOMAIN lns} : lns[x[1]][x[2]] \in which})
Rules == {v[2] : v \in Verdicts} \ {""}
Tally(lns) ==
    [decisions |-> Len(lns),
     intervened |-> Count(lns, {v \in Verdicts : v[1] # "pass"}),
     rules |-> [r \in Rules |-> Count(lns, {v \in Verdicts : v[1] # "pass" /\ v[2] = r})]]
(* Mutant: a line that cannot be read is passed over.                        *)
GateActivityOfRest == Tally(SelectSeq(lines, LAMBDA x : x # Torn))
(* gate_activity: a line that cannot be read, and nothing is said.           *)
GateActivity == IF Whole THEN Tally(lines) ELSE <<>>

-----------------------------------------------------------------------------
(* The duration of the worst drawdown is the longest time from a high to the *)
(* first bar that is as high again, or to the end of a curve that never gets *)
(* there: of all pairs of bars, never one shorter or longer.                 *)
DurationIsLongest ==
    LET pairs == {p \in (DOMAIN curve) \X (DOMAIN curve) :
                    /\ p[1] < p[2] /\ curve[p[1] + 1].v < curve[p[1]].v
                    /\ \A k \in (p[1] + 1)..(p[2] - 1) : curve[k].v < curve[p[1]].v}
    IN curve # <<>> => Duration = Max({0} \cup {curve[p[2]].t - curve[p[1]].t : p \in pairs})

(* The episodes a digest lists and the drawdown a run reports are about the  *)
(* same curve: the first listed is as deep as the reported maximum, however  *)
(* many stretches there are and wherever the deepest lies among them, and    *)
(* no episode is listed for a curve without a drawdown.                      *)
EpisodesExplainDrawdown ==
    Len(curve) >= 3 =>
        IF Worst = <<>> THEN Same(MaxDrawdown, <<1, 1>>)
        ELSE Same(Depth(Worst[1][1], Worst[1][2]), MaxDrawdown)

(* What a trade is expected to make, put together from the rate of hits, the *)
(* average win and the average loss, is what the trades made on average: no  *)
(* trade is left out of all three, one that broke even included.             *)
ExpectancyIsMean ==
    trades # <<>> => Same(Expectancy, Mean(DOMAIN trades))

(* The attribution accounts for the result: its total is what the trades     *)
(* made, no name made more than the one it puts first, and a loser it leaves *)
(* out lost no more than each of the last few it shows.                      *)
AttributionAddsUp ==
    trades # <<>> =>
        /\ Concentration.total = Pnl(DOMAIN trades)
        /\ \A x \in Traded :
              /\ Made(x) <= Concentration.top
              /\ x \notin Rows \cup Losers => \A y \in Losers : Made(x) >= Made(y)

(* The digest speaks of all decisions of the run or of none: an artifact     *)
(* whose writer died on a line gives no counts, and otherwise every verdict  *)
(* that clipped or blocked is counted under its rule.                        *)
GateIsWholeOrNothing ==
    lines # <<>> /\ GateActivity # <<>> =>
        /\ GateActivity.decisions = Len(lines)
        /\ Total(GateActivity.rules) = GateActivity.intervened
=============================================================================
