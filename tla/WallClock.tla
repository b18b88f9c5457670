------------------------------ MODULE WallClock -------------------------------
(* The clock of the live loop (engine/clock.py). Time is in minutes of       *)
(* Eastern time; a daily strategy fires at its minute of every session, an   *)
(* intraday one at the end of every bar that ends in regular hours. The loop *)
(* asks for the fire after the last one, so a loop that was late fires for   *)
(* what it missed.                                                           *)
EXTENDS Calendar, Sequences

CONSTANTS
    Starts,       \* when a clock may be started
    Intervals,    \* minutes of a bar; 1440 is daily
    DecideAt,     \* minute of the day a daily strategy decides at
    MaxFires      \* max_fires

ClockAssumption ==
    /\ \A t \in Starts : t \in Nat /\ t >= 1440
    /\ Intervals \subseteq Nat \ {0} /\ DecideAt \in 0..1439 /\ MaxFires \in Nat

OpensAt == 9 * 60 + 30
ClosesAt == 16 * 60
Day(t) == t \div 1440
Minute(day, minute) == day * 1440 + minute

VARIABLES
    interval,    \* the strategy's timeframe
    began,       \* when the clock was started
    fires        \* what it fired

(* Mutant: a fire that is exactly now is still to come.                      *)
NextDailyFireAgain(ref) ==
    LET d == Day(ref)
    IN IF Minute(d, DecideAt) < ref \/ ~IsTradingDay(d)
       THEN Minute(NextTradingDay(d), DecideAt) ELSE Minute(d, DecideAt)
NextDailyFire(ref) ==
    LET d == Day(ref)
    IN IF Minute(d, DecideAt) <= ref \/ ~IsTradingDay(d)
       THEN Minute(NextTradingDay(d), DecideAt) ELSE Minute(d, DecideAt)

(* Mutant: bars begin with the hours of the clock, not with the session.     *)
BoundariesByTheHour(d) ==
    {t \in Minute(d, OpensAt) .. Minute(d, ClosesAt) :
        t > Minute(d, OpensAt) /\ (t - Minute(d, 0)) % interval = 0}
(* The ends of a session's bars.                                             *)
Boundaries(d) ==
    {t \in Minute(d, OpensAt) .. Minute(d, ClosesAt) :
        t > Minute(d, OpensAt) /\ (t - Minute(d, OpensAt)) % interval = 0}
NextIntradayFire(ref) ==
    LET d == Day(ref)
        ahead == {t \in IF IsTradingDay(d) THEN Boundaries(d) ELSE {} : t > ref}
        first(T) == CHOOSE t \in T : \A u \in T : t <= u
    IN IF ahead # {} THEN first(ahead) ELSE first(Boundaries(NextTradingDay(d)))

NextFire(ref) == IF interval >= 1440 THEN NextDailyFire(ref) ELSE NextIntradayFire(ref)

Init == interval \in Intervals /\ began \in Starts /\ fires = <<>>
(* No bar longer than a session ends in one: the clock raises.               *)
Raises == interval < 1440 /\ interval > ClosesAt - OpensAt
Fire ==
    /\ Len(fires) < MaxFires /\ ~Raises
    /\ fires' = Append(fires, NextFire(IF fires = <<>> THEN began ELSE fires[Len(fires)]))
    /\ UNCHANGED <<interval, began>>
Next == Fire

-----------------------------------------------------------------------------
(* A clock fires for every session after it was started, or every bar of     *)
(* one, in order and once, over weekends, holidays and the ends of sessions: *)
(* the fires are exactly the due moments up to the last of them.             *)
Due(d) == IF interval >= 1440 THEN {Minute(d, DecideAt)} ELSE Boundaries(d)
NoFireMissed ==
    fires # <<>> =>
        /\ \A i \in 2..Len(fires) : fires[i - 1] < fires[i]
        /\ {fires[i] : i \in 1..Len(fires)} =
             {t \in UNION {Due(d) : d \in TradingDays(Day(began), Day(fires[Len(fires)]))} :
                 began < t /\ t <= fires[Len(fires)]}

(* The last bar of a session that has whole bars is fired for at the close.  *)
CloseIsFired ==
    \A i \in 2..Len(fires) :
        (interval < 1440 /\ 390 % interval = 0 /\ Day(fires[i - 1]) < Day(fires[i])) =>
            fires[i - 1] = Minute(Day(fires[i - 1]), ClosesAt)

(* Good Friday, on which nothing trades, is two days before the Sunday after *)
(* the church's full moon, whichever way that is computed: by the golden     *)
(* number and the epact here.                                                *)
EasterIsAfterTheMoon ==
    fires # <<>> =>
      LET y == Year(Day(fires[1]))
          golden == (y % 19) + 1
          century == y \div 100 + 1
          sundays == (5 * y) \div 4 - ((3 * century) \div 4 - 12) - 10
          age == (11 * golden + 20 + ((8 * century + 5) \div 25 - 5) - ((3 * century) \div 4 - 12)) % 30
          epact == IF age = 24 \/ (age = 25 /\ golden > 11) THEN age + 1 ELSE age
          moon == IF 44 - epact < 21 THEN 74 - epact ELSE 44 - epact
      IN Easter(y) = Date(y, 3, 1) + moon + 6 - ((sundays + moon) % 7)
=============================================================================
