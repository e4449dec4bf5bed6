------------------------------- MODULE Trends -------------------------------
(***************************************************************************)
(* The two figures of the dashboard that depend on the calendar: the       *)
(* reservations per day of the last days, and the revenue of one period    *)
(* against that of the one before.  The service takes midnight from the    *)
(* clock of the server, and the names of the days from UTC.                *)
(*                                                                         *)
(* Time is UTC in ticks, Day of them to a day.                             *)
(***************************************************************************)
EXTENDS Integers, FiniteSets, FiniteSetsExt

CONSTANTS
  Hires,      \* the reservations that may be made
  Fee,        \* Hires -> totalPrice
  Day,
  Window,     \* days of the trend: 14 in the code
  Period,     \* ticks of the periods that are compared: 30 days in the code
  Zones,      \* offsets from UTC that the server's clock may have
  Clock,      \* bound: the instants
  Null

\* No clock is a day or more from UTC, and the clock begins somewhere.
ASSUME TrendAssumption ==
  /\ IsFiniteSet(Hires) /\ Fee \in [Hires -> Nat]
  /\ Day \in Nat \ {0} /\ Window \in Nat \ {0} /\ Period \in Nat
  /\ Zones \subseteq (1 - Day) .. (Day - 1)
  /\ Clock \subseteq Nat /\ \E t \in Clock : \A u \in Clock : t <= u
  /\ Null \notin Nat

VARIABLES
  zone,       \* the offset of this server
  now,
  created,    \* Reservation.createdAt; Null without a row
  off         \* reservations that were rejected or cancelled

figVars == <<zone, now, created, off>>

FiguresInit ==
  /\ zone \in Zones
  /\ now = Min(Clock)
  /\ created = [r \in Hires |-> Null]
  /\ off = {}

FigTick ==
  /\ now + 1 \in Clock
  /\ now' = now + 1
  /\ UNCHANGED <<zone, created, off>>

\* @default(now())
CreatedAt == now

PlaceHire(r) ==
  /\ created[r] = Null
  /\ created' = [created EXCEPT ![r] = CreatedAt]
  /\ UNCHANGED <<zone, now, off>>

CallOff(r) ==
  /\ created[r] # Null /\ r \notin off
  /\ off' = off \cup {r}
  /\ UNCHANGED <<zone, now, created>>

FiguresNext == FigTick \/ \E r \in Hires : PlaceHire(r) \/ CallOff(r)

FiguresSpec == FiguresInit /\ [][FiguresNext]_figVars

-----------------------------------------------------------------------------
\* getReservationTrends

\* setHours(0, 0, 0, 0) on the server's clock
LocalMidnight(t) == ((t + zone) \div Day) * Day - zone

\* Mutant: the window begins a day too early.
TrendStart_Early == LocalMidnight(now) - Window * Day

TrendStart == LocalMidnight(now) - (Window - 1) * Day

\* toISOString().slice(0, 10)
DateOf(t) == t \div Day

Buckets == {DateOf(TrendStart + i * Day) : i \in 0..(Window - 1)}

InWindow == {r \in Hires : created[r] # Null /\ created[r] >= TrendStart}

Counted(d) == {r \in InWindow : DateOf(created[r]) = d}

Trend == [d \in Buckets |->
            [count   |-> Cardinality(Counted(d)),
             revenue |-> MapThenSumSet(LAMBDA r : Fee[r], Counted(d) \ off)]]

-----------------------------------------------------------------------------
\* getRevenueChangePct

Latest == {r \in Hires : created[r] # Null /\ created[r] >= now - Period}

Prior ==
  {r \in Hires : /\ created[r] # Null
               /\ created[r] >= now - 2 * Period /\ created[r] < now - Period}

Revenue(S) == MapThenSumSet(LAMBDA r : Fee[r], S \ off)

\* In tenths of a percent, rounded to the nearest; Null without a baseline.
RevenueChange ==
  LET prior == Revenue(Prior)
      gain  == Revenue(Latest) - prior
  IN  IF prior = 0 THEN Null ELSE (2000 * gain + prior) \div (2 * prior)

-----------------------------------------------------------------------------
\* Properties

\* The clock and the rows keep their types.
FiguresTypeOK ==
  /\ zone \in Zones /\ now \in Clock
  /\ created \in [Hires -> Clock \cup {Null}] /\ off \subseteq Hires
  /\ \A r \in Hires : created[r] # Null => created[r] <= now
  /\ \A r \in off : created[r] # Null

\* "Reservation count and revenue per day for the last 14 days": on a server
\* whose clock is UTC each reservation of these days is counted, and unless
\* it was called off its price is in the revenue.  Elsewhere the last of the
\* UTC dates is missing from the buckets, and nothing else.
TrendCountsAll ==
  LET counted == UNION {Counted(d) : d \in Buckets}
      recent  == {r \in Hires : /\ created[r] # Null
                              /\ DateOf(created[r]) > DateOf(now) - Window}
      Total(part(_)) == MapThenSumSet(part, Buckets)
  IN  /\ zone = 0 =>
           /\ counted = recent
           /\ Total(LAMBDA d : Trend[d].count) = Cardinality(recent)
           /\ Total(LAMBDA d : Trend[d].revenue) = Revenue(recent)
      /\ \A r \in InWindow \ counted : DateOf(created[r]) = Max(Buckets) + 1

\* The two periods meet without a gap and do not overlap, and the change is
\* not given without a baseline: no change is "invented".
PeriodsTile ==
  /\ Latest \cap Prior = {}
  /\ \A r \in Hires : created[r] # Null /\ created[r] >= now - 2 * Period
                      => r \in Latest \cup Prior
  /\ RevenueChange # Null => \E r \in Hires \ off : created[r] # Null
                                                 /\ created[r] < now - Period

\* Each reservation falls on one day of the trend and in one period.
FiguresTile == FiguresTypeOK /\ TrendCountsAll /\ PeriodsTile

=============================================================================
